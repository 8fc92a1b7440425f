----------------------------- MODULE ReleaseJob -----------------------------
(***************************************************************************)
(* The two candidate workflows: a job on a runner takes a checkout of the  *)
(* client through the preparation scripts, builds it, verifies what was    *)
(* built and publishes it.  A step that fails ends the job; the step that  *)
(* removes the signing file or the API cache runs whatever happened before,*)
(* unless the runner itself is gone.                                       *)
(*                                                                         *)
(* Around the job stand the accidents the scripts are written against: a   *)
(* process that dies between two writes or within one, a job started again *)
(* over what another has left, a script that is called out of turn.        *)
(***************************************************************************)
EXTENDS WindowsSources, FiniteSets, Naturals, TLC

CONSTANTS NoTool, MaxJobs, MaxStrays

VARIABLES
    platform,  \* which of the two workflows runs
    edits, torn, running, left, passed, \* the checkout, as in PreparedTree
    byHand,    \* the running tool was not started by the workflow
    at,        \* the step of the workflow
    phase,     \* "steps", "cleanup" or "over"
    failed,    \* a step of this job has failed
    secret,    \* the signing file or API cache lies in the runner's directory
    lost,      \* the runner was lost before the job could clean up
    built,     \* the product of the build step, or NoBuild
    staged,    \* the directory that is uploaded exists
    published, \* the products that were uploaded
    accident,  \* something other than the workflow has acted on this checkout
    jobs, strays

tree == <<edits, torn, running, left, passed>>
job  == <<byHand, at, phase, failed, secret, lost, built, staged, published>>
vars == <<platform, tree, job, accident, jobs, strays>>

Tools == AndroidTools @@ WindowsTools
ToolNames == DOMAIN Tools
Outside == AndroidOutside \cup WindowsOutside
WriteSets == [t \in ToolNames |-> ToSet(Tools[t].writes)]
Files == UNION {WriteSets[t] : t \in ToolNames}
Added == UNION {Tools[t].creates : t \in ToolNames}

(* The order the pinned hashes agree on: those of the candidate's inputs    *)
(* and of every script's own manifest.                                     *)
Reviewed ==
    <<"a_baseline", "a_online", "a_accounts", "a_notes", "a_brand", "a_candidate",
      "a_folders", "a_callbacks", "a_read", "a_secret", "a_appearance", "a_archive",
      "a_voice", "a_engine", "a_connection", "a_library", "a_capture",
      "w_online", "w_accounts", "w_notes", "w_folders", "w_reconcile", "w_mutations",
      "w_bulk", "w_brand", "w_appearance", "w_read", "w_voice", "w_archive",
      "w_connection", "w_startup", "w_library", "w_dependencies">>

Rank == [t \in ToolNames |-> CHOOSE i \in DOMAIN Reviewed : Reviewed[i] = t]

Tree == INSTANCE PreparedTree WITH
    Tools <- ToolNames, Writes <- WriteSets, left <- ToSet(left)

ASSUME ToolsAssumption == Tree!WellFormed

(* A script creates only files that no script before it writes.            *)
ASSUME TablesAssumption ==
    \A t \in ToolNames :
        /\ Tools[t].writes \in Seq(Files) /\ IsInjective(Tools[t].writes)
        /\ Tools[t].reads \subseteq Files /\ Tools[t].creates \subseteq WriteSets[t]
        /\ Tools[t].tree \in {"any", "clean", "offline", "own"}
        /\ \A f \in Tools[t].creates : Tree!Pre(t, f) = {}

ToolsOf(p)    == IF p = "android" THEN DOMAIN AndroidTools ELSE DOMAIN WindowsTools
WorkflowOf(p) == IF p = "android" THEN AndroidWorkflow ELSE WindowsWorkflow

PlatformTools == ToolsOf(platform)
Workflow      == WorkflowOf(platform)

(* A workflow prepares every tool of its platform, once, in the reviewed   *)
(* order; it checks a tool when it has prepared it, and tries it when it   *)
(* is about to.                                                            *)
ASSUME StepsAssumption ==
    \A p \in {"android", "windows"} : LET w == WorkflowOf(p) IN
        /\ w \in Seq([act : STRING, tool : STRING]) /\ w # <<>>
        /\ \A i \in DOMAIN w : w[i].act \in {"prepare", "check", "try"} => w[i].tool \in ToolsOf(p)
        /\ \A t \in ToolsOf(p) : \E i \in DOMAIN w : w[i] = [act |-> "prepare", tool |-> t]
        /\ \A i, k \in DOMAIN w : i < k /\ w[i].act = "prepare" /\ w[k].act = "prepare" =>
               Rank[w[i].tool] < Rank[w[k].tool]
        /\ \A i \in DOMAIN w : w[i].act = "check" =>
               i > 1 /\ w[i - 1] = [act |-> "prepare", tool |-> w[i].tool]
        /\ \A i \in DOMAIN w : w[i].act = "try" =>
               i < Len(w) /\ w[i + 1] = [act |-> "prepare", tool |-> w[i].tool]

(* It demands a clean checkout before that, and builds after it, with the  *)
(* secret; then it collects, and uploads as its last step.                 *)
ASSUME PhasesAssumption ==
    \A p \in {"android", "windows"} : LET w == WorkflowOf(p) IN
        /\ w[Len(w)].act = "upload"
        /\ \A i, k \in DOMAIN w : w[i].act = "clean" /\ w[k].act = "prepare" => i < k
        /\ \A i, k \in DOMAIN w : w[i].act = "build" /\ w[k].act \in {"prepare", "secret"} => k < i
        /\ \A act \in {"secret", "build"} : \E i \in DOMAIN w : w[i].act = act
        /\ \A i, k \in DOMAIN w : w[i].act = "build" /\ w[k].act \in {"collect", "upload"} => i < k
        /\ \A i, k \in DOMAIN w : w[i].act = w[k].act /\ w[i].act \in {"secret", "collect"} => i = k

(* The platforms share no file, and what a tool wants git status to say is *)
(* what the tools before it leave.                                         *)
ASSUME StatusAssumption ==
    \A p \in {"android", "windows"} : \A t, u \in ToolsOf(p) :
        /\ ToolsOf(p) \subseteq ToolNames
        /\ \A f \in WriteSets[t] \cup Tools[t].reads : Tree!Writers(f) \subseteq ToolsOf(p)
        /\ Rank[u] < Rank[t] =>
               /\ Tools[t].tree \notin {"clean", "own"}
               /\ Tools[t].tree = "offline" => WriteSets[u] \subseteq Added \cup ToSet(BaselinePaths)
        /\ Tools[t].tree = "own" => WriteSets[t] \cap Outside = {}

NoBuild == [incomplete |-> {}, unfit |-> {}, signed |-> FALSE]

-----------------------------------------------------------------------------
(* What a script looks at before it writes.                                *)

Exists(f)   == edits[f] # {} \/ f \in torn
Modified(f) == f \notin Outside /\ Exists(f)

(* Mutant: git status must be clean, whatever the baseline has rewritten.  *)
TrackedCleanWholly(except) == \A f \in Files \ Added : ~Modified(f)

(* git status: of the tracked files, or with those that were added.        *)
TrackedClean(except) == \A f \in Files \ (Added \cup except) : ~Modified(f)
StatusClean == \A f \in Files : ~Modified(f)

TreeAllows(t) ==
    CASE Tools[t].tree = "any"     -> TRUE
      [] Tools[t].tree = "clean"   -> TrackedClean({})
      [] Tools[t].tree = "offline" -> TrackedClean(ToSet(BaselinePaths))
      [] Tools[t].tree = "own"     -> StatusClean

Fresh(t)  == \A f \in Tools[t].creates : ~Exists(f)

(* Mutant: only what a script does not rewrite is compared with its pin.   *)
InputsRead(t) == \A f \in Tools[t].reads : Tree!Holds(f, Tree!Pre(t, f))

Inputs(t) == \A f \in (WriteSets[t] \ Tools[t].creates) \cup Tools[t].reads :
                 Tree!Holds(f, Tree!Pre(t, f))

MayPrepare(t) == TreeAllows(t) /\ Fresh(t) /\ Inputs(t)

(* --check looks at what lies in the checkout; that of the Windows         *)
(* identity also at everything that must not have been touched yet.        *)
OwnChanges(t) ==
    Tools[t].tree = "own" => {f \in Files : Modified(f)} = WriteSets[t]
MayPass(t) ==
    /\ OwnChanges(t)
    /\ \A f \in WriteSets[t] \ Outside : Tree!Holds(f, Tree!Post(t, f))

-----------------------------------------------------------------------------
Init ==
    /\ platform \in {"android", "windows"}
    /\ edits = [f \in Files |-> {}]
    /\ torn = {} /\ running = NoTool /\ left = <<>> /\ passed = {}
    /\ byHand = FALSE /\ at = 1 /\ phase = "steps" /\ failed = FALSE
    /\ secret = FALSE /\ lost = FALSE
    /\ built = NoBuild /\ staged = FALSE /\ published = {}
    /\ accident = FALSE /\ jobs = 1 /\ strays = 0

Doing(act) == phase = "steps" /\ running = NoTool /\ Workflow[at].act = act
ThisTool   == Workflow[at].tool

StepDone ==
    /\ at' = at + 1
    /\ UNCHANGED <<phase, failed>>
StepFails ==
    /\ phase' = "cleanup"
    /\ failed' = TRUE
    /\ UNCHANGED at

(* The owner's inputs are well formed, or the job ends before it costs     *)
(* anything.                                                               *)
ValidateInputs ==
    /\ Doing("inputs")
    /\ \/ StepDone /\ UNCHANGED accident
       \/ StepFails /\ accident' = TRUE
    /\ UNCHANGED <<platform, tree, byHand, secret, lost, built, staged, published, jobs, strays>>

(* The file is created exclusively.  The signing file is verified only     *)
(* when it lies there: a certificate that is not the pinned one leaves it. *)
WriteSecret ==
    /\ Doing("secret")
    /\ \/ secret /\ StepFails /\ UNCHANGED <<secret, accident>>
       \/ ~secret /\ StepDone /\ secret' = TRUE /\ UNCHANGED accident
       \/ /\ ~secret /\ platform = "android"
          /\ StepFails /\ secret' = TRUE /\ accident' = TRUE
    /\ UNCHANGED <<platform, tree, byHand, lost, built, staged, published, jobs, strays>>

(* The Windows build starts with git status of the whole checkout.         *)
RequireClean ==
    /\ Doing("clean")
    /\ IF StatusClean THEN StepDone ELSE StepFails
    /\ UNCHANGED <<platform, tree, byHand, secret, lost, built, staged, published,
                   accident, jobs, strays>>

(* Runs a tool without its writes: the online preparation with --check.    *)
TryTool ==
    /\ Doing("try")
    /\ IF MayPrepare(ThisTool) THEN StepDone ELSE StepFails
    /\ UNCHANGED <<platform, tree, byHand, secret, lost, built, staged, published,
                   accident, jobs, strays>>

StartWriting(t) ==
    /\ running' = t
    /\ left' = Tools[t].writes
    /\ UNCHANGED <<edits, torn, passed>>

PrepareTool ==
    /\ Doing("prepare")
    /\ IF MayPrepare(ThisTool)
       THEN StartWriting(ThisTool) /\ UNCHANGED <<at, phase, failed>>
       ELSE StepFails /\ UNCHANGED tree
    /\ UNCHANGED <<platform, byHand, secret, lost, built, staged, published,
                   accident, jobs, strays>>

WriteFile ==
    /\ left # <<>>
    /\ edits' = [edits EXCEPT ![Head(left)] = @ \cup {running}]
    /\ left' = Tail(left)
    /\ UNCHANGED <<platform, torn, running, passed, job, accident, jobs, strays>>

(* Mutant: a script reports success without having written its last file.  *)
FinishToolEarly ==
    /\ running # NoTool /\ Len(left) <= 1
    /\ passed' = passed \cup {running}
    /\ running' = NoTool /\ left' = <<>>
    /\ byHand' = FALSE
    /\ IF byHand THEN UNCHANGED <<at, phase, failed>> ELSE StepDone
    /\ UNCHANGED <<platform, edits, torn, secret, lost, built, staged, published,
                   accident, jobs, strays>>

FinishTool ==
    /\ running # NoTool /\ left = <<>>
    /\ passed' = passed \cup {running}
    /\ running' = NoTool
    /\ byHand' = FALSE
    /\ IF byHand THEN UNCHANGED <<at, phase, failed>> ELSE StepDone
    /\ UNCHANGED <<platform, edits, torn, left, secret, lost, built, staged, published,
                   accident, jobs, strays>>

CheckTool ==
    /\ Doing("check")
    /\ IF MayPass(ThisTool)
       THEN StepDone /\ passed' = passed \cup {ThisTool}
       ELSE StepFails /\ UNCHANGED passed
    /\ UNCHANGED <<platform, edits, torn, running, left, byHand, secret, lost, built,
                   staged, published, accident, jobs, strays>>

(* The build takes the tree as it stands.                                  *)
Incomplete ==
    {f \in Files : Tree!Writers(f) \cap PlatformTools # {} /\ ~Tree!Holds(f, Tree!Writers(f))}

(* Of the transport the collector sees that the library is there, with the *)
(* header of one, and notices equal to those of the tree: a file that was  *)
(* cut passes, unless the library lost its header.                         *)
Bundled == {"ConnectionLibrary", "ConnectionNotices"} \cap Incomplete
Absent  == {f \in Bundled : ~Exists(f)}

Build ==
    /\ Doing("build")
    /\ StepDone
    /\ \E unfit \in {Absent, Absent \cup (Bundled \cap {"ConnectionLibrary"})} :
          built' = [incomplete |-> Incomplete, unfit |-> unfit, signed |-> secret]
    /\ UNCHANGED <<platform, tree, byHand, secret, lost, staged, published, accident, jobs, strays>>

(* The Android collector accepts the APK only with the pinned signer and   *)
(* what it sees of the transport, and makes a new directory; the Windows   *)
(* one uses a directory that is there.                                     *)
Acceptable == platform = "android" => built.signed /\ built.unfit = {} /\ ~staged

Collect ==
    /\ Doing("collect")
    /\ IF Acceptable THEN StepDone /\ staged' = TRUE ELSE StepFails /\ UNCHANGED staged
    /\ UNCHANGED <<platform, tree, byHand, secret, lost, built, published, accident, jobs, strays>>

Upload ==
    /\ Doing("upload")
    /\ phase' = "cleanup"
    /\ published' = published \cup {built}
    /\ UNCHANGED <<platform, tree, byHand, at, failed, secret, lost, built, staged,
                   accident, jobs, strays>>

(* Mutant: the clean-up is a step like the others, without always().       *)
CleanUpAfterSuccess ==
    /\ phase = "cleanup"
    /\ phase' = "over"
    /\ secret' = (secret /\ failed)
    /\ lost' = FALSE
    /\ UNCHANGED <<platform, tree, byHand, at, failed, built, staged, published,
                   accident, jobs, strays>>

CleanUp ==
    /\ phase = "cleanup"
    /\ phase' = "over"
    /\ secret' = FALSE
    /\ lost' = FALSE
    /\ UNCHANGED <<platform, tree, byHand, at, failed, built, staged, published,
                   accident, jobs, strays>>

-----------------------------------------------------------------------------
(* The accidents.                                                          *)

Cut ==
    /\ running' = NoTool /\ left' = <<>> /\ byHand' = FALSE
    /\ torn' \in {torn} \cup {torn \cup {Head(left)} : l \in {x \in {left} : x # <<>>}}
    /\ UNCHANGED <<edits, passed>>

(* A command dies: of its own, at its timeout, with the step.              *)
StepDies ==
    /\ phase = "steps"
    /\ Cut
    /\ StepFails
    /\ accident' = TRUE
    /\ UNCHANGED <<platform, secret, lost, built, staged, published, jobs, strays>>

RunnerLost ==
    /\ phase \in {"steps", "cleanup"}
    /\ Cut
    /\ phase' = "over"
    /\ failed' = TRUE
    /\ lost' = TRUE
    /\ accident' = TRUE
    /\ UNCHANGED <<platform, at, secret, built, staged, published, jobs, strays>>

(* A script is called by hand on the checkout.                             *)
Stray(t) ==
    /\ phase = "steps" /\ running = NoTool /\ strays < MaxStrays
    /\ MayPrepare(t)
    /\ StartWriting(t)
    /\ byHand' = TRUE
    /\ strays' = strays + 1
    /\ accident' = TRUE
    /\ UNCHANGED <<platform, at, phase, failed, secret, lost, built, staged, published, jobs>>

(* Another job: on a new runner, or over what the last one has left.       *)
Restart ==
    /\ phase = "over" /\ jobs < MaxJobs
    /\ jobs' = jobs + 1
    /\ at' = 1 /\ phase' = "steps" /\ failed' = FALSE /\ built' = NoBuild
    /\ UNCHANGED <<platform, byHand, published, strays>>

NewRunner ==
    /\ Restart
    /\ edits' = [f \in Files |-> {}]
    /\ torn' = {} /\ running' = NoTool /\ left' = <<>> /\ passed' = {}
    /\ secret' = FALSE /\ lost' = FALSE /\ staged' = FALSE /\ accident' = FALSE

SameRunner ==
    /\ Restart
    /\ accident' = TRUE
    /\ UNCHANGED <<tree, secret, lost, staged>>

Next ==
    \/ ValidateInputs \/ WriteSecret \/ RequireClean \/ TryTool \/ PrepareTool
    \/ WriteFile \/ FinishTool \/ CheckTool \/ Build \/ Collect \/ Upload \/ CleanUp
    \/ StepDies \/ RunnerLost \/ (\E t \in PlatformTools : Stray(t))
    \/ NewRunner \/ SameRunner

Spec == Init /\ [][Next]_vars

-----------------------------------------------------------------------------
(* Nothing is published that was not built from a tree to which every      *)
(* script of its workflow was applied in full, with its owner's secret,    *)
(* whatever died, was repeated or was called out of turn before.           *)
PublishedIsWhole ==
    \A product \in published : product.incomplete = {} /\ product.signed

(* The pins, the places where the checks stand and the order of the steps  *)
(* agree: a job that nothing disturbs is never refused.                    *)
ReviewedOrderPasses == failed => accident

(* A job that is over has left no secret behind, unless its runner was     *)
(* lost; and then the next job on it removes the file.                     *)
SecretsRemoved == phase = "over" /\ secret => lost

(* The scripts keep the promise of PreparedTree, although their checks see *)
(* only a part of it: not the directories outside the checkout.            *)
ImplementsPreparedTree == Tree!Spec
=============================================================================
