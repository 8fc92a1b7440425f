----------------------------- MODULE DeviceRun -----------------------------
(***************************************************************************)
(* The three scripts that try a compiled client on a disposable emulator:  *)
(* "sandbox" logs a reserved test number in on the test servers, "client"  *)
(* goes from the launcher to the login screen, and "candidate" from the    *)
(* introduction to the connection dialog.  Each acts on the screen through *)
(* coordinates it takes from a dump of the user interface, and writes into *)
(* verification.json what it has seen.                                     *)
(*                                                                         *)
(* A hierarchy is abstracted to the page it shows.  A page on which a      *)
(* script finds something to act upon stays until somebody acts; a page    *)
(* that waits for a server moves on by itself.  What the device answers    *)
(* to an act is free: what is expected, nothing, a crash, or another page. *)
(* Marks a script sets before the last check of a step are set with it.    *)
(***************************************************************************)
EXTENDS Naturals, Sequences

CONSTANTS
    Attempts,  \* dumps of one look: 12, and 4 of the candidate
    Patience,  \* of which may fail: 4; those of the candidate end it at once
    Overlays,  \* that are put away before the login form: 4
    CodeTurns  \* looks that wait for the form of the code: 10

VARIABLES
    script,    \* which of the three runs
    input,     \* the APK that was downloaded: "reviewed" or "other"
    leftover,  \* an earlier run has left its directories on this runner
    phase,     \* where the script is: see Trying and Finally
    at,        \* the step of its program
    turn,      \* how often it has looked again within that step
    look,      \* the dump under way: attempts, failures, and the remote file
    seen,      \* the page of the last hierarchy that was accepted
    page,      \* the page the device shows
    test,      \* the client talks to the test servers
    crashed,   \* the crash buffer names the client
    process,   \* the emulator: "none", "starting", "ready", "killed", "ended"
    result,    \* what the script has found to pass
    verified,  \* the result in verification.json
    failed, cut, \* it ended with an error; without its finally
    harm       \* what must never happen, and did

screenVars == <<page, test, crashed, harm>>
machine    == <<script, input, leftover>>
outcome    == <<result, verified, failed, cut>>
vars == <<machine, phase, at, turn, look, seen, screenVars, process, outcome>>

Intro == {"intro", "dark", "page2", "page3", "page4", "page5", "page6"}
Own == Intro \cup
    {"rationale", "phone", "debugphone", "testphone", "country", "number", "confirm",
     "callrationale", "waiting", "limited", "othercode", "code", "code1", "code2", "code3", "code4",
     "signup", "named", "chats", "menu", "ordinary", "ready", "tall"}
Pages == Own \cup {"home", "drawer", "recovered", "permission", "crash", "other"}

-----------------------------------------------------------------------------
(* A step acts, lets the device answer, looks, and requires a page.        *)
Step(act, answers, see) ==
    [act |-> act, answers |-> answers, see |-> see, needs |-> Pages, meet |-> {},
     wait |-> {}, turns |-> 0, late |-> {}, look |-> TRUE, mark |-> {}]

Marked(step, mark) == [step EXCEPT !.mark = {mark}]
Unseen(step)       == [step EXCEPT !.look = FALSE]
If(needs, step)    == [step EXCEPT !.needs = needs]

(* The login form may lie behind an explanation and a system permission,   *)
(* which is always denied.                                                 *)
ToPhone(phone) ==
    [Step("tap", {"rationale", "permission", phone}, {phone})
        EXCEPT !.meet = {"rationale", "permission"}, !.turns = Overlays]

SandboxEntry ==
    << Marked(Step("start", {"intro"}, {"intro"}), "launch"),
       ToPhone("phone") >>

(* The number is typed only on a form that shows the test servers; that    *)
(* the country code has arrived is seen together with the number.          *)
SandboxNumber ==
    << Marked(Step("tap", {"testphone"}, {"testphone"}), "test_backend_selected"),
       Step("number", {"country"}, {"country", "testphone"}),
       Step("number", {"number"}, {"number"}),
       Step("tap", {"confirm"}, {"confirm"}) >>

(* Anything but a rejection is waited for; the last of these looks is not  *)
(* judged any more.  A form for a code of another length is waited for too *)
(* and taken when the turns are over, but no digit is typed on it: each is *)
(* typed on a form of five fields that shows the ones before it.           *)
SandboxCode ==
    << [Marked(Step("number", {"callrationale", "permission", "waiting", "code", "othercode", "limited"},
                    {"code"}),
               "test_code_request")
            EXCEPT !.meet = {"callrationale", "permission"}, !.turns = CodeTurns, !.late = {"othercode"},
                   !.wait = Pages \ {"callrationale", "permission", "code", "limited"}],
       Step("none", {}, {"code"}),
       Step("digit", {"code1"}, {"code1"}), Step("digit", {"code2"}, {"code2"}),
       Step("digit", {"code3"}, {"code3"}), Step("digit", {"code4"}, {"code4"}),
       Marked(Step("digit", {"signup", "chats", "limited"}, {"signup"}), "test_code_accepted") >>

SandboxAccount ==
    << Step("tap", {"named"}, {"named"}),
       Step("tap", {"chats", "limited"}, {"chats"}),
       Marked(Step("tap", {"menu"}, {"menu"}), "test_server_login"),
       Step("start", {"chats", "intro"}, {"chats"}),
       Marked(Step("tap", {"menu"}, {"menu"}), "cold_restart") >>

(* The launcher may ignore a tap, a swipe and a key, and is then started   *)
(* again, once.  Without an icon the script goes on, for the diagnosis.    *)
ClientLauncher ==
    << Step("start", {"home"}, {"home"}),
       Step("tap", {"home", "drawer"}, Pages),
       If({"home"}, Step("tap", {"home", "drawer"}, Pages)),
       If({"home"}, Step("start", {"home", "drawer"}, Pages)),
       If(Pages \ {"drawer"}, Step("start", {"recovered"}, Pages)),
       If({"recovered"}, Step("tap", {"home", "drawer"}, Pages)),
       If({"drawer"}, Marked(Step("tap", {"intro"}, Own), "launcher_entry")) >>

(* The five swipes back all use one hierarchy, that of the last page: the  *)
(* exception to the rule that an act follows a look.                       *)
ClientIntro ==
    LET Forward(next) == Step("swipe", {next}, {next})
        Back == Step("swipe", Intro, {"intro"})
    IN  << Marked(Step("start", {"intro"}, {"intro"}), "launch"),
           Step("tap", {"dark"}, {"dark"}),
           Marked(Step("tap", {"intro"}, {"intro"}), "theme_switch"),
           Forward("page2"), Forward("page3"), Forward("page4"), Forward("page5"), Forward("page6"),
           Unseen(Back), Unseen(Back), Unseen(Back), Unseen(Back), Marked(Back, "intro_return") >>

ClientLogin ==
    << Marked([ToPhone("phone") EXCEPT !.answers = @ \cup {"debugphone"}], "login_screen"),
       Marked(Step("start", {"intro"}, Own), "cold_restart") >>

CandidateIntro ==
    << Marked(Step("start", {"intro"}, {"intro"}), "launch"),
       Step("tap", {"dark"}, {"dark"}),
       Marked(Step("tap", {"intro"}, {"intro"}), "light_dark_intro") >>

CandidatePhone ==
    << Marked([ToPhone("phone") EXCEPT !.answers = @ \cup {"debugphone"}], "phone_form") >>

(* Each state of the route is looked up in the dialog, which must fit.     *)
CandidateConnection ==
    LET Dialog(says) == Step("tap", {"ordinary", "ready", "tall"}, {says})
        Form == Step("tap", {"phone"}, {"phone"})
    IN  << Marked(Dialog("ordinary"), "connection_dialog"), Form,
           Marked(Dialog("ready"), "arm64_tunnel_local_start"), Form,
           Marked(Dialog("ordinary"), "explicit_route_disable"),
           Unseen(Form) >>

CandidateRestart == << Marked(Step("start", {"intro"}, Own), "cold_restart") >>

Program ==
    CASE script = "sandbox"   -> SandboxEntry \o SandboxNumber \o SandboxCode \o SandboxAccount
      [] script = "client"    -> ClientLauncher \o ClientIntro \o ClientLogin
      [] script = "candidate" -> CandidateIntro \o CandidatePhone \o CandidateConnection \o CandidateRestart

Marks == {"install"} \cup UNION {Program[i].mark : i \in DOMAIN Program}
This  == Program[at]

-----------------------------------------------------------------------------
Trying  == {"boot", "install", "act", "dump", "read", "shot", "judge"}
Finally == {"report", "diagnose", "stop", "wait"}
NoLook == [attempts |-> 0, failures |-> 0, file |-> "none"]

Init ==
    /\ script \in {"sandbox", "client", "candidate"}
    /\ input \in {"reviewed", "other"} /\ leftover \in BOOLEAN
    /\ phase = "prepare" /\ at = 1 /\ turn = 0 /\ look = NoLook
    /\ seen = "other" /\ page = "home" /\ test = FALSE /\ crashed = FALSE /\ harm = {}
    /\ process = "none"
    /\ result = {} /\ verified = {} /\ failed = FALSE /\ cut = FALSE

(* An error in the body: the rest is left to its finally.                  *)
Raise ==
    /\ phase' = "report"
    /\ failed' = TRUE
    /\ look' = NoLook
    /\ UNCHANGED <<machine, at, turn, seen, screenVars, process, result, verified, cut>>

(* An error before the body ends the script; nothing has been started.     *)
RefuseInput ==
    /\ phase = "prepare"
    /\ phase' = "over" /\ failed' = TRUE
    /\ UNCHANGED <<machine, at, turn, look, seen, screenVars, process, result, verified, cut>>

(* New directories, one APK with the pinned hash, signer and flags.        *)
StartEmulator ==
    /\ phase = "prepare" /\ ~leftover /\ input = "reviewed"
    /\ phase' = "boot" /\ process' = "starting"
    /\ UNCHANGED <<machine, at, turn, look, seen, screenVars, outcome>>

Booted ==
    /\ phase = "boot" /\ process \in {"starting", "ready"}
    /\ process' = "ready" /\ phase' = "install"
    /\ UNCHANGED <<machine, at, turn, look, seen, screenVars, outcome>>

Install ==
    /\ phase = "install" /\ process = "ready"
    /\ phase' = "act"
    /\ result' = {"install"}
    /\ UNCHANGED <<machine, at, turn, look, seen, screenVars, process, verified, failed, cut>>

-----------------------------------------------------------------------------
(* Acting.                                                                 *)

Aimed ==
    CASE This.act = "start" -> TRUE
      [] This.act = "swipe" -> {page, seen} \subseteq Intro
      [] OTHER              -> page = seen

Stray(aimed) == IF aimed THEN {} ELSE {"a tap on a page that was not observed"}

Answer ==
    /\ page' \in IF Aimed THEN This.answers \cup {page, "crash", "other"} ELSE {"other"}
    /\ test' = (test \/ page' = "testphone")
    /\ crashed' = (crashed \/ page' = "crash")
    /\ harm' = harm \cup Stray(Aimed \/ This.act = "swipe")
                    \cup (IF This.act \in {"number", "digit"} /\ ~test
                          THEN {"a number for the production servers"} ELSE {})

Act ==
    /\ phase = "act" /\ at <= Len(Program) /\ process = "ready"
    /\ seen \in This.needs
    /\ IF This.act = "none" THEN UNCHANGED screenVars ELSE Answer
    /\ IF This.look THEN phase' = "dump" /\ UNCHANGED at ELSE at' = at + 1 /\ UNCHANGED phase
    /\ UNCHANGED <<machine, turn, look, seen, process, outcome>>

LeaveOut ==
    /\ phase = "act" /\ at <= Len(Program)
    /\ seen \notin This.needs
    /\ at' = at + 1
    /\ UNCHANGED <<machine, phase, turn, look, seen, screenVars, process, outcome>>

(* The code has not come yet.                                              *)
Arrives ==
    /\ page = "waiting"
    /\ page' \in {"code", "othercode", "limited", "callrationale", "permission"}
    /\ UNCHANGED <<machine, phase, at, turn, look, seen, test, crashed, harm, process, outcome>>

-----------------------------------------------------------------------------
(* Looking.                                                                *)

LookAgain(failures) ==
    /\ phase' = "dump"
    /\ look' = [look EXCEPT !.attempts = @ + 1, !.failures = failures, !.file = "none"]
    /\ UNCHANGED <<machine, at, turn, seen, screenVars, process, outcome>>

MayLook == look.attempts < Attempts /\ look.failures < Patience

(* The interface does not settle; for the candidate, any ERROR.            *)
NotIdle ==
    /\ phase = "dump" /\ MayLook /\ process = "ready"
    /\ LookAgain(look.failures)

(* Mutant: every dump goes to the same path, where one that fails leaves   *)
(* the older file.                                                         *)
DumpSamePath ==
    /\ phase = "dump" /\ MayLook /\ process = "ready"
    /\ phase' = "read"
    /\ \E file \in {page, seen, "broken"} : look' = [look EXCEPT !.file = file]
    /\ UNCHANGED <<machine, at, turn, seen, screenVars, process, outcome>>

(* A dump that returns has not always written its file.                    *)
Dump ==
    /\ phase = "dump" /\ MayLook /\ process = "ready"
    /\ phase' = "read"
    /\ \E file \in {page, "none", "broken"} : look' = [look EXCEPT !.file = file]
    /\ UNCHANGED <<machine, at, turn, seen, screenVars, process, outcome>>

(* A failed command counts, for the candidate it is an error at once.      *)
LookFails ==
    /\ phase \in {"dump", "read"} /\ MayLook /\ script # "candidate"
    /\ LookAgain(look.failures + 1)

(* The candidate repeats a missing or malformed file only, and does not    *)
(* count it apart.                                                         *)
CandidateRepeats ==
    /\ phase = "read" /\ script = "candidate"
    /\ look.file \in {"none", "broken"}
    /\ LookAgain(look.failures)

Observe ==
    /\ phase = "read" /\ look.file \in Pages /\ process = "ready"
    /\ phase' = "shot"
    /\ seen' = look.file
    /\ UNCHANGED <<machine, at, turn, look, screenVars, process, outcome>>

NothingFresh == phase = "dump" /\ ~MayLook /\ Raise

Screenshot ==
    /\ phase = "shot" /\ process = "ready"
    /\ phase' = "judge" /\ look' = NoLook
    /\ UNCHANGED <<machine, at, turn, seen, screenVars, process, outcome>>

-----------------------------------------------------------------------------
(* Judging what was seen.                                                  *)

(* Only the release scripts read the crash buffer.                         *)
NoCrash == This.mark = {"cold_restart"} /\ script # "sandbox" => ~crashed

(* The last turn of a step with late pages takes one of them, and the look *)
(* behind it is not judged.                                                *)
Passes ==
    /\ seen \in This.see \/ (seen \in This.late /\ turn + 1 = This.turns)
    /\ This.late # {} => turn < This.turns
    /\ NoCrash

Pass ==
    /\ phase = "judge" /\ Passes
    /\ phase' = "act" /\ at' = at + 1 /\ turn' = 0
    /\ result' = result \cup This.mark
    /\ harm' = harm \cup (IF page \in This.see \cup This.late \/ This.see = Pages THEN {}
                          ELSE {"a mark for what the device does not show"})
    /\ UNCHANGED <<machine, look, seen, page, test, crashed, process, verified, failed, cut>>

Overlaid == seen \in This.meet /\ turn < This.turns
Delayed  == seen \in This.wait /\ turn < This.turns

Dismiss ==
    /\ phase = "judge" /\ ~Passes /\ Overlaid /\ process = "ready"
    /\ phase' = "dump" /\ turn' = turn + 1
    /\ page' \in IF page = seen THEN This.answers \cup {page, "crash", "other"} ELSE {"other"}
    /\ crashed' = (crashed \/ page' = "crash")
    /\ harm' = harm \cup Stray(page = seen)
    /\ UNCHANGED <<machine, at, look, seen, test, process, outcome>>

WaitForServer ==
    /\ phase = "judge" /\ ~Passes /\ Delayed
    /\ phase' = "dump" /\ turn' = turn + 1
    /\ UNCHANGED <<machine, at, look, seen, screenVars, process, outcome>>

Mismatch == phase = "judge" /\ ~Passes /\ ~Overlaid /\ ~Delayed /\ Raise

(* The icon was missing although the client started.                       *)
LauncherRefused == script = "client" /\ "launcher_entry" \notin result
Accept ==
    /\ phase = "act" /\ at > Len(Program)
    /\ IF LauncherRefused THEN Raise
       ELSE /\ phase' = "report"
            /\ UNCHANGED <<machine, at, turn, look, seen, screenVars, process, outcome>>

(* A command of the device fails or times out, the emulator is gone, the   *)
(* screenshot is no PNG, the boot takes more than five minutes.            *)
CommandFails == phase \in Trying /\ Raise

-----------------------------------------------------------------------------
(* The finally of the scripts.                                             *)

Report ==
    /\ phase = "report"
    /\ verified' = result
    /\ phase' = "diagnose"
    /\ UNCHANGED <<machine, at, turn, look, seen, screenVars, process, result, failed, cut>>

(* Crash buffer, activities and a last look, whose errors are caught; then *)
(* the emulator is asked to stop.                                          *)
Diagnose ==
    /\ phase = "diagnose"
    /\ phase' = "stop"
    /\ process' \in {process, "ended"}
    /\ UNCHANGED <<machine, at, turn, look, seen, screenVars, outcome>>

(* It is terminated if it still runs; a wait for that may time out.        *)
Stop ==
    /\ phase = "stop"
    /\ \/ process = "ended" /\ phase' = "over" /\ UNCHANGED process
       \/ process # "ended" /\ phase' = "over" /\ process' = "ended"
       \/ process # "ended" /\ phase' = "wait" /\ UNCHANGED process
    /\ UNCHANGED <<machine, at, turn, look, seen, screenVars, outcome>>

(* It is killed, and the script fails if it is slow to go.                 *)
Kill ==
    /\ phase = "wait" /\ phase' = "over"
    /\ \/ process' = "ended" /\ UNCHANGED failed
       \/ process # "ended" /\ process' = "killed" /\ failed' = TRUE
    /\ UNCHANGED <<machine, at, turn, look, seen, screenVars, result, verified, cut>>

EmulatorEnds ==
    /\ process \in {"starting", "ready", "killed"}
    /\ process' = "ended"
    /\ UNCHANGED <<machine, phase, at, turn, look, seen, screenVars, outcome>>

(* The job runs out of its 25 minutes, or the finally itself fails.        *)
CutShort ==
    /\ phase \in Trying \cup Finally
    /\ phase' = "over" /\ failed' = TRUE /\ cut' = TRUE
    /\ UNCHANGED <<machine, at, turn, look, seen, screenVars, process, result, verified>>

Next ==
    \/ RefuseInput \/ StartEmulator \/ Booted \/ Install
    \/ Act \/ LeaveOut \/ Arrives
    \/ NotIdle \/ Dump \/ LookFails \/ CandidateRepeats \/ Observe \/ NothingFresh \/ Screenshot
    \/ Pass \/ Dismiss \/ WaitForServer \/ Mismatch \/ Accept \/ CommandFails
    \/ Report \/ Diagnose \/ Stop \/ Kill \/ EmulatorEnds \/ CutShort

Spec == Init /\ [][Next]_vars

-----------------------------------------------------------------------------
(* A script never taps at coordinates of a page the device does not show,  *)
(* never gives a number to the production servers, and never reports what  *)
(* the device did not show; a run that succeeds has found all its marks,   *)
(* on the reviewed APK, and one that runs its finally leaves no emulator   *)
(* that was not killed, and none at all if it succeeds.                    *)
TrialHonest ==
    /\ harm = {}
    /\ phase = "over" /\ ~failed => verified = Marks /\ input = "reviewed"
    /\ phase = "over" /\ ~cut => process \in {"none", "ended"} \/ (failed /\ process = "killed")
=============================================================================
