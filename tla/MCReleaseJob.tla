---------------------------- MODULE MCReleaseJob ----------------------------
(***************************************************************************)
(* What happens to a client before people get it: it is prepared, built    *)
(* and published by a job, and what was published is tried on an emulator. *)
(* The trials run by themselves, on an APK whose hash is pinned; so one    *)
(* run explores each part by itself: which one is chosen at the start.     *)
(***************************************************************************)
EXTENDS ReleaseJob

CONSTANTS Attempts, Patience, Overlays, CodeTurns   \* DeviceRun

VARIABLES part,   \* the part that runs
          script, input, leftover, step, position, turn, look, seen, page, test, crashed,
          process, result, verified, raised, cut, harm

trialVars == <<script, input, leftover, step, position, turn, look, seen, page, test, crashed,
               process, result, verified, raised, cut, harm>>

Trial == INSTANCE DeviceRun WITH phase <- step, at <- position, failed <- raised

ReleaseInit ==
    /\ part \in {"job", "trial"}
    /\ Init /\ Trial!Init
    /\ part = "job" => script = "candidate" /\ input = "reviewed" /\ ~leftover
    /\ part = "trial" => platform = "android"

ReleaseNext == UNCHANGED part /\
    \/ part = "job" /\ Next /\ UNCHANGED trialVars
    \/ part = "trial" /\ Trial!Next /\ UNCHANGED vars

ReleaseSpec == ReleaseInit /\ [][ReleaseNext]_<<vars, trialVars, part>>

(* A trial acts on what it observed and reports what the device showed.    *)
TrialHonest == Trial!TrialHonest
=============================================================================
