-------------------------- MODULE MCWindowsClient --------------------------
(***************************************************************************)
(* The two parts of the Windows client that have a worker thread to wait   *)
(* for, and to stop, with no data of an account: the connection and the    *)
(* transcription.  They share no state and never wait for each other, so   *)
(* one run explores each of them by itself: which one is chosen at the     *)
(* start.                                                                  *)
(***************************************************************************)
EXTENDS WindowsConnection

CONSTANTS Boxes, MaxJobs   \* VoiceWorker

VARIABLES part,   \* the part that runs
          box, valid, screen, job, current, next, leaving, open, transcriber, model, results

voiceVars == <<box, valid, screen, job, current, next, leaving, open, transcriber, model, results>>

Voice == INSTANCE VoiceWorker
             WITH ui <- screen, pending <- next, stopping <- leaving, alive <- open,
                  worker <- transcriber, posted <- results

(* A box is chosen before it is looked at, and what transcription could    *)
(* start with makes no difference elsewhere.                               *)
ClientInit ==
    /\ part \in {"connection", "voice"}
    /\ Init /\ Voice!Init
    /\ screen.box = (CHOOSE b \in Boxes : TRUE)
    /\ part = "connection" => ~model

ClientNext == UNCHANGED part /\
    \/ part = "connection" /\ Next /\ UNCHANGED voiceVars
    \/ part = "voice" /\ Voice!Next /\ UNCHANGED vars

ClientSpec ==
    /\ ClientInit /\ [][ClientNext]_<<vars, voiceVars, part>>
    /\ Fairness /\ Voice!Fairness

(* Cancelling reaches the engine, the callback and the box.                *)
CancelHonoured == Voice!CancelHonoured

(* A box that waits is answered or closed, and the destructor returns.     *)
WaitsEnd == Voice!WaitsEnd
=============================================================================
