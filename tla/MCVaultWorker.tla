--------------------------- MODULE MCVaultWorker ---------------------------
(***************************************************************************)
(* Three parts of the Windows client that ask somebody else on behalf of a *)
(* session: the vault its worker, the folders and silent reading the       *)
(* server.  They share no state and never wait for each other, so one run  *)
(* explores each of them by itself: which one is chosen at the start.      *)
(***************************************************************************)
EXTENDS VaultWorker, TLC

CONSTANTS FolderIds, OrderId, MaxEdits, MaxForced,   \* DesktopFolders
          MaxReads, MaxSessions                      \* DesktopReads

VARIABLES part,   \* the part that runs
          server, local, made, edits, load, reload, order, bulk, accepted, forced, lost,
          session, started, setting, policy, later, reads, box

folderVars == <<server, local, made, edits, load, reload, order, bulk, accepted, forced, lost>>
readVars   == <<session, started, setting, policy, later, reads, box>>

Chats == INSTANCE DesktopFolders
             WITH Folders <- FolderIds, Order <- OrderId, requests <- edits, pending <- reload

Reading == INSTANCE DesktopReads WITH MaxRequests <- MaxReads, requests <- reads

ASSUME OrderAssumption == Chats!OrderIsNoFolder

(* The setting a session would start with makes no difference elsewhere.   *)
ClientInit ==
    /\ part \in {"vault", "folders", "reads"}
    /\ Init /\ Chats!Init /\ Reading!Init
    /\ part # "reads" => ~setting

ClientNext == UNCHANGED part /\
    \/ part = "vault" /\ Next /\ UNCHANGED <<folderVars, readVars>>
    \/ part = "folders" /\ Chats!Next /\ UNCHANGED <<vars, readVars>>
    \/ part = "reads" /\ Reading!Next /\ UNCHANGED <<vars, folderVars>>

ClientSpec == ClientInit /\ [][ClientNext]_<<vars, folderVars, readVars, part>>

(* Slots and logins are only compared for equality.                        *)
Symmetry == Permutations(Slots) \cup Permutations(Logins)

(* The folders shown are the server's once everything is answered.         *)
Reconciled == Chats!Reconciled

(* The settings go on once, and only if every folder was saved.            *)
BulkHonest == Chats!BulkHonest

(* Silent reading is honoured and its answers reach whoever asked.         *)
ReadsSound == Reading!ReadsSound
=============================================================================
