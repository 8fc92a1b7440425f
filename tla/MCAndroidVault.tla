--------------------------- MODULE MCAndroidVault ---------------------------
(***************************************************************************)
(* The two parts of the Android client that follow the logins of an        *)
(* account slot: what it sends and its vault.  They share no state and     *)
(* never wait for each other, so one run explores each of them by itself:  *)
(* which one is chosen at the start.                                       *)
(***************************************************************************)
EXTENDS AndroidRequests, TLC

CONSTANTS MaxGenerations, MaxSubmits, MaxLocks, MaxRestarts, MaxFaults   \* AndroidVault

VARIABLES part,   \* the part that runs
          prefs, cleanup, keys, files, content, madeFor, loggedIn, gate, account, queue, worker,
          mailbox, counts, faults, troubled

vaultVars == <<prefs, cleanup, keys, files, content, madeFor, loggedIn, gate, account, queue,
               worker, mailbox, counts, faults, troubled>>

Vault == INSTANCE AndroidVault WITH logins <- loggedIn, made <- madeFor

ASSUME NobodyAssumption == NobodyIsNoUser

SlotInit == part \in {"vault", "requests"} /\ Init /\ Vault!Init

SlotNext == UNCHANGED part /\
    \/ part = "vault" /\ Vault!Next /\ UNCHANGED vars
    \/ part = "requests" /\ Next /\ UNCHANGED vaultVars

SlotSpec == SlotInit /\ [][SlotNext]_<<vars, vaultVars, part>>

(* Users are only compared for equality.                                   *)
Symmetry == Permutations(Users)

(* What the interface is shown belongs to the login it is shown to.        *)
ReplyInLogin == Vault!ReplyInLogin

(* What is committed is kept, and what is not is going to be destroyed.    *)
DataAccounted == Vault!DataAccounted

(* A retired generation is destroyed, or its tombstone says it will be.    *)
RetiredDestroyed == Vault!RetiredDestroyed
=============================================================================
