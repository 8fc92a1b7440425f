---------------------------- MODULE AndroidVault ----------------------------
(***************************************************************************)
(* The vault of the Android client: AndroidVaultCoordinator (ci/vault) of  *)
(* one account slot, with the thread that logs its account in and out      *)
(* (UserConfig, through the hooks of ci/notes), the vault worker thread    *)
(* and the callbacks it posts, over SharedPreferences, the key store and   *)
(* the databases.                                                          *)
(*                                                                         *)
(* A generation is the number of its creation, 0 is none; a login is       *)
(* numbered too, so that two logins of one user are told apart: a login    *)
(* that follows a logout has a number of its own, a change of owner        *)
(* without one keeps it.  isCurrent reads its sources one after the other, *)
(* but a pass is a pass at its first read, so it is one step.  A commit    *)
(* that fails has changed the preferences in memory and not on disk; any   *)
(* later successful write of the file writes all of it.                    *)
(***************************************************************************)
EXTENDS Naturals, Sequences, FiniteSets

CONSTANTS Users, None,      \* user ids, and the 0 of nobody
          MaxLogins, MaxGenerations,
          MaxSubmits, MaxLocks, MaxRestarts,
          MaxFaults         \* failures the disk may have in one process

VARIABLES
    prefs,      \* UserConfig preferences, mem and disk: user, login, gen, owner
    cleanup,    \* the tombstones, mem and disk
    keys,       \* generations with a key in the key store
    files,      \* generations with a database
    content,    \* generations that hold what the user wrote
    made,       \* generation -> user and login it was created for
    logins,     \* number of logins so far
    gate,       \* epoch, retired, lockEpoch of the coordinator; the app lock
    account,    \* the thread that logs in and out: pc, generation
    queue,      \* tasks of the worker
    worker,     \* the worker thread
    mailbox,    \* callbacks posted to the main thread
    counts,     \* submissions and restarts so far
    faults,     \* failures in this process
    troubled    \* generations with a tombstone or a removal not on disk

disk    == <<keys, files, content, made, logins>>
process == <<gate, account, mailbox, counts>>
vars    == <<prefs, cleanup, disk, process, queue, worker, faults, troubled>>

Generations == 1..Len(made)
Nobody      == [user |-> None, login |-> 0, gen |-> 0, owner |-> None]
Token       == [user : Users, login : 1..logins, epoch : Nat, lockEpoch : Nat]
Metadata(p) == /\ p \in [user : Users \cup {None}, login : 0..logins, gen : 0..Len(made),
                         owner : Users \cup {None}]
               /\ p.gen = 0 <=> p.owner = None

Idle  == [pc |-> "idle", gen |-> 0, left |-> {}, back |-> "idle"]
Sweep == [kind |-> "sweep"]

TypeOK ==
    /\ DOMAIN prefs = {"mem", "disk"} /\ \A half \in DOMAIN prefs : Metadata(prefs[half])
    /\ cleanup \in [mem : SUBSET Generations, disk : SUBSET Generations]
    /\ content \subseteq Generations /\ keys \cup files \subseteq Generations
    /\ made \in Seq([user : Users, login : 1..logins]) /\ logins \in 0..MaxLogins
    /\ gate \in [epoch : Nat, retired : BOOLEAN, lockEpoch : 0..MaxLocks, unlocked : BOOLEAN]
    /\ \A i \in 1..Len(mailbox) : mailbox[i].gen \in 0..Len(made) /\ mailbox[i].token \in Token
    /\ faults \in 0..MaxFaults /\ troubled \subseteq Generations

Init ==
    /\ prefs = [mem |-> Nobody, disk |-> Nobody]
    /\ cleanup = [mem |-> {}, disk |-> {}]
    /\ keys = {} /\ files = {} /\ content = {} /\ made = <<>> /\ logins = 0
    /\ gate = [epoch |-> 0, retired |-> FALSE, lockEpoch |-> 0, unlocked |-> TRUE]
    /\ account = [pc |-> "idle", gen |-> 0]
    /\ queue = <<Sweep>> /\ worker = Idle /\ mailbox = <<>> /\ counts = [submits |-> 0, restarts |-> 0]
    /\ faults = 0 /\ troubled = {}

IsCurrent(t) ==
    /\ ~gate.retired /\ gate.epoch = t.epoch
    /\ gate.lockEpoch = t.lockEpoch /\ gate.unlocked
    /\ prefs.mem.user = t.user

----------------------------------------------------------------------------
(* SharedPreferences *)

(* edit().commit() on one file.                                            *)
Written(file, m, ok) == [mem |-> m, disk |-> IF ok THEN m ELSE file.disk]

Cleared(p) == [p EXCEPT !.gen = 0, !.owner = None]

Fault == faults < MaxFaults /\ faults' = faults + 1

Commits == IF faults < MaxFaults THEN BOOLEAN ELSE {TRUE}

Counted(ok) == faults' = IF ok THEN faults ELSE faults + 1

Noted(g, ok) == Counted(ok) /\ troubled' = IF ok THEN troubled ELSE troubled \cup {g}

(* retire: a tombstone that is not on disk is reported and nothing more.   *)
Retire(g) == \E ok \in Commits :
    /\ cleanup' = Written(cleanup, cleanup.mem \cup {g}, ok)
    /\ Noted(g, ok)

Metalocked == account.pc = "remove" \/ worker.pc = "replace"

----------------------------------------------------------------------------
(* The application: login, logout, lock *)

SetCurrentUser(u) ==
    /\ account.pc = "idle" /\ logins < MaxLogins /\ u # prefs.mem.user
    /\ logins' = logins + 1
    /\ prefs' = [prefs EXCEPT !.mem.user = u,
                              !.mem.login = IF prefs.mem.user = None THEN logins + 1 ELSE @]
    /\ account' = [account EXCEPT !.pc = "changed"]
    /\ UNCHANGED <<cleanup, keys, files, content, made, gate, queue, worker, mailbox, counts,
                   faults, troubled>>

onOwnerChanged ==
    /\ account.pc = "changed"
    /\ gate' = [gate EXCEPT !.epoch = @ + 1, !.retired = FALSE]
    /\ account' = [account EXCEPT !.pc = "idle"]
    /\ UNCHANGED <<prefs, cleanup, disk, queue, worker, mailbox, counts, faults, troubled>>

(* onLogout, before the metadata lock.                                     *)
Revoke ==
    /\ account.pc = "idle" /\ prefs.mem.user # None
    /\ gate' = [gate EXCEPT !.epoch = @ + 1, !.retired = TRUE]
    /\ account' = [account EXCEPT !.pc = "retire"]
    /\ UNCHANGED <<prefs, cleanup, disk, queue, worker, mailbox, counts, faults, troubled>>

(* Mutant: the reference is removed without a tombstone.                   *)
RetireUnmarked ==
    /\ account.pc = "retire" /\ ~Metalocked
    /\ account' = [pc |-> "remove", gen |-> prefs.mem.gen]
    /\ UNCHANGED <<prefs, cleanup, disk, gate, queue, worker, mailbox, counts, faults, troubled>>

RetireStored ==
    /\ account.pc = "retire" /\ ~Metalocked
    /\ account' = [pc |-> "remove", gen |-> prefs.mem.gen]
    /\ IF prefs.mem.gen # 0 THEN Retire(prefs.mem.gen)
                            ELSE UNCHANGED <<cleanup, faults, troubled>>
    /\ UNCHANGED <<prefs, disk, gate, queue, worker, mailbox, counts>>

RemoveStored ==
    /\ account.pc = "remove"
    /\ \E ok \in Commits :
          /\ prefs' = Written(prefs, Cleared(prefs.mem), ok)
          /\ IF account.gen # 0 THEN Noted(account.gen, ok) ELSE UNCHANGED <<faults, troubled>>
    /\ account' = [account EXCEPT !.pc = "destroy"]
    /\ UNCHANGED <<cleanup, disk, gate, queue, worker, mailbox, counts>>

(* Mutant: the generation is left for the next start of the process.       *)
LeaveDestroy ==
    /\ account.pc = "destroy"
    /\ account' = [account EXCEPT !.pc = "clear"]
    /\ UNCHANGED <<prefs, cleanup, disk, gate, queue, worker, mailbox, counts, faults, troubled>>

EnqueueDestroy ==
    /\ account.pc = "destroy"
    /\ queue' = IF account.gen = 0 THEN queue
                ELSE Append(queue, [kind |-> "destroy", gen |-> account.gen])
    /\ account' = [account EXCEPT !.pc = "clear"]
    /\ UNCHANGED <<prefs, cleanup, disk, gate, worker, mailbox, counts, faults, troubled>>

(* The rest of UserConfig.clearConfig, after beforeLogout.                 *)
ClearConfig ==
    /\ account.pc = "clear"
    /\ prefs' = [prefs EXCEPT !.mem = Nobody]
    /\ account' = [pc |-> "idle", gen |-> 0]
    /\ UNCHANGED <<cleanup, disk, gate, queue, worker, mailbox, counts, faults, troubled>>

(* UserConfig.saveConfig: an asynchronous write of the preferences.        *)
SaveConfig ==
    /\ prefs.disk # prefs.mem /\ ~Metalocked
    /\ prefs' = [prefs EXCEPT !.disk = prefs.mem]
    /\ UNCHANGED <<cleanup, disk, process, queue, worker, faults, troubled>>

(* appLocked is set, then onLock; nothing is current in between.  A lock    *)
(* leaves nothing to the next process, so a restart uses up one of MaxLocks. *)
onLock ==
    /\ gate.unlocked /\ gate.lockEpoch + counts.restarts < MaxLocks
    /\ gate' = [gate EXCEPT !.unlocked = FALSE, !.lockEpoch = @ + 1]
    /\ UNCHANGED <<prefs, cleanup, disk, account, queue, worker, mailbox, counts, faults,
                   troubled>>

Unlock ==
    /\ ~gate.unlocked
    /\ gate' = [gate EXCEPT !.unlocked = TRUE]
    /\ UNCHANGED <<prefs, cleanup, disk, account, queue, worker, mailbox, counts, faults,
                   troubled>>

(* capture, then submit.                                                   *)
Submit ==
    /\ counts.submits < MaxSubmits /\ prefs.mem.user # None
    /\ LET t == [user |-> prefs.mem.user, login |-> prefs.mem.login, epoch |-> gate.epoch,
                 lockEpoch |-> gate.lockEpoch]
       IN  IsCurrent(t) /\ queue' = Append(queue, [kind |-> "submit", token |-> t])
    /\ counts' = [counts EXCEPT !.submits = @ + 1]
    /\ UNCHANGED <<prefs, cleanup, disk, gate, account, worker, mailbox, faults, troubled>>

(* The posted callback completes only a current token.                     *)
Callback ==
    /\ mailbox # <<>>
    /\ mailbox' = Tail(mailbox)
    /\ UNCHANGED <<prefs, cleanup, disk, gate, account, queue, worker, counts, faults, troubled>>

----------------------------------------------------------------------------
(* The worker: destroy(g), then back to whoever asked for it *)

Goto(pc) == worker' = [worker EXCEPT !.pc = pc]

(* destroy never throws: back to the task it was called from.              *)
Destroyed == IF worker.back = "idle" THEN worker' = Idle ELSE Goto(worker.back)

Threw == Fault /\ UNCHANGED troubled

Tombstone ==
    /\ worker.pc = "tombstone"
    /\ Retire(worker.gen)
    /\ Goto("unbind")
    /\ UNCHANGED <<prefs, disk, process, queue>>

Unbind ==
    /\ worker.pc = "unbind" /\ ~Metalocked
    /\ IF prefs.mem.gen = worker.gen
       THEN \E ok \in Commits :
              /\ prefs' = Written(prefs, Cleared(prefs.mem), ok)
              /\ Noted(worker.gen, ok)
              /\ IF ok THEN Goto("deleteKey") ELSE Destroyed
       ELSE Goto("deleteKey") /\ UNCHANGED <<prefs, faults, troubled>>
    /\ UNCHANGED <<cleanup, disk, process, queue>>

DeleteKey ==
    /\ worker.pc = "deleteKey"
    /\ \/ keys' = keys \ {worker.gen} /\ Goto("deleteFile") /\ UNCHANGED <<faults, troubled>>
       \/ Destroyed /\ Threw /\ UNCHANGED keys
    /\ UNCHANGED <<prefs, cleanup, files, content, made, logins, process, queue>>

DeleteFile ==
    /\ worker.pc = "deleteFile"
    /\ \/ /\ files' = files \ {worker.gen} /\ content' = content \ {worker.gen}
          /\ Goto("forget") /\ UNCHANGED <<faults, troubled>>
       \/ worker.gen \in files /\ Destroyed /\ Threw /\ UNCHANGED <<files, content>>
    /\ UNCHANGED <<prefs, cleanup, keys, made, logins, process, queue>>

Forget ==
    /\ worker.pc = "forget"
    /\ \E ok \in Commits :
          /\ cleanup' = Written(cleanup, cleanup.mem \ {worker.gen}, ok)
          /\ Counted(ok)
    /\ Destroyed
    /\ UNCHANGED <<prefs, disk, process, queue, troubled>>

----------------------------------------------------------------------------
(* The worker: its tasks *)

Take ==
    /\ worker.pc = "idle" /\ queue # <<>>
    /\ queue' = Tail(queue)
    /\ LET t == Head(queue) IN
       worker' = CASE t.kind = "sweep" -> [Idle EXCEPT !.pc = "sweep", !.left = cleanup.mem]
                   [] t.kind = "destroy" -> [Idle EXCEPT !.pc = "tombstone", !.gen = t.gen]
                   [] t.kind = "submit" ->
                        IF IsCurrent(t.token)
                        THEN [pc |-> "open", gen |-> 0, left |-> {}, back |-> "idle",
                              token |-> t.token]
                        ELSE Idle
    /\ UNCHANGED <<prefs, cleanup, disk, process, faults, troubled>>

(* The constructor's task destroys what was retired before.                *)
SweepNext ==
    /\ worker.pc = "sweep"
    /\ IF worker.left = {} THEN worker' = Idle
       ELSE \E g \in worker.left :
              worker' = [worker EXCEPT !.pc = "tombstone", !.gen = g, !.left = @ \ {g},
                                       !.back = "sweep"]
    /\ UNCHANGED <<prefs, cleanup, disk, process, queue, faults, troubled>>

Current == IsCurrent(worker.token)

(* Mutant: the owner of the stored generation is not compared.             *)
ReadMetadataAny ==
    /\ worker.pc = "open" /\ ~Metalocked
    /\ LET p == prefs.mem IN
       IF ~Current \/ p.gen \in cleanup.mem THEN Goto("failed")
       ELSE worker' = [worker EXCEPT !.gen = p.gen, !.pc = IF p.gen = 0 THEN "create" ELSE "load"]
    /\ UNCHANGED <<prefs, cleanup, disk, process, queue, faults, troubled>>

(* open's first section.  Generation and owner are always written          *)
(* together, so metadata is never incomplete.                              *)
ReadMetadata ==
    /\ worker.pc = "open" /\ ~Metalocked
    /\ LET p == prefs.mem IN
       \/ /\ ~Current \/ p.gen \in cleanup.mem
          /\ Goto("failed") /\ UNCHANGED <<cleanup, faults, troubled>>
       \/ /\ Current /\ p.gen \notin cleanup.mem /\ p.owner \in {None, worker.token.user}
          /\ worker' = [worker EXCEPT !.gen = p.gen,
                                      !.pc = IF p.gen = 0 THEN "create" ELSE "load"]
          /\ UNCHANGED <<cleanup, faults, troubled>>
       \/ /\ Current /\ p.gen \notin cleanup.mem /\ p.owner \notin {None, worker.token.user}
          /\ Retire(p.gen)
          /\ worker' = [worker EXCEPT !.gen = p.gen, !.pc = "replace"]
    /\ UNCHANGED <<prefs, disk, process, queue>>

(* A generation of another owner is abandoned, then destroyed.             *)
Abandon ==
    /\ worker.pc = "replace"
    /\ \E ok \in Commits :
          /\ prefs' = Written(prefs, Cleared(prefs.mem), ok)
          /\ Noted(worker.gen, ok)
          /\ IF ok THEN worker' = [worker EXCEPT !.pc = "tombstone", !.back = "create"]
                   ELSE Goto("failed")
    /\ UNCHANGED <<cleanup, disk, process, queue>>

(* An existing generation is opened; it is never created anew.             *)
Load ==
    /\ worker.pc = "load"
    /\ \/ Current /\ worker.gen \in keys \cap files /\ Goto("check") /\ UNCHANGED faults
       \/ /\ Goto("failed")
          /\ \/ ~(Current /\ worker.gen \in keys \cap files) /\ UNCHANGED faults
             \/ Fault
    /\ UNCHANGED <<prefs, cleanup, disk, process, queue, troubled>>

CreateKey ==
    /\ worker.pc = "create"
    /\ \/ /\ Current /\ Len(made) < MaxGenerations
          /\ made' = Append(made, [user |-> worker.token.user, login |-> worker.token.login])
          /\ keys' = keys \cup {Len(made) + 1}
          /\ worker' = [worker EXCEPT !.pc = "createFile", !.gen = Len(made) + 1,
                                      !.back = "failed"]
          /\ UNCHANGED faults
       \/ /\ Goto("failed") /\ UNCHANGED <<made, keys>>
          /\ \/ ~(Current /\ Len(made) < MaxGenerations) /\ UNCHANGED faults
             \/ Fault
    /\ UNCHANGED <<prefs, cleanup, files, content, logins, process, queue, troubled>>

CreateFile ==
    /\ worker.pc = "createFile"
    /\ \/ files' = files \cup {worker.gen} /\ Goto("publish") /\ UNCHANGED faults
       \/ files' \in {files, files \cup {worker.gen}} /\ Goto("tombstone") /\ Fault
    /\ UNCHANGED <<prefs, cleanup, keys, content, made, logins, process, queue, troubled>>

(* open's second section: publication, or destruction by the finally.      *)
Publish ==
    /\ worker.pc = "publish" /\ ~Metalocked
    /\ LET p == prefs.mem IN
       \/ /\ ~Current \/ p.gen # 0
          /\ Goto("tombstone") /\ UNCHANGED <<prefs, faults>>
       \/ /\ Current /\ p.gen = 0
          /\ \E ok \in Commits :
                /\ prefs' = Written(prefs, [p EXCEPT !.gen = worker.gen,
                                                     !.owner = worker.token.user], ok)
                /\ Goto(IF ok THEN "check" ELSE "tombstone")
                /\ Counted(ok)
    /\ UNCHANGED <<cleanup, disk, process, queue, troubled>>

Check ==
    /\ worker.pc = "check"
    /\ IF Current THEN Goto("run") ELSE worker' = Idle
    /\ UNCHANGED <<prefs, cleanup, disk, process, queue, faults, troubled>>

Post(g) == mailbox' = Append(mailbox, [token |-> worker.token, gen |-> g])

(* The operation on the store, which writes to it or throws.               *)
Run ==
    /\ worker.pc = "run"
    /\ \/ content' = content \cup {worker.gen} /\ Post(worker.gen)
       \/ Post(0) /\ UNCHANGED content
    /\ worker' = Idle
    /\ UNCHANGED <<prefs, cleanup, keys, files, made, logins, gate, account, counts, queue,
                   faults, troubled>>

Failed ==
    /\ worker.pc = "failed"
    /\ Post(0)
    /\ worker' = Idle
    /\ UNCHANGED <<prefs, cleanup, disk, gate, account, counts, queue, faults, troubled>>

----------------------------------------------------------------------------
(* The process stops and is started again; memory is what was on disk.     *)
Restart ==
    /\ prefs' = [prefs EXCEPT !.mem = prefs.disk]
    /\ cleanup' = [cleanup EXCEPT !.mem = cleanup.disk]
    /\ gate' \in [epoch : {0}, retired : {FALSE}, lockEpoch : {0}, unlocked : {TRUE}]
    /\ account' = [pc |-> "idle", gen |-> 0]
    /\ queue' = <<Sweep>> /\ worker' = Idle /\ mailbox' = <<>>
    /\ counts.restarts < MaxRestarts /\ counts' = [counts EXCEPT !.restarts = @ + 1]
    /\ faults' = 0
    /\ UNCHANGED <<disk, troubled>>

AccountStep == onOwnerChanged \/ RetireStored \/ RemoveStored \/ EnqueueDestroy \/ ClearConfig

WorkerStep ==
    \/ Tombstone \/ Unbind \/ DeleteKey \/ DeleteFile \/ Forget
    \/ Take \/ SweepNext \/ ReadMetadata \/ Abandon \/ Load \/ CreateKey \/ CreateFile
    \/ Publish \/ Check \/ Run \/ Failed

Next == \/ \E u \in Users : SetCurrentUser(u)
        \/ Revoke \/ AccountStep \/ SaveConfig \/ onLock \/ Unlock
        \/ Submit \/ Callback \/ WorkerStep \/ Restart

Spec == Init /\ [][Next]_vars

----------------------------------------------------------------------------
(* Properties *)

(* What a callback would show now was read from or written to a generation *)
(* of the login that is logged in, and one that is not being destroyed     *)
(* ("they can never publish a callback into a new login", onLogout).       *)
ReplyInLogin == \A i \in 1..Len(mailbox) :
    LET m == mailbox[i]
    IN  m.gen # 0 /\ IsCurrent(m.token) =>
          /\ made[m.gen] = [user |-> prefs.mem.user, login |-> prefs.mem.login]
          /\ m.gen \notin cleanup.mem

Sound(g) == g \notin troubled

(* The metadata on disk refers to a whole generation unless a tombstone    *)
(* says otherwise, and whatever the user wrote is referred to or will be   *)
(* destroyed, at every point the process may stop at (destroy: "Tombstone  *)
(* precedes deletion and survives process termination").                   *)
DataAccounted == TypeOK /\ \A g \in {x \in Generations : Sound(x)} :
    /\ prefs.disk.gen = g /\ g \notin cleanup.disk => g \in keys \cap files
    /\ g \in content => prefs.disk.gen = g \/ g \in cleanup.disk

(* In a process that met no failure nothing retired is left when both      *)
(* threads are at rest, whatever its predecessor left behind.              *)
RetiredDestroyed ==
    faults = 0 /\ account.pc = "idle" /\ worker.pc = "idle" /\ queue = <<>>
        => /\ cleanup.mem = {}
           /\ \A g \in Generations : Sound(g) /\ g \in content => g = prefs.mem.gen

(* "Durably remove the generation reference, then destroy its key and      *)
(* database" (comment of onLogout): no reference on disk is to a           *)
(* generation whose key is gone and that no tombstone explains.            *)
RemovedDurably == prefs.disk.gen # 0 /\ prefs.disk.gen \notin cleanup.disk
                      => prefs.disk.gen \in keys
=============================================================================
