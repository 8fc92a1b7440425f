---------------------------- MODULE ArchiveStore ----------------------------
(***************************************************************************)
(* The Windows archive store (ci/windows-archive/archive_store.cpp over    *)
(* vault_store.cpp), file by file: an entry's chunks and its snapshot are  *)
(* written first, the encrypted catalog naming the entries is replaced     *)
(* last, and what the catalog does not name is erased.                     *)
(*                                                                         *)
(* A file is a key <<entry, part>>, part 0 being the snapshot.  AtomicWrite*)
(* is three steps (create the temporary, fill it, move it into place).     *)
(* Any step may throw, the process may stop between any two, and a file    *)
(* may get lost behind the store's back.  Sizes are counted in records;    *)
(* the catalog's own size is the constant IndexReserve, left out of Quota. *)
(* Entries are numbered in the order their adds began, so the catalog,     *)
(* oldest first, is the set of its entries.                                *)
(***************************************************************************)
EXTENDS Naturals, FiniteSets

CONSTANTS MaxAdds,    \* bound: entries ever staged
          MaxChunks,  \* MaxMediaBytes / ChunkBytes
          MaxRows,    \* Limits::rows
          Quota       \* Limits::protectedBytes - IndexReserve

ASSUME SizesAssumption ==
    /\ MaxAdds \in Nat /\ MaxChunks \in Nat
    /\ MaxRows \in Nat \ {0} /\ Quota \in Nat

Ids  == 1..MaxAdds
Keys == Ids \X (0..MaxChunks)

VARIABLES
    index,     \* archive-index: "none" yet, "there", "lost"
    catalog,   \* the entries it names, or named when it got lost
    files,     \* records on disk
    parts,     \* entry -> chunks its snapshot names
    litter,    \* temporaries left behind: some "empty", some "full"
    lost,      \* records that vanished behind the store's back
    open,      \* does a Store object exist?
    ids,       \* its _ids; _catalog is their encoding
    cleanupPending,
    pc,        \* step of the call in progress
    op,        \* that call
    temp,      \* the temporary AtomicWrite is working on
    source,    \* the media offered to add: declared and actual chunks
    chunk,     \* snapshot.chunks: chunks written or being written
    staged,    \* keys written, or being written, for the new entry
    victims,   \* keys still to be erased
    made,      \* entries staged so far
    answer     \* what the caller of each add knows of it

disk   == <<index, catalog, files, parts, litter, lost>>
memory == <<open, ids, cleanupPending>>
frame  == <<op, source, chunk>>
vars == <<disk, memory, pc, frame, temp, staged, victims, made, answer>>

Writing == {"init", "chunk", "row", "index"}   \* AtomicWrite in progress
Erasing == {"orphans", "erase", "unstage"}

TypeOK ==
    /\ index \in {"none", "there", "lost"} /\ catalog \subseteq Ids
    /\ files \subseteq Keys /\ lost \subseteq Keys
    /\ parts \in [Ids -> 0..MaxChunks]
    /\ litter \subseteq {"empty", "full"}
    /\ open \in BOOLEAN /\ ids \subseteq Ids /\ cleanupPending \in BOOLEAN
    /\ pc \in {"idle", "recover", "verify", "temporaries", "adopt", "read",
               "choose", "return", "failed"} \cup Writing \cup Erasing
    /\ op \in {"none", "construct", "recover", "add"}
    /\ temp \in {"none", "empty", "full"}
    /\ source \in [declared: 0..MaxChunks, actual: 0..MaxChunks + 1]
    /\ chunk \in 0..MaxChunks
    /\ staged \subseteq Keys /\ victims \subseteq Keys
    /\ made \in 0..MaxAdds
    /\ answer \in [Ids -> {"none", "pending", "added", "failed", "unknown"}]

NoMedia == [declared |-> 0, actual |-> 0]

Init ==
    /\ index = "none" /\ catalog = {} /\ files = {} /\ lost = {} /\ litter = {}
    /\ parts = [i \in Ids |-> 0]
    /\ open = FALSE /\ ids = {} /\ cleanupPending = FALSE
    /\ pc = "idle" /\ op = "none" /\ temp = "none" /\ source = NoMedia
    /\ chunk = 0 /\ staged = {} /\ victims = {} /\ made = 0
    /\ answer = [i \in Ids |-> "none"]

----------------------------------------------------------------------------
(* Helpers *)

(* The records of entries S: their snapshots and the chunks these name.    *)
Wanted(S) == {k \in Keys : k[1] \in S /\ k[2] <= parts[k[1]]}

Fits(S) == Cardinality(S) <= MaxRows /\ Cardinality(Wanted(S)) <= Quota

(* add's pruning loop: the oldest entries go until the rest fits, but the  *)
(* new entry stays.                                                        *)
Pruned(S) == {i \in S : i # made /\ ~Fits({j \in S : j >= i})}

----------------------------------------------------------------------------
(* Calls *)

Construct ==
    /\ pc = "idle" /\ ~open
    /\ op' = "construct" /\ pc' = "recover"
    /\ UNCHANGED <<disk, memory, source, chunk, temp, staged, victims, made, answer>>

Recover ==
    /\ pc = "idle" /\ open
    /\ op' = "recover" /\ pc' = "recover"
    /\ UNCHANGED <<disk, memory, source, chunk, temp, staged, victims, made, answer>>

(* check() and the new entry's identifier.                                 *)
Add(s) ==
    /\ pc = "idle" /\ open /\ made < MaxAdds
    /\ op' = "add" /\ made' = made + 1
    /\ source' = s
    /\ pc' = IF index = "there" /\ catalog = ids /\ ~cleanupPending THEN "read" ELSE "failed"
    /\ parts' = [parts EXCEPT ![made + 1] = s.declared]
    /\ answer' = [answer EXCEPT ![made + 1] = "pending"]
    /\ UNCHANGED <<index, catalog, files, litter, lost, memory, chunk, temp, staged,
                   victims>>

(* The worker drops its Store.                                             *)
Close ==
    /\ pc = "idle" /\ open
    /\ open' = FALSE /\ ids' = {} /\ cleanupPending' = FALSE
    /\ UNCHANGED <<disk, pc, frame, temp, staged, victims, made, answer>>

Answer(how) ==
    answer' = IF op = "add" THEN [answer EXCEPT ![made] = how] ELSE answer

(* A constructor that throws leaves no Store.                              *)
Return ==
    /\ pc \in {"return", "failed"}
    /\ pc' = "idle" /\ op' = "none" /\ source' = NoMedia
    /\ chunk' = 0 /\ staged' = {} /\ victims' = {}
    /\ IF op = "construct" /\ pc = "failed"
       THEN open' = FALSE /\ ids' = {} /\ cleanupPending' = FALSE
       ELSE open' = TRUE /\ UNCHANGED <<ids, cleanupPending>>
    /\ Answer(IF pc = "return" THEN "added" ELSE "failed")
    /\ UNCHANGED <<disk, temp, made>>

----------------------------------------------------------------------------
(* AtomicWrite *)

CreateTemporary ==
    /\ pc \in Writing /\ temp = "none"
    /\ temp' = "empty"
    /\ UNCHANGED <<disk, memory, pc, frame, staged, victims, made, answer>>

FillTemporary ==
    /\ temp = "empty"
    /\ temp' = "full"
    /\ UNCHANGED <<disk, memory, pc, frame, staged, victims, made, answer>>

Move(written) == temp = "full" /\ pc = written /\ temp' = "none"

----------------------------------------------------------------------------
(* recover *)

(* A catalog is created only where there are no records at all.            *)
ReadCatalog ==
    /\ pc = "recover"
    /\ IF index = "there" THEN pc' = "verify"
       ELSE files = {} /\ pc' = "init"
    /\ UNCHANGED <<disk, memory, frame, temp, staged, victims, made, answer>>

Initialise ==
    /\ Move("init")
    /\ index' = "there" /\ catalog' = {} /\ pc' = "verify"
    /\ UNCHANGED <<files, parts, litter, lost, memory, frame, staged, victims, made,
                   answer>>

(* Mutant: orphans go before the catalog's references are verified.        *)
VerifyNothing ==
    /\ pc = "verify"
    /\ cleanupPending' = TRUE
    /\ victims' = files \ Wanted(catalog)
    /\ pc' = "orphans"
    /\ UNCHANGED <<disk, open, ids, frame, temp, staged, made, answer>>

(* Every record the catalog names is there; the others are orphans.        *)
Verify ==
    /\ pc = "verify" /\ Wanted(catalog) \subseteq files
    /\ cleanupPending' = TRUE
    /\ victims' = files \ Wanted(catalog)
    /\ pc' = "orphans"
    /\ UNCHANGED <<disk, open, ids, frame, temp, staged, made, answer>>

EraseOrphan(k) ==
    /\ pc = "orphans" /\ k \in victims
    /\ files' = files \ {k} /\ victims' = victims \ {k}
    /\ UNCHANGED <<index, catalog, parts, litter, lost, memory, pc, frame, temp, staged,
                   made, answer>>

OrphansErased ==
    /\ pc = "orphans" /\ victims = {}
    /\ pc' = "temporaries"
    /\ UNCHANGED <<disk, memory, frame, temp, staged, victims, made, answer>>

EraseTemporary ==
    /\ pc = "temporaries" /\ "full" \in litter
    /\ litter' = litter \ {"full"}
    /\ UNCHANGED <<index, catalog, files, parts, lost, memory, pc, frame, temp, staged,
                   victims, made, answer>>

(* cleanupArchiveTemporary reads each temporary before it deletes it, and  *)
(* Read refuses an empty file: recover throws.                             *)
RefuseTemporary ==
    /\ pc = "temporaries" /\ "empty" \in litter
    /\ pc' = "failed"
    /\ UNCHANGED <<disk, memory, frame, temp, staged, victims, made, answer>>

TemporariesErased ==
    /\ pc = "temporaries" /\ litter = {}
    /\ pc' = "adopt"
    /\ UNCHANGED <<disk, memory, frame, temp, staged, victims, made, answer>>

(* Mutant: the pending cleanup is never called done.                       *)
AdoptPending ==
    /\ pc = "adopt"
    /\ ids' = catalog
    /\ pc' = IF Fits(catalog) THEN "return" ELSE "failed"
    /\ UNCHANGED <<disk, open, cleanupPending, frame, temp, staged, victims, made,
                   answer>>

Adopt ==
    /\ pc = "adopt"
    /\ ids' = catalog /\ cleanupPending' = FALSE
    /\ pc' = IF Fits(catalog) THEN "return" ELSE "failed"
    /\ UNCHANGED <<disk, open, frame, temp, staged, victims, made, answer>>

----------------------------------------------------------------------------
(* add *)

(* The next chunk of the declared length, then one more byte, which must   *)
(* not be there.                                                           *)
ReadSource ==
    /\ pc = "read"
    /\ \/ /\ chunk < source.declared /\ chunk < source.actual
          /\ chunk' = chunk + 1 /\ pc' = "chunk"
          /\ staged' = staged \cup {<<made, chunk + 1>>}
       \/ /\ chunk = source.declared /\ source.actual = source.declared
          /\ chunk' = chunk /\ pc' = "row"
          /\ staged' = staged \cup {<<made, 0>>}
    /\ UNCHANGED <<disk, memory, op, source, temp, victims, made, answer>>

WriteChunk ==
    /\ Move("chunk")
    /\ files' = files \cup {<<made, chunk>>} /\ pc' = "read"
    /\ UNCHANGED <<index, catalog, parts, litter, lost, memory, frame, staged, victims, made,
                   answer>>

WriteSnapshot ==
    /\ Move("row")
    /\ files' = files \cup {<<made, 0>>} /\ pc' = "choose"
    /\ UNCHANGED <<index, catalog, parts, litter, lost, memory, frame, staged, victims, made,
                   answer>>

(* The entries to prune are read and weighed again before they go.         *)
Choose ==
    LET gone == Pruned(ids \cup {made})
    IN  /\ pc = "choose"
        /\ Wanted(gone) \subseteq files
        /\ Cardinality(Wanted({made})) <= Quota
        /\ victims' = Wanted(gone) /\ pc' = "index"
        /\ UNCHANGED <<disk, memory, frame, temp, staged, made, answer>>

(* The catalog is replaced: the entry is committed.                        *)
Commit ==
    LET rest == (ids \cup {made}) \ Pruned(ids \cup {made})
    IN  /\ Move("index")
        /\ catalog' = rest /\ ids' = rest
        /\ pc' = "erase"
        /\ UNCHANGED <<index, files, parts, litter, lost, open, cleanupPending, frame, staged,
                       victims, made, answer>>

ErasePruned(k) ==
    /\ pc = "erase" /\ k \in victims
    /\ files' = files \ {k} /\ victims' = victims \ {k}
    /\ UNCHANGED <<index, catalog, parts, litter, lost, memory, pc, frame, temp, staged,
                   made, answer>>

PrunedErased ==
    /\ pc = "erase" /\ victims = {}
    /\ pc' = "return"
    /\ UNCHANGED <<disk, memory, frame, temp, staged, victims, made, answer>>

(* After a failure before the commit every staged key is erased.           *)
Unstage(k) ==
    /\ pc = "unstage" /\ k \in staged
    /\ files' = files \ {k} /\ staged' = staged \ {k}
    /\ UNCHANGED <<index, catalog, parts, litter, lost, memory, pc, frame, temp, victims,
                   made, answer>>

Unstaged ==
    /\ pc = "unstage" /\ staged = {}
    /\ pc' = "failed"
    /\ UNCHANGED <<disk, memory, frame, temp, staged, victims, made, answer>>

----------------------------------------------------------------------------
(* Failures *)

(* AtomicWrite's destructor deletes the temporary, or cannot.              *)
Leave == temp' = "none" /\ litter' \in {litter, litter \cup ({temp} \ {"none"})}

(* Before the commit an exception unstages; recover's leaves the call.     *)
Throw ==
    /\ pc \in {"recover", "verify", "orphans", "temporaries", "adopt", "read",
               "choose"} \cup Writing
    /\ Leave
    /\ pc' = IF op = "add" THEN "unstage" ELSE "failed"
    /\ UNCHANGED <<index, catalog, files, parts, lost, memory, frame, staged, victims, made,
                   answer>>

(* Mutant: a failed cleanup after the commit is reported as a failed add.  *)
PrunedKeptFails ==
    /\ pc = "erase" /\ victims # {}
    /\ cleanupPending' = TRUE /\ pc' = "failed"
    /\ UNCHANGED <<disk, open, ids, frame, temp, staged, victims, made, answer>>

(* A pruned record that cannot be erased: the add has succeeded anyway.    *)
PrunedKept ==
    /\ pc = "erase" /\ victims # {}
    /\ cleanupPending' = TRUE /\ pc' = "return"
    /\ UNCHANGED <<disk, open, ids, frame, temp, staged, victims, made, answer>>

(* Mutant: a staged record that cannot be erased is forgotten.             *)
StagedKeptSilently(k) ==
    /\ pc = "unstage" /\ k \in staged
    /\ staged' = staged \ {k}
    /\ UNCHANGED <<disk, memory, pc, frame, temp, victims, made, answer>>

(* A staged record that cannot be erased.                                  *)
StagedKept(k) ==
    /\ pc = "unstage" /\ k \in staged
    /\ staged' = staged \ {k} /\ cleanupPending' = TRUE
    /\ UNCHANGED <<disk, open, ids, pc, frame, temp, victims, made, answer>>

Crash ==
    /\ open \/ pc # "idle"
    /\ litter' = litter \cup ({temp} \ {"none"}) /\ temp' = "none"
    /\ open' = FALSE /\ ids' = {} /\ cleanupPending' = FALSE
    /\ pc' = "idle" /\ op' = "none" /\ source' = NoMedia
    /\ chunk' = 0 /\ staged' = {} /\ victims' = {}
    /\ Answer("unknown")
    /\ UNCHANGED <<index, catalog, files, parts, lost, made>>

(* Outside the program: one record, or the catalog, is gone.               *)
NothingLost == lost = {} /\ index # "lost"

LoseRecord(k) ==
    /\ pc = "idle" /\ k \in files /\ NothingLost
    /\ files' = files \ {k} /\ lost' = {k}
    /\ UNCHANGED <<index, catalog, parts, litter, memory, pc, frame, temp, staged, victims,
                   made, answer>>

LoseCatalog ==
    /\ pc = "idle" /\ files # {} /\ index = "there" /\ NothingLost
    /\ index' = "lost"
    /\ UNCHANGED <<catalog, files, parts, litter, lost, memory, pc, frame, temp, staged,
                   victims, made, answer>>

----------------------------------------------------------------------------
Sources == {s \in [declared: 0..MaxChunks, actual: 0..MaxChunks + 1] :
                s.declared = 0 => s.actual = 0}

Calls == Construct \/ Recover \/ Close \/ \E s \in Sources : Add(s)

Step ==
    \/ Return \/ CreateTemporary \/ FillTemporary
    \/ ReadCatalog \/ Initialise \/ Verify \/ OrphansErased \/ EraseTemporary
    \/ RefuseTemporary \/ TemporariesErased \/ Adopt
    \/ ReadSource \/ WriteChunk \/ WriteSnapshot \/ Choose \/ Commit
    \/ PrunedErased \/ Unstaged
    \/ \E k \in Keys : EraseOrphan(k) \/ ErasePruned(k) \/ Unstage(k)

Failure == Throw \/ PrunedKept \/ \E k \in Keys : StagedKept(k)

Loss == LoseCatalog \/ \E k \in Keys : LoseRecord(k)

Next == Calls \/ Step \/ Failure \/ Crash \/ Loss

Spec == Init /\ [][Next]_vars

(* The worker thread goes on with the call it is in; whether the next disk *)
(* operation succeeds is up to the disk.                                   *)
FairSpec == Spec /\ WF_vars(Step \/ Failure)

----------------------------------------------------------------------------
(* Properties *)

(* Whatever stops or fails, every record the catalog names is on disk:     *)
(* the catalog is replaced after the new records and before the old ones   *)
(* go ("The encrypted catalog is published last", archive_store.h).        *)
CatalogBacked == Wanted(catalog) \subseteq files \cup lost

(* A store that answers requests holds exactly its entries' records, its   *)
(* memory agrees with the catalog on disk, and it is within its limits     *)
(* (README: "Steady-state ciphertext quota").                              *)
SteadyState == open /\ pc = "idle" /\ ~cleanupPending =>
    /\ ids = catalog /\ Fits(ids)
    /\ files = Wanted(ids) \ lost

(* At no time, not even after failed cleanups and crashes, is there more   *)
(* on disk than the quota and one staged capture (README: "old records     *)
(* coexist with one staged capture").                                      *)
DiskBound == Cardinality(files) <= Quota + MaxChunks + 1

(* What the directory holds, at rest and at its worst.                     *)
DirectorySound == TypeOK /\ CatalogBacked /\ SteadyState /\ DiskBound

(* Recovery never erases anything while the catalog or a record it names   *)
(* is missing (README: "Recovery validates every catalog reference before  *)
(* deletion").                                                             *)
EvidencePreserved == [][
    op # "add" /\ (index = "lost" \/ ~(Wanted(catalog) \subseteq files))
        => files \ files' \subseteq lost']_vars

Usable == open /\ pc = "idle" /\ ~cleanupPending

(* The disk stops failing, nothing was lost, and the caller keeps asking.  *)
Undisturbed ==
    /\ <>[][Failure \/ Crash => RefuseTemporary]_vars
    /\ []NothingLost
    /\ []<><<pc = "idle" /\ pc' = "recover">>_vars

(* However a failure or a crash left the archive, recovery makes it usable *)
(* again, if no temporary was left empty (README: "Failed cleanup ...      *)
(* blocks further access until recover() succeeds").                       *)
Recovers == Undisturbed /\ []("empty" \notin litter) => []<>Usable

(* README, 34-36: "strict archive temporary files are removed ... blocks   *)
(* further access until recover() succeeds", for every temporary a stopped *)
(* AtomicWrite can leave.                                                  *)
RecoversFromAnyTemporary == Undisturbed => []<>Usable

----------------------------------------------------------------------------
(* Refinement *)

Log == INSTANCE ArchiveLogSpec WITH kept <- catalog

(* The store is a log that loses only its oldest entries, and an add's     *)
(* outcome is what its caller is told: committed or not, never in between. *)
ImplementsLog == Log!Spec
=============================================================================
