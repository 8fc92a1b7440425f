-------------------------- MODULE ArchiveStore_proofs --------------------------
(***************************************************************************)
(* Theorems about ArchiveStore, for every number of adds and chunks, every *)
(* quota and every limit of entries: whatever fails, stops or gets lost,   *)
(* the directory is sound, recovery erases nothing while evidence is       *)
(* missing, and the store is the log that ArchiveLogSpec promises.         *)
(*                                                                         *)
(* The argument: the entries are numbered, so the records an add stages    *)
(* are of no entry the catalog names, and an entry once named keeps its    *)
(* records (Numbered).  Every committed catalog fits the limits because    *)
(* pruning takes the oldest entries first (PrunedFits), so an archive that *)
(* holds its catalog's records and one staged entry is within its bound.   *)
(***************************************************************************)
EXTENDS ArchiveStore, FiniteSetTheorems, WellFoundedInduction, TLAPS

----------------------------------------------------------------------------
(* The inductive invariant *)

Recovering == {"recover", "init", "verify", "orphans", "temporaries", "adopt"}
Staging    == {"read", "chunk", "row", "choose", "index"}

(* The records that may be staged for the entry being added.               *)
Own == {<<made, c>> : c \in 0..MaxChunks}

(* Whatever exists belongs to an entry whose add has begun.                *)
Numbered ==
    /\ catalog \subseteq 1..made /\ ids \subseteq 1..made
    /\ \A k \in files \cup lost : k[1] \in 1..made
    /\ \A i \in Ids : i > made => answer[i] = "none"

(* Which call is at which step, and what it may assume.                    *)
CallInv ==
    /\ pc = "idle" <=> op = "none"
    /\ pc \in Recovering => op \in {"construct", "recover"}
    /\ pc \in Staging \cup {"erase", "unstage"} => op = "add"
    /\ op \in {"recover", "add"} => open
    /\ op = "add" => made # 0 /\ answer[made] = "pending"
    /\ op # "add" => chunk = 0 /\ staged = {}

IndexInv ==
    /\ index # "there" => lost = {}
    /\ index = "none" => catalog = {} /\ files = {}
    /\ pc \in {"verify", "orphans", "temporaries", "adopt"} \cup Staging => index = "there"
    /\ pc = "init" => files = {} /\ index # "there"

CatalogInv == CatalogBacked /\ Fits(catalog) /\ files \cap lost = {}

RecoverInv ==
    /\ pc \in {"orphans", "temporaries", "adopt"} => cleanupPending
    /\ pc = "orphans" => /\ Wanted(catalog) \subseteq files
                         /\ victims = files \ Wanted(catalog)
    /\ pc \in {"temporaries", "adopt"} => files = Wanted(catalog)

(* Before the commit: the archive as it was, and what has been staged.     *)
StageInv ==
    /\ pc \in Staging \cup {"unstage"} =>
         /\ ids = catalog /\ made \notin catalog
         /\ \A k \in lost : k[1] # made
         /\ staged \subseteq Own
         /\ ~cleanupPending => files \subseteq Wanted(ids) \cup staged
    /\ pc \in Staging =>
         /\ ~cleanupPending
         /\ parts[made] = source.declared /\ chunk <= source.declared
         /\ staged \subseteq Wanted({made})
    /\ pc \in {"read", "row"} => \A c \in 1..chunk : <<made, c>> \in files
    /\ pc = "chunk" => /\ chunk > 0
                       /\ \A c \in 1..(chunk - 1) : <<made, c>> \in files
    /\ pc \in {"chunk", "row"} => <<made, IF pc = "row" THEN 0 ELSE chunk>> \in staged
    /\ pc = "row" => chunk = source.declared
    /\ pc \in {"choose", "index"} => Wanted({made}) \subseteq files
    /\ pc = "index" => /\ victims = Wanted(Pruned(ids \cup {made}))
                       /\ Cardinality(Wanted({made})) <= Quota

(* After it: what is still to be erased is named by nothing.               *)
PruneInv ==
    /\ pc = "erase" => /\ ids = catalog
                       /\ \A k \in victims : k[1] \notin catalog
                       /\ ~cleanupPending => files \subseteq Wanted(ids) \cup victims
    /\ op = "add" => (pc \in {"erase", "return"} <=> made \in catalog)

Sound == ids = catalog /\ files = Wanted(ids) \ lost

(* A store that owes no cleanup is sound whenever it is not at work.       *)
RestInv ==
    /\ open /\ ~cleanupPending /\ pc \in {"idle", "recover", "init", "verify", "return", "failed"}
          => Sound
    /\ pc = "return" /\ op # "add" => ~cleanupPending /\ Sound

IInv == /\ TypeOK /\ Numbered /\ CallInv /\ IndexInv /\ CatalogInv /\ RecoverInv /\ StageInv
        /\ PruneInv /\ RestInv /\ DiskBound

----------------------------------------------------------------------------
(* The operators the store is built from *)

(* A set of naturals that is not empty has a least element.                *)
LEMMA LeastOf ==
    ASSUME NEW S \in SUBSET Nat, S # {}
    PROVE  \E m \in S : \A j \in S : m <= j
<1> DEFINE R == OpToRel(<, Nat)
<1>1. IsWellFoundedOn(R, Nat)
  BY NatLessThanWellFounded
<1>2. \A x, y \in Nat : <<y, x>> \in R <=> y < x
  BY DEF OpToRel
<1> HIDE DEF R
<1>3. PICK m \in S : \A j \in S : ~(<<j, m>> \in R)
  BY <1>1, WFMin
<1>4. ASSUME NEW j \in S PROVE m <= j
  <2>1. j \in Nat /\ m \in Nat /\ ~(j < m)
    BY <1>2, <1>3
  <2> QED  BY <2>1
<1> QED
  BY <1>4

(* There are finitely many records.                                        *)
LEMMA KeysFinite == IsFiniteSet(Keys) /\ \A S : Wanted(S) \subseteq Keys /\ IsFiniteSet(Wanted(S))
<1>1. IsFiniteSet(Ids) /\ IsFiniteSet(0..MaxChunks)
  BY SizesAssumption, FS_Interval DEF Ids
<1>2. IsFiniteSet(Keys)
  BY <1>1, FS_Product DEF Keys
<1>3. \A S : Wanted(S) \in SUBSET Keys
  BY DEF Wanted
<1>4. \A T \in SUBSET Keys : IsFiniteSet(T)
  BY <1>2, FS_Subset
<1> QED
  BY <1>2, <1>3, <1>4

LEMMA IdsFinite == ASSUME NEW S \in SUBSET Ids PROVE IsFiniteSet(S)
<1>1. IsFiniteSet(Ids)
  BY SizesAssumption, FS_Interval DEF Ids
<1> QED
  BY <1>1, FS_Subset

LEMMA CardNat == ASSUME NEW S, IsFiniteSet(S) PROVE Cardinality(S) \in Nat
  BY FS_CardinalityType

(* What fits still fits when entries go.                                   *)
LEMMA FitsMono ==
    ASSUME NEW S \in SUBSET Ids, NEW T \in SUBSET S, Fits(S)
    PROVE  Fits(T)
<1>1. Wanted(T) \in SUBSET Wanted(S)
  BY DEF Wanted
<1>2. IsFiniteSet(S) /\ IsFiniteSet(T) /\ IsFiniteSet(Wanted(S)) /\ IsFiniteSet(Wanted(T))
  BY KeysFinite, IdsFinite
<1>3. Cardinality(T) <= Cardinality(S) /\ Cardinality(Wanted(T)) <= Cardinality(Wanted(S))
  BY <1>1, <1>2, FS_Subset
<1>4. /\ Cardinality(T) \in Nat /\ Cardinality(S) \in Nat
      /\ Cardinality(Wanted(T)) \in Nat /\ Cardinality(Wanted(S)) \in Nat
  BY <1>2, CardNat
<1> QED
  BY <1>3, <1>4, SizesAssumption DEF Fits

LEMMA FitsEmpty == Fits({})
<1>1. Wanted({}) = {}
  BY DEF Wanted
<1> QED
  BY <1>1, FS_EmptySet, SizesAssumption DEF Fits

(* Pruning takes the oldest entries first, and never the new one.          *)
LEMMA PrunedOld ==
    ASSUME NEW S \in SUBSET Ids
    PROVE  /\ Pruned(S) \subseteq S \ {made}
           /\ \A g \in Pruned(S), k \in (S \ {made}) \ Pruned(S) : g < k
<1>1. Pruned(S) \subseteq S \ {made}
  BY DEF Pruned
<1>2. ASSUME NEW g \in Pruned(S), NEW k \in (S \ {made}) \ Pruned(S), k <= g PROVE FALSE
  <2>1. Fits({j \in S : j >= k})
    BY <1>2 DEF Pruned
  <2>2. g \in Nat /\ k \in Nat /\ S \subseteq Nat
    BY <1>2 DEF Ids, Pruned
  <2>3. \A j \in S : j >= g => j >= k
    BY <1>2, <2>2
  <2>4. Fits({j \in S : j >= g})
    <3>1. {j \in S : j >= g} \in SUBSET {j \in S : j >= k} /\ {j \in S : j >= k} \in SUBSET Ids
      BY <2>3
    <3> QED  BY <2>1, <3>1, FitsMono
  <2> QED
    BY <2>4 DEF Pruned
<1>3. \A g \in Pruned(S), k \in (S \ {made}) \ Pruned(S) : g < k
  <2> TAKE g \in Pruned(S), k \in (S \ {made}) \ Pruned(S)
  <2>1. g \in Nat /\ k \in Nat
    BY DEF Ids, Pruned
  <2> QED  BY <1>2, <2>1
<1> QED
  BY <1>1, <1>3

(* What pruning leaves fits, whatever there was, if the new entry does.    *)
LEMMA PrunedFits ==
    ASSUME NEW S \in SUBSET Ids, made \in S, \A j \in S : j <= made,
           Cardinality(Wanted({made})) <= Quota
    PROVE  Fits(S \ Pruned(S))
<1> DEFINE rest == S \ Pruned(S)
<1>1. rest \in SUBSET Nat /\ rest # {} /\ made \in rest /\ rest \in SUBSET S
  <2>1. S \subseteq Nat
    BY DEF Ids
  <2>2. made \notin Pruned(S)
    BY DEF Pruned
  <2> QED  BY <2>1, <2>2
<1>2. PICK m \in rest : \A j \in rest : m <= j
  <2> HIDE DEF rest
  <2> QED  BY <1>1, LeastOf
<1>3. CASE m = made
  <2>1. rest = {made}
    BY <1>1, <1>2, <1>3
  <2>2. Cardinality({made}) = 1
    BY FS_Singleton
  <2> QED
    BY <2>1, <2>2, SizesAssumption DEF Fits
<1>4. CASE m # made
  <2>1. Fits({j \in S : j >= m})
    BY <1>2, <1>4 DEF Pruned
  <2>2. {j \in S : j >= m} \in SUBSET Ids
    OBVIOUS
  <2> HIDE DEF rest
  <2>3. rest \in SUBSET {j \in S : j >= m}
    BY <1>1, <1>2
  <2>4. Fits(rest)
    BY <2>1, <2>2, <2>3, FitsMono
  <2> QED
    BY <2>4 DEF rest
<1> QED
  BY <1>3, <1>4

(* Room for the records of a catalog that fits, and one staged entry's.    *)
LEMMA RoomFor ==
    ASSUME NEW F, NEW S, F \subseteq Wanted(S) \cup Own, Cardinality(Wanted(S)) <= Quota
    PROVE  IsFiniteSet(F) /\ Cardinality(F) <= Quota + MaxChunks + 1
<1>1. IsFiniteSet(0..MaxChunks) /\ Cardinality(0..MaxChunks) = MaxChunks + 1
  BY SizesAssumption, FS_Interval
<1>2. IsFiniteSet({made}) /\ Cardinality({made}) = 1
  BY FS_Singleton
<1>3. Own = {made} \X (0..MaxChunks)
  BY DEF Own
<1>4. IsFiniteSet(Own) /\ Cardinality(Own) = MaxChunks + 1
  <2>1. IsFiniteSet({made} \X (0..MaxChunks))
        /\ Cardinality({made} \X (0..MaxChunks)) = 1 * (MaxChunks + 1)
    <3> HIDE DEF Own
    <3> DEFINE One == {made}
    <3> DEFINE All == 0..MaxChunks
    <3>1. IsFiniteSet(One) /\ Cardinality(One) = 1 /\ IsFiniteSet(All)
          /\ Cardinality(All) = MaxChunks + 1
      BY <1>1, <1>2
    <3> HIDE DEF One, All
    <3>2. IsFiniteSet(One \X All) /\ Cardinality(One \X All) = Cardinality(One) * Cardinality(All)
      BY <3>1, FS_Product
    <3>3. IsFiniteSet(One \X All) /\ Cardinality(One \X All) = 1 * (MaxChunks + 1)
      BY <3>1, <3>2
    <3> QED  BY <3>3 DEF One, All
  <2> QED
    BY <1>3, <2>1, SizesAssumption
<1>5. IsFiniteSet(Wanted(S))
  BY KeysFinite
<1>6. /\ IsFiniteSet(Wanted(S) \cup Own)
      /\ Cardinality(Wanted(S) \cup Own)
           = Cardinality(Wanted(S)) + Cardinality(Own) - Cardinality(Wanted(S) \cap Own)
  BY <1>4, <1>5, FS_Union
<1>7. Cardinality(Wanted(S)) \in Nat /\ Cardinality(Wanted(S) \cap Own) \in Nat
  BY <1>4, <1>5, FS_Intersection, CardNat
<1>8. IsFiniteSet(F) /\ Cardinality(F) <= Cardinality(Wanted(S) \cup Own)
  <2>1. F \in SUBSET (Wanted(S) \cup Own)
    OBVIOUS
  <2> QED  BY <2>1, <1>6, FS_Subset
<1>9. Cardinality(F) \in Nat
  BY <1>8, CardNat
<1> QED
  BY <1>4, <1>6, <1>7, <1>8, <1>9, SizesAssumption

(* A step that keeps the entries' sizes keeps every entry's records, and   *)
(* what of any set fits or has to go.                                      *)
LEMMA WantedKept ==
    ASSUME parts' = parts
    PROVE  \A S : Wanted(S)' = Wanted(S)
  BY DEF Wanted

LEMMA FitsKept ==
    ASSUME UNCHANGED <<parts, catalog>>, Fits(catalog)
    PROVE  Fits(catalog)'
  BY WantedKept DEF Fits

LEMMA PrunedSame ==
    ASSUME UNCHANGED <<parts, made>>
    PROVE  \A S : Pruned(S)' = Pruned(S)
  BY DEF Pruned, Fits, Wanted

(* A new entry's size changes nothing for the entries before it.           *)
LEMMA WantedBefore ==
    ASSUME IInv, NEW n, parts' = [parts EXCEPT ![made + 1] = n], UNCHANGED <<catalog, ids>>
    PROVE  /\ Wanted(catalog)' = Wanted(catalog) /\ Wanted(ids)' = Wanted(ids)
           /\ Fits(catalog)'
<1>1. \A i \in 1..made : parts'[i] = parts[i]
  BY DEF IInv, TypeOK
<1>2. Wanted(catalog)' = Wanted(catalog) /\ Wanted(ids)' = Wanted(ids)
  BY <1>1 DEF IInv, Numbered, Wanted
<1>3. Fits(catalog)
  BY DEF IInv, CatalogInv
<1> QED
  BY <1>2, <1>3 DEF Fits

(* Erasing makes room.                                                     *)
LEMMA ErasingShrinks ==
    ASSUME IInv, files' \subseteq files
    PROVE  DiskBound'
<1>1. files \in SUBSET Keys /\ files' \in SUBSET files
  BY DEF IInv, TypeOK
<1>2. IsFiniteSet(files)
  BY <1>1, KeysFinite, FS_Subset
<1>3. IsFiniteSet(files') /\ Cardinality(files') <= Cardinality(files)
  BY <1>1, <1>2, FS_Subset
<1>4. Cardinality(files) \in Nat /\ Cardinality(files') \in Nat
  BY <1>2, <1>3, CardNat
<1> QED
  BY <1>3, <1>4, SizesAssumption DEF IInv, DiskBound

(* A staged record is of the new entry: it is named by nothing yet, it was *)
(* never lost, and there is room for it.                                   *)
LEMMA StagingSound ==
    ASSUME IInv, pc \in Staging, NEW c \in 0..MaxChunks, <<made, c>> \in staged,
           files' = files \cup {<<made, c>>}, UNCHANGED <<catalog, parts, lost>>
    PROVE  CatalogInv' /\ DiskBound'
<1>1. CatalogBacked' /\ (files \cap lost = {})'
  BY WantedKept DEF IInv, CatalogInv, CatalogBacked, StageInv
<1>2. Fits(catalog)'
  BY FitsKept DEF IInv, CatalogInv
<1>3. files' \subseteq Wanted(catalog) \cup Own
  BY DEF IInv, StageInv, Staging
<1>4. Cardinality(Wanted(catalog)) <= Quota
  BY DEF IInv, CatalogInv, Fits
<1>5. DiskBound'
  BY <1>3, <1>4, RoomFor DEF DiskBound
<1> QED
  BY <1>1, <1>2, <1>5 DEF CatalogInv

----------------------------------------------------------------------------
(* Every step preserves the inductive invariant *)

LEMMA ConstructKeeps ==
    ASSUME IInv, Construct
    PROVE  IInv'
<1>0. \A S : Wanted(S)' = Wanted(S)
  BY WantedKept DEF Construct, disk
<1>1. TypeOK'
  BY SizesAssumption DEF IInv, TypeOK, Numbered, CallInv, NoMedia, Construct, disk, memory,
     frame, Writing, Erasing
<1>2. Numbered'
  BY SizesAssumption DEF IInv, TypeOK, Numbered, CallInv, Construct, disk, memory, frame,
     Recovering, Staging, Writing, Erasing
<1>3. CallInv'
  BY DEF IInv, TypeOK, CallInv, Construct, disk, memory, frame, Recovering, Staging, Writing,
     Erasing
<1>4. IndexInv'
  BY DEF IInv, TypeOK, IndexInv, Numbered, Construct, disk, memory, frame, Recovering,
     Staging, Writing, Erasing
<1>5. CatalogInv'
  BY <1>0 DEF IInv, TypeOK, CatalogInv, CatalogBacked, Fits, Construct, disk, memory, frame,
     Recovering, Staging, Writing, Erasing
<1>6. RecoverInv'
  BY <1>0 DEF IInv, TypeOK, RecoverInv, Construct, disk, memory, frame, Recovering, Staging,
     Writing, Erasing
<1>7. StageInv'
  BY <1>0, SizesAssumption DEF IInv, TypeOK, StageInv, Own, CallInv, Construct, disk, memory,
     frame, Recovering, Staging, Writing, Erasing
<1>8. PruneInv'
  BY <1>0 DEF IInv, TypeOK, PruneInv, CallInv, Construct, disk, memory, frame, Recovering,
     Staging, Writing, Erasing
<1>9. RestInv'
  BY <1>0 DEF IInv, TypeOK, CallInv, RestInv, Sound, Construct, disk, memory, frame,
     Recovering, Staging, Writing, Erasing
<1>10. DiskBound'
  BY SizesAssumption DEF IInv, DiskBound, Construct, disk, memory, frame, Recovering, Staging,
     Writing, Erasing
<1> QED
  BY <1>1, <1>2, <1>3, <1>4, <1>5, <1>6, <1>7, <1>8, <1>9, <1>10 DEF IInv

LEMMA RecoverKeeps ==
    ASSUME IInv, Recover
    PROVE  IInv'
<1>0. \A S : Wanted(S)' = Wanted(S)
  BY WantedKept DEF Recover, disk
<1>1. TypeOK'
  BY SizesAssumption DEF IInv, TypeOK, Numbered, CallInv, NoMedia, Recover, disk, memory,
     frame, Writing, Erasing
<1>2. Numbered'
  BY SizesAssumption DEF IInv, TypeOK, Numbered, CallInv, Recover, disk, memory, frame,
     Recovering, Staging, Writing, Erasing
<1>3. CallInv'
  BY DEF IInv, TypeOK, CallInv, Recover, disk, memory, frame, Recovering, Staging, Writing,
     Erasing
<1>4. IndexInv'
  BY DEF IInv, TypeOK, IndexInv, Numbered, Recover, disk, memory, frame, Recovering, Staging,
     Writing, Erasing
<1>5. CatalogInv'
  BY <1>0 DEF IInv, TypeOK, CatalogInv, CatalogBacked, Fits, Recover, disk, memory, frame,
     Recovering, Staging, Writing, Erasing
<1>6. RecoverInv'
  BY <1>0 DEF IInv, TypeOK, RecoverInv, Recover, disk, memory, frame, Recovering, Staging,
     Writing, Erasing
<1>7. StageInv'
  BY <1>0, SizesAssumption DEF IInv, TypeOK, StageInv, Own, CallInv, Recover, disk, memory,
     frame, Recovering, Staging, Writing, Erasing
<1>8. PruneInv'
  BY <1>0 DEF IInv, TypeOK, PruneInv, CallInv, Recover, disk, memory, frame, Recovering,
     Staging, Writing, Erasing
<1>9. RestInv'
  BY <1>0 DEF IInv, TypeOK, CallInv, RestInv, Sound, Recover, disk, memory, frame, Recovering,
     Staging, Writing, Erasing
<1>10. DiskBound'
  BY SizesAssumption DEF IInv, DiskBound, Recover, disk, memory, frame, Recovering, Staging,
     Writing, Erasing
<1> QED
  BY <1>1, <1>2, <1>3, <1>4, <1>5, <1>6, <1>7, <1>8, <1>9, <1>10 DEF IInv

LEMMA AddKeeps ==
    ASSUME NEW s \in Sources, IInv, Add(s)
    PROVE  IInv'
<1>0. Wanted(catalog)' = Wanted(catalog) /\ Wanted(ids)' = Wanted(ids) /\ Fits(catalog)'
  BY WantedBefore DEF Add, memory
<1>a. made + 1 \in Ids /\ made' = made + 1 /\ made \in Nat
  BY SizesAssumption DEF IInv, TypeOK, Add, Ids
<1>1. TypeOK'
  BY <1>a, SizesAssumption DEF IInv, TypeOK, Add, memory, Sources
<1>2. Numbered'
  BY SizesAssumption DEF IInv, TypeOK, Numbered, CallInv, Add, disk, memory, frame,
     Recovering, Staging, Writing, Erasing, Sources
<1>3. CallInv'
  BY <1>a DEF IInv, TypeOK, CallInv, Add, memory, Recovering, Staging
<1>4. IndexInv'
  BY DEF IInv, TypeOK, IndexInv, Numbered, Add, disk, memory, frame, Recovering, Staging,
     Writing, Erasing, Sources
<1>5. CatalogInv'
  BY <1>0 DEF IInv, CatalogInv, CatalogBacked, Add
<1>6. RecoverInv'
  BY DEF IInv, TypeOK, RecoverInv, Add, disk, memory, frame, Recovering, Staging, Writing,
     Erasing, Sources
<1>7. StageInv'
  <2>1. made' \notin catalog' /\ \A k \in lost' : k[1] # made'
    BY <1>a DEF IInv, Numbered, Add
  <2>2. CASE pc' = "failed"
    BY <2>2 DEF StageInv, Staging
  <2>3. CASE pc' = "read"
    <3>1. chunk' = 0 /\ staged' = {} /\ ids' = catalog' /\ ~cleanupPending' /\ Sound
      BY <2>3 DEF IInv, CallInv, RestInv, Add, memory
    <3>2. parts'[made'] = source'.declared /\ source'.declared \in Nat
      BY <1>a DEF IInv, TypeOK, Add, Sources
    <3> QED
      BY <1>0, <2>1, <2>3, <3>1, <3>2 DEF StageInv, Staging, Sound, Add, memory
  <2> QED  BY <2>2, <2>3 DEF Add
<1>8. PruneInv'
  BY <1>0, <1>a DEF IInv, Numbered, PruneInv, Add, memory
<1>9. RestInv'
  BY <1>0 DEF IInv, RestInv, Sound, Add, memory
<1>10. DiskBound'
  BY SizesAssumption DEF IInv, DiskBound, Add, disk, memory, frame, Recovering, Staging,
     Writing, Erasing, Sources
<1> QED
  BY <1>1, <1>2, <1>3, <1>4, <1>5, <1>6, <1>7, <1>8, <1>9, <1>10 DEF IInv

LEMMA CloseKeeps ==
    ASSUME IInv, Close
    PROVE  IInv'
<1>0. \A S : Wanted(S)' = Wanted(S)
  BY WantedKept DEF Close, disk
<1>1. TypeOK'
  BY SizesAssumption DEF IInv, TypeOK, Numbered, CallInv, NoMedia, Close, disk, memory, frame,
     Writing, Erasing
<1>2. Numbered'
  BY SizesAssumption DEF IInv, TypeOK, Numbered, CallInv, Close, disk, memory, frame,
     Recovering, Staging, Writing, Erasing
<1>3. CallInv'
  BY DEF IInv, TypeOK, CallInv, Close, disk, memory, frame, Recovering, Staging, Writing,
     Erasing
<1>4. IndexInv'
  BY DEF IInv, TypeOK, IndexInv, Numbered, Close, disk, memory, frame, Recovering, Staging,
     Writing, Erasing
<1>5. CatalogInv'
  BY <1>0 DEF IInv, TypeOK, CatalogInv, CatalogBacked, Fits, Close, disk, memory, frame,
     Recovering, Staging, Writing, Erasing
<1>6. RecoverInv'
  BY <1>0 DEF IInv, TypeOK, RecoverInv, Close, disk, memory, frame, Recovering, Staging,
     Writing, Erasing
<1>7. StageInv'
  BY <1>0, SizesAssumption DEF IInv, TypeOK, StageInv, Own, CallInv, Close, disk, memory,
     frame, Recovering, Staging, Writing, Erasing
<1>8. PruneInv'
  BY <1>0 DEF IInv, TypeOK, PruneInv, CallInv, Close, disk, memory, frame, Recovering,
     Staging, Writing, Erasing
<1>9. RestInv'
  BY <1>0 DEF IInv, TypeOK, CallInv, RestInv, Sound, Close, disk, memory, frame, Recovering,
     Staging, Writing, Erasing
<1>10. DiskBound'
  BY SizesAssumption DEF IInv, DiskBound, Close, disk, memory, frame, Recovering, Staging,
     Writing, Erasing
<1> QED
  BY <1>1, <1>2, <1>3, <1>4, <1>5, <1>6, <1>7, <1>8, <1>9, <1>10 DEF IInv

LEMMA ReturnKeeps ==
    ASSUME IInv, Return
    PROVE  IInv'
<1>0. \A S : Wanted(S)' = Wanted(S)
  BY WantedKept DEF Return, disk, Answer, NoMedia
<1>1. TypeOK'
  <2>1. (answer \in [Ids -> {"none", "pending", "added", "failed", "unknown"}])'
    BY DEF IInv, TypeOK, Return, Answer
  <2>2. NoMedia \in [declared: 0..MaxChunks, actual: 0..MaxChunks + 1] /\ 0 \in 0..MaxChunks
    BY SizesAssumption DEF NoMedia
  <2> QED
    BY <2>1, <2>2 DEF IInv, TypeOK, Return, disk, memory, frame
<1>2. Numbered'
  BY SizesAssumption DEF IInv, TypeOK, Numbered, CallInv, Return, disk, memory, frame,
     Recovering, Staging, Writing, Erasing, Answer, NoMedia
<1>3. CallInv'
  BY DEF IInv, TypeOK, CallInv, Return, disk, memory, frame, Recovering, Staging, Writing,
     Erasing, Answer, NoMedia
<1>4. IndexInv'
  BY DEF IInv, TypeOK, IndexInv, Numbered, Return, disk, memory, frame, Recovering, Staging,
     Writing, Erasing, Answer, NoMedia
<1>5. CatalogInv'
  BY <1>0 DEF IInv, TypeOK, CatalogInv, CatalogBacked, Fits, Return, disk, memory, frame,
     Recovering, Staging, Writing, Erasing, Answer, NoMedia
<1>6. RecoverInv'
  BY <1>0 DEF IInv, TypeOK, RecoverInv, Return, disk, memory, frame, Recovering, Staging,
     Writing, Erasing, Answer, NoMedia
<1>7. StageInv'
  BY <1>0, SizesAssumption DEF IInv, TypeOK, StageInv, Own, CallInv, Return, disk, memory,
     frame, Recovering, Staging, Writing, Erasing, Answer, NoMedia
<1>8. PruneInv'
  BY <1>0 DEF IInv, TypeOK, PruneInv, CallInv, Return, disk, memory, frame, Recovering,
     Staging, Writing, Erasing, Answer, NoMedia
<1>9. RestInv'
  BY <1>0 DEF IInv, TypeOK, CallInv, RestInv, Sound, Return, disk, memory, frame, Recovering,
     Staging, Writing, Erasing, Answer, NoMedia
<1>10. DiskBound'
  BY SizesAssumption DEF IInv, DiskBound, Return, disk, memory, frame, Recovering, Staging,
     Writing, Erasing, Answer, NoMedia
<1> QED
  BY <1>1, <1>2, <1>3, <1>4, <1>5, <1>6, <1>7, <1>8, <1>9, <1>10 DEF IInv

LEMMA CreateTemporaryKeeps ==
    ASSUME IInv, CreateTemporary
    PROVE  IInv'
<1>0. \A S : Wanted(S)' = Wanted(S)
  BY WantedKept DEF CreateTemporary, disk
<1>1. TypeOK'
  BY SizesAssumption DEF IInv, TypeOK, Numbered, CallInv, NoMedia, CreateTemporary, disk,
     memory, frame, Writing, Erasing
<1>2. Numbered'
  BY SizesAssumption DEF IInv, TypeOK, Numbered, CallInv, CreateTemporary, disk, memory,
     frame, Recovering, Staging, Writing, Erasing
<1>3. CallInv'
  BY DEF IInv, TypeOK, CallInv, CreateTemporary, disk, memory, frame, Recovering, Staging,
     Writing, Erasing
<1>4. IndexInv'
  BY DEF IInv, TypeOK, IndexInv, Numbered, CreateTemporary, disk, memory, frame, Recovering,
     Staging, Writing, Erasing
<1>5. CatalogInv'
  BY <1>0 DEF IInv, TypeOK, CatalogInv, CatalogBacked, Fits, CreateTemporary, disk, memory,
     frame, Recovering, Staging, Writing, Erasing
<1>6. RecoverInv'
  BY <1>0 DEF IInv, TypeOK, RecoverInv, CreateTemporary, disk, memory, frame, Recovering,
     Staging, Writing, Erasing
<1>7. StageInv'
  <2>1. \A S : Pruned(S)' = Pruned(S)
    BY PrunedSame DEF CreateTemporary, disk
  <2> QED
    BY <1>0, <2>1 DEF IInv, StageInv, Own, CreateTemporary, disk, memory, frame
<1>8. PruneInv'
  BY <1>0 DEF IInv, TypeOK, PruneInv, CallInv, CreateTemporary, disk, memory, frame,
     Recovering, Staging, Writing, Erasing
<1>9. RestInv'
  BY <1>0 DEF IInv, TypeOK, CallInv, RestInv, Sound, CreateTemporary, disk, memory, frame,
     Recovering, Staging, Writing, Erasing
<1>10. DiskBound'
  BY SizesAssumption DEF IInv, DiskBound, CreateTemporary, disk, memory, frame, Recovering,
     Staging, Writing, Erasing
<1> QED
  BY <1>1, <1>2, <1>3, <1>4, <1>5, <1>6, <1>7, <1>8, <1>9, <1>10 DEF IInv

LEMMA FillTemporaryKeeps ==
    ASSUME IInv, FillTemporary
    PROVE  IInv'
<1>0. \A S : Wanted(S)' = Wanted(S)
  BY WantedKept DEF FillTemporary, disk
<1>1. TypeOK'
  BY SizesAssumption DEF IInv, TypeOK, Numbered, CallInv, NoMedia, FillTemporary, disk,
     memory, frame, Writing, Erasing
<1>2. Numbered'
  BY SizesAssumption DEF IInv, TypeOK, Numbered, CallInv, FillTemporary, disk, memory, frame,
     Recovering, Staging, Writing, Erasing
<1>3. CallInv'
  BY DEF IInv, TypeOK, CallInv, FillTemporary, disk, memory, frame, Recovering, Staging,
     Writing, Erasing
<1>4. IndexInv'
  BY DEF IInv, TypeOK, IndexInv, Numbered, FillTemporary, disk, memory, frame, Recovering,
     Staging, Writing, Erasing
<1>5. CatalogInv'
  BY <1>0 DEF IInv, TypeOK, CatalogInv, CatalogBacked, Fits, FillTemporary, disk, memory,
     frame, Recovering, Staging, Writing, Erasing
<1>6. RecoverInv'
  BY <1>0 DEF IInv, TypeOK, RecoverInv, FillTemporary, disk, memory, frame, Recovering,
     Staging, Writing, Erasing
<1>7. StageInv'
  <2>1. \A S : Pruned(S)' = Pruned(S)
    BY PrunedSame DEF FillTemporary, disk
  <2> QED
    BY <1>0, <2>1 DEF IInv, StageInv, Own, FillTemporary, disk, memory, frame
<1>8. PruneInv'
  BY <1>0 DEF IInv, TypeOK, PruneInv, CallInv, FillTemporary, disk, memory, frame, Recovering,
     Staging, Writing, Erasing
<1>9. RestInv'
  BY <1>0 DEF IInv, TypeOK, CallInv, RestInv, Sound, FillTemporary, disk, memory, frame,
     Recovering, Staging, Writing, Erasing
<1>10. DiskBound'
  BY SizesAssumption DEF IInv, DiskBound, FillTemporary, disk, memory, frame, Recovering,
     Staging, Writing, Erasing
<1> QED
  BY <1>1, <1>2, <1>3, <1>4, <1>5, <1>6, <1>7, <1>8, <1>9, <1>10 DEF IInv

LEMMA ReadCatalogKeeps ==
    ASSUME IInv, ReadCatalog
    PROVE  IInv'
<1>0. \A S : Wanted(S)' = Wanted(S)
  BY WantedKept DEF ReadCatalog, disk
<1>1. TypeOK'
  BY SizesAssumption DEF IInv, TypeOK, Numbered, CallInv, NoMedia, ReadCatalog, disk, memory,
     frame, Writing, Erasing
<1>2. Numbered'
  BY SizesAssumption DEF IInv, TypeOK, Numbered, CallInv, ReadCatalog, disk, memory, frame,
     Recovering, Staging, Writing, Erasing
<1>3. CallInv'
  BY DEF IInv, TypeOK, CallInv, ReadCatalog, disk, memory, frame, Recovering, Staging,
     Writing, Erasing
<1>4. IndexInv'
  BY DEF IInv, TypeOK, IndexInv, Numbered, ReadCatalog, disk, memory, frame, Recovering,
     Staging, Writing, Erasing
<1>5. CatalogInv'
  BY <1>0 DEF IInv, TypeOK, CatalogInv, CatalogBacked, Fits, ReadCatalog, disk, memory, frame,
     Recovering, Staging, Writing, Erasing
<1>6. RecoverInv'
  BY <1>0 DEF IInv, TypeOK, RecoverInv, ReadCatalog, disk, memory, frame, Recovering, Staging,
     Writing, Erasing
<1>7. StageInv'
  BY <1>0, SizesAssumption DEF IInv, TypeOK, StageInv, Own, CallInv, ReadCatalog, disk,
     memory, frame, Recovering, Staging, Writing, Erasing
<1>8. PruneInv'
  BY <1>0 DEF IInv, TypeOK, PruneInv, CallInv, ReadCatalog, disk, memory, frame, Recovering,
     Staging, Writing, Erasing
<1>9. RestInv'
  BY <1>0 DEF IInv, TypeOK, CallInv, RestInv, Sound, ReadCatalog, disk, memory, frame,
     Recovering, Staging, Writing, Erasing
<1>10. DiskBound'
  BY SizesAssumption DEF IInv, DiskBound, ReadCatalog, disk, memory, frame, Recovering,
     Staging, Writing, Erasing
<1> QED
  BY <1>1, <1>2, <1>3, <1>4, <1>5, <1>6, <1>7, <1>8, <1>9, <1>10 DEF IInv

LEMMA InitialiseKeeps ==
    ASSUME IInv, Initialise
    PROVE  IInv'
<1>0. \A S : Wanted(S)' = Wanted(S)
  BY WantedKept DEF Initialise
<1>a. index # "there" => catalog = {} \/ ~Sound
  <2>1. \A i \in catalog : <<i, 0>> \in Wanted(catalog)
    BY SizesAssumption DEF IInv, TypeOK, Wanted, Keys
  <2> QED
    BY <2>1 DEF IInv, IndexInv, Sound, Initialise, Move
<1>b. Wanted({}) = {}
  BY DEF Wanted
<1>1. TypeOK'
  BY SizesAssumption DEF IInv, TypeOK, Numbered, CallInv, NoMedia, Initialise, disk, memory,
     frame, Writing, Erasing, Move
<1>2. Numbered'
  BY SizesAssumption DEF IInv, TypeOK, Numbered, CallInv, Initialise, disk, memory, frame,
     Recovering, Staging, Writing, Erasing, Move
<1>3. CallInv'
  BY DEF IInv, TypeOK, CallInv, Initialise, disk, memory, frame, Recovering, Staging, Writing,
     Erasing, Move
<1>4. IndexInv'
  BY DEF IInv, TypeOK, IndexInv, Numbered, Initialise, disk, memory, frame, Recovering,
     Staging, Writing, Erasing, Move
<1>5. CatalogInv'
  <2>1. CatalogBacked' /\ (files \cap lost = {})'
    BY <1>0, <1>b DEF IInv, CatalogInv, CatalogBacked, Initialise
  <2>2. Fits({})' /\ catalog' = {}
    BY FitsEmpty, <1>0 DEF Fits, Initialise
  <2> QED  BY <2>1, <2>2 DEF CatalogInv
<1>6. RecoverInv'
  BY <1>0 DEF IInv, TypeOK, RecoverInv, Initialise, disk, memory, frame, Recovering, Staging,
     Writing, Erasing, Move
<1>7. StageInv'
  BY <1>0, SizesAssumption DEF IInv, TypeOK, StageInv, Own, CallInv, Initialise, disk, memory,
     frame, Recovering, Staging, Writing, Erasing, Move
<1>8. PruneInv'
  BY <1>0 DEF IInv, TypeOK, PruneInv, CallInv, Initialise, disk, memory, frame, Recovering,
     Staging, Writing, Erasing, Move
<1>9. RestInv'
  <2>1. ASSUME open, ~cleanupPending PROVE Sound'
    <3>1. Sound /\ index # "there" /\ lost = {} /\ files = {}
      BY <2>1 DEF IInv, IndexInv, RestInv, Initialise, Move
    <3>2. catalog' = {} /\ UNCHANGED <<ids, files, lost>> /\ ids = {}
      BY <1>a, <3>1 DEF Initialise, memory, Sound
    <3> QED  BY <1>0, <1>b, <3>1, <3>2 DEF Sound
  <2> QED
    BY <2>1 DEF IInv, RestInv, Initialise, memory
<1>10. DiskBound'
  BY SizesAssumption DEF IInv, DiskBound, Initialise, disk, memory, frame, Recovering,
     Staging, Writing, Erasing, Move
<1> QED
  BY <1>1, <1>2, <1>3, <1>4, <1>5, <1>6, <1>7, <1>8, <1>9, <1>10 DEF IInv

LEMMA VerifyKeeps ==
    ASSUME IInv, Verify
    PROVE  IInv'
<1>0. \A S : Wanted(S)' = Wanted(S)
  BY WantedKept DEF Verify, disk
<1>1. TypeOK'
  BY SizesAssumption DEF IInv, TypeOK, Numbered, CallInv, NoMedia, Verify, disk, memory,
     frame, Writing, Erasing
<1>2. Numbered'
  BY SizesAssumption DEF IInv, TypeOK, Numbered, CallInv, Verify, disk, memory, frame,
     Recovering, Staging, Writing, Erasing
<1>3. CallInv'
  BY DEF IInv, TypeOK, CallInv, Verify, disk, memory, frame, Recovering, Staging, Writing,
     Erasing
<1>4. IndexInv'
  BY DEF IInv, TypeOK, IndexInv, Numbered, Verify, disk, memory, frame, Recovering, Staging,
     Writing, Erasing
<1>5. CatalogInv'
  BY <1>0 DEF IInv, TypeOK, CatalogInv, CatalogBacked, Fits, Verify, disk, memory, frame,
     Recovering, Staging, Writing, Erasing
<1>6. RecoverInv'
  BY <1>0 DEF IInv, TypeOK, RecoverInv, Verify, disk, memory, frame, Recovering, Staging,
     Writing, Erasing
<1>7. StageInv'
  BY <1>0, SizesAssumption DEF IInv, TypeOK, StageInv, Own, CallInv, Verify, disk, memory,
     frame, Recovering, Staging, Writing, Erasing
<1>8. PruneInv'
  BY <1>0 DEF IInv, TypeOK, PruneInv, CallInv, Verify, disk, memory, frame, Recovering,
     Staging, Writing, Erasing
<1>9. RestInv'
  BY <1>0 DEF IInv, TypeOK, CallInv, RestInv, Sound, Verify, disk, memory, frame, Recovering,
     Staging, Writing, Erasing
<1>10. DiskBound'
  BY SizesAssumption DEF IInv, DiskBound, Verify, disk, memory, frame, Recovering, Staging,
     Writing, Erasing
<1> QED
  BY <1>1, <1>2, <1>3, <1>4, <1>5, <1>6, <1>7, <1>8, <1>9, <1>10 DEF IInv

LEMMA EraseOrphanKeeps ==
    ASSUME NEW k \in Keys, IInv, EraseOrphan(k)
    PROVE  IInv'
<1>0. \A S : Wanted(S)' = Wanted(S)
  BY WantedKept DEF EraseOrphan, disk
<1>1. TypeOK'
  BY SizesAssumption DEF IInv, TypeOK, Numbered, CallInv, NoMedia, EraseOrphan, disk, memory,
     frame, Writing, Erasing
<1>2. Numbered'
  BY SizesAssumption DEF IInv, TypeOK, Numbered, CallInv, EraseOrphan, disk, memory, frame,
     Recovering, Staging, Writing, Erasing
<1>3. CallInv'
  BY DEF IInv, TypeOK, CallInv, EraseOrphan, disk, memory, frame, Recovering, Staging,
     Writing, Erasing
<1>4. IndexInv'
  BY DEF IInv, TypeOK, IndexInv, Numbered, EraseOrphan, disk, memory, frame, Recovering,
     Staging, Writing, Erasing
<1>5. CatalogInv'
  <2>1. CatalogBacked' /\ (files \cap lost = {})'
    BY <1>0 DEF IInv, CatalogInv, CatalogBacked, RecoverInv, Wanted, EraseOrphan, disk, Staging
  <2>2. Fits(catalog)'
    BY FitsKept DEF IInv, CatalogInv, EraseOrphan
  <2> QED  BY <2>1, <2>2 DEF CatalogInv
<1>6. RecoverInv'
  BY <1>0 DEF IInv, TypeOK, RecoverInv, EraseOrphan, disk, memory, frame, Recovering, Staging,
     Writing, Erasing
<1>7. StageInv'
  BY <1>0, SizesAssumption DEF IInv, TypeOK, StageInv, Own, CallInv, EraseOrphan, disk,
     memory, frame, Recovering, Staging, Writing, Erasing
<1>8. PruneInv'
  BY <1>0 DEF IInv, TypeOK, PruneInv, CallInv, EraseOrphan, disk, memory, frame, Recovering,
     Staging, Writing, Erasing
<1>9. RestInv'
  BY <1>0 DEF IInv, TypeOK, CallInv, RestInv, Sound, EraseOrphan, disk, memory, frame,
     Recovering, Staging, Writing, Erasing
<1>10. DiskBound'
  BY ErasingShrinks DEF EraseOrphan
<1> QED
  BY <1>1, <1>2, <1>3, <1>4, <1>5, <1>6, <1>7, <1>8, <1>9, <1>10 DEF IInv

LEMMA OrphansErasedKeeps ==
    ASSUME IInv, OrphansErased
    PROVE  IInv'
<1>0. \A S : Wanted(S)' = Wanted(S)
  BY WantedKept DEF OrphansErased, disk
<1>1. TypeOK'
  BY SizesAssumption DEF IInv, TypeOK, Numbered, CallInv, NoMedia, OrphansErased, disk,
     memory, frame, Writing, Erasing
<1>2. Numbered'
  BY SizesAssumption DEF IInv, TypeOK, Numbered, CallInv, OrphansErased, disk, memory, frame,
     Recovering, Staging, Writing, Erasing
<1>3. CallInv'
  BY DEF IInv, TypeOK, CallInv, OrphansErased, disk, memory, frame, Recovering, Staging,
     Writing, Erasing
<1>4. IndexInv'
  BY DEF IInv, TypeOK, IndexInv, Numbered, OrphansErased, disk, memory, frame, Recovering,
     Staging, Writing, Erasing
<1>5. CatalogInv'
  BY <1>0 DEF IInv, TypeOK, CatalogInv, CatalogBacked, Fits, OrphansErased, disk, memory,
     frame, Recovering, Staging, Writing, Erasing
<1>6. RecoverInv'
  BY <1>0 DEF IInv, TypeOK, RecoverInv, OrphansErased, disk, memory, frame, Recovering,
     Staging, Writing, Erasing
<1>7. StageInv'
  BY <1>0, SizesAssumption DEF IInv, TypeOK, StageInv, Own, CallInv, OrphansErased, disk,
     memory, frame, Recovering, Staging, Writing, Erasing
<1>8. PruneInv'
  BY <1>0 DEF IInv, TypeOK, PruneInv, CallInv, OrphansErased, disk, memory, frame, Recovering,
     Staging, Writing, Erasing
<1>9. RestInv'
  BY <1>0 DEF IInv, TypeOK, CallInv, RestInv, Sound, OrphansErased, disk, memory, frame,
     Recovering, Staging, Writing, Erasing
<1>10. DiskBound'
  BY SizesAssumption DEF IInv, DiskBound, OrphansErased, disk, memory, frame, Recovering,
     Staging, Writing, Erasing
<1> QED
  BY <1>1, <1>2, <1>3, <1>4, <1>5, <1>6, <1>7, <1>8, <1>9, <1>10 DEF IInv

LEMMA EraseTemporaryKeeps ==
    ASSUME IInv, EraseTemporary
    PROVE  IInv'
<1>0. \A S : Wanted(S)' = Wanted(S)
  BY WantedKept DEF EraseTemporary, disk
<1>1. TypeOK'
  BY SizesAssumption DEF IInv, TypeOK, Numbered, CallInv, NoMedia, EraseTemporary, disk,
     memory, frame, Writing, Erasing
<1>2. Numbered'
  BY SizesAssumption DEF IInv, TypeOK, Numbered, CallInv, EraseTemporary, disk, memory, frame,
     Recovering, Staging, Writing, Erasing
<1>3. CallInv'
  BY DEF IInv, TypeOK, CallInv, EraseTemporary, disk, memory, frame, Recovering, Staging,
     Writing, Erasing
<1>4. IndexInv'
  BY DEF IInv, TypeOK, IndexInv, Numbered, EraseTemporary, disk, memory, frame, Recovering,
     Staging, Writing, Erasing
<1>5. CatalogInv'
  BY <1>0 DEF IInv, TypeOK, CatalogInv, CatalogBacked, Fits, EraseTemporary, disk, memory,
     frame, Recovering, Staging, Writing, Erasing
<1>6. RecoverInv'
  BY <1>0 DEF IInv, TypeOK, RecoverInv, EraseTemporary, disk, memory, frame, Recovering,
     Staging, Writing, Erasing
<1>7. StageInv'
  BY <1>0, SizesAssumption DEF IInv, TypeOK, StageInv, Own, CallInv, EraseTemporary, disk,
     memory, frame, Recovering, Staging, Writing, Erasing
<1>8. PruneInv'
  BY <1>0 DEF IInv, TypeOK, PruneInv, CallInv, EraseTemporary, disk, memory, frame,
     Recovering, Staging, Writing, Erasing
<1>9. RestInv'
  BY <1>0 DEF IInv, TypeOK, CallInv, RestInv, Sound, EraseTemporary, disk, memory, frame,
     Recovering, Staging, Writing, Erasing
<1>10. DiskBound'
  BY SizesAssumption DEF IInv, DiskBound, EraseTemporary, disk, memory, frame, Recovering,
     Staging, Writing, Erasing
<1> QED
  BY <1>1, <1>2, <1>3, <1>4, <1>5, <1>6, <1>7, <1>8, <1>9, <1>10 DEF IInv

LEMMA RefuseTemporaryKeeps ==
    ASSUME IInv, RefuseTemporary
    PROVE  IInv'
<1>0. \A S : Wanted(S)' = Wanted(S)
  BY WantedKept DEF RefuseTemporary, disk
<1>1. TypeOK'
  BY SizesAssumption DEF IInv, TypeOK, Numbered, CallInv, NoMedia, RefuseTemporary, disk,
     memory, frame, Writing, Erasing
<1>2. Numbered'
  BY SizesAssumption DEF IInv, TypeOK, Numbered, CallInv, RefuseTemporary, disk, memory,
     frame, Recovering, Staging, Writing, Erasing
<1>3. CallInv'
  BY DEF IInv, TypeOK, CallInv, RefuseTemporary, disk, memory, frame, Recovering, Staging,
     Writing, Erasing
<1>4. IndexInv'
  BY DEF IInv, TypeOK, IndexInv, Numbered, RefuseTemporary, disk, memory, frame, Recovering,
     Staging, Writing, Erasing
<1>5. CatalogInv'
  BY <1>0 DEF IInv, TypeOK, CatalogInv, CatalogBacked, Fits, RefuseTemporary, disk, memory,
     frame, Recovering, Staging, Writing, Erasing
<1>6. RecoverInv'
  BY <1>0 DEF IInv, TypeOK, RecoverInv, RefuseTemporary, disk, memory, frame, Recovering,
     Staging, Writing, Erasing
<1>7. StageInv'
  BY <1>0, SizesAssumption DEF IInv, TypeOK, StageInv, Own, CallInv, RefuseTemporary, disk,
     memory, frame, Recovering, Staging, Writing, Erasing
<1>8. PruneInv'
  BY <1>0 DEF IInv, TypeOK, PruneInv, CallInv, RefuseTemporary, disk, memory, frame,
     Recovering, Staging, Writing, Erasing
<1>9. RestInv'
  BY <1>0 DEF IInv, CallInv, RestInv, RecoverInv, Sound, RefuseTemporary, disk, memory, frame,
     Writing
<1>10. DiskBound'
  BY SizesAssumption DEF IInv, DiskBound, RefuseTemporary, disk, memory, frame, Recovering,
     Staging, Writing, Erasing
<1> QED
  BY <1>1, <1>2, <1>3, <1>4, <1>5, <1>6, <1>7, <1>8, <1>9, <1>10 DEF IInv

LEMMA TemporariesErasedKeeps ==
    ASSUME IInv, TemporariesErased
    PROVE  IInv'
<1>0. \A S : Wanted(S)' = Wanted(S)
  BY WantedKept DEF TemporariesErased, disk
<1>1. TypeOK'
  BY SizesAssumption DEF IInv, TypeOK, Numbered, CallInv, NoMedia, TemporariesErased, disk,
     memory, frame, Writing, Erasing
<1>2. Numbered'
  BY SizesAssumption DEF IInv, TypeOK, Numbered, CallInv, TemporariesErased, disk, memory,
     frame, Recovering, Staging, Writing, Erasing
<1>3. CallInv'
  BY DEF IInv, TypeOK, CallInv, TemporariesErased, disk, memory, frame, Recovering, Staging,
     Writing, Erasing
<1>4. IndexInv'
  BY DEF IInv, TypeOK, IndexInv, Numbered, TemporariesErased, disk, memory, frame, Recovering,
     Staging, Writing, Erasing
<1>5. CatalogInv'
  BY <1>0 DEF IInv, TypeOK, CatalogInv, CatalogBacked, Fits, TemporariesErased, disk, memory,
     frame, Recovering, Staging, Writing, Erasing
<1>6. RecoverInv'
  BY <1>0 DEF IInv, TypeOK, RecoverInv, TemporariesErased, disk, memory, frame, Recovering,
     Staging, Writing, Erasing
<1>7. StageInv'
  BY <1>0, SizesAssumption DEF IInv, TypeOK, StageInv, Own, CallInv, TemporariesErased, disk,
     memory, frame, Recovering, Staging, Writing, Erasing
<1>8. PruneInv'
  BY <1>0 DEF IInv, TypeOK, PruneInv, CallInv, TemporariesErased, disk, memory, frame,
     Recovering, Staging, Writing, Erasing
<1>9. RestInv'
  BY <1>0 DEF IInv, TypeOK, CallInv, RestInv, Sound, TemporariesErased, disk, memory, frame,
     Recovering, Staging, Writing, Erasing
<1>10. DiskBound'
  BY SizesAssumption DEF IInv, DiskBound, TemporariesErased, disk, memory, frame, Recovering,
     Staging, Writing, Erasing
<1> QED
  BY <1>1, <1>2, <1>3, <1>4, <1>5, <1>6, <1>7, <1>8, <1>9, <1>10 DEF IInv

LEMMA AdoptKeeps ==
    ASSUME IInv, Adopt
    PROVE  IInv'
<1>0. \A S : Wanted(S)' = Wanted(S)
  BY WantedKept DEF Adopt, disk
<1>1. TypeOK'
  BY SizesAssumption DEF IInv, TypeOK, Numbered, CallInv, NoMedia, Adopt, disk, memory, frame,
     Writing, Erasing
<1>2. Numbered'
  BY SizesAssumption DEF IInv, TypeOK, Numbered, CallInv, Adopt, disk, memory, frame,
     Recovering, Staging, Writing, Erasing
<1>3. CallInv'
  BY DEF IInv, TypeOK, CallInv, Adopt, disk, memory, frame, Recovering, Staging, Writing,
     Erasing
<1>4. IndexInv'
  BY DEF IInv, TypeOK, IndexInv, Numbered, Adopt, disk, memory, frame, Recovering, Staging,
     Writing, Erasing
<1>5. CatalogInv'
  BY <1>0 DEF IInv, TypeOK, CatalogInv, CatalogBacked, Fits, Adopt, disk, memory, frame,
     Recovering, Staging, Writing, Erasing
<1>6. RecoverInv'
  BY <1>0 DEF IInv, TypeOK, RecoverInv, Adopt, disk, memory, frame, Recovering, Staging,
     Writing, Erasing
<1>7. StageInv'
  BY <1>0, SizesAssumption DEF IInv, TypeOK, StageInv, Own, CallInv, Adopt, disk, memory,
     frame, Recovering, Staging, Writing, Erasing
<1>8. PruneInv'
  BY <1>0 DEF IInv, TypeOK, PruneInv, CallInv, Adopt, disk, memory, frame, Recovering,
     Staging, Writing, Erasing
<1>9. RestInv'
  <2>1. files = Wanted(catalog) \ lost
    BY DEF IInv, CatalogInv, RecoverInv, Adopt
  <2> QED
    BY <1>0, <2>1 DEF IInv, CallInv, RestInv, Sound, Adopt, disk, memory, frame
<1>10. DiskBound'
  BY SizesAssumption DEF IInv, DiskBound, Adopt, disk, memory, frame, Recovering, Staging,
     Writing, Erasing
<1> QED
  BY <1>1, <1>2, <1>3, <1>4, <1>5, <1>6, <1>7, <1>8, <1>9, <1>10 DEF IInv

LEMMA ReadSourceKeeps ==
    ASSUME IInv, ReadSource
    PROVE  IInv'
<1>0. \A S : Wanted(S)' = Wanted(S)
  BY WantedKept DEF ReadSource, disk
<1>a. /\ made \in Ids /\ source.declared \in 0..MaxChunks /\ chunk \in Nat
      /\ parts[made] = source.declared /\ op = "add"
  BY SizesAssumption DEF IInv, TypeOK, CallInv, StageInv, Staging, ReadSource, Ids
<1>b. PICK c \in 0..source.declared :
         /\ staged' = staged \cup {<<made, c>>}
         /\ \/ pc' = "chunk" /\ c = chunk + 1 /\ chunk' = c
            \/ pc' = "row" /\ c = 0 /\ chunk' = chunk /\ chunk = source.declared
  BY <1>a, SizesAssumption DEF IInv, TypeOK, ReadSource
<1>c. <<made, c>> \in Own /\ <<made, c>> \in Wanted({made}) /\ c \in 0..MaxChunks
  <2>1. c \in 0..MaxChunks /\ c <= parts[made]
    BY <1>a, SizesAssumption
  <2> QED  BY <1>a, <2>1 DEF Own, Wanted, Keys
<1>d. UNCHANGED <<index, catalog, files, parts, litter, lost, open, ids, cleanupPending, op, source,
                  temp, victims, made, answer>>
  BY DEF ReadSource, disk, memory
<1>1. TypeOK'
  <2>1. staged' \subseteq Keys /\ chunk' \in 0..MaxChunks
    BY <1>a, <1>b, <1>c DEF IInv, TypeOK, Keys
  <2>2. pc' \in Writing
    BY <1>b DEF Writing
  <2> QED
    BY <2>1, <2>2, <1>d DEF IInv, TypeOK
<1>2. Numbered'
  BY SizesAssumption DEF IInv, TypeOK, Numbered, CallInv, ReadSource, disk, memory, frame,
     Recovering, Staging, Writing, Erasing
<1>3. CallInv'
  BY DEF IInv, TypeOK, CallInv, ReadSource, disk, memory, frame, Recovering, Staging, Writing,
     Erasing
<1>4. IndexInv'
  BY DEF IInv, TypeOK, IndexInv, Numbered, ReadSource, disk, memory, frame, Recovering,
     Staging, Writing, Erasing
<1>5. CatalogInv'
  BY <1>0 DEF IInv, TypeOK, CatalogInv, CatalogBacked, Fits, ReadSource, disk, memory, frame,
     Recovering, Staging, Writing, Erasing
<1>6. RecoverInv'
  BY <1>0 DEF IInv, TypeOK, RecoverInv, ReadSource, disk, memory, frame, Recovering, Staging,
     Writing, Erasing
<1>7. StageInv'
  <2>1. staged' \subseteq Own' /\ (~cleanupPending => files \subseteq Wanted(ids) \cup staged)'
        /\ staged' \subseteq Wanted({made})'
    BY <1>0, <1>b, <1>c, <1>d DEF IInv, StageInv, ReadSource, Own, Staging
  <2>2. chunk' <= source'.declared /\ <<made', c>> \in staged'
    BY <1>a, <1>b, <1>d
  <2>3. pc = "read" /\ pc' \in {"chunk", "row"}
    BY <1>b DEF ReadSource
  <2>4. pc' = "chunk" => chunk' > 0 /\ (\A n \in 1..(chunk - 1) : <<made, n>> \in files)'
    BY <1>a, <1>b, <1>d, <2>3 DEF IInv, StageInv
  <2>5. pc' = "row" => (\A n \in 1..chunk : <<made, n>> \in files)'
    BY <1>b, <1>d, <2>3 DEF IInv, StageInv
  <2> QED
    BY <1>a, <1>b, <1>d, <2>1, <2>2, <2>3, <2>4, <2>5 DEF IInv, StageInv, Staging
<1>8. PruneInv'
  BY <1>0 DEF IInv, TypeOK, PruneInv, CallInv, ReadSource, disk, memory, frame, Recovering,
     Staging, Writing, Erasing
<1>9. RestInv'
  BY <1>0 DEF IInv, TypeOK, CallInv, RestInv, Sound, ReadSource, disk, memory, frame,
     Recovering, Staging, Writing, Erasing
<1>10. DiskBound'
  BY SizesAssumption DEF IInv, DiskBound, ReadSource, disk, memory, frame, Recovering,
     Staging, Writing, Erasing
<1> QED
  BY <1>1, <1>2, <1>3, <1>4, <1>5, <1>6, <1>7, <1>8, <1>9, <1>10 DEF IInv

LEMMA WriteChunkKeeps ==
    ASSUME IInv, WriteChunk
    PROVE  IInv'
<1>0. \A S : Wanted(S)' = Wanted(S)
  BY WantedKept DEF WriteChunk, disk
<1>a. /\ pc = "chunk" /\ chunk \in 0..MaxChunks /\ <<made, chunk>> \in staged /\ made \in Ids
      /\ files' = files \cup {<<made, chunk>>} /\ UNCHANGED <<catalog, parts, lost, staged>>
  BY SizesAssumption DEF IInv, TypeOK, CallInv, StageInv, Staging, WriteChunk, Move, frame, Ids
<1>b. CatalogInv' /\ DiskBound'
  BY <1>a, StagingSound DEF Staging
<1>1. TypeOK'
  BY <1>a DEF IInv, TypeOK, WriteChunk, Move, disk, memory, frame, Keys, Writing, Erasing
<1>2. Numbered'
  BY SizesAssumption DEF IInv, TypeOK, Numbered, CallInv, WriteChunk, disk, memory, frame,
     Recovering, Staging, Writing, Erasing, Move
<1>3. CallInv'
  BY DEF IInv, TypeOK, CallInv, WriteChunk, disk, memory, frame, Recovering, Staging, Writing,
     Erasing, Move
<1>4. IndexInv'
  BY DEF IInv, TypeOK, IndexInv, Numbered, WriteChunk, disk, memory, frame, Recovering,
     Staging, Writing, Erasing, Move
<1>5. CatalogInv'
  BY <1>b
<1>6. RecoverInv'
  BY <1>0 DEF IInv, TypeOK, RecoverInv, WriteChunk, disk, memory, frame, Recovering, Staging,
     Writing, Erasing, Move
<1>7. StageInv'
  <2>1. pc = "chunk" /\ pc' = "read"
        /\ UNCHANGED <<ids, cleanupPending, chunk, source, made>>
    BY DEF WriteChunk, Move, memory, frame
  <2>2. (\A c \in 1..chunk : <<made, c>> \in files)'
    BY <1>a, <2>1, SizesAssumption DEF IInv, StageInv
  <2> QED
    BY <1>0, <1>a, <2>1, <2>2 DEF IInv, StageInv, Own, Staging
<1>8. PruneInv'
  BY <1>0 DEF IInv, TypeOK, PruneInv, CallInv, WriteChunk, disk, memory, frame, Recovering,
     Staging, Writing, Erasing, Move
<1>9. RestInv'
  BY <1>0 DEF IInv, TypeOK, CallInv, RestInv, Sound, WriteChunk, disk, memory, frame,
     Recovering, Staging, Writing, Erasing, Move
<1>10. DiskBound'
  BY <1>b
<1> QED
  BY <1>1, <1>2, <1>3, <1>4, <1>5, <1>6, <1>7, <1>8, <1>9, <1>10 DEF IInv

LEMMA WriteSnapshotKeeps ==
    ASSUME IInv, WriteSnapshot
    PROVE  IInv'
<1>0. \A S : Wanted(S)' = Wanted(S)
  BY WantedKept DEF WriteSnapshot, disk
<1>a. /\ pc = "row" /\ 0 \in 0..MaxChunks /\ <<made, 0>> \in staged /\ made \in Ids
      /\ files' = files \cup {<<made, 0>>} /\ UNCHANGED <<catalog, parts, lost, staged>>
  BY SizesAssumption DEF IInv, TypeOK, CallInv, StageInv, Staging, WriteSnapshot, Move, frame,
     Ids
<1>b. CatalogInv' /\ DiskBound'
  BY <1>a, StagingSound DEF Staging
<1>1. TypeOK'
  BY <1>a DEF IInv, TypeOK, WriteSnapshot, Move, disk, memory, frame, Keys, Writing, Erasing
<1>2. Numbered'
  BY SizesAssumption DEF IInv, TypeOK, Numbered, CallInv, WriteSnapshot, disk, memory, frame,
     Recovering, Staging, Writing, Erasing, Move
<1>3. CallInv'
  BY DEF IInv, TypeOK, CallInv, WriteSnapshot, disk, memory, frame, Recovering, Staging,
     Writing, Erasing, Move
<1>4. IndexInv'
  BY DEF IInv, TypeOK, IndexInv, Numbered, WriteSnapshot, disk, memory, frame, Recovering,
     Staging, Writing, Erasing, Move
<1>5. CatalogInv'
  BY <1>b
<1>6. RecoverInv'
  BY <1>0 DEF IInv, TypeOK, RecoverInv, WriteSnapshot, disk, memory, frame, Recovering,
     Staging, Writing, Erasing, Move
<1>7. StageInv'
  <2>1. pc = "row" /\ pc' = "choose"
        /\ UNCHANGED <<ids, cleanupPending, chunk, source, made>>
    BY DEF WriteSnapshot, Move, memory, frame
  <2>2. Wanted({made}) \subseteq files'
    <3>1. \A k \in Wanted({made}) : k[1] = made /\ k[2] \in 0..chunk /\ k = <<k[1], k[2]>>
      BY <2>1 DEF IInv, TypeOK, StageInv, Staging, Wanted, Keys
    <3>2. \A c \in 0..chunk : <<made, c>> \in files'
      BY <1>a, <2>1, SizesAssumption DEF IInv, TypeOK, StageInv
    <3> QED  BY <3>1, <3>2
  <2> QED
    BY <1>0, <1>a, <2>1, <2>2 DEF IInv, StageInv, Own, Staging
<1>8. PruneInv'
  BY <1>0 DEF IInv, TypeOK, PruneInv, CallInv, WriteSnapshot, disk, memory, frame, Recovering,
     Staging, Writing, Erasing, Move
<1>9. RestInv'
  BY <1>0 DEF IInv, TypeOK, CallInv, RestInv, Sound, WriteSnapshot, disk, memory, frame,
     Recovering, Staging, Writing, Erasing, Move
<1>10. DiskBound'
  BY <1>b
<1> QED
  BY <1>1, <1>2, <1>3, <1>4, <1>5, <1>6, <1>7, <1>8, <1>9, <1>10 DEF IInv

LEMMA ChooseKeeps ==
    ASSUME IInv, Choose
    PROVE  IInv'
<1>0. \A S : Wanted(S)' = Wanted(S)
  BY WantedKept DEF Choose, disk
<1>1. TypeOK'
  BY SizesAssumption DEF IInv, TypeOK, Numbered, CallInv, NoMedia, Choose, disk, memory,
     frame, Writing, Erasing
<1>2. Numbered'
  BY SizesAssumption DEF IInv, TypeOK, Numbered, CallInv, Choose, disk, memory, frame,
     Recovering, Staging, Writing, Erasing
<1>3. CallInv'
  BY DEF IInv, TypeOK, CallInv, Choose, disk, memory, frame, Recovering, Staging, Writing,
     Erasing
<1>4. IndexInv'
  BY DEF IInv, TypeOK, IndexInv, Numbered, Choose, disk, memory, frame, Recovering, Staging,
     Writing, Erasing
<1>5. CatalogInv'
  BY <1>0 DEF IInv, TypeOK, CatalogInv, CatalogBacked, Fits, Choose, disk, memory, frame,
     Recovering, Staging, Writing, Erasing
<1>6. RecoverInv'
  BY <1>0 DEF IInv, TypeOK, RecoverInv, Choose, disk, memory, frame, Recovering, Staging,
     Writing, Erasing
<1>7. StageInv'
  <2>1. \A S : Pruned(S)' = Pruned(S)
    BY PrunedSame DEF Choose, disk
  <2>2. UNCHANGED <<ids, catalog, made, parts, files, lost, staged, chunk, source, cleanupPending>>
    BY DEF Choose, disk, memory, frame
  <2>3. victims' = Wanted(Pruned(ids \cup {made})) /\ pc' = "index" /\ pc = "choose"
        /\ Cardinality(Wanted({made})) <= Quota
    BY DEF Choose
  <2> QED
    BY <1>0, <2>1, <2>2, <2>3 DEF IInv, StageInv, Own, Staging
<1>8. PruneInv'
  BY <1>0 DEF IInv, TypeOK, PruneInv, CallInv, Choose, disk, memory, frame, Recovering,
     Staging, Writing, Erasing
<1>9. RestInv'
  BY <1>0 DEF IInv, TypeOK, CallInv, RestInv, Sound, Choose, disk, memory, frame, Recovering,
     Staging, Writing, Erasing
<1>10. DiskBound'
  BY SizesAssumption DEF IInv, DiskBound, Choose, disk, memory, frame, Recovering, Staging,
     Writing, Erasing
<1> QED
  BY <1>1, <1>2, <1>3, <1>4, <1>5, <1>6, <1>7, <1>8, <1>9, <1>10 DEF IInv

LEMMA CommitKeeps ==
    ASSUME IInv, Commit
    PROVE  IInv'
<1> DEFINE gone == Pruned(ids \cup {made})
<1> DEFINE rest == (ids \cup {made}) \ gone
<1>0. \A S : Wanted(S)' = Wanted(S)
  BY WantedKept DEF Commit
<1>a. /\ catalog' = rest /\ ids' = rest /\ pc = "index" /\ pc' = "erase"
      /\ UNCHANGED <<files, parts, lost, made, victims, cleanupPending, op, staged>>
  BY DEF Commit, Move, frame
<1>b. /\ made \in Ids /\ ids \subseteq 1..made /\ ids = catalog /\ staged \subseteq Wanted({made})
      /\ Wanted({made}) \subseteq files /\ victims = Wanted(gone)
      /\ Cardinality(Wanted({made})) <= Quota /\ op = "add"
      /\ \A k \in lost : k[1] # made
      /\ (~cleanupPending => files \subseteq Wanted(ids) \cup staged)
  <2>1. made \in Ids /\ op = "add"
    BY <1>a, SizesAssumption DEF IInv, TypeOK, CallInv, Staging, Ids
  <2>2. ids \subseteq 1..made
    BY DEF IInv, Numbered
  <2> QED
    BY <1>a, <2>1, <2>2 DEF IInv, StageInv, Staging
<1>c. made \in rest /\ rest \subseteq 1..made /\ rest \subseteq Ids /\ gone \subseteq ids \cup {made}
      /\ ids \cup {made} \in SUBSET Ids /\ \A j \in ids \cup {made} : j <= made
  <2>1. made \in Nat \ {0} /\ made <= MaxAdds /\ MaxAdds \in Nat
    BY <1>b, SizesAssumption DEF Ids
  <2>2. ids \cup {made} \subseteq 1..made /\ 1..made \subseteq Ids
    BY <1>b, <2>1 DEF Ids
  <2>3. gone \subseteq (ids \cup {made}) \ {made}
    BY DEF Pruned
  <2> QED  BY <2>1, <2>2, <2>3
<1>d. Fits(rest)
  <2>1. made \in ids \cup {made}
    OBVIOUS
  <2> QED  BY <1>b, <1>c, <2>1, PrunedFits
<1>e. Wanted(rest) \subseteq Wanted(ids) \cup Wanted({made})
      /\ Wanted(ids) \cup Wanted({made}) \subseteq Wanted(rest) \cup Wanted(gone)
      /\ \A k \in Wanted(gone) : k[1] \in gone
  BY <1>b, <1>c DEF Wanted
<1> HIDE DEF rest, gone
<1>1. TypeOK'
  BY <1>a, <1>c DEF IInv, TypeOK, Commit, Move, frame, Erasing
<1>2. Numbered'
  BY <1>a, <1>c DEF IInv, TypeOK, Numbered, Commit
<1>3. CallInv'
  BY DEF IInv, TypeOK, CallInv, Commit, disk, memory, frame, Recovering, Staging, Writing,
     Erasing, Move
<1>4. IndexInv'
  BY DEF IInv, TypeOK, IndexInv, Numbered, Commit, disk, memory, frame, Recovering, Staging,
     Writing, Erasing, Move
<1>5. CatalogInv'
  <2>1. CatalogBacked' /\ (files \cap lost = {})'
    BY <1>0, <1>a, <1>b, <1>e DEF IInv, CatalogInv, CatalogBacked
  <2>2. Fits(catalog)'
    BY <1>0, <1>a, <1>d DEF Fits
  <2> QED  BY <2>1, <2>2 DEF CatalogInv
<1>6. RecoverInv'
  BY <1>0 DEF IInv, TypeOK, RecoverInv, Commit, disk, memory, frame, Recovering, Staging,
     Writing, Erasing, Move
<1>7. StageInv'
  BY <1>0, SizesAssumption DEF IInv, TypeOK, StageInv, Own, CallInv, Commit, disk, memory,
     frame, Recovering, Staging, Writing, Erasing, Move
<1>8. PruneInv'
  BY <1>0, <1>a, <1>b, <1>c, <1>e DEF PruneInv, rest
<1>9. RestInv'
  BY <1>0 DEF IInv, TypeOK, CallInv, RestInv, Sound, Commit, disk, memory, frame, Recovering,
     Staging, Writing, Erasing, Move
<1>10. DiskBound'
  BY SizesAssumption DEF IInv, DiskBound, Commit, disk, memory, frame, Recovering, Staging,
     Writing, Erasing, Move
<1> QED
  BY <1>1, <1>2, <1>3, <1>4, <1>5, <1>6, <1>7, <1>8, <1>9, <1>10 DEF IInv

LEMMA ErasePrunedKeeps ==
    ASSUME NEW k \in Keys, IInv, ErasePruned(k)
    PROVE  IInv'
<1>0. \A S : Wanted(S)' = Wanted(S)
  BY WantedKept DEF ErasePruned, disk
<1>1. TypeOK'
  BY SizesAssumption DEF IInv, TypeOK, Numbered, CallInv, NoMedia, ErasePruned, disk, memory,
     frame, Writing, Erasing
<1>2. Numbered'
  BY SizesAssumption DEF IInv, TypeOK, Numbered, CallInv, ErasePruned, disk, memory, frame,
     Recovering, Staging, Writing, Erasing
<1>3. CallInv'
  BY DEF IInv, TypeOK, CallInv, ErasePruned, disk, memory, frame, Recovering, Staging,
     Writing, Erasing
<1>4. IndexInv'
  BY DEF IInv, TypeOK, IndexInv, Numbered, ErasePruned, disk, memory, frame, Recovering,
     Staging, Writing, Erasing
<1>5. CatalogInv'
  <2>1. CatalogBacked' /\ (files \cap lost = {})'
    BY <1>0 DEF IInv, CatalogInv, CatalogBacked, PruneInv, Wanted, ErasePruned, disk, Staging
  <2>2. Fits(catalog)'
    BY FitsKept DEF IInv, CatalogInv, ErasePruned
  <2> QED  BY <2>1, <2>2 DEF CatalogInv
<1>6. RecoverInv'
  BY <1>0 DEF IInv, TypeOK, RecoverInv, ErasePruned, disk, memory, frame, Recovering, Staging,
     Writing, Erasing
<1>7. StageInv'
  BY <1>0, SizesAssumption DEF IInv, TypeOK, StageInv, Own, CallInv, ErasePruned, disk,
     memory, frame, Recovering, Staging, Writing, Erasing
<1>8. PruneInv'
  BY <1>0 DEF IInv, TypeOK, PruneInv, CallInv, ErasePruned, disk, memory, frame, Recovering,
     Staging, Writing, Erasing
<1>9. RestInv'
  BY <1>0 DEF IInv, TypeOK, CallInv, RestInv, Sound, ErasePruned, disk, memory, frame,
     Recovering, Staging, Writing, Erasing
<1>10. DiskBound'
  BY ErasingShrinks DEF ErasePruned
<1> QED
  BY <1>1, <1>2, <1>3, <1>4, <1>5, <1>6, <1>7, <1>8, <1>9, <1>10 DEF IInv

LEMMA PrunedErasedKeeps ==
    ASSUME IInv, PrunedErased
    PROVE  IInv'
<1>0. \A S : Wanted(S)' = Wanted(S)
  BY WantedKept DEF PrunedErased, disk
<1>1. TypeOK'
  BY SizesAssumption DEF IInv, TypeOK, Numbered, CallInv, NoMedia, PrunedErased, disk, memory,
     frame, Writing, Erasing
<1>2. Numbered'
  BY SizesAssumption DEF IInv, TypeOK, Numbered, CallInv, PrunedErased, disk, memory, frame,
     Recovering, Staging, Writing, Erasing
<1>3. CallInv'
  BY DEF IInv, TypeOK, CallInv, PrunedErased, disk, memory, frame, Recovering, Staging,
     Writing, Erasing
<1>4. IndexInv'
  BY DEF IInv, TypeOK, IndexInv, Numbered, PrunedErased, disk, memory, frame, Recovering,
     Staging, Writing, Erasing
<1>5. CatalogInv'
  BY <1>0 DEF IInv, TypeOK, CatalogInv, CatalogBacked, Fits, PrunedErased, disk, memory,
     frame, Recovering, Staging, Writing, Erasing
<1>6. RecoverInv'
  BY <1>0 DEF IInv, TypeOK, RecoverInv, PrunedErased, disk, memory, frame, Recovering,
     Staging, Writing, Erasing
<1>7. StageInv'
  BY <1>0, SizesAssumption DEF IInv, TypeOK, StageInv, Own, CallInv, PrunedErased, disk,
     memory, frame, Recovering, Staging, Writing, Erasing
<1>8. PruneInv'
  BY <1>0 DEF IInv, TypeOK, PruneInv, CallInv, PrunedErased, disk, memory, frame, Recovering,
     Staging, Writing, Erasing
<1>9. RestInv'
  <2>1. ~cleanupPending => Sound
    BY DEF IInv, CatalogInv, CatalogBacked, PruneInv, Sound, PrunedErased
  <2> QED
    BY <1>0, <2>1 DEF IInv, CallInv, RestInv, Sound, PrunedErased, disk, memory, frame
<1>10. DiskBound'
  BY SizesAssumption DEF IInv, DiskBound, PrunedErased, disk, memory, frame, Recovering,
     Staging, Writing, Erasing
<1> QED
  BY <1>1, <1>2, <1>3, <1>4, <1>5, <1>6, <1>7, <1>8, <1>9, <1>10 DEF IInv

LEMMA UnstageKeeps ==
    ASSUME NEW k \in Keys, IInv, Unstage(k)
    PROVE  IInv'
<1>0. \A S : Wanted(S)' = Wanted(S)
  BY WantedKept DEF Unstage, disk
<1>1. TypeOK'
  BY SizesAssumption DEF IInv, TypeOK, Numbered, CallInv, NoMedia, Unstage, disk, memory,
     frame, Writing, Erasing
<1>2. Numbered'
  BY SizesAssumption DEF IInv, TypeOK, Numbered, CallInv, Unstage, disk, memory, frame,
     Recovering, Staging, Writing, Erasing
<1>3. CallInv'
  BY DEF IInv, TypeOK, CallInv, Unstage, disk, memory, frame, Recovering, Staging, Writing,
     Erasing
<1>4. IndexInv'
  BY DEF IInv, TypeOK, IndexInv, Numbered, Unstage, disk, memory, frame, Recovering, Staging,
     Writing, Erasing
<1>5. CatalogInv'
  <2>1. CatalogBacked' /\ (files \cap lost = {})'
    BY <1>0 DEF IInv, CatalogInv, CatalogBacked, StageInv, Own, Wanted, Unstage, disk, Staging
  <2>2. Fits(catalog)'
    BY FitsKept DEF IInv, CatalogInv, Unstage
  <2> QED  BY <2>1, <2>2 DEF CatalogInv
<1>6. RecoverInv'
  BY <1>0 DEF IInv, TypeOK, RecoverInv, Unstage, disk, memory, frame, Recovering, Staging,
     Writing, Erasing
<1>7. StageInv'
  BY <1>0, SizesAssumption DEF IInv, TypeOK, StageInv, Own, CallInv, Unstage, disk, memory,
     frame, Recovering, Staging, Writing, Erasing
<1>8. PruneInv'
  BY <1>0 DEF IInv, TypeOK, PruneInv, CallInv, Unstage, disk, memory, frame, Recovering,
     Staging, Writing, Erasing
<1>9. RestInv'
  BY <1>0 DEF IInv, TypeOK, CallInv, RestInv, Sound, Unstage, disk, memory, frame, Recovering,
     Staging, Writing, Erasing
<1>10. DiskBound'
  BY ErasingShrinks DEF Unstage
<1> QED
  BY <1>1, <1>2, <1>3, <1>4, <1>5, <1>6, <1>7, <1>8, <1>9, <1>10 DEF IInv

LEMMA UnstagedKeeps ==
    ASSUME IInv, Unstaged
    PROVE  IInv'
<1>0. \A S : Wanted(S)' = Wanted(S)
  BY WantedKept DEF Unstaged, disk
<1>1. TypeOK'
  BY SizesAssumption DEF IInv, TypeOK, Numbered, CallInv, NoMedia, Unstaged, disk, memory,
     frame, Writing, Erasing
<1>2. Numbered'
  BY SizesAssumption DEF IInv, TypeOK, Numbered, CallInv, Unstaged, disk, memory, frame,
     Recovering, Staging, Writing, Erasing
<1>3. CallInv'
  BY DEF IInv, TypeOK, CallInv, Unstaged, disk, memory, frame, Recovering, Staging, Writing,
     Erasing
<1>4. IndexInv'
  BY DEF IInv, TypeOK, IndexInv, Numbered, Unstaged, disk, memory, frame, Recovering, Staging,
     Writing, Erasing
<1>5. CatalogInv'
  BY <1>0 DEF IInv, TypeOK, CatalogInv, CatalogBacked, Fits, Unstaged, disk, memory, frame,
     Recovering, Staging, Writing, Erasing
<1>6. RecoverInv'
  BY <1>0 DEF IInv, TypeOK, RecoverInv, Unstaged, disk, memory, frame, Recovering, Staging,
     Writing, Erasing
<1>7. StageInv'
  BY <1>0, SizesAssumption DEF IInv, TypeOK, StageInv, Own, CallInv, Unstaged, disk, memory,
     frame, Recovering, Staging, Writing, Erasing
<1>8. PruneInv'
  BY <1>0 DEF IInv, TypeOK, PruneInv, CallInv, Unstaged, disk, memory, frame, Recovering,
     Staging, Writing, Erasing
<1>9. RestInv'
  <2>1. ~cleanupPending => Sound
    BY DEF IInv, CatalogInv, CatalogBacked, StageInv, Sound, Unstaged
  <2> QED
    BY <1>0, <2>1 DEF IInv, CallInv, RestInv, Sound, Unstaged, disk, memory, frame
<1>10. DiskBound'
  BY SizesAssumption DEF IInv, DiskBound, Unstaged, disk, memory, frame, Recovering, Staging,
     Writing, Erasing
<1> QED
  BY <1>1, <1>2, <1>3, <1>4, <1>5, <1>6, <1>7, <1>8, <1>9, <1>10 DEF IInv

LEMMA ThrowKeeps ==
    ASSUME IInv, Throw
    PROVE  IInv'
<1>0. \A S : Wanted(S)' = Wanted(S)
  BY WantedKept DEF Throw, disk, Leave
<1>1. TypeOK'
  BY SizesAssumption DEF IInv, TypeOK, Numbered, CallInv, NoMedia, Throw, disk, memory, frame,
     Writing, Erasing, Leave
<1>2. Numbered'
  BY SizesAssumption DEF IInv, TypeOK, Numbered, CallInv, Throw, disk, memory, frame,
     Recovering, Staging, Writing, Erasing, Leave
<1>3. CallInv'
  BY DEF IInv, TypeOK, CallInv, Throw, disk, memory, frame, Recovering, Staging, Writing,
     Erasing, Leave
<1>4. IndexInv'
  BY DEF IInv, TypeOK, IndexInv, Numbered, Throw, disk, memory, frame, Recovering, Staging,
     Writing, Erasing, Leave
<1>5. CatalogInv'
  BY <1>0 DEF IInv, TypeOK, CatalogInv, CatalogBacked, Fits, Throw, disk, memory, frame,
     Recovering, Staging, Writing, Erasing, Leave
<1>6. RecoverInv'
  BY <1>0 DEF IInv, TypeOK, RecoverInv, Throw, disk, memory, frame, Recovering, Staging,
     Writing, Erasing, Leave
<1>7. StageInv'
  BY <1>0, SizesAssumption DEF IInv, TypeOK, StageInv, Own, CallInv, Throw, disk, memory,
     frame, Recovering, Staging, Writing, Erasing, Leave
<1>8. PruneInv'
  BY <1>0 DEF IInv, TypeOK, PruneInv, CallInv, Throw, disk, memory, frame, Recovering,
     Staging, Writing, Erasing, Leave
<1>9. RestInv'
  <2>1. UNCHANGED <<op, open, cleanupPending>> /\ Sound' = Sound
    BY <1>0 DEF Throw, memory, frame, Sound
  <2>2. CASE op = "add"
    BY <2>1, <2>2 DEF RestInv, Throw
  <2>3. CASE op # "add"
    <3>1. pc \in Recovering
      BY <2>3 DEF IInv, CallInv, Throw, Recovering, Staging, Writing
    <3> QED  BY <2>1, <2>3, <3>1 DEF IInv, RestInv, RecoverInv, Recovering, Throw
  <2> QED  BY <2>2, <2>3
<1>10. DiskBound'
  BY SizesAssumption DEF IInv, DiskBound, Throw, disk, memory, frame, Recovering, Staging,
     Writing, Erasing, Leave
<1> QED
  BY <1>1, <1>2, <1>3, <1>4, <1>5, <1>6, <1>7, <1>8, <1>9, <1>10 DEF IInv

LEMMA PrunedKeptKeeps ==
    ASSUME IInv, PrunedKept
    PROVE  IInv'
<1>0. \A S : Wanted(S)' = Wanted(S)
  BY WantedKept DEF PrunedKept, disk
<1>1. TypeOK'
  BY SizesAssumption DEF IInv, TypeOK, Numbered, CallInv, NoMedia, PrunedKept, disk, memory,
     frame, Writing, Erasing
<1>2. Numbered'
  BY SizesAssumption DEF IInv, TypeOK, Numbered, CallInv, PrunedKept, disk, memory, frame,
     Recovering, Staging, Writing, Erasing
<1>3. CallInv'
  BY DEF IInv, TypeOK, CallInv, PrunedKept, disk, memory, frame, Recovering, Staging, Writing,
     Erasing
<1>4. IndexInv'
  BY DEF IInv, TypeOK, IndexInv, Numbered, PrunedKept, disk, memory, frame, Recovering,
     Staging, Writing, Erasing
<1>5. CatalogInv'
  BY <1>0 DEF IInv, TypeOK, CatalogInv, CatalogBacked, Fits, PrunedKept, disk, memory, frame,
     Recovering, Staging, Writing, Erasing
<1>6. RecoverInv'
  BY <1>0 DEF IInv, TypeOK, RecoverInv, PrunedKept, disk, memory, frame, Recovering, Staging,
     Writing, Erasing
<1>7. StageInv'
  BY <1>0, SizesAssumption DEF IInv, TypeOK, StageInv, Own, CallInv, PrunedKept, disk, memory,
     frame, Recovering, Staging, Writing, Erasing
<1>8. PruneInv'
  BY <1>0 DEF IInv, TypeOK, PruneInv, CallInv, PrunedKept, disk, memory, frame, Recovering,
     Staging, Writing, Erasing
<1>9. RestInv'
  BY <1>0 DEF IInv, TypeOK, CallInv, RestInv, Sound, PrunedKept, disk, memory, frame,
     Recovering, Staging, Writing, Erasing
<1>10. DiskBound'
  BY SizesAssumption DEF IInv, DiskBound, PrunedKept, disk, memory, frame, Recovering,
     Staging, Writing, Erasing
<1> QED
  BY <1>1, <1>2, <1>3, <1>4, <1>5, <1>6, <1>7, <1>8, <1>9, <1>10 DEF IInv

LEMMA StagedKeptKeeps ==
    ASSUME NEW k \in Keys, IInv, StagedKept(k)
    PROVE  IInv'
<1>0. \A S : Wanted(S)' = Wanted(S)
  BY WantedKept DEF StagedKept, disk
<1>1. TypeOK'
  BY SizesAssumption DEF IInv, TypeOK, Numbered, CallInv, NoMedia, StagedKept, disk, memory,
     frame, Writing, Erasing
<1>2. Numbered'
  BY SizesAssumption DEF IInv, TypeOK, Numbered, CallInv, StagedKept, disk, memory, frame,
     Recovering, Staging, Writing, Erasing
<1>3. CallInv'
  BY DEF IInv, TypeOK, CallInv, StagedKept, disk, memory, frame, Recovering, Staging, Writing,
     Erasing
<1>4. IndexInv'
  BY DEF IInv, TypeOK, IndexInv, Numbered, StagedKept, disk, memory, frame, Recovering,
     Staging, Writing, Erasing
<1>5. CatalogInv'
  BY <1>0 DEF IInv, TypeOK, CatalogInv, CatalogBacked, Fits, StagedKept, disk, memory, frame,
     Recovering, Staging, Writing, Erasing
<1>6. RecoverInv'
  BY <1>0 DEF IInv, TypeOK, RecoverInv, StagedKept, disk, memory, frame, Recovering, Staging,
     Writing, Erasing
<1>7. StageInv'
  BY <1>0, SizesAssumption DEF IInv, TypeOK, StageInv, Own, CallInv, StagedKept, disk, memory,
     frame, Recovering, Staging, Writing, Erasing
<1>8. PruneInv'
  BY <1>0 DEF IInv, TypeOK, PruneInv, CallInv, StagedKept, disk, memory, frame, Recovering,
     Staging, Writing, Erasing
<1>9. RestInv'
  BY <1>0 DEF IInv, TypeOK, CallInv, RestInv, Sound, StagedKept, disk, memory, frame,
     Recovering, Staging, Writing, Erasing
<1>10. DiskBound'
  BY SizesAssumption DEF IInv, DiskBound, StagedKept, disk, memory, frame, Recovering,
     Staging, Writing, Erasing
<1> QED
  BY <1>1, <1>2, <1>3, <1>4, <1>5, <1>6, <1>7, <1>8, <1>9, <1>10 DEF IInv

LEMMA CrashKeeps ==
    ASSUME IInv, Crash
    PROVE  IInv'
<1>0. \A S : Wanted(S)' = Wanted(S)
  BY WantedKept DEF Crash, disk, Answer, NoMedia
<1>1. TypeOK'
  <2>1. (answer \in [Ids -> {"none", "pending", "added", "failed", "unknown"}])'
    BY DEF IInv, TypeOK, Crash, Answer
  <2>2. NoMedia \in [declared: 0..MaxChunks, actual: 0..MaxChunks + 1] /\ 0 \in 0..MaxChunks
    BY SizesAssumption DEF NoMedia
  <2> QED
    BY <2>1, <2>2 DEF IInv, TypeOK, Crash, disk, memory, frame
<1>2. Numbered'
  BY SizesAssumption DEF IInv, TypeOK, Numbered, CallInv, Crash, disk, memory, frame,
     Recovering, Staging, Writing, Erasing, Answer, NoMedia
<1>3. CallInv'
  BY DEF IInv, TypeOK, CallInv, Crash, disk, memory, frame, Recovering, Staging, Writing,
     Erasing, Answer, NoMedia
<1>4. IndexInv'
  BY DEF IInv, TypeOK, IndexInv, Numbered, Crash, disk, memory, frame, Recovering, Staging,
     Writing, Erasing, Answer, NoMedia
<1>5. CatalogInv'
  BY <1>0 DEF IInv, TypeOK, CatalogInv, CatalogBacked, Fits, Crash, disk, memory, frame,
     Recovering, Staging, Writing, Erasing, Answer, NoMedia
<1>6. RecoverInv'
  BY <1>0 DEF IInv, TypeOK, RecoverInv, Crash, disk, memory, frame, Recovering, Staging,
     Writing, Erasing, Answer, NoMedia
<1>7. StageInv'
  BY <1>0, SizesAssumption DEF IInv, TypeOK, StageInv, Own, CallInv, Crash, disk, memory,
     frame, Recovering, Staging, Writing, Erasing, Answer, NoMedia
<1>8. PruneInv'
  BY <1>0 DEF IInv, TypeOK, PruneInv, CallInv, Crash, disk, memory, frame, Recovering,
     Staging, Writing, Erasing, Answer, NoMedia
<1>9. RestInv'
  BY <1>0 DEF IInv, TypeOK, CallInv, RestInv, Sound, Crash, disk, memory, frame, Recovering,
     Staging, Writing, Erasing, Answer, NoMedia
<1>10. DiskBound'
  BY SizesAssumption DEF IInv, DiskBound, Crash, disk, memory, frame, Recovering, Staging,
     Writing, Erasing, Answer, NoMedia
<1> QED
  BY <1>1, <1>2, <1>3, <1>4, <1>5, <1>6, <1>7, <1>8, <1>9, <1>10 DEF IInv

LEMMA LoseRecordKeeps ==
    ASSUME NEW k \in Keys, IInv, LoseRecord(k)
    PROVE  IInv'
<1>0. \A S : Wanted(S)' = Wanted(S)
  BY WantedKept DEF LoseRecord, disk, NothingLost
<1>1. TypeOK'
  BY SizesAssumption DEF IInv, TypeOK, Numbered, CallInv, NoMedia, LoseRecord, disk, memory,
     frame, Writing, Erasing, NothingLost
<1>2. Numbered'
  BY SizesAssumption DEF IInv, TypeOK, Numbered, CallInv, LoseRecord, disk, memory, frame,
     Recovering, Staging, Writing, Erasing, NothingLost
<1>3. CallInv'
  BY DEF IInv, TypeOK, CallInv, LoseRecord, disk, memory, frame, Recovering, Staging, Writing,
     Erasing, NothingLost
<1>4. IndexInv'
  BY DEF IInv, TypeOK, IndexInv, Numbered, LoseRecord, disk, memory, frame, Recovering,
     Staging, Writing, Erasing, NothingLost
<1>5. CatalogInv'
  BY <1>0 DEF IInv, TypeOK, CatalogInv, CatalogBacked, Fits, LoseRecord, disk, memory, frame,
     Recovering, Staging, Writing, Erasing, NothingLost
<1>6. RecoverInv'
  BY <1>0 DEF IInv, TypeOK, RecoverInv, LoseRecord, disk, memory, frame, Recovering, Staging,
     Writing, Erasing, NothingLost
<1>7. StageInv'
  BY <1>0, SizesAssumption DEF IInv, TypeOK, StageInv, Own, CallInv, LoseRecord, disk, memory,
     frame, Recovering, Staging, Writing, Erasing, NothingLost
<1>8. PruneInv'
  BY <1>0 DEF IInv, TypeOK, PruneInv, CallInv, LoseRecord, disk, memory, frame, Recovering,
     Staging, Writing, Erasing, NothingLost
<1>9. RestInv'
  BY <1>0 DEF IInv, TypeOK, CallInv, RestInv, Sound, LoseRecord, disk, memory, frame,
     Recovering, Staging, Writing, Erasing, NothingLost
<1>10. DiskBound'
  BY ErasingShrinks DEF LoseRecord
<1> QED
  BY <1>1, <1>2, <1>3, <1>4, <1>5, <1>6, <1>7, <1>8, <1>9, <1>10 DEF IInv

LEMMA LoseCatalogKeeps ==
    ASSUME IInv, LoseCatalog
    PROVE  IInv'
<1>0. \A S : Wanted(S)' = Wanted(S)
  BY WantedKept DEF LoseCatalog, disk, NothingLost
<1>1. TypeOK'
  BY SizesAssumption DEF IInv, TypeOK, Numbered, CallInv, NoMedia, LoseCatalog, disk, memory,
     frame, Writing, Erasing, NothingLost
<1>2. Numbered'
  BY SizesAssumption DEF IInv, TypeOK, Numbered, CallInv, LoseCatalog, disk, memory, frame,
     Recovering, Staging, Writing, Erasing, NothingLost
<1>3. CallInv'
  BY DEF IInv, TypeOK, CallInv, LoseCatalog, disk, memory, frame, Recovering, Staging,
     Writing, Erasing, NothingLost
<1>4. IndexInv'
  BY DEF IInv, TypeOK, IndexInv, Numbered, LoseCatalog, disk, memory, frame, Recovering,
     Staging, Writing, Erasing, NothingLost
<1>5. CatalogInv'
  BY <1>0 DEF IInv, TypeOK, CatalogInv, CatalogBacked, Fits, LoseCatalog, disk, memory, frame,
     Recovering, Staging, Writing, Erasing, NothingLost
<1>6. RecoverInv'
  BY <1>0 DEF IInv, TypeOK, RecoverInv, LoseCatalog, disk, memory, frame, Recovering, Staging,
     Writing, Erasing, NothingLost
<1>7. StageInv'
  BY <1>0, SizesAssumption DEF IInv, TypeOK, StageInv, Own, CallInv, LoseCatalog, disk,
     memory, frame, Recovering, Staging, Writing, Erasing, NothingLost
<1>8. PruneInv'
  BY <1>0 DEF IInv, TypeOK, PruneInv, CallInv, LoseCatalog, disk, memory, frame, Recovering,
     Staging, Writing, Erasing, NothingLost
<1>9. RestInv'
  BY <1>0 DEF IInv, TypeOK, CallInv, RestInv, Sound, LoseCatalog, disk, memory, frame,
     Recovering, Staging, Writing, Erasing, NothingLost
<1>10. DiskBound'
  BY SizesAssumption DEF IInv, DiskBound, LoseCatalog, disk, memory, frame, Recovering,
     Staging, Writing, Erasing, NothingLost
<1> QED
  BY <1>1, <1>2, <1>3, <1>4, <1>5, <1>6, <1>7, <1>8, <1>9, <1>10 DEF IInv


LEMMA InitHolds ==
    ASSUME Init
    PROVE  IInv
<1>0. Wanted({}) = {}
  BY DEF Wanted
<1>1. TypeOK
  <2>1. 0 \in 0..MaxChunks /\ 0 \in 0..(MaxChunks + 1) /\ 0 \in 0..MaxAdds
    BY SizesAssumption
  <2>2. NoMedia \in [declared: 0..MaxChunks, actual: 0..MaxChunks + 1]
    BY <2>1 DEF NoMedia
  <2>3. [i \in Ids |-> 0] \in [Ids -> 0..MaxChunks]
    BY <2>1
  <2>4. [i \in Ids |-> "none"] \in [Ids -> {"none", "pending", "added", "failed", "unknown"}]
    OBVIOUS
  <2> QED
    BY <2>1, <2>2, <2>3, <2>4 DEF Init, TypeOK
<1>2. CatalogInv
  BY <1>0, FitsEmpty DEF Init, CatalogInv, CatalogBacked
<1>3. DiskBound
  BY SizesAssumption, FS_EmptySet DEF Init, DiskBound
<1>4. Numbered /\ CallInv /\ IndexInv /\ RecoverInv
  BY DEF Init, Numbered, CallInv, IndexInv, RecoverInv, Recovering, Staging
<1>5. StageInv /\ PruneInv /\ RestInv
  BY <1>0 DEF Init, StageInv, PruneInv, RestInv, Sound, Staging
<1> QED
  BY <1>1, <1>2, <1>3, <1>4, <1>5 DEF IInv

LEMMA StutterKeeps ==
    ASSUME IInv, UNCHANGED vars
    PROVE  IInv'
<1>1. \A S : Wanted(S)' = Wanted(S) /\ Pruned(S)' = Pruned(S)
  BY WantedKept, PrunedSame DEF vars, disk
<1>2. TypeOK' /\ Numbered' /\ CallInv' /\ IndexInv'
  BY DEF IInv, TypeOK, Numbered, CallInv, IndexInv, vars, disk, memory, frame
<1>3. CatalogInv' /\ RecoverInv'
  BY <1>1, FitsKept DEF IInv, CatalogInv, CatalogBacked, RecoverInv, vars, disk, memory, frame
<1>4. StageInv'
  BY <1>1 DEF IInv, StageInv, Own, vars, disk, memory, frame
<1>5. PruneInv' /\ RestInv' /\ DiskBound'
  BY <1>1 DEF IInv, PruneInv, RestInv, Sound, DiskBound, vars, disk, memory, frame
<1> QED
  BY <1>2, <1>3, <1>4, <1>5 DEF IInv

LEMMA NextKeeps ==
    ASSUME IInv, [Next]_vars
    PROVE  IInv'
<1>1. ASSUME Calls PROVE IInv'
  BY <1>1, ConstructKeeps, RecoverKeeps, CloseKeeps, AddKeeps DEF Calls
<1>2. ASSUME Step PROVE IInv'
  <2>1. CASE Return \/ CreateTemporary \/ FillTemporary \/ ReadCatalog \/ Initialise \/ Verify
    BY <2>1, ReturnKeeps, CreateTemporaryKeeps, FillTemporaryKeeps, ReadCatalogKeeps,
       InitialiseKeeps, VerifyKeeps
  <2>2. CASE \/ OrphansErased \/ EraseTemporary \/ RefuseTemporary \/ TemporariesErased
             \/ Adopt \/ ReadSource
    BY <2>2, OrphansErasedKeeps, EraseTemporaryKeeps, RefuseTemporaryKeeps,
       TemporariesErasedKeeps, AdoptKeeps, ReadSourceKeeps
  <2>3. CASE WriteChunk \/ WriteSnapshot \/ Choose \/ Commit \/ PrunedErased \/ Unstaged
    BY <2>3, WriteChunkKeeps, WriteSnapshotKeeps, ChooseKeeps, CommitKeeps,
       PrunedErasedKeeps, UnstagedKeeps
  <2>4. CASE \E k \in Keys : EraseOrphan(k) \/ ErasePruned(k) \/ Unstage(k)
    BY <2>4, EraseOrphanKeeps, ErasePrunedKeeps, UnstageKeeps
  <2> QED
    BY <1>2, <2>1, <2>2, <2>3, <2>4 DEF Step
<1>3. ASSUME Failure PROVE IInv'
  BY <1>3, ThrowKeeps, PrunedKeptKeeps, StagedKeptKeeps DEF Failure
<1>4. ASSUME Loss PROVE IInv'
  BY <1>4, LoseCatalogKeeps, LoseRecordKeeps DEF Loss
<1> QED
  BY <1>1, <1>2, <1>3, <1>4, CrashKeeps, StutterKeeps DEF Next

(* The inductive invariant holds at every moment.                          *)
THEOREM Invariance == Spec => []IInv
  BY InitHolds, NextKeeps, PTL DEF Spec

----------------------------------------------------------------------------
(* What the directory holds *)

(* Whatever fails or stops and in whatever order: the catalog on disk      *)
(* names no record the store erased, a store that answers requests holds   *)
(* exactly its entries' records within its limits, and the disk never      *)
(* holds more than the quota and one staged entry.                         *)
THEOREM DirectoryAlwaysSound == Spec => []DirectorySound
<1>1. IInv => DirectorySound
  BY DEF IInv, DirectorySound, CatalogInv, RestInv, Sound, SteadyState
<1> QED
  BY <1>1, Invariance, PTL

(* A record goes only where the catalog's references were verified or the  *)
(* add that staged or pruned it is at work.                                *)
LEMMA ErasesOnlyOrphans ==
    ASSUME IInv, [Next]_vars, op # "add", index = "lost" \/ ~(Wanted(catalog) \subseteq files)
    PROVE  files \ files' \subseteq lost'
<1>1. ASSUME NEW k \in Keys, EraseOrphan(k) PROVE FALSE
  BY <1>1 DEF IInv, IndexInv, RecoverInv, EraseOrphan
<1>2. ASSUME NEW k \in Keys, ErasePruned(k) \/ Unstage(k) PROVE FALSE
  BY <1>2 DEF IInv, CallInv, ErasePruned, Unstage
<1>3. ASSUME NEW k \in Keys, LoseRecord(k) PROVE files \ files' \subseteq lost'
  BY <1>3 DEF LoseRecord
<1>4. ASSUME Calls \/ Failure \/ Crash \/ LoseCatalog \/ UNCHANGED vars PROVE files' = files
  BY <1>4 DEF Calls, Construct, Recover, Close, Add, Failure, Throw, PrunedKept, StagedKept,
     Crash, LoseCatalog, vars, disk
<1>5. ASSUME \/ Return \/ CreateTemporary \/ FillTemporary \/ ReadCatalog \/ Initialise \/ Verify
             \/ OrphansErased \/ EraseTemporary \/ RefuseTemporary \/ TemporariesErased \/ Adopt
             \/ ReadSource \/ WriteChunk \/ WriteSnapshot \/ Choose \/ Commit \/ PrunedErased
             \/ Unstaged
      PROVE  files \subseteq files'
  BY <1>5 DEF Return, CreateTemporary, FillTemporary, ReadCatalog, Initialise, Verify,
     OrphansErased, EraseTemporary, RefuseTemporary, TemporariesErased, Adopt, ReadSource,
     WriteChunk, WriteSnapshot, Choose, Commit, PrunedErased, Unstaged, disk
<1> QED
  BY <1>1, <1>2, <1>3, <1>4, <1>5 DEF Next, Step, Loss

(* While the catalog or a record it names is missing, recovery and every   *)
(* other call but add erase nothing.                                       *)
THEOREM EvidenceAlwaysPreserved == Spec => EvidencePreserved
<1>1. IInv /\ [Next]_vars => (op # "add" /\ (index = "lost" \/ ~(Wanted(catalog) \subseteq files))
          => files \ files' \subseteq lost')
  BY ErasesOnlyOrphans
<1> QED
  BY <1>1, Invariance, PTL DEF Spec, EvidencePreserved

----------------------------------------------------------------------------
(* The store implements the log *)

LEMMA LogInit ==
    ASSUME Init
    PROVE  Log!Init
  BY DEF Init, Log!Init, Ids, Log!Ids

LEMMA LogStutter ==
    ASSUME UNCHANGED <<catalog, answer>>
    PROVE  UNCHANGED Log!vars
  BY DEF Log!vars

(* An add begins, ends or is cut off.                                      *)
LEMMA LogAdd ==
    ASSUME IInv, NEW s \in Sources, Add(s)
    PROVE  Log!Next
<1>1. made + 1 \in Ids /\ made + 1 > made
  BY SizesAssumption DEF IInv, TypeOK, Add, Ids
<1>2. Log!Begin(made + 1)
  BY <1>1 DEF IInv, Numbered, Add, Log!Begin
<1> QED
  BY <1>1, <1>2 DEF Log!Next, Log!Ids, Ids

LEMMA LogReturn ==
    ASSUME IInv, Return
    PROVE  Log!Next \/ UNCHANGED Log!vars
<1>1. CASE op # "add"
  BY <1>1, LogStutter DEF Return, Answer, disk
<1>2. CASE op = "add"
  <2>1. made \in Ids /\ answer[made] = "pending"
    BY <1>2, SizesAssumption DEF IInv, TypeOK, CallInv, Ids
  <2>2. Log!Succeed(made) \/ Log!Fail(made)
    BY <1>2, <2>1 DEF IInv, PruneInv, Return, Answer, disk, Log!Succeed, Log!Fail
  <2> QED
    BY <2>1, <2>2 DEF Log!Next, Log!Ids, Ids
<1> QED
  BY <1>1, <1>2

LEMMA LogCrash ==
    ASSUME IInv, Crash
    PROVE  Log!Next \/ UNCHANGED Log!vars
<1>1. CASE op # "add"
  BY <1>1, LogStutter DEF Crash, Answer
<1>2. CASE op = "add"
  <2>1. made \in Ids /\ answer[made] = "pending"
    BY <1>2, SizesAssumption DEF IInv, TypeOK, CallInv, Ids
  <2>2. Log!Stop(made)
    BY <1>2, <2>1 DEF Crash, Answer, Log!Stop
  <2> QED
    BY <2>1, <2>2 DEF Log!Next, Log!Ids, Ids
<1> QED
  BY <1>1, <1>2

(* The entry is in the log from the moment its catalog is.                 *)
LEMMA LogCommit ==
    ASSUME IInv, Commit
    PROVE  Log!Next
<1> DEFINE all == ids \cup {made}
<1> DEFINE gone == Pruned(all)
<1>1. /\ pc = "index" /\ op = "add" /\ made \in Ids /\ answer[made] = "pending"
      /\ ids = catalog /\ made \notin catalog /\ ids \subseteq Ids
  BY SizesAssumption DEF IInv, TypeOK, CallInv, StageInv, Staging, Ids, Commit, Move
<1>2. all \in SUBSET Ids
  BY <1>1
<1>3. gone \subseteq all \ {made} /\ \A g \in gone, k \in (all \ {made}) \ gone : g < k
  <2> HIDE DEF all
  <2> QED  BY <1>2, PrunedOld
<1>4. catalog' = all \ gone /\ answer' = answer
  BY DEF Commit
<1> HIDE DEF gone
<1>5. gone \subseteq catalog /\ catalog' = (catalog \ gone) \cup {made}
      /\ \A g \in gone, k \in catalog \ gone : g < k
  BY <1>1, <1>3, <1>4
<1>6. Log!Append(made, gone)
  BY <1>1, <1>4, <1>5 DEF Log!Append
<1>7. gone \in SUBSET Log!Ids /\ made \in Log!Ids
  BY <1>1, <1>5 DEF Log!Ids, Ids
<1> QED
  BY <1>6, <1>7 DEF Log!Next

(* A catalog is created only where there is none: nothing is forgotten.    *)
LEMMA LogInitialise ==
    ASSUME IInv, Initialise
    PROVE  UNCHANGED Log!vars
<1>1. Wanted(catalog) = {}
  BY DEF IInv, IndexInv, CatalogInv, CatalogBacked, Initialise, Move
<1>2. \A i \in catalog : <<i, 0>> \in Wanted(catalog)
  BY SizesAssumption DEF IInv, TypeOK, Wanted, Keys
<1> QED
  BY <1>1, <1>2, LogStutter DEF Initialise

LEMMA LogStep ==
    ASSUME IInv, [Next]_vars
    PROVE  [Log!Next]_(Log!vars)
<1>1. ASSUME Calls PROVE Log!Next \/ UNCHANGED Log!vars
  <2>1. CASE Construct \/ Recover \/ Close
    BY <2>1, LogStutter DEF Construct, Recover, Close, disk
  <2> QED
    BY <1>1, <2>1, LogAdd DEF Calls
<1>2. ASSUME Step PROVE Log!Next \/ UNCHANGED Log!vars
  <2>1. CASE \/ CreateTemporary \/ FillTemporary \/ ReadCatalog \/ Verify \/ OrphansErased
             \/ EraseTemporary \/ RefuseTemporary \/ TemporariesErased \/ Adopt
    BY <2>1, LogStutter DEF CreateTemporary, FillTemporary, ReadCatalog, Verify,
       OrphansErased, EraseTemporary, RefuseTemporary, TemporariesErased, Adopt, disk
  <2>2. CASE ReadSource \/ WriteChunk \/ WriteSnapshot \/ Choose \/ PrunedErased \/ Unstaged
    BY <2>2, LogStutter DEF ReadSource, WriteChunk, WriteSnapshot, Choose, PrunedErased,
       Unstaged, disk
  <2>3. CASE \E k \in Keys : EraseOrphan(k) \/ ErasePruned(k) \/ Unstage(k)
    BY <2>3, LogStutter DEF EraseOrphan, ErasePruned, Unstage
  <2> QED
    BY <1>2, <2>1, <2>2, <2>3, LogReturn, LogInitialise, LogCommit DEF Step
<1>3. ASSUME Failure \/ Loss \/ UNCHANGED vars PROVE UNCHANGED Log!vars
  BY <1>3, LogStutter DEF Failure, Throw, PrunedKept, StagedKept, Loss, LoseCatalog,
     LoseRecord, vars, disk
<1> QED
  BY <1>1, <1>2, <1>3, LogCrash DEF Next

(* The store is a log that loses only its oldest entries, whose callers    *)
(* are told of every add whether it is in the log.                         *)
THEOREM StoreImplementsLog == Spec => ImplementsLog
  BY LogInit, LogStep, Invariance, PTL DEF Spec, ImplementsLog, Log!Spec
=============================================================================
