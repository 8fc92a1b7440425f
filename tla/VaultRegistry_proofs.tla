------------------------ MODULE VaultRegistry_proofs ------------------------
EXTENDS VaultRegistry, TLAPS

(* Every step keeps the state well formed and the call in progress at a    *)
(* step its method can be at.                                              *)
LEMMA TypeControlStep ==
    TypeOK /\ ControlInv /\ [Next]_vars => TypeOK' /\ ControlInv'
<1> SUFFICES ASSUME TypeOK, ControlInv, [Next]_vars
             PROVE  TypeOK' /\ ControlInv'
  OBVIOUS
<1> USE NoneAssumption DEF TypeOK, ControlInv, Binding, Journal, Args, Ops,
        Cleaning, Creating, Backs, disk, call, locals
<1>1. CASE Construct
  BY <1>1 DEF Construct, Begin
<1>2. CASE \E a \in Args : Open(a)
  BY <1>2 DEF Open, Begin
<1>3. CASE \E a \in {x \in Args : ~x.fresh} : Logout(a)
  BY <1>3 DEF Logout, Begin
<1>4. CASE ForgetAll
  BY <1>4 DEF ForgetAll, Begin
<1>5. CASE RetryCleanup
  BY <1>5 DEF RetryCleanup, Pending
<1>6. CASE Return
  BY <1>6 DEF Return, ClearLocals
<1>7. CASE OpenIndex
  BY <1>7 DEF OpenIndex
<1>8. CASE WriteIndexIdentity
  BY <1>8 DEF WriteIndexIdentity
<1>9. CASE WriteMarker
  BY <1>9 DEF WriteMarker
<1>10. CASE finishReset
  BY <1>10 DEF finishReset, Passed, Pending
<1>11. CASE ResetSweep
  BY <1>11 DEF ResetSweep, Pending
<1>12. CASE ResetDone
  BY <1>12 DEF ResetDone
<1>13. CASE EraseMarker
  BY <1>13 DEF EraseMarker, Passed, Pending
<1>14. CASE \E s \in Slots : ResetSlot(s)
  BY <1>14 DEF ResetSlot, JournalOf
<1>15. CASE \E g \in Generations : SweepRecord(g)
  BY <1>15 DEF SweepRecord
<1>16. CASE SweepDone
  BY <1>16 DEF SweepDone
<1>17. CASE Clean
  BY <1>17 DEF Clean, Cleaned
<1>18. CASE Unbind
  BY <1>18 DEF Unbind
<1>19. CASE Mark
  BY <1>19 DEF Mark
<1>20. CASE Purge
  BY <1>20 DEF Purge
<1>21. CASE DropRecord
  BY <1>21 DEF DropRecord, Cleaned
<1>22. CASE retire
  BY <1>22 DEF retire, JournalOf
<1>23. CASE Decide
  BY <1>23 DEF Decide
<1>24. CASE MakeDirectory
  BY <1>24 DEF MakeDirectory
<1>25. CASE WriteIdentity
  BY <1>25 DEF WriteIdentity
<1>26. CASE Publish
  BY <1>26 DEF Publish
<1>27. CASE Commit
  BY <1>27 DEF Commit
<1>28. CASE \E g \in Generations : Record(g)
  BY <1>28 DEF Record, JournalOf
<1>29. CASE CaughtInClean
  BY <1>29 DEF CaughtInClean
<1>30. CASE Uncaught
  BY <1>30 DEF Uncaught
<1>31. CASE \E s \in Slots : CaughtInReset(s)
  BY <1>31, ZenonT(30) DEF CaughtInReset
<1>32. CASE Crash
  BY <1>32 DEF Crash, ClearLocals
<1>33. CASE UNCHANGED vars
  BY <1>33 DEF vars
<1> QED
  BY <1>1, <1>2, <1>3, <1>4, <1>5, <1>6, <1>7, <1>8, <1>9, <1>10, <1>11, <1>12, <1>13, <1>14, <1>15, <1>16, <1>17, <1>18, <1>19, <1>20, <1>21, <1>22, <1>23, <1>24, <1>25, <1>26, <1>27, <1>28, <1>29, <1>30, <1>31, <1>32, <1>33 DEF Next, Calls, Step, Throw

(* Every step keeps bound generations whole and journal and binding agreed. *)
LEMMA DiskStep ==
    InductiveInv /\ [Next]_vars => DiskInv'
<1> SUFFICES ASSUME InductiveInv, [Next]_vars
             PROVE  DiskInv'
  OBVIOUS
<1>t. TypeOK' /\ ControlInv'
  BY TypeControlStep DEF InductiveInv
<1> USE <1>t, NoneAssumption DEF InductiveInv, TypeOK, ControlInv, DiskInv, SlotsDisjoint,
        NoOrphanData, CleanInv, CreateInv, Binding, Journal, Args, Ops, Backs, disk, call, locals, Cleaning, Creating,
        Bound, referenced, R, Retiring, Mine, NewId
<1>1. CASE Construct
  BY <1>1 DEF Construct, Begin
<1>2. CASE \E a \in Args : Open(a)
  BY <1>2 DEF Open, Begin
<1>3. CASE \E a \in {x \in Args : ~x.fresh} : Logout(a)
  BY <1>3 DEF Logout, Begin
<1>4. CASE ForgetAll
  BY <1>4 DEF ForgetAll, Begin
<1>5. CASE RetryCleanup
  BY <1>5 DEF RetryCleanup, Pending
<1>6. CASE Return
  BY <1>6 DEF Return, ClearLocals
<1>7. CASE OpenIndex
  BY <1>7 DEF OpenIndex
<1>8. CASE WriteIndexIdentity
  BY <1>8 DEF WriteIndexIdentity
<1>9. CASE WriteMarker
  BY <1>9 DEF WriteMarker
<1>10. CASE finishReset
  BY <1>10 DEF finishReset, Passed, Pending
<1>11. CASE ResetSweep
  BY <1>11 DEF ResetSweep, Pending
<1>12. CASE ResetDone
  BY <1>12 DEF ResetDone
<1>13. CASE EraseMarker
  BY <1>13 DEF EraseMarker, Passed, Pending
<1>14. CASE \E s \in Slots : ResetSlot(s)
  BY <1>14 DEF ResetSlot, JournalOf
<1>15. CASE \E g \in Generations : SweepRecord(g)
  BY <1>15 DEF SweepRecord
<1>16. CASE SweepDone
  BY <1>16 DEF SweepDone
<1>17. CASE Clean
  BY <1>17 DEF Clean, Cleaned
<1>18. CASE Unbind
  BY <1>18 DEF Unbind
<1>19. CASE Mark
  BY <1>19 DEF Mark
<1>20. CASE Purge
  BY <1>20 DEF Purge
<1>21. CASE DropRecord
  BY <1>21 DEF DropRecord, Cleaned
<1>22. CASE retire
  BY <1>22 DEF retire, JournalOf
<1>23. CASE Decide
  BY <1>23 DEF Decide
<1>24. CASE MakeDirectory
  BY <1>24 DEF MakeDirectory, JournalOf
<1>25. CASE WriteIdentity
  BY <1>25 DEF WriteIdentity, JournalOf
<1>26. CASE Publish
  BY <1>26 DEF Publish, JournalOf
<1>27. CASE Commit
  BY <1>27 DEF Commit
<1>28. CASE \E g \in Generations : Record(g)
  BY <1>28 DEF Record, JournalOf
<1>29. CASE CaughtInClean
  BY <1>29 DEF CaughtInClean
<1>30. CASE Uncaught
  BY <1>30 DEF Uncaught
<1>31. CASE \E s \in Slots : CaughtInReset(s)
  BY <1>31 DEF CaughtInReset
<1>32. CASE Crash
  BY <1>32 DEF Crash, ClearLocals
<1>33. CASE UNCHANGED vars
  BY <1>33 DEF vars
<1> QED
  BY <1>1, <1>2, <1>3, <1>4, <1>5, <1>6, <1>7, <1>8, <1>9, <1>10, <1>11, <1>12, <1>13, <1>14, <1>15, <1>16, <1>17, <1>18, <1>19, <1>20, <1>21, <1>22, <1>23, <1>24, <1>25, <1>26, <1>27, <1>28, <1>29, <1>30, <1>31, <1>32, <1>33 DEF Next, Calls, Step, Throw

(* Every step keeps what clean() knows of the generation it is removing.    *)
LEMMA CleanStep ==
    InductiveInv /\ [Next]_vars => CleanInv'
<1> SUFFICES ASSUME InductiveInv, [Next]_vars
             PROVE  CleanInv'
  OBVIOUS
<1>t. TypeOK' /\ ControlInv'
  BY TypeControlStep DEF InductiveInv
<1> USE <1>t, NoneAssumption DEF InductiveInv, TypeOK, ControlInv, DiskInv, SlotsDisjoint,
        CleanInv, CreateInv, Binding, Journal, Args, Ops, Backs, disk, call, locals, Cleaning, Creating,
        Bound, referenced, R, Retiring, Mine, NewId
<1>1. CASE Construct
  BY <1>1 DEF Construct, Begin
<1>2. CASE \E a \in Args : Open(a)
  BY <1>2 DEF Open, Begin
<1>3. CASE \E a \in {x \in Args : ~x.fresh} : Logout(a)
  BY <1>3 DEF Logout, Begin
<1>4. CASE ForgetAll
  BY <1>4 DEF ForgetAll, Begin
<1>5. CASE RetryCleanup
  BY <1>5 DEF RetryCleanup, Pending
<1>6. CASE Return
  BY <1>6 DEF Return, ClearLocals
<1>7. CASE OpenIndex
  BY <1>7 DEF OpenIndex
<1>8. CASE WriteIndexIdentity
  BY <1>8 DEF WriteIndexIdentity
<1>9. CASE WriteMarker
  BY <1>9 DEF WriteMarker
<1>10. CASE finishReset
  BY <1>10 DEF finishReset, Passed, Pending
<1>11. CASE ResetSweep
  BY <1>11 DEF ResetSweep, Pending
<1>12. CASE ResetDone
  BY <1>12 DEF ResetDone
<1>13. CASE EraseMarker
  BY <1>13 DEF EraseMarker, Passed, Pending
<1>14. CASE \E s \in Slots : ResetSlot(s)
  BY <1>14 DEF ResetSlot, JournalOf
<1>15. CASE \E g \in Generations : SweepRecord(g)
  BY <1>15 DEF SweepRecord
<1>16. CASE SweepDone
  BY <1>16 DEF SweepDone
<1>17. CASE Clean
  BY <1>17 DEF Clean, Cleaned
<1>18. CASE Unbind
  BY <1>18 DEF Unbind
<1>19. CASE Mark
  BY <1>19 DEF Mark
<1>20. CASE Purge
  BY <1>20 DEF Purge
<1>21. CASE DropRecord
  BY <1>21 DEF DropRecord, Cleaned
<1>22. CASE retire
  BY <1>22 DEF retire, JournalOf
<1>23. CASE Decide
  BY <1>23 DEF Decide
<1>24. CASE MakeDirectory
  BY <1>24 DEF MakeDirectory, JournalOf
<1>25. CASE WriteIdentity
  BY <1>25 DEF WriteIdentity, JournalOf
<1>26. CASE Publish
  BY <1>26 DEF Publish, JournalOf
<1>27. CASE Commit
  BY <1>27 DEF Commit
<1>28. CASE \E g \in Generations : Record(g)
  BY <1>28 DEF Record, JournalOf
<1>29. CASE CaughtInClean
  BY <1>29 DEF CaughtInClean
<1>30. CASE Uncaught
  BY <1>30 DEF Uncaught
<1>31. CASE \E s \in Slots : CaughtInReset(s)
  BY <1>31 DEF CaughtInReset
<1>32. CASE Crash
  BY <1>32 DEF Crash, ClearLocals
<1>33. CASE UNCHANGED vars
  BY <1>33 DEF vars
<1> QED
  BY <1>1, <1>2, <1>3, <1>4, <1>5, <1>6, <1>7, <1>8, <1>9, <1>10, <1>11, <1>12, <1>13, <1>14, <1>15, <1>16, <1>17, <1>18, <1>19, <1>20, <1>21, <1>22, <1>23, <1>24, <1>25, <1>26, <1>27, <1>28, <1>29, <1>30, <1>31, <1>32, <1>33 DEF Next, Calls, Step, Throw

(* Every step keeps what open knows of the generation it is creating.       *)
LEMMA CreateStep ==
    InductiveInv /\ [Next]_vars => CreateInv'
<1> SUFFICES ASSUME InductiveInv, [Next]_vars
             PROVE  CreateInv'
  OBVIOUS
<1>t. TypeOK' /\ ControlInv'
  BY TypeControlStep DEF InductiveInv
<1> USE <1>t, NoneAssumption DEF InductiveInv, TypeOK, ControlInv, DiskInv, SlotsDisjoint,
        CleanInv, CreateInv, Binding, Journal, Args, Ops, Backs, disk, call, locals, Cleaning, Creating,
        Bound, referenced, R, Retiring, Mine, NewId
<1>1. CASE Construct
  BY <1>1 DEF Construct, Begin
<1>2. CASE \E a \in Args : Open(a)
  BY <1>2 DEF Open, Begin
<1>3. CASE \E a \in {x \in Args : ~x.fresh} : Logout(a)
  BY <1>3 DEF Logout, Begin
<1>4. CASE ForgetAll
  BY <1>4 DEF ForgetAll, Begin
<1>5. CASE RetryCleanup
  BY <1>5 DEF RetryCleanup, Pending
<1>6. CASE Return
  BY <1>6 DEF Return, ClearLocals
<1>7. CASE OpenIndex
  BY <1>7 DEF OpenIndex
<1>8. CASE WriteIndexIdentity
  BY <1>8 DEF WriteIndexIdentity
<1>9. CASE WriteMarker
  BY <1>9 DEF WriteMarker
<1>10. CASE finishReset
  BY <1>10 DEF finishReset, Passed, Pending
<1>11. CASE ResetSweep
  BY <1>11 DEF ResetSweep, Pending
<1>12. CASE ResetDone
  BY <1>12 DEF ResetDone
<1>13. CASE EraseMarker
  BY <1>13 DEF EraseMarker, Passed, Pending
<1>14. CASE \E s \in Slots : ResetSlot(s)
  BY <1>14 DEF ResetSlot, JournalOf
<1>15. CASE \E g \in Generations : SweepRecord(g)
  BY <1>15 DEF SweepRecord
<1>16. CASE SweepDone
  BY <1>16 DEF SweepDone
<1>17. CASE Clean
  BY <1>17 DEF Clean, Cleaned
<1>18. CASE Unbind
  BY <1>18 DEF Unbind
<1>19. CASE Mark
  BY <1>19 DEF Mark
<1>20. CASE Purge
  BY <1>20 DEF Purge
<1>21. CASE DropRecord
  BY <1>21 DEF DropRecord, Cleaned
<1>22. CASE retire
  BY <1>22 DEF retire, JournalOf
<1>23. CASE Decide
  BY <1>23 DEF Decide
<1>24. CASE MakeDirectory
  BY <1>24 DEF MakeDirectory, JournalOf
<1>25. CASE WriteIdentity
  BY <1>25 DEF WriteIdentity, JournalOf
<1>26. CASE Publish
  BY <1>26 DEF Publish, JournalOf
<1>27. CASE Commit
  BY <1>27 DEF Commit
<1>28. CASE \E g \in Generations : Record(g)
  BY <1>28 DEF Record, JournalOf
<1>29. CASE CaughtInClean
  BY <1>29 DEF CaughtInClean
<1>30. CASE Uncaught
  BY <1>30 DEF Uncaught
<1>31. CASE \E s \in Slots : CaughtInReset(s)
  BY <1>31 DEF CaughtInReset
<1>32. CASE Crash
  BY <1>32 DEF Crash, ClearLocals
<1>33. CASE UNCHANGED vars
  BY <1>33 DEF vars
<1> QED
  BY <1>1, <1>2, <1>3, <1>4, <1>5, <1>6, <1>7, <1>8, <1>9, <1>10, <1>11, <1>12, <1>13, <1>14, <1>15, <1>16, <1>17, <1>18, <1>19, <1>20, <1>21, <1>22, <1>23, <1>24, <1>25, <1>26, <1>27, <1>28, <1>29, <1>30, <1>31, <1>32, <1>33 DEF Next, Calls, Step, Throw

(* Every step keeps the stores in the caller's hands valid.                 *)
LEMMA StoreStep ==
    InductiveInv /\ [Next]_vars => StoreInv'
<1> SUFFICES ASSUME InductiveInv, [Next]_vars
             PROVE  StoreInv'
  OBVIOUS
<1>t. TypeOK' /\ ControlInv'
  BY TypeControlStep DEF InductiveInv
<1> USE <1>t, NoneAssumption DEF InductiveInv, TypeOK, ControlInv, DiskInv, SlotsDisjoint,
        CleanInv, CreateInv, StoreInv, OpenHonoursLogin, ResetInv, Resetting, PastBarrier,
        Binding, Journal, Args, Ops, Backs, disk, call, locals, Cleaning, Creating,
        Bound, referenced, R, Retiring, Mine, NewId
<1>1. CASE Construct
  BY <1>1 DEF Construct, Begin
<1>2. CASE \E a \in Args : Open(a)
  BY <1>2 DEF Open, Begin
<1>3. CASE \E a \in {x \in Args : ~x.fresh} : Logout(a)
  BY <1>3 DEF Logout, Begin
<1>4. CASE ForgetAll
  BY <1>4 DEF ForgetAll, Begin
<1>5. CASE RetryCleanup
  BY <1>5 DEF RetryCleanup, Pending
<1>6. CASE Return
  BY <1>6 DEF Return, ClearLocals
<1>7. CASE OpenIndex
  BY <1>7 DEF OpenIndex
<1>8. CASE WriteIndexIdentity
  BY <1>8 DEF WriteIndexIdentity
<1>9. CASE WriteMarker
  BY <1>9 DEF WriteMarker
<1>10. CASE finishReset
  BY <1>10 DEF finishReset, Passed, Pending
<1>11. CASE ResetSweep
  BY <1>11 DEF ResetSweep, Pending
<1>12. CASE ResetDone
  BY <1>12 DEF ResetDone
<1>13. CASE EraseMarker
  BY <1>13 DEF EraseMarker, Passed, Pending
<1>14. CASE \E s \in Slots : ResetSlot(s)
  BY <1>14 DEF ResetSlot, JournalOf
<1>15. CASE \E g \in Generations : SweepRecord(g)
  BY <1>15 DEF SweepRecord
<1>16. CASE SweepDone
  BY <1>16 DEF SweepDone
<1>17. CASE Clean
  BY <1>17 DEF Clean, Cleaned
<1>18. CASE Unbind
  BY <1>18 DEF Unbind
<1>19. CASE Mark
  BY <1>19 DEF Mark
<1>20. CASE Purge
  BY <1>20 DEF Purge
<1>21. CASE DropRecord
  BY <1>21 DEF DropRecord, Cleaned
<1>22. CASE retire
  BY <1>22 DEF retire, JournalOf
<1>23. CASE Decide
  BY <1>23 DEF Decide
<1>24. CASE MakeDirectory
  BY <1>24 DEF MakeDirectory, JournalOf
<1>25. CASE WriteIdentity
  BY <1>25 DEF WriteIdentity, JournalOf
<1>26. CASE Publish
  BY <1>26 DEF Publish, JournalOf
<1>27. CASE Commit
  BY <1>27 DEF Commit
<1>28. CASE \E g \in Generations : Record(g)
  BY <1>28 DEF Record, JournalOf
<1>29. CASE CaughtInClean
  BY <1>29 DEF CaughtInClean
<1>30. CASE Uncaught
  BY <1>30 DEF Uncaught
<1>31. CASE \E s \in Slots : CaughtInReset(s)
  BY <1>31 DEF CaughtInReset
<1>32. CASE Crash
  BY <1>32 DEF Crash, ClearLocals
<1>33. CASE UNCHANGED vars
  BY <1>33 DEF vars
<1> QED
  BY <1>1, <1>2, <1>3, <1>4, <1>5, <1>6, <1>7, <1>8, <1>9, <1>10, <1>11, <1>12, <1>13, <1>14, <1>15, <1>16, <1>17, <1>18, <1>19, <1>20, <1>21, <1>22, <1>23, <1>24, <1>25, <1>26, <1>27, <1>28, <1>29, <1>30, <1>31, <1>32, <1>33 DEF Next, Calls, Step, Throw

(* Every step keeps the account of what a reset has already removed.        *)
LEMMA ResetStep ==
    InductiveInv /\ [Next]_vars => ResetInv'
<1> SUFFICES ASSUME InductiveInv, [Next]_vars
             PROVE  ResetInv'
  OBVIOUS
<1>t. TypeOK' /\ ControlInv'
  BY TypeControlStep DEF InductiveInv
<1> USE <1>t, NoneAssumption DEF InductiveInv, TypeOK, ControlInv, DiskInv, SlotsDisjoint,
        CleanInv, CreateInv, ResetInv, Resetting, PastBarrier, Binding, Journal, Args, Ops, Backs, disk, call, locals, Cleaning, Creating,
        Bound, referenced, R, Retiring, Mine, NewId
<1>1. CASE Construct
  BY <1>1 DEF Construct, Begin
<1>2. CASE \E a \in Args : Open(a)
  BY <1>2 DEF Open, Begin
<1>3. CASE \E a \in {x \in Args : ~x.fresh} : Logout(a)
  BY <1>3 DEF Logout, Begin
<1>4. CASE ForgetAll
  BY <1>4 DEF ForgetAll, Begin
<1>5. CASE RetryCleanup
  BY <1>5 DEF RetryCleanup, Pending
<1>6. CASE Return
  BY <1>6 DEF Return, ClearLocals
<1>7. CASE OpenIndex
  BY <1>7 DEF OpenIndex
<1>8. CASE WriteIndexIdentity
  BY <1>8 DEF WriteIndexIdentity
<1>9. CASE WriteMarker
  BY <1>9 DEF WriteMarker
<1>10. CASE finishReset
  BY <1>10 DEF finishReset, Passed, Pending
<1>11. CASE ResetSweep
  BY <1>11 DEF ResetSweep, Pending
<1>12. CASE ResetDone
  BY <1>12 DEF ResetDone
<1>13. CASE EraseMarker
  BY <1>13 DEF EraseMarker, Passed, Pending
<1>14. CASE \E s \in Slots : ResetSlot(s)
  BY <1>14 DEF ResetSlot, JournalOf
<1>15. CASE \E g \in Generations : SweepRecord(g)
  BY <1>15 DEF SweepRecord
<1>16. CASE SweepDone
  BY <1>16 DEF SweepDone
<1>17. CASE Clean
  BY <1>17 DEF Clean, Cleaned
<1>18. CASE Unbind
  BY <1>18 DEF Unbind
<1>19. CASE Mark
  BY <1>19 DEF Mark
<1>20. CASE Purge
  BY <1>20 DEF Purge
<1>21. CASE DropRecord
  BY <1>21 DEF DropRecord, Cleaned
<1>22. CASE retire
  BY <1>22 DEF retire, JournalOf
<1>23. CASE Decide
  BY <1>23 DEF Decide
<1>24. CASE MakeDirectory
  BY <1>24 DEF MakeDirectory, JournalOf
<1>25. CASE WriteIdentity
  BY <1>25 DEF WriteIdentity, JournalOf
<1>26. CASE Publish
  BY <1>26 DEF Publish, JournalOf
<1>27. CASE Commit
  BY <1>27 DEF Commit
<1>28. CASE \E g \in Generations : Record(g)
  BY <1>28 DEF Record, JournalOf
<1>29. CASE CaughtInClean
  BY <1>29 DEF CaughtInClean
<1>30. CASE Uncaught
  BY <1>30 DEF Uncaught
<1>31. CASE \E s \in Slots : CaughtInReset(s)
  BY <1>31 DEF CaughtInReset
<1>32. CASE Crash
  BY <1>32 DEF Crash, ClearLocals
<1>33. CASE UNCHANGED vars
  BY <1>33 DEF vars
<1> QED
  BY <1>1, <1>2, <1>3, <1>4, <1>5, <1>6, <1>7, <1>8, <1>9, <1>10, <1>11, <1>12, <1>13, <1>14, <1>15, <1>16, <1>17, <1>18, <1>19, <1>20, <1>21, <1>22, <1>23, <1>24, <1>25, <1>26, <1>27, <1>28, <1>29, <1>30, <1>31, <1>32, <1>33 DEF Next, Calls, Step, Throw

(* Every step keeps the account of what a sweep has still to visit.         *)
LEMMA SweepStep ==
    InductiveInv /\ [Next]_vars => SweepInv'
<1> SUFFICES ASSUME InductiveInv, [Next]_vars
             PROVE  SweepInv'
  OBVIOUS
<1>t. TypeOK' /\ ControlInv'
  BY TypeControlStep DEF InductiveInv
<1> USE <1>t, NoneAssumption DEF InductiveInv, TypeOK, ControlInv, CleanInv, SweepInv,
        CompleteSweep, Pending, Binding, Journal, Args, Ops, Backs, disk, call, locals, Cleaning, Creating,
        Bound, referenced, R, Retiring, Mine, NewId
<1>1. CASE Construct
  BY <1>1 DEF Construct, Begin
<1>2. CASE \E a \in Args : Open(a)
  BY <1>2 DEF Open, Begin
<1>3. CASE \E a \in {x \in Args : ~x.fresh} : Logout(a)
  BY <1>3 DEF Logout, Begin
<1>4. CASE ForgetAll
  BY <1>4 DEF ForgetAll, Begin
<1>5. CASE RetryCleanup
  BY <1>5 DEF RetryCleanup, Pending
<1>6. CASE Return
  BY <1>6 DEF Return, ClearLocals
<1>7. CASE OpenIndex
  BY <1>7 DEF OpenIndex
<1>8. CASE WriteIndexIdentity
  BY <1>8 DEF WriteIndexIdentity
<1>9. CASE WriteMarker
  BY <1>9 DEF WriteMarker
<1>10. CASE finishReset
  BY <1>10 DEF finishReset, Passed, Pending
<1>11. CASE ResetSweep
  BY <1>11 DEF ResetSweep, Pending
<1>12. CASE ResetDone
  BY <1>12 DEF ResetDone
<1>13. CASE EraseMarker
  BY <1>13 DEF EraseMarker, Passed, Pending
<1>14. CASE \E s \in Slots : ResetSlot(s)
  BY <1>14 DEF ResetSlot, JournalOf
<1>15. CASE \E g \in Generations : SweepRecord(g)
  BY <1>15 DEF SweepRecord
<1>16. CASE SweepDone
  BY <1>16 DEF SweepDone
<1>17. CASE Clean
  BY <1>17 DEF Clean, Cleaned
<1>18. CASE Unbind
  BY <1>18 DEF Unbind
<1>19. CASE Mark
  BY <1>19 DEF Mark
<1>20. CASE Purge
  BY <1>20 DEF Purge
<1>21. CASE DropRecord
  BY <1>21 DEF DropRecord, Cleaned
<1>22. CASE retire
  BY <1>22 DEF retire, JournalOf
<1>23. CASE Decide
  BY <1>23 DEF Decide
<1>24. CASE MakeDirectory
  BY <1>24 DEF MakeDirectory, JournalOf
<1>25. CASE WriteIdentity
  BY <1>25 DEF WriteIdentity, JournalOf
<1>26. CASE Publish
  BY <1>26 DEF Publish, JournalOf
<1>27. CASE Commit
  BY <1>27 DEF Commit
<1>28. CASE \E g \in Generations : Record(g)
  BY <1>28 DEF Record, JournalOf
<1>29. CASE CaughtInClean
  BY <1>29 DEF CaughtInClean
<1>30. CASE Uncaught
  BY <1>30 DEF Uncaught
<1>31. CASE \E s \in Slots : CaughtInReset(s)
  BY <1>31 DEF CaughtInReset
<1>32. CASE Crash
  BY <1>32 DEF Crash, ClearLocals
<1>33. CASE UNCHANGED vars
  BY <1>33 DEF vars
<1> QED
  BY <1>1, <1>2, <1>3, <1>4, <1>5, <1>6, <1>7, <1>8, <1>9, <1>10, <1>11, <1>12, <1>13, <1>14, <1>15, <1>16, <1>17, <1>18, <1>19, <1>20, <1>21, <1>22, <1>23, <1>24, <1>25, <1>26, <1>27, <1>28, <1>29, <1>30, <1>31, <1>32, <1>33 DEF Next, Calls, Step, Throw


(* Everything the registry's safety rests on holds in every reachable      *)
(* state, for any number of slots, owners, authorizations, generations.    *)
THEOREM RegistryInvariant == Spec => []InductiveInv
<1>1. Init => InductiveInv
  BY NoneAssumption DEF Init, InductiveInv, TypeOK, DiskInv, SlotsDisjoint, NoOrphanData,
     ControlInv, CleanInv, CreateInv, StoreInv, OpenHonoursLogin, ResetInv, Resetting,
     PastBarrier, SweepInv, CompleteSweep, Pending, Backs, Ops, Cleaning, Creating,
     R, Bound, referenced
<1>2. InductiveInv /\ [Next]_vars => InductiveInv'
  BY TypeControlStep, DiskStep, CleanStep, CreateStep, StoreStep, ResetStep, SweepStep
     DEF InductiveInv
<1> QED
  BY <1>1, <1>2, PTL DEF Spec

(* The registry's state is always well formed.                             *)
THEOREM TypeCorrect == Spec => []TypeOK
  BY RegistryInvariant, PTL DEF InductiveInv

(* A store in the caller's hands is never retired, reset or rebound under  *)
(* it by calls about other slots, and open never hands out data created    *)
(* under another owner or authorization.                                   *)
THEOREM LoginsHonoured == Spec => []LoginsRespected
<1>1. InductiveInv => StoreStaysValid
  BY DEF InductiveInv, DiskInv, StoreInv, StoreStaysValid, Bound, R, Retiring
<1>2. InductiveInv => OpenHonoursLogin
  BY DEF InductiveInv, StoreInv
<1> QED
  BY <1>1, <1>2, RegistryInvariant, PTL DEF LoginsRespected

(* An interrupted creation or cleanup never costs a bound generation its   *)
(* data, and never leaves data nobody will delete.                         *)
THEOREM DataAccountedFor == Spec => []DataAccounted
<1>1. InductiveInv => CommittedDataSurvives /\ NoOrphanData
  BY DEF InductiveInv, DiskInv, CommittedDataSurvives
<1> QED
  BY <1>1, RegistryInvariant, PTL DEF DataAccounted

(* retryCleanup that reports success has left no journal record.           *)
THEOREM SweepsComplete == Spec => []CompleteSweep
<1>1. InductiveInv => CompleteSweep
  BY DEF InductiveInv, SweepInv
<1> QED
  BY <1>1, RegistryInvariant, PTL

(* The forgotten-passcode barrier: nothing is bound behind it, and it is   *)
(* lifted only over an empty registry.                                     *)
THEOREM BarrierHolds == Spec => ResetBarrier
<1> DEFINE Barrier == /\ reset => \A s \in Slots : binding'[s] \in {binding[s], None}
                      /\ reset /\ ~reset' => Pending = {} /\ \A s \in Slots : binding[s] = None
<1>1. InductiveInv /\ [Next]_vars => [Barrier]_vars
  <2> SUFFICES ASSUME InductiveInv, Next, reset
               PROVE  Barrier
    BY DEF vars
  <2> USE NoneAssumption DEF disk, call, locals
  <2>1. CASE Publish
    BY <2>1 DEF Publish, InductiveInv, ResetInv, PastBarrier, ControlInv, Creating
  <2>2. CASE Unbind
    BY <2>2 DEF Unbind, InductiveInv, TypeOK
  <2>3. CASE EraseMarker
    BY <2>3 DEF EraseMarker, InductiveInv, TypeOK, ResetInv, Resetting, SweepInv, Cleaning
  <2>4. CASE /\ ~Publish /\ ~Unbind /\ ~EraseMarker
    <3>1. binding' = binding /\ reset'
      BY <2>4 DEF Next, Calls, Step, Throw, Construct, Open, Logout, ForgetAll, RetryCleanup, Begin,
         Return, OpenIndex, WriteIndexIdentity, WriteMarker, finishReset, ResetSweep, ResetDone,
         ResetSlot, SweepRecord, SweepDone, Clean, Mark, Purge, DropRecord, retire, Decide,
         MakeDirectory, WriteIdentity, Commit, Record, CaughtInClean, CaughtInReset, Uncaught, Crash
    <3> QED
      BY <3>1
  <2> QED
    BY <2>1, <2>2, <2>3, <2>4
<1> QED
  BY <1>1, RegistryInvariant, PTL DEF Spec, ResetBarrier


----------------------------------------------------------------------------
(* The refinement of VaultRegistrySpec *)

(* The abstract state depends on the bindings, the marker, the data and on *)
(* which generations have an R record, and on nothing else.                *)
LEMMA BarsUnchanged ==
    ASSUME TypeOK, UNCHANGED <<binding, reset, data>>, \A g \in Generations : R(g)' <=> R(g)
    PROVE  activeBar' = activeBar /\ retiredBar' = retiredBar
<1>1. \A s \in Slots : binding[s] # None => binding[s].gen \in Generations
  BY DEF TypeOK, Binding
<1> QED
  BY <1>1 DEF activeBar, retiredBar, R, Retiring, Bound, referenced

(* Giving up the stores of S is the abstract Drop.                         *)
LEMMA DropStep ==
    ASSUME NEW S \in SUBSET Slots, activeBar' = activeBar, retiredBar' = retiredBar,
           store' = [s \in Slots |-> IF s \in S THEN None ELSE store[s]]
    PROVE  Abstract!Next
  BY DEF Abstract!Next, Abstract!Drop

(* Steps that touch no durable state but the index directory.              *)
LEMMA SilentDisk ==
    ASSUME InductiveInv, UNCHANGED <<binding, journal, reset, data>>
    PROVE  activeBar' = activeBar /\ retiredBar' = retiredBar
  BY BarsUnchanged DEF InductiveInv, R

(* Beginning a call, or a crash, at most drops stores.                     *)
LEMMA CallStep ==
    ASSUME InductiveInv, Calls \/ Crash
    PROVE  [Abstract!Next]_(Abstract!vars)
<1> USE DEF disk, call, locals
<1>0. activeBar' = activeBar /\ retiredBar' = retiredBar
  BY SilentDisk DEF Calls, Crash, Construct, Open, Logout, ForgetAll, RetryCleanup, Begin
<1>1. CASE RetryCleanup
  BY <1>0, <1>1 DEF RetryCleanup, Abstract!vars
<1>2. CASE Calls /\ ~RetryCleanup
  <2>1. \E S \in SUBSET Slots : store' = [s \in Slots |-> IF s \in S THEN None ELSE store[s]]
    <3>1. CASE Construct
      <4>1. {} \in SUBSET Slots
        OBVIOUS
      <4>2. store' = [s \in Slots |-> IF s \in {} THEN None ELSE store[s]]
        BY <3>1 DEF Construct, Begin
      <4> QED
        BY <4>1, <4>2
    <3>2. CASE ForgetAll
      BY <3>2 DEF ForgetAll, Begin
    <3>3. CASE \E a \in Args : Open(a)
      <4>1. PICK a \in Args : Open(a)
        BY <3>3
      <4>2. {a.slot} \in SUBSET Slots
        BY DEF Args
      <4> QED
        BY <4>1, <4>2 DEF Open, Begin
    <3>4. CASE \E a \in {x \in Args : ~x.fresh} : Logout(a)
      <4>1. PICK a \in Args : Logout(a)
        BY <3>4
      <4>2. {a.slot} \in SUBSET Slots
        BY DEF Args
      <4> QED
        BY <4>1, <4>2 DEF Logout, Begin
    <3> QED
      BY <1>2, <3>1, <3>2, <3>3, <3>4 DEF Calls
  <2> QED
    BY <2>1, <1>0, DropStep
<1>3. CASE Crash
  <2>1. store' = [s \in Slots |-> IF s \in Slots THEN None ELSE store[s]]
    BY <1>3 DEF Crash
  <2> QED
    BY <2>1, <1>0, DropStep
<1> QED
  BY <1>1, <1>2, <1>3

(* Writing the marker retires every binding in force at once.              *)
LEMMA MarkerStep ==
    ASSUME InductiveInv, WriteMarker
    PROVE  [Abstract!Next]_(Abstract!vars)
<1> DEFINE S == {s \in Slots : activeBar[s] # None}
<1> USE NoneAssumption DEF InductiveInv, TypeOK, WriteMarker, locals, disk
<1>1. \A s \in S : activeBar[s] # None /\ store[s] = None
  BY DEF StoreInv, activeBar
<1>2. activeBar' = [s \in Slots |-> IF s \in S THEN None ELSE activeBar[s]]
  BY DEF activeBar
<1>3. retiredBar' = retiredBar \cup {activeBar[s].gen : s \in S}
  <2>1. ASSUME NEW g \in Generations, g \in retiredBar'
        PROVE  g \in retiredBar \cup {activeBar[s].gen : s \in S}
    <3>1. CASE g \in retiredBar
      BY <3>1
    <3>2. CASE g \notin retiredBar
      <4>1. PICK s \in Slots : Bound(s, g)
        BY <2>1, <3>2 DEF retiredBar, referenced, Bound
      <4>2. ~reset /\ ~Retiring(binding[s])
        BY <3>2, <4>1 DEF retiredBar, referenced, Retiring, Bound
      <4>3. activeBar[s] = binding[s] /\ s \in S
        BY <4>1, <4>2 DEF activeBar, Bound
      <4> QED
        BY <4>1, <4>3 DEF Bound
    <3> QED
      BY <3>1, <3>2
  <2>2. retiredBar \subseteq retiredBar'
    BY DEF retiredBar, referenced, Bound
  <2>3. ASSUME NEW s \in S
        PROVE  activeBar[s].gen \in retiredBar'
    <3>1. activeBar[s] = binding[s] /\ binding[s] # None
      BY DEF activeBar
    <3>2. binding[s].gen \in Generations
      BY <3>1 DEF Binding
    <3> QED
      BY <3>1, <3>2 DEF retiredBar, referenced, Bound
  <2>4. retiredBar' \subseteq Generations
    BY DEF retiredBar
  <2> QED
    BY <2>1, <2>2, <2>3, <2>4
<1>4. Abstract!Retire(S)
  BY <1>1, <1>2, <1>3 DEF Abstract!Retire
<1>5. S \in SUBSET Slots
  OBVIOUS
<1> QED
  BY <1>4, <1>5 DEF Abstract!Next

(* Writing an R record retires the binding, unless it already was.         *)
LEMMA RetireStep ==
    ASSUME InductiveInv, retire
    PROVE  [Abstract!Next]_(Abstract!vars)
<1> DEFINE x == args.slot
           b == binding[x]
<1> USE NoneAssumption DEF InductiveInv, TypeOK, locals, disk, call
<1>1. x \in Slots /\ b # None /\ b \in Binding /\ b.gen \in Generations
  BY DEF retire, ControlInv, Args, Binding
<1>2. /\ \A g \in Generations : R(g)' <=> R(g) \/ g = b.gen
      /\ UNCHANGED <<binding, reset, data, store>>
  BY <1>1 DEF retire, R, JournalOf, Journal, Binding
<1>3. \A s \in Slots : binding[s] # None => binding[s].gen \in Generations
                       /\ (binding[s].gen = b.gen => s = x)
  BY <1>1 DEF DiskInv, SlotsDisjoint, Binding
<1>4. CASE reset \/ R(b.gen)
  <2>1. activeBar' = activeBar
    BY <1>1, <1>2, <1>3, <1>4 DEF activeBar, Retiring, R
  <2>2. retiredBar' = retiredBar
    <3>1. referenced(b.gen) /\ (\A g \in Generations : referenced(g)' <=> referenced(g))
      BY <1>1, <1>2 DEF referenced, Bound
    <3> QED
      BY <1>1, <1>2, <1>4, <3>1 DEF retiredBar, R
  <2> QED
    BY <2>1, <2>2, <1>2 DEF Abstract!vars
<1>5. CASE ~reset /\ ~R(b.gen)
  <2>1. activeBar[x] = b /\ store[x] = None
    BY <1>1, <1>5 DEF activeBar, Retiring, R, StoreInv, retire, ControlInv
  <2>2. activeBar' = [s \in Slots |-> IF s \in {x} THEN None ELSE activeBar[s]]
    BY <1>1, <1>2, <1>3, <1>5 DEF activeBar, Retiring, R
  <2>3. retiredBar' = retiredBar \cup {activeBar[s].gen : s \in {x}}
    BY <1>1, <1>2, <1>5, <2>1 DEF retiredBar, R
  <2>4. Abstract!Retire({x})
    BY <1>1, <1>2, <2>1, <2>2, <2>3 DEF Abstract!Retire
  <2> QED
    BY <1>1, <2>4 DEF Abstract!Next
<1> QED
  BY <1>4, <1>5

(* An abandoned creation becomes unusable when its directory is marked.    *)
LEMMA MarkStep ==
    ASSUME InductiveInv, Mark
    PROVE  [Abstract!Next]_(Abstract!vars)
<1> USE NoneAssumption DEF InductiveInv, TypeOK, locals, disk, call
<1>1. cur \in Generations /\ ~referenced(cur)
  BY DEF Mark, ControlInv, CleanInv, Cleaning
<1>2. activeBar' = activeBar
  BY DEF activeBar, Mark, Retiring
<1>3. UNCHANGED <<binding, journal, reset, store>>
  BY DEF Mark
<1>4. CASE data[cur] = "absent"
  BY <1>2, <1>3, <1>4 DEF Mark, retiredBar, referenced, Bound, Abstract!vars
<1>5. CASE data[cur] # "absent"
  <2>1. data' = [data EXCEPT ![cur] = IF @ = "purged" THEN "purged" ELSE "marked"]
    BY <1>5 DEF Mark
  <2>2. retiredBar' = retiredBar \cup {cur}
    BY <1>1, <1>3, <2>1 DEF retiredBar, referenced, Bound
  <2>3. \A s \in Slots : activeBar[s] # None => activeBar[s].gen # cur
    BY <1>1 DEF activeBar, referenced, Bound
  <2>4. Abstract!Discard(cur)
    BY <1>2, <1>3, <2>2, <2>3 DEF Abstract!Discard
  <2> QED
    BY <1>1, <2>4 DEF Abstract!Next
<1> QED
  BY <1>4, <1>5

(* Writing the slot's binding is the commit point of a creation.           *)
LEMMA PublishStep ==
    ASSUME InductiveInv, Publish
    PROVE  [Abstract!Next]_(Abstract!vars)
<1> DEFINE x == args.slot
           b == [owner |-> args.owner, auth |-> args.auth, gen |-> cur]
<1> USE NoneAssumption DEF InductiveInv, TypeOK, locals, disk, call
<1>1. x \in Slots /\ b \in Binding /\ cur \in Generations
  BY DEF Publish, ControlInv, Args, Creating, Binding
<1>2. /\ ~reset /\ ~referenced(cur) /\ ~R(cur)
      /\ binding[x] = None /\ data[cur] = "live"
  BY DEF Publish, CreateInv, ResetInv, PastBarrier, ControlInv, Creating, R, JournalOf
<1>3. binding' = [binding EXCEPT ![x] = b] /\ UNCHANGED <<journal, reset, data, store>>
  BY DEF Publish
<1>4. activeBar' = [activeBar EXCEPT ![x] = b]
  BY <1>1, <1>2, <1>3 DEF activeBar, Retiring, R
<1>5. retiredBar' = retiredBar
  BY <1>1, <1>2, <1>3 DEF retiredBar
<1>6. activeBar[x] = None /\ cur \notin retiredBar
      /\ \A s \in Slots : activeBar[s] # None => activeBar[s].gen # cur
  BY <1>1, <1>2 DEF activeBar, retiredBar, R, referenced, Bound
<1>7. Abstract!Bind(x, b)
  BY <1>3, <1>4, <1>5, <1>6 DEF Abstract!Bind
<1>8. b \in Abstract!Binding
  BY <1>1 DEF Abstract!Binding, Binding
<1> QED
  BY <1>1, <1>7, <1>8 DEF Abstract!Next

(* A store is handed out, new (Commit) or of an existing generation.       *)
LEMMA OfferStep ==
    ASSUME InductiveInv, Commit \/ Decide
    PROVE  [Abstract!Next]_(Abstract!vars)
<1> DEFINE x == args.slot
<1> USE NoneAssumption DEF InductiveInv, TypeOK, locals, disk, call
<1>1. x \in Slots /\ args.owner \in Owners /\ args.auth \in Authorizations /\ ~reset
  BY DEF Commit, Decide, ControlInv, Args, Creating, ResetInv, PastBarrier
<1>2. activeBar' = activeBar /\ retiredBar' = retiredBar
  <2>1. UNCHANGED <<binding, reset, data>>
    BY DEF Commit, Decide
  <2>2. \A g \in Generations : R(g)' <=> R(g)
    BY DEF Commit, Decide, R, CreateInv
  <2> QED
    BY <2>1, <2>2, BarsUnchanged
<1>3. CASE store' = store
  BY <1>2, <1>3 DEF Abstract!vars
<1>4. CASE store' # store
  <2>1. /\ binding[x] # None /\ Mine(binding[x]) /\ ~Retiring(binding[x])
        /\ store' = [store EXCEPT ![x] = binding[x].gen]
    <3>1. CASE Commit
      BY <3>1, <1>1 DEF Commit, CreateInv, Bound, R, Retiring
    <3>2. CASE Decide
      BY <3>2, <1>4 DEF Decide
    <3> QED
      BY <3>1, <3>2
  <2>2. activeBar[x] = binding[x]
    BY <1>1, <2>1 DEF activeBar
  <2>3. Abstract!Offer(x, args.owner, args.auth)
    BY <1>2, <2>1, <2>2 DEF Abstract!Offer, Mine
  <2> QED
    BY <1>1, <2>3 DEF Abstract!Next
<1> QED
  BY <1>3, <1>4

(* Lifting the marker: nothing is bound any more.                          *)
LEMMA LiftStep ==
    ASSUME InductiveInv, EraseMarker
    PROVE  [Abstract!Next]_(Abstract!vars)
<1> USE NoneAssumption DEF InductiveInv, TypeOK, locals, disk, call
<1>1. \A s \in Slots : binding[s] = None
  BY DEF EraseMarker, ResetInv, Resetting, Cleaning
<1>2. UNCHANGED <<binding, journal, data, store>>
  BY DEF EraseMarker
<1>3. activeBar' = activeBar
  BY <1>1, <1>2 DEF activeBar
<1>4. retiredBar' = retiredBar
  BY <1>1, <1>2 DEF retiredBar, referenced, Bound
<1> QED
  BY <1>2, <1>3, <1>4 DEF Abstract!vars

(* The remaining steps of clean and finishReset change nothing a caller    *)
(* can tell: what they remove was retired when its record was written.     *)
LEMMA CleanupIsSilent ==
    ASSUME InductiveInv,
           Clean \/ Unbind \/ Purge \/ DropRecord \/ \E s \in Slots : ResetSlot(s)
    PROVE  UNCHANGED Abstract!vars
<1> USE NoneAssumption DEF InductiveInv, TypeOK, locals, disk, call
<1>0. \A s \in Slots : binding[s] # None => binding[s].gen \in Generations
  BY DEF Binding
<1>1. CASE Clean
  <2>1. \A g \in Generations : R(g)' <=> R(g)
    BY <1>1 DEF Clean, R, ControlInv
  <2> QED
    BY <1>1, <2>1, BarsUnchanged DEF Clean, Abstract!vars
<1>2. CASE Unbind
  <2>1. UNCHANGED <<journal, reset, data, store>> /\ cur \in Generations
    BY <1>2 DEF Unbind, ControlInv, Cleaning
  <2>2. CASE binding' = binding
    BY <2>1, <2>2, SilentDisk DEF Abstract!vars
  <2>3. CASE binding' # binding
    <3>1. PICK s \in Slots : Bound(s, cur) /\ binding' = [binding EXCEPT ![s] = None]
      BY <1>2, <2>3 DEF Unbind
    <3>2. R(cur)
      BY <1>2, <3>1 DEF Unbind, CleanInv, referenced
    <3>3. activeBar' = activeBar
      BY <2>1, <3>1, <3>2 DEF activeBar, Retiring, R, Bound
    <3>4. \A g \in Generations \ {cur} : referenced(g)' <=> referenced(g)
      BY <3>1 DEF referenced, Bound
    <3>5. retiredBar' = retiredBar
      BY <2>1, <3>2, <3>4 DEF retiredBar, R
    <3> QED
      BY <2>1, <3>3, <3>5 DEF Abstract!vars
  <2> QED
    BY <2>2, <2>3
<1>3. CASE Purge
  <2>1. /\ UNCHANGED <<binding, journal, reset, store>> /\ data[cur] \in {"marked", "purged"}
        /\ data' = [data EXCEPT ![cur] = "purged"] /\ cur \in Generations
    BY <1>3 DEF Purge, CleanInv, ControlInv, Cleaning
  <2>2. activeBar' = activeBar
    BY <2>1 DEF activeBar, Retiring
  <2>3. retiredBar' = retiredBar
    BY <2>1 DEF retiredBar, referenced, Bound
  <2> QED
    BY <2>1, <2>2, <2>3 DEF Abstract!vars
<1>4. CASE DropRecord
  <2>1. /\ UNCHANGED <<binding, reset, data, store>> /\ cur \in Generations
        /\ journal' = [journal EXCEPT ![cur] = None] /\ ~referenced(cur)
        /\ R(cur) => data[cur] = "purged"
    BY <1>4 DEF DropRecord, CleanInv, ControlInv, Cleaning, DiskInv
  <2>2. activeBar' = activeBar
    BY <2>1, <1>0 DEF activeBar, Retiring, referenced, Bound
  <2>3. retiredBar' = retiredBar
    BY <2>1 DEF retiredBar, referenced, Bound, R
  <2> QED
    BY <2>1, <2>2, <2>3 DEF Abstract!vars
<1>5. CASE \E s \in Slots : ResetSlot(s)
  <2>1. PICK s \in Slots : ResetSlot(s)
    BY <1>5
  <2>2. UNCHANGED <<binding, reset, data, store>> /\ reset
    BY <2>1 DEF ResetSlot, ResetInv, Resetting
  <2>3. activeBar' = activeBar
    BY <2>2 DEF activeBar
  <2>4. CASE binding[s] = None
    BY <2>1, <2>2, <2>3, <2>4, SilentDisk DEF ResetSlot, Abstract!vars
  <2>5. CASE binding[s] # None
    <3>1. /\ journal' = [journal EXCEPT ![binding[s].gen] =
                             JournalOf("R", binding[s].owner, binding[s].auth)]
          /\ referenced(binding[s].gen) /\ binding[s].gen \in Generations
      BY <2>1, <2>5, <1>0 DEF ResetSlot, referenced, Bound
    <3>2. retiredBar' = retiredBar
      BY <2>2, <3>1 DEF retiredBar, referenced, Bound
    <3> QED
      BY <2>2, <2>3, <3>2 DEF Abstract!vars
  <2> QED
    BY <2>4, <2>5
<1> QED
  BY <1>1, <1>2, <1>3, <1>4, <1>5

(* Recording a creation changes no R record: the identifier is new.        *)
LEMMA RecordStep ==
    ASSUME InductiveInv, NEW g \in Generations, Record(g)
    PROVE  UNCHANGED Abstract!vars
<1> USE NoneAssumption DEF InductiveInv, TypeOK, locals, disk, call
<1>1. UNCHANGED <<binding, reset, data, store>> /\ \A h \in Generations : R(h)' <=> R(h)
  BY DEF Record, R, JournalOf, NewId
<1> QED
  BY <1>1, BarsUnchanged DEF Abstract!vars

(* A directory under construction is not retired either.                   *)
LEMMA CreateDirectoryStep ==
    ASSUME InductiveInv, MakeDirectory \/ WriteIdentity
    PROVE  UNCHANGED Abstract!vars
<1> USE NoneAssumption DEF InductiveInv, TypeOK, locals, disk, call
<1>1. /\ UNCHANGED <<binding, journal, reset, store>> /\ cur \in Generations
      /\ data[cur] \notin {"marked", "purged"}
      /\ \E d \in {"bare", "live"} : data' = [data EXCEPT ![cur] = d]
  BY DEF MakeDirectory, WriteIdentity, ControlInv, CreateInv, Creating
<1>2. activeBar' = activeBar
  BY <1>1 DEF activeBar, Retiring
<1>3. retiredBar' = retiredBar
  BY <1>1 DEF retiredBar, referenced, Bound
<1> QED
  BY <1>1, <1>2, <1>3 DEF Abstract!vars

(* Steps between two disk operations, and exceptions.                      *)
LEMMA ControlStepSilent ==
    ASSUME InductiveInv,
           \/ Return \/ OpenIndex \/ WriteIndexIdentity \/ finishReset \/ ResetSweep
           \/ ResetDone \/ SweepDone \/ Throw
           \/ \E g \in Generations : SweepRecord(g)
    PROVE  UNCHANGED Abstract!vars
<1>1. UNCHANGED <<binding, journal, reset, data, store>>
  BY DEF Return, OpenIndex, WriteIndexIdentity, finishReset, ResetSweep, ResetDone, SweepDone,
     Throw, SweepRecord, CaughtInClean, CaughtInReset, Uncaught, disk, call, locals
<1> QED
  BY <1>1, SilentDisk DEF Abstract!vars

(* The registry, with its journals, failures and crashes, implements the   *)
(* abstract registry.                                                      *)
THEOREM RegistryImplementsSpec == Spec => ImplementsSpec
<1>1. Init => Abstract!Init
  BY DEF Init, Abstract!Init, activeBar, retiredBar, referenced, Bound
<1>2. InductiveInv /\ [Next]_vars => [Abstract!Next]_(Abstract!vars)
  <2> SUFFICES ASSUME InductiveInv, [Next]_vars
               PROVE  [Abstract!Next]_(Abstract!vars)
    OBVIOUS
  <2>1. CASE UNCHANGED vars
    BY <2>1, SilentDisk DEF vars, Abstract!vars
  <2>2. CASE Next
    BY <2>2, CallStep, MarkerStep, RetireStep, MarkStep, PublishStep, OfferStep, LiftStep,
       CleanupIsSilent, RecordStep, CreateDirectoryStep, ControlStepSilent DEF Next, Step
  <2> QED
    BY <2>1, <2>2
<1> QED
  BY <1>1, <1>2, RegistryInvariant, PTL DEF Spec, ImplementsSpec, Abstract!Spec
=============================================================================
