------------------------- MODULE PreviewSandboxProofs -------------------------
(***************************************************************************)
(* Theorems about PreviewSandbox, for any sandboxes, calls, tabs and faults.*)
(***************************************************************************)
EXTENDS PreviewSandbox, TLAPS

-----------------------------------------------------------------------------
(* The inductive invariant.                                                *)

\* The call whose promise is in warmingSandboxes is the one that acquires.
Exclusive == \A k \in Call : at[k] \in Acquiring <=> warming = k

\* Where a call does something to the sandbox it holds, it holds one.
HandThere ==
  \A k \in Call :
    at[k] \in {"connect", "forget", "ensure", "save", "boot", "unsave", "scrapNew", "use",
              "scrap", "probe", "decide", "kill", "pause"} => hand[k] \in Vm

\* A sandbox that is known was created.
Created ==
  \A v \in Vm : vm[v] = "none" => live # v /\ record # v /\ \A k \in Call : hand[k] # v

Out(v) == ~Exists(v) \/ v \in lost

\* The record goes, or is overwritten, only when its sandbox is no more or lost ...
Given ==
  \A k \in Call : at[k] \in {"forget", "unrecord"} /\ hand[k] # None => Out(hand[k])
Clear ==
  \A k \in Call : at[k] \in {"create", "save"} => record = None \/ Out(record)
Same ==
  \A k \in Call : at[k] \in {"connect", "forget"} /\ goal[k] \in {"prewarm", "create"} =>
    record \in {hand[k], None}

\* A stale record is resumed for a reopened tab only.
Opening == \A k \in Call : at[k] \in {"probe", "read", "decide"} => Opens(k)

\* ... so that a sandbox that exists is recorded, or about to be, or to be killed.
Recorded ==
  \A v \in Vm : Exists(v) /\ v \notin lost =>
    record = v \/ \E k \in Call : hand[k] = v /\ at[k] \in {"save", "scrapNew"}

IInv == /\ TypeOK /\ Exclusive /\ HandThere /\ Created
        /\ Given /\ Clear /\ Same /\ Opening /\ Recorded

-----------------------------------------------------------------------------
(* Every step preserves it.                                                *)

LEMMA TypePreserved ==
  ASSUME TypeOK, HandThere, [Next]_vars
  PROVE  TypeOK'
<1>1. ASSUME NEW k \in Call, Load(k) PROVE TypeOK'
  BY <1>1, ConstantsAssumption DEF Load, Goto, Hold, TypeOK, Places, Acquiring, HandThere,
      calls, tabs
<1>2. ASSUME NEW k \in Call, Resume(k) PROVE TypeOK'
  BY <1>2, ConstantsAssumption DEF Resume, Goto, Exists, TypeOK, Places, Acquiring,
      HandThere, calls, tabs
<1>3. ASSUME NEW k \in Call, ResumeFails(k) PROVE TypeOK'
  BY <1>3, ConstantsAssumption DEF ResumeFails, Goto, Exists, TypeOK, Places, Acquiring,
      HandThere, calls, tabs
<1>4. ASSUME NEW k \in Call, Forget(k) PROVE TypeOK'
  BY <1>4, ConstantsAssumption DEF Forget, Settle, Goto, Hold, Unrecord, TypeOK, Places,
      Acquiring, HandThere, calls, tabs
<1>5. ASSUME NEW k \in Call, Ensured(k) PROVE TypeOK'
  BY <1>5, ConstantsAssumption DEF Ensured, Settle, Answers, TypeOK, Places, Acquiring,
      HandThere, calls, tabs
<1>6. ASSUME NEW k \in Call, EnsureFails(k) PROVE TypeOK'
  BY <1>6, ConstantsAssumption DEF EnsureFails, Settle, Answers, MayFail, TypeOK, Places,
      Acquiring, HandThere, calls, tabs
<1>7. ASSUME NEW k \in Call, CreateFails(k) PROVE TypeOK'
  BY <1>7, ConstantsAssumption DEF CreateFails, Settle, TypeOK, Places, Acquiring,
      HandThere, calls, tabs
<1>8. ASSUME NEW k \in Call, Save(k) PROVE TypeOK'
  BY <1>8, ConstantsAssumption DEF Save, Goto, TypeOK, Places, Acquiring, HandThere, calls, tabs
<1>9. ASSUME NEW k \in Call, Boot(k) PROVE TypeOK'
  BY <1>9, ConstantsAssumption DEF Boot, Settle, TypeOK, Places, Acquiring, HandThere,
      calls, tabs
<1>10. ASSUME NEW k \in Call, BootFails(k) PROVE TypeOK'
  BY <1>10, ConstantsAssumption DEF BootFails, Goto, TypeOK, Places, Acquiring, HandThere,
      calls, tabs
<1>11. ASSUME NEW k \in Call, Unsave(k) PROVE TypeOK'
  BY <1>11, ConstantsAssumption DEF Unsave, Goto, Unrecord, TypeOK, Places, Acquiring,
      HandThere, calls, tabs
<1>12. ASSUME NEW k \in Call, ScrapNew(k) PROVE TypeOK'
  BY <1>12, ConstantsAssumption DEF ScrapNew, Settle, KillVm, TypeOK, Places, Acquiring,
      HandThere, calls, tabs
<1>13. ASSUME NEW k \in Call, NEW v \in Vm, Create(k, v) PROVE TypeOK'
  BY <1>13, ConstantsAssumption DEF Create, Goto, Hold, TypeOK, Places, Acquiring,
      HandThere, calls, tabs
<1>14. ASSUME NEW k \in Call, GetOrAcquire(k) PROVE TypeOK'
  BY <1>14, ConstantsAssumption DEF GetOrAcquire, Goto, Hold, TypeOK, Places, Acquiring,
      HandThere, calls, tabs
<1>15. ASSUME NEW k \in Call, GetLive(k) PROVE TypeOK'
  BY <1>15, ConstantsAssumption DEF GetLive, End, Goto, Hold, TypeOK, Places, Acquiring,
      HandThere, calls, tabs
<1>16. ASSUME NEW k \in Call, Acquired(k) PROVE TypeOK'
  BY <1>16, ConstantsAssumption DEF Acquired, End, Goto, Hold, TypeOK, Places, Acquiring,
      HandThere, calls, tabs
<1>17. ASSUME NEW k \in Call, AcquireFailed(k) PROVE TypeOK'
  BY <1>17, ConstantsAssumption DEF AcquireFailed, End, Goto, Hold, TypeOK, Places,
      Acquiring, HandThere, calls, tabs
<1>18. ASSUME NEW k \in Call, Use(k) PROVE TypeOK'
  BY <1>18, ConstantsAssumption DEF Use, End, Goto, Hold, TypeOK, Places, Acquiring,
      HandThere, calls, tabs
<1>19. ASSUME NEW k \in Call, UseFails(k) PROVE TypeOK'
  BY <1>19, ConstantsAssumption DEF UseFails, End, Goto, Hold, TypeOK, Places, Acquiring,
      HandThere, calls, tabs
<1>20. ASSUME NEW k \in Call, Scrap(k) PROVE TypeOK'
  BY <1>20, ConstantsAssumption DEF Scrap, End, Goto, Hold, KillVm, TypeOK, Places,
      Acquiring, HandThere, calls, tabs
<1>21. ASSUME NEW k \in Call, Look(k) PROVE TypeOK'
  BY <1>21, ConstantsAssumption DEF Look, Goto, Hold, Opens, TypeOK, Places, Acquiring,
      HandThere, calls, tabs
<1>22. ASSUME NEW k \in Call, Probe(k) PROVE TypeOK'
  BY <1>22, ConstantsAssumption DEF Probe, End, Goto, Hold, TypeOK, Places, Acquiring,
      HandThere, calls, tabs
<1>23. ASSUME NEW k \in Call, ProbeFails(k) PROVE TypeOK'
  BY <1>23, ConstantsAssumption DEF ProbeFails, Goto, Hold, TypeOK, Places, Acquiring,
      HandThere, calls, tabs
<1>24. ASSUME NEW k \in Call, ReadRecord(k) PROVE TypeOK'
  BY <1>24, ConstantsAssumption DEF ReadRecord, Goto, Hold, TypeOK, Places, Acquiring,
      HandThere, calls, tabs
<1>25. ASSUME NEW k \in Call, NoRecord(k) PROVE TypeOK'
  <2> USE <1>25, ConstantsAssumption DEF NoRecord, End, Goto, Hold, NoPreview, FirstPlace,
             TypeOK, Places, Acquiring, calls, tabs
  <2>1. at' \in [Call -> Places]
    OBVIOUS
  <2>2. hand' \in [Call -> Vm \cup {None}]
    OBVIOUS
  <2>3. goal' \in [Call -> AllGoals \cup {"restore", "pause"}]
    BY DEF AllGoals
  <2> QED BY <2>1, <2>2, <2>3
<1>26. ASSUME NEW k \in Call, Decide(k) PROVE TypeOK'
  BY <1>26, ConstantsAssumption DEF Decide, Goto, Hold, TypeOK, Places, Acquiring,
      HandThere, calls, tabs
<1>27. ASSUME NEW k \in Call, OpenFailed(k) PROVE TypeOK'
  <2> USE <1>27, ConstantsAssumption DEF OpenFailed, End, Goto, Hold, NoPreview, FirstPlace,
             TypeOK, Places, Acquiring, calls, tabs
  <2>1. at' \in [Call -> Places]
    OBVIOUS
  <2>2. hand' \in [Call -> Vm \cup {None}]
    OBVIOUS
  <2>3. goal' \in [Call -> AllGoals \cup {"restore", "pause"}]
    BY DEF AllGoals
  <2> QED BY <2>1, <2>2, <2>3
<1>28. ASSUME NEW k \in Call, KillLive(k) PROVE TypeOK'
  BY <1>28, ConstantsAssumption DEF KillLive, Goto, KillVm, TypeOK, Places, Acquiring,
      HandThere, calls, tabs
<1>29. ASSUME NEW k \in Call, KillRecord(k) PROVE TypeOK'
  BY <1>29, ConstantsAssumption DEF KillRecord, End, Goto, Hold, Unrecord, TypeOK, Places,
      Acquiring, HandThere, calls, tabs
<1>30. ASSUME NEW k \in Call, Pause(k) PROVE TypeOK'
  BY <1>30, ConstantsAssumption DEF Pause, End, Goto, Hold, Answers, TypeOK, Places,
      Acquiring, HandThere, calls, tabs
<1>31. ASSUME NEW k \in Call, PauseFails(k) PROVE TypeOK'
  BY <1>31, ConstantsAssumption DEF PauseFails, End, Goto, Hold, TypeOK, Places, Acquiring,
      HandThere, calls, tabs
<1>32. ASSUME NEW k \in Call, Prewarm(k) PROVE TypeOK'
  BY <1>32, ConstantsAssumption DEF Prewarm, Goto, TypeOK, Places, Acquiring, HandThere,
      AllGoals, calls, tabs
<1>33. ASSUME NEW k \in Call, Kill(k) PROVE TypeOK'
  BY <1>33, ConstantsAssumption DEF Kill, Goto, Hold, TypeOK, Places, Acquiring, HandThere,
      AllGoals, calls, tabs
<1>34. ASSUME NEW k \in Call, TimerFires(k) PROVE TypeOK'
  <2> USE <1>34, ConstantsAssumption DEF TimerFires, End, Goto, Hold,
             TypeOK, Places, Acquiring, calls, tabs
  <2>1. at' \in [Call -> Places]
    OBVIOUS
  <2>2. hand' \in [Call -> Vm \cup {None}]
    OBVIOUS
  <2>3. goal' \in [Call -> AllGoals \cup {"restore", "pause"}]
    BY DEF AllGoals
  <2> QED BY <2>1, <2>2, <2>3
<1>35. ASSUME NEW k \in Call, NEW g \in Goals, Ask(k, g) PROVE TypeOK'
  BY <1>35, ConstantsAssumption DEF Ask, Goto, FirstPlace, TypeOK, Places, Acquiring,
      HandThere, AllGoals, calls, tabs
<1>36. ASSUME NEW t \in Tab, NEW k \in Call, Arrive(t, k) PROVE TypeOK'
  BY <1>36, ConstantsAssumption DEF Arrive, Goto, FirstPlace, TypeOK, Places, Acquiring,
      HandThere, AllGoals, calls, tabs
<1>37. ASSUME NEW t \in Tab, Connect(t) PROVE TypeOK'
  BY <1>37, ConstantsAssumption DEF Connect, TypeOK, Places, Acquiring, HandThere, calls, tabs
<1>38. ASSUME NEW t \in Tab, ArriveFails(t) PROVE TypeOK'
  BY <1>38, ConstantsAssumption DEF ArriveFails, TypeOK, Places, Acquiring, HandThere,
      calls, tabs
<1>39. ASSUME NEW t \in Tab, Disconnect(t) PROVE TypeOK'
  BY <1>39, ConstantsAssumption DEF Disconnect, TypeOK, Places, Acquiring, HandThere, calls,
      tabs
<1>40. ASSUME NEW t \in Tab, Leave(t) PROVE TypeOK'
  BY <1>40, ConstantsAssumption DEF Leave, TypeOK, Places, Acquiring, HandThere, calls, tabs
<1>41. ASSUME NEW t \in Tab, LeaveFails(t) PROVE TypeOK'
  BY <1>41, ConstantsAssumption DEF LeaveFails, TypeOK, Places, Acquiring, HandThere, calls,
      tabs
<1>42. ASSUME NEW v \in Vm, Expire(v) PROVE TypeOK'
  BY <1>42, ConstantsAssumption DEF Expire, Exists, TypeOK, Places, Acquiring, HandThere,
      calls, tabs
<1>43. CASE Restart
  BY <1>43, ConstantsAssumption DEF Restart, Exists, TypeOK, Places, Acquiring, HandThere,
      calls, tabs
<1>44. CASE UNCHANGED vars
  BY <1>44, ConstantsAssumption DEF vars, TypeOK, Places, Acquiring, HandThere, calls, tabs
<1> QED
  BY <1>1, <1>2, <1>3, <1>4, <1>5, <1>6, <1>7, <1>8, <1>9, <1>10, <1>11, <1>12, <1>13,
      <1>14, <1>15, <1>16, <1>17, <1>18, <1>19, <1>20, <1>21, <1>22, <1>23, <1>24, <1>25,
      <1>26, <1>27, <1>28, <1>29, <1>30, <1>31, <1>32, <1>33, <1>34, <1>35, <1>36, <1>37,
      <1>38, <1>39, <1>40, <1>41, <1>42, <1>43, <1>44 DEF Next, Acquire, Continue

LEMMA ExclusivePreserved ==
  ASSUME TypeOK, Exclusive, [Next]_vars
  PROVE  Exclusive'
<1>1. ASSUME NEW k \in Call, Load(k) PROVE Exclusive'
  BY <1>1, ConstantsAssumption DEF Load, Goto, Hold, TypeOK, Exclusive, Acquiring, calls, tabs
<1>2. ASSUME NEW k \in Call, Resume(k) PROVE Exclusive'
  BY <1>2, ConstantsAssumption DEF Resume, Goto, Exists, TypeOK, Exclusive, Acquiring,
      calls, tabs
<1>3. ASSUME NEW k \in Call, ResumeFails(k) PROVE Exclusive'
  BY <1>3, ConstantsAssumption DEF ResumeFails, Goto, Exists, TypeOK, Exclusive, Acquiring,
      calls, tabs
<1>4. ASSUME NEW k \in Call, Forget(k) PROVE Exclusive'
  BY <1>4, ConstantsAssumption DEF Forget, Settle, Goto, Hold, Unrecord, TypeOK, Exclusive,
      Acquiring, calls, tabs
<1>5. ASSUME NEW k \in Call, Ensured(k) PROVE Exclusive'
  BY <1>5, ConstantsAssumption DEF Ensured, Settle, Answers, TypeOK, Exclusive, Acquiring,
      calls, tabs
<1>6. ASSUME NEW k \in Call, EnsureFails(k) PROVE Exclusive'
  BY <1>6, ConstantsAssumption DEF EnsureFails, Settle, Answers, MayFail, TypeOK, Exclusive,
      Acquiring, calls, tabs
<1>7. ASSUME NEW k \in Call, CreateFails(k) PROVE Exclusive'
  BY <1>7, ConstantsAssumption DEF CreateFails, Settle, TypeOK, Exclusive, Acquiring, calls,
      tabs
<1>8. ASSUME NEW k \in Call, Save(k) PROVE Exclusive'
  BY <1>8, ConstantsAssumption DEF Save, Goto, TypeOK, Exclusive, Acquiring, calls, tabs
<1>9. ASSUME NEW k \in Call, Boot(k) PROVE Exclusive'
  BY <1>9, ConstantsAssumption DEF Boot, Settle, TypeOK, Exclusive, Acquiring, calls, tabs
<1>10. ASSUME NEW k \in Call, BootFails(k) PROVE Exclusive'
  BY <1>10, ConstantsAssumption DEF BootFails, Goto, TypeOK, Exclusive, Acquiring, calls, tabs
<1>11. ASSUME NEW k \in Call, Unsave(k) PROVE Exclusive'
  BY <1>11, ConstantsAssumption DEF Unsave, Goto, Unrecord, TypeOK, Exclusive, Acquiring,
      calls, tabs
<1>12. ASSUME NEW k \in Call, ScrapNew(k) PROVE Exclusive'
  BY <1>12, ConstantsAssumption DEF ScrapNew, Settle, KillVm, TypeOK, Exclusive, Acquiring,
      calls, tabs
<1>13. ASSUME NEW k \in Call, NEW v \in Vm, Create(k, v) PROVE Exclusive'
  BY <1>13, ConstantsAssumption DEF Create, Goto, Hold, TypeOK, Exclusive, Acquiring, calls,
      tabs
<1>14. ASSUME NEW k \in Call, GetOrAcquire(k) PROVE Exclusive'
  BY <1>14, ConstantsAssumption DEF GetOrAcquire, Goto, Hold, TypeOK, Exclusive, Acquiring,
      calls, tabs
<1>15. ASSUME NEW k \in Call, GetLive(k) PROVE Exclusive'
  BY <1>15, ConstantsAssumption DEF GetLive, End, Goto, Hold, TypeOK, Exclusive, Acquiring,
      calls, tabs
<1>16. ASSUME NEW k \in Call, Acquired(k) PROVE Exclusive'
  BY <1>16, ConstantsAssumption DEF Acquired, End, Goto, Hold, TypeOK, Exclusive, Acquiring,
      calls, tabs
<1>17. ASSUME NEW k \in Call, AcquireFailed(k) PROVE Exclusive'
  BY <1>17, ConstantsAssumption DEF AcquireFailed, End, Goto, Hold, TypeOK, Exclusive,
      Acquiring, calls, tabs
<1>18. ASSUME NEW k \in Call, Use(k) PROVE Exclusive'
  BY <1>18, ConstantsAssumption DEF Use, End, Goto, Hold, TypeOK, Exclusive, Acquiring,
      calls, tabs
<1>19. ASSUME NEW k \in Call, UseFails(k) PROVE Exclusive'
  BY <1>19, ConstantsAssumption DEF UseFails, End, Goto, Hold, TypeOK, Exclusive, Acquiring,
      calls, tabs
<1>20. ASSUME NEW k \in Call, Scrap(k) PROVE Exclusive'
  BY <1>20, ConstantsAssumption DEF Scrap, End, Goto, Hold, KillVm, TypeOK, Exclusive,
      Acquiring, calls, tabs
<1>21. ASSUME NEW k \in Call, Look(k) PROVE Exclusive'
  BY <1>21, ConstantsAssumption DEF Look, Goto, Hold, Opens, TypeOK, Exclusive, Acquiring,
      calls, tabs
<1>22. ASSUME NEW k \in Call, Probe(k) PROVE Exclusive'
  BY <1>22, ConstantsAssumption DEF Probe, End, Goto, Hold, TypeOK, Exclusive, Acquiring,
      calls, tabs
<1>23. ASSUME NEW k \in Call, ProbeFails(k) PROVE Exclusive'
  BY <1>23, ConstantsAssumption DEF ProbeFails, Goto, Hold, TypeOK, Exclusive, Acquiring,
      calls, tabs
<1>24. ASSUME NEW k \in Call, ReadRecord(k) PROVE Exclusive'
  BY <1>24, ConstantsAssumption DEF ReadRecord, Goto, Hold, TypeOK, Exclusive, Acquiring,
      calls, tabs
<1>25. ASSUME NEW k \in Call, NoRecord(k) PROVE Exclusive'
  BY <1>25, ConstantsAssumption DEF NoRecord, End, Goto, Hold, NoPreview, FirstPlace,
      TypeOK, Exclusive, Acquiring, calls, tabs
<1>26. ASSUME NEW k \in Call, Decide(k) PROVE Exclusive'
  <2>1. CASE warming # None
    BY <1>26, <2>1, ConstantsAssumption DEF Decide, Goto, Exclusive, Acquiring, TypeOK
  <2>2. CASE warming = None
    <3>1. /\ warming' = k
          /\ at' = [at EXCEPT ![k] = "connect"]
      BY <1>26, <2>2 DEF Decide, Goto
    <3>2. \A j \in Call : at[j] \notin Acquiring
      BY <2>2, ConstantsAssumption DEF Exclusive
    <3> QED BY <3>1, <3>2 DEF Exclusive, Acquiring, TypeOK
  <2> QED BY <2>1, <2>2
<1>27. ASSUME NEW k \in Call, OpenFailed(k) PROVE Exclusive'
  BY <1>27, ConstantsAssumption DEF OpenFailed, End, Goto, Hold, NoPreview, FirstPlace,
      Opens, TypeOK, Exclusive, Acquiring, calls, tabs
<1>28. ASSUME NEW k \in Call, KillLive(k) PROVE Exclusive'
  BY <1>28, ConstantsAssumption DEF KillLive, Goto, KillVm, TypeOK, Exclusive, Acquiring,
      calls, tabs
<1>29. ASSUME NEW k \in Call, KillRecord(k) PROVE Exclusive'
  BY <1>29, ConstantsAssumption DEF KillRecord, End, Goto, Hold, Unrecord, TypeOK,
      Exclusive, Acquiring, calls, tabs
<1>30. ASSUME NEW k \in Call, Pause(k) PROVE Exclusive'
  BY <1>30, ConstantsAssumption DEF Pause, End, Goto, Hold, Answers, TypeOK, Exclusive,
      Acquiring, calls, tabs
<1>31. ASSUME NEW k \in Call, PauseFails(k) PROVE Exclusive'
  BY <1>31, ConstantsAssumption DEF PauseFails, End, Goto, Hold, TypeOK, Exclusive,
      Acquiring, calls, tabs
<1>32. ASSUME NEW k \in Call, Prewarm(k) PROVE Exclusive'
  BY <1>32, ConstantsAssumption DEF Prewarm, Goto, TypeOK, Exclusive, Acquiring, calls, tabs
<1>33. ASSUME NEW k \in Call, Kill(k) PROVE Exclusive'
  BY <1>33, ConstantsAssumption DEF Kill, Goto, Hold, TypeOK, Exclusive, Acquiring, calls, tabs
<1>34. ASSUME NEW k \in Call, TimerFires(k) PROVE Exclusive'
  BY <1>34, ConstantsAssumption DEF TimerFires, Goto, Hold, TypeOK, Exclusive, Acquiring,
      calls, tabs
<1>35. ASSUME NEW k \in Call, NEW g \in Goals, Ask(k, g) PROVE Exclusive'
  BY <1>35, ConstantsAssumption DEF Ask, Goto, FirstPlace, TypeOK, Exclusive, Acquiring,
      calls, tabs
<1>36. ASSUME NEW t \in Tab, NEW k \in Call, Arrive(t, k) PROVE Exclusive'
  BY <1>36, ConstantsAssumption DEF Arrive, Goto, FirstPlace, TypeOK, Exclusive, Acquiring,
      calls, tabs
<1>37. ASSUME NEW t \in Tab, Connect(t) PROVE Exclusive'
  BY <1>37, ConstantsAssumption DEF Connect, TypeOK, Exclusive, Acquiring, calls, tabs
<1>38. ASSUME NEW t \in Tab, ArriveFails(t) PROVE Exclusive'
  BY <1>38, ConstantsAssumption DEF ArriveFails, TypeOK, Exclusive, Acquiring, calls, tabs
<1>39. ASSUME NEW t \in Tab, Disconnect(t) PROVE Exclusive'
  BY <1>39, ConstantsAssumption DEF Disconnect, TypeOK, Exclusive, Acquiring, calls, tabs
<1>40. ASSUME NEW t \in Tab, Leave(t) PROVE Exclusive'
  BY <1>40, ConstantsAssumption DEF Leave, TypeOK, Exclusive, Acquiring, calls, tabs
<1>41. ASSUME NEW t \in Tab, LeaveFails(t) PROVE Exclusive'
  BY <1>41, ConstantsAssumption DEF LeaveFails, TypeOK, Exclusive, Acquiring, calls, tabs
<1>42. ASSUME NEW v \in Vm, Expire(v) PROVE Exclusive'
  BY <1>42, ConstantsAssumption DEF Expire, Exists, TypeOK, Exclusive, Acquiring, calls, tabs
<1>43. CASE Restart
  BY <1>43, ConstantsAssumption DEF Restart, Exists, TypeOK, Exclusive, Acquiring, calls, tabs
<1>44. CASE UNCHANGED vars
  BY <1>44, ConstantsAssumption DEF vars, TypeOK, Exclusive, Acquiring, calls, tabs
<1> QED
  BY <1>1, <1>2, <1>3, <1>4, <1>5, <1>6, <1>7, <1>8, <1>9, <1>10, <1>11, <1>12, <1>13,
      <1>14, <1>15, <1>16, <1>17, <1>18, <1>19, <1>20, <1>21, <1>22, <1>23, <1>24, <1>25,
      <1>26, <1>27, <1>28, <1>29, <1>30, <1>31, <1>32, <1>33, <1>34, <1>35, <1>36, <1>37,
      <1>38, <1>39, <1>40, <1>41, <1>42, <1>43, <1>44 DEF Next, Acquire, Continue

LEMMA HandTherePreserved ==
  ASSUME TypeOK, Exclusive, HandThere, [Next]_vars
  PROVE  HandThere'
<1>1. ASSUME NEW k \in Call, Load(k) PROVE HandThere'
  BY <1>1, ConstantsAssumption DEF Load, Goto, Hold, TypeOK, HandThere, Exclusive,
      Acquiring, calls, tabs
<1>2. ASSUME NEW k \in Call, Resume(k) PROVE HandThere'
  BY <1>2, ConstantsAssumption DEF Resume, Goto, Exists, TypeOK, HandThere, Exclusive,
      Acquiring, calls, tabs
<1>3. ASSUME NEW k \in Call, ResumeFails(k) PROVE HandThere'
  BY <1>3, ConstantsAssumption DEF ResumeFails, Goto, Exists, TypeOK, HandThere, Exclusive,
      Acquiring, calls, tabs
<1>4. ASSUME NEW k \in Call, Forget(k) PROVE HandThere'
  BY <1>4, ConstantsAssumption DEF Forget, Settle, Goto, Hold, Unrecord, TypeOK, HandThere,
      Exclusive, Acquiring, calls, tabs
<1>5. ASSUME NEW k \in Call, Ensured(k) PROVE HandThere'
  BY <1>5, ConstantsAssumption DEF Ensured, Settle, Answers, TypeOK, HandThere, Exclusive,
      Acquiring, calls, tabs
<1>6. ASSUME NEW k \in Call, EnsureFails(k) PROVE HandThere'
  BY <1>6, ConstantsAssumption DEF EnsureFails, Settle, Answers, MayFail, TypeOK, HandThere,
      Exclusive, Acquiring, calls, tabs
<1>7. ASSUME NEW k \in Call, CreateFails(k) PROVE HandThere'
  BY <1>7, ConstantsAssumption DEF CreateFails, Settle, TypeOK, HandThere, Exclusive,
      Acquiring, calls, tabs
<1>8. ASSUME NEW k \in Call, Save(k) PROVE HandThere'
  BY <1>8, ConstantsAssumption DEF Save, Goto, TypeOK, HandThere, Exclusive, Acquiring,
      calls, tabs
<1>9. ASSUME NEW k \in Call, Boot(k) PROVE HandThere'
  BY <1>9, ConstantsAssumption DEF Boot, Settle, TypeOK, HandThere, Exclusive, Acquiring,
      calls, tabs
<1>10. ASSUME NEW k \in Call, BootFails(k) PROVE HandThere'
  BY <1>10, ConstantsAssumption DEF BootFails, Goto, TypeOK, HandThere, Exclusive,
      Acquiring, calls, tabs
<1>11. ASSUME NEW k \in Call, Unsave(k) PROVE HandThere'
  BY <1>11, ConstantsAssumption DEF Unsave, Goto, Unrecord, TypeOK, HandThere, Exclusive,
      Acquiring, calls, tabs
<1>12. ASSUME NEW k \in Call, ScrapNew(k) PROVE HandThere'
  BY <1>12, ConstantsAssumption DEF ScrapNew, Settle, KillVm, TypeOK, HandThere, Exclusive,
      Acquiring, calls, tabs
<1>13. ASSUME NEW k \in Call, NEW v \in Vm, Create(k, v) PROVE HandThere'
  BY <1>13, ConstantsAssumption DEF Create, Goto, Hold, TypeOK, HandThere, Exclusive,
      Acquiring, calls, tabs
<1>14. ASSUME NEW k \in Call, GetOrAcquire(k) PROVE HandThere'
  BY <1>14, ConstantsAssumption DEF GetOrAcquire, Goto, Hold, TypeOK, HandThere, Exclusive,
      Acquiring, calls, tabs
<1>15. ASSUME NEW k \in Call, GetLive(k) PROVE HandThere'
  BY <1>15, ConstantsAssumption DEF GetLive, End, Goto, Hold, TypeOK, HandThere, Exclusive,
      Acquiring, calls, tabs
<1>16. ASSUME NEW k \in Call, Acquired(k) PROVE HandThere'
  BY <1>16, ConstantsAssumption DEF Acquired, End, Goto, Hold, TypeOK, HandThere, Exclusive,
      Acquiring, calls, tabs
<1>17. ASSUME NEW k \in Call, AcquireFailed(k) PROVE HandThere'
  BY <1>17, ConstantsAssumption DEF AcquireFailed, End, Goto, Hold, TypeOK, HandThere,
      Exclusive, Acquiring, calls, tabs
<1>18. ASSUME NEW k \in Call, Use(k) PROVE HandThere'
  BY <1>18, ConstantsAssumption DEF Use, End, Goto, Hold, TypeOK, HandThere, Exclusive,
      Acquiring, calls, tabs
<1>19. ASSUME NEW k \in Call, UseFails(k) PROVE HandThere'
  BY <1>19, ConstantsAssumption DEF UseFails, End, Goto, Hold, TypeOK, HandThere, Exclusive,
      Acquiring, calls, tabs
<1>20. ASSUME NEW k \in Call, Scrap(k) PROVE HandThere'
  BY <1>20, ConstantsAssumption DEF Scrap, End, Goto, Hold, KillVm, TypeOK, HandThere,
      Exclusive, Acquiring, calls, tabs
<1>21. ASSUME NEW k \in Call, Look(k) PROVE HandThere'
  BY <1>21, ConstantsAssumption DEF Look, Goto, Hold, Opens, TypeOK, HandThere, Exclusive,
      Acquiring, calls, tabs
<1>22. ASSUME NEW k \in Call, Probe(k) PROVE HandThere'
  BY <1>22, ConstantsAssumption DEF Probe, End, Goto, Hold, TypeOK, HandThere, Exclusive,
      Acquiring, calls, tabs
<1>23. ASSUME NEW k \in Call, ProbeFails(k) PROVE HandThere'
  BY <1>23, ConstantsAssumption DEF ProbeFails, Goto, Hold, TypeOK, HandThere, Exclusive,
      Acquiring, calls, tabs
<1>24. ASSUME NEW k \in Call, ReadRecord(k) PROVE HandThere'
  BY <1>24, ConstantsAssumption DEF ReadRecord, Goto, Hold, TypeOK, HandThere, Exclusive,
      Acquiring, calls, tabs
<1>25. ASSUME NEW k \in Call, NoRecord(k) PROVE HandThere'
  BY <1>25, ConstantsAssumption DEF NoRecord, End, Goto, Hold, NoPreview, FirstPlace,
      TypeOK, HandThere, Exclusive, Acquiring, calls, tabs
<1>26. ASSUME NEW k \in Call, Decide(k) PROVE HandThere'
  BY <1>26, ConstantsAssumption DEF Decide, Goto, Hold, TypeOK, HandThere, Exclusive,
      Acquiring, calls, tabs
<1>27. ASSUME NEW k \in Call, OpenFailed(k) PROVE HandThere'
  BY <1>27, ConstantsAssumption DEF OpenFailed, End, Goto, Hold, NoPreview, FirstPlace,
      Opens, TypeOK, HandThere, Exclusive, Acquiring, calls, tabs
<1>28. ASSUME NEW k \in Call, KillLive(k) PROVE HandThere'
  BY <1>28, ConstantsAssumption DEF KillLive, Goto, KillVm, TypeOK, HandThere, Exclusive,
      Acquiring, calls, tabs
<1>29. ASSUME NEW k \in Call, KillRecord(k) PROVE HandThere'
  BY <1>29, ConstantsAssumption DEF KillRecord, End, Goto, Hold, Unrecord, TypeOK,
      HandThere, Exclusive, Acquiring, calls, tabs
<1>30. ASSUME NEW k \in Call, Pause(k) PROVE HandThere'
  BY <1>30, ConstantsAssumption DEF Pause, End, Goto, Hold, Answers, TypeOK, HandThere,
      Exclusive, Acquiring, calls, tabs
<1>31. ASSUME NEW k \in Call, PauseFails(k) PROVE HandThere'
  BY <1>31, ConstantsAssumption DEF PauseFails, End, Goto, Hold, TypeOK, HandThere,
      Exclusive, Acquiring, calls, tabs
<1>32. ASSUME NEW k \in Call, Prewarm(k) PROVE HandThere'
  BY <1>32, ConstantsAssumption DEF Prewarm, Goto, TypeOK, HandThere, Exclusive, Acquiring,
      calls, tabs
<1>33. ASSUME NEW k \in Call, Kill(k) PROVE HandThere'
  BY <1>33, ConstantsAssumption DEF Kill, Goto, Hold, TypeOK, HandThere, Exclusive,
      Acquiring, calls, tabs
<1>34. ASSUME NEW k \in Call, TimerFires(k) PROVE HandThere'
  BY <1>34, ConstantsAssumption DEF TimerFires, Goto, Hold, TypeOK, HandThere, Exclusive,
      Acquiring, calls, tabs
<1>35. ASSUME NEW k \in Call, NEW g \in Goals, Ask(k, g) PROVE HandThere'
  BY <1>35, ConstantsAssumption DEF Ask, Goto, FirstPlace, TypeOK, HandThere, Exclusive,
      Acquiring, calls, tabs
<1>36. ASSUME NEW t \in Tab, NEW k \in Call, Arrive(t, k) PROVE HandThere'
  BY <1>36, ConstantsAssumption DEF Arrive, Goto, FirstPlace, TypeOK, HandThere, Exclusive,
      Acquiring, calls, tabs
<1>37. ASSUME NEW t \in Tab, Connect(t) PROVE HandThere'
  BY <1>37, ConstantsAssumption DEF Connect, TypeOK, HandThere, Exclusive, Acquiring, calls,
      tabs
<1>38. ASSUME NEW t \in Tab, ArriveFails(t) PROVE HandThere'
  BY <1>38, ConstantsAssumption DEF ArriveFails, TypeOK, HandThere, Exclusive, Acquiring,
      calls, tabs
<1>39. ASSUME NEW t \in Tab, Disconnect(t) PROVE HandThere'
  BY <1>39, ConstantsAssumption DEF Disconnect, TypeOK, HandThere, Exclusive, Acquiring,
      calls, tabs
<1>40. ASSUME NEW t \in Tab, Leave(t) PROVE HandThere'
  BY <1>40, ConstantsAssumption DEF Leave, TypeOK, HandThere, Exclusive, Acquiring, calls, tabs
<1>41. ASSUME NEW t \in Tab, LeaveFails(t) PROVE HandThere'
  BY <1>41, ConstantsAssumption DEF LeaveFails, TypeOK, HandThere, Exclusive, Acquiring,
      calls, tabs
<1>42. ASSUME NEW v \in Vm, Expire(v) PROVE HandThere'
  BY <1>42, ConstantsAssumption DEF Expire, Exists, TypeOK, HandThere, Exclusive, Acquiring,
      calls, tabs
<1>43. CASE Restart
  BY <1>43, ConstantsAssumption DEF Restart, Exists, TypeOK, HandThere, Exclusive,
      Acquiring, calls, tabs
<1>44. CASE UNCHANGED vars
  BY <1>44, ConstantsAssumption DEF vars, TypeOK, HandThere, Exclusive, Acquiring, calls, tabs
<1> QED
  BY <1>1, <1>2, <1>3, <1>4, <1>5, <1>6, <1>7, <1>8, <1>9, <1>10, <1>11, <1>12, <1>13,
      <1>14, <1>15, <1>16, <1>17, <1>18, <1>19, <1>20, <1>21, <1>22, <1>23, <1>24, <1>25,
      <1>26, <1>27, <1>28, <1>29, <1>30, <1>31, <1>32, <1>33, <1>34, <1>35, <1>36, <1>37,
      <1>38, <1>39, <1>40, <1>41, <1>42, <1>43, <1>44 DEF Next, Acquire, Continue

LEMMA CreatedPreserved ==
  ASSUME TypeOK, HandThere, Created, [Next]_vars
  PROVE  Created'
<1>1. ASSUME NEW k \in Call, Load(k) PROVE Created'
  BY <1>1, ConstantsAssumption DEF Load, Goto, Hold, TypeOK, HandThere, Created, Exists,
      Answers, calls, tabs
<1>2. ASSUME NEW k \in Call, Resume(k) PROVE Created'
  BY <1>2, ConstantsAssumption DEF Resume, Goto, Exists, TypeOK, HandThere, Created,
      Answers, calls, tabs
<1>3. ASSUME NEW k \in Call, ResumeFails(k) PROVE Created'
  BY <1>3, ConstantsAssumption DEF ResumeFails, Goto, Exists, TypeOK, HandThere, Created,
      Answers, calls, tabs
<1>4. ASSUME NEW k \in Call, Forget(k) PROVE Created'
  BY <1>4, ConstantsAssumption DEF Forget, Settle, Goto, Hold, Unrecord, TypeOK, HandThere,
      Created, Exists, Answers, calls, tabs
<1>5. ASSUME NEW k \in Call, Ensured(k) PROVE Created'
  BY <1>5, ConstantsAssumption DEF Ensured, Settle, Answers, TypeOK, HandThere, Created,
      Exists, calls, tabs
<1>6. ASSUME NEW k \in Call, EnsureFails(k) PROVE Created'
  BY <1>6, ConstantsAssumption DEF EnsureFails, Settle, Answers, MayFail, TypeOK, HandThere,
      Created, Exists, calls, tabs
<1>7. ASSUME NEW k \in Call, CreateFails(k) PROVE Created'
  BY <1>7, ConstantsAssumption DEF CreateFails, Settle, TypeOK, HandThere, Created, Exists,
      Answers, calls, tabs
<1>8. ASSUME NEW k \in Call, Save(k) PROVE Created'
  BY <1>8, ConstantsAssumption DEF Save, Goto, TypeOK, HandThere, Created, Exists, Answers,
      calls, tabs
<1>9. ASSUME NEW k \in Call, Boot(k) PROVE Created'
  BY <1>9, ConstantsAssumption DEF Boot, Settle, TypeOK, HandThere, Created, Exists,
      Answers, calls, tabs
<1>10. ASSUME NEW k \in Call, BootFails(k) PROVE Created'
  BY <1>10, ConstantsAssumption DEF BootFails, Goto, TypeOK, HandThere, Created, Exists,
      Answers, calls, tabs
<1>11. ASSUME NEW k \in Call, Unsave(k) PROVE Created'
  BY <1>11, ConstantsAssumption DEF Unsave, Goto, Unrecord, TypeOK, HandThere, Created,
      Exists, Answers, calls, tabs
<1>12. ASSUME NEW k \in Call, ScrapNew(k) PROVE Created'
  BY <1>12, ConstantsAssumption DEF ScrapNew, Settle, KillVm, TypeOK, HandThere, Created,
      Exists, Answers, calls, tabs
<1>13. ASSUME NEW k \in Call, NEW v \in Vm, Create(k, v) PROVE Created'
  BY <1>13, ConstantsAssumption DEF Create, Goto, Hold, TypeOK, HandThere, Created, Exists,
      Answers, calls, tabs
<1>14. ASSUME NEW k \in Call, GetOrAcquire(k) PROVE Created'
  BY <1>14, ConstantsAssumption DEF GetOrAcquire, Goto, Hold, TypeOK, HandThere, Created,
      Exists, Answers, calls, tabs
<1>15. ASSUME NEW k \in Call, GetLive(k) PROVE Created'
  BY <1>15, ConstantsAssumption DEF GetLive, End, Goto, Hold, TypeOK, HandThere, Created,
      Exists, Answers, calls, tabs
<1>16. ASSUME NEW k \in Call, Acquired(k) PROVE Created'
  BY <1>16, ConstantsAssumption DEF Acquired, End, Goto, Hold, TypeOK, HandThere, Created,
      Exists, Answers, calls, tabs
<1>17. ASSUME NEW k \in Call, AcquireFailed(k) PROVE Created'
  BY <1>17, ConstantsAssumption DEF AcquireFailed, End, Goto, Hold, TypeOK, HandThere,
      Created, Exists, Answers, calls, tabs
<1>18. ASSUME NEW k \in Call, Use(k) PROVE Created'
  BY <1>18, ConstantsAssumption DEF Use, End, Goto, Hold, TypeOK, HandThere, Created,
      Exists, Answers, calls, tabs
<1>19. ASSUME NEW k \in Call, UseFails(k) PROVE Created'
  BY <1>19, ConstantsAssumption DEF UseFails, End, Goto, Hold, TypeOK, HandThere, Created,
      Exists, Answers, calls, tabs
<1>20. ASSUME NEW k \in Call, Scrap(k) PROVE Created'
  BY <1>20, ConstantsAssumption DEF Scrap, End, Goto, Hold, KillVm, TypeOK, HandThere,
      Created, Exists, Answers, calls, tabs
<1>21. ASSUME NEW k \in Call, Look(k) PROVE Created'
  BY <1>21, ConstantsAssumption DEF Look, Goto, Hold, Opens, TypeOK, HandThere, Created,
      Exists, Answers, calls, tabs
<1>22. ASSUME NEW k \in Call, Probe(k) PROVE Created'
  BY <1>22, ConstantsAssumption DEF Probe, End, Goto, Hold, TypeOK, HandThere, Created,
      Exists, Answers, calls, tabs
<1>23. ASSUME NEW k \in Call, ProbeFails(k) PROVE Created'
  BY <1>23, ConstantsAssumption DEF ProbeFails, Goto, Hold, TypeOK, HandThere, Created,
      Exists, Answers, calls, tabs
<1>24. ASSUME NEW k \in Call, ReadRecord(k) PROVE Created'
  BY <1>24, ConstantsAssumption DEF ReadRecord, Goto, Hold, TypeOK, HandThere, Created,
      Exists, Answers, calls, tabs
<1>25. ASSUME NEW k \in Call, NoRecord(k) PROVE Created'
  BY <1>25, ConstantsAssumption DEF NoRecord, End, Goto, Hold, NoPreview, FirstPlace,
      TypeOK, HandThere, Created, Exists, Answers, calls, tabs
<1>26. ASSUME NEW k \in Call, Decide(k) PROVE Created'
  BY <1>26, ConstantsAssumption DEF Decide, Goto, Hold, TypeOK, HandThere, Created, Exists,
      Answers, calls, tabs
<1>27. ASSUME NEW k \in Call, OpenFailed(k) PROVE Created'
  BY <1>27, ConstantsAssumption DEF OpenFailed, End, Goto, Hold, NoPreview, FirstPlace,
      Opens, TypeOK, HandThere, Created, Exists, Answers, calls, tabs
<1>28. ASSUME NEW k \in Call, KillLive(k) PROVE Created'
  BY <1>28, ConstantsAssumption DEF KillLive, Goto, KillVm, TypeOK, HandThere, Created,
      Exists, Answers, calls, tabs
<1>29. ASSUME NEW k \in Call, KillRecord(k) PROVE Created'
  BY <1>29, ConstantsAssumption DEF KillRecord, End, Goto, Hold, Unrecord, TypeOK,
      HandThere, Created, Exists, Answers, calls, tabs
<1>30. ASSUME NEW k \in Call, Pause(k) PROVE Created'
  BY <1>30, ConstantsAssumption DEF Pause, End, Goto, Hold, Answers, TypeOK, HandThere,
      Created, Exists, calls, tabs
<1>31. ASSUME NEW k \in Call, PauseFails(k) PROVE Created'
  BY <1>31, ConstantsAssumption DEF PauseFails, End, Goto, Hold, TypeOK, HandThere, Created,
      Exists, Answers, calls, tabs
<1>32. ASSUME NEW k \in Call, Prewarm(k) PROVE Created'
  BY <1>32, ConstantsAssumption DEF Prewarm, Goto, TypeOK, HandThere, Created, Exists,
      Answers, calls, tabs
<1>33. ASSUME NEW k \in Call, Kill(k) PROVE Created'
  BY <1>33, ConstantsAssumption DEF Kill, Goto, Hold, TypeOK, HandThere, Created, Exists,
      Answers, calls, tabs
<1>34. ASSUME NEW k \in Call, TimerFires(k) PROVE Created'
  BY <1>34, ConstantsAssumption DEF TimerFires, Goto, Hold, TypeOK, HandThere, Created,
      Exists, Answers, calls, tabs
<1>35. ASSUME NEW k \in Call, NEW g \in Goals, Ask(k, g) PROVE Created'
  BY <1>35, ConstantsAssumption DEF Ask, Goto, FirstPlace, TypeOK, HandThere, Created,
      Exists, Answers, calls, tabs
<1>36. ASSUME NEW t \in Tab, NEW k \in Call, Arrive(t, k) PROVE Created'
  BY <1>36, ConstantsAssumption DEF Arrive, Goto, FirstPlace, TypeOK, HandThere, Created,
      Exists, Answers, calls, tabs
<1>37. ASSUME NEW t \in Tab, Connect(t) PROVE Created'
  BY <1>37, ConstantsAssumption DEF Connect, TypeOK, HandThere, Created, Exists, Answers,
      calls, tabs
<1>38. ASSUME NEW t \in Tab, ArriveFails(t) PROVE Created'
  BY <1>38, ConstantsAssumption DEF ArriveFails, TypeOK, HandThere, Created, Exists,
      Answers, calls, tabs
<1>39. ASSUME NEW t \in Tab, Disconnect(t) PROVE Created'
  BY <1>39, ConstantsAssumption DEF Disconnect, TypeOK, HandThere, Created, Exists, Answers,
      calls, tabs
<1>40. ASSUME NEW t \in Tab, Leave(t) PROVE Created'
  BY <1>40, ConstantsAssumption DEF Leave, TypeOK, HandThere, Created, Exists, Answers,
      calls, tabs
<1>41. ASSUME NEW t \in Tab, LeaveFails(t) PROVE Created'
  BY <1>41, ConstantsAssumption DEF LeaveFails, TypeOK, HandThere, Created, Exists, Answers,
      calls, tabs
<1>42. ASSUME NEW v \in Vm, Expire(v) PROVE Created'
  BY <1>42, ConstantsAssumption DEF Expire, Exists, TypeOK, HandThere, Created, Answers,
      calls, tabs
<1>43. CASE Restart
  BY <1>43, ConstantsAssumption DEF Restart, Exists, TypeOK, HandThere, Created, Answers,
      calls, tabs
<1>44. CASE UNCHANGED vars
  BY <1>44, ConstantsAssumption DEF vars, TypeOK, HandThere, Created, Exists, Answers,
      calls, tabs
<1> QED
  BY <1>1, <1>2, <1>3, <1>4, <1>5, <1>6, <1>7, <1>8, <1>9, <1>10, <1>11, <1>12, <1>13,
      <1>14, <1>15, <1>16, <1>17, <1>18, <1>19, <1>20, <1>21, <1>22, <1>23, <1>24, <1>25,
      <1>26, <1>27, <1>28, <1>29, <1>30, <1>31, <1>32, <1>33, <1>34, <1>35, <1>36, <1>37,
      <1>38, <1>39, <1>40, <1>41, <1>42, <1>43, <1>44 DEF Next, Acquire, Continue

LEMMA GivenPreserved ==
  ASSUME TypeOK, HandThere, Created, Given, [Next]_vars
  PROVE  Given'
<1>1. ASSUME NEW k \in Call, Load(k) PROVE Given'
  BY <1>1, ConstantsAssumption DEF Load, Goto, Hold, TypeOK, HandThere, Created, Given, Out,
      Exists, Answers, calls, tabs
<1>2. ASSUME NEW k \in Call, Resume(k) PROVE Given'
  BY <1>2, ConstantsAssumption DEF Resume, Goto, Exists, TypeOK, HandThere, Created, Given,
      Out, Answers, calls, tabs
<1>3. ASSUME NEW k \in Call, ResumeFails(k) PROVE Given'
  BY <1>3, ConstantsAssumption DEF ResumeFails, Goto, Exists, TypeOK, HandThere, Created,
      Given, Out, Answers, calls, tabs
<1>4. ASSUME NEW k \in Call, Forget(k) PROVE Given'
  BY <1>4, ConstantsAssumption DEF Forget, Settle, Goto, Hold, Unrecord, TypeOK, HandThere,
      Created, Given, Out, Exists, Answers, calls, tabs
<1>5. ASSUME NEW k \in Call, Ensured(k) PROVE Given'
  BY <1>5, ConstantsAssumption DEF Ensured, Settle, Answers, TypeOK, HandThere, Created,
      Given, Out, Exists, calls, tabs
<1>6. ASSUME NEW k \in Call, EnsureFails(k) PROVE Given'
  BY <1>6, ConstantsAssumption DEF EnsureFails, Settle, Answers, MayFail, TypeOK, HandThere,
      Created, Given, Out, Exists, calls, tabs
<1>7. ASSUME NEW k \in Call, CreateFails(k) PROVE Given'
  BY <1>7, ConstantsAssumption DEF CreateFails, Settle, TypeOK, HandThere, Created, Given,
      Out, Exists, Answers, calls, tabs
<1>8. ASSUME NEW k \in Call, Save(k) PROVE Given'
  BY <1>8, ConstantsAssumption DEF Save, Goto, TypeOK, HandThere, Created, Given, Out,
      Exists, Answers, calls, tabs
<1>9. ASSUME NEW k \in Call, Boot(k) PROVE Given'
  BY <1>9, ConstantsAssumption DEF Boot, Settle, TypeOK, HandThere, Created, Given, Out,
      Exists, Answers, calls, tabs
<1>10. ASSUME NEW k \in Call, BootFails(k) PROVE Given'
  BY <1>10, ConstantsAssumption DEF BootFails, Goto, TypeOK, HandThere, Created, Given, Out,
      Exists, Answers, calls, tabs
<1>11. ASSUME NEW k \in Call, Unsave(k) PROVE Given'
  BY <1>11, ConstantsAssumption DEF Unsave, Goto, Unrecord, TypeOK, HandThere, Created,
      Given, Out, Exists, Answers, calls, tabs
<1>12. ASSUME NEW k \in Call, ScrapNew(k) PROVE Given'
  BY <1>12, ConstantsAssumption DEF ScrapNew, Settle, KillVm, TypeOK, HandThere, Created,
      Given, Out, Exists, Answers, calls, tabs
<1>13. ASSUME NEW k \in Call, NEW v \in Vm, Create(k, v) PROVE Given'
  BY <1>13, ConstantsAssumption DEF Create, Goto, Hold, TypeOK, HandThere, Created, Given,
      Out, Exists, Answers, calls, tabs
<1>14. ASSUME NEW k \in Call, GetOrAcquire(k) PROVE Given'
  BY <1>14, ConstantsAssumption DEF GetOrAcquire, Goto, Hold, TypeOK, HandThere, Created,
      Given, Out, Exists, Answers, calls, tabs
<1>15. ASSUME NEW k \in Call, GetLive(k) PROVE Given'
  BY <1>15, ConstantsAssumption DEF GetLive, End, Goto, Hold, TypeOK, HandThere, Created,
      Given, Out, Exists, Answers, calls, tabs
<1>16. ASSUME NEW k \in Call, Acquired(k) PROVE Given'
  BY <1>16, ConstantsAssumption DEF Acquired, End, Goto, Hold, TypeOK, HandThere, Created,
      Given, Out, Exists, Answers, calls, tabs
<1>17. ASSUME NEW k \in Call, AcquireFailed(k) PROVE Given'
  BY <1>17, ConstantsAssumption DEF AcquireFailed, End, Goto, Hold, TypeOK, HandThere,
      Created, Given, Out, Exists, Answers, calls, tabs
<1>18. ASSUME NEW k \in Call, Use(k) PROVE Given'
  BY <1>18, ConstantsAssumption DEF Use, End, Goto, Hold, TypeOK, HandThere, Created, Given,
      Out, Exists, Answers, calls, tabs
<1>19. ASSUME NEW k \in Call, UseFails(k) PROVE Given'
  BY <1>19, ConstantsAssumption DEF UseFails, End, Goto, Hold, TypeOK, HandThere, Created,
      Given, Out, Exists, Answers, calls, tabs
<1>20. ASSUME NEW k \in Call, Scrap(k) PROVE Given'
  BY <1>20, ConstantsAssumption DEF Scrap, End, Goto, Hold, KillVm, TypeOK, HandThere,
      Created, Given, Out, Exists, Answers, calls, tabs
<1>21. ASSUME NEW k \in Call, Look(k) PROVE Given'
  BY <1>21, ConstantsAssumption DEF Look, Goto, Hold, Opens, TypeOK, HandThere, Created,
      Given, Out, Exists, Answers, calls, tabs
<1>22. ASSUME NEW k \in Call, Probe(k) PROVE Given'
  BY <1>22, ConstantsAssumption DEF Probe, End, Goto, Hold, TypeOK, HandThere, Created,
      Given, Out, Exists, Answers, calls, tabs
<1>23. ASSUME NEW k \in Call, ProbeFails(k) PROVE Given'
  BY <1>23, ConstantsAssumption DEF ProbeFails, Goto, Hold, TypeOK, HandThere, Created,
      Given, Out, Exists, Answers, calls, tabs
<1>24. ASSUME NEW k \in Call, ReadRecord(k) PROVE Given'
  BY <1>24, ConstantsAssumption DEF ReadRecord, Goto, Hold, TypeOK, HandThere, Created,
      Given, Out, Exists, Answers, calls, tabs
<1>25. ASSUME NEW k \in Call, NoRecord(k) PROVE Given'
  BY <1>25, ConstantsAssumption DEF NoRecord, End, Goto, Hold, NoPreview, FirstPlace,
      TypeOK, HandThere, Created, Given, Out, Exists, Answers, calls, tabs
<1>26. ASSUME NEW k \in Call, Decide(k) PROVE Given'
  BY <1>26, ConstantsAssumption DEF Decide, Goto, Hold, TypeOK, HandThere, Created, Given,
      Out, Exists, Answers, calls, tabs
<1>27. ASSUME NEW k \in Call, OpenFailed(k) PROVE Given'
  BY <1>27, ConstantsAssumption DEF OpenFailed, End, Goto, Hold, NoPreview, FirstPlace,
      Opens, TypeOK, HandThere, Created, Given, Out, Exists, Answers, calls, tabs
<1>28. ASSUME NEW k \in Call, KillLive(k) PROVE Given'
  BY <1>28, ConstantsAssumption DEF KillLive, Goto, KillVm, TypeOK, HandThere, Created,
      Given, Out, Exists, Answers, calls, tabs
<1>29. ASSUME NEW k \in Call, KillRecord(k) PROVE Given'
  BY <1>29, ConstantsAssumption DEF KillRecord, End, Goto, Hold, Unrecord, TypeOK,
      HandThere, Created, Given, Out, Exists, Answers, calls, tabs
<1>30. ASSUME NEW k \in Call, Pause(k) PROVE Given'
  BY <1>30, ConstantsAssumption DEF Pause, End, Goto, Hold, Answers, TypeOK, HandThere,
      Created, Given, Out, Exists, calls, tabs
<1>31. ASSUME NEW k \in Call, PauseFails(k) PROVE Given'
  BY <1>31, ConstantsAssumption DEF PauseFails, End, Goto, Hold, TypeOK, HandThere, Created,
      Given, Out, Exists, Answers, calls, tabs
<1>32. ASSUME NEW k \in Call, Prewarm(k) PROVE Given'
  BY <1>32, ConstantsAssumption DEF Prewarm, Goto, TypeOK, HandThere, Created, Given, Out,
      Exists, Answers, calls, tabs
<1>33. ASSUME NEW k \in Call, Kill(k) PROVE Given'
  BY <1>33, ConstantsAssumption DEF Kill, Goto, Hold, TypeOK, HandThere, Created, Given,
      Out, Exists, Answers, calls, tabs
<1>34. ASSUME NEW k \in Call, TimerFires(k) PROVE Given'
  BY <1>34, ConstantsAssumption DEF TimerFires, Goto, Hold, TypeOK, HandThere, Created,
      Given, Out, Exists, Answers, calls, tabs
<1>35. ASSUME NEW k \in Call, NEW g \in Goals, Ask(k, g) PROVE Given'
  BY <1>35, ConstantsAssumption DEF Ask, Goto, FirstPlace, TypeOK, HandThere, Created,
      Given, Out, Exists, Answers, calls, tabs
<1>36. ASSUME NEW t \in Tab, NEW k \in Call, Arrive(t, k) PROVE Given'
  BY <1>36, ConstantsAssumption DEF Arrive, Goto, FirstPlace, TypeOK, HandThere, Created,
      Given, Out, Exists, Answers, calls, tabs
<1>37. ASSUME NEW t \in Tab, Connect(t) PROVE Given'
  BY <1>37, ConstantsAssumption DEF Connect, TypeOK, HandThere, Created, Given, Out, Exists,
      Answers, calls, tabs
<1>38. ASSUME NEW t \in Tab, ArriveFails(t) PROVE Given'
  BY <1>38, ConstantsAssumption DEF ArriveFails, TypeOK, HandThere, Created, Given, Out,
      Exists, Answers, calls, tabs
<1>39. ASSUME NEW t \in Tab, Disconnect(t) PROVE Given'
  BY <1>39, ConstantsAssumption DEF Disconnect, TypeOK, HandThere, Created, Given, Out,
      Exists, Answers, calls, tabs
<1>40. ASSUME NEW t \in Tab, Leave(t) PROVE Given'
  BY <1>40, ConstantsAssumption DEF Leave, TypeOK, HandThere, Created, Given, Out, Exists,
      Answers, calls, tabs
<1>41. ASSUME NEW t \in Tab, LeaveFails(t) PROVE Given'
  BY <1>41, ConstantsAssumption DEF LeaveFails, TypeOK, HandThere, Created, Given, Out,
      Exists, Answers, calls, tabs
<1>42. ASSUME NEW v \in Vm, Expire(v) PROVE Given'
  BY <1>42, ConstantsAssumption DEF Expire, Exists, TypeOK, HandThere, Created, Given, Out,
      Answers, calls, tabs
<1>43. CASE Restart
  BY <1>43, ConstantsAssumption DEF Restart, Exists, TypeOK, HandThere, Created, Given, Out,
      Answers, calls, tabs
<1>44. CASE UNCHANGED vars
  BY <1>44, ConstantsAssumption DEF vars, TypeOK, HandThere, Created, Given, Out, Exists,
      Answers, calls, tabs
<1> QED
  BY <1>1, <1>2, <1>3, <1>4, <1>5, <1>6, <1>7, <1>8, <1>9, <1>10, <1>11, <1>12, <1>13,
      <1>14, <1>15, <1>16, <1>17, <1>18, <1>19, <1>20, <1>21, <1>22, <1>23, <1>24, <1>25,
      <1>26, <1>27, <1>28, <1>29, <1>30, <1>31, <1>32, <1>33, <1>34, <1>35, <1>36, <1>37,
      <1>38, <1>39, <1>40, <1>41, <1>42, <1>43, <1>44 DEF Next, Acquire, Continue

LEMMA ClearPreserved ==
  ASSUME TypeOK, Exclusive, HandThere, Created, Given, Clear, Same, [Next]_vars
  PROVE  Clear'
<1>1. ASSUME NEW k \in Call, Load(k) PROVE Clear'
  BY <1>1, ConstantsAssumption DEF Load, Goto, Hold, TypeOK, Exclusive, Acquiring,
      HandThere, Created, Given, Clear, Same, Out, Exists, Answers, calls, tabs
<1>2. ASSUME NEW k \in Call, Resume(k) PROVE Clear'
  BY <1>2, ConstantsAssumption DEF Resume, Goto, Exists, TypeOK, Exclusive, Acquiring,
      HandThere, Created, Given, Clear, Same, Out, Answers, calls, tabs
<1>3. ASSUME NEW k \in Call, ResumeFails(k) PROVE Clear'
  BY <1>3, ConstantsAssumption DEF ResumeFails, Goto, Exists, TypeOK, Exclusive, Acquiring,
      HandThere, Created, Given, Clear, Same, Out, Answers, calls, tabs
<1>4. ASSUME NEW k \in Call, Forget(k) PROVE Clear'
  BY <1>4, ConstantsAssumption DEF Forget, Settle, Goto, Hold, Unrecord, TypeOK, Exclusive,
      Acquiring, HandThere, Created, Given, Clear, Same, Out, Exists, Answers, calls, tabs
<1>5. ASSUME NEW k \in Call, Ensured(k) PROVE Clear'
  BY <1>5, ConstantsAssumption DEF Ensured, Settle, Answers, TypeOK, Exclusive, Acquiring,
      HandThere, Created, Given, Clear, Same, Out, Exists, calls, tabs
<1>6. ASSUME NEW k \in Call, EnsureFails(k) PROVE Clear'
  BY <1>6, ConstantsAssumption DEF EnsureFails, Settle, Answers, MayFail, TypeOK, Exclusive,
      Acquiring, HandThere, Created, Given, Clear, Same, Out, Exists, calls, tabs
<1>7. ASSUME NEW k \in Call, CreateFails(k) PROVE Clear'
  BY <1>7, ConstantsAssumption DEF CreateFails, Settle, TypeOK, Exclusive, Acquiring,
      HandThere, Created, Given, Clear, Same, Out, Exists, Answers, calls, tabs
<1>8. ASSUME NEW k \in Call, Save(k) PROVE Clear'
  BY <1>8, ConstantsAssumption DEF Save, Goto, TypeOK, Exclusive, Acquiring, HandThere,
      Created, Given, Clear, Same, Out, Exists, Answers, calls, tabs
<1>9. ASSUME NEW k \in Call, Boot(k) PROVE Clear'
  BY <1>9, ConstantsAssumption DEF Boot, Settle, TypeOK, Exclusive, Acquiring, HandThere,
      Created, Given, Clear, Same, Out, Exists, Answers, calls, tabs
<1>10. ASSUME NEW k \in Call, BootFails(k) PROVE Clear'
  BY <1>10, ConstantsAssumption DEF BootFails, Goto, TypeOK, Exclusive, Acquiring,
      HandThere, Created, Given, Clear, Same, Out, Exists, Answers, calls, tabs
<1>11. ASSUME NEW k \in Call, Unsave(k) PROVE Clear'
  BY <1>11, ConstantsAssumption DEF Unsave, Goto, Unrecord, TypeOK, Exclusive, Acquiring,
      HandThere, Created, Given, Clear, Same, Out, Exists, Answers, calls, tabs
<1>12. ASSUME NEW k \in Call, ScrapNew(k) PROVE Clear'
  BY <1>12, ConstantsAssumption DEF ScrapNew, Settle, KillVm, TypeOK, Exclusive, Acquiring,
      HandThere, Created, Given, Clear, Same, Out, Exists, Answers, calls, tabs
<1>13. ASSUME NEW k \in Call, NEW v \in Vm, Create(k, v) PROVE Clear'
  BY <1>13, ConstantsAssumption DEF Create, Goto, Hold, TypeOK, Exclusive, Acquiring,
      HandThere, Created, Given, Clear, Same, Out, Exists, Answers, calls, tabs
<1>14. ASSUME NEW k \in Call, GetOrAcquire(k) PROVE Clear'
  BY <1>14, ConstantsAssumption DEF GetOrAcquire, Goto, Hold, TypeOK, Exclusive, Acquiring,
      HandThere, Created, Given, Clear, Same, Out, Exists, Answers, calls, tabs
<1>15. ASSUME NEW k \in Call, GetLive(k) PROVE Clear'
  BY <1>15, ConstantsAssumption DEF GetLive, End, Goto, Hold, TypeOK, Exclusive, Acquiring,
      HandThere, Created, Given, Clear, Same, Out, Exists, Answers, calls, tabs
<1>16. ASSUME NEW k \in Call, Acquired(k) PROVE Clear'
  BY <1>16, ConstantsAssumption DEF Acquired, End, Goto, Hold, TypeOK, Exclusive, Acquiring,
      HandThere, Created, Given, Clear, Same, Out, Exists, Answers, calls, tabs
<1>17. ASSUME NEW k \in Call, AcquireFailed(k) PROVE Clear'
  BY <1>17, ConstantsAssumption DEF AcquireFailed, End, Goto, Hold, TypeOK, Exclusive,
      Acquiring, HandThere, Created, Given, Clear, Same, Out, Exists, Answers, calls, tabs
<1>18. ASSUME NEW k \in Call, Use(k) PROVE Clear'
  BY <1>18, ConstantsAssumption DEF Use, End, Goto, Hold, TypeOK, Exclusive, Acquiring,
      HandThere, Created, Given, Clear, Same, Out, Exists, Answers, calls, tabs
<1>19. ASSUME NEW k \in Call, UseFails(k) PROVE Clear'
  BY <1>19, ConstantsAssumption DEF UseFails, End, Goto, Hold, TypeOK, Exclusive, Acquiring,
      HandThere, Created, Given, Clear, Same, Out, Exists, Answers, calls, tabs
<1>20. ASSUME NEW k \in Call, Scrap(k) PROVE Clear'
  BY <1>20, ConstantsAssumption DEF Scrap, End, Goto, Hold, KillVm, TypeOK, Exclusive,
      Acquiring, HandThere, Created, Given, Clear, Same, Out, Exists, Answers, calls, tabs
<1>21. ASSUME NEW k \in Call, Look(k) PROVE Clear'
  BY <1>21, ConstantsAssumption DEF Look, Goto, Hold, Opens, TypeOK, Exclusive, Acquiring,
      HandThere, Created, Given, Clear, Same, Out, Exists, Answers, calls, tabs
<1>22. ASSUME NEW k \in Call, Probe(k) PROVE Clear'
  BY <1>22, ConstantsAssumption DEF Probe, End, Goto, Hold, TypeOK, Exclusive, Acquiring,
      HandThere, Created, Given, Clear, Same, Out, Exists, Answers, calls, tabs
<1>23. ASSUME NEW k \in Call, ProbeFails(k) PROVE Clear'
  BY <1>23, ConstantsAssumption DEF ProbeFails, Goto, Hold, TypeOK, Exclusive, Acquiring,
      HandThere, Created, Given, Clear, Same, Out, Exists, Answers, calls, tabs
<1>24. ASSUME NEW k \in Call, ReadRecord(k) PROVE Clear'
  BY <1>24, ConstantsAssumption DEF ReadRecord, Goto, Hold, TypeOK, Exclusive, Acquiring,
      HandThere, Created, Given, Clear, Same, Out, Exists, Answers, calls, tabs
<1>25. ASSUME NEW k \in Call, NoRecord(k) PROVE Clear'
  BY <1>25, ConstantsAssumption DEF NoRecord, End, Goto, Hold, NoPreview, FirstPlace,
      TypeOK, Exclusive, Acquiring, HandThere, Created, Given, Clear, Same, Out, Exists,
      Answers, calls, tabs
<1>26. ASSUME NEW k \in Call, Decide(k) PROVE Clear'
  BY <1>26, ConstantsAssumption DEF Decide, Goto, Hold, TypeOK, Exclusive, Acquiring,
      HandThere, Created, Given, Clear, Same, Out, Exists, Answers, calls, tabs
<1>27. ASSUME NEW k \in Call, OpenFailed(k) PROVE Clear'
  BY <1>27, ConstantsAssumption DEF OpenFailed, End, Goto, Hold, NoPreview, FirstPlace,
      Opens, TypeOK, Exclusive, Acquiring, HandThere, Created, Given, Clear, Same, Out,
      Exists, Answers, calls, tabs
<1>28. ASSUME NEW k \in Call, KillLive(k) PROVE Clear'
  BY <1>28, ConstantsAssumption DEF KillLive, Goto, KillVm, TypeOK, Exclusive, Acquiring,
      HandThere, Created, Given, Clear, Same, Out, Exists, Answers, calls, tabs
<1>29. ASSUME NEW k \in Call, KillRecord(k) PROVE Clear'
  BY <1>29, ConstantsAssumption DEF KillRecord, End, Goto, Hold, Unrecord, TypeOK,
      Exclusive, Acquiring, HandThere, Created, Given, Clear, Same, Out, Exists, Answers,
      calls, tabs
<1>30. ASSUME NEW k \in Call, Pause(k) PROVE Clear'
  BY <1>30, ConstantsAssumption DEF Pause, End, Goto, Hold, Answers, TypeOK, Exclusive,
      Acquiring, HandThere, Created, Given, Clear, Same, Out, Exists, calls, tabs
<1>31. ASSUME NEW k \in Call, PauseFails(k) PROVE Clear'
  BY <1>31, ConstantsAssumption DEF PauseFails, End, Goto, Hold, TypeOK, Exclusive,
      Acquiring, HandThere, Created, Given, Clear, Same, Out, Exists, Answers, calls, tabs
<1>32. ASSUME NEW k \in Call, Prewarm(k) PROVE Clear'
  BY <1>32, ConstantsAssumption DEF Prewarm, Goto, TypeOK, Exclusive, Acquiring, HandThere,
      Created, Given, Clear, Same, Out, Exists, Answers, calls, tabs
<1>33. ASSUME NEW k \in Call, Kill(k) PROVE Clear'
  BY <1>33, ConstantsAssumption DEF Kill, Goto, Hold, TypeOK, Exclusive, Acquiring,
      HandThere, Created, Given, Clear, Same, Out, Exists, Answers, calls, tabs
<1>34. ASSUME NEW k \in Call, TimerFires(k) PROVE Clear'
  BY <1>34, ConstantsAssumption DEF TimerFires, Goto, Hold, TypeOK, Exclusive, Acquiring,
      HandThere, Created, Given, Clear, Same, Out, Exists, Answers, calls, tabs
<1>35. ASSUME NEW k \in Call, NEW g \in Goals, Ask(k, g) PROVE Clear'
  BY <1>35, ConstantsAssumption DEF Ask, Goto, FirstPlace, TypeOK, Exclusive, Acquiring,
      HandThere, Created, Given, Clear, Same, Out, Exists, Answers, calls, tabs
<1>36. ASSUME NEW t \in Tab, NEW k \in Call, Arrive(t, k) PROVE Clear'
  BY <1>36, ConstantsAssumption DEF Arrive, Goto, FirstPlace, TypeOK, Exclusive, Acquiring,
      HandThere, Created, Given, Clear, Same, Out, Exists, Answers, calls, tabs
<1>37. ASSUME NEW t \in Tab, Connect(t) PROVE Clear'
  BY <1>37, ConstantsAssumption DEF Connect, TypeOK, Exclusive, Acquiring, HandThere,
      Created, Given, Clear, Same, Out, Exists, Answers, calls, tabs
<1>38. ASSUME NEW t \in Tab, ArriveFails(t) PROVE Clear'
  BY <1>38, ConstantsAssumption DEF ArriveFails, TypeOK, Exclusive, Acquiring, HandThere,
      Created, Given, Clear, Same, Out, Exists, Answers, calls, tabs
<1>39. ASSUME NEW t \in Tab, Disconnect(t) PROVE Clear'
  BY <1>39, ConstantsAssumption DEF Disconnect, TypeOK, Exclusive, Acquiring, HandThere,
      Created, Given, Clear, Same, Out, Exists, Answers, calls, tabs
<1>40. ASSUME NEW t \in Tab, Leave(t) PROVE Clear'
  BY <1>40, ConstantsAssumption DEF Leave, TypeOK, Exclusive, Acquiring, HandThere, Created,
      Given, Clear, Same, Out, Exists, Answers, calls, tabs
<1>41. ASSUME NEW t \in Tab, LeaveFails(t) PROVE Clear'
  BY <1>41, ConstantsAssumption DEF LeaveFails, TypeOK, Exclusive, Acquiring, HandThere,
      Created, Given, Clear, Same, Out, Exists, Answers, calls, tabs
<1>42. ASSUME NEW v \in Vm, Expire(v) PROVE Clear'
  BY <1>42, ConstantsAssumption DEF Expire, Exists, TypeOK, Exclusive, Acquiring, HandThere,
      Created, Given, Clear, Same, Out, Answers, calls, tabs
<1>43. CASE Restart
  BY <1>43, ConstantsAssumption DEF Restart, Exists, TypeOK, Exclusive, Acquiring,
      HandThere, Created, Given, Clear, Same, Out, Answers, calls, tabs
<1>44. CASE UNCHANGED vars
  BY <1>44, ConstantsAssumption DEF vars, TypeOK, Exclusive, Acquiring, HandThere, Created,
      Given, Clear, Same, Out, Exists, Answers, calls, tabs
<1> QED
  BY <1>1, <1>2, <1>3, <1>4, <1>5, <1>6, <1>7, <1>8, <1>9, <1>10, <1>11, <1>12, <1>13,
      <1>14, <1>15, <1>16, <1>17, <1>18, <1>19, <1>20, <1>21, <1>22, <1>23, <1>24, <1>25,
      <1>26, <1>27, <1>28, <1>29, <1>30, <1>31, <1>32, <1>33, <1>34, <1>35, <1>36, <1>37,
      <1>38, <1>39, <1>40, <1>41, <1>42, <1>43, <1>44 DEF Next, Acquire, Continue

LEMMA OpeningPreserved ==
  ASSUME TypeOK, Opening, [Next]_vars
  PROVE  Opening'
<1>1. ASSUME NEW k \in Call, Load(k) PROVE Opening'
  BY <1>1, ConstantsAssumption DEF Load, Goto, Hold, TypeOK, Opening, Opens, calls, tabs
<1>2. ASSUME NEW k \in Call, Resume(k) PROVE Opening'
  BY <1>2, ConstantsAssumption DEF Resume, Goto, Exists, TypeOK, Opening, Opens, calls, tabs
<1>3. ASSUME NEW k \in Call, ResumeFails(k) PROVE Opening'
  BY <1>3, ConstantsAssumption DEF ResumeFails, Goto, Exists, TypeOK, Opening, Opens, calls,
      tabs
<1>4. ASSUME NEW k \in Call, Forget(k) PROVE Opening'
  BY <1>4, ConstantsAssumption DEF Forget, Settle, Goto, Hold, Unrecord, TypeOK, Opening,
      Opens, calls, tabs
<1>5. ASSUME NEW k \in Call, Ensured(k) PROVE Opening'
  BY <1>5, ConstantsAssumption DEF Ensured, Settle, Answers, TypeOK, Opening, Opens, calls, tabs
<1>6. ASSUME NEW k \in Call, EnsureFails(k) PROVE Opening'
  BY <1>6, ConstantsAssumption DEF EnsureFails, Settle, Answers, MayFail, TypeOK, Opening,
      Opens, calls, tabs
<1>7. ASSUME NEW k \in Call, CreateFails(k) PROVE Opening'
  BY <1>7, ConstantsAssumption DEF CreateFails, Settle, TypeOK, Opening, Opens, calls, tabs
<1>8. ASSUME NEW k \in Call, Save(k) PROVE Opening'
  BY <1>8, ConstantsAssumption DEF Save, Goto, TypeOK, Opening, Opens, calls, tabs
<1>9. ASSUME NEW k \in Call, Boot(k) PROVE Opening'
  BY <1>9, ConstantsAssumption DEF Boot, Settle, TypeOK, Opening, Opens, calls, tabs
<1>10. ASSUME NEW k \in Call, BootFails(k) PROVE Opening'
  BY <1>10, ConstantsAssumption DEF BootFails, Goto, TypeOK, Opening, Opens, calls, tabs
<1>11. ASSUME NEW k \in Call, Unsave(k) PROVE Opening'
  BY <1>11, ConstantsAssumption DEF Unsave, Goto, Unrecord, TypeOK, Opening, Opens, calls, tabs
<1>12. ASSUME NEW k \in Call, ScrapNew(k) PROVE Opening'
  BY <1>12, ConstantsAssumption DEF ScrapNew, Settle, KillVm, TypeOK, Opening, Opens, calls,
      tabs
<1>13. ASSUME NEW k \in Call, NEW v \in Vm, Create(k, v) PROVE Opening'
  BY <1>13, ConstantsAssumption DEF Create, Goto, Hold, TypeOK, Opening, Opens, calls, tabs
<1>14. ASSUME NEW k \in Call, GetOrAcquire(k) PROVE Opening'
  BY <1>14, ConstantsAssumption DEF GetOrAcquire, Goto, Hold, TypeOK, Opening, Opens, calls,
      tabs
<1>15. ASSUME NEW k \in Call, GetLive(k) PROVE Opening'
  BY <1>15, ConstantsAssumption DEF GetLive, End, Goto, Hold, TypeOK, Opening, Opens, calls,
      tabs
<1>16. ASSUME NEW k \in Call, Acquired(k) PROVE Opening'
  BY <1>16, ConstantsAssumption DEF Acquired, End, Goto, Hold, TypeOK, Opening, Opens,
      calls, tabs
<1>17. ASSUME NEW k \in Call, AcquireFailed(k) PROVE Opening'
  BY <1>17, ConstantsAssumption DEF AcquireFailed, End, Goto, Hold, TypeOK, Opening, Opens,
      calls, tabs
<1>18. ASSUME NEW k \in Call, Use(k) PROVE Opening'
  BY <1>18, ConstantsAssumption DEF Use, End, Goto, Hold, TypeOK, Opening, Opens, calls, tabs
<1>19. ASSUME NEW k \in Call, UseFails(k) PROVE Opening'
  BY <1>19, ConstantsAssumption DEF UseFails, End, Goto, Hold, TypeOK, Opening, Opens,
      calls, tabs
<1>20. ASSUME NEW k \in Call, Scrap(k) PROVE Opening'
  BY <1>20, ConstantsAssumption DEF Scrap, End, Goto, Hold, KillVm, TypeOK, Opening, Opens,
      calls, tabs
<1>21. ASSUME NEW k \in Call, Look(k) PROVE Opening'
  BY <1>21, ConstantsAssumption DEF Look, Goto, Hold, Opens, TypeOK, Opening, calls, tabs
<1>22. ASSUME NEW k \in Call, Probe(k) PROVE Opening'
  BY <1>22, ConstantsAssumption DEF Probe, End, Goto, Hold, TypeOK, Opening, Opens, calls, tabs
<1>23. ASSUME NEW k \in Call, ProbeFails(k) PROVE Opening'
  BY <1>23, ConstantsAssumption DEF ProbeFails, Goto, Hold, TypeOK, Opening, Opens, calls, tabs
<1>24. ASSUME NEW k \in Call, ReadRecord(k) PROVE Opening'
  BY <1>24, ConstantsAssumption DEF ReadRecord, Goto, Hold, TypeOK, Opening, Opens, calls, tabs
<1>25. ASSUME NEW k \in Call, NoRecord(k) PROVE Opening'
  BY <1>25, ConstantsAssumption DEF NoRecord, End, Goto, Hold, NoPreview, FirstPlace,
      TypeOK, Opening, Opens, calls, tabs
<1>26. ASSUME NEW k \in Call, Decide(k) PROVE Opening'
  BY <1>26, ConstantsAssumption DEF Decide, Goto, Hold, TypeOK, Opening, Opens, calls, tabs
<1>27. ASSUME NEW k \in Call, OpenFailed(k) PROVE Opening'
  BY <1>27, ConstantsAssumption DEF OpenFailed, End, Goto, Hold, NoPreview, FirstPlace,
      Opens, TypeOK, Opening, calls, tabs
<1>28. ASSUME NEW k \in Call, KillLive(k) PROVE Opening'
  BY <1>28, ConstantsAssumption DEF KillLive, Goto, KillVm, TypeOK, Opening, Opens, calls, tabs
<1>29. ASSUME NEW k \in Call, KillRecord(k) PROVE Opening'
  BY <1>29, ConstantsAssumption DEF KillRecord, End, Goto, Hold, Unrecord, TypeOK, Opening,
      Opens, calls, tabs
<1>30. ASSUME NEW k \in Call, Pause(k) PROVE Opening'
  BY <1>30, ConstantsAssumption DEF Pause, End, Goto, Hold, Answers, TypeOK, Opening, Opens,
      calls, tabs
<1>31. ASSUME NEW k \in Call, PauseFails(k) PROVE Opening'
  BY <1>31, ConstantsAssumption DEF PauseFails, End, Goto, Hold, TypeOK, Opening, Opens,
      calls, tabs
<1>32. ASSUME NEW k \in Call, Prewarm(k) PROVE Opening'
  BY <1>32, ConstantsAssumption DEF Prewarm, Goto, TypeOK, Opening, Opens, calls, tabs
<1>33. ASSUME NEW k \in Call, Kill(k) PROVE Opening'
  BY <1>33, ConstantsAssumption DEF Kill, Goto, Hold, TypeOK, Opening, Opens, calls, tabs
<1>34. ASSUME NEW k \in Call, TimerFires(k) PROVE Opening'
  BY <1>34, ConstantsAssumption DEF TimerFires, Goto, Hold, TypeOK, Opening, Opens, calls, tabs
<1>35. ASSUME NEW k \in Call, NEW g \in Goals, Ask(k, g) PROVE Opening'
  BY <1>35, ConstantsAssumption DEF Ask, Goto, FirstPlace, TypeOK, Opening, Opens, calls, tabs
<1>36. ASSUME NEW t \in Tab, NEW k \in Call, Arrive(t, k) PROVE Opening'
  BY <1>36, ConstantsAssumption DEF Arrive, Goto, FirstPlace, TypeOK, Opening, Opens, calls,
      tabs
<1>37. ASSUME NEW t \in Tab, Connect(t) PROVE Opening'
  BY <1>37, ConstantsAssumption DEF Connect, TypeOK, Opening, Opens, calls, tabs
<1>38. ASSUME NEW t \in Tab, ArriveFails(t) PROVE Opening'
  BY <1>38, ConstantsAssumption DEF ArriveFails, TypeOK, Opening, Opens, calls, tabs
<1>39. ASSUME NEW t \in Tab, Disconnect(t) PROVE Opening'
  BY <1>39, ConstantsAssumption DEF Disconnect, TypeOK, Opening, Opens, calls, tabs
<1>40. ASSUME NEW t \in Tab, Leave(t) PROVE Opening'
  BY <1>40, ConstantsAssumption DEF Leave, TypeOK, Opening, Opens, calls, tabs
<1>41. ASSUME NEW t \in Tab, LeaveFails(t) PROVE Opening'
  BY <1>41, ConstantsAssumption DEF LeaveFails, TypeOK, Opening, Opens, calls, tabs
<1>42. ASSUME NEW v \in Vm, Expire(v) PROVE Opening'
  BY <1>42, ConstantsAssumption DEF Expire, Exists, TypeOK, Opening, Opens, calls, tabs
<1>43. CASE Restart
  BY <1>43, ConstantsAssumption DEF Restart, Exists, TypeOK, Opening, Opens, calls, tabs
<1>44. CASE UNCHANGED vars
  BY <1>44, ConstantsAssumption DEF vars, TypeOK, Opening, Opens, calls, tabs
<1> QED
  BY <1>1, <1>2, <1>3, <1>4, <1>5, <1>6, <1>7, <1>8, <1>9, <1>10, <1>11, <1>12, <1>13,
      <1>14, <1>15, <1>16, <1>17, <1>18, <1>19, <1>20, <1>21, <1>22, <1>23, <1>24, <1>25,
      <1>26, <1>27, <1>28, <1>29, <1>30, <1>31, <1>32, <1>33, <1>34, <1>35, <1>36, <1>37,
      <1>38, <1>39, <1>40, <1>41, <1>42, <1>43, <1>44 DEF Next, Acquire, Continue

LEMMA SamePreserved ==
  ASSUME TypeOK, Exclusive, HandThere, Opening, Same, [Next]_vars
  PROVE  Same'
<1>1. ASSUME NEW k \in Call, Load(k) PROVE Same'
  BY <1>1, ConstantsAssumption DEF Load, Goto, Hold, TypeOK, Exclusive, Acquiring,
      HandThere, Opening, Opens, Same, calls, tabs
<1>2. ASSUME NEW k \in Call, Resume(k) PROVE Same'
  BY <1>2, ConstantsAssumption DEF Resume, Goto, Exists, TypeOK, Exclusive, Acquiring,
      HandThere, Opening, Opens, Same, calls, tabs
<1>3. ASSUME NEW k \in Call, ResumeFails(k) PROVE Same'
  BY <1>3, ConstantsAssumption DEF ResumeFails, Goto, Exists, TypeOK, Exclusive, Acquiring,
      HandThere, Opening, Opens, Same, calls, tabs
<1>4. ASSUME NEW k \in Call, Forget(k) PROVE Same'
  BY <1>4, ConstantsAssumption DEF Forget, Settle, Goto, Hold, Unrecord, TypeOK, Exclusive,
      Acquiring, HandThere, Opening, Opens, Same, calls, tabs
<1>5. ASSUME NEW k \in Call, Ensured(k) PROVE Same'
  BY <1>5, ConstantsAssumption DEF Ensured, Settle, Answers, TypeOK, Exclusive, Acquiring,
      HandThere, Opening, Opens, Same, calls, tabs
<1>6. ASSUME NEW k \in Call, EnsureFails(k) PROVE Same'
  BY <1>6, ConstantsAssumption DEF EnsureFails, Settle, Answers, MayFail, TypeOK, Exclusive,
      Acquiring, HandThere, Opening, Opens, Same, calls, tabs
<1>7. ASSUME NEW k \in Call, CreateFails(k) PROVE Same'
  BY <1>7, ConstantsAssumption DEF CreateFails, Settle, TypeOK, Exclusive, Acquiring,
      HandThere, Opening, Opens, Same, calls, tabs
<1>8. ASSUME NEW k \in Call, Save(k) PROVE Same'
  BY <1>8, ConstantsAssumption DEF Save, Goto, TypeOK, Exclusive, Acquiring, HandThere,
      Opening, Opens, Same, calls, tabs
<1>9. ASSUME NEW k \in Call, Boot(k) PROVE Same'
  BY <1>9, ConstantsAssumption DEF Boot, Settle, TypeOK, Exclusive, Acquiring, HandThere,
      Opening, Opens, Same, calls, tabs
<1>10. ASSUME NEW k \in Call, BootFails(k) PROVE Same'
  BY <1>10, ConstantsAssumption DEF BootFails, Goto, TypeOK, Exclusive, Acquiring,
      HandThere, Opening, Opens, Same, calls, tabs
<1>11. ASSUME NEW k \in Call, Unsave(k) PROVE Same'
  BY <1>11, ConstantsAssumption DEF Unsave, Goto, Unrecord, TypeOK, Exclusive, Acquiring,
      HandThere, Opening, Opens, Same, calls, tabs
<1>12. ASSUME NEW k \in Call, ScrapNew(k) PROVE Same'
  BY <1>12, ConstantsAssumption DEF ScrapNew, Settle, KillVm, TypeOK, Exclusive, Acquiring,
      HandThere, Opening, Opens, Same, calls, tabs
<1>13. ASSUME NEW k \in Call, NEW v \in Vm, Create(k, v) PROVE Same'
  BY <1>13, ConstantsAssumption DEF Create, Goto, Hold, TypeOK, Exclusive, Acquiring,
      HandThere, Opening, Opens, Same, calls, tabs
<1>14. ASSUME NEW k \in Call, GetOrAcquire(k) PROVE Same'
  BY <1>14, ConstantsAssumption DEF GetOrAcquire, Goto, Hold, TypeOK, Exclusive, Acquiring,
      HandThere, Opening, Opens, Same, calls, tabs
<1>15. ASSUME NEW k \in Call, GetLive(k) PROVE Same'
  BY <1>15, ConstantsAssumption DEF GetLive, End, Goto, Hold, TypeOK, Exclusive, Acquiring,
      HandThere, Opening, Opens, Same, calls, tabs
<1>16. ASSUME NEW k \in Call, Acquired(k) PROVE Same'
  BY <1>16, ConstantsAssumption DEF Acquired, End, Goto, Hold, TypeOK, Exclusive, Acquiring,
      HandThere, Opening, Opens, Same, calls, tabs
<1>17. ASSUME NEW k \in Call, AcquireFailed(k) PROVE Same'
  BY <1>17, ConstantsAssumption DEF AcquireFailed, End, Goto, Hold, TypeOK, Exclusive,
      Acquiring, HandThere, Opening, Opens, Same, calls, tabs
<1>18. ASSUME NEW k \in Call, Use(k) PROVE Same'
  BY <1>18, ConstantsAssumption DEF Use, End, Goto, Hold, TypeOK, Exclusive, Acquiring,
      HandThere, Opening, Opens, Same, calls, tabs
<1>19. ASSUME NEW k \in Call, UseFails(k) PROVE Same'
  BY <1>19, ConstantsAssumption DEF UseFails, End, Goto, Hold, TypeOK, Exclusive, Acquiring,
      HandThere, Opening, Opens, Same, calls, tabs
<1>20. ASSUME NEW k \in Call, Scrap(k) PROVE Same'
  BY <1>20, ConstantsAssumption DEF Scrap, End, Goto, Hold, KillVm, TypeOK, Exclusive,
      Acquiring, HandThere, Opening, Opens, Same, calls, tabs
<1>21. ASSUME NEW k \in Call, Look(k) PROVE Same'
  BY <1>21, ConstantsAssumption DEF Look, Goto, Hold, Opens, TypeOK, Exclusive, Acquiring,
      HandThere, Opening, Same, calls, tabs
<1>22. ASSUME NEW k \in Call, Probe(k) PROVE Same'
  BY <1>22, ConstantsAssumption DEF Probe, End, Goto, Hold, TypeOK, Exclusive, Acquiring,
      HandThere, Opening, Opens, Same, calls, tabs
<1>23. ASSUME NEW k \in Call, ProbeFails(k) PROVE Same'
  BY <1>23, ConstantsAssumption DEF ProbeFails, Goto, Hold, TypeOK, Exclusive, Acquiring,
      HandThere, Opening, Opens, Same, calls, tabs
<1>24. ASSUME NEW k \in Call, ReadRecord(k) PROVE Same'
  BY <1>24, ConstantsAssumption DEF ReadRecord, Goto, Hold, TypeOK, Exclusive, Acquiring,
      HandThere, Opening, Opens, Same, calls, tabs
<1>25. ASSUME NEW k \in Call, NoRecord(k) PROVE Same'
  BY <1>25, ConstantsAssumption DEF NoRecord, End, Goto, Hold, NoPreview, FirstPlace,
      TypeOK, Exclusive, Acquiring, HandThere, Opening, Opens, Same, calls, tabs
<1>26. ASSUME NEW k \in Call, Decide(k) PROVE Same'
  BY <1>26, ConstantsAssumption DEF Decide, Goto, Hold, TypeOK, Exclusive, Acquiring,
      HandThere, Opening, Opens, Same, calls, tabs
<1>27. ASSUME NEW k \in Call, OpenFailed(k) PROVE Same'
  BY <1>27, ConstantsAssumption DEF OpenFailed, End, Goto, Hold, NoPreview, FirstPlace,
      Opens, TypeOK, Exclusive, Acquiring, HandThere, Opening, Same, calls, tabs
<1>28. ASSUME NEW k \in Call, KillLive(k) PROVE Same'
  BY <1>28, ConstantsAssumption DEF KillLive, Goto, KillVm, TypeOK, Exclusive, Acquiring,
      HandThere, Opening, Opens, Same, calls, tabs
<1>29. ASSUME NEW k \in Call, KillRecord(k) PROVE Same'
  BY <1>29, ConstantsAssumption DEF KillRecord, End, Goto, Hold, Unrecord, TypeOK,
      Exclusive, Acquiring, HandThere, Opening, Opens, Same, calls, tabs
<1>30. ASSUME NEW k \in Call, Pause(k) PROVE Same'
  BY <1>30, ConstantsAssumption DEF Pause, End, Goto, Hold, Answers, TypeOK, Exclusive,
      Acquiring, HandThere, Opening, Opens, Same, calls, tabs
<1>31. ASSUME NEW k \in Call, PauseFails(k) PROVE Same'
  BY <1>31, ConstantsAssumption DEF PauseFails, End, Goto, Hold, TypeOK, Exclusive,
      Acquiring, HandThere, Opening, Opens, Same, calls, tabs
<1>32. ASSUME NEW k \in Call, Prewarm(k) PROVE Same'
  BY <1>32, ConstantsAssumption DEF Prewarm, Goto, TypeOK, Exclusive, Acquiring, HandThere,
      Opening, Opens, Same, calls, tabs
<1>33. ASSUME NEW k \in Call, Kill(k) PROVE Same'
  BY <1>33, ConstantsAssumption DEF Kill, Goto, Hold, TypeOK, Exclusive, Acquiring,
      HandThere, Opening, Opens, Same, calls, tabs
<1>34. ASSUME NEW k \in Call, TimerFires(k) PROVE Same'
  BY <1>34, ConstantsAssumption DEF TimerFires, Goto, Hold, TypeOK, Exclusive, Acquiring,
      HandThere, Opening, Opens, Same, calls, tabs
<1>35. ASSUME NEW k \in Call, NEW g \in Goals, Ask(k, g) PROVE Same'
  BY <1>35, ConstantsAssumption DEF Ask, Goto, FirstPlace, TypeOK, Exclusive, Acquiring,
      HandThere, Opening, Opens, Same, calls, tabs
<1>36. ASSUME NEW t \in Tab, NEW k \in Call, Arrive(t, k) PROVE Same'
  BY <1>36, ConstantsAssumption DEF Arrive, Goto, FirstPlace, TypeOK, Exclusive, Acquiring,
      HandThere, Opening, Opens, Same, calls, tabs
<1>37. ASSUME NEW t \in Tab, Connect(t) PROVE Same'
  BY <1>37, ConstantsAssumption DEF Connect, TypeOK, Exclusive, Acquiring, HandThere,
      Opening, Opens, Same, calls, tabs
<1>38. ASSUME NEW t \in Tab, ArriveFails(t) PROVE Same'
  BY <1>38, ConstantsAssumption DEF ArriveFails, TypeOK, Exclusive, Acquiring, HandThere,
      Opening, Opens, Same, calls, tabs
<1>39. ASSUME NEW t \in Tab, Disconnect(t) PROVE Same'
  BY <1>39, ConstantsAssumption DEF Disconnect, TypeOK, Exclusive, Acquiring, HandThere,
      Opening, Opens, Same, calls, tabs
<1>40. ASSUME NEW t \in Tab, Leave(t) PROVE Same'
  BY <1>40, ConstantsAssumption DEF Leave, TypeOK, Exclusive, Acquiring, HandThere, Opening,
      Opens, Same, calls, tabs
<1>41. ASSUME NEW t \in Tab, LeaveFails(t) PROVE Same'
  BY <1>41, ConstantsAssumption DEF LeaveFails, TypeOK, Exclusive, Acquiring, HandThere,
      Opening, Opens, Same, calls, tabs
<1>42. ASSUME NEW v \in Vm, Expire(v) PROVE Same'
  BY <1>42, ConstantsAssumption DEF Expire, Exists, TypeOK, Exclusive, Acquiring, HandThere,
      Opening, Opens, Same, calls, tabs
<1>43. CASE Restart
  BY <1>43, ConstantsAssumption DEF Restart, Exists, TypeOK, Exclusive, Acquiring,
      HandThere, Opening, Opens, Same, calls, tabs
<1>44. CASE UNCHANGED vars
  BY <1>44, ConstantsAssumption DEF vars, TypeOK, Exclusive, Acquiring, HandThere, Opening,
      Opens, Same, calls, tabs
<1> QED
  BY <1>1, <1>2, <1>3, <1>4, <1>5, <1>6, <1>7, <1>8, <1>9, <1>10, <1>11, <1>12, <1>13,
      <1>14, <1>15, <1>16, <1>17, <1>18, <1>19, <1>20, <1>21, <1>22, <1>23, <1>24, <1>25,
      <1>26, <1>27, <1>28, <1>29, <1>30, <1>31, <1>32, <1>33, <1>34, <1>35, <1>36, <1>37,
      <1>38, <1>39, <1>40, <1>41, <1>42, <1>43, <1>44 DEF Next, Acquire, Continue

LEMMA RecordedPreserved ==
  ASSUME TypeOK, Exclusive, HandThere, Created, Given, Clear, Recorded, [Next]_vars
  PROVE  Recorded'
<1>1. ASSUME NEW k \in Call, Load(k) PROVE Recorded'
  BY <1>1, ConstantsAssumption DEF Load, Goto, Hold, TypeOK, Exclusive, Acquiring,
      HandThere, Created, Given, Clear, Recorded, Out, Exists, Answers, calls, tabs
<1>2. ASSUME NEW k \in Call, Resume(k) PROVE Recorded'
  BY <1>2, ConstantsAssumption DEF Resume, Goto, Exists, TypeOK, Exclusive, Acquiring,
      HandThere, Created, Given, Clear, Recorded, Out, Answers, calls, tabs
<1>3. ASSUME NEW k \in Call, ResumeFails(k) PROVE Recorded'
  BY <1>3, ConstantsAssumption DEF ResumeFails, Goto, Exists, TypeOK, Exclusive, Acquiring,
      HandThere, Created, Given, Clear, Recorded, Out, Answers, calls, tabs
<1>4. ASSUME NEW k \in Call, Forget(k) PROVE Recorded'
  BY <1>4, ConstantsAssumption DEF Forget, Settle, Goto, Hold, Unrecord, TypeOK, Exclusive,
      Acquiring, HandThere, Created, Given, Clear, Recorded, Out, Exists, Answers, calls,
      tabs
<1>5. ASSUME NEW k \in Call, Ensured(k) PROVE Recorded'
  BY <1>5, ConstantsAssumption DEF Ensured, Settle, Answers, TypeOK, Exclusive, Acquiring,
      HandThere, Created, Given, Clear, Recorded, Out, Exists, calls, tabs
<1>6. ASSUME NEW k \in Call, EnsureFails(k) PROVE Recorded'
  BY <1>6, ConstantsAssumption DEF EnsureFails, Settle, Answers, MayFail, TypeOK, Exclusive,
      Acquiring, HandThere, Created, Given, Clear, Recorded, Out, Exists, calls, tabs
<1>7. ASSUME NEW k \in Call, CreateFails(k) PROVE Recorded'
  BY <1>7, ConstantsAssumption DEF CreateFails, Settle, TypeOK, Exclusive, Acquiring,
      HandThere, Created, Given, Clear, Recorded, Out, Exists, Answers, calls, tabs
<1>8. ASSUME NEW k \in Call, Save(k) PROVE Recorded'
  BY <1>8, ConstantsAssumption DEF Save, Goto, TypeOK, Exclusive, Acquiring, HandThere,
      Created, Given, Clear, Recorded, Out, Exists, Answers, calls, tabs
<1>9. ASSUME NEW k \in Call, Boot(k) PROVE Recorded'
  BY <1>9, ConstantsAssumption DEF Boot, Settle, TypeOK, Exclusive, Acquiring, HandThere,
      Created, Given, Clear, Recorded, Out, Exists, Answers, calls, tabs
<1>10. ASSUME NEW k \in Call, BootFails(k) PROVE Recorded'
  BY <1>10, ConstantsAssumption DEF BootFails, Goto, TypeOK, Exclusive, Acquiring,
      HandThere, Created, Given, Clear, Recorded, Out, Exists, Answers, calls, tabs
<1>11. ASSUME NEW k \in Call, Unsave(k) PROVE Recorded'
  BY <1>11, ConstantsAssumption DEF Unsave, Goto, Unrecord, TypeOK, Exclusive, Acquiring,
      HandThere, Created, Given, Clear, Recorded, Out, Exists, Answers, calls, tabs
<1>12. ASSUME NEW k \in Call, ScrapNew(k) PROVE Recorded'
  BY <1>12, ConstantsAssumption DEF ScrapNew, Settle, KillVm, TypeOK, Exclusive, Acquiring,
      HandThere, Created, Given, Clear, Recorded, Out, Exists, Answers, calls, tabs
<1>13. ASSUME NEW k \in Call, NEW v \in Vm, Create(k, v) PROVE Recorded'
  BY <1>13, ConstantsAssumption DEF Create, Goto, Hold, TypeOK, Exclusive, Acquiring,
      HandThere, Created, Given, Clear, Recorded, Out, Exists, Answers, calls, tabs
<1>14. ASSUME NEW k \in Call, GetOrAcquire(k) PROVE Recorded'
  BY <1>14, ConstantsAssumption DEF GetOrAcquire, Goto, Hold, TypeOK, Exclusive, Acquiring,
      HandThere, Created, Given, Clear, Recorded, Out, Exists, Answers, calls, tabs
<1>15. ASSUME NEW k \in Call, GetLive(k) PROVE Recorded'
  BY <1>15, ConstantsAssumption DEF GetLive, End, Goto, Hold, TypeOK, Exclusive, Acquiring,
      HandThere, Created, Given, Clear, Recorded, Out, Exists, Answers, calls, tabs
<1>16. ASSUME NEW k \in Call, Acquired(k) PROVE Recorded'
  BY <1>16, ConstantsAssumption DEF Acquired, End, Goto, Hold, TypeOK, Exclusive, Acquiring,
      HandThere, Created, Given, Clear, Recorded, Out, Exists, Answers, calls, tabs
<1>17. ASSUME NEW k \in Call, AcquireFailed(k) PROVE Recorded'
  BY <1>17, ConstantsAssumption DEF AcquireFailed, End, Goto, Hold, TypeOK, Exclusive,
      Acquiring, HandThere, Created, Given, Clear, Recorded, Out, Exists, Answers, calls,
      tabs
<1>18. ASSUME NEW k \in Call, Use(k) PROVE Recorded'
  BY <1>18, ConstantsAssumption DEF Use, End, Goto, Hold, TypeOK, Exclusive, Acquiring,
      HandThere, Created, Given, Clear, Recorded, Out, Exists, Answers, calls, tabs
<1>19. ASSUME NEW k \in Call, UseFails(k) PROVE Recorded'
  BY <1>19, ConstantsAssumption DEF UseFails, End, Goto, Hold, TypeOK, Exclusive, Acquiring,
      HandThere, Created, Given, Clear, Recorded, Out, Exists, Answers, calls, tabs
<1>20. ASSUME NEW k \in Call, Scrap(k) PROVE Recorded'
  BY <1>20, ConstantsAssumption DEF Scrap, End, Goto, Hold, KillVm, TypeOK, Exclusive,
      Acquiring, HandThere, Created, Given, Clear, Recorded, Out, Exists, Answers, calls,
      tabs
<1>21. ASSUME NEW k \in Call, Look(k) PROVE Recorded'
  BY <1>21, ConstantsAssumption DEF Look, Goto, Hold, Opens, TypeOK, Exclusive, Acquiring,
      HandThere, Created, Given, Clear, Recorded, Out, Exists, Answers, calls, tabs
<1>22. ASSUME NEW k \in Call, Probe(k) PROVE Recorded'
  BY <1>22, ConstantsAssumption DEF Probe, End, Goto, Hold, TypeOK, Exclusive, Acquiring,
      HandThere, Created, Given, Clear, Recorded, Out, Exists, Answers, calls, tabs
<1>23. ASSUME NEW k \in Call, ProbeFails(k) PROVE Recorded'
  BY <1>23, ConstantsAssumption DEF ProbeFails, Goto, Hold, TypeOK, Exclusive, Acquiring,
      HandThere, Created, Given, Clear, Recorded, Out, Exists, Answers, calls, tabs
<1>24. ASSUME NEW k \in Call, ReadRecord(k) PROVE Recorded'
  BY <1>24, ConstantsAssumption DEF ReadRecord, Goto, Hold, TypeOK, Exclusive, Acquiring,
      HandThere, Created, Given, Clear, Recorded, Out, Exists, Answers, calls, tabs
<1>25. ASSUME NEW k \in Call, NoRecord(k) PROVE Recorded'
  BY <1>25, ConstantsAssumption DEF NoRecord, End, Goto, Hold, NoPreview, FirstPlace,
      TypeOK, Exclusive, Acquiring, HandThere, Created, Given, Clear, Recorded, Out, Exists,
      Answers, calls, tabs
<1>26. ASSUME NEW k \in Call, Decide(k) PROVE Recorded'
  BY <1>26, ConstantsAssumption DEF Decide, Goto, Hold, TypeOK, Exclusive, Acquiring,
      HandThere, Created, Given, Clear, Recorded, Out, Exists, Answers, calls, tabs
<1>27. ASSUME NEW k \in Call, OpenFailed(k) PROVE Recorded'
  BY <1>27, ConstantsAssumption DEF OpenFailed, End, Goto, Hold, NoPreview, FirstPlace,
      Opens, TypeOK, Exclusive, Acquiring, HandThere, Created, Given, Clear, Recorded, Out,
      Exists, Answers, calls, tabs
<1>28. ASSUME NEW k \in Call, KillLive(k) PROVE Recorded'
  BY <1>28, ConstantsAssumption DEF KillLive, Goto, KillVm, TypeOK, Exclusive, Acquiring,
      HandThere, Created, Given, Clear, Recorded, Out, Exists, Answers, calls, tabs
<1>29. ASSUME NEW k \in Call, KillRecord(k) PROVE Recorded'
  BY <1>29, ConstantsAssumption DEF KillRecord, End, Goto, Hold, Unrecord, TypeOK,
      Exclusive, Acquiring, HandThere, Created, Given, Clear, Recorded, Out, Exists,
      Answers, calls, tabs
<1>30. ASSUME NEW k \in Call, Pause(k) PROVE Recorded'
  BY <1>30, ConstantsAssumption DEF Pause, End, Goto, Hold, Answers, TypeOK, Exclusive,
      Acquiring, HandThere, Created, Given, Clear, Recorded, Out, Exists, calls, tabs
<1>31. ASSUME NEW k \in Call, PauseFails(k) PROVE Recorded'
  BY <1>31, ConstantsAssumption DEF PauseFails, End, Goto, Hold, TypeOK, Exclusive,
      Acquiring, HandThere, Created, Given, Clear, Recorded, Out, Exists, Answers, calls,
      tabs
<1>32. ASSUME NEW k \in Call, Prewarm(k) PROVE Recorded'
  BY <1>32, ConstantsAssumption DEF Prewarm, Goto, TypeOK, Exclusive, Acquiring, HandThere,
      Created, Given, Clear, Recorded, Out, Exists, Answers, calls, tabs
<1>33. ASSUME NEW k \in Call, Kill(k) PROVE Recorded'
  BY <1>33, ConstantsAssumption DEF Kill, Goto, Hold, TypeOK, Exclusive, Acquiring,
      HandThere, Created, Given, Clear, Recorded, Out, Exists, Answers, calls, tabs
<1>34. ASSUME NEW k \in Call, TimerFires(k) PROVE Recorded'
  BY <1>34, ConstantsAssumption DEF TimerFires, Goto, Hold, TypeOK, Exclusive, Acquiring,
      HandThere, Created, Given, Clear, Recorded, Out, Exists, Answers, calls, tabs
<1>35. ASSUME NEW k \in Call, NEW g \in Goals, Ask(k, g) PROVE Recorded'
  BY <1>35, ConstantsAssumption DEF Ask, Goto, FirstPlace, TypeOK, Exclusive, Acquiring,
      HandThere, Created, Given, Clear, Recorded, Out, Exists, Answers, calls, tabs
<1>36. ASSUME NEW t \in Tab, NEW k \in Call, Arrive(t, k) PROVE Recorded'
  BY <1>36, ConstantsAssumption DEF Arrive, Goto, FirstPlace, TypeOK, Exclusive, Acquiring,
      HandThere, Created, Given, Clear, Recorded, Out, Exists, Answers, calls, tabs
<1>37. ASSUME NEW t \in Tab, Connect(t) PROVE Recorded'
  BY <1>37, ConstantsAssumption DEF Connect, TypeOK, Exclusive, Acquiring, HandThere,
      Created, Given, Clear, Recorded, Out, Exists, Answers, calls, tabs
<1>38. ASSUME NEW t \in Tab, ArriveFails(t) PROVE Recorded'
  BY <1>38, ConstantsAssumption DEF ArriveFails, TypeOK, Exclusive, Acquiring, HandThere,
      Created, Given, Clear, Recorded, Out, Exists, Answers, calls, tabs
<1>39. ASSUME NEW t \in Tab, Disconnect(t) PROVE Recorded'
  BY <1>39, ConstantsAssumption DEF Disconnect, TypeOK, Exclusive, Acquiring, HandThere,
      Created, Given, Clear, Recorded, Out, Exists, Answers, calls, tabs
<1>40. ASSUME NEW t \in Tab, Leave(t) PROVE Recorded'
  BY <1>40, ConstantsAssumption DEF Leave, TypeOK, Exclusive, Acquiring, HandThere, Created,
      Given, Clear, Recorded, Out, Exists, Answers, calls, tabs
<1>41. ASSUME NEW t \in Tab, LeaveFails(t) PROVE Recorded'
  BY <1>41, ConstantsAssumption DEF LeaveFails, TypeOK, Exclusive, Acquiring, HandThere,
      Created, Given, Clear, Recorded, Out, Exists, Answers, calls, tabs
<1>42. ASSUME NEW v \in Vm, Expire(v) PROVE Recorded'
  BY <1>42, ConstantsAssumption DEF Expire, Exists, TypeOK, Exclusive, Acquiring, HandThere,
      Created, Given, Clear, Recorded, Out, Answers, calls, tabs
<1>43. CASE Restart
  BY <1>43, ConstantsAssumption DEF Restart, Exists, TypeOK, Exclusive, Acquiring,
      HandThere, Created, Given, Clear, Recorded, Out, Answers, calls, tabs
<1>44. CASE UNCHANGED vars
  BY <1>44, ConstantsAssumption DEF vars, TypeOK, Exclusive, Acquiring, HandThere, Created,
      Given, Clear, Recorded, Out, Exists, Answers, calls, tabs
<1> QED
  BY <1>1, <1>2, <1>3, <1>4, <1>5, <1>6, <1>7, <1>8, <1>9, <1>10, <1>11, <1>12, <1>13,
      <1>14, <1>15, <1>16, <1>17, <1>18, <1>19, <1>20, <1>21, <1>22, <1>23, <1>24, <1>25,
      <1>26, <1>27, <1>28, <1>29, <1>30, <1>31, <1>32, <1>33, <1>34, <1>35, <1>36, <1>37,
      <1>38, <1>39, <1>40, <1>41, <1>42, <1>43, <1>44 DEF Next, Acquire, Continue

-----------------------------------------------------------------------------
(* The theorems.                                                           *)

THEOREM Invariant == Spec => []IInv
<1>1. ASSUME Init PROVE IInv
  <2>1. TypeOK
    BY <1>1 DEF Init, TypeOK, Places, Acquiring, AllGoals
  <2>2. Exclusive /\ HandThere
    BY <1>1, ConstantsAssumption DEF Init, Exclusive, HandThere, Acquiring
  <2>3. Created /\ Given /\ Clear /\ Same /\ Opening /\ Recorded
    BY <1>1, ConstantsAssumption DEF Init, Created, Given, Clear, Same, Opening, Opens,
        Recorded, Exists
  <2> QED BY <2>1, <2>2, <2>3 DEF IInv
<1>2. IInv /\ [Next]_vars => IInv'
  BY TypePreserved, ExclusivePreserved, HandTherePreserved, CreatedPreserved, GivenPreserved,
     ClearPreserved, OpeningPreserved, SamePreserved, RecordedPreserved
  DEF IInv
<1> QED BY <1>1, <1>2, PTL DEF Spec

\* The service's maps, the record and the locals of every request keep their types.
THEOREM TypeCorrect == Spec => []TypeOK
<1>1. IInv => TypeOK
  BY DEF IInv
<1> QED BY <1>1, Invariant, PTL

\* Only one request at a time resumes, creates or boots the project's sandbox.
THEOREM OneAcquisitionCorrect == Spec => []OneAcquisition
<1>1. IInv => OneAcquisition
  BY DEF IInv, Exclusive, OneAcquisition
<1> QED BY <1>1, Invariant, PTL

\* No sandbox is out of everyone's reach but those a fault or a deletion cut loose.
THEOREM FindableCorrect == Spec => []Findable
<1>1. IInv => Findable
  BY DEF IInv, Recorded, Findable, Known, Held
<1> QED BY <1>1, Invariant, PTL

\* A project has one sandbox but for those.
THEOREM OneSandboxCorrect == Spec => []OneSandbox
<1>1. ASSUME IInv, NEW v \in Standing \ lost, NEW w \in Standing \ lost PROVE v = w
  <2>1. \A u \in {v, w} : u \in Vm /\ Exists(u) /\ u \notin lost /\ u # None
    BY ConstantsAssumption DEF Standing
  <2>2. \A u \in {v, w} : record = u \/ \E k \in Call : hand[k] = u /\ at[k] = "save"
    BY <1>1, <2>1 DEF IInv, Recorded, Standing, Doomed
  <2>3. \A j, k \in Call : at[j] = "save" /\ at[k] = "save" => j = k
    BY <1>1 DEF IInv, Exclusive, Acquiring
  <2>4. \A k \in Call : at[k] = "save" => record \notin {v, w}
    BY <1>1, <2>1 DEF IInv, Clear, Out
  <2> QED BY <2>2, <2>3, <2>4
<1>2. IInv => OneSandbox
  BY <1>1 DEF OneSandbox
<1> QED BY <1>2, Invariant, PTL

\* A project's calls share one sandbox, while it is acquired and after.
THEOREM OnePerProjectCorrect == Spec => []OnePerProject
<1>1. OneAcquisition /\ OneSandbox => OnePerProject
  BY DEF OnePerProject
<1> QED BY <1>1, OneAcquisitionCorrect, OneSandboxCorrect, PTL
=============================================================================
