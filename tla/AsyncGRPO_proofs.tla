--------------------------- MODULE AsyncGRPO_proofs ---------------------------
(***************************************************************************)
(* Theorems about AsyncGRPO, for every number of prompts per step, batch     *)
(* size, age window, failure limit and number of steps, and about            *)
(* AsyncGRPOResume, for any number of crashes and restarts: what the         *)
(* checkpoint brings back fits what the lineage of the weights has trained,  *)
(* and what a restart repeats is bounded by the number of restarts.          *)
(***************************************************************************)
EXTENDS AsyncGRPOResume, FiniteSetTheorems, WellFoundedInduction, TLAPS

USE DEF trainerVars, flagVars, batchVars, targetVars, dataVars, storeVars,
        diskVars, collectorVars, Goto

\* The calls the trainer makes without an argument (pause, resume and
\* resume_after_refit on the collector handle) are messages of the mailbox.
LEMMA CallsAreMessages ==
    \A name \in {"resume_after_refit", "pause", "resume"} : Call(name) \in Messages
BY DEF Call, Messages

\* Every step of the collector, of the mailbox and of the trainer keeps the types.
LEMMA TypeStep ==
    ASSUME TypeOK, [Next]_vars
    PROVE  TypeOK'
<1> USE GRPOAssumption DEF TypeOK, TrainerStates, CollectorStates
<1>1. CASE Pull
  BY <1>1 DEF Pull
<1>2. CASE LetGo
  BY <1>2 DEF LetGo
<1>3. CASE StartGenerate
  BY <1>3 DEF StartGenerate
<1>4. CASE Generated
  BY <1>4 DEF Generated
<1>5. CASE Scored
  BY <1>5 DEF Scored
<1>6. CASE GenerationFails
  BY <1>6 DEF GenerationFails, Fail
<1>7. CASE ScoringFails
  BY <1>7 DEF ScoringFails, Fail
<1>8. CASE EnqueueGroup
  <2> DEFINE traj == [id |-> nextId, prompt |-> <<pos, g>>,
                      weights |-> genWeights]
  <2>1. traj \in Trajectories
    BY DEF Trajectories
  <2>2. Entry(traj, genVersion, nextTarget) \in Entries
    BY <2>1 DEF Entry, Entries
  <2> QED
    BY <1>8, <2>2 DEF EnqueueGroup, Add
<1>9. CASE CountGroup
  BY <1>9 DEF CountGroup, TargetAfter, GroupsAfter
<1>10. CASE LoopDies
  BY <1>10 DEF LoopDies
<1>11. CASE Deliver
  <2>1. Head(mailbox) \in Messages /\ Tail(mailbox) \in Seq(Messages)
    BY <1>11 DEF Deliver
  <2>2. ASSUME NEW m \in Messages, m.call = "set_weight_version"
        PROVE  m.version \in Nat
    BY <2>2 DEF Messages
  <2>3. cwv' \in Nat
    BY <1>11, <2>1, <2>2 DEF Deliver
  <2>4. paused' \in BOOLEAN /\ refitRequested' \in BOOLEAN
    BY <1>11 DEF Deliver
  <2>5. mailbox' \in Seq(Messages)
    BY <1>11, <2>1 DEF Deliver
  <2>6. UNCHANGED <<trainerVars, cpc, targetVars, failures, batchVars, dataVars,
                    storeVars, engine, diskVars>>
    BY <1>11 DEF Deliver
  <2> QED
    BY <2>3, <2>4, <2>5, <2>6
<1>12. CASE InitialSync
  <2>1. mailbox' = mailbox \/ mailbox' = Append(mailbox, Call("pause"))
    BY <1>12 DEF InitialSync
  <2>2. mailbox' \in Seq(Messages)
    BY <2>1, CallsAreMessages
  <2> QED
    BY <1>12, <2>2 DEF InitialSync
<1>13. CASE EndInitialValidation
  BY <1>13, CallsAreMessages DEF EndInitialValidation
<1>14. CASE BufferReady
  BY <1>14 DEF BufferReady
<1>15. CASE BufferShort
  BY <1>15 DEF BufferShort
<1>17. CASE HealthCheckFails \/ HealthCheckPasses
  BY <1>17, ZenonT(60) DEF HealthCheckFails, HealthCheckPasses
<1>18. CASE SampleStep
  <2> PICK sel \in SUBSET store : /\ Sample(P, wv, MaxAge, sel)
                                  /\ trained' = Append(trained, sel)
    BY <1>18 DEF SampleStep
  <2>1. trained' \in Seq(SUBSET Entries) /\ store' \in SUBSET Entries
    BY DEF Sample
  <2> QED
    BY <1>18, <2>1 DEF SampleStep, Sample
<1>19. CASE SampleNone
  BY <1>19 DEF SampleNone, SampleStalls
<1>20. CASE SampleError
  BY <1>20 DEF SampleError
<1>21. CASE TrainStep
  BY <1>21 DEF TrainStep
<1>22. CASE StepFails
  BY <1>22 DEF StepFails
<1>23. CASE PrepareForRefit
  BY <1>23 DEF PrepareForRefit
<1>24. CASE Quiesced
  BY <1>24 DEF Quiesced
<1>25. CASE SyncWeights
  <2>1. <<SetVersion(wv + 1), Call("resume_after_refit")>> \in Seq(Messages)
    BY DEF SetVersion, Call, Messages
  <2>2. mailbox' \in Seq(Messages)
    BY <1>25, <2>1 DEF SyncWeights, RefitCalls
  <2> QED
    BY <1>25, <2>2 DEF SyncWeights
<1>26. CASE BeginValidation
  BY <1>26, CallsAreMessages DEF BeginValidation
<1>27. CASE EndValidation
  BY <1>27, CallsAreMessages DEF EndValidation
<1>28. CASE NoValidation
  BY <1>28 DEF NoValidation
<1>29. CASE SaveDataloader
  <2>1. timedOut' \in BOOLEAN
    BY <1>29 DEF SaveDataloader
  <2> QED
    BY <1>29, <2>1 DEF SaveDataloader
<1>30. CASE SaveBuffer
  <2>1. snapshot' \in BufferStates
    BY <1>30 DEF SaveBuffer, StateDict, BufferStates, NotPersisted
  <2> QED
    BY <1>30, <2>1 DEF SaveBuffer, StateDict
<1>31. CASE Finalize
  <2>1. disk' \in Checkpoints
    BY <1>31 DEF Finalize, Checkpoints
  <2> QED
    BY <1>31, <2>1 DEF Finalize
<1>32. CASE NoSave
  BY <1>32 DEF NoSave
<1>33. CASE Advance
  BY <1>33 DEF Advance
<1>34. CASE UNCHANGED vars
  BY <1>34 DEF vars
<1> QED
  BY <1>1, <1>2, <1>3, <1>4, <1>5, <1>6, <1>7, <1>8, <1>9, <1>10, <1>11,
     <1>12, <1>13, <1>14, <1>15, <1>17, <1>18, <1>19, <1>20, <1>21,
     <1>22, <1>23, <1>24, <1>25, <1>26, <1>27, <1>28, <1>29, <1>30, <1>31,
     <1>32, <1>33, <1>34
     DEF Next, CollectorStep, TrainerStep, Terminated

\* Setup leaves every variable within its range.
LEMMA TypeInit == ASSUME Init PROVE TypeOK
<1>1. <<SetVersion(0)>> \in Seq(Messages)
  BY DEF SetVersion, Messages
<1>2. NotPersisted \in BufferStates
  BY DEF NotPersisted, BufferStates
<1>3. disk \in Checkpoints
  BY <1>2 DEF Init, Checkpoints
<1>4. trained \in Seq(SUBSET Entries) /\ mailbox \in Seq(Messages)
  BY <1>1 DEF Init
<1>5. store \in SUBSET Entries /\ snapshot \in BufferStates
  BY <1>2 DEF Init
<1> QED
  BY <1>3, <1>4, <1>5 DEF Init, TypeOK, TrainerStates, CollectorStates

\* The state is well typed: every variable of the trainer, the collector, the
\* buffer and the checkpoint stays within its range.
THEOREM TypeCorrect == Spec => []TypeOK
<1>1. Init => TypeOK
  BY TypeInit
<1>2. TypeOK /\ [Next]_vars => TypeOK'
  BY TypeStep
<1> QED
  BY <1>1, <1>2, PTL DEF Spec

-------------------------------------------------------------------------------
(* The refit handshake.                                                      *)

\* From prepare_for_refit until the sync is over no call is under way to the
\* collector and its flag stays up; once the lock was obtained no rollout runs.
Handshake ==
    /\ tpc \in {"quiescing", "syncing"} => refitRequested /\ mailbox = <<>>
    /\ tpc = "syncing" => ~Generating

\* One step of any of the three processes keeps the handshake: only Deliver can
\* lower the flag, and only StartGenerate can start a rollout.
LEMMA HandshakeStep ==
    ASSUME TypeOK, Handshake, [Next]_vars
    PROVE  Handshake'
<1> USE DEF Handshake, Generating
<1>1. CASE Pull \/ LetGo \/ Generated \/ Scored \/ CountGroup \/ LoopDies
  BY <1>1 DEF Pull, LetGo, Generated, Scored, CountGroup, LoopDies
<1>2. CASE StartGenerate
  BY <1>2 DEF StartGenerate
<1>3. CASE GenerationFails \/ ScoringFails
  BY <1>3 DEF GenerationFails, ScoringFails, Fail
<1>4. CASE EnqueueGroup
  BY <1>4 DEF EnqueueGroup
<1>5. CASE Deliver
  BY <1>5 DEF Deliver
<1>6. CASE InitialSync \/ EndInitialValidation \/ BufferReady \/ BufferShort
  BY <1>6 DEF InitialSync, EndInitialValidation, BufferReady, BufferShort
<1>7. CASE HealthCheckFails \/ HealthCheckPasses \/ SampleStep \/ SampleNone
           \/ SampleError \/ TrainStep \/ StepFails
  BY <1>7 DEF HealthCheckFails, HealthCheckPasses, SampleStep, SampleNone,
              SampleError, TrainStep, StepFails
<1>8. CASE PrepareForRefit
  BY <1>8 DEF PrepareForRefit, Served
<1>9. CASE Quiesced
  BY <1>9 DEF Quiesced
<1>10. CASE SyncWeights \/ BeginValidation \/ EndValidation \/ NoValidation
  BY <1>10 DEF SyncWeights, BeginValidation, EndValidation, NoValidation
<1>11. CASE SaveDataloader \/ SaveBuffer \/ Finalize \/ NoSave \/ Advance
  BY <1>11 DEF SaveDataloader, SaveBuffer, Finalize, NoSave, Advance
<1>12. CASE UNCHANGED vars
  BY <1>12 DEF vars
<1> QED
  BY <1>1, <1>2, <1>3, <1>4, <1>5, <1>6, <1>7, <1>8, <1>9, <1>10, <1>11, <1>12
     DEF Next, CollectorStep, TrainerStep, Terminated

\* The refit handshake is an invariant.
LEMMA HandshakeHolds == Spec => [](TypeOK /\ Handshake)
<1>1. Init => Handshake
  BY DEF Init, Handshake
<1>2. TypeOK /\ Handshake /\ [Next]_vars => Handshake'
  BY HandshakeStep
<1> QED
  BY <1>1, <1>2, TypeCorrect, PTL DEF Spec

\* In the training loop weights are never pushed into the generation engine
\* while a rollout is in flight on it (prepare_for_refit and the gen lock).
THEOREM RefitIsQuiesced == Spec => []RefitQuiesced
<1>1. Handshake => RefitQuiesced
  BY DEF Handshake, RefitQuiesced
<1> QED
  BY <1>1, HandshakeHolds, PTL

-------------------------------------------------------------------------------
(* The version labels.                                                       *)

\* Calls under way carry the trainer's version, and resume_after_refit never
\* overtakes the set_weight_version sent before it.
MailInOrder ==
    /\ \A i \in 1 .. Len(mailbox) :
           mailbox[i].call = "set_weight_version" => mailbox[i].version = wv
    /\ \A i \in 1 .. Len(mailbox) :
           mailbox[i].call = "resume_after_refit" =>
               \/ cwv = wv
               \/ \E j \in 1 .. i - 1 : mailbox[j].call = "set_weight_version"

\* The collector knows the trainer's version whenever it may start a rollout.
VersionKnown ==
    /\ engine \in {wv, Unsynced}
    /\ cwv <= wv
    /\ ~refitRequested => cwv = wv

HonestGroups(groups) == \A e \in groups : e.traj.weights \in {e.version, Unsynced}

Labels ==
    /\ genWeights \in {genVersion, Unsynced}
    /\ HonestGroups(store)
    /\ \A k \in 1 .. Len(trained) : HonestGroups(trained[k])

\* Delivering the head of an ordered mailbox leaves the rest in order.
LEMMA DeliverVersions ==
    ASSUME TypeOK, MailInOrder, VersionKnown, Deliver
    PROVE  MailInOrder' /\ VersionKnown'
<1> DEFINE m == Head(mailbox)
<1>1. /\ mailbox # <<>> /\ mailbox \in Seq(Messages)
      /\ mailbox' = Tail(mailbox) /\ wv' = wv /\ engine' = engine
  BY DEF Deliver, TypeOK
<1>2. /\ m = mailbox[1] /\ Len(mailbox) \in Nat /\ Len(mailbox) >= 1
      /\ Len(mailbox') = Len(mailbox) - 1
      /\ \A i \in 1 .. Len(mailbox') : mailbox'[i] = mailbox[i + 1]
  BY <1>1
<1>3. /\ cwv' = IF m.call = "set_weight_version" THEN m.version ELSE cwv
      /\ refitRequested' = IF m.call = "resume_after_refit" THEN FALSE
                           ELSE refitRequested
  BY DEF Deliver
<1>4. m.call = "set_weight_version" => cwv' = wv
  BY <1>2, <1>3 DEF MailInOrder
<1>5. m.call # "set_weight_version" => cwv' = cwv
  BY <1>3
<1>6. wv \in Nat /\ cwv \in Nat
  BY DEF TypeOK
<1>7. VersionKnown'
  <2>1. cwv' <= wv'
    BY <1>1, <1>4, <1>5, <1>6 DEF VersionKnown
  <2>2. ~refitRequested' => cwv' = wv'
    <3>1. CASE m.call = "resume_after_refit"
      BY <3>1, <1>1, <1>2, <1>5 DEF MailInOrder
    <3>2. CASE m.call # "resume_after_refit"
      BY <3>2, <1>1, <1>3, <1>4, <1>5 DEF VersionKnown
    <3> QED
      BY <3>1, <3>2
  <2> QED
    BY <1>1, <2>1, <2>2 DEF VersionKnown
<1>8. ASSUME NEW i \in 1 .. Len(mailbox'),
             mailbox'[i].call = "set_weight_version"
      PROVE  mailbox'[i].version = wv'
  BY <1>1, <1>2, <1>8 DEF MailInOrder
<1>9. ASSUME NEW i \in 1 .. Len(mailbox'),
             mailbox'[i].call = "resume_after_refit"
      PROVE  \/ cwv' = wv'
             \/ \E j \in 1 .. i - 1 : mailbox'[j].call = "set_weight_version"
  <2>1. CASE cwv = wv
    BY <2>1, <1>1, <1>4, <1>5
  <2>2. CASE \E j \in 1 .. i : mailbox[j].call = "set_weight_version"
    <3> PICK j \in 1 .. i : mailbox[j].call = "set_weight_version"
      BY <2>2
    <3>1. CASE j = 1
      BY <3>1, <1>1, <1>2, <1>4
    <3>2. CASE j # 1
      <4>1. j - 1 \in 1 .. i - 1 /\ j - 1 \in 1 .. Len(mailbox')
        BY <3>2, <1>2
      <4>2. mailbox'[j - 1].call = "set_weight_version"
        BY <4>1, <1>2
      <4> QED
        BY <4>1, <4>2
    <3> QED
      BY <3>1, <3>2
  <2> QED
    BY <2>1, <2>2, <1>2, <1>9 DEF MailInOrder
<1> QED
  BY <1>7, <1>8, <1>9 DEF MailInOrder

\* A call that is neither of the two version calls may join the mailbox.
LEMMA AppendVersions ==
    ASSUME TypeOK, MailInOrder, VersionKnown,
           NEW name \in {"pause", "resume"},
           mailbox' = Append(mailbox, Call(name)),
           UNCHANGED <<wv, cwv>>
    PROVE  MailInOrder'
<1>1. mailbox \in Seq(Messages)
  BY DEF TypeOK
<1>2. /\ Len(mailbox') = Len(mailbox) + 1 /\ Len(mailbox) \in Nat
      /\ \A i \in 1 .. Len(mailbox) : mailbox'[i] = mailbox[i]
      /\ mailbox'[Len(mailbox) + 1] = Call(name)
  BY <1>1
<1>3. Call(name).call \notin {"set_weight_version", "resume_after_refit"}
  BY DEF Call
<1>4. ASSUME NEW i \in 1 .. Len(mailbox'),
             mailbox'[i].call \in {"set_weight_version", "resume_after_refit"}
      PROVE  i \in 1 .. Len(mailbox) /\ mailbox'[i] = mailbox[i]
  BY <1>2, <1>3, <1>4
<1>5. ASSUME NEW i \in 1 .. Len(mailbox'),
             mailbox'[i].call = "set_weight_version"
      PROVE  mailbox'[i].version = wv'
  BY <1>4, <1>5 DEF MailInOrder
<1>6. ASSUME NEW i \in 1 .. Len(mailbox'),
             mailbox'[i].call = "resume_after_refit"
      PROVE  \/ cwv' = wv'
             \/ \E j \in 1 .. i - 1 : mailbox'[j].call = "set_weight_version"
  <2>1. i \in 1 .. Len(mailbox) /\ mailbox[i].call = "resume_after_refit"
    BY <1>4, <1>6
  <2>2. \A j \in 1 .. i - 1 : mailbox'[j] = mailbox[j]
    BY <2>1, <1>2
  <2> QED
    BY <2>1, <2>2 DEF MailInOrder
<1> QED
  BY <1>5, <1>6 DEF MailInOrder

\* Every step keeps the mailbox in order and the collector's version known
\* outside a refit.
LEMMA VersionsStep ==
    ASSUME TypeOK, Handshake, MailInOrder, VersionKnown, [Next]_vars
    PROVE  MailInOrder' /\ VersionKnown'
<1> DEFINE same == UNCHANGED <<mailbox, wv, cwv, engine, refitRequested>>
<1>1. ASSUME same PROVE MailInOrder' /\ VersionKnown'
  BY <1>1 DEF MailInOrder, VersionKnown
<1>2. CASE Pull \/ LetGo \/ StartGenerate \/ Generated \/ Scored \/ CountGroup
           \/ LoopDies \/ EnqueueGroup
  <2>1. same
    BY <1>2 DEF Pull, LetGo, StartGenerate, Generated, Scored, CountGroup,
                LoopDies, EnqueueGroup
  <2> QED
    BY <1>1, <2>1
<1>3. CASE GenerationFails \/ ScoringFails
  <2>1. same
    BY <1>3 DEF GenerationFails, ScoringFails, Fail
  <2> QED
    BY <1>1, <2>1
<1>4. CASE Deliver
  BY <1>4, DeliverVersions
<1>5. CASE InitialSync
  <2>1. VersionKnown'
    BY <1>5 DEF InitialSync, VersionKnown
  <2>2. UNCHANGED <<wv, cwv>>
    BY <1>5 DEF InitialSync
  <2>3. CASE UNCHANGED mailbox
    BY <2>1, <2>2, <2>3 DEF MailInOrder
  <2>4. CASE mailbox' = Append(mailbox, Call("pause"))
    BY <2>1, <2>2, <2>4, AppendVersions
  <2> QED
    BY <2>3, <2>4, <1>5 DEF InitialSync
<1>6. CASE EndInitialValidation \/ EndValidation
  <2>1. mailbox' = Append(mailbox, Call("resume")) /\ UNCHANGED <<wv, cwv>>
    BY <1>6 DEF EndInitialValidation, EndValidation
  <2>2. VersionKnown'
    BY <1>6 DEF EndInitialValidation, EndValidation, VersionKnown
  <2> QED
    BY <2>1, <2>2, AppendVersions
<1>7. CASE BeginValidation
  <2>1. mailbox' = Append(mailbox, Call("pause")) /\ UNCHANGED <<wv, cwv>>
    BY <1>7 DEF BeginValidation
  <2>2. VersionKnown'
    BY <1>7 DEF BeginValidation, VersionKnown
  <2> QED
    BY <2>1, <2>2, AppendVersions
<1>8. CASE BufferReady \/ BufferShort \/ HealthCheckFails \/ HealthCheckPasses
           \/ SampleStep \/ SampleNone \/ SampleError \/ TrainStep \/ StepFails
  <2>1. same
    BY <1>8 DEF BufferReady, BufferShort, HealthCheckFails, HealthCheckPasses,
                SampleStep, SampleNone, SampleError, TrainStep, StepFails
  <2> QED
    BY <1>1, <2>1
<1>9. CASE PrepareForRefit
  BY <1>9 DEF PrepareForRefit, MailInOrder, VersionKnown
<1>10. CASE SyncWeights
  <2>1. mailbox = <<>> /\ refitRequested
    BY <1>10 DEF SyncWeights, Handshake
  <2>2. mailbox' = <<SetVersion(wv + 1), Call("resume_after_refit")>>
    BY <1>10, <2>1 DEF SyncWeights, RefitCalls
  <2>3. MailInOrder'
    <3> DEFINE a == SetVersion(wv + 1)
               b == Call("resume_after_refit")
    <3>0. wv' = wv + 1 /\ mailbox' = <<a, b>>
      BY <1>10, <2>2 DEF SyncWeights
    <3> HIDE DEF a, b
    <3>1. /\ Len(mailbox') = 2
          /\ mailbox'[1] = a
          /\ mailbox'[2] = b
      BY <3>0
    <3> USE DEF a, b
    <3>2. /\ mailbox'[1].call = "set_weight_version"
          /\ mailbox'[1].version = wv'
          /\ mailbox'[2].call = "resume_after_refit"
      BY <3>0, <3>1 DEF SetVersion, Call
    <3>3. \A i \in 1 .. Len(mailbox') : i = 1 \/ i = 2
      BY <3>1
    <3>4. 1 \in 1 .. (2 - 1)
      OBVIOUS
    <3> QED
      BY <3>2, <3>3, <3>4 DEF MailInOrder
  <2>4. VersionKnown'
    BY <1>10, <2>1 DEF SyncWeights, VersionKnown, TypeOK
  <2> QED
    BY <2>3, <2>4
<1>11. CASE Quiesced \/ NoValidation \/ SaveDataloader \/ SaveBuffer \/ Finalize
            \/ NoSave \/ Advance
  <2>1. same
    BY <1>11 DEF Quiesced, NoValidation, SaveDataloader, SaveBuffer, Finalize,
                 NoSave, Advance
  <2> QED
    BY <1>1, <2>1
<1>12. CASE UNCHANGED vars
  BY <1>1, <1>12 DEF vars
<1> QED
  BY <1>2, <1>3, <1>4, <1>5, <1>6, <1>7, <1>8, <1>9, <1>10, <1>11, <1>12
     DEF Next, CollectorStep, TrainerStep, Terminated

\* So is what the mail says of the versions.
LEMMA VersionsHold == Spec => [](TypeOK /\ MailInOrder /\ VersionKnown)
<1>1. Init => MailInOrder /\ VersionKnown
  BY DEF Init, MailInOrder, VersionKnown, SetVersion
<1>2. TypeOK /\ Handshake /\ MailInOrder /\ VersionKnown /\ [Next]_vars
          => (MailInOrder /\ VersionKnown)'
  BY VersionsStep
<1> QED
  BY <1>1, <1>2, HandshakeHolds, PTL DEF Spec

\* A group takes its label when its rollout starts, when the collector knows
\* the version in the engine; it keeps it in the buffer and in training.
LEMMA LabelsStep ==
    ASSUME TypeOK, VersionKnown, Labels, [Next]_vars
    PROVE  Labels'
<1> DEFINE same == UNCHANGED <<genWeights, genVersion, store, trained>>
<1>1. ASSUME same PROVE Labels'
  BY <1>1 DEF Labels, HonestGroups
<1>2. CASE StartGenerate
  BY <1>2 DEF StartGenerate, VersionKnown, Labels, HonestGroups
<1>3. CASE EnqueueGroup
  <2> DEFINE e == Entry([id |-> nextId, prompt |-> <<pos, g>>,
                         weights |-> genWeights], genVersion, nextTarget)
  <2>1. store' = store \cup {e}
    BY <1>3 DEF EnqueueGroup, Add
  <2>2. e.traj.weights = genWeights /\ e.version = genVersion
    BY DEF Entry
  <2>3. HonestGroups(store)'
    BY <2>1, <2>2 DEF Labels, HonestGroups
  <2> QED
    BY <1>3, <2>3 DEF EnqueueGroup, Labels, HonestGroups
<1>4. CASE SampleStep
  <2> PICK sel \in SUBSET store : /\ Sample(P, wv, MaxAge, sel)
                                  /\ trained' = Append(trained, sel)
    BY <1>4 DEF SampleStep
  <2>1. HonestGroups(store)' /\ HonestGroups(sel)
    BY DEF Sample, Labels, HonestGroups
  <2>2. \A k \in 1 .. Len(trained') : trained'[k] = sel \/
            (k \in 1 .. Len(trained) /\ trained'[k] = trained[k])
    BY DEF TypeOK
  <2>3. UNCHANGED <<genWeights, genVersion>>
    BY <1>4 DEF SampleStep
  <2>4. ASSUME NEW k \in 1 .. Len(trained') PROVE HonestGroups(trained'[k])
    BY <2>1, <2>2 DEF Labels, HonestGroups
  <2> QED
    BY <2>1, <2>3, <2>4 DEF Labels, HonestGroups
<1>5. CASE Pull \/ LetGo \/ Generated \/ Scored \/ CountGroup \/ LoopDies \/ Deliver
  BY <1>1, <1>5 DEF Pull, LetGo, Generated, Scored, CountGroup, LoopDies, Deliver
<1>6. CASE GenerationFails \/ ScoringFails
  BY <1>1, <1>6 DEF GenerationFails, ScoringFails, Fail
<1>7. CASE InitialSync \/ EndInitialValidation \/ BufferReady \/ BufferShort
            \/ HealthCheckFails \/ HealthCheckPasses \/ SampleNone \/ SampleError
           \/ TrainStep \/ StepFails
  BY <1>1, <1>7 DEF InitialSync, EndInitialValidation, BufferReady,
     BufferShort, HealthCheckFails, HealthCheckPasses, SampleNone,
                    SampleStalls, SampleError, TrainStep, StepFails
<1>8. CASE PrepareForRefit \/ Quiesced \/ SyncWeights \/ BeginValidation
           \/ EndValidation \/ NoValidation
  BY <1>1, <1>8 DEF PrepareForRefit, Quiesced, SyncWeights, BeginValidation,
                    EndValidation, NoValidation
<1>9. CASE SaveDataloader \/ SaveBuffer \/ Finalize \/ NoSave \/ Advance
  BY <1>1, <1>9 DEF SaveDataloader, SaveBuffer, StateDict, Finalize, NoSave,
                    Advance
<1>10. CASE UNCHANGED vars
  BY <1>1, <1>10 DEF vars
<1> QED
  BY <1>2, <1>3, <1>4, <1>5, <1>6, <1>7, <1>8, <1>9, <1>10
     DEF Next, CollectorStep, TrainerStep, Terminated

\* The labels of the single steps' groups are the labels of all of them.
LEMMA LabelsLabelled == ASSUME Labels PROVE LabelledWeights
<1> SUFFICES ASSUME NEW e \in store \cup TrainedGroups
             PROVE  e.traj.weights \in {e.version, Unsynced}
  BY DEF LabelledWeights
<1>1. CASE e \in store
  BY <1>1 DEF Labels, HonestGroups
<1>2. CASE e \in TrainedGroups
  <2> PICK k \in 1 .. Len(trained) : e \in trained[k]
    BY <1>2 DEF TrainedGroups
  <2> QED
    BY DEF Labels, HonestGroups
<1> QED
  BY <1>1, <1>2

\* A group in the buffer or in a trained step is labelled with the version of
\* the weights that generated it, unless it predates the first sync: the order
\* of set_weight_version and resume_after_refit and the refit flag suffice.
THEOREM LabelsAreHonest == Spec => []LabelledWeights
<1>1. Init => Labels
  BY DEF Init, Labels, HonestGroups
<1>2. TypeOK /\ VersionKnown /\ Labels /\ [Next]_vars => Labels'
  BY LabelsStep
<1>3. Labels => LabelledWeights
  BY LabelsLabelled
<1> QED
  BY <1>1, <1>2, <1>3, VersionsHold, PTL DEF Spec

-------------------------------------------------------------------------------
(* The target bookkeeping: the collector's counters, the buffer and the       *)
(* trainer's steps agree, so no group is left behind, and no group in the     *)
(* buffer becomes stale.                                                      *)

\* The trainer has this step's groups in hand and its version is not yet up.
InHand == tpc \in {"train", "refit", "quiescing", "syncing"}

\* The number of trained steps follows the trainer's version.
TrainedSteps ==
    /\ Len(trained) \in {wv, wv + 1}
    /\ InHand => Len(trained) = wv + 1
    /\ ~InHand /\ tpc # "failed" => Len(trained) = wv

\* Only sampling lengthens the trained history, only the sync raises the version.
LEMMA TrainedStepsStep ==
    ASSUME TypeOK, TrainedSteps, [Next]_vars
    PROVE  TrainedSteps'
<1> USE DEF TrainedSteps, InHand
<1>1. CASE UNCHANGED <<tpc, wv, trained>>
  BY <1>1
<1>2. CASE SampleStep
  <2> PICK sel \in SUBSET store : trained' = Append(trained, sel)
    BY <1>2 DEF SampleStep
  <2>1. Len(trained') = Len(trained) + 1
    BY DEF TypeOK
  <2> QED
    BY <1>2, <2>1 DEF SampleStep, TypeOK
<1>3. CASE SyncWeights
  BY <1>3 DEF SyncWeights, TypeOK
<1>4. CASE InitialSync \/ EndInitialValidation \/ BufferReady \/ BufferShort
          \/ HealthCheckFails \/ HealthCheckPasses \/ SampleNone \/ SampleError
  BY <1>4 DEF InitialSync, EndInitialValidation, BufferReady, BufferShort,
     HealthCheckFails, HealthCheckPasses, SampleNone, SampleError
<1>5. CASE TrainStep \/ StepFails \/ PrepareForRefit \/ Quiesced
           \/ BeginValidation \/ EndValidation \/ NoValidation
  BY <1>5 DEF TrainStep, StepFails, PrepareForRefit, Quiesced,
              BeginValidation, EndValidation, NoValidation
<1>6. CASE SaveDataloader \/ SaveBuffer \/ Finalize \/ NoSave \/ Advance
  BY <1>6 DEF SaveDataloader, SaveBuffer, Finalize, NoSave, Advance
<1>7. CASE CollectorStep \/ LoopDies \/ Deliver
  BY <1>1, <1>7 DEF CollectorStep, Pull, LetGo, StartGenerate, Generated,
        Scored, GenerationFails, ScoringFails, Fail, EnqueueGroup, CountGroup,
        LoopDies, Deliver
<1>8. CASE UNCHANGED vars
  BY <1>1, <1>8 DEF vars
<1> QED
  BY <1>2, <1>3, <1>4, <1>5, <1>6, <1>7, <1>8
     DEF Next, TrainerStep, Terminated

\* One step moves the trained history and the version together.
LEMMA TrainedStepsHold == Spec => [](TypeOK /\ TrainedSteps)
<1>1. Init => TrainedSteps
  BY DEF Init, TrainedSteps, InHand
<1>2. TypeOK /\ TrainedSteps /\ [Next]_vars => TrainedSteps'
  BY TrainedStepsStep
<1> QED
  BY <1>1, <1>2, TypeCorrect, PTL DEF Spec

-------------------------------------------------------------------------------
(* The quota of every target.                                                *)

\* The inductive invariant behind TargetQuota and NothingLeftBehind.
Quota ==
    /\ IsFiniteSet(store)
    /\ groupsForTarget < P
    /\ \A e \in store : e.traj.id < nextId
    /\ Len(trained) <= EffectiveTarget
    /\ NothingLeftBehind
    /\ TargetQuota

\* Steps that touch neither the buffer nor the counters keep the quota.
LEMMA QuotaStable ==
    ASSUME Quota,
           UNCHANGED <<store, trained, nextTarget, groupsForTarget, nextId>>,
           cpc = "added" <=> cpc' = "added"
    PROVE  Quota'
<1>1. EffectiveTarget' = EffectiveTarget /\ EffectiveGroups' = EffectiveGroups
  BY DEF EffectiveTarget, EffectiveGroups, TargetAfter, GroupsAfter, TargetFilled
<1> QED
  BY <1>1 DEF Quota, NothingLeftBehind, TargetQuota, CountOf

\* Adding a group to the buffer raises the count of its target by one, and the
\* counters that the collector will have agree with it.
LEMMA QuotaEnqueue ==
    ASSUME TypeOK, Quota, EnqueueGroup
    PROVE  Quota'
<1> DEFINE traj == [id |-> nextId, prompt |-> <<pos, g>>, weights |-> genWeights]
           e == Entry(traj, genVersion, nextTarget)
           Of(t) == {x \in store : x.target = t}
<1>1. /\ store' = store \cup {e} /\ cpc = "adding" /\ cpc' = "added"
      /\ nextId' = nextId + 1
      /\ UNCHANGED <<trained, nextTarget, groupsForTarget>>
  BY DEF EnqueueGroup, Add
<1>2. e.target = nextTarget /\ e.traj.id = nextId
  BY DEF Entry
<1>3. /\ nextId \in Nat /\ nextTarget \in Nat /\ groupsForTarget \in Nat
      /\ P \in Nat \ {0} /\ Len(trained) \in Nat
      /\ \A x \in store : x.traj.id \in Nat /\ x.target \in Nat
  BY GRPOAssumption DEF TypeOK, Entries, Trajectories
<1>4. e \notin store
  BY <1>2, <1>3 DEF Quota
<1>5. EffectiveTarget = nextTarget /\ EffectiveGroups = groupsForTarget
  BY <1>1 DEF EffectiveTarget, EffectiveGroups
<1>6. /\ EffectiveTarget' = IF groupsForTarget + 1 >= P THEN nextTarget + 1
                            ELSE nextTarget
      /\ EffectiveGroups' = IF groupsForTarget + 1 >= P THEN 0
                            ELSE groupsForTarget + 1
  BY <1>1 DEF EffectiveTarget, EffectiveGroups, TargetAfter, GroupsAfter,
              TargetFilled
<1> HIDE DEF e, traj
<1>7. CountOf(nextTarget)' = groupsForTarget + 1
  <2>1. {x \in store' : x.target = nextTarget} = Of(nextTarget) \cup {e}
    BY <1>1, <1>2
  <2>2. IsFiniteSet(Of(nextTarget))
    BY FS_Subset DEF Quota
  <2>3. Cardinality(Of(nextTarget)) = groupsForTarget
    BY <1>5 DEF Quota, TargetQuota, CountOf
  <2>4. e \notin Of(nextTarget)
    BY <1>4
  <2>5. Cardinality(Of(nextTarget) \cup {e}) = groupsForTarget + 1
    BY <2>2, <2>3, <2>4, FS_AddElement
  <2> QED
    BY <2>1, <2>5, <1>1 DEF CountOf
<1>8. ASSUME NEW t \in Nat, t # nextTarget PROVE CountOf(t)' = CountOf(t)
  <2>1. {x \in store' : x.target = t} = Of(t)
    BY <1>1, <1>2, <1>8
  <2> QED
    BY <2>1 DEF CountOf
<1>9. IsFiniteSet(store')
  BY <1>1, FS_AddElement DEF Quota
<1>10. \A x \in store' : x.traj.id < nextId'
  BY <1>1, <1>2, <1>3 DEF Quota
<1>11. NothingLeftBehind'
  BY <1>1, <1>2, <1>3, <1>5 DEF Quota, NothingLeftBehind
<1>12. Len(trained') <= EffectiveTarget'
  BY <1>1, <1>3, <1>5, <1>6 DEF Quota
<1>13. TargetQuota'
  <2>1. \A x \in store' : x.target <= EffectiveTarget'
    BY <1>1, <1>2, <1>3, <1>5, <1>6 DEF Quota, TargetQuota
  <2>2. ASSUME NEW t \in Len(trained') .. EffectiveTarget' - 1
        PROVE  CountOf(t)' = P
    <3>1. t \in Nat
      BY <1>1, <1>3
    <3>2. CASE t = nextTarget
      <4>1. groupsForTarget + 1 >= P
        BY <2>2, <3>2, <1>3, <1>6
      <4> QED
        BY <4>1, <3>2, <1>1, <1>3, <1>7 DEF Quota, CountOf
    <3>3. CASE t # nextTarget
      <4>1. t \in Len(trained) .. EffectiveTarget - 1
        BY <2>2, <3>1, <3>3, <1>1, <1>3, <1>5, <1>6
      <4>2. CountOf(t) = P
        BY <4>1 DEF Quota, TargetQuota
      <4> QED
        BY <4>2, <3>1, <3>3, <1>8
    <3> QED
      BY <3>2, <3>3
  <2>3. CountOf(EffectiveTarget)' = EffectiveGroups'
    <3>1. CASE groupsForTarget + 1 >= P
      <4>1. Of(nextTarget + 1) = {}
        BY <1>3, <1>5 DEF Quota, TargetQuota
      <4>2. CountOf(nextTarget + 1)' = 0
        <5>1. CountOf(nextTarget + 1) = 0
          BY <4>1, FS_EmptySet DEF CountOf
        <5>2. nextTarget + 1 \in Nat /\ nextTarget + 1 # nextTarget
          BY <1>3
        <5>3. \A t \in Nat : t # nextTarget => CountOf(t)' = CountOf(t)
          BY <1>8
        <5> QED
          BY <5>1, <5>2, <5>3, <1>1 DEF CountOf
      <4> QED
        BY <4>2, <3>1, <1>1, <1>6 DEF CountOf
    <3>2. CASE ~(groupsForTarget + 1 >= P)
      BY <3>2, <1>1, <1>6, <1>7 DEF CountOf
    <3> QED
      BY <3>1, <3>2
  <2> QED
    BY <2>1, <2>2, <2>3 DEF TargetQuota
<1> QED
  BY <1>1, <1>9, <1>10, <1>11, <1>12, <1>13 DEF Quota

\* A sampled step takes all the groups of its target, because there are exactly
\* num_prompts_per_step of them: none of them stays behind.
LEMMA QuotaSample ==
    ASSUME TypeOK, TrainedSteps, Quota, SampleStep
    PROVE  Quota'
<1> DEFINE Of(t) == {x \in store : x.target = t}
<1> PICK sel \in SUBSET store : /\ Sample(P, wv, MaxAge, sel)
                                /\ trained' = Append(trained, sel)
  BY DEF SampleStep
<1>1. /\ sel \subseteq Of(wv) /\ Cardinality(sel) = P /\ store' = store \ sel
      /\ sel \subseteq store
  BY DEF Sample, Intended, Valid
<1>2. /\ wv \in Nat /\ Len(trained) = wv /\ Len(trained') = wv + 1
  BY DEF SampleStep, TrainedSteps, InHand, TypeOK
<1>3. UNCHANGED <<nextTarget, groupsForTarget, nextId, cpc>>
  BY DEF SampleStep
<1>4. EffectiveTarget' = EffectiveTarget /\ EffectiveGroups' = EffectiveGroups
  BY <1>3 DEF EffectiveTarget, EffectiveGroups, TargetAfter, GroupsAfter,
              TargetFilled
<1>5. /\ EffectiveTarget \in Nat /\ EffectiveGroups \in Nat /\ EffectiveGroups < P
      /\ P \in Nat \ {0} /\ \A x \in store : x.target \in Nat
  BY GRPOAssumption DEF TypeOK, Entries, Quota, EffectiveTarget, EffectiveGroups,
     TargetAfter, GroupsAfter, TargetFilled
<1>6. IsFiniteSet(Of(wv)) /\ Cardinality(sel) <= Cardinality(Of(wv))
  <2>1. IsFiniteSet(Of(wv))
    BY FS_Subset DEF Quota
  <2> QED
    BY <2>1, <1>1, FS_Subset
<1>7. wv < EffectiveTarget
  <2>1. SUFFICES ASSUME wv = EffectiveTarget PROVE FALSE
    BY <1>2, <1>5 DEF Quota
  <2>2. Cardinality(Of(wv)) = EffectiveGroups
    BY <2>1 DEF Quota, TargetQuota, CountOf
  <2> QED
    BY <2>2, <1>1, <1>5, <1>6
<1>8. sel = Of(wv)
  <2>1. wv \in Len(trained) .. EffectiveTarget - 1
    BY <1>2, <1>5, <1>7
  <2>2. Cardinality(Of(wv)) = P
    BY <2>1 DEF Quota, TargetQuota, CountOf
  <2> QED
    BY <2>2, <1>1, <1>6, FS_Subset
<1>9. ASSUME NEW t \in Nat, t # wv PROVE CountOf(t)' = CountOf(t)
  <2>1. {x \in store' : x.target = t} = Of(t)
    BY <1>1, <1>8, <1>9
  <2> QED
    BY <2>1 DEF CountOf
<1>10. IsFiniteSet(store')
  BY <1>1, FS_Subset DEF Quota
<1>11. NothingLeftBehind'
  <2> SUFFICES ASSUME NEW e \in store' PROVE e.target >= wv + 1
    BY <1>2 DEF NothingLeftBehind
  <2>1. e \in store /\ e.target # wv /\ e.target >= wv /\ e.target \in Nat
    BY <1>1, <1>2, <1>5, <1>8 DEF Quota, NothingLeftBehind
  <2> QED
    BY <2>1, <1>2
<1>12. TargetQuota'
  <2>1. \A e \in store' : e.target <= EffectiveTarget'
    BY <1>1, <1>4 DEF Quota, TargetQuota
  <2>2. ASSUME NEW t \in Len(trained') .. EffectiveTarget' - 1
        PROVE  CountOf(t)' = P
    <3>1. t \in Nat /\ t # wv /\ t \in Len(trained) .. EffectiveTarget - 1
      BY <1>2, <1>4, <1>5
    <3> QED
      BY <3>1, <1>9 DEF Quota, TargetQuota
  <2>3. CountOf(EffectiveTarget)' = EffectiveGroups'
    <3>1. \A t \in Nat : t # wv => CountOf(t)' = CountOf(t)
      BY <1>9
    <3>2. Cardinality({e \in store' : e.target = EffectiveTarget})
              = CountOf(EffectiveTarget)
      BY <3>1, <1>2, <1>5, <1>7 DEF CountOf
    <3> QED
      BY <3>2, <1>4 DEF CountOf, Quota, TargetQuota
  <2> QED
    BY <2>1, <2>2, <2>3 DEF TargetQuota
<1>13. Len(trained') <= EffectiveTarget'
  BY <1>2, <1>4, <1>5, <1>7
<1>14. \A e \in store' : e.traj.id < nextId'
  BY <1>1, <1>3 DEF Quota
<1> QED
  BY <1>3, <1>10, <1>11, <1>12, <1>13, <1>14 DEF Quota

\* Counting the added group makes the effective counters the actual ones.
LEMMA QuotaCount ==
    ASSUME TypeOK, Quota, CountGroup
    PROVE  Quota'
<1>1. /\ cpc = "added" /\ cpc' # "added"
      /\ nextTarget' = TargetAfter /\ groupsForTarget' = GroupsAfter
      /\ UNCHANGED <<store, trained, nextId>>
  BY DEF CountGroup
<1>2. EffectiveTarget' = EffectiveTarget /\ EffectiveGroups' = EffectiveGroups
  BY <1>1 DEF EffectiveTarget, EffectiveGroups
<1>3. groupsForTarget' < P
  BY <1>1, GRPOAssumption DEF GroupsAfter, TargetFilled, TypeOK
<1> QED
  BY <1>1, <1>2, <1>3 DEF Quota, NothingLeftBehind, TargetQuota, CountOf

\* Every step of the three processes keeps the quota.
LEMMA QuotaStep ==
    ASSUME TypeOK, TrainedSteps, Quota, [Next]_vars
    PROVE  Quota'
<1> DEFINE same ==
      /\ UNCHANGED <<store, trained, nextTarget, groupsForTarget, nextId>>
      /\ cpc = "added" <=> cpc' = "added"
<1>1. ASSUME same PROVE Quota'
  BY <1>1, QuotaStable
<1>2. CASE Pull \/ LetGo \/ StartGenerate \/ Generated \/ Scored
           \/ LoopDies \/ Deliver
  BY <1>1, <1>2 DEF Pull, LetGo, StartGenerate, Generated, Scored, LoopDies,
                    Deliver
<1>3. CASE GenerationFails \/ ScoringFails
  BY <1>1, <1>3 DEF GenerationFails, ScoringFails, Fail
<1>4. CASE EnqueueGroup
  BY <1>4, QuotaEnqueue
<1>5. CASE CountGroup
  BY <1>5, QuotaCount
<1>6. CASE SampleStep
  BY <1>6, QuotaSample
<1>7. CASE InitialSync \/ EndInitialValidation \/ BufferReady \/ BufferShort
          \/ HealthCheckFails \/ HealthCheckPasses \/ SampleNone
           \/ SampleError \/ TrainStep \/ StepFails
  BY <1>1, <1>7 DEF InitialSync, EndInitialValidation, BufferReady,
     BufferShort, HealthCheckFails, HealthCheckPasses, SampleNone,
     SampleStalls,
       SampleError, TrainStep, StepFails
<1>8. CASE PrepareForRefit \/ Quiesced \/ SyncWeights \/ BeginValidation
           \/ EndValidation \/ NoValidation
  BY <1>1, <1>8 DEF PrepareForRefit, Quiesced, SyncWeights, BeginValidation,
                    EndValidation, NoValidation
<1>9. CASE SaveDataloader \/ SaveBuffer \/ Finalize \/ NoSave \/ Advance
  BY <1>1, <1>9 DEF SaveDataloader, SaveBuffer, StateDict, Finalize, NoSave,
                    Advance
<1>10. CASE UNCHANGED vars
  BY <1>1, <1>10 DEF vars
<1> QED
  BY <1>2, <1>3, <1>4, <1>5, <1>6, <1>7, <1>8, <1>9, <1>10
     DEF Next, CollectorStep, TrainerStep, Terminated

\* An empty buffer and collector meet the quota.
LEMMA QuotaInit == ASSUME Init PROVE Quota
<1>1. EffectiveTarget = 0 /\ EffectiveGroups = 0 /\ Len(trained) = 0
  BY DEF Init, EffectiveTarget, EffectiveGroups
<1>2. store = {} /\ \A t : CountOf(t) = 0
  BY FS_EmptySet DEF Init, CountOf
<1> QED
  BY <1>1, <1>2, FS_EmptySet, GRPOAssumption
     DEF Init, Quota, NothingLeftBehind, TargetQuota

\* And the count of each target's groups.
LEMMA QuotaHolds == Spec => [](TypeOK /\ TrainedSteps /\ Quota)
<1>1. Init => Quota
  BY QuotaInit
<1>2. TypeOK /\ TrainedSteps /\ Quota /\ [Next]_vars => Quota'
  BY QuotaStep
<1> QED
  BY <1>1, <1>2, TrainedStepsHold, PTL DEF Spec

\* Every step gets exactly num_prompts_per_step groups, however the refits cut
\* the batches short and whatever fails in the collector.
THEOREM QuotaIsExact == Spec => []TargetQuota
<1>1. Quota => TargetQuota
  BY DEF Quota
<1> QED
  BY <1>1, QuotaHolds, PTL

\* Once a step's groups were sampled, no group meant for it, or for an earlier
\* step, is in the buffer.
THEOREM NoGroupLeftBehind == Spec => []NothingLeftBehind
<1>1. Quota => NothingLeftBehind
  BY DEF Quota
<1> QED
  BY <1>1, QuotaHolds, PTL

-------------------------------------------------------------------------------
(* The age of what is buffered.                                              *)

\* A batch was pulled within the hold-off limit.  While it is enqueued the
\* target may cross that limit once, and then fewer groups count for the new
\* target than the batch has enqueued: too few to cross it again.
BatchInWindow ==
    /\ cpc = "pulled" => nextTarget <= cwv + CollectorAge
    /\ cpc \in {"generating", "scoring"} =>
           nextTarget <= genVersion + CollectorAge /\ g = 0
    /\ cpc \in {"adding", "added"} =>
           /\ g < B
           /\ \/ nextTarget <= genVersion + CollectorAge
              \/ /\ nextTarget = genVersion + CollectorAge + 1
                 /\ groupsForTarget < g

\* Steps that leave the batch in hand and the buffer's entries alone.
LEMMA WindowStable ==
    ASSUME BatchInWindow, AgeBound,
           UNCHANGED <<cpc, cwv, targetVars, genVersion, g>>,
           store' \subseteq store
    PROVE  BatchInWindow' /\ AgeBound'
BY DEF BatchInWindow, AgeBound

\* The batch in hand stays within its window.
LEMMA WindowStep ==
    ASSUME B <= P, TypeOK, MailInOrder, VersionKnown, groupsForTarget < P,
           BatchInWindow, AgeBound, [Next]_vars
    PROVE  BatchInWindow' /\ AgeBound'
<1> USE GRPOAssumption
<1>0. /\ nextTarget \in Nat /\ cwv \in Nat /\ wv \in Nat /\ genVersion \in Nat
      /\ groupsForTarget \in Nat /\ g \in Nat
  BY DEF TypeOK
<1>1. CASE Pull
  BY <1>0, <1>1 DEF Pull, TooFarAhead, BatchInWindow, AgeBound
<1>2. CASE LetGo \/ LoopDies
  BY <1>2 DEF LetGo, LoopDies, BatchInWindow, AgeBound
<1>3. CASE GenerationFails \/ ScoringFails
  BY <1>3 DEF GenerationFails, ScoringFails, Fail, BatchInWindow, AgeBound
<1>4. CASE StartGenerate
  BY <1>4 DEF StartGenerate, BatchInWindow, AgeBound
<1>5. CASE Generated \/ Scored
  BY <1>0, <1>5 DEF Generated, Scored, BatchInWindow, AgeBound
<1>6. CASE EnqueueGroup
  <2> DEFINE e == Entry([id |-> nextId, prompt |-> <<pos, g>>,
                         weights |-> genWeights], genVersion, nextTarget)
  <2>1. /\ store' = store \cup {e} /\ cpc = "adding" /\ cpc' = "added"
        /\ UNCHANGED <<cwv, targetVars, genVersion, g>>
    BY <1>6 DEF EnqueueGroup, Add
  <2>2. e.target = nextTarget /\ e.version = genVersion
    BY DEF Entry
  <2>3. nextTarget <= genVersion + CollectorAge + 1
    BY <2>1, <1>0 DEF BatchInWindow
  <2>4. AgeBound'
    BY <2>1, <2>2, <2>3 DEF AgeBound
  <2> QED
    BY <2>1, <2>4 DEF BatchInWindow
<1>7. CASE CountGroup
  <2>1. /\ cpc = "added" /\ cpc' \in {"idle", "adding"}
        /\ nextTarget' = TargetAfter /\ groupsForTarget' = GroupsAfter
        /\ cpc' = "adding" => g' = g + 1 /\ g + 1 < B
        /\ UNCHANGED <<store, genVersion, cwv>>
    BY <1>0, <1>7 DEF CountGroup
  <2>2. groupsForTarget < P
    OBVIOUS
  <2>3. AgeBound'
    BY <2>1 DEF AgeBound
  <2>4. CASE nextTarget <= genVersion + CollectorAge
    BY <2>1, <2>3, <2>4, <1>0
       DEF BatchInWindow, TargetAfter, GroupsAfter, TargetFilled
  <2>5. CASE /\ nextTarget = genVersion + CollectorAge + 1
             /\ groupsForTarget < g
    <3>1. g < B
      BY <2>1 DEF BatchInWindow
    <3>2. TargetAfter = nextTarget /\ GroupsAfter = groupsForTarget + 1
      BY <3>1, <2>5, <1>0 DEF TargetAfter, GroupsAfter, TargetFilled
    <3> QED
      BY <2>1, <2>3, <2>5, <3>1, <3>2, <1>0 DEF BatchInWindow
  <2> QED
    BY <2>1, <2>3, <2>4, <2>5 DEF BatchInWindow
<1>8. CASE Deliver
  <2>1. cwv <= cwv' /\ cwv' \in Nat
    <3>1. mailbox \in Seq(Messages) /\ mailbox # <<>>
      BY <1>8 DEF Deliver, TypeOK
    <3>2. Head(mailbox) = mailbox[1] /\ 1 \in 1 .. Len(mailbox)
      BY <3>1
    <3>3. Head(mailbox).call = "set_weight_version" => Head(mailbox).version = wv
      BY <3>2 DEF MailInOrder
    <3> QED
      BY <1>0, <1>8, <3>3 DEF Deliver, VersionKnown
  <2>2. UNCHANGED <<cpc, targetVars, genVersion, g, store>>
    BY <1>8 DEF Deliver
  <2> QED
    <3>1. AgeBound'
      BY <2>2 DEF AgeBound
    <3>2. \A a, b, c, d \in Nat : a <= b + d /\ b <= c => a <= c + d
      OBVIOUS
    <3>3. nextTarget <= cwv + CollectorAge => nextTarget <= cwv' + CollectorAge
      <4>1. CollectorAge \in Nat
        BY GRPOAssumption
      <4> HIDE GRPOAssumption
      <4> QED
        BY <2>1, <1>0, <3>2, <4>1, Zenon
    <3>4. BatchInWindow'
      BY <2>2, <3>3 DEF BatchInWindow
    <3> QED
      BY <3>1, <3>4
<1>9. CASE SampleStep
  <2>1. store' \subseteq store
    BY <1>9 DEF SampleStep, Sample
  <2>2. UNCHANGED <<cpc, cwv, targetVars, genVersion, g>>
    BY <1>9 DEF SampleStep
  <2> QED
    BY <2>1, <2>2, WindowStable
<1>10. CASE InitialSync \/ EndInitialValidation \/ BufferReady \/ BufferShort
            \/ HealthCheckFails \/ HealthCheckPasses \/ SampleNone
            \/ SampleError \/ TrainStep \/ StepFails
  BY <1>10, WindowStable DEF InitialSync, EndInitialValidation, BufferReady,
     BufferShort, HealthCheckFails, HealthCheckPasses, SampleNone, SampleStalls,
     SampleError, TrainStep, StepFails
<1>11. CASE PrepareForRefit \/ Quiesced \/ SyncWeights \/ BeginValidation
            \/ EndValidation \/ NoValidation
  BY <1>11, WindowStable DEF PrepareForRefit, Quiesced, SyncWeights,
     BeginValidation, EndValidation, NoValidation
<1>12. CASE SaveDataloader \/ SaveBuffer \/ Finalize \/ NoSave \/ Advance
  BY <1>12, WindowStable DEF SaveDataloader, SaveBuffer, StateDict, Finalize,
     NoSave, Advance
<1>13. CASE UNCHANGED vars
  BY <1>13, WindowStable DEF vars
<1> QED
  BY <1>1, <1>2, <1>3, <1>4, <1>5, <1>6, <1>7, <1>8, <1>9, <1>10, <1>11, <1>12,
     <1>13 DEF Next, CollectorStep, TrainerStep, Terminated

\* With a dataloader batch of at most num_prompts_per_step prompts, a buffered
\* group is at most one step further ahead than the collector's hold-off.
THEOREM AgeIsBounded ==
    ASSUME B <= P
    PROVE  Spec => []AgeBound
<1>1. Init => BatchInWindow /\ AgeBound
  BY DEF Init, BatchInWindow, AgeBound
<1>2. TypeOK /\ MailInOrder /\ VersionKnown /\ Quota /\ BatchInWindow /\ AgeBound
        /\ [Next]_vars => (BatchInWindow /\ AgeBound)'
  BY WindowStep DEF Quota
<1> QED
  BY <1>1, <1>2, VersionsHold, QuotaHolds, PTL DEF Spec

\* What is within the age bound and not left behind is within sample()'s window.
LEMMA NotStale ==
    ASSUME CollectorAge < MaxAge, TypeOK, TrainedSteps, NothingLeftBehind, AgeBound
    PROVE  NeverStale
<1> SUFFICES ASSUME NEW e \in store
             PROVE  ~(e.version < MinValidVersion(wv, MaxAge))
  BY DEF NeverStale, SampleRaises, OldTrajectories
<1>1. e.version \in Nat /\ e.target \in Nat /\ wv \in Nat
  BY DEF TypeOK, Entries
<1>2. e.target >= Len(trained) /\ Len(trained) >= wv
  BY <1>1 DEF NothingLeftBehind, TrainedSteps
<1>3. e.target <= e.version + CollectorAge + 1
  BY DEF AgeBound
<1>4. MaxAge \in Nat /\ CollectorAge \in Nat /\ Len(trained) \in Nat
  BY <1>1, GRPOAssumption DEF TrainedSteps
<1> QED
  BY <1>1, <1>2, <1>3, <1>4 DEF MinValidVersion

\* sample() never finds a stale trajectory, and so never ends the run, when the
\* trainer's window exceeds the collector's hold-off by at least one step.
THEOREM SampleNeverStale ==
    ASSUME B <= P, CollectorAge < MaxAge
    PROVE  Spec => []NeverStale
<1>1. TypeOK /\ TrainedSteps /\ Quota /\ AgeBound => NeverStale
  BY NotStale DEF Quota
<1> QED
  BY <1>1, AgeIsBounded, QuotaHolds, PTL

-------------------------------------------------------------------------------
(* The size of the buffer.                                                   *)

\* A nonempty set of naturals has a least element: what induction over the
\* targets rests on.
LEMMA LeastNat ==
    ASSUME NEW T, T \subseteq Nat, T # {}
    PROVE  \E m \in T : \A n \in T : m <= n
<1> DEFINE R == OpToRel(<, Nat)
<1>1. IsWellFoundedOn(R, Nat)
  BY NatLessThanWellFounded
<1>2. \A n, k \in Nat : n < k => <<n, k>> \in R
  BY DEF OpToRel
<1> HIDE DEF R
<1>3. PICK m \in T : \A n \in T : ~ (<<n, m>> \in R)
  BY <1>1, WFMin
<1>4. \A n \in T : m <= n
  <2> TAKE n \in T
  <2>1. n \in Nat /\ m \in Nat
    OBVIOUS
  <2>2. ~(n < m)
    BY <1>2, <1>3, <2>1
  <2> QED
    BY <2>1, <2>2
<1> QED
  BY <1>4

\* Disjoint finite sets add up.
LEMMA DisjointCardinality ==
    ASSUME NEW S, NEW T, IsFiniteSet(S), IsFiniteSet(T), S \cap T = {}
    PROVE  /\ IsFiniteSet(S \cup T)
           /\ Cardinality(S \cup T) = Cardinality(S) + Cardinality(T)
<1>1. Cardinality(S \cap T) = 0
  BY FS_EmptySet
<1>2. Cardinality(S) \in Nat /\ Cardinality(T) \in Nat
  BY FS_CardinalityType
<1>3. /\ IsFiniteSet(S \cup T)
      /\ Cardinality(S \cup T)
             = Cardinality(S) + Cardinality(T) - Cardinality(S \cap T)
  BY FS_Union
<1> QED
  BY <1>1, <1>2, <1>3

\* The groups of the targets below n.
Below(n) == {e \in store : e.target < n}

\* The targets from the trained steps up to the one being filled have
\* num_prompts_per_step groups each, so the groups below a target multiply up.
LEMMA BelowCounted ==
    ASSUME TypeOK, Quota,
           NEW n \in Len(trained) .. EffectiveTarget
    PROVE  Cardinality(Below(n)) = P * (n - Len(trained))
<1> DEFINE L == Len(trained)
           Of(t) == {e \in store : e.target = t}
           Good(m) == Cardinality(Below(m)) = P * (m - L)
           Bad == {m \in L .. EffectiveTarget : ~Good(m)}
<1>1. /\ L \in Nat /\ EffectiveTarget \in Nat /\ P \in Nat
      /\ IsFiniteSet(store)
      /\ \A e \in store : e.target \in Nat /\ L <= e.target
      /\ \A t \in L .. EffectiveTarget - 1 : Cardinality(Of(t)) = P
  BY GRPOAssumption DEF TypeOK, Entries, Quota, NothingLeftBehind, TargetQuota,
     CountOf, EffectiveTarget, TargetAfter, TargetFilled
<1> HIDE DEF L
<1> SUFFICES ASSUME Bad # {} PROVE FALSE
  BY DEF L
<1>2. PICK m \in Bad : \A k \in Bad : m <= k
  <2>1. Bad \subseteq Nat
    BY <1>1
  <2> HIDE DEF Bad
  <2> QED
    BY <2>1, LeastNat
<1>3. CASE m = L
  <2>1. Below(m) = {}
    BY <1>1, <1>3 DEF Below
  <2>2. Cardinality(Below(m)) = 0
    BY <2>1, FS_EmptySet
  <2> QED
    BY <2>2, <1>1, <1>3
<1>4. CASE m # L
  <2>1. m - 1 \in L .. EffectiveTarget - 1 /\ m \in Nat
    BY <1>1, <1>4
  <2>2. Good(m - 1)
    BY <1>1, <1>2, <2>1
  <2>3. Below(m) = Below(m - 1) \cup Of(m - 1)
    BY <1>1, <2>1 DEF Below
  <2>4. Below(m - 1) \cap Of(m - 1) = {}
    BY <1>1, <2>1 DEF Below
  <2>5. IsFiniteSet(Below(m - 1)) /\ IsFiniteSet(Of(m - 1))
    BY <1>1, FS_Subset DEF Below
  <2>6. Cardinality(Below(m)) = Cardinality(Below(m - 1)) + Cardinality(Of(m - 1))
    <3> HIDE DEF Of
    <3> QED
      BY <2>3, <2>4, <2>5, DisjointCardinality
  <2>7. Cardinality(Of(m - 1)) = P
    BY <1>1, <2>1
  <2>8. P * (m - 1 - L) + P = P * (m - L)
    BY <1>1, <2>1
  <2> QED
    BY <2>2, <2>6, <2>7, <2>8
<1> QED
  BY <1>3, <1>4

\* The whole buffer: full targets, and the one being filled.
LEMMA StoreCounted ==
    ASSUME TypeOK, Quota
    PROVE  Cardinality(store)
               = P * (EffectiveTarget - Len(trained)) + EffectiveGroups
<1> DEFINE N == EffectiveTarget
           Last == {e \in store : e.target = N}
<1>1. /\ N \in Nat /\ Len(trained) \in Nat /\ Len(trained) <= N
      /\ IsFiniteSet(store)
      /\ \A e \in store : e.target \in Nat /\ e.target <= N
      /\ Cardinality(Last) = EffectiveGroups
  BY GRPOAssumption DEF TypeOK, Entries, Quota, TargetQuota, CountOf,
     EffectiveTarget, TargetAfter, TargetFilled
<1>2. Cardinality(Below(N)) = P * (N - Len(trained))
  BY <1>1, BelowCounted
<1> HIDE DEF N
<1>3. store = Below(N) \cup Last /\ Below(N) \cap Last = {}
  BY <1>1 DEF Below
<1>4. IsFiniteSet(Below(N)) /\ IsFiniteSet(Last)
  BY <1>1, FS_Subset DEF Below
<1>5. Cardinality(store) = Cardinality(Below(N)) + Cardinality(Last)
  <2> HIDE DEF Last
  <2> QED
    BY <1>3, <1>4, DisjointCardinality
<1> QED
  BY <1>1, <1>2, <1>5 DEF N

\* The batch in hand was generated by weights the trainer has.
BatchKnown == cpc \in {"generating", "scoring", "adding", "added"} => genVersion <= wv

\* The version only grows while a batch is in hand.
LEMMA BatchKnownStep ==
    ASSUME TypeOK, VersionKnown, BatchKnown, [Next]_vars
    PROVE  BatchKnown'
<1> USE DEF BatchKnown
<1>1. CASE UNCHANGED <<cpc, genVersion, wv>>
  BY <1>1
<1>2. CASE Pull \/ LetGo \/ Generated \/ Scored \/ LoopDies
  BY <1>2 DEF Pull, LetGo, Generated, Scored, LoopDies
<1>3. CASE StartGenerate
  BY <1>3 DEF StartGenerate, VersionKnown
<1>4. CASE GenerationFails \/ ScoringFails
  BY <1>4 DEF GenerationFails, ScoringFails, Fail
<1>5. CASE EnqueueGroup \/ CountGroup
  BY <1>5 DEF EnqueueGroup, CountGroup
<1>6. CASE SyncWeights
  <2>1. wv \in Nat /\ genVersion \in Nat /\ wv' = wv + 1
    BY <1>6 DEF SyncWeights, TypeOK
  <2> QED
    BY <1>6, <2>1 DEF SyncWeights
<1>7. CASE InitialSync \/ EndInitialValidation \/ BufferReady \/ BufferShort
          \/ HealthCheckFails \/ HealthCheckPasses \/ SampleStep \/ SampleNone
          \/ SampleError \/ TrainStep \/ StepFails
  BY <1>1, <1>7 DEF InitialSync, EndInitialValidation, BufferReady,
     BufferShort, HealthCheckFails, HealthCheckPasses, SampleStep, SampleNone,
     SampleError, TrainStep, StepFails
<1>8. CASE PrepareForRefit \/ Quiesced \/ BeginValidation \/ EndValidation
           \/ NoValidation \/ SaveDataloader \/ SaveBuffer \/ Finalize
           \/ NoSave \/ Advance
  BY <1>1, <1>8 DEF PrepareForRefit, Quiesced, BeginValidation, EndValidation,
     NoValidation, SaveDataloader, SaveBuffer, Finalize, NoSave, Advance
<1>9. CASE Deliver \/ UNCHANGED vars
  BY <1>1, <1>9 DEF Deliver, vars
<1> QED
  BY <1>2, <1>3, <1>4, <1>5, <1>6, <1>7, <1>8, <1>9
     DEF Next, CollectorStep, TrainerStep, Terminated

\* The batch in hand is dated throughout.
LEMMA BatchKnownHolds == Spec => []BatchKnown
<1>1. Init => BatchKnown
  BY DEF Init, BatchKnown
<1>2. TypeOK /\ VersionKnown /\ BatchKnown /\ [Next]_vars => BatchKnown'
  BY BatchKnownStep
<1> QED
  BY <1>1, <1>2, TypeCorrect, VersionsHold, PTL DEF Spec

\* The buffer of optimal_buffer_size is never full when the collector enqueues,
\* so the collector and the trainer never wait for each other: the batch in hand
\* reaches at most one target beyond the collector's hold-off, and late arrivals
\* have twice the trainer's window.
THEOREM BufferNeverFull ==
    ASSUME B <= P, CollectorAge + 2 <= 2 * MaxAge
    PROVE  Spec => []NeverFull
<1>1. TypeOK /\ TrainedSteps /\ Quota /\ BatchInWindow /\ BatchKnown => NeverFull
  <2> SUFFICES ASSUME TypeOK, TrainedSteps, Quota, BatchInWindow, BatchKnown,
                      cpc = "adding"
               PROVE  ~(Cardinality(store) >= MaxSize)
    BY DEF NeverFull, Full
  <2> DEFINE d == nextTarget - Len(trained)
  <2>1. /\ P \in Nat \ {0} /\ CollectorAge \in Nat /\ MaxAge \in Nat
        /\ B \in Nat /\ MaxSize = P * MaxAge * 2
    BY GRPOAssumption, BufferSizeAssumption
  <2>2. /\ nextTarget \in Nat /\ groupsForTarget \in Nat /\ g \in Nat /\ wv \in Nat
        /\ genVersion \in Nat /\ Len(trained) \in Nat
    BY DEF TypeOK
  <2>3. EffectiveTarget = nextTarget /\ EffectiveGroups = groupsForTarget
    BY DEF EffectiveTarget, EffectiveGroups
  <2>4. Cardinality(store) = P * d + groupsForTarget
    BY <2>3, StoreCounted
  <2>5. d \in Nat /\ groupsForTarget < P
    BY <2>2, <2>3 DEF Quota
  <2>6. d <= CollectorAge \/ (d <= CollectorAge + 1 /\ groupsForTarget < P)
    BY <2>1, <2>2 DEF BatchInWindow, BatchKnown, TrainedSteps
  <2>7. d + 1 <= MaxAge * 2
    BY <2>1, <2>5, <2>6
  <2> HIDE DEF d
  <2>8. P * d + P = P * (d + 1) /\ P * (d + 1) <= P * (MaxAge * 2)
    BY <2>1, <2>5, <2>7
  <2>9. P * MaxAge * 2 = P * (MaxAge * 2)
    BY <2>1
  <2>10. P * d \in Nat /\ P * (d + 1) \in Nat /\ P * (MaxAge * 2) \in Nat
    BY <2>1, <2>5
  <2> QED
    BY <2>1, <2>2, <2>4, <2>5, <2>8, <2>9, <2>10
<1>2. Init => BatchInWindow /\ AgeBound
  BY DEF Init, BatchInWindow, AgeBound
<1>3. TypeOK /\ MailInOrder /\ VersionKnown /\ Quota /\ BatchInWindow /\ AgeBound
        /\ [Next]_vars => (BatchInWindow /\ AgeBound)'
  BY WindowStep DEF Quota
<1> QED
  BY <1>1, <1>2, <1>3, BatchKnownHolds, VersionsHold, QuotaHolds, PTL DEF Spec
-------------------------------------------------------------------------------
(* Crashes and restarts.                                                     *)

\* The states in which the trainer's version is one ahead of its step.
Synced ==
    {"synced", "validating", "checkpoint", "save_buffer", "finalize", "advance"}

InOrder(history) ==
    \A i \in 1 .. Len(history) : \A e \in history[i] : e.target = i - 1

\* Step, version and trained history move together, in the process and in the
\* checkpoint it would restart from.
StepsInLine ==
    /\ tpc \in Synced => wv = step + 1
    /\ tpc \notin Synced \cup {"failed"} => wv = step
    /\ tpc = "failed" => Len(trained) - step \in {0, 1}
    /\ Len(disk.trained) = disk.step
    /\ InOrder(trained) /\ InOrder(disk.trained)

\* What each of the three processes keeps across its own steps, and a restart
\* establishes anew.
Base ==
    /\ TypeOK
    /\ crashes \in Nat
    /\ Handshake
    /\ MailInOrder
    /\ VersionKnown
    /\ TrainedSteps
    /\ StepsInLine

\* A restart reads a well-typed checkpoint, and what it restores into the new
\* buffer is a part of what was saved.
LEMMA ResumeReads ==
    ASSUME TypeOK, Resume
    PROVE  /\ disk.step \in Nat /\ disk.cursor \in Nat
           /\ disk.trained \in Seq(SUBSET Entries)
           /\ disk.buffer.entries \subseteq Entries
           /\ store' \subseteq disk.buffer.entries
           /\ snapshot'.entries = {}
<1>1. disk \in Checkpoints
  BY DEF TypeOK
<1>2. disk.buffer \in BufferStates
  BY <1>1 DEF Checkpoints
<1>3. /\ store' \in {Restored(disk.buffer, {}), Restored(NotPersisted, {})}
      /\ snapshot' = NotPersisted
  BY DEF Resume
<1> QED
  BY <1>1, <1>2, <1>3 DEF Checkpoints, BufferStates, Restored, NotPersisted

\* A restarted process satisfies the invariants of a fresh one.
LEMMA BaseResume ==
    ASSUME Base, Resume
    PROVE  Base'
<1> USE DEF Base, CollectorStart, ResumeStep
<1>1. /\ disk.step \in Nat /\ disk.cursor \in Nat
      /\ disk.trained \in Seq(SUBSET Entries)
      /\ store' \in SUBSET Entries
  BY ResumeReads
<1>2. /\ wv' = disk.step /\ cwv' = disk.step /\ step' = disk.step
      /\ mailbox' = <<SetVersion(disk.step)>> /\ engine' = Unsynced
      /\ tpc' = "init_sync" /\ cpc' = "idle" /\ trained' = disk.trained
      /\ disk' = disk
  BY DEF Resume
<1>3. mailbox' \in Seq(Messages)
  BY <1>1, <1>2 DEF SetVersion, Messages
<1>4. snapshot' \in BufferStates
  BY DEF Resume, NotPersisted, BufferStates
<1>5. TypeOK'
  BY <1>1, <1>3, <1>4 DEF TypeOK, Resume, TrainerStates, CollectorStates
<1>6. MailInOrder' /\ VersionKnown'
  BY <1>1, <1>2 DEF MailInOrder, VersionKnown, SetVersion
<1>7. Handshake'
  BY <1>2 DEF Handshake
<1>8. TrainedSteps'
  BY <1>1, <1>2 DEF TrainedSteps, StepsInLine, InHand
<1>9. StepsInLine'
  BY <1>1, <1>2 DEF StepsInLine, Synced
<1> QED
  BY <1>5, <1>6, <1>7, <1>8, <1>9 DEF Resume

\* The loop of a finished run that was resumed ends at once.
LEMMA BaseLoopOver ==
    ASSUME Base, LoopOver
    PROVE  Base'
<1> USE DEF Base
<1>1. /\ tpc = "loop" /\ tpc' = "done"
      /\ UNCHANGED <<step, wv, timedOut, trained, mailbox, collectorVars,
                     storeVars, engine, diskVars, crashes>>
  BY DEF LoopOver
<1>2. TypeOK'
  BY <1>1 DEF TypeOK, TrainerStates
<1>3. Handshake' /\ MailInOrder' /\ VersionKnown'
  BY <1>1 DEF Handshake, MailInOrder, VersionKnown
<1>4. TrainedSteps' /\ StepsInLine'
  BY <1>1 DEF TrainedSteps, StepsInLine, InHand, Synced
<1> QED
  BY <1>1, <1>2, <1>3, <1>4

\* Sampling takes the groups of the step that comes next; finalizing a
\* checkpoint records as many steps as it holds.
LEMMA StepsInLineStep ==
    ASSUME TypeOK, TrainedSteps, StepsInLine, [Next]_vars
    PROVE  StepsInLine'
<1> USE DEF StepsInLine, Synced
<1>1. CASE UNCHANGED <<tpc, step, wv, trained, disk>>
  BY <1>1
<1>2. CASE SampleStep
  <2> PICK sel \in SUBSET store : /\ Sample(P, wv, MaxAge, sel)
                                  /\ trained' = Append(trained, sel)
    BY <1>2 DEF SampleStep
  <2>1. \A e \in sel : e.target = wv
    BY DEF Sample, Intended, Valid
  <2>2. tpc = "sample" /\ tpc' = "train" /\ UNCHANGED <<step, wv, disk>>
    BY <1>2 DEF SampleStep
  <2>3. Len(trained) = wv /\ trained \in Seq(SUBSET Entries)
    BY <2>2 DEF TrainedSteps, InHand, TypeOK
  <2>4. InOrder(trained')
    BY <2>1, <2>3 DEF InOrder
  <2> QED
    BY <2>2, <2>4
<1>3. CASE SyncWeights
  BY <1>3 DEF SyncWeights
<1>4. CASE InitialSync \/ EndInitialValidation \/ BufferReady \/ BufferShort
           \/ SampleNone \/ TrainStep \/ PrepareForRefit \/ Quiesced
  BY <1>4 DEF InitialSync, EndInitialValidation, BufferReady, BufferShort,
     SampleNone, TrainStep, PrepareForRefit, Quiesced
<1>5. CASE BeginValidation \/ EndValidation \/ NoValidation \/ SaveDataloader
           \/ SaveBuffer \/ NoSave
  BY <1>5 DEF BeginValidation, EndValidation, NoValidation, SaveDataloader,
     SaveBuffer, NoSave
<1>6. CASE HealthCheckFails \/ HealthCheckPasses \/ SampleError \/ StepFails
  <2>1. step \in Nat /\ wv \in Nat
    BY DEF TypeOK
  <2> QED
    BY <1>6, <2>1 DEF HealthCheckFails, HealthCheckPasses, SampleError,
       StepFails, TrainedSteps, InHand
<1>7. CASE Finalize
  <2>1. /\ tpc = "finalize" /\ tpc' = "advance"
        /\ disk' = [step |-> step + 1, cursor |-> tmpCursor,
                    buffer |-> snapshot, trained |-> trained]
        /\ UNCHANGED <<step, wv, trained>>
    BY <1>7 DEF Finalize
  <2>2. Len(trained) = wv
    BY <2>1 DEF TrainedSteps, InHand
  <2> QED
    BY <2>1, <2>2
<1>8. CASE Advance
  BY <1>8 DEF Advance
<1>9. CASE CollectorStep \/ LoopDies \/ Deliver
  BY <1>1, <1>9 DEF CollectorStep, Pull, LetGo, StartGenerate, Generated,
        Scored, GenerationFails, ScoringFails, Fail, EnqueueGroup, CountGroup,
        LoopDies, Deliver
<1>10. CASE UNCHANGED vars
  BY <1>1, <1>10 DEF vars
<1> QED
  BY <1>2, <1>3, <1>4, <1>5, <1>6, <1>7, <1>8, <1>9, <1>10
     DEF Next, TrainerStep, Terminated

\* Every step of any process does.
LEMMA BaseStep ==
    ASSUME Base, [RNext]_rvars
    PROVE  Base'
<1>1. CASE [Next]_vars /\ UNCHANGED crashes
  BY <1>1, TypeStep, HandshakeStep, VersionsStep, TrainedStepsStep,
     StepsInLineStep DEF Base
<1>2. CASE Resume \/ LoopOver
  BY <1>2, BaseResume, BaseLoopOver
<1> QED
  BY <1>1, <1>2 DEF RNext, rvars

\* The base invariant holds across crashes.
LEMMA BaseHolds == RSpec => []Base
<1>1. RInit => Base
  <2> SUFFICES ASSUME RInit PROVE Base
    OBVIOUS
  <2>1. Init /\ crashes = 0
    BY DEF RInit
  <2>2. TypeOK
    BY <2>1, TypeInit
  <2>3. Handshake /\ MailInOrder /\ VersionKnown
    BY <2>1 DEF Init, Handshake, MailInOrder, VersionKnown, SetVersion
  <2>4. TrainedSteps /\ StepsInLine
    BY <2>1 DEF Init, TrainedSteps, InHand, StepsInLine, Synced, InOrder
  <2> QED
    BY <2>1, <2>2, <2>3, <2>4 DEF Base
<1>2. Base /\ [RNext]_rvars => Base'
  BY BaseStep
<1> QED
  BY <1>1, <1>2, PTL DEF RSpec

\* Whatever was lost in crashes, the lineage of the weights trains every step
\* once and in order, and a checkpoint holds the history up to its own step.
THEOREM LineageIsExact == RSpec => []LineageExact
<1>1. Base => LineageExact
  <2> SUFFICES ASSUME Base PROVE LineageExact
    OBVIOUS
  <2>1. step \in Nat /\ wv \in Nat
    BY DEF Base, TypeOK
  <2>2. Len(trained) - step \in {0, 1}
    BY <2>1 DEF Base, TrainedSteps, StepsInLine, InHand, Synced
  <2> QED
    BY <2>2 DEF LineageExact, Base, StepsInLine, InOrder
<1> QED
  BY <1>1, BaseHolds, PTL

\* The refit handshake survives crashes: a restarted trainer and the new
\* collector start it over from a state without a rollout in flight.
THEOREM RefitIsQuiescedAfterCrash == RSpec => []RefitQuiesced
<1>1. Base => RefitQuiesced
  BY DEF Base, Handshake, RefitQuiesced
<1> QED
  BY <1>1, BaseHolds, PTL

-------------------------------------------------------------------------------
(* The surplus of a target.                                                  *)

\* The groups of S meant for step t, and how many of them this process has put
\* into the buffer at most.
Meant(S, t) == {e \in S : e.target = t}
Fill(t) ==
    IF t < EffectiveTarget THEN P
    ELSE IF t = EffectiveTarget THEN EffectiveGroups ELSE 0

\* At most m groups of S are meant for any one step.
AtMost(S, m) ==
    /\ IsFiniteSet(S)
    /\ \A t \in Nat : Cardinality(Meant(S, t)) <= m

\* Each process adds at most num_prompts_per_step groups to a target, on top of
\* what its predecessors left in the checkpoint.
Surplus ==
    /\ groupsForTarget < P
    /\ IsFiniteSet(store)
    /\ \A t \in Nat : Cardinality(Meant(store, t)) <= crashes * P + Fill(t)
    /\ AtMost(snapshot.entries, (crashes + 1) * P)
    /\ AtMost(disk.buffer.entries, (crashes + 1) * P)

\* A part of a set has at most as many groups for a step.
LEMMA MeantSubset ==
    ASSUME NEW S, NEW T, IsFiniteSet(S), T \subseteq S, NEW t
    PROVE  /\ IsFiniteSet(T)
           /\ Cardinality(Meant(T, t)) \in Nat
           /\ Cardinality(Meant(S, t)) \in Nat
           /\ Cardinality(Meant(T, t)) <= Cardinality(Meant(S, t))
<1>1. /\ Meant(T, t) \subseteq Meant(S, t) /\ Meant(S, t) \subseteq S
  BY DEF Meant
<1>2. IsFiniteSet(Meant(S, t)) /\ IsFiniteSet(T)
  BY <1>1, FS_Subset
<1>3. IsFiniteSet(Meant(T, t)) /\ Cardinality(Meant(T, t)) <= Cardinality(Meant(S, t))
  BY <1>1, <1>2, FS_Subset
<1> QED
  BY <1>2, <1>3, FS_CardinalityType

\* What one process has put in is at most a full step.
LEMMA FillBounded ==
    ASSUME TypeOK, groupsForTarget < P
    PROVE  \A t \in Nat : Fill(t) \in Nat /\ Fill(t) <= P
BY GRPOAssumption
   DEF TypeOK, Fill, EffectiveTarget, EffectiveGroups, TargetAfter, GroupsAfter,
       TargetFilled

\* Steps that add nothing to the buffer and leave the counters alone.
LEMMA SurplusStable ==
    ASSUME Surplus, store' \subseteq store,
           UNCHANGED <<snapshot, disk, nextTarget, groupsForTarget, crashes>>,
           cpc = "added" <=> cpc' = "added",
           TypeOK, crashes \in Nat
    PROVE  Surplus'
<1>1. \A t : Fill(t)' = Fill(t)
  BY DEF Fill, EffectiveTarget, EffectiveGroups, TargetAfter, GroupsAfter,
         TargetFilled
<1>2. IsFiniteSet(store')
  BY MeantSubset DEF Surplus
<1>3. ASSUME NEW t \in Nat
      PROVE  Cardinality(Meant(store', t)) <= crashes' * P + Fill(t)'
  <2>1. /\ Cardinality(Meant(store', t)) \in Nat
        /\ Cardinality(Meant(store, t)) \in Nat
        /\ Cardinality(Meant(store', t)) <= Cardinality(Meant(store, t))
    BY MeantSubset DEF Surplus
  <2>2. Fill(t) \in Nat /\ crashes * P \in Nat
    BY FillBounded, GRPOAssumption DEF Surplus
  <2>3. Cardinality(Meant(store, t)) <= crashes * P + Fill(t)
    BY DEF Surplus
  <2>4. crashes' * P + Fill(t)' = crashes * P + Fill(t)
    BY <1>1
  <2> QED
    BY <2>1, <2>2, <2>3, <2>4
<1>4. \A t \in Nat : Cardinality(Meant(store, t)') <= (crashes * P + Fill(t))'
  BY <1>3 DEF Meant
<1> QED
  BY <1>2, <1>4 DEF Surplus

\* A group that is added is the next one of the target the collector fills.
LEMMA SurplusEnqueue ==
    ASSUME TypeOK, crashes \in Nat, Surplus, EnqueueGroup, UNCHANGED crashes
    PROVE  Surplus'
<1> DEFINE e == Entry([id |-> nextId, prompt |-> <<pos, g>>,
                       weights |-> genWeights], genVersion, nextTarget)
<1>1. /\ store' = store \cup {e} /\ cpc = "adding" /\ cpc' = "added"
      /\ UNCHANGED <<nextTarget, groupsForTarget, snapshot, disk>>
  BY DEF EnqueueGroup, Add
<1>2. e.target = nextTarget
  BY DEF Entry
<1>3. /\ nextTarget \in Nat /\ groupsForTarget \in Nat /\ P \in Nat \ {0}
      /\ groupsForTarget < P
  BY GRPOAssumption DEF TypeOK, Surplus
<1>4. ASSUME NEW t \in Nat
      PROVE  Fill(t)' = IF t = nextTarget THEN Fill(t) + 1 ELSE Fill(t)
  BY <1>1, <1>3
     DEF Fill, EffectiveTarget, EffectiveGroups, TargetAfter, GroupsAfter,
         TargetFilled
<1> HIDE DEF e
<1>5. IsFiniteSet(store) /\ IsFiniteSet(store')
  BY <1>1, FS_AddElement DEF Surplus
<1>6. ASSUME NEW t \in Nat
      PROVE  Cardinality(Meant(store', t)) <= crashes * P + Fill(t)'
  <2>0. /\ Cardinality(Meant(store, t)) \in Nat
        /\ Cardinality(Meant(store, t)) <= crashes * P + Fill(t)
        /\ crashes * P \in Nat /\ Fill(t) \in Nat
    BY <1>3, <1>5, MeantSubset, FillBounded DEF Surplus
  <2>1. CASE t = nextTarget
    <3>1. Meant(store', t) = Meant(store, t) \cup {e}
      BY <1>1, <1>2, <2>1 DEF Meant
    <3>2. IsFiniteSet(Meant(store, t))
      BY <1>5, FS_Subset DEF Meant
    <3>3. \/ Cardinality(Meant(store', t)) = Cardinality(Meant(store, t))
          \/ Cardinality(Meant(store', t)) = Cardinality(Meant(store, t)) + 1
      <4>1. Cardinality(Meant(store, t) \cup {e})
                = IF e \in Meant(store, t) THEN Cardinality(Meant(store, t))
                  ELSE Cardinality(Meant(store, t)) + 1
        BY <3>2, FS_AddElement, Zenon
      <4> QED
        BY <3>1, <4>1
    <3> QED
      BY <2>0, <2>1, <3>3, <1>3, <1>4
  <2>2. CASE t # nextTarget
    <3>1. Meant(store', t) = Meant(store, t)
      BY <1>1, <1>2, <2>2 DEF Meant
    <3> QED
      BY <2>0, <2>2, <3>1, <1>4
  <2> QED
    BY <2>1, <2>2
<1>7. \A t \in Nat : Cardinality(Meant(store, t)') <= (crashes * P + Fill(t))'
  BY <1>6 DEF Meant
<1> QED
  BY <1>1, <1>3, <1>5, <1>7 DEF Surplus

\* A step's surplus within this process, in terms of its predecessors and itself.
LEMMA StoreAtMost ==
    ASSUME TypeOK, crashes \in Nat, Surplus
    PROVE  AtMost(store, (crashes + 1) * P)
<1> SUFFICES ASSUME NEW t \in Nat
             PROVE  Cardinality(Meant(store, t)) <= (crashes + 1) * P
  BY DEF AtMost, Surplus
<1>1. /\ Cardinality(Meant(store, t)) \in Nat
      /\ Cardinality(Meant(store, t)) <= crashes * P + Fill(t)
      /\ Fill(t) \in Nat /\ Fill(t) <= P
  BY MeantSubset, FillBounded DEF Surplus
<1>2. P \in Nat /\ crashes * P \in Nat /\ (crashes + 1) * P = crashes * P + P
  BY GRPOAssumption
<1> QED
  BY <1>1, <1>2

\* A restart counts what it finds in the checkpoint as left by a predecessor.
LEMMA SurplusResume ==
    ASSUME TypeOK, crashes \in Nat, Surplus, Resume
    PROVE  Surplus'
<1>1. /\ store' \subseteq disk.buffer.entries /\ snapshot'.entries = {}
      /\ disk.step \in Nat
  BY ResumeReads
<1>2. /\ crashes' = crashes + 1 /\ disk' = disk /\ cpc' = "idle"
      /\ nextTarget' = disk.step /\ groupsForTarget' = 0
  BY DEF Resume, CollectorStart
<1>3. P \in Nat \ {0}
  BY GRPOAssumption
<1>4. \A t \in Nat : Fill(t)' \in Nat
  BY <1>1, <1>2, <1>3 DEF Fill, EffectiveTarget, EffectiveGroups
<1>5. /\ (crashes + 1) * P \in Nat /\ (crashes' + 1) * P \in Nat
      /\ crashes' * P = (crashes + 1) * P
      /\ (crashes + 1) * P <= (crashes' + 1) * P
  BY <1>2, <1>3
<1>6. IsFiniteSet(disk.buffer.entries)
      /\ \A t \in Nat : Cardinality(Meant(disk.buffer.entries, t)) <= (crashes + 1) * P
  BY DEF Surplus, AtMost
<1>7. IsFiniteSet(store')
  BY <1>1, <1>6, FS_Subset
<1>8. ASSUME NEW t \in Nat
      PROVE  Cardinality(Meant(store', t)) <= crashes' * P + Fill(t)'
  <2>1. /\ Cardinality(Meant(store', t)) \in Nat
        /\ Cardinality(Meant(disk.buffer.entries, t)) \in Nat
        /\ Cardinality(Meant(store', t))
               <= Cardinality(Meant(disk.buffer.entries, t))
    BY <1>1, <1>6, MeantSubset
  <2> QED
    BY <2>1, <1>4, <1>5, <1>6
<1>9. AtMost(snapshot.entries, (crashes + 1) * P)'
  <2>1. \A t : Meant(snapshot'.entries, t) = {}
    BY <1>1 DEF Meant
  <2>2. IsFiniteSet(snapshot'.entries)
        /\ \A t : Cardinality(Meant(snapshot'.entries, t)) = 0
    BY <1>1, <2>1, FS_EmptySet
  <2> QED
    BY <2>2, <1>5 DEF AtMost, Meant
<1>10. AtMost(disk.buffer.entries, (crashes + 1) * P)'
  <2>1. \A t \in Nat : Cardinality(Meant(disk.buffer.entries, t)) \in Nat
    BY <1>6, MeantSubset
  <2>2. \A t \in Nat :
            Cardinality(Meant(disk.buffer.entries, t)) <= (crashes' + 1) * P
    BY <2>1, <1>5, <1>6
  <2> QED
    BY <2>2, <1>2, <1>6 DEF AtMost, Meant
<1>11. \A t \in Nat : Cardinality(Meant(store, t)') <= (crashes * P + Fill(t))'
  BY <1>8 DEF Meant
<1> QED
  BY <1>2, <1>3, <1>7, <1>9, <1>10, <1>11 DEF Surplus

\* The count moves from the effective counters to the actual ones.
LEMMA SurplusCount ==
    ASSUME TypeOK, Surplus, CountGroup, UNCHANGED crashes
    PROVE  Surplus'
<1>1. /\ cpc = "added" /\ cpc' # "added"
      /\ nextTarget' = TargetAfter /\ groupsForTarget' = GroupsAfter
      /\ UNCHANGED <<store, snapshot, disk>>
  BY DEF CountGroup
<1>2. \A t : Fill(t)' = Fill(t)
  BY <1>1 DEF Fill, EffectiveTarget, EffectiveGroups
<1>3. groupsForTarget' < P
  BY <1>1, GRPOAssumption DEF GroupsAfter, TargetFilled, TypeOK
<1> QED
  BY <1>1, <1>2, <1>3 DEF Surplus, Meant

\* A snapshot holds the buffer, or nothing.
LEMMA SurplusSave ==
    ASSUME TypeOK, crashes \in Nat, Surplus, SaveBuffer, UNCHANGED crashes
    PROVE  Surplus'
<1>1. /\ snapshot'.entries \in {store, {}}
      /\ UNCHANGED <<store, disk, cpc, nextTarget, groupsForTarget>>
  BY DEF SaveBuffer, StateDict, NotPersisted
<1>2. \A t : Fill(t)' = Fill(t)
  BY <1>1 DEF Fill, EffectiveTarget, EffectiveGroups, TargetAfter, GroupsAfter,
              TargetFilled
<1>3. AtMost(store, (crashes + 1) * P)
  BY StoreAtMost
<1>4. AtMost({}, (crashes + 1) * P)
  <2>1. \A t : Meant({}, t) = {}
    BY DEF Meant
  <2> QED
    BY <2>1, FS_EmptySet, GRPOAssumption DEF AtMost
<1>5. AtMost(snapshot.entries, (crashes + 1) * P)'
  BY <1>1, <1>3, <1>4 DEF AtMost, Meant
<1> QED
  BY <1>1, <1>2, <1>5 DEF Surplus, Meant, AtMost

\* A crash adds at most one process's groups to a target.
LEMMA SurplusStep ==
    ASSUME TypeOK, crashes \in Nat, Surplus, [RNext]_rvars
    PROVE  Surplus'
<1> DEFINE same ==
      /\ store' \subseteq store
      /\ UNCHANGED <<snapshot, disk, nextTarget, groupsForTarget, crashes>>
      /\ cpc = "added" <=> cpc' = "added"
<1>1. ASSUME same PROVE Surplus'
  BY <1>1, SurplusStable
<1>2. CASE Resume
  BY <1>2, SurplusResume
<1>3. CASE LoopOver
  BY <1>1, <1>3 DEF LoopOver
<1>4. CASE UNCHANGED rvars
  BY <1>1, <1>4 DEF rvars, vars
<1>5. ASSUME Next, UNCHANGED crashes PROVE Surplus'
  <2>1. CASE EnqueueGroup
    BY <1>5, <2>1, SurplusEnqueue
  <2>2. CASE CountGroup
    BY <1>5, <2>2, SurplusCount
  <2>3. CASE SaveBuffer
    BY <1>5, <2>3, SurplusSave
  <2>4. CASE Finalize
    <3>1. /\ disk'.buffer = snapshot
          /\ UNCHANGED <<store, snapshot, cpc, nextTarget, groupsForTarget>>
      BY <2>4 DEF Finalize
    <3>2. \A t : Fill(t)' = Fill(t)
      BY <3>1 DEF Fill, EffectiveTarget, EffectiveGroups, TargetAfter,
                  GroupsAfter, TargetFilled
    <3> QED
      BY <1>5, <3>1, <3>2 DEF Surplus, Meant, AtMost
  <2>5. CASE Pull \/ LetGo \/ StartGenerate \/ Generated \/ Scored \/ LoopDies
             \/ Deliver
    BY <1>1, <1>5, <2>5 DEF Pull, LetGo, StartGenerate, Generated, Scored,
       LoopDies, Deliver
  <2>6. CASE GenerationFails \/ ScoringFails
    BY <1>1, <1>5, <2>6 DEF GenerationFails, ScoringFails, Fail
  <2>7. CASE InitialSync \/ EndInitialValidation \/ BufferReady \/ BufferShort
             \/ HealthCheckFails \/ HealthCheckPasses
    BY <1>1, <1>5, <2>7 DEF InitialSync, EndInitialValidation, BufferReady,
       BufferShort, HealthCheckFails, HealthCheckPasses
  <2>8. CASE SampleStep \/ SampleNone \/ SampleError \/ TrainStep \/ StepFails
    BY <1>1, <1>5, <2>8 DEF SampleStep, Sample, SampleNone, SampleStalls,
       SampleError, TrainStep, StepFails
  <2>9. CASE PrepareForRefit \/ Quiesced \/ SyncWeights \/ BeginValidation
             \/ EndValidation \/ NoValidation
    BY <1>1, <1>5, <2>9 DEF PrepareForRefit, Quiesced, SyncWeights,
       BeginValidation, EndValidation, NoValidation
  <2>10. CASE SaveDataloader \/ NoSave \/ Advance
    BY <1>1, <1>5, <2>10 DEF SaveDataloader, NoSave, Advance
  <2>11. CASE UNCHANGED vars
    BY <1>1, <1>5, <2>11 DEF vars
  <2> QED
    BY <1>5, <2>1, <2>2, <2>3, <2>4, <2>5, <2>6, <2>7, <2>8, <2>9, <2>10, <2>11
       DEF Next, CollectorStep, TrainerStep, Terminated
<1> QED
  BY <1>2, <1>3, <1>4, <1>5 DEF RNext

\* A first start leaves nothing behind.
LEMMA SurplusInit == ASSUME RInit PROVE Surplus
<1>1. /\ store = {} /\ snapshot.entries = {} /\ disk.buffer.entries = {}
      /\ crashes = 0 /\ groupsForTarget = 0 /\ nextTarget = 0 /\ cpc = "idle"
  BY DEF RInit, Init, NotPersisted
<1>2. \A t : Meant({}, t) = {}
  BY DEF Meant
<1>3. P \in Nat \ {0}
  BY GRPOAssumption
<1>4. \A t \in Nat : Fill(t) = 0
  BY <1>1 DEF Fill, EffectiveTarget, EffectiveGroups
<1>5. \A t : Cardinality(Meant({}, t)) = 0
  BY <1>2, FS_EmptySet
<1>6. AtMost({}, (crashes + 1) * P)
  BY <1>1, <1>3, <1>5, FS_EmptySet DEF AtMost
<1>7. \A t \in Nat : Cardinality(Meant(store, t)) <= crashes * P + Fill(t)
  BY <1>1, <1>3, <1>4, <1>5
<1> QED
  BY <1>1, <1>3, <1>6, <1>7, FS_EmptySet DEF Surplus

\* The surplus is bounded throughout.
LEMMA SurplusHolds == RSpec => [](Base /\ Surplus)
<1>1. Base /\ Surplus /\ [RNext]_rvars => Surplus'
  BY SurplusStep DEF Base
<1> QED
  BY SurplusInit, <1>1, BaseHolds, PTL DEF RSpec

\* A restarted collector fills targets that the restored buffer already covers:
\* a step has at most one surplus batch of groups for every crash.
THEOREM SurplusIsBounded == RSpec => []SurplusBounded
<1>1. Base /\ Surplus => SurplusBounded
  <2> SUFFICES ASSUME Base, Surplus, NEW t \in {e.target : e \in store}
               PROVE  Cardinality({e \in store : e.target = t}) <= (crashes + 1) * P
    BY DEF SurplusBounded
  <2>1. t \in Nat
    BY DEF Base, TypeOK, Entries
  <2>2. AtMost(store, (crashes + 1) * P)
    BY StoreAtMost DEF Base
  <2> QED
    BY <2>1, <2>2 DEF AtMost, Meant
<1> QED
  BY <1>1, SurplusHolds, PTL

-------------------------------------------------------------------------------
(* The repeats of a prompt.                                                  *)

GroupsOf(history) == UNION {history[i] : i \in 1 .. Len(history)}
OfPrompt(S, p) == {e \in S : e.traj.prompt = p}

\* A prompt is its place in the dataloader: batch and index.
Prompts == Nat \X Nat

\* This process may have put the prompt into the buffer.
Enqueued(p) ==
    \/ p[1] < pos
    \/ /\ p[1] = pos
       /\ \/ cpc \in {"idle", "halted", "died"}
          \/ cpc = "adding" /\ p[2] < g
          \/ cpc = "added" /\ p[2] <= g

RepeatsAtMost(S, m) ==
    /\ IsFiniteSet(S)
    /\ \A p \in Prompts : Cardinality(OfPrompt(S, p)) <= m

\* Each process puts a prompt into the buffer at most once, on top of what its
\* predecessors left in the lineage or in the buffer of the checkpoint.
Repeats ==
    /\ IsFiniteSet(GroupsOf(trained) \cup store)
    /\ \A p \in Prompts :
           Cardinality(OfPrompt(GroupsOf(trained) \cup store, p))
               <= crashes + (IF Enqueued(p) THEN 1 ELSE 0)
    /\ RepeatsAtMost(GroupsOf(disk.trained) \cup disk.buffer.entries, crashes + 1)
    /\ tpc = "finalize" =>
           RepeatsAtMost(GroupsOf(trained) \cup snapshot.entries, crashes + 1)

\* A part of a set repeats a prompt at most as often.
LEMMA OfPromptSubset ==
    ASSUME NEW S, NEW T, IsFiniteSet(S), T \subseteq S, NEW p
    PROVE  /\ IsFiniteSet(T)
           /\ Cardinality(OfPrompt(T, p)) \in Nat
           /\ Cardinality(OfPrompt(S, p)) \in Nat
           /\ Cardinality(OfPrompt(T, p)) <= Cardinality(OfPrompt(S, p))
<1>1. /\ OfPrompt(T, p) \subseteq OfPrompt(S, p) /\ OfPrompt(S, p) \subseteq S
  BY DEF OfPrompt
<1>2. IsFiniteSet(OfPrompt(S, p)) /\ IsFiniteSet(T)
  BY <1>1, FS_Subset
<1>3. /\ IsFiniteSet(OfPrompt(T, p))
      /\ Cardinality(OfPrompt(T, p)) <= Cardinality(OfPrompt(S, p))
  BY <1>1, <1>2, FS_Subset
<1> QED
  BY <1>2, <1>3, FS_CardinalityType

\* In either case a prompt occurs at most once more often than there were crashes.
LEMMA LineageAtMost ==
    ASSUME crashes \in Nat, Repeats
    PROVE  RepeatsAtMost(GroupsOf(trained) \cup store, crashes + 1)
<1> SUFFICES ASSUME NEW p \in Prompts
             PROVE  Cardinality(OfPrompt(GroupsOf(trained) \cup store, p))
                        <= crashes + 1
  BY DEF RepeatsAtMost, Repeats
<1>1. /\ Cardinality(OfPrompt(GroupsOf(trained) \cup store, p)) \in Nat
      /\ Cardinality(OfPrompt(GroupsOf(trained) \cup store, p))
             <= crashes + (IF Enqueued(p) THEN 1 ELSE 0)
  BY OfPromptSubset DEF Repeats
<1> QED
  BY <1>1

\* Steps that leave the lineage and the checkpoint alone.
LEMMA RepeatsStable ==
    ASSUME crashes \in Nat, Repeats,
           (GroupsOf(trained) \cup store)' = GroupsOf(trained) \cup store,
           UNCHANGED <<disk, crashes>>,
           \A p \in Prompts : Enqueued(p) => Enqueued(p)',
           tpc' = "finalize" => tpc = "finalize" /\ UNCHANGED <<trained, snapshot>>
    PROVE  Repeats'
<1> DEFINE S == GroupsOf(trained) \cup store
<1>1. S' = S
  OBVIOUS
<1>2. IsFiniteSet(S')
  BY <1>1 DEF Repeats
<1>3. ASSUME NEW p \in Prompts
      PROVE  Cardinality(OfPrompt(S, p))'
                 <= (crashes + (IF Enqueued(p) THEN 1 ELSE 0))'
  <2>1. /\ Cardinality(OfPrompt(S, p)) \in Nat
        /\ Cardinality(OfPrompt(S, p))
               <= crashes + (IF Enqueued(p) THEN 1 ELSE 0)
    BY OfPromptSubset DEF Repeats
  <2>2. OfPrompt(S, p)' = OfPrompt(S, p)
    BY <1>1 DEF OfPrompt
  <2> HIDE DEF S
  <2> QED
    BY <2>1, <2>2
<1>4. RepeatsAtMost(GroupsOf(disk.trained) \cup disk.buffer.entries, crashes + 1)'
  BY DEF Repeats, RepeatsAtMost, OfPrompt, GroupsOf
<1>5. (tpc = "finalize" =>
           RepeatsAtMost(GroupsOf(trained) \cup snapshot.entries, crashes + 1))'
  BY DEF Repeats, RepeatsAtMost, OfPrompt, GroupsOf
<1> QED
  BY <1>2, <1>3, <1>4, <1>5 DEF Repeats

\* The group that is added is the first of its prompt in this process.
LEMMA RepeatsEnqueue ==
    ASSUME TypeOK, crashes \in Nat, Repeats, EnqueueGroup, UNCHANGED crashes
    PROVE  Repeats'
<1> DEFINE S == GroupsOf(trained) \cup store
           e == Entry([id |-> nextId, prompt |-> <<pos, g>>,
                       weights |-> genWeights], genVersion, nextTarget)
<1>1. /\ store' = store \cup {e} /\ cpc = "adding" /\ cpc' = "added"
      /\ UNCHANGED <<trained, tpc, snapshot, disk, pos, g>>
  BY DEF EnqueueGroup, Add
<1>2. e.traj.prompt = <<pos, g>>
  BY DEF Entry
<1>3. pos \in Nat /\ g \in Nat
  BY DEF TypeOK
<1> HIDE DEF e
<1>4. S' = S \cup {e}
  BY <1>1 DEF GroupsOf
<1>5. IsFiniteSet(S) /\ IsFiniteSet(S')
  BY <1>4, FS_AddElement DEF Repeats
<1>6. ASSUME NEW p \in Prompts
      PROVE  Cardinality(OfPrompt(S, p))'
                 <= (crashes + (IF Enqueued(p) THEN 1 ELSE 0))'
  <2>1. /\ Cardinality(OfPrompt(S, p)) \in Nat
        /\ Cardinality(OfPrompt(S, p))
               <= crashes + (IF Enqueued(p) THEN 1 ELSE 0)
    BY OfPromptSubset DEF Repeats
  <2>2. p[1] \in Nat /\ p[2] \in Nat /\ p = <<p[1], p[2]>>
    BY DEF Prompts
  <2>3. CASE p = <<pos, g>>
    <3>1. ~Enqueued(p)
      BY <1>1, <1>3, <2>3 DEF Enqueued
    <3>2. Enqueued(p)'
      BY <1>1, <1>3, <2>2, <2>3 DEF Enqueued
    <3>3. OfPrompt(S, p)' = OfPrompt(S, p) \cup {e}
      BY <1>2, <1>4, <2>3 DEF OfPrompt
    <3>4. Cardinality(OfPrompt(S, p) \cup {e})
              = IF e \in OfPrompt(S, p) THEN Cardinality(OfPrompt(S, p))
                ELSE Cardinality(OfPrompt(S, p)) + 1
      <4>1. IsFiniteSet(OfPrompt(S, p))
        BY <1>5, FS_Subset DEF OfPrompt
      <4> QED
        BY <4>1, FS_AddElement, Zenon
    <3> HIDE DEF S
    <3> QED
      BY <2>1, <3>1, <3>2, <3>3, <3>4
  <2>4. CASE p # <<pos, g>>
    <3>1. OfPrompt(S, p)' = OfPrompt(S, p)
      BY <1>2, <1>4, <2>4 DEF OfPrompt
    <3>2. Enqueued(p)' <=> Enqueued(p)
      BY <1>1, <1>3, <2>2, <2>4 DEF Enqueued
    <3> HIDE DEF S
    <3> QED
      BY <2>1, <3>1, <3>2
  <2> QED
    BY <2>3, <2>4
<1>7. RepeatsAtMost(GroupsOf(disk.trained) \cup disk.buffer.entries, crashes + 1)'
  BY <1>1 DEF Repeats, RepeatsAtMost, OfPrompt, GroupsOf
<1>8. (tpc = "finalize" =>
           RepeatsAtMost(GroupsOf(trained) \cup snapshot.entries, crashes + 1))'
  BY <1>1 DEF Repeats, RepeatsAtMost, OfPrompt, GroupsOf
<1> QED
  BY <1>5, <1>6, <1>7, <1>8 DEF Repeats

\* A restart repeats at most what the checkpoint holds.
LEMMA RepeatsResume ==
    ASSUME TypeOK, crashes \in Nat, Repeats, Resume
    PROVE  Repeats'
<1> DEFINE S == GroupsOf(trained) \cup store
           D == GroupsOf(disk.trained) \cup disk.buffer.entries
<1>1. /\ store' \subseteq disk.buffer.entries
      /\ crashes' = crashes + 1 /\ disk' = disk /\ tpc' = "init_sync"
      /\ trained' = disk.trained
  BY ResumeReads DEF Resume
<1>2. S' \subseteq D /\ D' = D
  BY <1>1 DEF GroupsOf
<1>3. IsFiniteSet(D) /\ \A p \in Prompts : Cardinality(OfPrompt(D, p)) <= crashes + 1
  BY DEF Repeats, RepeatsAtMost
<1>4. IsFiniteSet(S')
  BY <1>2, <1>3, FS_Subset
<1>5. ASSUME NEW p \in Prompts
      PROVE  /\ Cardinality(OfPrompt(S, p))'
                    <= (crashes + (IF Enqueued(p) THEN 1 ELSE 0))'
             /\ Cardinality(OfPrompt(D, p))' <= (crashes + 1)'
  <2>1. /\ Cardinality(OfPrompt(S', p)) \in Nat
        /\ Cardinality(OfPrompt(D, p)) \in Nat
        /\ Cardinality(OfPrompt(S', p)) <= Cardinality(OfPrompt(D, p))
    BY <1>2, <1>3, OfPromptSubset
  <2>2. OfPrompt(S, p)' = OfPrompt(S', p) /\ OfPrompt(D, p)' = OfPrompt(D, p)
    BY <1>2 DEF OfPrompt
  <2>3. Cardinality(OfPrompt(D, p)) <= crashes + 1
    BY <1>3
  <2> HIDE DEF S, D
  <2> QED
    BY <1>1, <2>1, <2>2, <2>3
<1>6. RepeatsAtMost(D, crashes + 1)'
  BY <1>2, <1>3, <1>5 DEF RepeatsAtMost
<1> QED
  BY <1>1, <1>4, <1>5, <1>6 DEF Repeats

\* Sampling moves groups from the buffer into the lineage.
LEMMA SampleMoves ==
    ASSUME TypeOK, SampleStep
    PROVE  (GroupsOf(trained) \cup store)' = GroupsOf(trained) \cup store
<1> PICK sel \in SUBSET store : /\ Sample(P, wv, MaxAge, sel)
                                /\ trained' = Append(trained, sel)
  BY DEF SampleStep
<1>1. store' = store \ sel
  BY DEF Sample
<1>2. /\ trained \in Seq(SUBSET Entries) /\ Len(trained) \in Nat
      /\ Len(trained') = Len(trained) + 1
      /\ \A i \in 1 .. Len(trained) : trained'[i] = trained[i]
      /\ trained'[Len(trained) + 1] = sel
  BY DEF TypeOK
<1>3. GroupsOf(trained') = GroupsOf(trained) \cup sel
  <2>1. ASSUME NEW e PROVE e \in GroupsOf(trained') <=> e \in GroupsOf(trained) \cup sel
    <3>1. ASSUME e \in GroupsOf(trained') PROVE e \in GroupsOf(trained) \cup sel
      <4> PICK i \in 1 .. Len(trained') : e \in trained'[i]
        BY <3>1 DEF GroupsOf
      <4>1. i \in 1 .. Len(trained) \/ i = Len(trained) + 1
        BY <1>2
      <4> QED
        BY <4>1, <1>2 DEF GroupsOf
    <3>2. ASSUME e \in GroupsOf(trained) PROVE e \in GroupsOf(trained')
      <4> PICK i \in 1 .. Len(trained) : e \in trained[i]
        BY <3>2 DEF GroupsOf
      <4>1. i \in 1 .. Len(trained') /\ e \in trained'[i]
        BY <1>2
      <4> QED
        BY <4>1 DEF GroupsOf
    <3>3. ASSUME e \in sel PROVE e \in GroupsOf(trained')
      <4>1. Len(trained) + 1 \in 1 .. Len(trained')
        BY <1>2
      <4> QED
        BY <4>1, <3>3, <1>2 DEF GroupsOf
    <3> QED
      BY <3>1, <3>2, <3>3
  <2> QED
    BY <2>1
<1>4. GroupsOf(trained)' = GroupsOf(trained')
  BY DEF GroupsOf
<1> QED
  BY <1>1, <1>3, <1>4

\* Once a batch's groups are counted, the same or more prompts count as enqueued.
LEMMA RepeatsCount ==
    ASSUME TypeOK, crashes \in Nat, Repeats, CountGroup, UNCHANGED crashes
    PROVE  Repeats'
<1>1. /\ cpc = "added" /\ g \in Nat
      /\ cpc' = "idle" \/ (cpc' = "adding" /\ g' = g + 1)
      /\ UNCHANGED <<pos, store, trained, tpc, snapshot, disk>>
  BY DEF CountGroup, TypeOK
<1>2. ASSUME NEW p \in Prompts, Enqueued(p) PROVE Enqueued(p)'
  <2>1. p[1] \in Nat /\ p[2] \in Nat
    BY DEF Prompts
  <2> QED
    BY <1>1, <1>2, <2>1 DEF Enqueued
<1>3. (GroupsOf(trained) \cup store)' = GroupsOf(trained) \cup store
  BY <1>1 DEF GroupsOf
<1> QED
  BY <1>1, <1>2, <1>3, RepeatsStable

\* The collector's steps before a group is added repeat no prompt.
LEMMA RepeatsPull ==
    ASSUME TypeOK, crashes \in Nat, Repeats, UNCHANGED crashes,
           Pull \/ LetGo \/ StartGenerate \/ Generated \/ Scored
           \/ GenerationFails \/ ScoringFails \/ LoopDies
    PROVE  Repeats'
<1>1. UNCHANGED <<store, trained, tpc, snapshot, disk>>
  BY DEF Pull, LetGo, StartGenerate, Generated, Scored, GenerationFails,
         ScoringFails, Fail, LoopDies
<1>2. ASSUME NEW p \in Prompts, Enqueued(p) PROVE Enqueued(p)'
  <2>1. p[1] \in Nat /\ p[2] \in Nat /\ pos \in Nat
    BY DEF Prompts, TypeOK
  <2>2. CASE Pull
    BY <1>2, <2>1, <2>2 DEF Pull, Enqueued
  <2>3. CASE LetGo \/ StartGenerate \/ Generated \/ Scored
    BY <1>2, <2>1, <2>3 DEF LetGo, StartGenerate, Generated, Scored, Enqueued
  <2>4. CASE GenerationFails \/ ScoringFails
    BY <1>2, <2>1, <2>4 DEF GenerationFails, ScoringFails, Fail, Enqueued
  <2>5. CASE LoopDies
    BY <1>2, <2>1, <2>5 DEF LoopDies, Enqueued
  <2> QED
    BY <2>2, <2>3, <2>4, <2>5
<1>3. (GroupsOf(trained) \cup store)' = GroupsOf(trained) \cup store
  BY <1>1 DEF GroupsOf
<1> QED
  BY <1>1, <1>2, <1>3, RepeatsStable

\* What a checkpoint will hold is a part of the lineage and the buffer.
LEMMA RepeatsSave ==
    ASSUME TypeOK, crashes \in Nat, Repeats, SaveBuffer, UNCHANGED crashes
    PROVE  Repeats'
<1> DEFINE S == GroupsOf(trained) \cup store
           T == GroupsOf(trained) \cup snapshot'.entries
<1>1. /\ snapshot'.entries \in {store, {}}
      /\ UNCHANGED <<trained, store, disk, cpc, pos, g>>
  BY DEF SaveBuffer, StateDict, NotPersisted
<1>2. T \subseteq S /\ IsFiniteSet(S)
  BY <1>1 DEF Repeats
<1>3. RepeatsAtMost(S, crashes + 1)
  BY LineageAtMost
<1>4. RepeatsAtMost(T, crashes + 1)
  <2>1. ASSUME NEW p \in Prompts PROVE Cardinality(OfPrompt(T, p)) <= crashes + 1
    <3>1. /\ Cardinality(OfPrompt(T, p)) \in Nat
          /\ Cardinality(OfPrompt(S, p)) \in Nat
          /\ Cardinality(OfPrompt(T, p)) <= Cardinality(OfPrompt(S, p))
      BY <1>2, OfPromptSubset
    <3>2. Cardinality(OfPrompt(S, p)) <= crashes + 1
      BY <1>3 DEF RepeatsAtMost
    <3> HIDE DEF S, T
    <3> QED
      BY <3>1, <3>2
  <2>2. IsFiniteSet(T)
    BY <1>2, FS_Subset
  <2> QED
    BY <2>1, <2>2 DEF RepeatsAtMost
<1>5. RepeatsAtMost(GroupsOf(trained) \cup snapshot.entries, crashes + 1)'
  BY <1>1, <1>4 DEF RepeatsAtMost, OfPrompt, GroupsOf
<1> QED
  BY <1>1, <1>5 DEF Repeats, RepeatsAtMost, OfPrompt, GroupsOf, Enqueued

\* Only a crash lets a prompt be taken again.
LEMMA RepeatsStep ==
    ASSUME TypeOK, crashes \in Nat, Repeats, [RNext]_rvars
    PROVE  Repeats'
<1> DEFINE same ==
      /\ UNCHANGED <<trained, store, disk, crashes, cpc, pos, g>>
      /\ tpc' = "finalize" => tpc = "finalize" /\ UNCHANGED snapshot
<1>1. ASSUME same PROVE Repeats'
  <2>1. (GroupsOf(trained) \cup store)' = GroupsOf(trained) \cup store
    BY <1>1 DEF GroupsOf
  <2>2. \A p \in Prompts : Enqueued(p) => Enqueued(p)'
    BY <1>1 DEF Enqueued
  <2> QED
    BY <1>1, <2>1, <2>2, RepeatsStable
<1>2. CASE Resume
  BY <1>2, RepeatsResume
<1>3. CASE LoopOver
  BY <1>1, <1>3 DEF LoopOver
<1>4. CASE UNCHANGED rvars
  BY <1>1, <1>4 DEF rvars, vars
<1>5. ASSUME Next, UNCHANGED crashes PROVE Repeats'
  <2>1. CASE EnqueueGroup
    BY <1>5, <2>1, RepeatsEnqueue
  <2>2. CASE CountGroup
    BY <1>5, <2>2, RepeatsCount
  <2>3. CASE Pull \/ LetGo \/ StartGenerate \/ Generated \/ Scored
             \/ GenerationFails \/ ScoringFails \/ LoopDies
    BY <1>5, <2>3, RepeatsPull
  <2>4. CASE SampleStep
    <3>1. /\ (GroupsOf(trained) \cup store)' = GroupsOf(trained) \cup store
          /\ UNCHANGED <<disk, crashes, cpc, pos, g>> /\ tpc' = "train"
      BY <1>5, <2>4, SampleMoves DEF SampleStep
    <3>2. \A p \in Prompts : Enqueued(p) => Enqueued(p)'
      BY <3>1 DEF Enqueued
    <3> QED
      BY <3>1, <3>2, RepeatsStable
  <2>5. CASE SaveBuffer
    BY <1>5, <2>5, RepeatsSave
  <2>6. CASE Finalize
    <3>1. /\ tpc = "finalize" /\ tpc' = "advance"
          /\ disk'.buffer = snapshot /\ disk'.trained = trained
          /\ UNCHANGED <<trained, store, cpc, pos, g>>
      BY <2>6 DEF Finalize
    <3>2. RepeatsAtMost(GroupsOf(disk.trained) \cup disk.buffer.entries, crashes + 1)'
      BY <1>5, <3>1 DEF Repeats, RepeatsAtMost, OfPrompt, GroupsOf
    <3> QED
      BY <1>5, <3>1, <3>2 DEF Repeats, OfPrompt, GroupsOf, Enqueued
  <2>7. CASE Deliver
    BY <1>1, <1>5, <2>7 DEF Deliver
  <2>8. CASE InitialSync \/ EndInitialValidation \/ BufferReady \/ BufferShort
             \/ HealthCheckFails \/ HealthCheckPasses \/ SampleNone
             \/ SampleError \/ TrainStep \/ StepFails
    BY <1>1, <1>5, <2>8 DEF InitialSync, EndInitialValidation, BufferReady,
       BufferShort, HealthCheckFails, HealthCheckPasses, SampleNone,
       SampleStalls, SampleError, TrainStep, StepFails
  <2>9. CASE PrepareForRefit \/ Quiesced \/ SyncWeights \/ BeginValidation
             \/ EndValidation \/ NoValidation
    BY <1>1, <1>5, <2>9 DEF PrepareForRefit, Quiesced, SyncWeights,
       BeginValidation, EndValidation, NoValidation
  <2>10. CASE SaveDataloader \/ NoSave \/ Advance
    BY <1>1, <1>5, <2>10 DEF SaveDataloader, NoSave, Advance
  <2>11. CASE UNCHANGED vars
    BY <1>1, <1>5, <2>11 DEF vars
  <2> QED
    BY <1>5, <2>1, <2>2, <2>3, <2>4, <2>5, <2>6, <2>7, <2>8, <2>9, <2>10, <2>11
       DEF Next, CollectorStep, TrainerStep, Terminated
<1> QED
  BY <1>2, <1>3, <1>4, <1>5 DEF RNext

\* The dataloader position and the buffer are saved at different moments, so a
\* prompt may be in both: it is trained on at most once more for every crash.
THEOREM RepeatsAreBounded == RSpec => []RepeatsBounded
<1>1. RInit => Repeats
  <2> SUFFICES ASSUME RInit PROVE Repeats
    OBVIOUS
  <2>1. /\ store = {} /\ disk.buffer.entries = {} /\ crashes = 0
        /\ trained = <<>> /\ disk.trained = <<>> /\ tpc = "init_sync"
    BY DEF RInit, Init, NotPersisted
  <2>2. GroupsOf(trained) \cup store = {}
        /\ GroupsOf(disk.trained) \cup disk.buffer.entries = {}
    BY <2>1 DEF GroupsOf
  <2>3. \A p : OfPrompt({}, p) = {}
    BY DEF OfPrompt
  <2>4. IsFiniteSet({}) /\ \A p : Cardinality(OfPrompt({}, p)) = 0
    BY <2>3, FS_EmptySet
  <2>5. RepeatsAtMost({}, crashes + 1)
    BY <2>1, <2>4 DEF RepeatsAtMost
  <2>6. ASSUME NEW p \in Prompts
        PROVE  Cardinality(OfPrompt(GroupsOf(trained) \cup store, p))
                   <= crashes + (IF Enqueued(p) THEN 1 ELSE 0)
    <3>1. Cardinality(OfPrompt(GroupsOf(trained) \cup store, p)) = 0
      BY <2>2, <2>4
    <3> QED
      BY <2>1, <3>1
  <2>7. RepeatsAtMost(GroupsOf(disk.trained) \cup disk.buffer.entries, crashes + 1)
    BY <2>2, <2>5
  <2> QED
    BY <2>1, <2>2, <2>4, <2>6, <2>7 DEF Repeats
<1>2. Base /\ Repeats /\ [RNext]_rvars => Repeats'
  BY RepeatsStep DEF Base
<1>3. Base /\ Repeats => RepeatsBounded
  <2> SUFFICES ASSUME Base, Repeats, NEW e \in TrainedGroups
               PROVE  Cardinality({f \in TrainedGroups :
                                   f.traj.prompt = e.traj.prompt}) <= crashes + 1
    BY DEF RepeatsBounded
  <2> DEFINE p == e.traj.prompt
             S == GroupsOf(trained) \cup store
  <2>1. TrainedGroups \subseteq S
    BY DEF TrainedGroups, GroupsOf
  <2>2. p \in Prompts
    <3> PICK i \in 1 .. Len(trained) : e \in trained[i]
      BY DEF TrainedGroups
    <3> QED
      BY DEF Base, TypeOK, Entries, Trajectories, Prompts
  <2>3. IsFiniteSet(S) /\ Cardinality(OfPrompt(S, p)) <= crashes + 1
    BY <2>2, LineageAtMost DEF Base, RepeatsAtMost
  <2>4. /\ Cardinality(OfPrompt(TrainedGroups, p)) \in Nat
        /\ Cardinality(OfPrompt(S, p)) \in Nat
        /\ Cardinality(OfPrompt(TrainedGroups, p)) <= Cardinality(OfPrompt(S, p))
    BY <2>1, <2>3, OfPromptSubset
  <2>5. crashes \in Nat
    BY DEF Base
  <2>6. Cardinality(OfPrompt(TrainedGroups, p)) <= crashes + 1
    <3> HIDE DEF S, p
    <3> QED
      BY <2>3, <2>4, <2>5
  <2> QED
    BY <2>6 DEF OfPrompt
<1> QED
  BY <1>1, <1>2, <1>3, BaseHolds, PTL DEF RSpec

-------------------------------------------------------------------------------
(* What a restart takes over.                                                *)

\* The age of what is buffered, in the snapshots too.
Aged(S) == \A e \in S : e.target <= e.version + CollectorAge + 1

Window ==
    /\ BatchInWindow
    /\ AgeBound
    /\ Aged(snapshot.entries)
    /\ Aged(disk.buffer.entries)

\* The only steps that write a snapshot or a checkpoint.
LEMMA SavedOnly ==
    ASSUME [Next]_vars
    PROVE  /\ UNCHANGED snapshot \/ SaveBuffer
           /\ UNCHANGED disk \/ Finalize
<1>1. CASE CollectorStep \/ LoopDies \/ Deliver
  BY <1>1 DEF CollectorStep, Pull, LetGo, StartGenerate, Generated,
        Scored, GenerationFails, ScoringFails, Fail, EnqueueGroup, Add,
        CountGroup, LoopDies, Deliver
<1>2. CASE InitialSync \/ EndInitialValidation \/ BufferReady \/ BufferShort
           \/ HealthCheckFails \/ HealthCheckPasses
  BY <1>2 DEF InitialSync, EndInitialValidation, BufferReady, BufferShort,
     HealthCheckFails, HealthCheckPasses
<1>3. CASE SampleStep \/ SampleNone \/ SampleError \/ TrainStep \/ StepFails
  BY <1>3 DEF SampleStep, Sample, SampleNone, SampleStalls, SampleError,
     TrainStep, StepFails
<1>4. CASE PrepareForRefit \/ Quiesced \/ SyncWeights \/ BeginValidation
           \/ EndValidation \/ NoValidation
  BY <1>4 DEF PrepareForRefit, Quiesced, SyncWeights, BeginValidation,
     EndValidation, NoValidation
<1>5. CASE SaveDataloader \/ SaveBuffer \/ Finalize \/ NoSave \/ Advance
  BY <1>5 DEF SaveDataloader, SaveBuffer, StateDict, Finalize, NoSave, Advance
<1>6. CASE UNCHANGED vars
  BY <1>6 DEF vars
<1> QED
  BY <1>1, <1>2, <1>3, <1>4, <1>5, <1>6 DEF Next, TrainerStep, Terminated

\* The window holds across crashes.
LEMMA WindowStepOrCrash ==
    ASSUME B <= P, Base, groupsForTarget < P, Window, [RNext]_rvars
    PROVE  Window'
<1>1. CASE Resume
  <2>1. /\ store' \subseteq disk.buffer.entries /\ snapshot'.entries = {}
        /\ disk' = disk /\ cpc' = "idle"
    BY <1>1, ResumeReads DEF Base, Resume
  <2> QED
    BY <2>1 DEF Window, BatchInWindow, AgeBound, Aged
<1>2. CASE LoopOver
  <2>1. UNCHANGED <<cpc, cwv, targetVars, genVersion, g, store, snapshot, disk>>
    BY <1>2 DEF LoopOver
  <2> QED
    BY <2>1, WindowStable DEF Window, Aged
<1>3. CASE [Next]_vars
  <2>1. BatchInWindow' /\ AgeBound'
    BY <1>3, WindowStep DEF Base, Window
  <2>2. Aged(snapshot'.entries)
    <3>1. CASE UNCHANGED snapshot
      BY <3>1 DEF Window, Aged
    <3>2. CASE SaveBuffer
      <4>1. snapshot'.entries \in {store, {}}
        BY <3>2 DEF SaveBuffer, StateDict, NotPersisted
      <4> QED
        BY <4>1 DEF Window, AgeBound, Aged
    <3> QED
      BY <1>3, <3>1, <3>2, SavedOnly
  <2>3. Aged(disk'.buffer.entries)
    <3>1. CASE UNCHANGED disk
      BY <3>1 DEF Window, Aged
    <3>2. CASE Finalize
      <4>1. disk'.buffer = snapshot
        BY <3>2 DEF Finalize
      <4> QED
        BY <4>1 DEF Window, Aged
    <3> QED
      BY <1>3, <3>1, <3>2, SavedOnly
  <2> QED
    BY <2>1, <2>2, <2>3 DEF Window, Aged
<1> QED
  BY <1>1, <1>2, <1>3 DEF RNext, rvars

\* It is an invariant of the lineage.
LEMMA WindowHolds ==
    ASSUME B <= P
    PROVE  RSpec => []Window
<1>1. RInit => Window
  <2> SUFFICES ASSUME RInit PROVE Window
    OBVIOUS
  <2>1. /\ store = {} /\ snapshot.entries = {} /\ disk.buffer.entries = {}
        /\ cpc = "idle"
    BY DEF RInit, Init, NotPersisted
  <2> QED
    BY <2>1 DEF Window, BatchInWindow, AgeBound, Aged
<1>2. Base /\ Surplus /\ Window /\ [RNext]_rvars => Window'
  BY WindowStepOrCrash DEF Surplus
<1> QED
  BY <1>1, <1>2, SurplusHolds, PTL DEF RSpec

\* What a checkpoint brings back into the buffer is no further ahead of its
\* weights than what the new collector adds.
THEOREM AgeIsBoundedAfterCrash ==
    ASSUME B <= P
    PROVE  RSpec => []AgeBound
<1>1. Window => AgeBound
  BY DEF Window
<1> QED
  BY <1>1, WindowHolds, PTL

\* Before the first crash the quota holds, and a checkpoint takes over no group
\* of a step it has trained; after it, until the first sync, neither does the
\* buffer hold one.
CarriedOver ==
    /\ tpc = "init_sync" => wv <= nextTarget
    /\ crashes = 0 =>
           /\ Quota
           /\ tpc = "finalize" => \A e \in snapshot.entries : Len(trained) <= e.target
           /\ \A e \in disk.buffer.entries : disk.step <= e.target
    /\ crashes <= 1 /\ tpc = "init_sync" => NothingLeftBehind

\* The parts of CarriedOver that speak of what is saved, before any crash.
LEMMA CarriedSaved ==
    ASSUME Base, CarriedOver, crashes = 0, [Next]_vars, UNCHANGED crashes
    PROVE  /\ tpc' = "finalize" =>
                  \A e \in snapshot'.entries : Len(trained') <= e.target
           /\ \A e \in disk'.buffer.entries : disk'.step <= e.target
<1>1. ASSUME tpc' = "finalize"
      PROVE  \A e \in snapshot'.entries : Len(trained') <= e.target
  <2>1. CASE SaveBuffer
    <3>1. snapshot'.entries \in {store, {}} /\ trained' = trained
      BY <2>1 DEF SaveBuffer, StateDict, NotPersisted
    <3>2. \A e \in store : e.target >= Len(trained)
      BY DEF CarriedOver, Quota, NothingLeftBehind
    <3>3. \A e \in store : e.target \in Nat
      BY DEF Base, TypeOK, Entries
    <3>4. Len(trained) \in Nat
      BY DEF Base, TypeOK
    <3> QED
      BY <3>1, <3>2, <3>3, <3>4
  <2>2. CASE ~SaveBuffer
    <3>1. tpc = "finalize" /\ UNCHANGED <<trained, snapshot>>
      <4>1. UNCHANGED snapshot
        BY <2>2, SavedOnly
      <4>2. CASE CollectorStep \/ LoopDies \/ Deliver \/ UNCHANGED vars
        BY <1>1, <4>1, <4>2 DEF CollectorStep, Pull, LetGo, StartGenerate,
           Generated, Scored, GenerationFails, ScoringFails, Fail, EnqueueGroup,
           CountGroup, LoopDies, Deliver, vars
      <4>3. CASE TrainerStep
        <5>1. ~(InitialSync \/ EndInitialValidation \/ BufferReady \/ BufferShort
                \/ HealthCheckFails \/ HealthCheckPasses \/ SampleStep
                \/ SampleNone \/ SampleError \/ TrainStep \/ StepFails)
          BY <1>1 DEF InitialSync, EndInitialValidation, BufferReady, BufferShort,
             HealthCheckFails, HealthCheckPasses, SampleStep, SampleNone,
             SampleError, TrainStep, StepFails
        <5>2. ~(PrepareForRefit \/ Quiesced \/ SyncWeights \/ BeginValidation
                \/ EndValidation \/ NoValidation)
          BY <1>1 DEF PrepareForRefit, Quiesced, SyncWeights, BeginValidation,
             EndValidation, NoValidation
        <5>3. ~(SaveDataloader \/ Finalize \/ NoSave \/ Advance)
          BY <1>1 DEF SaveDataloader, Finalize, NoSave, Advance
        <5> QED
          BY <2>2, <4>3, <5>1, <5>2, <5>3 DEF TrainerStep
      <4> QED
        BY <4>2, <4>3 DEF Next, Terminated
    <3> QED
      BY <3>1 DEF CarriedOver
  <2> QED
    BY <2>1, <2>2
<1>2. \A e \in disk'.buffer.entries : disk'.step <= e.target
  <2>1. CASE UNCHANGED disk
    BY <2>1 DEF CarriedOver
  <2>2. CASE Finalize
    <3>1. /\ tpc = "finalize" /\ disk'.buffer = snapshot /\ disk'.step = step + 1
      BY <2>2 DEF Finalize
    <3>2. Len(trained) = step + 1
      BY <3>1 DEF Base, TrainedSteps, StepsInLine, InHand, Synced
    <3> QED
      BY <3>1, <3>2 DEF CarriedOver
  <2> QED
    BY <2>1, <2>2, SavedOnly
<1> QED
  BY <1>1, <1>2

\* While the first sync is under way only the collector moves: its target grows,
\* and what it adds is meant for that target.
LEMMA DuringFirstSync ==
    ASSUME TypeOK, [Next]_vars, tpc' = "init_sync"
    PROVE  /\ tpc = "init_sync" /\ UNCHANGED <<wv, trained>>
           /\ nextTarget <= nextTarget'
           /\ \A e \in store' : e \in store \/ e.target = nextTarget
<1>1. nextTarget \in Nat
  BY DEF TypeOK
<1>2. CASE EnqueueGroup
  <2> DEFINE e == Entry([id |-> nextId, prompt |-> <<pos, g>>,
                         weights |-> genWeights], genVersion, nextTarget)
  <2>1. store' = store \cup {e} /\ UNCHANGED <<tpc, wv, trained, nextTarget>>
    BY <1>2 DEF EnqueueGroup, Add
  <2>2. e.target = nextTarget
    BY DEF Entry
  <2> QED
    BY <1>1, <2>1, <2>2
<1>3. CASE CountGroup
  BY <1>1, <1>3 DEF CountGroup, TargetAfter
<1>4. CASE Pull \/ LetGo \/ StartGenerate \/ Generated \/ Scored
           \/ GenerationFails \/ ScoringFails \/ LoopDies \/ Deliver
  <2>1. UNCHANGED <<tpc, wv, trained, nextTarget, store>>
    BY <1>4 DEF Pull, LetGo, StartGenerate, Generated, Scored,
       GenerationFails, ScoringFails, Fail, LoopDies, Deliver
  <2> QED
    BY <1>1, <2>1
<1>5. CASE UNCHANGED vars
  BY <1>1, <1>5 DEF vars
<1>6. CASE TrainerStep
  <2>1. ~(InitialSync \/ EndInitialValidation \/ BufferReady \/ BufferShort
          \/ HealthCheckFails \/ HealthCheckPasses \/ SampleStep
          \/ SampleNone \/ SampleError \/ TrainStep \/ StepFails)
    BY DEF InitialSync, EndInitialValidation, BufferReady, BufferShort,
       HealthCheckFails, HealthCheckPasses, SampleStep, SampleNone,
       SampleError, TrainStep, StepFails
  <2>2. ~(PrepareForRefit \/ Quiesced \/ SyncWeights \/ BeginValidation
          \/ EndValidation \/ NoValidation)
    BY DEF PrepareForRefit, Quiesced, SyncWeights, BeginValidation,
       EndValidation, NoValidation
  <2>3. ~(SaveDataloader \/ SaveBuffer \/ Finalize \/ NoSave)
    BY DEF SaveDataloader, SaveBuffer, Finalize, NoSave
  <2>4. ~Advance
    BY DEF Advance
  <2> QED
    BY <1>6, <2>1, <2>2, <2>3, <2>4 DEF TrainerStep
<1> QED
  BY <1>2, <1>3, <1>4, <1>5, <1>6 DEF Next, CollectorStep, Terminated

\* What a checkpoint carries over is never of a trained step.
LEMMA CarriedStep ==
    ASSUME Base, CarriedOver, [RNext]_rvars
    PROVE  CarriedOver'
<1>0. crashes \in Nat /\ wv \in Nat /\ nextTarget \in Nat /\ Len(trained) \in Nat
      /\ \A e \in store : e.target \in Nat
  BY DEF Base, TypeOK, Entries
<1>1. CASE Resume
  <2>1. /\ store' \subseteq disk.buffer.entries /\ crashes' = crashes + 1
        /\ wv' = disk.step /\ nextTarget' = disk.step /\ trained' = disk.trained
        /\ disk.step \in Nat /\ disk.buffer.entries \subseteq Entries
    BY <1>1, ResumeReads DEF Base, Resume, CollectorStart, ResumeStep
  <2>2. Len(trained') = disk.step
    BY <2>1 DEF Base, StepsInLine
  <2>3. crashes' <= 1 => NothingLeftBehind'
    <3> SUFFICES ASSUME crashes' <= 1, NEW e \in store' PROVE e.target >= disk.step
      BY <2>2 DEF NothingLeftBehind
    <3>1. crashes = 0
      BY <1>0, <2>1
    <3>2. disk.step <= e.target /\ e.target \in Nat
      BY <2>1, <3>1 DEF CarriedOver, Entries
    <3> QED
      BY <2>1, <3>2
  <2> QED
    BY <1>0, <2>1, <2>3 DEF CarriedOver
<1>2. CASE LoopOver
  <2>1. /\ tpc' = "done"
        /\ UNCHANGED <<store, trained, nextTarget, groupsForTarget, nextId, cpc,
                       disk, crashes>>
    BY <1>2 DEF LoopOver
  <2>2. crashes = 0 => Quota'
    BY <2>1, QuotaStable DEF CarriedOver
  <2> QED
    BY <2>1, <2>2 DEF CarriedOver
<1>3. CASE [Next]_vars /\ UNCHANGED crashes
  <2>1. crashes = 0 => Quota'
    BY <1>3, QuotaStep DEF Base, CarriedOver
  <2>2. crashes = 0 =>
            /\ tpc' = "finalize" =>
                   \A e \in snapshot'.entries : Len(trained') <= e.target
            /\ \A e \in disk'.buffer.entries : disk'.step <= e.target
    BY <1>3, CarriedSaved
  <2>3. ASSUME tpc' = "init_sync"
        PROVE  /\ wv' <= nextTarget'
               /\ crashes <= 1 => NothingLeftBehind'
    <3>1. /\ tpc = "init_sync" /\ UNCHANGED <<wv, trained>>
          /\ nextTarget <= nextTarget'
          /\ \A e \in store' : e \in store \/ e.target = nextTarget
      BY <1>3, <2>3, DuringFirstSync DEF Base
    <3>2. wv <= nextTarget /\ Len(trained) = wv
      BY <3>1 DEF CarriedOver, Base, TrainedSteps, InHand
    <3>3. nextTarget' \in Nat
      BY <1>3, TypeStep DEF Base, TypeOK
    <3>4. wv' <= nextTarget'
      BY <1>0, <3>1, <3>2, <3>3
    <3>5. ASSUME crashes <= 1 PROVE NothingLeftBehind'
      BY <1>0, <3>1, <3>2, <3>5 DEF CarriedOver, NothingLeftBehind
    <3> QED
      BY <3>4, <3>5
  <2> QED
    BY <1>3, <2>1, <2>2, <2>3 DEF CarriedOver
<1> QED
  BY <1>1, <1>2, <1>3 DEF RNext, rvars

\* What the first restart takes over can be trained on: no restored group is
\* stale for the resumed step, or meant for a step that was already trained.
THEOREM RestoredIsUsable ==
    ASSUME B <= P, CollectorAge < MaxAge
    PROVE  RSpec => []RestoredUsable
<1>1. RInit => CarriedOver
  <2> SUFFICES ASSUME RInit PROVE CarriedOver
    OBVIOUS
  <2>1. /\ Init /\ store = {} /\ disk.buffer.entries = {} /\ wv = 0
        /\ nextTarget = 0 /\ tpc = "init_sync"
    BY DEF RInit, Init, NotPersisted
  <2>2. Quota
    BY <2>1, QuotaInit
  <2> QED
    BY <2>1, <2>2 DEF CarriedOver, NothingLeftBehind
<1>2. Base /\ CarriedOver /\ [RNext]_rvars => CarriedOver'
  BY CarriedStep
<1>3. Base /\ Window /\ CarriedOver => RestoredUsable
  <2> SUFFICES ASSUME Base, Window, CarriedOver, tpc = "init_sync", crashes <= 1
               PROVE  NeverStale /\ NothingLeftBehind
    BY DEF RestoredUsable
  <2>1. NothingLeftBehind
    BY DEF CarriedOver
  <2>2. NeverStale
    BY <2>1, NotStale DEF Base, Window
  <2> QED
    BY <2>1, <2>2
<1> QED
  BY <1>1, <1>2, <1>3, BaseHolds, WindowHolds, PTL DEF RSpec

-------------------------------------------------------------------------------
(* The labels of what is restored.                                           *)

SavedLabels ==
    /\ Labels
    /\ HonestGroups(snapshot.entries)
    /\ HonestGroups(disk.buffer.entries)
    /\ \A k \in 1 .. Len(disk.trained) : HonestGroups(disk.trained[k])

\* Labels in a snapshot or checkpoint are those of the buffer.
LEMMA SavedLabelsStep ==
    ASSUME Base, SavedLabels, [RNext]_rvars
    PROVE  SavedLabels'
<1>1. CASE Resume
  <2>1. /\ store' \subseteq disk.buffer.entries /\ snapshot'.entries = {}
        /\ genWeights' = Unsynced /\ trained' = disk.trained /\ disk' = disk
    BY <1>1, ResumeReads DEF Base, Resume
  <2> QED
    BY <2>1 DEF SavedLabels, Labels, HonestGroups
<1>2. CASE LoopOver
  BY <1>2 DEF LoopOver, SavedLabels, Labels, HonestGroups
<1>3. CASE [Next]_vars
  <2>1. Labels'
    BY <1>3, LabelsStep DEF Base, SavedLabels
  <2>2. HonestGroups(snapshot'.entries)
    <3>1. CASE UNCHANGED snapshot
      BY <3>1 DEF SavedLabels
    <3>2. CASE SaveBuffer
      <4>1. snapshot'.entries \in {store, {}}
        BY <3>2 DEF SaveBuffer, StateDict, NotPersisted
      <4> QED
        BY <4>1 DEF SavedLabels, Labels, HonestGroups
    <3> QED
      BY <1>3, <3>1, <3>2, SavedOnly
  <2>3. /\ HonestGroups(disk'.buffer.entries)
        /\ \A k \in 1 .. Len(disk'.trained) : HonestGroups(disk'.trained[k])
    <3>1. CASE UNCHANGED disk
      BY <3>1 DEF SavedLabels
    <3>2. CASE Finalize
      <4>1. disk'.buffer = snapshot /\ disk'.trained = trained
        BY <3>2 DEF Finalize
      <4> QED
        BY <4>1 DEF SavedLabels, Labels
    <3> QED
      BY <1>3, <3>1, <3>2, SavedOnly
  <2> QED
    BY <2>1, <2>2, <2>3 DEF SavedLabels, HonestGroups
<1> QED
  BY <1>1, <1>2, <1>3 DEF RNext, rvars

\* A restored group still carries the version of the weights that generated it:
\* the checkpoint's step, buffer and lineage speak of the same versions.
THEOREM LabelsAreHonestAfterCrash == RSpec => []LabelledWeights
<1>1. RInit => SavedLabels
  <2> SUFFICES ASSUME RInit PROVE SavedLabels
    OBVIOUS
  <2>1. /\ store = {} /\ snapshot.entries = {} /\ disk.buffer.entries = {}
        /\ genWeights = Unsynced /\ trained = <<>> /\ disk.trained = <<>>
    BY DEF RInit, Init, NotPersisted
  <2> QED
    BY <2>1 DEF SavedLabels, Labels, HonestGroups
<1>2. Base /\ SavedLabels /\ [RNext]_rvars => SavedLabels'
  BY SavedLabelsStep
<1>3. SavedLabels => LabelledWeights
  BY LabelsLabelled DEF SavedLabels
<1> QED
  BY <1>1, <1>2, <1>3, BaseHolds, PTL DEF RSpec
===============================================================================
