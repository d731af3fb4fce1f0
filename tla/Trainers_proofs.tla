--------------------------- MODULE Trainers_proofs ---------------------------
(***************************************************************************)
(* Proofs about the synchronous trainers: what GRPO generates with, who is   *)
(* on the GPU when, and what a lineage of crashed and resumed runs trains.   *)
(***************************************************************************)
EXTENDS Trainers, TLAPS

-------------------------------------------------------------------------------
(* Generation is on-policy.                                                  *)

\* What makes OnPolicy inductive: weights that are not stale are the policy's
\* own, they are stale before they change, and only a trainer with an engine
\* ever sends them.
Synced ==
    /\ ~stale => engine = Version
    /\ pc \in {"generate", "judge"} => ~stale
    /\ pc = "train" => stale
    /\ cf.kind # "grpo" => stale = TRUE /\ pc \notin {"ready", "transfer"}
    /\ pc \in {"score", "scoring", "val score", "val scoring"} => cf.kind = "distillation"

\* The trainers start with stale weights, after a crash as at first.
LEMMA SyncedInit == Init => Synced
BY DEF Init, Synced

\* Every step keeps it: training, validation, a save and a restart included.
LEMMA SyncedStep == Synced /\ [Next]_vars => Synced'
<1> SUFFICES ASSUME Synced, [Next]_vars PROVE Synced'
    OBVIOUS
<1> USE DEF Synced, Version, At, loopVars, syncVars
<1>1. CASE Start
    BY <1>1 DEF Start
<1>2. CASE EpochBegin
    BY <1>2 DEF EpochBegin
<1>3. CASE NextBatch
    BY <1>3 DEF NextBatch
<1>4. CASE EpochEnd
    BY <1>4 DEF EpochEnd
<1>5. CASE Ready
    BY <1>5 DEF Ready, SyncStage, ServeFresh
<1>6. CASE Transfer
    BY <1>6 DEF Transfer, SyncTransfer
<1>7. CASE Generate
    BY <1>7 DEF Generate, FinishGeneration, DynamicSampling
<1>8. CASE PrepareLogprobs
    BY <1>8 DEF PrepareLogprobs
<1>9. CASE PrepareTraining
    BY <1>9 DEF PrepareTraining
<1>10. CASE Score
    BY <1>10 DEF Score
<1>11. CASE Scored
    BY <1>11 DEF Scored
<1>12. CASE Train
    BY <1>12 DEF Train
<1>13. CASE Trained
    BY <1>13 DEF Trained
<1>14. CASE Validate
    BY <1>14 DEF Validate
<1>15. CASE Judge
    BY <1>15 DEF Judge, FinishGeneration, Validated
<1>16. CASE ValTrain
    BY <1>16 DEF ValTrain, Validated
<1>17. CASE EndStep
    BY <1>17 DEF EndStep
<1>18. CASE Crash
    BY <1>18 DEF Crash
<1>19. CASE Restart
    BY <1>19 DEF Restart, Setup
<1>20. CASE UNCHANGED vars
    BY <1>20 DEF vars
<1> QED
    BY <1>1, <1>2, <1>3, <1>4, <1>5, <1>6, <1>7, <1>8, <1>9, <1>10, <1>11, <1>12,
       <1>13, <1>14, <1>15, <1>16, <1>17, <1>18, <1>19, <1>20 DEF Next, Run

\* Every rollout and every validation of grpo_train is generated with the
\* policy's current weights, for all configurations and whatever crashes.
THEOREM GenerationIsOnPolicy == Spec => []OnPolicy
<1>1. Synced => OnPolicy
    BY DEF Synced, OnPolicy
<1> QED
    BY SyncedInit, SyncedStep, <1>1, PTL DEF Spec

-------------------------------------------------------------------------------
(* The device and the cache.                                                 *)

Placements == [model : {"cpu", "gpu"}, opt : {"cpu", "gpu"}, teacher : {"cpu", "gpu"},
               engine : SUBSET AllTags]

\* The places of the loop that only one kind of trainer reaches.
Places ==
    /\ pc \in {"ready", "transfer", "generate", "judge", "prepare lp", "logprobs"} => cf.kind = "grpo"
    /\ pc \in {"score", "scoring", "val score", "val scoring"} => cf.kind = "distillation"

\* An engine with a memory saver holds memory only from a sync to the end of
\* the round, and nothing of the policy's that it has no room for.
EngineTurns ==
    /\ MemorySaver =>
        /\ pc \notin {"transfer", "generate", "judge", "dead"} => mem.engine = {}
        /\ pc = "transfer" => mem.engine = {"weights"}
        /\ pc \in {"generate", "judge"} => mem.engine = AllTags
        /\ mem.engine = {} \/ mem.opt = "cpu"
        /\ "kv" \notin mem.engine \/ mem.model = "cpu"
    /\ ~MemorySaver => mem.engine = AllTags

\* A teacher that shares the GPUs is there to score and away to train.
TeacherTurns ==
    /\ cf.schedule = "tight" =>
        /\ pc \notin {"scoring", "val scoring", "dead"} => mem.teacher = "cpu"
        /\ pc \in {"scoring", "val scoring"} => mem.teacher = "gpu"
        /\ mem.teacher = "cpu" \/ mem.opt = "cpu"
    /\ cf.schedule # "tight" => mem.teacher = "gpu"

\* The policy, its optimizer included, is there to train: what is moved away is
\* moved back on every path to a step.
PolicyTurns ==
    /\ cf.kind # "grpo" => mem.model = "gpu"
    /\ ~cf.genColocated => mem.model = "gpu"
    /\ pc = "logprobs" /\ cf.logprobs # "none" => mem.model = "gpu"
    /\ pc = "train" => mem.model = "gpu" /\ mem.opt = "gpu"
    /\ (cf.kind = "grpo" /\ ~cf.genColocated /\ ~cf.offloadOpt) => mem.opt = "gpu"
    /\ (cf.kind # "grpo" /\ cf.schedule = "apart") => mem.opt = "gpu"
    /\ (cf.schedule = "fast" /\ pc \notin {"start", "dead"}) => mem.opt = "gpu"

\* Every block in the cache is of the engine's weights, unless a flush failed
\* that no other made up for; a vLLM cache is empty between rounds.
CacheTurns ==
    /\ flushFails \in Nat
    /\ (flushFails = 0 \/ (cf.backend = "vllm" /\ cf.recompute)) => kv \subseteq {engine}
    /\ (cf.backend = "vllm" /\ kv # {}) => flushFails >= 1

Turns == /\ cf \in Configs
         /\ mem \in Placements
         /\ Places /\ EngineTurns /\ TeacherTurns /\ PolicyTurns

\* What setup has accepted.
LEMMA ConfigFacts ==
    ASSUME cf \in Configs, ~KeepsOptimizer, ~BareReference
    PROVE  /\ cf.kind \in {"sft", "dpo", "rm", "distillation", "grpo"}
           /\ cf.backend \in {"none", "vllm", "sglang"}
           /\ cf.schedule \in {"apart", "fast", "tight"}
           /\ cf.kind = "grpo" <=> cf.backend # "none"
           /\ cf.saver => cf.backend = "sglang"
           /\ ~cf.recompute => cf.backend = "vllm"
           /\ cf.genColocated \in BOOLEAN /\ cf.genColocated => cf.kind = "grpo"
           /\ cf.backend = "sglang" => cf.genColocated
           /\ cf.logprobs \in {"policy", "reference", "none"}
           /\ cf.logprobs = "reference" => ~cf.genColocated
           /\ cf.schedule # "apart" => cf.kind = "distillation" /\ cf.offloadOpt
BY TrainersAssumption DEF TrainersAssumption, Configs, Valid, Restores, Prepared

\* What the policy's hooks move.
LEMMA PolicyHooks ==
    ASSUME NEW m \in Placements
    PROVE  /\ OffloadBefore(m) \in Placements
           /\ OffloadBefore(m).model = m.model /\ OffloadBefore(m).opt = "cpu"
           /\ OffloadBefore(m).teacher = m.teacher /\ OffloadBefore(m).engine = m.engine
           /\ OffloadAfter(m) \in Placements
           /\ OffloadAfter(m).model = "cpu" /\ OffloadAfter(m).opt = "cpu"
           /\ OffloadAfter(m).teacher = m.teacher /\ OffloadAfter(m).engine = m.engine
           /\ PrepareForTraining(m) \in Placements
           /\ PrepareForTraining(m).model = "gpu"
           /\ PrepareForTraining(m).opt = IF cf.offloadOpt \/ cf.genColocated THEN "gpu" ELSE m.opt
           /\ PrepareForTraining(m).teacher = m.teacher /\ PrepareForTraining(m).engine = m.engine
           /\ PrepareForLp(m) \in Placements
           /\ PrepareForLp(m).model = "gpu"
           /\ PrepareForLp(m).opt = IF cf.offloadOpt THEN "cpu" ELSE m.opt
           /\ PrepareForLp(m).teacher = m.teacher /\ PrepareForLp(m).engine = m.engine
BY DEF Placements, OffloadBefore, OffloadAfter, PrepareForTraining, PrepareForLp

\* What the engine's end of a round does.
LEMMA SleepHook ==
    ASSUME NEW m \in Placements
    PROVE  /\ Sleep(m) \in Placements
           /\ Sleep(m).model = m.model /\ Sleep(m).opt = m.opt
           /\ Sleep(m).teacher = m.teacher
           /\ Sleep(m).engine = IF MemorySaver THEN {} ELSE m.engine
BY DEF Placements, Sleep

\* What a sync does to both.
LEMMA SyncHooks ==
    ASSUME NEW m \in Placements
    PROVE  LET staged == Wake(OffloadBefore(m), {"weights"})
               filled == Wake(OffloadAfter(m), {"kv"})
               served == Wake(OffloadAfter(m), AllTags)
               fresh  == Wake(m, AllTags)
               Engine(tags) == IF MemorySaver THEN m.engine \cup tags ELSE m.engine
           IN  /\ staged \in Placements /\ staged.model = m.model /\ staged.opt = "cpu"
               /\ staged.teacher = m.teacher /\ staged.engine = Engine({"weights"})
               /\ filled \in Placements /\ filled.model = "cpu" /\ filled.opt = "cpu"
               /\ filled.teacher = m.teacher /\ filled.engine = Engine({"kv"})
               /\ served \in Placements /\ served.model = "cpu" /\ served.opt = "cpu"
               /\ served.teacher = m.teacher /\ served.engine = Engine(AllTags)
               /\ fresh \in Placements /\ fresh.model = m.model /\ fresh.opt = m.opt
               /\ fresh.teacher = m.teacher /\ fresh.engine = Engine(AllTags)
BY DEF Placements, Wake, OffloadBefore, OffloadAfter, AllTags

\* What setup leaves, before the first step and after every crash.
LEMMA SetupFits ==
    ASSUME cf \in Configs, ~KeepsOptimizer, ~BareReference
    PROVE  /\ SetupMemory \in Placements
           /\ SetupMemory.model = "gpu"
           /\ SetupMemory.opt = IF cf.schedule = "apart" THEN "gpu" ELSE "cpu"
           /\ SetupMemory.teacher = IF cf.schedule = "tight" THEN "cpu" ELSE "gpu"
           /\ SetupMemory.engine = IF MemorySaver THEN {} ELSE AllTags
<1> DEFINE m == [model |-> "gpu", opt |-> "gpu", engine |-> IF MemorySaver THEN {} ELSE AllTags,
                 teacher |-> IF cf.schedule = "tight" THEN "cpu" ELSE "gpu"]
<1>1. m \in Placements
    BY DEF Placements
<1>2. SetupMemory = IF cf.schedule = "apart" THEN m ELSE OffloadBefore(m)
    BY DEF SetupMemory
<1> QED
    BY <1>1, <1>2, PolicyHooks, ZenonT(60)

\* The settings and the residency a process starts with.
LEMMA SetupTurns ==
    ASSUME cf \in Configs, ~KeepsOptimizer, ~BareReference, pc = "start", mem = SetupMemory
    PROVE  Turns
BY SetupFits, ConfigFacts DEF Turns, Places, EngineTurns, TeacherTurns, PolicyTurns, MemorySaver,
   Colocated

\* Residency is right from the start.
LEMMA TurnsInit == ~KeepsOptimizer /\ ~BareReference /\ Init => Turns
BY SetupTurns DEF Init

\* Every step of the loops leaves model, optimizer, teacher and engine where the
\* next one needs them.
LEMMA TurnsStep ==
    ASSUME ~KeepsOptimizer, ~BareReference, Turns, [Next]_vars
    PROVE  Turns'
<1> USE DEF At, loopVars, syncVars, MemorySaver, Colocated, AllTags
<1>0. /\ cf' = cf /\ cf \in Configs
      /\ mem \in Placements /\ Places /\ EngineTurns /\ TeacherTurns /\ PolicyTurns
    BY DEF Turns, vars, Next, Run, Start, EpochBegin, NextBatch, EpochEnd, Ready, Transfer,
           Generate, PrepareLogprobs, PrepareTraining, Score, Scored, Train, Trained, Validate,
           Judge, Validated, ValTrain, EndStep, Crash, Restart, Setup
<1> HIDE DEF Turns
<1> USE ConfigFacts, <1>0
<1>1. CASE Start
    BY <1>1, PolicyHooks, ZenonT(60) DEF Start, Turns, Places, EngineTurns, TeacherTurns,
       PolicyTurns
<1>2. CASE EpochBegin
    BY <1>2 DEF EpochBegin, Turns, Places, EngineTurns, TeacherTurns, PolicyTurns
<1>3. CASE NextBatch
  <2>1. /\ pc = "next" /\ mem' = mem
        /\ cf.kind = "grpo" => pc' = "ready"
        /\ cf.kind = "distillation" => pc' = "score"
        /\ cf.kind \notin {"grpo", "distillation"} => pc' = "train"
      BY <1>3, Zenon DEF NextBatch
  <2> QED
      BY <2>1 DEF Turns, Places, EngineTurns, TeacherTurns, PolicyTurns
<1>4. CASE EpochEnd
    BY <1>4 DEF EpochEnd, Turns, Places, EngineTurns, TeacherTurns, PolicyTurns
<1>5. CASE Ready
  <2>1. CASE stale
    <3>1. pc = "ready" /\ pc' = "transfer"
          /\ mem' = IF Colocated THEN Wake(OffloadBefore(mem), {"weights"}) ELSE mem
        BY <1>5, <2>1 DEF Ready, SyncStage
    <3>2. CASE Colocated
      <4>1. /\ mem' \in Placements /\ mem'.model = mem.model /\ mem'.opt = "cpu"
            /\ mem'.teacher = mem.teacher
            /\ mem'.engine = IF MemorySaver THEN mem.engine \cup {"weights"} ELSE mem.engine
          BY <3>1, <3>2, SyncHooks
      <4> QED
          BY <3>1, <3>2, <4>1 DEF Turns, Places, EngineTurns, TeacherTurns, PolicyTurns
    <3>3. CASE ~Colocated
        BY <3>1, <3>3 DEF Turns, Places, EngineTurns, TeacherTurns, PolicyTurns
    <3> QED
        BY <3>2, <3>3
  <2>2. CASE ~stale
    <3>1. pc = "ready" /\ pc' \in {"generate", "judge"}
          /\ mem' = Wake(IF Colocated THEN OffloadAfter(mem) ELSE mem, AllTags)
        BY <1>5, <2>2 DEF Ready, ServeFresh
    <3>2. CASE Colocated
        BY <3>1, <3>2, SyncHooks, ZenonT(60) DEF Turns, Places, EngineTurns, TeacherTurns,
           PolicyTurns
    <3>3. CASE ~Colocated
        BY <3>1, <3>3, SyncHooks, ZenonT(60) DEF Turns, Places, EngineTurns, TeacherTurns,
           PolicyTurns
    <3> QED
        BY <3>2, <3>3
  <2> QED
      BY <2>1, <2>2
<1>6. CASE Transfer
  <2>1. pc = "transfer" /\ pc' \in {"generate", "judge"}
        /\ mem' = IF Colocated THEN Wake(OffloadAfter(mem), {"kv"}) ELSE mem
      BY <1>6 DEF Transfer, SyncTransfer
  <2>2. CASE Colocated
      BY <2>1, <2>2, SyncHooks, ZenonT(60) DEF Turns, Places, EngineTurns, TeacherTurns,
         PolicyTurns
  <2>3. CASE ~Colocated
      BY <2>1, <2>3 DEF Turns, Places, EngineTurns, TeacherTurns, PolicyTurns
  <2> QED
      BY <2>2, <2>3
<1>7. CASE Generate
  <2>1. pc = "generate" /\ pc' \in {"prepare lp", "next", "dead"} /\ mem' = Sleep(mem)
      BY <1>7 DEF Generate, FinishGeneration, DynamicSampling
  <2> QED
      BY <2>1, SleepHook DEF Turns, Places, EngineTurns, TeacherTurns, PolicyTurns
<1>8. CASE PrepareLogprobs
  <2>1. /\ pc = "prepare lp" /\ pc' = "logprobs"
        /\ mem' = IF cf.logprobs = "policy" THEN PrepareForLp(mem) ELSE mem
      BY <1>8 DEF PrepareLogprobs
  <2>2. CASE cf.logprobs = "policy"
      BY <2>1, <2>2, PolicyHooks, ZenonT(60) DEF Turns, Places, EngineTurns, TeacherTurns,
         PolicyTurns
  <2>3. CASE cf.logprobs # "policy"
      BY <2>1, <2>3 DEF Turns, Places, EngineTurns, TeacherTurns, PolicyTurns
  <2> QED
      BY <2>2, <2>3
<1>9. CASE PrepareTraining
    BY <1>9, PolicyHooks DEF PrepareTraining, Turns, Places, EngineTurns, TeacherTurns,
       PolicyTurns
<1>10. CASE Score
  <2>1. EnterScoring(mem) \in Placements
        /\ EnterScoring(mem).model = mem.model /\ EnterScoring(mem).engine = mem.engine
        /\ EnterScoring(mem).opt = (IF cf.schedule = "tight" THEN "cpu" ELSE mem.opt)
        /\ EnterScoring(mem).teacher = (IF cf.schedule = "tight" THEN "gpu" ELSE mem.teacher)
      BY DEF EnterScoring, OffloadBefore, Placements
  <2> QED
      BY <1>10, <2>1 DEF Score, Turns, Places, EngineTurns, TeacherTurns, PolicyTurns
<1>11. CASE Scored
  <2>1. /\ mem' = EnterTraining(mem)
        /\ \/ pc = "scoring" /\ pc' = "train"
           \/ pc = "val scoring" /\ pc' = "val train"
      BY <1>11 DEF Scored
  <2>2. CASE cf.schedule = "tight"
    <3>1. [mem EXCEPT !.teacher = "cpu"] \in Placements
        BY DEF Placements
    <3>2. mem' = PrepareForTraining([mem EXCEPT !.teacher = "cpu"])
        BY <2>1, <2>2 DEF EnterTraining
    <3>3. /\ mem' \in Placements /\ mem'.engine = mem.engine
          /\ mem'.model = "gpu" /\ mem'.opt = "gpu" /\ mem'.teacher = "cpu"
        BY <2>2, <3>1, <3>2, PolicyHooks DEF Placements
    <3> QED
        BY <2>1, <2>2, <3>3 DEF Turns, Places, EngineTurns, TeacherTurns, PolicyTurns
  <2>3. CASE cf.schedule # "tight"
    <3>1. mem' = mem
        BY <2>1, <2>3 DEF EnterTraining
    <3> QED
        BY <2>1, <2>3, <3>1 DEF Turns, Places, EngineTurns, TeacherTurns, PolicyTurns
  <2> QED
      BY <2>2, <2>3
<1>12. CASE Train
    BY <1>12 DEF Train, Turns, Places, EngineTurns, TeacherTurns, PolicyTurns
<1>13. CASE Trained
    BY <1>13 DEF Trained, Turns, Places, EngineTurns, TeacherTurns, PolicyTurns
<1>14. CASE Validate
  <2>1. /\ pc = "validate"
        /\ mem' = IF cf.kind = "grpo" THEN mem ELSE PrepareForTraining(mem)
        /\ cf.kind = "grpo" => pc' = "ready"
        /\ cf.kind = "distillation" => pc' = "val score"
        /\ cf.kind \notin {"grpo", "distillation"} => pc' = "val train"
      BY <1>14, Zenon DEF Validate
  <2> QED
      BY <2>1, PolicyHooks, ZenonT(60) DEF Turns, Places, EngineTurns, TeacherTurns, PolicyTurns
<1>15. CASE Judge
  <2>1. pc = "judge" /\ pc' \in {"save", "loop"} /\ mem' = Sleep(mem)
      BY <1>15 DEF Judge, FinishGeneration, Validated
  <2> QED
      BY <2>1, SleepHook DEF Turns, Places, EngineTurns, TeacherTurns, PolicyTurns
<1>16. CASE ValTrain
  <2>1. pc = "val train" /\ pc' \in {"save", "loop"} /\ mem' = PrepareForTraining(mem)
      BY <1>16 DEF ValTrain, Validated
  <2> QED
      BY <2>1, PolicyHooks, ZenonT(60) DEF Turns, Places, EngineTurns, TeacherTurns, PolicyTurns
<1>17. CASE EndStep
  <2>1. /\ pc = "save" /\ pc' \in {"done", "next"}
        /\ mem' \in {mem, PrepareForTraining(mem)}
      BY <1>17, Zenon DEF EndStep
  <2>2. /\ mem' \in Placements
        /\ mem'.teacher = mem.teacher /\ mem'.engine = mem.engine
        /\ mem'.model \in {"gpu", mem.model}
        /\ mem'.opt \in {"gpu", mem.opt}
      BY <2>1, PolicyHooks
  <2> QED
      BY <2>1, <2>2 DEF Turns, Places, EngineTurns, TeacherTurns, PolicyTurns
<1>18. CASE Crash
    BY <1>18 DEF Crash, Turns, Places, EngineTurns, TeacherTurns, PolicyTurns
<1>19. CASE Restart
  <2>1. pc' = "start" /\ mem' = SetupMemory
      BY <1>19 DEF Restart, Setup
  <2>2. SetupMemory' = SetupMemory
      BY DEF SetupMemory, OffloadBefore
  <2> QED
      BY <2>1, <2>2, SetupFits DEF Turns, Places, EngineTurns, TeacherTurns, PolicyTurns
<1>20. CASE UNCHANGED vars
    BY <1>20 DEF vars, Turns, Places, EngineTurns, TeacherTurns, PolicyTurns
<1> QED
    BY <1>1, <1>2, <1>3, <1>4, <1>5, <1>6, <1>7, <1>8, <1>9, <1>10, <1>11, <1>12,
       <1>13, <1>14, <1>15, <1>16, <1>17, <1>18, <1>19, <1>20 DEF Next, Run

\* Every step keeps the cache to the engine's weights.
LEMMA CacheStep ==
    ASSUME ~KeepsOptimizer, ~BareReference, MaxFlushFails <= 1, Turns, CacheTurns, [Next]_vars
    PROVE  CacheTurns'
<1> USE DEF CacheTurns, MemorySaver, Colocated
<1>0. cf \in Configs /\ MaxFlushFails \in Nat
    BY TrainersAssumption DEF Turns, TrainersAssumption
<1>a. ASSUME NEW round, FinishGeneration, cf' = cf, round = kv \cup {engine}
      PROVE  CacheTurns'
  <2>1. /\ engine' = engine
        /\ cf.backend = "vllm" => Flush(round)
        /\ cf.backend # "vllm" => kv' \in {{}, round} /\ flushFails' = flushFails
      BY <1>a, Zenon DEF FinishGeneration
  <2>2. CASE cf.backend = "vllm"
      BY <1>a, <2>1, <2>2, <1>0 DEF Flush
  <2>3. CASE cf.backend # "vllm"
      BY <1>a, <2>1, <2>3
  <2> QED
      BY <2>2, <2>3
<1>1. CASE Transfer
  <2>1. /\ cf' = cf /\ engine' = Version
        /\ IF cf.backend = "sglang" \/ cf.recompute THEN Flush(kv) ELSE UNCHANGED <<kv, flushFails>>
      BY <1>1 DEF Transfer, SyncTransfer
  <2>2. CASE cf.backend = "sglang" \/ cf.recompute
      BY <2>1, <2>2, <1>0 DEF Flush
  <2>3. CASE ~ (cf.backend = "sglang" \/ cf.recompute)
    <3>1. cf.backend = "vllm"
        BY <2>3, <1>0, ConfigFacts
    <3> QED
        BY <2>1, <2>3, <3>1
  <2> QED
      BY <2>2, <2>3
<1>2. CASE Generate
    BY <1>2, <1>a DEF Generate
<1>3. CASE Judge
    BY <1>3, <1>a DEF Judge, Validated
<1>4. CASE Restart
  <2>1. cf' = cf /\ kv' = {} /\ flushFails' = flushFails
      BY <1>4 DEF Restart, Setup
  <2> QED
      BY <2>1
<1>5. CASE Ready
  <2>1. cf' = cf /\ engine' = engine /\ kv' = kv /\ flushFails' = flushFails
      BY <1>5 DEF Ready, SyncStage, ServeFresh
  <2> QED
      BY <2>1
<1>6. CASE NextBatch \/ EndStep
  <2>1. cf' = cf /\ engine' = engine /\ kv' = kv /\ flushFails' = flushFails
      BY <1>6, Zenon DEF NextBatch, EndStep, syncVars
  <2> QED
      BY <2>1
<1>7. CASE \/ Start \/ EpochBegin \/ EpochEnd \/ PrepareLogprobs \/ PrepareTraining
           \/ Score \/ Scored \/ Train \/ Trained \/ Validate \/ ValTrain \/ Crash
           \/ UNCHANGED vars
  <2>1. cf' = cf /\ engine' = engine /\ kv' = kv /\ flushFails' = flushFails
      BY <1>7 DEF vars, syncVars, Start, EpochBegin, EpochEnd, PrepareLogprobs, PrepareTraining,
           Score, Scored, Train, Trained, Validate, ValTrain, Validated, Crash
  <2> QED
      BY <2>1
<1> QED
    BY <1>1, <1>2, <1>3, <1>4, <1>5, <1>6, <1>7 DEF Next, Run

\* EngineSound for every configuration of Valid, but for a student that is never
\* given its optimizer back and a policy that force_on_policy_ratio leaves offloaded
\* when the reference's logprobs are computed on it, and for every sequence of
\* steps, validations, saves and crashes, with at most one cache flush that fails.
THEOREM EngineIsSound ==
    ASSUME ~KeepsOptimizer, ~BareReference, MaxFlushFails <= 1
    PROVE  Spec => []EngineSound
<1>1. Init => Turns /\ CacheTurns
    BY TurnsInit DEF Init, CacheTurns
<1>2. Turns /\ CacheTurns /\ [Next]_vars => (Turns /\ CacheTurns)'
    BY TurnsStep, CacheStep
<1>3. Turns /\ CacheTurns => EngineSound
    BY DEF Turns, EngineTurns, TeacherTurns, PolicyTurns, CacheTurns,
           EngineSound, KVFresh, FitsDevice, OnDevice
<1> QED
    BY <1>1, <1>2, <1>3, PTL DEF Spec

-------------------------------------------------------------------------------
(* The lineage of the weights.                                               *)

Slots == Nat \X Nat
Here == Index(<<epoch, pos>>)

\* The places of the loop by what they are between: a step or an epoch that
\* begins, the update of a step, and its end.  A validation belongs to the step
\* before it, or to the start of the run.
Checks == {"validate", "ready", "transfer", "judge", "val score", "val scoring", "val train"}
Filling == pc = "generate" \/ (goal = "step" /\ pc \in {"ready", "transfer"})
Rest == pc \in {"start", "loop", "next", "done"} \/ (goal = "validate first" /\ pc \in Checks)
Early == Filling \/ pc \in {"score", "scoring", "prepare lp", "logprobs", "train"}
Late == pc \in {"trained", "save"} \/ (goal = "validate" /\ pc \in Checks)

Flow ==
    /\ goal \in {"step", "validate", "validate first"}
    /\ pc = "dead" \/ Rest \/ Early \/ Late

\* Every step is a batch that was yielded; without dynamic sampling, every
\* batch is a step.
Progress ==
    /\ epoch \in 0 .. MaxEpochs /\ pos \in 0 .. Length
    /\ step \in 0 .. pos /\ total \in 0 .. Here
    /\ epoch = MaxEpochs => pos = 0
    /\ Len(log) \in {total, total + 1} /\ Len(log) <= Here
    /\ pc = "next" => epoch < MaxEpochs
    /\ Rest => Len(log) = total
    /\ Early \/ Late => epoch < MaxEpochs /\ step + 1 <= pos /\ total + 1 <= Here
    /\ Early => Len(log) = total
    /\ Late => Len(log) = total + 1
    /\ ~cf.sampling =>
        /\ Rest => total = Here /\ (step = pos \/ (step = 0 /\ pos = Length))
        /\ Early \/ Late => total + 1 = Here /\ step + 1 = pos

\* A history holds batches up to the n-th, in order, and each without dynamic
\* sampling.
Upto(lg, n) == \A s \in 1 .. Len(lg) : \A i \in 1 .. Len(lg[s]) : Index(lg[s][i]) <= n
Lined(lg, n) ==
    /\ lg \in Seq(Seq(Slots))
    /\ InOrder(lg) /\ Upto(lg, n)
    /\ ~cf.sampling => EachOnce(lg)

\* The batches of the cache come after a history, in order, up to the n-th.
Cached(lg, from, n) ==
    /\ from \in Seq(Slots)
    /\ \A i \in 1 .. Len(from) : Index(from[i]) <= n
    /\ \A i, j \in 1 .. Len(from) : i < j => Index(from[i]) < Index(from[j])
    /\ \A s \in 1 .. Len(lg) : \A k \in 1 .. Len(lg[s]), i \in 1 .. Len(from) :
           Index(lg[s][k]) < Index(from[i])

History == Lined(log, Here) /\ (Early => Upto(log, Here - 1))

Caching ==
    /\ cache \in [rows : 0 .. 2 * NumPrompts - 1, from : Seq(Slots)]
    /\ gens \in 0 .. MaxGenBatches + 1
    /\ Rest \/ Filling => cache.rows < NumPrompts /\ gens <= MaxGenBatches
    /\ Rest \/ Early => Cached(log, cache.from, Here)
    /\ Filling => Cached(log, cache.from, Here - 1)

\* The end of the data, where a run finishes.
LastPlace(e, p) == e = MaxEpochs \/ (e + 1 = MaxEpochs /\ p = Length)

\* A checkpoint is a state between two steps.
Good(c) ==
    LET here == Index(<<c.epoch, c.pos>>) IN
    /\ c \in [epoch : 0 .. MaxEpochs - 1, step : Nat, total : Nat, pos : 1 .. Length,
              log : Seq(Seq(Slots)), val : Int]
    /\ c.step <= c.pos /\ c.total <= here /\ Len(c.log) = c.total
    /\ Lined(c.log, here)
    /\ c.val \in None .. c.total
    /\ cf.kind # "distillation" => c.val \in {None, c.total}
    /\ ~cf.sampling =>
        /\ c.total = here /\ (c.step = c.pos \/ (c.step = 0 /\ c.pos = Length))
        /\ cf.vals /\ LastPlace(c.epoch, c.pos) => c.val = c.total

Stored ==
    ckpt # NoCkpt => Good(ckpt) /\ (pc # "done" => MoreSteps(ckpt.total))

\* The validation of the last step is in the save state when it is saved, and
\* the last step is saved.
Closing ==
    /\ valAt \in None .. total + 1
    /\ Rest \/ Early => valAt <= total
    /\ (Late /\ pc # "trained" /\ cf.kind # "distillation") => valAt \in {None, total + 1}
    /\ (pc = "save" /\ cf.vals /\ LastStep) => valAt = total + 1
    /\ (Rest \/ Early) /\ pc # "done" => MoreSteps(total)
    /\ (Rest /\ pc # "done" /\ cf.save > 0 /\ ~cf.sampling /\ LastPlace(epoch, pos)) =>
        /\ ckpt.total = total /\ ckpt.log = log
        /\ cf.vals => ckpt.val = total
    /\ FinalCheckpoint

Lineage == Flow /\ Progress /\ History /\ Caching /\ Stored /\ Closing

-------------------------------------------------------------------------------
(* What the parts are about.                                                 *)

\* The place of a batch in the data.
LEMMA IndexNat ==
    ASSUME NEW b \in Slots
    PROVE  Index(b) \in Nat
<1>1. PICK e \in Nat, p \in Nat : b = <<e, p>>
  BY DEF Slots
<1>2. Length \in Nat
  BY TrainersAssumption DEF TrainersAssumption
<1>3. e * Length \in Nat
  BY <1>1, <1>2
<1>4. Index(b) = e * Length + p
  BY <1>1 DEF Index
<1> QED
  BY <1>1, <1>3, <1>4

\* The next batch is one further; an epoch begins where the last one ended;
\* nothing is beyond the last epoch.
Stepped(e, p) ==
    /\ <<e, p>> \in Slots /\ Index(<<e, p>>) \in Nat
    /\ Index(<<e, p + 1>>) = Index(<<e, p>>) + 1
    /\ Index(<<e + 1, 0>>) = Index(<<e, Length>>)
    /\ (e < MaxEpochs /\ p <= Length) \/ (e = MaxEpochs /\ p = 0)
           => Index(<<e, p>>) <= MaxEpochs * Length
    /\ p >= 1 => Index(<<e, p>>) >= 1

\* The next batch has the next number.
LEMMA IndexSteps ==
    ASSUME NEW e \in Nat, NEW p \in Nat
    PROVE  Stepped(e, p)
<1>1. Length \in Nat /\ MaxEpochs \in Nat
  BY TrainersAssumption DEF TrainersAssumption
<1>2. e * Length \in Nat /\ (e + 1) * Length = e * Length + Length
  BY <1>1
<1>3. /\ Index(<<e, p>>) = e * Length + p
      /\ Index(<<e, p + 1>>) = e * Length + (p + 1)
      /\ Index(<<e + 1, 0>>) = (e + 1) * Length + 0
      /\ Index(<<e, Length>>) = e * Length + Length
  BY DEF Index
<1>4. e < MaxEpochs => e * Length + Length <= MaxEpochs * Length
  <2> SUFFICES ASSUME e < MaxEpochs PROVE e * Length + Length <= MaxEpochs * Length
    OBVIOUS
  <2>1. PICK d \in Nat : MaxEpochs = e + 1 + d
    <3>1. MaxEpochs - e - 1 \in Nat /\ MaxEpochs = e + 1 + (MaxEpochs - e - 1)
      BY <1>1
    <3> QED
      BY <3>1
  <2>2. MaxEpochs * Length = e * Length + Length + d * Length
    BY <1>1, <2>1
  <2>3. d * Length \in Nat /\ MaxEpochs * Length \in Nat
    BY <1>1, <2>1
  <2> QED
    BY <1>1, <1>2, <2>2, <2>3
<1>5. <<e, p>> \in Slots
  BY DEF Slots
<1>6. Index(<<e, p>>) \in Nat
  BY <1>5, IndexNat
<1>7. MaxEpochs * Length \in Nat
  BY <1>1
<1>8. ((e < MaxEpochs /\ p <= Length) \/ (e = MaxEpochs /\ p = 0))
          => Index(<<e, p>>) <= MaxEpochs * Length
  BY <1>1, <1>2, <1>3, <1>4, <1>7
<1>9. /\ Index(<<e, p + 1>>) = Index(<<e, p>>) + 1
      /\ Index(<<e + 1, 0>>) = Index(<<e, Length>>)
      /\ p >= 1 => Index(<<e, p>>) >= 1
  BY <1>1, <1>2, <1>3
<1> QED
  BY <1>5, <1>6, <1>8, <1>9 DEF Stepped

\* A history that grows by batches which come after it, in order.
LEMMA AppendLined ==
    ASSUME NEW lg, NEW b, NEW n \in Nat, NEW m \in Nat, n <= m,
           Lined(lg, n), Cached(lg, b, m),
           ~cf.sampling => Len(b) = 1 /\ Index(b[1]) = Len(lg) + 1
    PROVE  Lined(Append(lg, b), m)
<1> DEFINE new == Append(lg, b)
<1>1. lg \in Seq(Seq(Slots)) /\ b \in Seq(Slots)
  BY DEF Lined, Cached
<1>2. /\ new \in Seq(Seq(Slots)) /\ Len(new) = Len(lg) + 1 /\ Len(lg) \in Nat
      /\ \A s \in 1 .. Len(lg) : new[s] = lg[s] /\ new[s] \in Seq(Slots)
      /\ new[Len(lg) + 1] = b
  BY <1>1
<1>3. \A s \in 1 .. Len(lg) : \A i \in 1 .. Len(lg[s]) : Index(lg[s][i]) \in Nat
  <2> SUFFICES ASSUME NEW s \in 1 .. Len(lg), NEW i \in 1 .. Len(lg[s]) PROVE Index(lg[s][i]) \in Nat
    OBVIOUS
  <2>1. lg[s] \in Seq(Slots)
    BY <1>1
  <2>2. lg[s][i] \in Slots
    BY <2>1
  <2> QED
    BY <2>2, IndexNat
<1>4. \A i \in 1 .. Len(b) : Index(b[i]) \in Nat
  <2> SUFFICES ASSUME NEW i \in 1 .. Len(b) PROVE Index(b[i]) \in Nat
    OBVIOUS
  <2>1. b[i] \in Slots
    BY <1>1
  <2> QED
    BY <2>1, IndexNat
<1> HIDE DEF new
<1>5. \A s \in 1 .. Len(new) : s \in 1 .. Len(lg) \/ s = Len(lg) + 1
  BY <1>2
<1>6. InOrder(new)
  <2> SUFFICES ASSUME NEW s \in 1 .. Len(new), NEW t \in 1 .. Len(new),
                      NEW i \in 1 .. Len(new[s]), NEW j \in 1 .. Len(new[t]),
                      s < t \/ (s = t /\ i < j)
               PROVE  Index(new[s][i]) < Index(new[t][j])
    BY DEF InOrder
  <2>1. CASE s \in 1 .. Len(lg) /\ t \in 1 .. Len(lg)
    <3>1. InOrder(lg)
      BY DEF Lined
    <3> QED
      BY <1>2, <2>1, <3>1 DEF InOrder
  <2>2. CASE s \in 1 .. Len(lg) /\ t = Len(lg) + 1
    BY <1>2, <2>2 DEF Cached
  <2>3. CASE s = Len(lg) + 1
    <3>1. t = Len(lg) + 1
      BY <1>2, <1>5, <2>3
    <3> QED
      BY <1>2, <2>3, <3>1 DEF Cached
  <2> QED
    BY <1>5, <2>1, <2>2, <2>3
<1>7. Upto(new, m)
  <2> SUFFICES ASSUME NEW s \in 1 .. Len(new), NEW i \in 1 .. Len(new[s])
               PROVE  Index(new[s][i]) <= m
    BY DEF Upto
  <2>1. CASE s \in 1 .. Len(lg)
    <3>1. Index(lg[s][i]) <= n /\ Index(lg[s][i]) \in Nat
      BY <1>2, <1>3, <2>1 DEF Lined, Upto
    <3>2. Index(lg[s][i]) <= m
      BY <3>1
    <3> QED
      BY <1>2, <2>1, <3>2
  <2>2. CASE s = Len(lg) + 1
    BY <1>2, <2>2 DEF Cached
  <2> QED
    BY <1>5, <2>1, <2>2
<1>8. ~cf.sampling => EachOnce(new)
  BY <1>2, <1>5 DEF Lined, EachOnce
<1> QED
  BY <1>2, <1>6, <1>7, <1>8 DEF Lined, new

\* A history up to one place is a history up to a later one.
LEMMA LaterLined ==
    ASSUME NEW lg, NEW n \in Nat, NEW m \in Nat, n <= m, Lined(lg, n)
    PROVE  Lined(lg, m)
<1>1. Upto(lg, m)
  <2> SUFFICES ASSUME NEW s \in 1 .. Len(lg), NEW i \in 1 .. Len(lg[s])
               PROVE  Index(lg[s][i]) <= m
    BY DEF Upto
  <2>1. lg[s] \in Seq(Slots)
    BY DEF Lined
  <2>2. lg[s][i] \in Slots
    BY <2>1
  <2>3. Index(lg[s][i]) \in Nat /\ Index(lg[s][i]) <= n
    BY <2>2, IndexNat DEF Lined, Upto
  <2> QED
    BY <2>3
<1> QED
  BY <1>1 DEF Lined

\* The batches of a cache stay after the history, up to a later place.
LEMMA LaterCached ==
    ASSUME NEW lg, NEW from, NEW n \in Nat, NEW m \in Nat, n <= m, Cached(lg, from, n)
    PROVE  Cached(lg, from, m)
<1>1. \A i \in 1 .. Len(from) : Index(from[i]) <= m
  <2> SUFFICES ASSUME NEW i \in 1 .. Len(from) PROVE Index(from[i]) <= m
    OBVIOUS
  <2>1. from[i] \in Slots
    BY DEF Cached
  <2>2. Index(from[i]) \in Nat /\ Index(from[i]) <= n
    BY <2>1, IndexNat DEF Cached
  <2> QED
    BY <2>2
<1> QED
  BY <1>1 DEF Cached

\* A cache takes the batch that comes next.
LEMMA AppendCached ==
    ASSUME NEW lg, NEW from, NEW n \in Nat, NEW b \in Slots, Index(b) = n + 1,
           Lined(lg, n), Cached(lg, from, n)
    PROVE  Cached(lg, Append(from, b), n + 1)
<1> DEFINE new == Append(from, b)
<1>1. /\ from \in Seq(Slots) /\ new \in Seq(Slots) /\ Len(new) = Len(from) + 1 /\ Len(from) \in Nat
      /\ \A i \in 1 .. Len(from) : new[i] = from[i] /\ from[i] \in Slots
      /\ new[Len(from) + 1] = b
  BY DEF Cached
<1>2. \A i \in 1 .. Len(from) : Index(from[i]) \in Nat /\ Index(from[i]) <= n
  BY <1>1, IndexNat DEF Cached
<1> HIDE DEF new
<1>3. \A i \in 1 .. Len(new) : i \in 1 .. Len(from) \/ i = Len(from) + 1
  BY <1>1
<1>4. \A i \in 1 .. Len(new) : Index(new[i]) <= n + 1
  BY <1>1, <1>2, <1>3
<1>5. \A i, j \in 1 .. Len(new) : i < j => Index(new[i]) < Index(new[j])
  <2> SUFFICES ASSUME NEW i \in 1 .. Len(new), NEW j \in 1 .. Len(new), i < j
               PROVE  Index(new[i]) < Index(new[j])
    OBVIOUS
  <2>1. i \in 1 .. Len(from)
    BY <1>1, <1>3
  <2>2. CASE j \in 1 .. Len(from)
    BY <1>1, <2>1, <2>2 DEF Cached
  <2>3. CASE j = Len(from) + 1
    BY <1>1, <1>2, <2>1, <2>3
  <2> QED
    BY <1>3, <2>2, <2>3
<1>6. \A s \in 1 .. Len(lg) : \A k \in 1 .. Len(lg[s]), i \in 1 .. Len(new) :
          Index(lg[s][k]) < Index(new[i])
  <2> SUFFICES ASSUME NEW s \in 1 .. Len(lg), NEW k \in 1 .. Len(lg[s]), NEW i \in 1 .. Len(new)
               PROVE  Index(lg[s][k]) < Index(new[i])
    OBVIOUS
  <2>1. CASE i \in 1 .. Len(from)
    BY <1>1, <2>1 DEF Cached
  <2>2. CASE i = Len(from) + 1
    <3>1. lg[s] \in Seq(Slots)
      BY DEF Lined
    <3>2. lg[s][k] \in Slots
      BY <3>1
    <3>3. Index(lg[s][k]) \in Nat /\ Index(lg[s][k]) <= n
      BY <3>2, IndexNat DEF Lined, Upto
    <3> QED
      BY <1>1, <2>2, <3>3
  <2> QED
    BY <1>3, <2>1, <2>2
<1> QED
  BY <1>1, <1>4, <1>5, <1>6 DEF Cached, new

\* An empty history, an empty cache.
LEMMA NothingYet == Lined(<<>>, 0) /\ \A lg, n : Cached(lg, <<>>, n)
BY DEF Lined, Cached, InOrder, Upto, EachOnce

-------------------------------------------------------------------------------
(* The steps.                                                                *)

\* What the constants and the lineage say of every state.
LineageTypes ==
    /\ Length \in Nat /\ Length >= 1 /\ MaxEpochs \in Nat /\ MaxEpochs >= 1
    /\ MaxSteps \in Nat /\ MaxSteps >= 1 /\ NumPrompts \in Nat /\ NumPrompts >= 1
    /\ MaxGenBatches \in Nat /\ MaxGenBatches >= 1
    /\ epoch \in Nat /\ pos \in Nat /\ step \in Nat /\ total \in Nat
    /\ epoch <= MaxEpochs /\ pos <= Length /\ step <= pos
    /\ Here \in Nat /\ Stepped(epoch, pos) /\ <<epoch, pos>> \in Slots
    /\ cache.rows \in Nat /\ gens \in Nat /\ valAt \in Int

\* The types in the lineage.
LEMMA TypesOfLineage == Lineage => LineageTypes
<1> SUFFICES ASSUME Lineage PROVE LineageTypes
  OBVIOUS
<1>1. /\ Length \in Nat /\ Length >= 1 /\ MaxEpochs \in Nat /\ MaxEpochs >= 1
      /\ MaxSteps \in Nat /\ MaxSteps >= 1 /\ NumPrompts \in Nat /\ NumPrompts >= 1
      /\ MaxGenBatches \in Nat /\ MaxGenBatches >= 1
  BY TrainersAssumption DEF TrainersAssumption
<1>2. epoch \in Nat /\ epoch <= MaxEpochs /\ pos \in Nat /\ pos <= Length /\ step \in Nat /\ step <= pos
  BY <1>1 DEF Lineage, Progress
<1>3. Stepped(epoch, pos)
  BY <1>2, IndexSteps
<1>4. Here \in Nat /\ <<epoch, pos>> \in Slots
  BY <1>3 DEF Stepped, Here
<1>5. total \in Nat /\ cache.rows \in Nat /\ gens \in Nat /\ valAt \in Int
  BY <1>1, <1>4 DEF Lineage, Progress, Caching, Closing, None
<1> QED
  BY <1>1, <1>2, <1>3, <1>4, <1>5 DEF LineageTypes

\* A step that stays in its phase and touches neither the loop's counters, nor
\* the histories, nor the checkpoint.
LEMMA StaysInPhase ==
    ASSUME Lineage, UNCHANGED <<cf, loopVars, ckpt>>, Flow',
           pc # "done", pc' # "done",
           Rest' => Rest, Early' => Early, Late' => Late, Filling' => Filling,
           pc' = "next" => pc = "next", pc' = "save" => pc = "save",
           Late' /\ pc' # "trained" => pc # "trained"
    PROVE  Lineage'
<1> USE DEF loopVars
<1>1. Progress'
  BY DEF Lineage, Progress, Here
<1>2. History'
  BY DEF Lineage, History, Lined, Here
<1>3. Caching'
  BY DEF Lineage, Caching, Here
<1>4. Stored'
  BY DEF Lineage, Stored, Good, Lined, MoreSteps
<1>5. Closing'
  BY DEF Lineage, Closing, LastStep, MoreSteps, FinalCheckpoint
<1> QED
  BY <1>1, <1>2, <1>3, <1>4, <1>5 DEF Lineage

\* The phases that a place belongs to.
LEMMA StepsInPhase ==
    ASSUME Lineage, Start \/ Ready \/ Transfer \/ PrepareLogprobs \/ PrepareTraining
                    \/ Score \/ Scored \/ Validate \/ Crash
    PROVE  Lineage'
<1> USE DEF At, Flow, Rest, Early, Late, Filling, Checks
<1>1. Flow
  BY DEF Lineage
<1>2. CASE Start
  BY <1>1, <1>2, StaysInPhase DEF Start
<1>3. CASE Ready
  BY <1>1, <1>3, StaysInPhase DEF Ready
<1>4. CASE Transfer
  BY <1>1, <1>4, StaysInPhase DEF Transfer
<1>5. CASE PrepareLogprobs
  BY <1>1, <1>5, StaysInPhase DEF PrepareLogprobs
<1>6. CASE PrepareTraining
  BY <1>1, <1>6, StaysInPhase DEF PrepareTraining
<1>7. CASE Score
  BY <1>1, <1>7, StaysInPhase DEF Score
<1>8. CASE Scored
  BY <1>1, <1>8, StaysInPhase DEF Scored
<1>9. CASE Validate
  <2>1. /\ pc = "validate" /\ pc' \in {"ready", "val score", "val train"}
        /\ goal' = goal /\ UNCHANGED <<cf, loopVars, ckpt>>
    BY <1>9, Zenon DEF Validate
  <2> QED
    BY <1>1, <2>1, StaysInPhase
<1>10. CASE Crash
  BY <1>1, <1>10, StaysInPhase DEF Crash
<1> QED
  BY <1>2, <1>3, <1>4, <1>5, <1>6, <1>7, <1>8, <1>9, <1>10

\* The epoch that begins has batches to come, and a run that finishes here has
\* saved its last step.
LEMMA LineageEpochBegin == ASSUME Lineage, EpochBegin PROVE Lineage'
<1>0. LineageTypes
  BY TypesOfLineage
<1>1. /\ pc = "loop" /\ pc' \in {"next", "done"} /\ cache' = NoCache /\ gens' = 0
      /\ UNCHANGED <<cf, goal, epoch, step, total, pos, log, valAt, ckpt>>
      /\ pc' = "next" => epoch < MaxEpochs
      /\ pc' = "done" => ~ (epoch < MaxEpochs /\ MoreSteps(total))
  BY DEF EpochBegin
<1>2. Rest /\ Rest' /\ ~Early' /\ ~Late' /\ ~Filling' /\ Flow'
  BY <1>1 DEF Rest, Early, Late, Filling, Flow, Checks, Lineage
<1>3. Progress'
  BY <1>1, <1>2 DEF Lineage, Progress, Here
<1>4. History'
  BY <1>1, <1>2 DEF Lineage, History, Lined, Here
<1>5. Caching'
  <2>1. Cached(log, <<>>, Here)
    BY NothingYet
  <2> QED
    BY <1>0, <1>1, <1>2, <2>1 DEF Caching, NoCache, LineageTypes, Here
<1>6. Stored'
  BY <1>1 DEF Lineage, Stored, Good, Lined, MoreSteps
<1>7. Closing'
  <2>1. pc' = "done" => epoch = MaxEpochs
    BY <1>0, <1>1, <1>2 DEF Lineage, Closing, LineageTypes
  <2>2. pc' = "done" => (cf.save > 0 /\ ~cf.sampling =>
                            /\ ckpt.total = total /\ ckpt.log = log
                            /\ cf.vals => ckpt.val = total)
    BY <1>1, <1>2, <2>1 DEF Lineage, Closing, LastPlace
  <2> QED
    BY <1>1, <1>2, <2>2 DEF Lineage, Closing, MoreSteps, FinalCheckpoint
<1> QED
  BY <1>2, <1>3, <1>4, <1>5, <1>6, <1>7 DEF Lineage

\* The batch that comes next is the one after the last, also after a resume.
LEMMA LineageNextBatch == ASSUME Lineage, NextBatch PROVE Lineage'
<1>0. LineageTypes
  BY TypesOfLineage
<1>1. /\ pc = "next" /\ pc' \in {"ready", "score", "train"} /\ goal' = "step"
      /\ pos < Length /\ pos' = pos + 1
      /\ UNCHANGED <<cf, epoch, step, total, cache, gens, log, valAt, ckpt>>
  BY Zenon DEF NextBatch
<1>2. /\ Rest /\ ~Rest' /\ Early' /\ ~Late' /\ Flow'
      /\ pc' = "ready" <=> Filling'
  BY <1>1 DEF Rest, Early, Late, Filling, Flow, Checks, Lineage
<1>3. Here' = Here + 1
  BY <1>0, <1>1 DEF LineageTypes, Stepped, Here
<1>4. Progress'
  BY <1>0, <1>1, <1>2, <1>3 DEF Lineage, Progress, LineageTypes
<1>5. History'
  <2>1. Lined(log, Here + 1) /\ Upto(log, Here)
    BY <1>0, LaterLined DEF Lineage, History, Lined, LineageTypes
  <2> QED
    BY <1>0, <1>1, <1>2, <1>3, <2>1 DEF History, Lined, LineageTypes
<1>6. Caching'
  <2>1. Cached(log, cache.from, Here)
    BY <1>2 DEF Lineage, Caching
  <2>2. Cached(log, cache.from, Here + 1)
    BY <1>0, <2>1, LaterCached DEF LineageTypes
  <2>3. Here' - 1 = Here
    BY <1>0, <1>3 DEF LineageTypes
  <2> QED
    BY <1>1, <1>2, <1>3, <2>1, <2>2, <2>3 DEF Lineage, Caching
<1>7. Stored'
  BY <1>1 DEF Lineage, Stored, Good, Lined, MoreSteps
<1>8. Closing'
  BY <1>1, <1>2 DEF Lineage, Closing, FinalCheckpoint, MoreSteps
<1> QED
  BY <1>2, <1>4, <1>5, <1>6, <1>7, <1>8 DEF Lineage

\* An epoch is over only when its batches are.
LEMMA LineageEpochEnd == ASSUME Lineage, EpochEnd PROVE Lineage'
<1>0. LineageTypes
  BY TypesOfLineage
<1>1. /\ pc = "next" /\ pc' = "loop" /\ pos = Length
      /\ epoch' = epoch + 1 /\ step' = 0 /\ pos' = 0
      /\ UNCHANGED <<cf, goal, total, cache, gens, log, valAt, ckpt>>
  BY DEF EpochEnd, At
<1>2. Rest /\ Rest' /\ ~Early' /\ ~Late' /\ ~Filling' /\ Flow'
  BY <1>1 DEF Rest, Early, Late, Filling, Flow, Checks, Lineage
<1>3. Here' = Here
  BY <1>0, <1>1 DEF LineageTypes, Stepped, Here
<1>4. Progress'
  BY <1>0, <1>1, <1>2, <1>3 DEF Lineage, Progress, LineageTypes
<1>5. History'
  BY <1>1, <1>2, <1>3 DEF Lineage, History, Lined
<1>6. Caching'
  BY <1>1, <1>2, <1>3 DEF Lineage, Caching
<1>7. Stored'
  BY <1>1 DEF Lineage, Stored, Good, Lined, MoreSteps
<1>8. Closing'
  <2>1. LastPlace(epoch', pos') => LastPlace(epoch, pos)
    BY <1>0, <1>1 DEF LastPlace, LineageTypes
  <2> QED
    BY <1>1, <1>2, <2>1 DEF Lineage, Closing, FinalCheckpoint, MoreSteps
<1> QED
  BY <1>2, <1>4, <1>5, <1>6, <1>7, <1>8 DEF Lineage

\* What dynamic sampling keeps of a batch goes behind what it has kept.
LEMMA LineageGenerate == ASSUME Lineage, Generate PROVE Lineage'
<1>0. LineageTypes
  BY TypesOfLineage
<1> DEFINE b == <<epoch, pos>>
<1>1. PICK kept \in 0 .. NumPrompts : DynamicSampling(kept)
  BY <1>0 DEF Generate, LineageTypes
<1> DEFINE c == IF kept = 0 THEN cache
                ELSE [rows |-> cache.rows + kept, from |-> Append(cache.from, b)]
<1>2. /\ pc = "generate" /\ pc' \in {"prepare lp", "next", "dead"} /\ cache' = c /\ gens' = gens + 1
      /\ UNCHANGED <<cf, goal, epoch, step, total, pos, log, valAt, ckpt>>
      /\ pc' = "next" => c.rows < NumPrompts /\ gens + 1 <= MaxGenBatches /\ cf.sampling
  <2>1. cache' = c /\ gens' = gens + 1
    BY <1>1 DEF DynamicSampling
  <2>2. IF c.rows >= NumPrompts \/ ~cf.sampling
        THEN pc' = "prepare lp"
        ELSE IF gens + 1 <= MaxGenBatches THEN pc' = "next" ELSE pc' = "dead"
    BY <1>1 DEF DynamicSampling
  <2>3. kept \in Nat /\ c.rows \in Nat
    BY <1>0 DEF LineageTypes
  <2> HIDE DEF c
  <2>4. /\ pc' \in {"prepare lp", "next", "dead"}
        /\ pc' = "next" => c.rows < NumPrompts /\ gens + 1 <= MaxGenBatches /\ cf.sampling
    <3>1. CASE c.rows >= NumPrompts \/ ~cf.sampling
      BY <2>2, <3>1
    <3>2. CASE ~ (c.rows >= NumPrompts \/ ~cf.sampling)
      <4>1. IF gens + 1 <= MaxGenBatches THEN pc' = "next" ELSE pc' = "dead"
        BY <2>2, <3>2, Zenon
      <4>2. c.rows < NumPrompts
        BY <1>0, <2>3, <3>2 DEF LineageTypes
      <4> QED
        BY <3>2, <4>1, <4>2
    <3> QED
      BY <3>1, <3>2
  <2> QED
    BY <2>1, <2>4 DEF Generate
<1>3. /\ Early /\ Filling /\ ~Filling' /\ ~Late' /\ Flow'
      /\ Early' <=> pc' = "prepare lp"
      /\ Rest' <=> pc' = "next"
  BY <1>2 DEF Rest, Early, Late, Filling, Flow, Checks, Lineage
<1>4. Progress'
  BY <1>0, <1>2, <1>3 DEF Lineage, Progress, Here, LineageTypes
<1>5. History'
  BY <1>2, <1>3 DEF Lineage, History, Lined, Here
<1>6. Caching'
  <2>1. cache \in [rows : 0 .. 2 * NumPrompts - 1, from : Seq(Slots)]
        /\ cache.rows < NumPrompts /\ gens <= MaxGenBatches
    BY <1>3 DEF Lineage, Caching
  <2>2. c \in [rows : 0 .. 2 * NumPrompts - 1, from : Seq(Slots)]
    <3>1. kept \in Nat /\ kept <= NumPrompts /\ NumPrompts \in Nat /\ b \in Slots
      BY <1>0 DEF LineageTypes
    <3>2. cache.rows + kept \in 0 .. 2 * NumPrompts - 1
      BY <1>0, <2>1, <3>1 DEF LineageTypes
    <3>3. Append(cache.from, b) \in Seq(Slots)
      BY <2>1, <3>1
    <3> QED
      BY <2>1, <3>2, <3>3
  <2>3. Cached(log, c.from, Here)
    <3>1. Here - 1 \in Nat /\ Here - 1 + 1 = Here /\ Index(b) = Here
      <4>1. total + 1 <= Here
        BY <1>3 DEF Lineage, Progress
      <4>2. Here \in Nat /\ total \in Nat
        BY <1>0 DEF LineageTypes
      <4>3. Index(b) = Here
        BY DEF Here
      <4> QED
        BY <4>1, <4>2, <4>3
    <3>2. Lined(log, Here - 1) /\ Cached(log, cache.from, Here - 1)
      BY <1>3 DEF Lineage, History, Caching, Lined
    <3>3. Cached(log, Append(cache.from, b), Here)
      <4>1. Cached(log, Append(cache.from, b), Here - 1 + 1)
        <5>1. b \in Slots
          BY <1>0 DEF LineageTypes
        <5>2. Index(b) = Here - 1 + 1
          BY <3>1
        <5> HIDE DEF b
        <5> QED
          BY <3>1, <3>2, <5>1, <5>2, AppendCached
      <4> QED
        BY <3>1, <4>1
    <3>4. Cached(log, cache.from, Here)
      BY <1>0, <3>1, <3>2, LaterCached DEF LineageTypes
    <3> QED
      BY <3>3, <3>4
  <2>4. gens + 1 \in 0 .. MaxGenBatches + 1
    BY <1>0, <2>1 DEF LineageTypes
  <2> HIDE DEF c, b
  <2> QED
    BY <1>2, <1>3, <2>2, <2>3, <2>4 DEF Caching, Here
<1>7. Stored'
  BY <1>2 DEF Lineage, Stored, Good, Lined, MoreSteps
<1>8. Closing'
  <2>1. Rest' => cf'.sampling
    BY <1>2, <1>3
  <2> QED
    BY <1>2, <1>3, <2>1 DEF Lineage, Closing, FinalCheckpoint, MoreSteps
<1> QED
  BY <1>3, <1>4, <1>5, <1>6, <1>7, <1>8 DEF Lineage

\* The update goes behind the history: its batches are those of the cache, or
\* the one that was yielded last.
LEMMA LineageTrain == ASSUME Lineage, Train PROVE Lineage'
<1>0. LineageTypes
  BY TypesOfLineage
<1>1. /\ pc = "train" /\ pc' = "trained" /\ log' = Append(log, Batches)
      /\ UNCHANGED <<cf, goal, epoch, step, total, pos, cache, gens, valAt, ckpt>>
  BY DEF Train, At
<1>2. /\ Early /\ ~Filling /\ ~Rest' /\ ~Early' /\ Late' /\ ~Filling' /\ Flow'
  BY <1>1 DEF Rest, Early, Late, Filling, Flow, Checks, Lineage
<1>3. /\ epoch < MaxEpochs /\ step + 1 <= pos /\ total + 1 <= Here /\ Len(log) = total
      /\ ~cf.sampling => total + 1 = Here /\ step + 1 = pos
  BY <1>2 DEF Lineage, Progress
<1>4. Here - 1 \in Nat /\ Here - 1 <= Here
  BY <1>0, <1>3 DEF LineageTypes
<1>5. Lined(log, Here - 1)
  BY <1>2 DEF Lineage, History, Lined
<1>6. Cached(log, Batches, Here)
  <2>1. CASE cf.sampling
    BY <1>2, <2>1 DEF Lineage, Caching, Batches
  <2>2. CASE ~cf.sampling
    <3> DEFINE b == <<epoch, pos>>
    <3>1. Batches = Append(<<>>, b)
      BY <2>2 DEF Batches
    <3>2. b \in Slots /\ Index(b) = Here - 1 + 1
      BY <1>0 DEF LineageTypes, Here
    <3>3. Cached(log, <<>>, Here - 1)
      BY NothingYet
    <3> HIDE DEF b
    <3>4. Cached(log, Append(<<>>, b), Here - 1 + 1)
      BY <1>4, <1>5, <3>2, <3>3, AppendCached
    <3>5. Here - 1 + 1 = Here
      BY <1>0 DEF LineageTypes
    <3> QED
      BY <3>1, <3>4, <3>5
  <2> QED
    BY <2>1, <2>2
<1>7. ~cf.sampling => Len(Batches) = 1 /\ Index(Batches[1]) = Len(log) + 1
  <2> SUFFICES ASSUME ~cf.sampling PROVE Len(Batches) = 1 /\ Index(Batches[1]) = Len(log) + 1
    OBVIOUS
  <2>1. Batches = <<<<epoch, pos>>>>
    BY DEF Batches
  <2>2. Len(Batches) = 1 /\ Batches[1] = <<epoch, pos>>
    BY <2>1
  <2> QED
    BY <1>3, <2>2 DEF Here
<1>8. Lined(Append(log, Batches), Here)
  BY <1>0, <1>4, <1>5, <1>6, <1>7, AppendLined DEF LineageTypes
<1>9. Len(log') = total + 1
  <2>1. log \in Seq(Seq(Slots)) /\ Batches \in Seq(Slots)
    BY <1>5, <1>6 DEF Lined, Cached
  <2> QED
    BY <1>1, <1>3, <2>1
<1>10. Progress'
  BY <1>0, <1>1, <1>2, <1>3, <1>9 DEF Lineage, Progress, Here, LineageTypes
<1>11. History'
  BY <1>1, <1>2, <1>8 DEF History, Lined, Here
<1>12. Caching'
  BY <1>1, <1>2 DEF Lineage, Caching
<1>13. Stored'
  BY <1>1 DEF Lineage, Stored, Good, Lined, MoreSteps
<1>14. Closing'
  BY <1>1, <1>2 DEF Lineage, Closing, FinalCheckpoint
<1> QED
  BY <1>2, <1>10, <1>11, <1>12, <1>13, <1>14 DEF Lineage

\* The last step is never saved without the validation that val_at_end asks for.
LEMMA LineageTrained == ASSUME Lineage, Trained PROVE Lineage'
<1>0. LineageTypes
  BY TypesOfLineage
<1>1. /\ pc = "trained" /\ pc' = IF Validates THEN "validate" ELSE "save"
      /\ goal' = "validate"
      /\ valAt' = IF cf.kind = "distillation" THEN valAt ELSE None
      /\ UNCHANGED <<cf, epoch, step, total, pos, cache, gens, log, ckpt>>
  BY DEF Trained
<1>2. /\ Late /\ ~Rest' /\ ~Early' /\ Late' /\ ~Filling' /\ Flow'
  BY <1>1 DEF Rest, Early, Late, Filling, Flow, Checks, Lineage
<1>3. Progress'
  BY <1>1, <1>2 DEF Lineage, Progress, Here
<1>4. History'
  BY <1>1, <1>2 DEF Lineage, History, Lined, Here
<1>5. Caching'
  BY <1>1, <1>2 DEF Lineage, Caching, Here
<1>6. Stored'
  BY <1>1 DEF Lineage, Stored, Good, Lined, MoreSteps
<1>7. Closing'
  <2>1. valAt' \in None .. total + 1
    BY <1>0, <1>1 DEF Lineage, Closing, LineageTypes, None
  <2>2. pc' = "save" => ~ (cf.vals /\ LastStep)
    BY <1>1 DEF Validates
  <2>3. LastStep' <=> LastStep
    BY <1>1 DEF LastStep, MoreSteps
  <2> QED
    BY <1>1, <1>2, <2>1, <2>2, <2>3 DEF Closing, FinalCheckpoint
<1> QED
  BY <1>2, <1>3, <1>4, <1>5, <1>6, <1>7 DEF Lineage

\* A step's number is one that metrics may have.
LEMMA UpFromNone == \A n \in Nat : n \in None .. n
BY DEF None

\* The places where a validation ends.
Validating == pc \in {"judge", "val train"}

\* The metrics of a validation are of the step that was just trained; those of
\* the validation at the start are not kept.
LEMMA LineageValidated ==
    ASSUME Lineage, Validating, Validated
    PROVE  Lineage'
<1>0. LineageTypes
  BY TypesOfLineage
<1>1. /\ pc' = IF goal = "validate" THEN "save" ELSE "loop"
      /\ valAt' = IF goal = "validate" THEN total + 1 ELSE valAt
      /\ UNCHANGED <<cf, goal, epoch, step, total, pos, cache, gens, log, ckpt>>
  BY DEF Validated
<1>2. /\ ~Early' /\ ~Filling' /\ Flow' /\ ~Early /\ ~Filling
      /\ Late <=> goal = "validate"
      /\ Rest <=> goal = "validate first"
      /\ Late' <=> Late /\ pc' = "save"
      /\ Rest' <=> Rest /\ pc' = "loop"
  BY <1>1 DEF Rest, Early, Late, Filling, Flow, Checks, Lineage, Validating
<1>3. Progress'
  BY <1>1, <1>2 DEF Lineage, Progress, Here
<1>4. History'
  BY <1>1, <1>2 DEF Lineage, History, Lined, Here
<1>5. Caching'
  BY <1>1, <1>2 DEF Lineage, Caching, Here
<1>6. Stored'
  BY <1>1 DEF Validating, Lineage, Stored, Good, Lined, MoreSteps
<1>7. Closing'
  <2>1. CASE goal = "validate"
    <3>1. Late' /\ ~Rest' /\ pc' = "save" /\ valAt' = total + 1
      BY <1>1, <1>2, <2>1
    <3>2. total' = total /\ total \in Nat
      BY <1>0, <1>1 DEF LineageTypes
    <3>3. total + 1 \in Nat
      BY <3>2
    <3>4. total + 1 \in None .. total + 1
      BY <3>3, UpFromNone
    <3>5. total' + 1 = valAt' /\ valAt' \in None .. total' + 1
      BY <3>1, <3>2, <3>4
    <3> QED
      BY <1>2, <3>1, <3>5 DEF Closing, FinalCheckpoint
  <2>2. CASE goal # "validate"
    BY <1>1, <1>2, <2>2 DEF Validating, Lineage, Closing, FinalCheckpoint, MoreSteps
  <2> QED
    BY <2>1, <2>2
<1> QED
  BY <1>2, <1>3, <1>4, <1>5, <1>6, <1>7 DEF Lineage

\* What a number up to the length of an epoch leaves when it is divided by it.
LEMMA UpToLength ==
    ASSUME NEW n \in Nat, NEW a \in Nat, n >= 1, a <= n
    PROVE  a % n = IF a = n THEN 0 ELSE a
<1>1. CASE a = n
  <2>1. n % n = 0
    OBVIOUS
  <2> QED
    BY <1>1, <2>1
<1>2. CASE a # n
  <2>1. a < n
    BY <1>2
  <2>2. a % n = a
    BY <2>1
  <2> QED
    BY <1>2, <2>2
<1> QED
  BY <1>1, <1>2

\* What is saved is where the run will go on.
LEMMA SavedIsGood ==
    ASSUME Lineage, pc = "save"
    PROVE  Good(Saved)
<1>0. LineageTypes
  BY TypesOfLineage
<1>1. Late
  BY DEF Late
<1>2. /\ epoch < MaxEpochs /\ step + 1 <= pos /\ total + 1 <= Here /\ Len(log) = total + 1
      /\ ~cf.sampling => total + 1 = Here /\ step + 1 = pos
  BY <1>1 DEF Lineage, Progress
<1> DEFINE last == IF cf.kind = "grpo" THEN step + 1 ELSE (step + 1) % Length
<1>3. /\ Saved.epoch = epoch /\ Saved.total = total + 1 /\ Saved.pos = pos /\ Saved.log = log
      /\ Saved.val = valAt /\ Saved.step = last
      /\ Saved = [epoch |-> epoch, total |-> total + 1, pos |-> pos, log |-> log, val |-> valAt,
                  step |-> last]
  BY DEF Saved
<1>4. /\ last \in Nat /\ last <= pos
      /\ last = step + 1 \/ (last = 0 /\ step + 1 = Length)
  <2>1. (step + 1) % Length = IF step + 1 = Length THEN 0 ELSE step + 1
    <3>1. step + 1 \in Nat /\ step + 1 <= Length /\ Length \in Nat /\ Length >= 1
      BY <1>0, <1>2 DEF LineageTypes
    <3> QED
      BY <3>1, UpToLength
  <2> QED
    BY <1>0, <1>2, <2>1 DEF LineageTypes
<1> HIDE DEF last
<1>5. epoch \in 0 .. MaxEpochs - 1 /\ pos \in 1 .. Length
  BY <1>0, <1>2 DEF LineageTypes
<1>6. Lined(log, Here)
  BY DEF Lineage, History
<1>7. /\ valAt \in None .. total + 1
      /\ cf.kind # "distillation" => valAt \in {None, total + 1}
      /\ cf.vals /\ LastStep => valAt = total + 1
  BY <1>1 DEF Lineage, Closing
<1>8. Saved \in [epoch : 0 .. MaxEpochs - 1, step : Nat, total : Nat, pos : 1 .. Length,
                 log : Seq(Seq(Slots)), val : Int]
  BY <1>0, <1>3, <1>4, <1>5, <1>6 DEF LineageTypes, Lined
<1>9. ~cf.sampling =>
        /\ last = pos \/ (last = 0 /\ pos = Length)
        /\ LastPlace(epoch, pos) => LastStep
  BY <1>0, <1>2, <1>4, <1>5 DEF LastPlace, LastStep, LineageTypes
<1>10. Index(<<Saved.epoch, Saved.pos>>) = Here
  BY <1>3 DEF Here
<1> QED
  BY <1>2, <1>3, <1>4, <1>6, <1>7, <1>8, <1>9, <1>10 DEF Good

\* A step ends, is saved when it is due, and always when it is the last.
LEMMA LineageEndStep == ASSUME Lineage, EndStep PROVE Lineage'
<1>0. LineageTypes
  BY TypesOfLineage
<1>1. PICK late \in IF Timeout THEN BOOLEAN ELSE {FALSE} :
        /\ pc = "save"
        /\ ckpt' = IF SaveDue(late) THEN Saved ELSE ckpt
        /\ step' = step + 1 /\ total' = total + 1
        /\ cache' = NoCache /\ gens' = 0
        /\ CASE late -> pc' = "done" /\ why' = "timeout"
             [] ~late /\ ~MoreSteps(total + 1) -> pc' = "done" /\ why' = "finished"
             [] OTHER -> pc' = "next" /\ UNCHANGED why
        /\ UNCHANGED <<cf, goal, epoch, pos, log, valAt>>
  BY Zenon DEF EndStep
<1>2. late \in BOOLEAN
  OBVIOUS
<1>3. \/ late /\ pc' = "done" /\ why' = "timeout"
      \/ ~late /\ ~MoreSteps(total + 1) /\ pc' = "done"
      \/ MoreSteps(total + 1) /\ pc' = "next"
  BY <1>1, <1>2, Zenon
<1>4. /\ Late /\ Rest' /\ ~Early' /\ ~Late' /\ ~Filling' /\ Flow'
  BY <1>1, <1>3 DEF Rest, Early, Late, Filling, Flow, Checks, Lineage
<1>5. /\ epoch < MaxEpochs /\ step + 1 <= pos /\ total + 1 <= Here /\ Len(log) = total + 1
      /\ ~cf.sampling => total + 1 = Here /\ step + 1 = pos
  BY <1>4 DEF Lineage, Progress
<1>6. Progress'
  BY <1>0, <1>1, <1>4, <1>5, SMTT(60) DEF Lineage, Progress, Here, LineageTypes
<1>7. History'
  BY <1>1, <1>4 DEF Lineage, History, Lined, Here
<1>8. Caching'
  <2>1. Cached(log, <<>>, Here)
    BY NothingYet
  <2> QED
    BY <1>0, <1>1, <1>4, <2>1, SMTT(60) DEF Caching, NoCache, LineageTypes, Here
<1>9. Good(Saved) /\ Saved.total = total + 1 /\ Saved.log = log /\ Saved.val = valAt
      /\ Saved # NoCkpt
  <2>1. Saved.total = total + 1 /\ Saved.log = log /\ Saved.val = valAt
    BY DEF Saved
  <2>2. NoCkpt.total = None /\ None # total + 1
    BY <1>0 DEF NoCkpt, None, LineageTypes
  <2> QED
    BY <1>1, <2>1, <2>2, SavedIsGood
<1>10. Stored'
  <2>1. \A c : Good(c) => Good(c)'
    BY <1>1 DEF Good, Lined
  <2>2. CASE ckpt' = Saved
    <3>1. Good(ckpt')
      BY <1>9, <2>2
    <3>2. Good(ckpt)'
      BY <1>1, <3>1 DEF Good, Lined
    <3>3. pc' # "done" => MoreSteps(total + 1)
      BY <1>3
    <3> QED
      BY <1>1, <1>9, <2>2, <3>2, <3>3 DEF Stored, MoreSteps
  <2>3. CASE ckpt' = ckpt
    BY <1>1, <2>3 DEF Lineage, Stored, Good, Lined, MoreSteps
  <2> QED
    BY <1>1, <2>2, <2>3
<1>11. /\ valAt \in None .. total + 1
       /\ cf.vals /\ LastStep => valAt = total + 1
  BY <1>1, <1>4 DEF Lineage, Closing
<1>12. cf.save > 0 /\ LastStep => ckpt' = Saved
  BY <1>1 DEF SaveDue
<1>13. ~cf.sampling /\ LastPlace(epoch, pos) => LastStep
  BY <1>0, <1>5 DEF LastPlace, LastStep, LineageTypes
<1>14. (pc' = "done" /\ cf.save > 0) =>
           ckpt' = Saved /\ (cf.vals /\ why' = "finished" => valAt = total + 1)
  <2>1. CASE late
    <3>1. cf.save > 0 => ckpt' = Saved
      BY <1>1, <2>1 DEF SaveDue
    <3>2. pc' = "done" => why' # "finished"
      BY <1>1, <2>1
    <3> QED
      BY <3>1, <3>2
  <2>2. CASE ~late
    <3>1. pc' = "done" => ~MoreSteps(total + 1)
      BY <1>3, <2>2
    <3>2. pc' = "done" => LastStep
      BY <3>1 DEF LastStep
    <3> QED
      BY <1>11, <1>12, <3>2
  <2> QED
    BY <2>1, <2>2
<1>15. Closing'
  <2>1. FinalCheckpoint'
    BY <1>1, <1>9, <1>14 DEF FinalCheckpoint
  <2>2. valAt' \in None .. total' + 1 /\ valAt' <= total'
    BY <1>0, <1>1, <1>11 DEF LineageTypes, None
  <2>3. pc' # "done" => MoreSteps(total)'
    BY <1>1, <1>3 DEF MoreSteps
  <2>4. (cf.save > 0 /\ ~cf.sampling /\ LastPlace(epoch, pos)) =>
            /\ ckpt'.total = total' /\ ckpt'.log = log'
            /\ cf.vals => ckpt'.val = total'
    BY <1>1, <1>9, <1>11, <1>12, <1>13
  <2>5. pc' # "save"
    BY <1>3
  <2> QED
    BY <1>1, <1>4, <2>1, <2>2, <2>3, <2>4, <2>5 DEF Closing
<1> QED
  BY <1>4, <1>6, <1>7, <1>8, <1>10, <1>15 DEF Lineage

\* A run resumes with a state between two steps, or begins.
LEMMA LineageSetup ==
    ASSUME Stored, pc' = "start", goal' = "step", UNCHANGED <<cf, ckpt>>, cache' = NoCache, gens' = 0,
           pc # "done",
           NEW c, c = IF ckpt = NoCkpt THEN Fresh ELSE ckpt,
           epoch' = c.epoch, step' = c.step, total' = c.total, pos' = c.pos,
           log' = c.log, valAt' = c.val
    PROVE  Lineage'
<1>1. /\ Length \in Nat /\ Length >= 1 /\ MaxEpochs \in Nat /\ MaxEpochs >= 1
      /\ MaxSteps \in Nat /\ MaxSteps >= 1 /\ NumPrompts \in Nat /\ NumPrompts >= 1
      /\ MaxGenBatches \in Nat /\ MaxGenBatches >= 1
  BY TrainersAssumption DEF TrainersAssumption
<1>2. /\ Rest' /\ ~Early' /\ ~Late' /\ ~Filling' /\ Flow'
  BY DEF Rest, Early, Late, Filling, Flow, Checks
<1> DEFINE here == Index(<<c.epoch, c.pos>>)
<1>3. Here' = here
  BY DEF Here
<1>4. /\ c.epoch \in 0 .. MaxEpochs - 1 /\ c.pos \in 0 .. Length /\ c.step \in Nat /\ c.step <= c.pos
      /\ c.total \in Nat /\ here \in Nat /\ c.total <= here /\ Len(c.log) = c.total
      /\ Lined(c.log, here) /\ c.val \in None .. c.total /\ MoreSteps(c.total)
      /\ ~cf.sampling => c.total = here /\ (c.step = c.pos \/ (c.step = 0 /\ c.pos = Length))
      /\ (~cf.sampling /\ LastPlace(c.epoch, c.pos)) => c = ckpt /\ (cf.vals => c.val = c.total)
  <2>1. CASE ckpt = NoCkpt
    <3>1. /\ c.epoch = 0 /\ c.step = 0 /\ c.total = 0 /\ c.pos = 0 /\ c.log = <<>> /\ c.val = None
      BY <2>1 DEF Fresh
    <3>2. here = 0
      BY <1>1, <3>1 DEF Index
    <3>3. ~LastPlace(c.epoch, c.pos)
      BY <1>1, <3>1 DEF LastPlace
    <3>4. MoreSteps(c.total)
      BY <1>1, <3>1 DEF MoreSteps
    <3>5. Lined(c.log, here) /\ Len(c.log) = 0
      BY <3>1, <3>2, NothingYet
    <3> HIDE DEF here
    <3> QED
      BY <1>1, <3>1, <3>2, <3>3, <3>4, <3>5 DEF None
  <2>2. CASE ckpt # NoCkpt
    <3>1. c = ckpt /\ Good(c) /\ MoreSteps(c.total)
      BY <2>2 DEF Stored
    <3>2. /\ c.epoch \in 0 .. MaxEpochs - 1 /\ c.pos \in 1 .. Length /\ c.step \in Nat /\ c.total \in Nat
      BY <3>1 DEF Good
    <3>3. here \in Nat
      <4>1. c.epoch \in Nat /\ c.pos \in Nat
        BY <1>1, <3>2
      <4>2. Stepped(c.epoch, c.pos)
        BY <4>1, IndexSteps
      <4> QED
        BY <4>2 DEF Stepped
    <3> QED
      BY <1>1, <3>1, <3>2, <3>3 DEF Good
  <2> QED
    BY <2>1, <2>2
<1> HIDE DEF here
<1>5. Progress'
  BY <1>1, <1>2, <1>3, <1>4 DEF Progress
<1>6. History'
  BY <1>2, <1>3, <1>4 DEF History, Lined
<1>7. Caching'
  <2>1. Cached(log', <<>>, here)
    BY NothingYet
  <2> QED
    BY <1>1, <1>2, <1>3, <2>1 DEF Caching, NoCache
<1>8. Stored'
  BY DEF Stored, Good, Lined, MoreSteps
<1>9. Closing'
  <2>1. valAt' \in None .. total' + 1 /\ valAt' <= total'
    BY <1>4 DEF None
  <2>2. MoreSteps(total)'
    BY <1>4 DEF MoreSteps
  <2> QED
    BY <1>2, <1>4, <2>1, <2>2 DEF Closing, FinalCheckpoint
<1> QED
  BY <1>2, <1>5, <1>6, <1>7, <1>8, <1>9 DEF Lineage

\* Every step of a run keeps the lineage.
LEMMA LineageStep == Lineage /\ [Next]_vars => Lineage'
<1> SUFFICES ASSUME Lineage, [Next]_vars PROVE Lineage'
  OBVIOUS
<1>1. CASE Judge
  BY <1>1, LineageValidated DEF Judge, Validating
<1>2. CASE ValTrain
  BY <1>2, LineageValidated DEF ValTrain, Validating
<1>3. CASE Restart
  <2> DEFINE c == IF ckpt = NoCkpt THEN Fresh ELSE ckpt
  <2>1. pc = "dead" /\ Setup(c)
    BY <1>3 DEF Restart
  <2>2. /\ pc' = "start" /\ goal' = "step" /\ UNCHANGED <<cf, ckpt>> /\ cache' = NoCache /\ gens' = 0
        /\ pc # "done" /\ c = IF ckpt = NoCkpt THEN Fresh ELSE ckpt
        /\ epoch' = c.epoch /\ step' = c.step /\ total' = c.total /\ pos' = c.pos
        /\ log' = c.log /\ valAt' = c.val
    BY <2>1 DEF Setup
  <2> HIDE DEF c
  <2> QED
    BY <2>2, LineageSetup DEF Lineage
<1>4. CASE UNCHANGED vars
  <2>1. UNCHANGED <<cf, pc, goal, loopVars, ckpt, why>>
    BY <1>4 DEF vars
  <2> USE DEF loopVars
  <2>2. /\ Rest' = Rest /\ Early' = Early /\ Late' = Late /\ Filling' = Filling
        /\ Here' = Here
    BY <2>1 DEF Here, Rest, Early, Late, Filling
  <2>3. Flow'
    BY <2>1, <2>2 DEF Lineage, Flow
  <2>4. Progress'
    BY <2>1, <2>2 DEF Lineage, Progress
  <2>5. History' /\ Caching'
    BY <2>1, <2>2 DEF Lineage, History, Caching, Lined
  <2>6. Stored'
    BY <2>1 DEF Lineage, Stored, Good, Lined, MoreSteps
  <2>7. Closing'
    BY <2>1, <2>2 DEF Lineage, Closing, LastStep, MoreSteps, FinalCheckpoint
  <2> QED
    BY <2>3, <2>4, <2>5, <2>6, <2>7 DEF Lineage
<1> QED
  BY <1>1, <1>2, <1>3, <1>4, StepsInPhase, LineageEpochBegin, LineageNextBatch, LineageEpochEnd,
     LineageGenerate, LineageTrain, LineageTrained, LineageEndStep DEF Next, Run

\* A run begins with nothing.
LEMMA LineageInit == Init => Lineage
<1> SUFFICES ASSUME Init PROVE Lineage
  OBVIOUS
<1>1. /\ Length \in Nat /\ Length >= 1 /\ MaxEpochs \in Nat /\ MaxEpochs >= 1
      /\ MaxSteps \in Nat /\ MaxSteps >= 1 /\ NumPrompts \in Nat /\ NumPrompts >= 1
      /\ MaxGenBatches \in Nat /\ MaxGenBatches >= 1
  BY TrainersAssumption DEF TrainersAssumption
<1>2. /\ epoch = 0 /\ step = 0 /\ total = 0 /\ pos = 0 /\ log = <<>> /\ valAt = None
      /\ pc = "start" /\ goal = "step" /\ cache = NoCache /\ gens = 0 /\ ckpt = NoCkpt
  BY DEF Init
<1>3. /\ Rest /\ ~Early /\ ~Late /\ ~Filling /\ Flow
  BY <1>2 DEF Rest, Early, Late, Filling, Flow, Checks
<1>4. Here = 0
  BY <1>1, <1>2 DEF Here, Index
<1>5. Progress
  BY <1>1, <1>2, <1>3, <1>4 DEF Progress
<1>6. History
  BY <1>2, <1>3, <1>4, NothingYet DEF History
<1>7. Caching
  BY <1>1, <1>2, <1>3, NothingYet DEF Caching, NoCache
<1>8. Stored
  BY <1>2 DEF Stored
<1>9. Closing
  <2>1. ~LastPlace(epoch, pos)
    BY <1>1, <1>2 DEF LastPlace
  <2>2. valAt \in None .. total + 1 /\ valAt <= total
    BY <1>2 DEF None
  <2>3. MoreSteps(total)
    BY <1>1, <1>2 DEF MoreSteps
  <2> QED
    BY <1>2, <1>3, <2>1, <2>2, <2>3 DEF Closing, FinalCheckpoint
<1> QED
  BY <1>3, <1>5, <1>6, <1>7, <1>8, <1>9 DEF Lineage

\* The engine's weights and the versions in its cache are numbers of updates
\* that were made, and what is on the GPU is what there is.
Machine ==
    /\ cf \in Configs /\ mem \in Placements
    /\ engine \in Base .. Version /\ kv \subseteq 0 .. MaxEpochs * Length
    /\ why \in {"running", "finished", "timeout", "raised", "crashed"}

\* No history is longer than the data.
LEMMA UpdatesBounded ==
    ASSUME Lineage
    PROVE  Version \in Nat /\ total \in Nat /\ Version <= MaxEpochs * Length
           /\ total <= MaxEpochs * Length /\ MaxEpochs * Length \in Nat
<1>1. LineageTypes
  BY TypesOfLineage
<1>2. MaxEpochs * Length \in Nat
  BY <1>1 DEF LineageTypes
<1>3. Here <= MaxEpochs * Length /\ Here \in Nat
  BY <1>1 DEF Lineage, Progress, LineageTypes, Stepped, Here
<1>4. total \in Nat /\ total <= Here /\ Version <= Here /\ Version \in {total, total + 1}
  BY <1>1 DEF Lineage, Progress, LineageTypes, Version
<1> QED
  BY <1>2, <1>3, <1>4

\* Every step keeps it: an engine generates only with weights that were sent.
LEMMA MachineStep ==
    ASSUME Lineage, Lineage', Synced, Machine, [Next]_vars
    PROVE  Machine'
<1>1. cf' = cf /\ cf \in Configs /\ mem \in Placements
  BY DEF Machine, vars, Next, Run, Start, EpochBegin, NextBatch, EpochEnd, Ready, Transfer,
         Generate, PrepareLogprobs, PrepareTraining, Score, Scored, Train, Trained, Validate,
         Judge, Validated, ValTrain, EndStep, Crash, Restart, Setup
<1>2. /\ Version \in Nat /\ Version <= MaxEpochs * Length /\ MaxEpochs * Length \in Nat
      /\ engine \in Base .. Version
  BY UpdatesBounded DEF Machine
<1>3. mem' \in Placements
  <2>1. CASE UNCHANGED mem
    BY <1>1, <2>1
  <2>2. CASE Start \/ PrepareLogprobs \/ PrepareTraining \/ ValTrain
    BY <1>1, <2>2, PolicyHooks DEF Start, PrepareLogprobs, PrepareTraining, ValTrain
  <2>3. CASE Ready
    <3>1. mem' \in {mem, Wake(OffloadBefore(mem), {"weights"}), Wake(OffloadAfter(mem), AllTags),
                    Wake(mem, AllTags)}
      BY <2>3 DEF Ready, SyncStage, ServeFresh
    <3> QED
      BY <1>1, <3>1, SyncHooks
  <2>4. CASE Transfer
    BY <1>1, <2>4, SyncHooks DEF Transfer, SyncTransfer
  <2>5. CASE Generate \/ Judge
    BY <1>1, <2>5, SleepHook DEF Generate, Judge, FinishGeneration
  <2>6. CASE Score
    <3>1. mem' = EnterScoring(mem)
      BY <2>6 DEF Score
    <3> QED
      BY <1>1, <3>1 DEF EnterScoring, OffloadBefore, Placements
  <2>7. CASE Scored
    <3>1. mem' = EnterTraining(mem)
      BY <2>7 DEF Scored
    <3>2. [mem EXCEPT !.teacher = "cpu"] \in Placements
      BY <1>1 DEF Placements
    <3> QED
      BY <1>1, <3>1, <3>2, PolicyHooks DEF EnterTraining
  <2>8. CASE Validate \/ EndStep
    <3>1. mem' \in {mem, PrepareForTraining(mem)}
      BY <2>8, Zenon DEF Validate, EndStep
    <3> QED
      BY <1>1, <3>1, PolicyHooks
  <2>9. CASE Restart
    <3>1. mem' = SetupMemory
      BY <2>9 DEF Restart, Setup
    <3> DEFINE m == [model |-> "gpu", opt |-> "gpu", engine |-> IF MemorySaver THEN {} ELSE AllTags,
                     teacher |-> IF cf.schedule = "tight" THEN "cpu" ELSE "gpu"]
    <3>2. m \in Placements
      BY DEF Placements
    <3>3. SetupMemory = IF cf.schedule = "apart" THEN m ELSE OffloadBefore(m)
      BY DEF SetupMemory
    <3> HIDE DEF m
    <3> QED
      BY <3>1, <3>2, <3>3, PolicyHooks
  <2>10. CASE EpochBegin \/ NextBatch \/ EpochEnd \/ Train \/ Trained \/ Crash \/ UNCHANGED vars
    <3>1. UNCHANGED mem
      BY <2>10, Zenon DEF EpochBegin, NextBatch, EpochEnd, Train, Trained, Crash, vars, syncVars
    <3> QED
      BY <2>1, <3>1
  <2> QED
    BY <2>2, <2>3, <2>4, <2>5, <2>6, <2>7, <2>8, <2>9, <2>10 DEF Next, Run
<1>4. engine' \in Base .. Version'
  <2>1. CASE Transfer
    <3>1. engine' = Version /\ Version' = Version
      BY <2>1 DEF Transfer, SyncTransfer, Version, loopVars
    <3> QED
      BY <1>2, <3>1 DEF Base
  <2>2. CASE Restart
    <3>1. engine' = Base
      BY <2>2 DEF Restart, Setup
    <3>2. Version' \in Nat
      BY UpdatesBounded DEF Lineage, Progress, Version
    <3> QED
      BY <3>1, <3>2 DEF Base
  <2>3. CASE ~Transfer /\ ~Restart
    <3>1. engine' = engine
      BY <2>3, Zenon DEF Next, Run, Start, EpochBegin, NextBatch, EpochEnd, Ready, SyncStage,
         ServeFresh,
           Generate, FinishGeneration, PrepareLogprobs, PrepareTraining, Score, Scored, Train, Trained,
           Validate, Judge, ValTrain, EndStep, Crash, vars, syncVars
    <3>2. Version' = Version \/ Version' = Version + 1
      <4>1. log' = log \/ log' = Append(log, Batches)
        BY <2>3, Zenon DEF Next, Run, Start, EpochBegin, NextBatch, EpochEnd, Ready,
             Generate, PrepareLogprobs, PrepareTraining, Score, Scored, Train, Trained,
             Validate, Judge, ValTrain, Validated, EndStep, Crash, vars, loopVars
      <4> QED
        BY <4>1 DEF Version, Lineage, History, Lined
    <3> QED
      BY <1>2, <3>1, <3>2 DEF Base
  <2> QED
    BY <2>1, <2>2, <2>3
<1>5. kv' \subseteq 0 .. MaxEpochs * Length
  <2>1. kv \subseteq 0 .. MaxEpochs * Length
    BY DEF Machine
  <2>2. CASE Generate \/ Judge
    <3>1. engine = Version
      BY <2>2 DEF Synced, Generate, Judge
    <3>2. kv' \subseteq kv \cup {engine}
      BY <2>2 DEF Generate, Judge, FinishGeneration, Flush
    <3> QED
      BY <1>2, <2>1, <3>1, <3>2
  <2>3. CASE ~Generate /\ ~Judge
    <3>1. kv' \subseteq kv
      <4>1. CASE Transfer
        BY <4>1 DEF Transfer, SyncTransfer, Flush
      <4>2. CASE ~Transfer
        <5>1. kv' = kv \/ kv' = {}
          BY <2>3, <4>2, Zenon DEF Next, Run, Start, EpochBegin, NextBatch, EpochEnd, Ready,
             SyncStage,
               ServeFresh, PrepareLogprobs, PrepareTraining, Score, Scored, Train, Trained,
               Validate, ValTrain, EndStep, Crash, Restart, Setup, vars, syncVars
        <5> QED
          BY <5>1
      <4> QED
        BY <4>1, <4>2
    <3> QED
      BY <2>1, <3>1
  <2> QED
    BY <2>2, <2>3
<1>6. why' \in {"running", "finished", "timeout", "raised", "crashed"}
  <2>1. CASE EndStep
    <3>1. why' \in {"timeout", "finished", why}
      BY <2>1, Zenon DEF EndStep
    <3> QED
      BY <3>1 DEF Machine
  <2>2. CASE ~EndStep
    <3>1. why' \in {"finished", "raised", "crashed", why}
      BY <2>2, Zenon DEF Next, Run, Start, EpochBegin, NextBatch, EpochEnd, Ready, Transfer,
           Generate, DynamicSampling, PrepareLogprobs, PrepareTraining, Score, Scored, Train, Trained,
           Validate, Judge, ValTrain, Validated, Crash, Restart, Setup, vars
    <3> QED
      BY <3>1 DEF Machine
  <2> QED
    BY <2>1, <2>2
<1> QED
  BY <1>1, <1>3, <1>4, <1>5, <1>6 DEF Machine

\* The training data, the final checkpoint and its metrics, for every trainer
\* and configuration and whatever crashes: each batch is trained on once and in
\* order, a run that ends has saved its last step, and metrics in a checkpoint
\* are of its own step.
THEOREM LineageIsSound == Spec => []LineageSound
<1>1. Init => Machine
  <2> SUFFICES ASSUME Init PROVE Machine
    OBVIOUS
  <2>1. mem \in Placements
    <3>1. [model |-> "gpu", opt |-> "gpu", engine |-> IF MemorySaver THEN {} ELSE AllTags,
           teacher |-> IF cf.schedule = "tight" THEN "cpu" ELSE "gpu"] \in Placements
      BY DEF Placements
    <3> QED
      BY <3>1, PolicyHooks DEF Init, SetupMemory
  <2>2. engine \in Base .. Version
    BY DEF Init, Base, Version
  <2> QED
    BY <2>1, <2>2 DEF Init, Machine
<1>2. Lineage /\ Synced /\ Machine => LineageSound
  <2> SUFFICES ASSUME Lineage, Synced, Machine PROVE LineageSound
    OBVIOUS
  <2>1. LineageTypes /\ total <= MaxEpochs * Length
    BY TypesOfLineage, UpdatesBounded
  <2>2. TypeOK
    <3>1. /\ cf \in Configs /\ mem \in Placements
          /\ engine \in Base .. Version /\ kv \subseteq 0 .. MaxEpochs * Length
          /\ why \in {"running", "finished", "timeout", "raised", "crashed"}
      BY DEF Machine
    <3>2. /\ epoch \in 0 .. MaxEpochs /\ pos \in 0 .. Length /\ step \in 0 .. Length
      BY <2>1 DEF LineageTypes
    <3>3. total \in 0 .. MaxEpochs * Length
      BY <2>1, UpdatesBounded
    <3>4. cache.rows \in 0 .. 2 * NumPrompts - 1 /\ gens \in 0 .. MaxGenBatches + 1
          /\ valAt \in None .. total + 1
      BY DEF Lineage, Caching, Closing
    <3> QED
      BY <3>1, <3>2, <3>3, <3>4 DEF TypeOK, Placements
  <2>3. DataExact
    BY DEF DataExact, Lineage, History, Lined
  <2>4. FinalCheckpoint /\ MetricsCurrent
    BY DEF Lineage, Closing, Stored, Good, MetricsCurrent
  <2> QED
    BY <2>2, <2>3, <2>4 DEF LineageSound
<1>3. Lineage /\ Synced /\ Machine /\ [Next]_vars => (Lineage /\ Synced /\ Machine)'
  BY LineageStep, SyncedStep, MachineStep
<1> QED
  BY <1>1, <1>2, <1>3, LineageInit, SyncedInit, PTL DEF Spec

===============================================================================
