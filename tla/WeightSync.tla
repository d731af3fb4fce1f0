----------------------------- MODULE WeightSync -----------------------------
(***************************************************************************)
(* The weights a generation engine serves, and what of the policy, of the    *)
(* engine and of a distillation teacher is on the GPU.  The collective        *)
(* synchronizer feeds a vLLM fleet of its own, the IPC one a vLLM that shares  *)
(* the trainer's GPUs, and the HTTP one an SGLang server that shares them and, *)
(* with its memory saver, gives them back while the policy trains.            *)
(***************************************************************************)
EXTENDS Integers, FiniteSets

CONSTANT MaxFlushFails  \* bound on the cache flushes that fail

VARIABLES
    cf,         \* the run's configuration, fixed at the start
    stale,      \* WeightSynchronizer._stale
    engine,     \* the policy version the engine serves; Base before a sync
    kv,         \* the versions that computed the KV blocks in the cache
    mem,        \* where the model, its optimizer and the teacher are, and
                \* which parts of the engine hold GPU memory
    flushFails

syncVars == <<stale, engine, kv, mem, flushFails>>

Base == -1      \* the checkpoint the engine was started from

Colocated == cf.genColocated

\* vLLM is never put to sleep: its prepare_for_generation does nothing.
MemorySaver == cf.backend = "sglang" /\ cf.saver

-------------------------------------------------------------------------------
(* Residency: what the policy workers' and the engine's hooks move.  A policy  *)
(* with cpu_offload, which stays in host memory, is not modelled.             *)

OffloadBefore(m) == [m EXCEPT !.opt = "cpu"]

OffloadAfter(m) == OffloadBefore([m EXCEPT !.model = "cpu"])

\* The optimizer comes back only for a policy configured to let it go.
PrepareForTraining(m) ==
    [m EXCEPT !.model = "gpu", !.opt = IF cf.offloadOpt \/ cf.genColocated THEN "gpu" ELSE @]

PrepareForLp(m) ==
    [m EXCEPT !.model = "gpu", !.opt = IF cf.offloadOpt THEN "cpu" ELSE @]

Wake(m, tags) == IF MemorySaver THEN [m EXCEPT !.engine = @ \cup tags] ELSE m

Sleep(m) == IF MemorySaver THEN [m EXCEPT !.engine = {}] ELSE m

AllTags == {"weights", "kv"}

-------------------------------------------------------------------------------
(* The synchronizer.                                                         *)

\* invalidate_kv_cache on a cache holding blocks: a failure is only reported.
Flush(blocks) ==
    \/ kv' = {} /\ UNCHANGED flushFails
    \/ /\ flushFails < MaxFlushFails
       /\ flushFails' = flushFails + 1
       /\ kv' = blocks

\* The policy lets its optimizer go and the engine takes memory for weights.
SyncStage ==
    /\ mem' = IF Colocated THEN Wake(OffloadBefore(mem), {"weights"}) ELSE mem
    /\ UNCHANGED <<stale, engine, kv, flushFails>>

\* The transfer, the flush, and for shared GPUs the closing offload and the
\* memory for the cache.  Without recompute_kv_cache vLLM is not flushed here.
SyncTransfer(version) ==
    /\ engine' = version
    /\ IF cf.backend = "sglang" \/ cf.recompute THEN Flush(kv) ELSE UNCHANGED <<kv, flushFails>>
    /\ mem' = IF Colocated THEN Wake(OffloadAfter(mem), {"kv"}) ELSE mem
    /\ stale' = FALSE

\* What is fresh needs no transfer, only the memory it was served from.
ServeFresh ==
    /\ mem' = Wake(IF Colocated THEN OffloadAfter(mem) ELSE mem, AllTags)
    /\ UNCHANGED <<stale, engine, kv, flushFails>>

\* finish_generation after a round: vLLM drops the cache, SGLang keeps it
\* warm unless the memory saver releases it with the rest.
FinishGeneration ==
    /\ CASE cf.backend = "vllm" -> Flush(kv \cup {engine})
         [] MemorySaver -> kv' = {} /\ UNCHANGED flushFails
         [] OTHER -> kv' = kv \cup {engine} /\ UNCHANGED flushFails
    /\ mem' = Sleep(mem)
    /\ UNCHANGED <<stale, engine>>
=============================================================================
