--------------------------- MODULE StrategyRunner ---------------------------
(***************************************************************************)
(* The strategy runner (strategy/runner) over its repository               *)
(* (adapters/strategy/memory).  Goroutines call EvaluateFrame for an       *)
(* instance and a frame while an operator replaces the instance and the    *)
(* application shuts the runner down.  The instance, the committed         *)
(* evaluations and the readiness are read before the instance is reserved. *)
(***************************************************************************)
EXTENDS Naturals, Sequences, FiniteSets

CONSTANTS Callers,          \* goroutines inside EvaluateFrame
          Frames,           \* candle frames offered to the instance
          Lifecycles,       \* lifecycle states an operator puts
          Kinds,            \* results the strategy produces, among ResultKinds
          MaxConcurrency,   \* Config.MaxConcurrency, capacity of the semaphore
          MaxEvaluations,   \* Limits.Evaluations of the store
          MaxGeneration,    \* bound: revisions of the instance
          NoCall            \* nobody

VARIABLES catalog,      \* what is registered: definition, version, implementation
          instance,     \* the stored instance: [generation, lifecycle]
          chain,        \* its chain of runtime checkpoints
          evaluations,  \* committed evaluation records
          storeFault,   \* "none", "corrupted" or "injected"
          dataReady,    \* the readiness source says READY
          call,         \* the calls in progress
          running,      \* the call that holds the instance's reservation
          semaphore,    \* calls holding a slot
          closed,       \* Runner.closed, and its context is cancelled: no new reservation
          stopped,      \* Shutdown's wait has ended
          committed     \* receipts that reported a commit

strategyVars == <<catalog, instance, chain, evaluations, storeFault, dataReady,
                  call, running, semaphore, closed, stopped, committed>>
storeVars == <<catalog, instance, chain, evaluations, storeFault>>
runnerVars == <<running, semaphore, closed, stopped, committed>>
-----------------------------------------------------------------------------
LifecycleStates == {"CANDIDATE", "PROBATION", "ACTIVE", "SUSPENDED", "RETIRED"}
Evaluates(lifecycle) == lifecycle \in {"CANDIDATE", "PROBATION", "ACTIVE"}

ResultKinds == {"NO_ACTION", "OBSERVATION", "TRADE_PROPOSAL"}

(* Only known lifecycle states are put; the store's limits are not negative. *)
ASSUME StrategyAssumption ==
    /\ Lifecycles \subseteq LifecycleStates
    /\ MaxConcurrency \in Nat /\ MaxEvaluations \in Nat /\ MaxGeneration \in Nat
    /\ NoCall \notin Callers

(* The identity of an evaluation is derived from the instance's revision and the
   frame, so an evaluation is the same one for every caller. *)
EvaluationID(generation, frame) == <<generation, frame>>
NoEvaluation == <<0, "none">>

(* A checkpoint names its parent by checksum: here by the parent itself. *)
GenesisCheckpoint(generation) ==
    [revision |-> 0, generation |-> generation, eval |-> NoEvaluation, parent |-> <<>>]
NextRuntimeCheckpoint(current, generation, frame) ==
    [revision |-> current.revision + 1, generation |-> generation,
     eval |-> EvaluationID(generation, frame), parent |-> <<current>>]

Current == chain[Len(chain)]

(* A call that holds nothing of an evaluation any more, or not yet. *)
Blank(pc) == [pc |-> pc, frame |-> "none", generation |-> 0, evaluates |-> FALSE,
              base |-> GenesisCheckpoint(0), kind |-> "NO_ACTION", ctx |-> "live"]
IdleCall == Blank("idle")

StrategyInit ==
    /\ catalog = {} /\ instance = [generation |-> 0, lifecycle |-> "CANDIDATE"]
    /\ chain = <<>> /\ evaluations = {} /\ storeFault = "none"
    /\ dataReady = TRUE
    /\ call = [c \in Callers |-> IdleCall]
    /\ running = NoCall /\ semaphore = {} /\ closed = FALSE /\ stopped = FALSE
    /\ committed = 0
-----------------------------------------------------------------------------
(* The repository's other writers. *)

RegisterDefinition ==
    /\ "definition" \notin catalog
    /\ catalog' = catalog \cup {"definition"}
    /\ UNCHANGED <<instance, chain, evaluations, storeFault, dataReady, call, runnerVars>>

RegisterVersion ==
    /\ "definition" \in catalog /\ "version" \notin catalog
    /\ catalog' = catalog \cup {"version"}
    /\ UNCHANGED <<instance, chain, evaluations, storeFault, dataReady, call, runnerVars>>

(* Registry.Register: the implementation of a version. *)
Register ==
    /\ "implementation" \notin catalog
    /\ catalog' = catalog \cup {"implementation"}
    /\ UNCHANGED <<instance, chain, evaluations, storeFault, dataReady, call, runnerVars>>

(* PutInstance: the version must be there, the expected revision must be the stored
   one, and the generation grows by one, so every change has a new revision. *)
PutInstance(lifecycle) ==
    /\ "version" \in catalog /\ instance.generation < MaxGeneration
    /\ instance' = [generation |-> instance.generation + 1, lifecycle |-> lifecycle]
    /\ UNCHANGED <<catalog, chain, evaluations, storeFault, dataReady, call, runnerVars>>

InitializeCheckpoint ==
    /\ instance.generation > 0 /\ chain = <<>>
    /\ chain' = <<GenesisCheckpoint(instance.generation)>>
    /\ UNCHANGED <<catalog, instance, evaluations, storeFault, dataReady, call, runnerVars>>

SetFailureInjector ==
    /\ storeFault \in {"none", "injected"}
    /\ storeFault' = IF storeFault = "none" THEN "injected" ELSE "none"
    /\ UNCHANGED <<catalog, instance, chain, evaluations, dataReady, call, runnerVars>>

CorruptCurrentCheckpointForTest ==
    /\ storeFault = "none" /\ chain # <<>>
    /\ storeFault' = "corrupted"
    /\ UNCHANGED <<catalog, instance, chain, evaluations, dataReady, call, runnerVars>>

(* SnapshotReadinessGate: the market-data evidence, which changes on its own. *)
ReadinessChanges ==
    /\ dataReady' = ~dataReady
    /\ UNCHANGED <<storeVars, call, runnerVars>>
-----------------------------------------------------------------------------
(* EvaluateFrame, step by step. *)

CallAt(c, pc, base, kind) ==
    [pc |-> pc, frame |-> call[c].frame, generation |-> call[c].generation,
     evaluates |-> call[c].evaluates, base |-> base, kind |-> kind, ctx |-> call[c].ctx]
Step(c, pc) == call' = [call EXCEPT ![c].pc = pc]
(* failure and record: the call answers a refusal and changes nothing; the wording of
   the outcome is left out. *)
Answer(c) == call' = [call EXCEPT ![c] = IdleCall]
(* The same while it still holds its reservation, which the deferred calls release. *)
UnwindEvaluation(c) == call' = [call EXCEPT ![c] = Blank("leave")]

(* The instance, its implementation and its configuration are read. *)
EvaluateFrame(c, frame) ==
    /\ call[c].pc = "idle"
    /\ call' = [call EXCEPT ![c] =
         IF instance.generation > 0 /\ "implementation" \in catalog
         THEN [pc |-> "lookup", frame |-> frame, generation |-> instance.generation,
               evaluates |-> Evaluates(instance.lifecycle), base |-> IdleCall.base,
               kind |-> IdleCall.kind, ctx |-> IdleCall.ctx]
         ELSE IdleCall]
    /\ UNCHANGED <<storeVars, dataReady, runnerVars>>

IDOf(c) == EvaluationID(call[c].generation, call[c].frame)
Stored(id) == \E e \in evaluations : e.eval = id

(* A committed evaluation is answered, an ineligible instance and missing readiness
   are refused; all before the reservation. *)
LookupEvaluation(c) ==
    /\ call[c].pc = "lookup"
    /\ IF ~Stored(IDOf(c)) /\ call[c].evaluates /\ dataReady
       THEN Step(c, "reserve") ELSE Answer(c)
    /\ UNCHANGED <<storeVars, dataReady, runnerVars>>

ReserveInstanceRefused(c) ==
    /\ call[c].pc = "reserve"
    /\ closed \/ running # NoCall
    /\ Answer(c)
    /\ UNCHANGED <<storeVars, dataReady, runnerVars>>

reserveInstance(c) ==
    /\ call[c].pc = "reserve" /\ ~closed /\ running = NoCall
    /\ running' = c
    /\ Step(c, "slot")
    /\ UNCHANGED <<storeVars, dataReady, semaphore, closed, stopped, committed>>

TakeEvaluationSlot(c) ==
    /\ call[c].pc = "slot" /\ Cardinality(semaphore) < MaxConcurrency
    /\ semaphore' = semaphore \cup {c}
    /\ Step(c, "load")
    /\ UNCHANGED <<storeVars, dataReady, running, closed, stopped, committed>>

AbandonEvaluation(c) ==
    /\ call[c].pc = "slot" /\ (closed \/ call[c].ctx = "ended")
    /\ UnwindEvaluation(c)
    /\ UNCHANGED <<storeVars, dataReady, runnerVars>>

(* CurrentCheckpoint, and the evaluation context built from it. *)
CurrentCheckpoint(c) ==
    /\ call[c].pc = "load"
    /\ IF chain = <<>> \/ storeFault = "corrupted"
       THEN UnwindEvaluation(c)
       ELSE call' = [call EXCEPT ![c] = CallAt(c, "invoke", Current, call[c].kind)]
    /\ UNCHANGED <<storeVars, dataReady, runnerVars>>

(* The evaluation context ends: by its deadline, by its caller, or by the function
   that context.AfterFunc starts in a goroutine of its own when the runner is closed.
   An evaluation may go on for a while, and publish, after the runner was closed. *)
ContextEnds(c) ==
    /\ call[c].pc \in {"slot", "load", "invoke", "publish"} /\ call[c].ctx = "live"
    /\ call' = [call EXCEPT ![c].ctx = "ended"]
    /\ UNCHANGED <<storeVars, dataReady, runnerVars>>

Ended(c) == call[c].ctx = "ended"

(* The strategy panics, or answers too late, or answers something invalid: in every
   case the result is dropped. *)
InvokeFails(c) ==
    /\ call[c].pc = "invoke"
    /\ UnwindEvaluation(c)
    /\ UNCHANGED <<storeVars, dataReady, runnerVars>>

invokeStrategy(c) ==
    /\ call[c].pc = "invoke" /\ ~Ended(c)
    /\ \E kind \in Kinds :
         call' = [call EXCEPT ![c] = CallAt(c, "publish", call[c].base, kind)]
    /\ UNCHANGED <<storeVars, dataReady, runnerVars>>

(* What the runner publishes: the record, the next checkpoint, and the revisions it
   expects to find. *)
EvaluationPublication(c) ==
    [eval |-> IDOf(c), generation |-> call[c].generation, kind |-> call[c].kind,
     expected |-> call[c].base.revision,
     checkpoint |-> NextRuntimeCheckpoint(call[c].base, call[c].generation, call[c].frame)]

(* validatePublication: the checkpoint, the record and the publication name the same
   evaluation, revision and instance revision. *)
validatePublication(p) == /\ p.checkpoint.eval = p.eval
                       /\ p.checkpoint.generation = p.generation
                       /\ p.checkpoint.revision = p.expected + 1

IsCurrentRevision(p) == p.generation = instance.generation
Extends(p) == /\ chain # <<>> /\ storeFault # "corrupted"
              /\ Current.revision = p.expected
              /\ p.checkpoint.parent = <<Current>>
(* Mutant of Known: a stored evaluation is not looked for. *)
NeverKnown(p) == FALSE
Known(p) == Stored(p.eval)
WithinLimits == Cardinality(evaluations) < MaxEvaluations

EvaluationPublishable(p) == /\ validatePublication(p) /\ ~Known(p) /\ IsCurrentRevision(p) /\ Extends(p)
                  /\ storeFault = "none" /\ WithinLimits

Record(p) == [eval |-> p.eval, revision |-> p.checkpoint.revision,
              prior |-> p.expected, kind |-> p.kind]

(* PublishEvaluation under the store's lock: one swap of the snapshot. *)
PublishEvaluation(c) ==
    /\ call[c].pc = "publish" /\ ~Ended(c) /\ EvaluationPublishable(EvaluationPublication(c))
    /\ chain' = Append(chain, EvaluationPublication(c).checkpoint)
    /\ evaluations' = evaluations \cup {Record(EvaluationPublication(c))}
    /\ committed' = committed + 1
    /\ UnwindEvaluation(c)
    /\ UNCHANGED <<catalog, instance, storeFault, dataReady, running, semaphore, closed, stopped>>

EvaluationRefused(c) ==
    /\ call[c].pc = "publish"
    /\ Ended(c) \/ ~EvaluationPublishable(EvaluationPublication(c))
    /\ UnwindEvaluation(c)
    /\ UNCHANGED <<storeVars, dataReady, runnerVars>>

(* The deferred calls: the slot, the reservation and the wait group. *)
releaseInstance(c) ==
    /\ call[c].pc = "leave"
    /\ semaphore' = semaphore \ {c}
    /\ running' = NoCall
    /\ Answer(c)
    /\ UNCHANGED <<storeVars, dataReady, closed, stopped, committed>>

StrategyShutdown ==
    /\ ~closed /\ closed' = TRUE
    /\ UNCHANGED <<storeVars, dataReady, call, running, semaphore, stopped, committed>>

(* Mutant of StrategyShutdownDone: Shutdown returns without its wait group. *)
ShutdownWithoutWait ==
    /\ closed /\ ~stopped
    /\ stopped' = TRUE
    /\ UNCHANGED <<storeVars, dataReady, call, running, semaphore, closed, committed>>

(* The wait group counts the reservations. *)
StrategyShutdownDone ==
    /\ closed /\ ~stopped /\ running = NoCall
    /\ stopped' = TRUE
    /\ UNCHANGED <<storeVars, dataReady, call, running, semaphore, closed, committed>>
-----------------------------------------------------------------------------
CallStep(c) ==
    \/ LookupEvaluation(c) \/ ReserveInstanceRefused(c) \/ reserveInstance(c) \/ TakeEvaluationSlot(c) \/ AbandonEvaluation(c)
    \/ CurrentCheckpoint(c) \/ InvokeFails(c) \/ invokeStrategy(c)
    \/ PublishEvaluation(c) \/ EvaluationRefused(c) \/ releaseInstance(c)

StrategyNext ==
    \/ RegisterDefinition \/ RegisterVersion \/ Register
    \/ \E l \in Lifecycles : PutInstance(l)
    \/ InitializeCheckpoint \/ SetFailureInjector \/ CorruptCurrentCheckpointForTest
    \/ ReadinessChanges
    \/ \E c \in Callers :
         \/ \E f \in Frames : EvaluateFrame(c, f)
         \/ ContextEnds(c)
         \/ CallStep(c)
    \/ StrategyShutdown \/ StrategyShutdownDone

(* Fairness: a goroutine inside a call runs on, the strategy returns. *)
StrategyFairness == /\ \A c \in Callers : WF_strategyVars(CallStep(c))
            /\ WF_strategyVars(StrategyShutdownDone)

StrategySpec == StrategyInit /\ [][StrategyNext]_strategyVars /\ StrategyFairness
-----------------------------------------------------------------------------
StrategyTypeOK ==
    /\ instance.generation \in 0..MaxGeneration /\ instance.lifecycle \in LifecycleStates
    /\ Len(chain) <= MaxEvaluations + 1
    /\ running \in Callers \cup {NoCall}
    /\ Cardinality(semaphore) <= MaxConcurrency

(* Restore's check of a checkpoint against what the caller expects and the chain. *)
VerifyRestoration(k) ==
    /\ chain[k].revision = k - 1
    /\ chain[k].generation \in 1..instance.generation
Restores(k) ==
    /\ VerifyRestoration(k)
    /\ k > 1 => chain[k].parent = <<chain[k - 1]>>

(* Every checkpoint of the chain restores, every checkpoint after the genesis belongs
   to one committed evaluation, and no evaluation has two: a frame that two callers
   offer is evaluated into the instance's state once, although both may have looked it
   up before either reserved the instance. *)
EvaluatedOnce ==
    /\ \A k \in DOMAIN chain : Restores(k)
    /\ chain # <<>> => Cardinality(evaluations) = Len(chain) - 1
    /\ \A k \in DOMAIN chain \ {1} :
         \E e \in evaluations : e.eval = chain[k].eval /\ e.revision = k - 1
    /\ \A e, f \in evaluations : e.eval = f.eval => e = f

(* Receipts and store agree: as many evaluations are stored as calls were told that
   theirs was committed.  A call that answers TIMED_OUT, CANCELLED, SHUTDOWN or a
   failure has stored nothing, so a late result is dropped and not half kept. *)
ReceiptsMatchStore == committed = Cardinality(evaluations)

(* The reservation, the slot and the call's program counter say the same. *)
SlotsAccounted ==
    /\ \A c \in Callers : (call[c].pc \in {"slot", "load", "invoke", "publish", "leave"})
                             <=> running = c
    /\ \A c \in semaphore : call[c].pc \in {"load", "invoke", "publish", "leave"}

StrategyInv == StrategyTypeOK /\ EvaluatedOnce /\ ReceiptsMatchStore /\ SlotsAccounted

(* An evaluation is stored only for the instance's revision of that moment, and only
   if that revision evaluates: an instance that was suspended or reconfigured while its
   strategy was running produces no proposal from the old revision. *)
RevisionStep ==
    \A e \in evaluations' \ evaluations :
        e.eval[1] = instance.generation /\ Evaluates(instance.lifecycle)
OldRevisionsAreSilent == [][RevisionStep]_strategyVars

(* After Shutdown has returned the runner stores nothing any more, although an
   evaluation that was under way may not have seen the cancellation: only the wait for
   the calls that hold a reservation keeps its publication before the return. *)
StoppedStep == stopped => UNCHANGED <<evaluations, semaphore>>
StoppedRunnerIsQuiet == [][StoppedStep]_strategyVars

(* An old revision and a stopped runner store nothing (Store.PublishEvaluation,
   Runner.Shutdown). *)
RunnerIsQuiet == OldRevisionsAreSilent /\ StoppedRunnerIsQuiet

(* Shutdown returns: the calls that hold a reservation leave. *)
ShutdownReturns == closed ~> stopped
=============================================================================
