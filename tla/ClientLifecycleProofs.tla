------------------------- MODULE ClientLifecycleProofs -------------------------
(***************************************************************************)
(* The life of the client for every number of attempts, every kind of      *)
(* samp.dll and every VirtualProtect that may fail.                        *)
(***************************************************************************)
EXTENDS ClientLifecycle, TLAPS

(* The entry and the other library's hook form one chain.                   *)
ChainOK ==
  /\ slot \in {"Samp", "Hook", "Other"}
  /\ slot = "Other" => otherNext \in {"Samp", "Hook"}
  /\ slot # "Other" => otherNext = "None"

PartiesOK ==
  /\ process \in {"Running", "Unloading", "Exiting"}
  /\ process = "Running" <=> detach = "None"
  /\ process = "Unloading" /\ ~overtaken => init = "Done"

Prepared ==
  /\ callbacks /\ resolved /\ initialized
  /\ transportSet /\ assets = "Running"

Detached == ~Reached /\ ~active /\ ~receiveSlot

(* Where the initialization thread is tells how much of the client stands.  *)
Progress ==
  /\ init \in InitSteps
  /\ init \in {"Unscheduled", "Scheduled", "Opened", "Detecting"} =>
       Detached /\ ~transportSet /\ assets = "None"
  /\ init = "StartingAssets" => Detached /\ transportSet /\ assets = "None"
  /\ init \in {"Registering", "Resolving", "Resolved", "Installing", "Failing"} =>
       Detached /\ transportSet /\ assets = "Running"
  /\ init \in {"Resolving", "Resolved", "Installing"} => callbacks
  /\ init = "Installing" => Prepared
  /\ init = "Exchanging" => Prepared /\ active /\ ~Reached /\ ~receiveSlot
  /\ init = "Exchanged" => Prepared /\ active /\ ~receiveSlot /\ (previous # "Samp" => ~Reached)
  /\ init \in {"GivingUp", "DroppingAssets"} => Detached
  /\ init = "DroppingAssets" => ~transportSet
  /\ init = "Concluding" =>
       IF transportSet THEN Prepared /\ active /\ receiveSlot
                       ELSE Detached /\ assets = "None"

(* The runtime is Ready only behind the thread's last step.                 *)
Outcome ==
  /\ init \in {"Unscheduled", "Scheduled"} => state = "Dormant"
  /\ init \notin {"Unscheduled", "Scheduled", "Done"} => state = "Initializing"
  /\ init = "Done" =>
       IF state = "Ready" /\ transportSet
         THEN Prepared /\ active /\ receiveSlot
         ELSE Detached /\ assets = "None"

(* After DLL_PROCESS_DETACH began, the hook is whole or no longer reached.  *)
Departure ==
  process = "Unloading" /\ ~overtaken /\ Reached => active /\ resolved /\ receiveSlot

(* Nothing is claimed once InstallReceiveHook has taken its hook out again: *)
(* another library may have chained to it.                                  *)
IInv ==
  ~takenOut =>
    /\ ChainOK
    /\ PartiesOK
    /\ process = "Running" => Progress /\ Outcome
    /\ Departure

(* The initialization thread runs only while the process does; only its own *)
(* actions are left to look at.                                             *)
LEMMA ThreadKeeps ==
  ASSUME IInv, InitializationThread
  PROVE  IInv'
<1> USE DEF IInv, ChainOK, PartiesOK, Progress, Outcome, Departure, Detached, Prepared,
            Reached, ThreadStep, InitSteps, Conclude, ClearAdapter,
            contextVars, adapterVars, localVars, otherVars
<1>1. takenOut \/ (process = "Running" /\ detach = "None") \/ (process = "Unloading" /\ overtaken)
  <2>1. process # "Exiting" /\ detach # "Done" /\ init # "Done"
    BY DEF InitializationThread, ScheduleInitialization, BeginInitialize, CheckState, RefuseBuild,
        SelectTransport, StartAssets, StartAssetsThrows, InitializeTransport, ResolveRakClient,
        RetryResolve, MarkInitialized, ActivateHook, CannotWriteSlot, ExchangeSlot, KeepHook,
        LoseSlot, TakeHookOut, FailInitialize, GiveUp, DropAssets, ConcludeInitialize
  <2> QED BY <2>1
<1>2. CASE ScheduleInitialization BY <1>1, <1>2 DEF ScheduleInitialization
<1>3. CASE BeginInitialize BY <1>1, <1>3 DEF BeginInitialize
<1>4. CASE CheckState BY <1>1, <1>4 DEF CheckState
<1>5. CASE RefuseBuild BY <1>1, <1>5 DEF RefuseBuild
<1>6. CASE SelectTransport BY <1>1, <1>6 DEF SelectTransport
<1>7. CASE StartAssets BY <1>1, <1>7 DEF StartAssets
<1>8. CASE StartAssetsThrows BY <1>1, <1>8 DEF StartAssetsThrows
<1>9. CASE InitializeTransport BY <1>1, <1>9 DEF InitializeTransport
<1>10. CASE ResolveRakClient BY <1>1, <1>10 DEF ResolveRakClient
<1>11. CASE RetryResolve BY <1>1, <1>11 DEF RetryResolve
<1>12. CASE MarkInitialized BY <1>1, <1>12 DEF MarkInitialized
<1>13. CASE ActivateHook BY <1>1, <1>13 DEF ActivateHook
<1>14. CASE CannotWriteSlot BY <1>1, <1>14 DEF CannotWriteSlot
<1>15. CASE ExchangeSlot BY <1>1, <1>15 DEF ExchangeSlot, originalReceive
<1>16. CASE KeepHook BY <1>1, <1>16 DEF KeepHook
<1>17. CASE LoseSlot BY <1>1, <1>17 DEF LoseSlot, originalReceive
<1>18. CASE TakeHookOut BY <1>18 DEF TakeHookOut
<1>19. CASE FailInitialize BY <1>1, <1>19 DEF FailInitialize
<1>20. CASE GiveUp BY <1>1, <1>20 DEF GiveUp
<1>21. CASE DropAssets BY <1>1, <1>21 DEF DropAssets
<1>22. CASE ConcludeInitialize BY <1>1, <1>22 DEF ConcludeInitialize
<1> QED
  BY <1>2, <1>3, <1>4, <1>5, <1>6, <1>7, <1>8, <1>9, <1>10, <1>11, <1>12, <1>13, <1>14,
     <1>15, <1>16, <1>17, <1>18, <1>19, <1>20, <1>21, <1>22 DEF InitializationThread

(* The detaching thread clears the adapter only when nothing reaches it.    *)
LEMMA DetachKeeps ==
  ASSUME IInv, DetachingThread
  PROVE  IInv'
<1> USE DEF IInv, ChainOK, PartiesOK, Departure, Reached, NothingToRestore, ClearAdapter,
            originalReceive, contextVars, threadVars, localVars, adapterVars, otherVars
<1>1. ASSUME NEW reason \in {"Unloading", "Exiting"}, BeginShutdown(reason) PROVE IInv'
  BY <1>1 DEF BeginShutdown, Progress, Outcome, Detached, Prepared
<1>2. CASE ShutdownClears BY <1>2 DEF ShutdownClears
<1>3. CASE ShutdownRestores BY <1>3 DEF ShutdownRestores, RestoreSlot, Restored
<1>4. CASE ShutdownCannotWriteSlot BY <1>4 DEF ShutdownCannotWriteSlot
<1>5. CASE StopClient BY <1>5 DEF StopClient
<1> QED BY <1>1, <1>2, <1>3, <1>4, <1>5 DEF DetachingThread

(* Another library's hook changes the entry but not what can be reached.    *)
LEMMA OthersKeep ==
  ASSUME IInv, OtherHooks \/ OtherLeaves
  PROVE  IInv'
<1> USE DEF IInv, ChainOK, PartiesOK, Progress, Outcome, Departure, Detached, Prepared,
            Reached, contextVars, threadVars, localVars, adapterVars
<1>1. CASE OtherHooks BY <1>1 DEF OtherHooks
<1>2. CASE OtherLeaves BY <1>2 DEF OtherLeaves
<1> QED BY <1>1, <1>2

(* The strengthened invariant holds for ever.                               *)
THEOREM InvariantHolds == Spec => []IInv
<1>1. Init => IInv
  BY DEF Init, IInv, ChainOK, PartiesOK, Progress, Outcome, Departure, Detached, Prepared,
         Reached, InitSteps
<1>2. IInv /\ [Next]_vars => IInv'
  <2> SUFFICES ASSUME IInv, [Next]_vars PROVE IInv'
    OBVIOUS
  <2>1. CASE UNCHANGED vars
    BY <2>1
    DEF vars, contextVars, threadVars, localVars, adapterVars, otherVars, IInv, ChainOK, PartiesOK,
        Progress, Outcome, Departure, Detached, Prepared, Reached
  <2> QED BY <2>1, ThreadKeeps, DetachKeeps, OthersKeep DEF Next
<1> QED BY <1>1, <1>2, PTL DEF Spec

(* ClientRuntime::InitializeImpl: a call through the hook finds everything  *)
(* behind it in place, at whatever moment the hook is called.               *)
THEOREM HookComesLast == Spec => []HookIsWhole
<1>1. IInv => HookIsWhole
  BY DEF IInv, Progress, Outcome, Prepared, Detached, HookIsWhole, InitSteps
<1> QED BY <1>1, InvariantHolds, PTL

(* ClientRuntime::InitializeImpl: the client works altogether or not at all. *)
THEOREM WholeOrGone == Spec => []AllOrNothing
<1>1. IInv => AllOrNothing
  BY DEF IInv, Outcome, Prepared, Detached, AllOrNothing
<1> QED BY <1>1, InvariantHolds, PTL

(* SampRakNetTransport::Shutdown: pointers a hook may still be called       *)
(* through are not cleared.                                                 *)
THEOREM PointersOutlive == Spec => []PointersOutliveHook
<1>1. IInv => PointersOutliveHook
  BY DEF IInv, PartiesOK, Progress, Outcome, Departure, Prepared, Detached, InitSteps,
         PointersOutliveHook, ChainedHookKeepsPointers
<1> QED BY <1>1, InvariantHolds, PTL

(* SampRakNetTransport: whatever fails and whenever the library leaves, the *)
(* exchanges never write over another library's hook.                       *)
THEOREM OthersAreLeftAlone == Spec => ForeignHookKept
<1>1. [Next]_vars => (slot = "Other" /\ slot' # slot => otherNext' = "None")
  <2> SUFFICES ASSUME [Next]_vars, slot = "Other", slot' # slot PROVE otherNext' = "None"
    OBVIOUS
  <2>1. ~ InitializationThread
    BY DEF InitializationThread, ScheduleInitialization, BeginInitialize, CheckState, RefuseBuild,
        SelectTransport, StartAssets, StartAssetsThrows, InitializeTransport, ResolveRakClient,
        RetryResolve, MarkInitialized, ActivateHook, CannotWriteSlot, ExchangeSlot, KeepHook,
        LoseSlot, TakeHookOut, FailInitialize, GiveUp, DropAssets, ConcludeInitialize,
        originalReceive
  <2>2. ~ DetachingThread
    BY DEF DetachingThread, BeginShutdown, ShutdownClears, ShutdownRestores,
        ShutdownCannotWriteSlot, StopClient, RestoreSlot
  <2>3. ~ OtherHooks /\ ~ UNCHANGED vars
    BY DEF OtherHooks, vars
  <2> QED BY <2>1, <2>2, <2>3 DEF Next, OtherLeaves
<1> QED BY <1>1, PTL DEF Spec, ForeignHookKept

(* ClientRuntime: no step of any thread leaves ShuttingDown, even when the  *)
(* library is unloaded in the middle of its initialization.                 *)
THEOREM NothingFollowsShutdown == Spec => ShutdownIsFinal
<1>1. [Next]_vars => (state = "ShuttingDown" => state' = "ShuttingDown")
  <2> SUFFICES ASSUME [Next]_vars, state = "ShuttingDown" PROVE state' = "ShuttingDown"
    OBVIOUS
  <2>1. CASE InitializationThread
    BY <2>1
    DEF InitializationThread, ScheduleInitialization, BeginInitialize, CheckState, RefuseBuild,
        SelectTransport, StartAssets, StartAssetsThrows, InitializeTransport, ResolveRakClient,
        RetryResolve, MarkInitialized, ActivateHook, CannotWriteSlot, ExchangeSlot, KeepHook,
        LoseSlot, TakeHookOut, FailInitialize, GiveUp, DropAssets, ConcludeInitialize, Conclude
  <2>2. CASE DetachingThread
    BY <2>2
    DEF DetachingThread, BeginShutdown, ShutdownClears, ShutdownRestores,
        ShutdownCannotWriteSlot, StopClient
  <2>3. CASE OtherHooks \/ OtherLeaves \/ UNCHANGED vars
    BY <2>3 DEF OtherHooks, OtherLeaves, vars
  <2> QED BY <2>1, <2>2, <2>3 DEF Next
<1> QED BY <1>1, PTL DEF Spec, ShutdownIsFinal

-----------------------------------------------------------------------------
(* Types, the flags apart from the rest.  The retry loop is entered with no *)
(* attempt made and left with its last one.                                 *)
BeforeLoop == {"Unscheduled", "Scheduled", "Opened", "Detecting", "StartingAssets", "Registering"}

Flags ==
  /\ transportSet \in BOOLEAN /\ takenOut \in BOOLEAN /\ overtaken \in BOOLEAN
  /\ callbacks \in BOOLEAN /\ resolved \in BOOLEAN /\ initialized \in BOOLEAN
  /\ active \in BOOLEAN /\ receiveSlot \in BOOLEAN

Words ==
  /\ state \in {"Dormant", "Initializing", "Ready", "Disabled", "ShuttingDown"}
  /\ build \in {"None"} \cup Builds
  /\ assets \in {"None", "Running", "Stopping", "Deleted"}
  /\ init \in InitSteps /\ attempts \in 0..MaxAttempts
  /\ previous \in Functions /\ slot \in Functions /\ otherNext \in Functions
  /\ process \in {"Running", "Unloading", "Exiting"}
  /\ detach \in {"None", "Restoring", "Stopping", "Done"}
  /\ init \in BeforeLoop \cup {"Resolving"} => attempts < MaxAttempts

(* A step of the initialization thread keeps the types; the loop of         *)
(* Initialize ends with its last attempt.                                   *)
LEMMA ThreadKeepsWords ==
  ASSUME Words, InitializationThread
  PROVE  Words'
<1> USE LifecycleAssumption
    DEF Words, BeforeLoop, ThreadStep, InitSteps, AllBuilds, Functions,
        contextVars, adapterVars, localVars, otherVars
<1>1. CASE ScheduleInitialization BY <1>1 DEF ScheduleInitialization
<1>2. CASE BeginInitialize BY <1>2 DEF BeginInitialize
<1>3. CASE CheckState BY <1>3 DEF CheckState
<1>4. CASE RefuseBuild BY <1>4 DEF RefuseBuild, Conclude
<1>5. CASE SelectTransport BY <1>5 DEF SelectTransport
<1>6. CASE StartAssets BY <1>6 DEF StartAssets
<1>7. CASE StartAssetsThrows BY <1>7 DEF StartAssetsThrows, Conclude
<1>8. CASE InitializeTransport BY <1>8 DEF InitializeTransport
<1>9. CASE ResolveRakClient BY <1>9 DEF ResolveRakClient
<1>10. CASE RetryResolve BY <1>10 DEF RetryResolve
<1>11. CASE MarkInitialized BY <1>11 DEF MarkInitialized
<1>12. CASE ActivateHook BY <1>12 DEF ActivateHook
<1>13. CASE CannotWriteSlot BY <1>13 DEF CannotWriteSlot
<1>14. CASE ExchangeSlot BY <1>14 DEF ExchangeSlot
<1>15. CASE KeepHook BY <1>15 DEF KeepHook
<1>16. CASE LoseSlot BY <1>16 DEF LoseSlot
<1>17. CASE TakeHookOut BY <1>17 DEF TakeHookOut, originalReceive
<1>18. CASE FailInitialize BY <1>18 DEF FailInitialize, ClearAdapter
<1>19. CASE GiveUp BY <1>19 DEF GiveUp, ClearAdapter
<1>20. CASE DropAssets BY <1>20 DEF DropAssets
<1>21. CASE ConcludeInitialize BY <1>21 DEF ConcludeInitialize, Conclude
<1> QED
  BY <1>1, <1>2, <1>3, <1>4, <1>5, <1>6, <1>7, <1>8, <1>9, <1>10, <1>11, <1>12, <1>13,
     <1>14, <1>15, <1>16, <1>17, <1>18, <1>19, <1>20, <1>21 DEF InitializationThread

(* So do the detaching thread and the other library.                        *)
LEMMA OthersKeepWords ==
  ASSUME Words, DetachingThread \/ OtherHooks \/ OtherLeaves
  PROVE  Words'
<1> USE DEF Words, Functions, originalReceive, ClearAdapter,
            contextVars, threadVars, localVars, adapterVars, otherVars
<1>1. ASSUME NEW reason \in {"Unloading", "Exiting"}, BeginShutdown(reason) PROVE Words'
  BY <1>1 DEF BeginShutdown
<1>2. CASE ShutdownClears BY <1>2 DEF ShutdownClears
<1>3. CASE ShutdownRestores BY <1>3 DEF ShutdownRestores, RestoreSlot
<1>4. CASE ShutdownCannotWriteSlot BY <1>4 DEF ShutdownCannotWriteSlot
<1>5. CASE StopClient BY <1>5 DEF StopClient
<1>6. CASE OtherHooks BY <1>6 DEF OtherHooks
<1>7. CASE OtherLeaves BY <1>7 DEF OtherLeaves
<1> QED BY <1>1, <1>2, <1>3, <1>4, <1>5, <1>6, <1>7 DEF DetachingThread

(* What is assigned to a flag is a truth value.                             *)
LEMMA FlagsKept == ASSUME Flags, Next PROVE Flags'
<1> USE DEF Flags, ThreadStep, ClearAdapter,
            contextVars, threadVars, localVars, adapterVars, otherVars
<1>1. ASSUME InitializationThread PROVE Flags'
  <2>1. CASE ScheduleInitialization BY <2>1, Zenon DEF ScheduleInitialization
  <2>2. CASE BeginInitialize BY <2>2, Zenon DEF BeginInitialize
  <2>3. CASE CheckState BY <2>3, Zenon DEF CheckState
  <2>4. CASE RefuseBuild BY <2>4, Zenon DEF RefuseBuild
  <2>5. CASE SelectTransport BY <2>5, Zenon DEF SelectTransport
  <2>6. CASE StartAssets BY <2>6, Zenon DEF StartAssets
  <2>7. CASE StartAssetsThrows BY <2>7, Zenon DEF StartAssetsThrows
  <2>8. CASE InitializeTransport BY <2>8, Zenon DEF InitializeTransport
  <2>9. CASE ResolveRakClient BY <2>9, Zenon DEF ResolveRakClient
  <2>10. CASE RetryResolve BY <2>10, Zenon DEF RetryResolve
  <2>11. CASE MarkInitialized BY <2>11, Zenon DEF MarkInitialized
  <2>12. CASE ActivateHook BY <2>12, Zenon DEF ActivateHook
  <2>13. CASE CannotWriteSlot BY <2>13, Zenon DEF CannotWriteSlot
  <2>14. CASE ExchangeSlot BY <2>14, Zenon DEF ExchangeSlot
  <2>15. CASE KeepHook BY <2>15, Zenon DEF KeepHook
  <2>16. CASE LoseSlot BY <2>16, Zenon DEF LoseSlot
  <2>17. CASE TakeHookOut BY <2>17, Zenon DEF TakeHookOut
  <2>18. CASE FailInitialize BY <2>18, Zenon DEF FailInitialize
  <2>19. CASE GiveUp BY <2>19, Zenon DEF GiveUp
  <2>20. CASE DropAssets BY <2>20, Zenon DEF DropAssets
  <2>21. CASE ConcludeInitialize BY <2>21, Zenon DEF ConcludeInitialize
  <2> QED
    BY <1>1, <2>1, <2>2, <2>3, <2>4, <2>5, <2>6, <2>7, <2>8, <2>9, <2>10, <2>11, <2>12,
       <2>13, <2>14, <2>15, <2>16, <2>17, <2>18, <2>19, <2>20, <2>21 DEF InitializationThread
<1>2. ASSUME NEW reason \in {"Unloading", "Exiting"}, BeginShutdown(reason) PROVE Flags'
  BY <1>2, Zenon DEF BeginShutdown
<1>3. CASE ShutdownClears BY <1>3, Zenon DEF ShutdownClears
<1>4. CASE ShutdownRestores BY <1>4, Zenon DEF ShutdownRestores
<1>5. CASE ShutdownCannotWriteSlot BY <1>5, Zenon DEF ShutdownCannotWriteSlot
<1>6. CASE StopClient BY <1>6, Zenon DEF StopClient
<1>7. CASE OtherHooks BY <1>7, Zenon DEF OtherHooks
<1>8. CASE OtherLeaves BY <1>8, Zenon DEF OtherLeaves
<1> QED BY <1>1, <1>2, <1>3, <1>4, <1>5, <1>6, <1>7, <1>8 DEF Next, DetachingThread

(* Every variable keeps its values, and SampRakNetTransport::Initialize     *)
(* makes at most MaxAttempts attempts.                                      *)
THEOREM TypeCorrect == Spec => []TypeOK
<1>1. Init => Flags /\ Words
  <2> SUFFICES ASSUME Init PROVE Flags /\ Words
    OBVIOUS
  <2>1. Flags
    BY Zenon DEF Init, Flags
  <2>2. Words
    BY LifecycleAssumption DEF Init, Words, Functions, InitSteps
  <2> QED BY <2>1, <2>2
<1>2. Flags /\ Words /\ [Next]_vars => Flags' /\ Words'
  <2> SUFFICES ASSUME Flags, Words, [Next]_vars PROVE Flags' /\ Words'
    OBVIOUS
  <2>1. CASE UNCHANGED vars
    BY <2>1
    DEF vars, contextVars, threadVars, localVars, adapterVars, otherVars, Flags, Words
  <2>2. CASE Next
    BY <2>2, FlagsKept, ThreadKeepsWords, OthersKeepWords DEF Next
  <2> QED BY <2>1, <2>2
<1>3. Flags /\ Words => TypeOK
  BY Zenon DEF Flags, Words, TypeOK
<1> QED BY <1>1, <1>2, <1>3, PTL DEF Spec
=============================================================================
