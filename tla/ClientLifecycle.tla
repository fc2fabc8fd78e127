---------------------------- MODULE ClientLifecycle ----------------------------
(***************************************************************************)
(* The life of the injected client: DllMain (client/src/core/dllmain.cpp), *)
(* ClientRuntime (client/src/core/runtime.cpp) and the vtable hook of the  *)
(* RakNet adapter (client/src/samp/raknet_transport.cpp).  Three parties   *)
(* interleave: the initialization thread, the thread that runs the         *)
(* DLL_PROCESS_DETACH of DllMain, and another library that hooks the same  *)
(* vtable entry.  When the process exits, the system has ended all threads *)
(* but the detaching one; when the library is unloaded they run on.        *)
(***************************************************************************)
EXTENDS Naturals

CONSTANTS Builds,          (* what samp.dll may turn out to be: see AllBuilds *)
          MaxAttempts,     (* kResolveAttempts, 600                          *)
          ProtectFailures  (* the VirtualProtect calls that may fail         *)

AllBuilds == {"Unknown", "NoTransport", "Supported"}

ASSUME LifecycleAssumption ==
  /\ Builds \subseteq AllBuilds
  /\ MaxAttempts \in Nat \ {0}
  /\ ProtectFailures \subseteq {"Install", "Reprotect", "Restore"}

VARIABLES state,        (* state_                                            *)
          build,        (* the samp.dll that InitializeImpl has found        *)
          transportSet, (* g_protocolContext: handshake and transport are set *)
          assets,       (* g_protocolContext.assets                          *)
          init,         (* where the initialization thread is                *)
          attempts,     (* the counter of Initialize's retry loop            *)
          previous,     (* InstallReceiveHook's previous                     *)
          takenOut,     (* history: InstallReceiveHook took its hook out again *)
          callbacks,    (* callbacks_ is set                                 *)
          resolved,     (* rakClient_ and the function pointers are set      *)
          initialized,  (* initialized_                                      *)
          active,       (* active_                                           *)
          receiveSlot,  (* receiveSlot_ is set                               *)
          slot,         (* external: the function the vtable entry points at *)
          otherNext,    (* external: what the other library's hook calls     *)
          process,      (* external: what the process is doing               *)
          overtaken,    (* history: the shutdown began before the            *)
                        (* initialization had ended                          *)
          detach        (* where the detaching thread is                     *)

contextVars == <<transportSet, assets>>
adapterVars == <<callbacks, resolved, initialized, active, receiveSlot>>
localVars == <<attempts, previous, build, takenOut>>
threadVars == <<init, localVars>>
otherVars == <<otherNext, process, overtaken>>
vars == <<state, contextVars, threadVars, adapterVars, slot, otherVars, detach>>

Functions == {"None", "Samp", "Hook", "Other"}

(* originalReceive_.  ResolveRakClient takes only functions inside samp.dll. *)
originalReceive == IF resolved THEN "Samp" ELSE "None"

(* A call through the vtable entry arrives at ReceiveHook.                  *)
Reached == slot = "Hook" \/ (slot = "Other" /\ otherNext = "Hook")

(* The initialization thread is at a step, and takes it.                    *)
ThreadStep(step) ==
  /\ process # "Exiting" /\ detach # "Done"
  /\ init = step
  /\ UNCHANGED <<otherVars, detach>>

Init ==
  /\ state = "Dormant" /\ build = "None"
  /\ transportSet = FALSE /\ assets = "None"
  /\ init = "Unscheduled" /\ attempts = 0 /\ previous = "None"
  /\ takenOut = FALSE
  /\ callbacks = FALSE /\ resolved = FALSE /\ initialized = FALSE
  /\ active = FALSE /\ receiveSlot = FALSE
  /\ slot = "Samp" /\ otherNext = "None"
  /\ process = "Running" /\ overtaken = FALSE /\ detach = "None"
-----------------------------------------------------------------------------
(* The initialization thread.                                               *)

(* DLL_PROCESS_ATTACH; CreateThread may fail.                               *)
ScheduleInitialization ==
  /\ ThreadStep("Unscheduled")
  /\ init' \in {"Scheduled", "Done"}
  /\ UNCHANGED <<state, contextVars, localVars, adapterVars, slot>>

(* Mutant: the outcome of the initialization is stored, not exchanged.      *)
Conclude_Store(outcome) == state' = outcome

(* The exchange that ends the initialization, unless a shutdown came first. *)
Conclude(outcome) == state' = IF state = "Initializing" THEN outcome ELSE state

BeginInitialize ==
  /\ ThreadStep("Scheduled")
  /\ state' = IF state = "Dormant" THEN "Initializing" ELSE state
  /\ init' = IF state = "Dormant" THEN "Opened" ELSE "Done"
  /\ UNCHANGED <<contextVars, localVars, adapterVars, slot>>

(* The log is open; a shutdown may have come meanwhile.                     *)
CheckState ==
  /\ ThreadStep("Opened")
  /\ init' = IF state = "Initializing" THEN "Detecting" ELSE "Done"
  /\ UNCHANGED <<state, contextVars, localVars, adapterVars, slot>>

(* No samp.dll, no PE32, no known entry point or no compatibility record:   *)
(* Disable.                                                                 *)
RefuseBuild ==
  /\ ThreadStep("Detecting")
  /\ "Unknown" \in Builds
  /\ build' = "Unknown"
  /\ Conclude("Disabled")
  /\ init' = "Done"
  /\ UNCHANGED <<contextVars, attempts, previous, takenOut, adapterVars, slot>>

SelectTransport ==
  /\ ThreadStep("Detecting")
  /\ build' \in Builds \ {"Unknown"}
  /\ transportSet' = TRUE
  /\ init' = IF build' = "Supported" THEN "StartingAssets" ELSE "GivingUp"
  /\ UNCHANGED <<state, assets, attempts, previous, takenOut, adapterVars, slot>>

(* The asset manager starts its worker, or its directory, its backend or    *)
(* its cache is missing.                                                    *)
StartAssets ==
  /\ ThreadStep("StartingAssets")
  /\ \/ assets' = "Running" /\ init' = "Registering"
     \/ UNCHANGED assets /\ init' = "GivingUp"
  /\ UNCHANGED <<state, transportSet, localVars, adapterVars, slot>>

(* Memory or threads run out before the manager is handed over: Initialize  *)
(* catches the exception and disables the runtime.                          *)
StartAssetsThrows ==
  /\ ThreadStep("StartingAssets")
  /\ Conclude("Disabled")
  /\ init' = "Done"
  /\ UNCHANGED <<contextVars, localVars, adapterVars, slot>>
-----------------------------------------------------------------------------
(* The adapter's Initialize.                                                *)

(* samp.dll is looked up once more.                                         *)
InitializeTransport ==
  /\ ThreadStep("Registering")
  /\ \/ callbacks' = TRUE /\ init' = "Resolving"
     \/ UNCHANGED callbacks /\ init' = "GivingUp"
  /\ UNCHANGED <<state, contextVars, localVars, resolved, initialized, active,
                 receiveSlot, slot>>

(* The fields are set when everything checked lies inside samp.dll.         *)
ResolveRakClient ==
  /\ ThreadStep("Resolving")
  /\ slot = "Samp"
  /\ resolved' = TRUE
  /\ init' = "Resolved"
  /\ UNCHANGED <<state, contextVars, localVars, callbacks, initialized, active,
                 receiveSlot, slot>>

(* Mutant: attempts that fail are not counted.                              *)
RetryResolve_Uncounted ==
  /\ ThreadStep("Resolving")
  /\ UNCHANGED vars

(* SA-MP has no RakClient yet, or the entry is hooked; at most MaxAttempts. *)
RetryResolve ==
  /\ ThreadStep("Resolving")
  /\ attempts' = attempts + 1
  /\ init' = IF attempts' = MaxAttempts THEN "Resolved" ELSE "Resolving"
  /\ UNCHANGED <<state, contextVars, previous, build, takenOut, adapterVars, slot>>

MarkInitialized ==
  /\ ThreadStep("Resolved")
  /\ initialized' = resolved
  /\ init' = IF resolved THEN "Installing" ELSE "Failing"
  /\ UNCHANGED <<state, contextVars, localVars, callbacks, resolved, active,
                 receiveSlot, slot>>

(* Mutant: the adapter becomes active only after its hook is in place.      *)
ActivateHook_Later ==
  /\ ThreadStep("Installing") /\ resolved
  /\ init' = "Exchanging"
  /\ UNCHANGED <<state, contextVars, localVars, adapterVars, slot>>

(* InstallReceiveHook: the page becomes writable, then active_ is stored.   *)
ActivateHook ==
  /\ ThreadStep("Installing") /\ resolved
  /\ active' = TRUE
  /\ init' = "Exchanging"
  /\ UNCHANGED <<state, contextVars, localVars, callbacks, resolved, initialized,
                 receiveSlot, slot>>

CannotWriteSlot ==
  /\ ThreadStep("Installing")
  /\ "Install" \in ProtectFailures \/ ~resolved
  /\ init' = "Failing"
  /\ UNCHANGED <<state, contextVars, localVars, adapterVars, slot>>

ExchangeSlot ==
  /\ ThreadStep("Exchanging")
  /\ previous' = slot
  /\ slot' = IF slot = originalReceive THEN "Hook" ELSE slot
  /\ init' = "Exchanged"
  /\ UNCHANGED <<state, contextVars, attempts, build, takenOut, adapterVars>>

KeepHook ==
  /\ ThreadStep("Exchanged")
  /\ previous = originalReceive
  /\ receiveSlot' = TRUE
  /\ init' = "Concluding"
  /\ UNCHANGED <<state, contextVars, localVars, callbacks, resolved, initialized,
                 active, slot>>

(* Another library was first.                                               *)
LoseSlot ==
  /\ ThreadStep("Exchanged")
  /\ previous # originalReceive
  /\ active' = FALSE
  /\ init' = "Failing"
  /\ UNCHANGED <<state, contextVars, localVars, callbacks, resolved, initialized,
                 receiveSlot, slot>>

(* The page's protection cannot be restored: the hook is taken out again.   *)
TakeHookOut ==
  /\ ThreadStep("Exchanged")
  /\ "Reprotect" \in ProtectFailures
  /\ previous = originalReceive
  /\ slot' = IF slot = "Hook" THEN originalReceive ELSE slot
  /\ active' = FALSE
  /\ takenOut' = TRUE
  /\ init' = "Failing"
  /\ UNCHANGED <<state, contextVars, attempts, previous, build, callbacks, resolved, initialized,
                 receiveSlot>>
-----------------------------------------------------------------------------
(* The adapter's Shutdown.                                                  *)

(* RestoreReceiveHook has nothing to restore.                               *)
NothingToRestore == ~receiveSlot \/ ~resolved

(* The fields Shutdown clears once the entry is restored.                   *)
ClearAdapter ==
  /\ active' = FALSE /\ initialized' = FALSE
  /\ resolved' = FALSE /\ callbacks' = FALSE
  /\ receiveSlot' = (receiveSlot /\ ~resolved)

(* Mutant: the entry is written back whatever it holds.                     *)
RestoreSlot_Store == slot' = originalReceive

RestoreSlot == slot' = IF slot = "Hook" THEN originalReceive ELSE slot

(* Mutant: another library's hook counts as restored.                       *)
Restored_Always == TRUE

(* What the exchange found tells whether Shutdown may go on.                *)
Restored == slot \in {"Hook", originalReceive}

(* Initialize and InitializeImpl call Shutdown before the hook is kept.     *)
FailInitialize ==
  /\ ThreadStep("Failing")
  /\ ClearAdapter
  /\ init' = "GivingUp"
  /\ UNCHANGED <<state, contextVars, localVars, slot>>

(* Mutant: the asset manager is kept without a transport.                   *)
GiveUp_KeepsAssets ==
  /\ ThreadStep("GivingUp")
  /\ ClearAdapter
  /\ transportSet' = FALSE
  /\ init' = "Concluding"
  /\ UNCHANGED <<state, assets, localVars, slot>>

GiveUp ==
  /\ ThreadStep("GivingUp")
  /\ ClearAdapter
  /\ transportSet' = FALSE
  /\ init' = IF assets = "None" THEN "Concluding" ELSE "DroppingAssets"
  /\ UNCHANGED <<state, assets, localVars, slot>>

(* The worker is joined and the manager deleted; then the pointer is reset. *)
DropAssets ==
  /\ ThreadStep("DroppingAssets")
  /\ \/ assets # "Deleted" /\ assets' = "Deleted" /\ UNCHANGED init
     \/ assets = "Deleted" /\ assets' = "None" /\ init' = "Concluding"
  /\ UNCHANGED <<state, transportSet, localVars, adapterVars, slot>>

ConcludeInitialize ==
  /\ ThreadStep("Concluding")
  /\ Conclude("Ready")
  /\ init' = "Done"
  /\ UNCHANGED <<contextVars, localVars, adapterVars, slot>>
-----------------------------------------------------------------------------
(* DLL_PROCESS_DETACH: RequestShutdownFromLoaderLock.                       *)

BeginShutdown(reason) ==
  /\ detach = "None" /\ init # "Unscheduled"
  /\ process' = reason
  /\ overtaken' = (init # "Done")
  /\ state' = "ShuttingDown"
  /\ detach' = IF transportSet THEN "Restoring" ELSE "Stopping"
  /\ UNCHANGED <<contextVars, threadVars, adapterVars, slot, otherNext>>

ShutdownClears ==
  /\ detach = "Restoring" /\ NothingToRestore
  /\ ClearAdapter
  /\ detach' = "Stopping"
  /\ UNCHANGED <<state, contextVars, threadVars, slot, otherVars>>

ShutdownRestores ==
  /\ detach = "Restoring" /\ ~NothingToRestore
  /\ RestoreSlot
  /\ IF Restored THEN ClearAdapter ELSE UNCHANGED adapterVars
  /\ detach' = "Stopping"
  /\ UNCHANGED <<state, contextVars, threadVars, otherVars>>

(* The entry is not accessible, and the adapter remains active.             *)
ShutdownCannotWriteSlot ==
  /\ detach = "Restoring" /\ ~NothingToRestore
  /\ "Restore" \in ProtectFailures
  /\ detach' = "Stopping"
  /\ UNCHANGED <<state, contextVars, threadVars, adapterVars, slot, otherVars>>

(* The transport is forgotten and the worker asked to stop.                 *)
StopClient ==
  /\ detach = "Stopping"
  /\ transportSet' = FALSE
  /\ assets' = IF assets = "Running" THEN "Stopping" ELSE assets
  /\ detach' = "Done"
  /\ UNCHANGED <<state, threadVars, adapterVars, slot, otherVars>>
-----------------------------------------------------------------------------
(* Another library hooks the entry, or leaves it, while the process lives.  *)

OtherHooks ==
  /\ process # "Exiting" /\ otherNext = "None"
  /\ otherNext' = slot
  /\ slot' = "Other"
  /\ UNCHANGED <<state, contextVars, threadVars, adapterVars, process, overtaken, detach>>

OtherLeaves ==
  /\ process # "Exiting" /\ slot = "Other"
  /\ slot' = otherNext
  /\ otherNext' = "None"
  /\ UNCHANGED <<state, contextVars, threadVars, adapterVars, process, overtaken, detach>>

InitializationThread ==
  \/ ScheduleInitialization \/ BeginInitialize \/ CheckState
  \/ RefuseBuild \/ SelectTransport \/ StartAssets \/ StartAssetsThrows
  \/ InitializeTransport \/ ResolveRakClient \/ RetryResolve \/ MarkInitialized
  \/ ActivateHook \/ CannotWriteSlot \/ ExchangeSlot \/ KeepHook \/ LoseSlot \/ TakeHookOut
  \/ FailInitialize \/ GiveUp \/ DropAssets \/ ConcludeInitialize

DetachingThread ==
  \/ \E reason \in {"Unloading", "Exiting"} : BeginShutdown(reason)
  \/ ShutdownClears \/ ShutdownRestores \/ ShutdownCannotWriteSlot \/ StopClient

Next == InitializationThread \/ DetachingThread \/ OtherHooks \/ OtherLeaves

Spec == Init /\ [][Next]_vars

(* The operating system schedules the thread, Sleep returns, and the worker *)
(* it may join is idle (AssetManager, WorkerExits).                         *)
FairSpec == Spec /\ WF_vars(InitializationThread)
-----------------------------------------------------------------------------
InitSteps ==
  {"Unscheduled", "Scheduled", "Opened", "Detecting", "StartingAssets", "Registering",
   "Resolving", "Resolved", "Installing", "Exchanging", "Exchanged", "Failing", "GivingUp",
   "DroppingAssets", "Concluding", "Done"}

TypeOK ==
  /\ state \in {"Dormant", "Initializing", "Ready", "Disabled", "ShuttingDown"}
  /\ build \in {"None"} \union Builds
  /\ transportSet \in BOOLEAN
  /\ assets \in {"None", "Running", "Stopping", "Deleted"}
  /\ init \in InitSteps /\ attempts \in 0..MaxAttempts
  /\ previous \in Functions /\ takenOut \in BOOLEAN
  /\ callbacks \in BOOLEAN /\ resolved \in BOOLEAN /\ initialized \in BOOLEAN
  /\ active \in BOOLEAN /\ receiveSlot \in BOOLEAN
  /\ slot \in Functions /\ otherNext \in Functions
  /\ process \in {"Running", "Unloading", "Exiting"} /\ overtaken \in BOOLEAN
  /\ detach \in {"None", "Restoring", "Stopping", "Done"}

(* The hook is put in last (runtime.cpp:345-372): whoever calls Receive     *)
(* through it finds the adapter, its callbacks and everything behind them   *)
(* in place, also while the initialization thread still runs.               *)
HookIsWhole ==
  process = "Running" /\ ~takenOut /\ Reached =>
    /\ active /\ resolved /\ callbacks /\ initialized
    /\ transportSet /\ assets = "Running"

(* A runtime that came to the end of its initialization                     *)
(* (runtime.cpp:367-392) either works altogether or has left nothing behind. *)
AllOrNothing ==
  process = "Running" /\ ~takenOut /\ init = "Done" =>
    IF state = "Ready" /\ transportSet
      THEN receiveSlot /\ active /\ assets = "Running"
      ELSE ~Reached /\ ~active /\ assets = "None"

(* docs/architecture.md:96: "If the slot is inaccessible or a later hook    *)
(* has replaced it, shutdown leaves the adapter active instead of clearing  *)
(* function pointers that a chained hook could still call."  Said of a      *)
(* process that lives, and of an unload after the initialization has ended. *)
ChainedHookKeepsPointers ==
  process = "Running" \/ (process = "Unloading" /\ ~overtaken) =>
    (Reached => active /\ resolved)

(* So it is, unless InstallReceiveHook itself took the hook out again       *)
(* because the protection of the page could not be put back.                *)
PointersOutliveHook == ~takenOut => ChainedHookKeepsPointers

(* The same passage: "Shutdown restores the entry only when it still points *)
(* at CustomModel's hook".  No step of this library removes another         *)
(* library's hook, however the two interleave.                              *)
ForeignHookKept ==
  [][slot = "Other" /\ slot' # slot => otherNext' = "None"]_vars

(* The initialization thread, which polls for 30 seconds, never overrides a *)
(* shutdown (the exchanges at runtime.cpp:286, 384 and 392).                *)
ShutdownIsFinal ==
  [][state = "ShuttingDown" => state' = "ShuttingDown"]_vars

(* The initialization ends although SA-MP may never create its RakClient    *)
(* (raknet_transport.cpp:169).                                              *)
InitializationEnds == state = "Initializing" ~> state # "Initializing"

(* docs/architecture.md:92: "Any failure enters `Disabled` and leaves the   *)
(* game process running."                                                   *)
FailureDisables == state = "Ready" /\ build = "Supported" => transportSet
=============================================================================
