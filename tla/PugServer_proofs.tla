-------------------------- MODULE PugServer_proofs --------------------------
(***************************************************************************)
(* Proofs about PugServer: the inductive invariant of an engine in         *)
(* production (PugEngine_proofs) joined with the one of the startup, for   *)
(* every number of requests and preloads, every capacity and every set of  *)
(* names, over files of which any may be missing or unreadable.            *)
(***************************************************************************)
EXTENDS PugServer, TLAPS

EP == INSTANCE PugEngine_proofs

\* What PugEngine and PugStartup assume of their constants.
EngineConstants ==
    /\ EP!ProcsDisjoint /\ EP!ProcsFinite /\ EP!NobodyIsNoProc /\ EP!AllIsNoName
    /\ EP!PrefixReflexive /\ EP!LimitType /\ EP!SwitchesType /\ EP!KindsType
    /\ EP!BoundsType /\ EP!NilIsNew /\ Startup!NoErrIsNoTask

\* PugEngine_proofs has definitions of its own for the engine.
LEMMA SameEngine ==
    ASSUME NEW p, NEW n
    PROVE  /\ Engine!Init => EP!Init
           /\ Engine!Procs = EP!Procs
           /\ Engine!Preload(p) => EP!Preload(p)
           /\ Engine!Render(p) => EP!Render(p)
           /\ Engine!DebugGet(p) => EP!DebugGet(p)
           /\ Engine!Step(p) => EP!Step(p)
           /\ Engine!WaitFailed(p) => EP!WaitFailed(p)
           /\ Engine!EditFile(n) => EP!EditFile(n)
           /\ Engine!MoveDir => EP!MoveDir
           /\ Engine!Restart => EP!Restart
           /\ EP!NobodyLoads => Engine!NobodyLoads
           /\ Engine!AlwaysGood(n) => EP!AlwaysGood(n)
  <1> USE DEF
        Engine!Procs, Engine!All, Engine!diskVars, Engine!lockVars, Engine!storeVars,
        Engine!callVars, Engine!loadVars, Engine!NoTemplates, Engine!Announce,
        Engine!HasWriteLock, Engine!Unlock, Engine!RLock, Engine!RUnlock, Engine!At,
        Engine!Goto, Engine!Return, Engine!Begin, Engine!SlotFree, Engine!NeedsLoad,
        Engine!Filter, Engine!Selected, Engine!AfterLoad, Engine!EndLoad,
        Engine!MustNotReload, Engine!BailOut, Engine!Compiles, Engine!Unwind
  <1> USE DEF
        EP!Procs, EP!All, EP!diskVars, EP!lockVars, EP!storeVars,
        EP!callVars, EP!loadVars, EP!NoTemplates, EP!Announce,
        EP!HasWriteLock, EP!Unlock, EP!RLock, EP!RUnlock, EP!At,
        EP!Goto, EP!Return, EP!Begin, EP!SlotFree, EP!NeedsLoad,
        EP!Filter, EP!Selected, EP!AfterLoad, EP!EndLoad,
        EP!MustNotReload, EP!BailOut, EP!Compiles, EP!Unwind
  <1>1. Engine!Init => EP!Init
    BY DEF Engine!Init, EP!Init
  <1>2. /\ Engine!Preload(p) => EP!Preload(p)
        /\ Engine!Render(p) => EP!Render(p)
        /\ Engine!DebugGet(p) => EP!DebugGet(p)
    BY DEF Engine!Preload, EP!Preload, Engine!Render, EP!Render, Engine!DebugGet, EP!DebugGet
  <1>3. Engine!LoadStep(p) => EP!LoadStep(p)
    BY DEF Engine!LoadStep, Engine!LockTemplates, Engine!StartLoad, Engine!RefuseLoad,
           Engine!OpenDir, Engine!OpenDirFails, Engine!CompileFile, Engine!ParseFails,
           Engine!TemplateFails, Engine!CompilePanics, Engine!Publish, Engine!LeaveLoad,
           EP!LoadStep, EP!LockTemplates, EP!StartLoad, EP!RefuseLoad,
           EP!OpenDir, EP!OpenDirFails, EP!CompileFile, EP!ParseFails,
           EP!TemplateFails, EP!CompilePanics, EP!Publish, EP!LeaveLoad
  <1>4. Engine!RenderStep(p) => EP!RenderStep(p)
    BY DEF Engine!RenderStep, Engine!TakeSlot, Engine!CheckLoaded, Engine!RLockTemplates,
           Engine!Lookup, Engine!Execute, Engine!CallAsset, Engine!RLockAsset,
           Engine!ReadAsset, Engine!ReleaseSlot,
           EP!RenderStep, EP!TakeSlot, EP!CheckLoaded, EP!RLockTemplates,
           EP!Lookup, EP!Execute, EP!CallAsset, EP!RLockAsset,
           EP!ReadAsset, EP!ReleaseSlot
  <1>5. Engine!Step(p) => EP!Step(p)
    BY <1>3, <1>4 DEF Engine!Step, EP!Step, Engine!ReadCode, EP!ReadCode
  <1>6. /\ Engine!WaitFailed(p) => EP!WaitFailed(p)
        /\ Engine!EditFile(n) => EP!EditFile(n)
        /\ Engine!MoveDir => EP!MoveDir
        /\ Engine!Restart => EP!Restart
    BY DEF Engine!WaitFailed, EP!WaitFailed, Engine!EditFile, EP!EditFile,
           Engine!MoveDir, EP!MoveDir, Engine!Restart, EP!Restart
  <1>7. /\ EP!NobodyLoads => Engine!NobodyLoads
        /\ Engine!AlwaysGood(n) => EP!AlwaysGood(n)
    BY DEF EP!NobodyLoads, Engine!NobodyLoads, Engine!AlwaysGood, EP!AlwaysGood
  <1> QED
    BY <1>1, <1>2, <1>5, <1>6, <1>7

-----------------------------------------------------------------------------
LoadedForGood == templatesLoaded = 1 /\ EP!NobodyLoads

TaskStates == {"new", "running", "succeeded", "failed"}

\* A preload runs as long as its task does, and leaves everything loaded
\* unless it fails, which the group knows.
TasksOK ==
    /\ task \in [Preloads -> TaskStates]
    /\ \A p \in Preloads :
          /\ pc[p] # "idle" => task[p] = "running"
          /\ task[p] = "running" /\ pc[p] = "idle" /\ ret[p] = "loaded" => LoadedForGood
          /\ task[p] = "succeeded" => LoadedForGood
          /\ task[p] = "failed" => groupErr # NoErr

\* Finish comes after every AddProcess and past Wait when no task runs.
FinishOK ==
    /\ finisher # "none" => \A p \in Preloads : task[p] # "new"
    /\ finisher \in {"sending", "closing", "closeErrs", "ended"} =>
          \A p \in Preloads : task[p] # "running"
    /\ done => finisher \in {"closeErrs", "ended"}

ReadyInv == EP!ProductionInv /\ TasksOK /\ FinishOK

LEMMA InitReady ==
    ASSUME EngineConstants
    PROVE  Init => ReadyInv
  <1> SUFFICES ASSUME Init PROVE ReadyInv
    OBVIOUS
  <1>1. Engine!Init
    BY DEF Init
  <1>2. EP!Init
    BY <1>1, SameEngine
  <1>3. EP!Init => EP!ProductionInv
    BY EP!InitProduction DEF EngineConstants
  <1>4. pc = [p \in EP!Procs |-> "idle"] /\ Preloads \subseteq EP!Procs
    BY <1>2 DEF EP!Init, EP!Procs
  <1>5. TasksOK /\ FinishOK
    BY <1>4 DEF Init, Startup!Init, TasksOK, FinishOK, TaskStates
  <1> QED
    BY <1>2, <1>3, <1>5 DEF ReadyInv

LEMMA NextReady ==
    ASSUME EngineConstants, EP!Production, ReadyInv, [Next]_vars
    PROVE  ReadyInv'
  <1>t. /\ EP!ProductionInv /\ TasksOK /\ FinishOK
        /\ EP!TypeInv /\ EP!TypeOK
        /\ pc \in [EP!Procs -> EP!Labels]
        /\ ret \in [EP!Procs -> EP!Returned]
        /\ EP!Procs = Requests \cup Preloads \cup Debuggers
        /\ Preloads \cap Requests = {} /\ Debuggers = {}
        /\ NoErr \notin Preloads
    BY DEF ReadyInv, Startup!NoErrIsNoTask, EP!ProductionInv, EP!TypeInv, EP!TypeOK, EP!Procs,
           EngineConstants, EP!ProcsDisjoint, EP!Production
  <1> USE <1>t
  \* a step of the engine that is no restart
  <1>1. ASSUME EP!Next, ~EP!Restart
        PROVE  EP!ProductionInv' /\ (LoadedForGood => LoadedForGood')
    <2>1. EP!ProductionInv /\ [EP!Next]_(EP!vars) => EP!ProductionInv'
      BY EP!ProductionStep DEF EngineConstants
    <2>2. LoadedForGood => LoadedForGood'
      BY <1>1, EP!LoadedStays DEF EngineConstants, LoadedForGood
    <2> QED
      BY <1>1, <2>1, <2>2
  <1>2. ASSUME alive PROVE ~EP!Restart
    BY <1>2 DEF EP!Restart
  <1>3. ASSUME UNCHANGED engineVars, alive' \in BOOLEAN
        PROVE  /\ EP!ProductionInv'
               /\ UNCHANGED <<pc, ret>> /\ (LoadedForGood => LoadedForGood')
    <2>1. UNCHANGED <<EP!diskVars, slots, EP!lockVars, EP!storeVars, pc, EP!callVars,
                      EP!loadVars, got, ret>>
      BY <1>3 DEF engineVars, callsInProgress, EP!diskVars, EP!lockVars, EP!storeVars,
                  EP!callVars, EP!loadVars
    <2>2. EP!ProductionInv'
      BY <1>3, <2>1, EP!ProductionDies DEF EngineConstants
    <2>3. UNCHANGED <<pc, ret, templatesLoaded>>
      BY <1>3 DEF engineVars, callsInProgress
    <2> QED
      BY <2>2, <2>3 DEF LoadedForGood, EP!NobodyLoads
  <1>a. alive \in BOOLEAN
    BY DEF EP!TypeOK
  <1>4. ASSUME NEW p \in Preloads, AreaRouted(p)
        PROVE  ReadyInv'
    <2>1. EP!Preload(p) /\ Startup!AddProcess(p)
      BY <1>4, SameEngine DEF AreaRouted
    <2>2. /\ alive /\ pc' = [pc EXCEPT ![p] = "lock"]
          /\ \A q \in EP!Procs \ {p} : ret'[q] = ret[q]
      BY <2>1 DEF EP!Preload, EP!Begin, EP!At, EP!Goto, EP!Return
    <2>3. EP!Next
      BY <2>1 DEF EP!Next, EP!Call
    <2>4. EP!ProductionInv' /\ (LoadedForGood => LoadedForGood')
      BY <1>1, <1>2, <2>2, <2>3
    <2>5. /\ finisher = "none" /\ UNCHANGED <<groupErr, finisher, done>>
          /\ task' = [task EXCEPT ![p] = "running"]
      BY <2>1 DEF Startup!AddProcess
    <2>6. TasksOK'
      BY <2>2, <2>4, <2>5 DEF TasksOK, TaskStates
    <2>7. FinishOK'
      BY <2>5 DEF FinishOK
    <2> QED
      BY <2>4, <2>6, <2>7 DEF ReadyInv
  <1>5. ASSUME NEW p \in Preloads, PreloadReturns(p)
        PROVE  ReadyInv'
    <2>1. /\ UNCHANGED engineVars /\ UNCHANGED <<finisher, done, alive>>
          /\ pc[p] = "idle" /\ task[p] = "running"
          /\ IF ret[p] = "loaded"
               THEN task' = [task EXCEPT ![p] = "succeeded"] /\ UNCHANGED groupErr
               ELSE /\ task' = [task EXCEPT ![p] = "failed"]
                    /\ groupErr' = IF groupErr = NoErr THEN p ELSE groupErr
      BY <1>5 DEF PreloadReturns, Startup!Succeed, Startup!Fail
    <2>2. EP!ProductionInv' /\ UNCHANGED <<pc, ret>> /\ (LoadedForGood => LoadedForGood')
      BY <1>3, <1>a, <2>1
    <2>3. TasksOK'
      <3>1. CASE ret[p] = "loaded"
        BY <2>1, <2>2, <3>1 DEF TasksOK, TaskStates
      <3>2. CASE ret[p] # "loaded"
        <4>1. groupErr' # NoErr
          BY <2>1, <3>2
        <4> QED
          BY <2>1, <2>2, <3>2, <4>1 DEF TasksOK, TaskStates
      <3> QED
        BY <3>1, <3>2
    <2>4. FinishOK'
      BY <2>1 DEF FinishOK, TasksOK
    <2> QED
      BY <2>2, <2>3, <2>4 DEF ReadyInv
  <1>6. ASSUME NEW p \in Requests \cup Debuggers, HandleRequest(p)
        PROVE  ReadyInv'
    <2>1. /\ EP!Render(p) \/ EP!DebugGet(p)
          /\ UNCHANGED <<task, groupErr, finisher, done>>
      BY <1>6, SameEngine DEF HandleRequest, startupVars
    <2>2. alive /\ \A q \in Preloads : pc'[q] = pc[q] /\ ret'[q] = ret[q]
      BY <2>1 DEF EP!Render, EP!DebugGet, EP!Begin, EP!At, EP!Goto, EP!Return
    <2>3. EP!Next
      BY <2>1 DEF EP!Next, EP!Call
    <2>4. EP!ProductionInv' /\ (LoadedForGood => LoadedForGood')
      BY <1>1, <1>2, <2>2, <2>3
    <2> QED
      BY <2>1, <2>2, <2>4 DEF ReadyInv, TasksOK, FinishOK
  <1>7. ASSUME NEW p \in EP!Procs, EngineStep(p)
        PROVE  ReadyInv'
    <2>1. EP!Step(p) /\ UNCHANGED <<task, groupErr, finisher, done>>
      BY <1>7, SameEngine DEF EngineStep, startupVars
    <2>2. pc[p] # "idle" /\ \A q \in EP!Procs \ {p} : pc'[q] = pc[q] /\ ret'[q] = ret[q]
      BY <2>1, EP!StepMoves DEF EngineConstants
    <2>3. alive
      BY <2>1 DEF EP!Step, EP!LoadStep, EP!RenderStep, EP!LockTemplates, EP!StartLoad,
                  EP!RefuseLoad, EP!OpenDir, EP!OpenDirFails, EP!CompileFile, EP!ParseFails,
                  EP!TemplateFails, EP!CompilePanics, EP!Publish, EP!LeaveLoad, EP!TakeSlot,
                  EP!CheckLoaded, EP!RLockTemplates, EP!Lookup, EP!Execute, EP!CallAsset,
                  EP!RLockAsset, EP!ReadAsset, EP!ReleaseSlot, EP!ReadCode, EP!At
    <2>4. EP!Next
      BY <2>1 DEF EP!Next
    <2>5. EP!ProductionInv' /\ (LoadedForGood => LoadedForGood')
      BY <1>1, <1>2, <2>3, <2>4
    <2>6. p \in Preloads /\ pc'[p] = "idle" /\ ret'[p] = "loaded" => LoadedForGood'
      BY <2>1, EP!PreloadEndsLoaded DEF EngineConstants, LoadedForGood
    <2>7. TasksOK'
      BY <2>1, <2>2, <2>5, <2>6 DEF TasksOK
    <2> QED
      BY <2>1, <2>5, <2>7 DEF ReadyInv, FinishOK
  <1>8. CASE ServerStart
    <2>1. /\ UNCHANGED engineVars /\ UNCHANGED <<task, groupErr, done, alive>>
          /\ finisher = "none" /\ finisher' = "waiting"
          /\ \A p \in Preloads : task[p] # "new"
      BY <1>8 DEF ServerStart, Startup!Finish
    <2>2. EP!ProductionInv' /\ UNCHANGED <<pc, ret>> /\ (LoadedForGood => LoadedForGood')
      BY <1>3, <1>a, <2>1
    <2> QED
      BY <2>1, <2>2 DEF ReadyInv, TasksOK, FinishOK
  <1>9. CASE StartupStep
    <2>1. UNCHANGED engineVars /\ UNCHANGED <<task, groupErr>> /\ alive' \in BOOLEAN
      BY <1>9, <1>a DEF StartupStep, Startup!Goroutines, Startup!WaitReturns, Startup!SendErr,
                  Startup!CloseDone, Startup!CloseErrs, Startup!ReceiveNil, Startup!ReceiverPanics
    <2>2. EP!ProductionInv' /\ UNCHANGED <<pc, ret>> /\ (LoadedForGood => LoadedForGood')
      BY <1>3, <2>1
    <2>3. TasksOK'
      BY <2>1, <2>2 DEF TasksOK
    <2>4. FinishOK'
      BY <1>9, <2>1 DEF FinishOK, StartupStep, Startup!Goroutines, Startup!WaitReturns,
            Startup!AllReturned, Startup!Running, Startup!AfterWait, Startup!SendErr,
            Startup!CloseDone, Startup!CloseErrs, Startup!ReceiveNil, Startup!ReceiverPanics
    <2> QED
      BY <2>2, <2>3, <2>4 DEF ReadyInv
  <1>10. CASE Disturbance
    <2>1. /\ UNCHANGED <<task, groupErr, finisher, done>>
          /\ \/ \E p \in Requests : EP!WaitFailed(p)
             \/ \E n \in Names : EP!EditFile(n)
             \/ EP!MoveDir
      BY <1>10, SameEngine DEF Disturbance, startupVars
    <2>2. EP!Next
      BY <2>1 DEF EP!Next, EP!Environment
    <2>3. ~EP!Restart
      <3>1. edits \in Nat
        BY DEF EP!TypeOK, EP!Versions, EngineConstants, EP!BoundsType
      <3> QED
        BY <2>1, <3>1 DEF EP!Restart, EP!WaitFailed, EP!EditFile, EP!MoveDir, EP!At, EP!diskVars
    <2>4. EP!ProductionInv' /\ (LoadedForGood => LoadedForGood')
      BY <1>1, <2>2, <2>3
    <2>5. \A q \in Preloads : pc'[q] = pc[q] /\ ret'[q] = ret[q]
      BY <2>1 DEF EP!WaitFailed, EP!EditFile, EP!MoveDir, EP!Goto, EP!Return, EP!At
    <2> QED
      BY <2>1, <2>4, <2>5 DEF ReadyInv, TasksOK, FinishOK
  <1>11. CASE Restart
    <2>1. EP!Restart
      BY <1>11, SameEngine DEF Restart
    <2>2. EP!ProductionInv /\ [EP!Next]_(EP!vars) => EP!ProductionInv'
      BY EP!ProductionStep DEF EngineConstants
    <2>3. EP!ProductionInv'
      BY <2>1, <2>2 DEF EP!Next, EP!Environment
    <2>4. \A p \in Preloads : pc'[p] = "idle"
      BY <2>1 DEF EP!Restart
    <2> QED
      BY <1>11, <2>3, <2>4 DEF Restart, ReadyInv, TasksOK, FinishOK, TaskStates
  <1>12. CASE UNCHANGED vars
    <2>1. UNCHANGED engineVars /\ UNCHANGED <<alive, task, groupErr, finisher, done>>
      BY <1>12 DEF vars, startupVars
    <2>2. EP!ProductionInv' /\ UNCHANGED <<pc, ret>> /\ (LoadedForGood => LoadedForGood')
      BY <1>3, <1>a, <2>1
    <2> QED
      BY <2>1, <2>2 DEF ReadyInv, TasksOK, FinishOK
  <1> QED
    BY <1>4, <1>5, <1>6, <1>7, <1>8, <1>9, <1>10, <1>11, <1>12, SameEngine DEF Next

LEMMA DoneIsLoaded ==
    ASSUME ReadyInv, done, groupErr = NoErr, Preloads # {}
    PROVE  LoadedForGood
  <1>1. PICK p \in Preloads : task[p] = "succeeded"
    BY DEF ReadyInv, TasksOK, FinishOK, TaskStates
  <1> QED
    BY <1>1 DEF ReadyInv, TasksOK

\* Readme, "HTTP 200 response only if the template loading has finished": when
\* /pugjs/ready answers 200 and no preload failed, every good template is in
\* place and no load is under way, also when a request loaded the templates
\* before the preload did and whatever the files are that cannot be loaded.
\* Templates that make the compiler panic and debug requests are left out.
THEOREM ReadyIsLoaded ==
    ASSUME EngineConstants, EP!Production, Preloads # {}
    PROVE  Spec => []ReadyMeansLoaded
  <1>1. ReadyInv => ReadyMeansLoaded
    <2> SUFFICES ASSUME ReadyInv, done, groupErr = NoErr
                 PROVE  templatesLoaded = 1 /\ Engine!NobodyLoads /\ Complete
      BY DEF ReadyMeansLoaded
    <2>2. LoadedForGood
      BY DoneIsLoaded
    <2>3. \A n \in Names : EP!AlwaysGood(n) => templates[n] # Nil
      BY <2>2 DEF ReadyInv, EP!ProductionInv, EP!PublishedComplete, LoadedForGood
    <2> QED
      BY <2>2, <2>3, SameEngine DEF LoadedForGood, Complete
  <1>2. Init => ReadyInv
    BY InitReady
  <1>3. ReadyInv /\ [Next]_vars => ReadyInv'
    BY NextReady
  <1> QED
    BY <1>1, <1>2, <1>3, PTL DEF Spec

\* Readme, all templates are loaded at once on startup: after the endpoint said
\* ready no request sets out to load templates, until the process restarts or
\* unless a preload failed, in which case the process is about to end.
THEOREM ReadyStopsLoading ==
    ASSUME EngineConstants, EP!Production, Preloads # {}
    PROVE  Spec => ReadyEndsLoading
  <1> DEFINE KeepsOff == \A p \in Requests : done /\ groupErr = NoErr /\ pc[p] = "check" => pc'[p] # "lock"
  <1>1. ReadyInv /\ [Next]_vars => [KeepsOff]_vars
    <2> SUFFICES ASSUME ReadyInv, Next, NEW p \in Requests, done, groupErr = NoErr, pc[p] = "check"
                 PROVE  pc'[p] # "lock"
      OBVIOUS
    <2>t. /\ pc \in [EP!Procs -> EP!Labels]
          /\ EP!Procs = Requests \cup Preloads \cup Debuggers
          /\ Debug = FALSE /\ templatesLoaded = 1
      BY DoneIsLoaded DEF ReadyInv, EP!ProductionInv, EP!TypeInv, EP!TypeOK,
                EP!Procs, EP!Production, LoadedForGood
    <2> USE <2>t
    <2>1. CASE StartupStep \/ ServerStart \/ \E q \in Preloads : PreloadReturns(q)
      BY <2>1 DEF StartupStep, ServerStart, PreloadReturns, engineVars, callsInProgress
    <2>2. ASSUME NEW q, EP!Preload(q) \/ EP!Render(q) \/ EP!DebugGet(q)
          PROVE  pc'[p] # "lock"
      BY <2>2 DEF EP!Preload, EP!Render, EP!DebugGet, EP!Begin, EP!At, EP!Goto
    <2>3. CASE (\E q \in Preloads : AreaRouted(q))
               \/ \E q \in Requests \cup Debuggers : HandleRequest(q)
      BY <2>2, <2>3, SameEngine DEF AreaRouted, HandleRequest
    <2>4. ASSUME NEW q \in EP!Procs, EP!Step(q)
          PROVE  pc'[p] # "lock"
      <3>1. CASE q # p
        BY <2>4, <3>1, EP!StepMoves DEF EngineConstants, ReadyInv, EP!ProductionInv
      <3>2. CASE q = p
        <4>1. EP!CheckLoaded(p)
          BY <2>4, <3>2 DEF EP!Step, EP!LoadStep, EP!RenderStep, EP!LockTemplates, EP!StartLoad,
                EP!RefuseLoad, EP!OpenDir, EP!OpenDirFails, EP!CompileFile, EP!ParseFails,
                EP!TemplateFails, EP!CompilePanics, EP!Publish, EP!LeaveLoad, EP!TakeSlot,
                EP!RLockTemplates, EP!Lookup, EP!Execute, EP!CallAsset,
                EP!RLockAsset, EP!ReadAsset, EP!ReleaseSlot, EP!ReadCode, EP!At
        <4> QED
          BY <4>1 DEF EP!CheckLoaded, EP!NeedsLoad, EP!Goto
      <3> QED
        BY <3>1, <3>2
    <2>5. CASE \E q \in EP!Procs : EngineStep(q)
      BY <2>4, <2>5, SameEngine DEF EngineStep
    <2>6. CASE Disturbance
      <3>1. \/ \E q \in Requests : EP!WaitFailed(q)
            \/ \E q \in Debuggers : Engine!ConcurrentMapAccess(q)
            \/ \E n \in Names : EP!EditFile(n)
            \/ EP!MoveDir
        BY <2>6, SameEngine DEF Disturbance
      <3> QED
        BY <3>1 DEF EP!WaitFailed, Engine!ConcurrentMapAccess, EP!EditFile, EP!MoveDir, EP!At, EP!Goto
    <2>7. CASE Restart
      BY <2>7, SameEngine DEF Restart, EP!Restart
    <2> QED
      BY <2>1, <2>3, <2>5, <2>6, <2>7, SameEngine DEF Next
  <1>2. Init => ReadyInv
    BY InitReady
  <1>3. ReadyInv /\ [Next]_vars => ReadyInv'
    BY NextReady
  <1> QED
    BY <1>1, <1>2, <1>3, PTL DEF Spec, ReadyEndsLoading
=============================================================================
