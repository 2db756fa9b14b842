------------------------------ MODULE PugServer ------------------------------
(***************************************************************************)
(* One area of a flamingo server: the engine, the startup and the events   *)
(* that connect them (EventSubscriber.Notify of engine.go, the bindings of *)
(* module.go).  AreaRoutedEvent starts the preload of the templates in the *)
(* background, ServerStartEvent finishes the startup, then the server      *)
(* listens.  /pugjs/ready reports Startup.IsFinished.                      *)
(***************************************************************************)
EXTENDS Integers, FiniteSets, Sequences

CONSTANTS
    Requests, Preloads, Debuggers, Names, HasPrefix, Limit, Debug,
    CheckWebpack1337, Kinds, DirMoves, MaxEdits, MaxPartials, Nobody, Nil, Blank,
    NoErr

VARIABLES
    \* PugEngine
    disk, dirOk, edits, slots, writer, readers, blocked,
    templatesLoaded, templates, TemplateCode, Webpackserver, alive,
    pc, tpl, rest, todo, result, got, ret, since,
    \* PugStartup
    task, groupErr, finisher, done, errChan, receiver

Engine == INSTANCE PugEngine
Startup == INSTANCE PugStartup
    WITH Tasks <- Preloads, up <- alive

callsInProgress == <<pc, tpl, rest, todo, result, got, ret, since>>
engineVars == <<disk, dirOk, edits, slots, writer, readers, blocked,
                templatesLoaded, templates, TemplateCode, Webpackserver,
                callsInProgress>>
startupVars == <<task, groupErr, finisher, done, errChan, receiver>>
vars == <<engineVars, alive, startupVars>>

Init == Engine!Init /\ Startup!Init

\* Notify(AreaRoutedEvent): AddProcess starts LoadTemplates("") in a goroutine
AreaRouted(p) == Startup!AddProcess(p) /\ Engine!Preload(p)

\* Notify(ServerStartEvent), after every area was routed
ServerStart ==
    /\ \A p \in Preloads : task[p] # "new"
    /\ Startup!Finish
    /\ UNCHANGED engineVars

\* the server listens after it dispatched the ServerStartEvent
HandleRequest(p) ==
    /\ finisher # "none"
    /\ Engine!Render(p) \/ Engine!DebugGet(p)
    /\ UNCHANGED startupVars

EngineStep(p) == Engine!Step(p) /\ UNCHANGED startupVars

\* the function given to AddProcess returns what LoadTemplates returned
PreloadReturns(p) ==
    /\ pc[p] = "idle"
    /\ IF ret[p] = "loaded" THEN Startup!Succeed(p) ELSE Startup!Fail(p)
    /\ UNCHANGED engineVars

StartupStep == Startup!Goroutines /\ UNCHANGED engineVars

Disturbance ==
    /\ \/ \E p \in Requests : Engine!WaitFailed(p)
       \/ \E p \in Debuggers : Engine!ConcurrentMapAccess(p)
       \/ \E n \in Names : Engine!EditFile(n)
       \/ Engine!MoveDir
    /\ UNCHANGED startupVars

\* the supervisor starts a new process
Restart ==
    /\ Engine!Restart
    /\ task' = [p \in Preloads |-> "new"]
    /\ groupErr' = NoErr
    /\ finisher' = "none"
    /\ done' = FALSE
    /\ errChan' = "none"
    /\ receiver' = "none"

Next ==
    \/ \E p \in Preloads : AreaRouted(p) \/ PreloadReturns(p)
    \/ \E p \in Requests \cup Debuggers : HandleRequest(p)
    \/ \E p \in Engine!Procs : EngineStep(p)
    \/ ServerStart
    \/ StartupStep
    \/ Disturbance
    \/ Restart

Spec == Init /\ [][Next]_vars

(* Goroutines are scheduled, waiters are served in order (PugEngine), and  *)
(* the framework dispatches its startup events.                            *)
FairSpec ==
    /\ Spec
    /\ WF_vars(ServerStart) /\ WF_vars(StartupStep)
    /\ \A p \in Preloads : WF_vars(AreaRouted(p)) /\ WF_vars(PreloadReturns(p))
    /\ \A p \in Engine!Procs :
          /\ WF_vars(EngineStep(p))
          /\ SF_vars(Engine!TakeSlot(p) /\ UNCHANGED startupVars)
          /\ SF_vars(Engine!LockTemplates(p) /\ UNCHANGED startupVars)

-----------------------------------------------------------------------------
(* Properties. *)

\* Both components keep their types, in the composition.
TypeOK == Engine!TypeOK /\ Startup!TypeOK

Complete == \A n \in Names : Engine!AlwaysGood(n) => templates[n] # Nil

\* Readme, "HTTP 200 response only if the template loading has finished": when
\* the ready endpoint answers 200 and no preload failed, a full load is in
\* place and none runs, whatever the files are and whichever loads of requests
\* failed before.  A preload that fails is left out, because there it is not so:
\* done is closed before the receiver of the error has ended the process
\* (startup.go:37-41), and for that moment the endpoint answers 200.
ReadyMeansLoaded ==
    done /\ alive /\ groupErr = NoErr => templatesLoaded = 1 /\ Engine!NobodyLoads /\ Complete

\* Production: after the endpoint said ready no Render goes to load templates,
\* unless a preload failed and the process is about to end.
ReadyEndsLoading ==
    [][\A p \in Requests : done /\ groupErr = NoErr /\ pc[p] = "check" => pc'[p] # "lock"]_vars

\* Readme, "all templates are loaded at once on application startup": good
\* templates do not bring the starting server down.
StartupSurvives ==
    (\A n \in Names : Engine!AlwaysGood(n)) => alive

\* The startup comes to an end: ready, or dead because the preload failed.
ReadyOrDead == finisher = "waiting" ~> (done \/ ~alive)

\* A preload that fails ends the process, and only after the receiver of
\* Finish got the error.
PreloadFailureIsFatal ==
    (\E p \in Preloads : task[p] = "failed") ~> ~alive
=============================================================================
