----------------------------- MODULE PugEngine -----------------------------
(***************************************************************************)
(* The template engine of pugjs/engine.go: one Engine shared by the        *)
(* goroutines that render pages (Requests, one HTTP request each), that    *)
(* preload the templates at startup (Preloads, Startup's goroutines) and   *)
(* that answer the debug route (Debuggers, debug.go).  A goroutine is a    *)
(* process with a program counter; a label ends where another goroutine    *)
(* can see what was done, so everything between two labels is local to     *)
(* the goroutine or protected by the lock.                                 *)
(*                                                                         *)
(* A template is its name and the version of the file it was compiled      *)
(* from.  ExecuteTemplate's error return is not a branch here: a template  *)
(* found in Engine.templates is always associated with its own name        *)
(* (tpl.go AddParseTree), and an execution error is a panic, because       *)
(* tpl_exec.go has no recover.                                             *)
(***************************************************************************)
EXTENDS Integers, FiniteSets, Sequences

CONSTANTS
    Requests,         \* goroutines that call Render or RenderPartials
    Preloads,         \* goroutines that call LoadTemplates("")
    Debuggers,        \* goroutines that call DebugController.Get
    Names,            \* template names that may be asked for
    HasPrefix,        \* <<n, f>> : the name n starts with the name f
    Limit,            \* capacity of Engine.ratelimit, 0: no limit
    Debug,            \* Engine.Debug, flamingo.debug.mode
    CheckWebpack1337, \* Engine.CheckWebpack1337
    Kinds,            \* what a template file can look like
    DirMoves,         \* whether the template directory may be missing
    MaxEdits,         \* bound: changes of the template directory
    MaxPartials,      \* bound: partials of one RenderPartials call
    Nobody,           \* no goroutine
    Nil,              \* no entry in a map
    Blank             \* an entry of TemplateCode that is the empty string

Procs == Requests \cup Preloads \cup Debuggers
All == "" \* the empty filter, and the empty ?tpl= of the debug route

ASSUME ProcsDisjoint ==
    /\ Requests \cap Preloads = {}
    /\ Requests \cap Debuggers = {}
    /\ Preloads \cap Debuggers = {}
ASSUME ProcsFinite == IsFiniteSet(Requests)
ASSUME NobodyIsNoProc == Nobody \notin Procs
ASSUME AllIsNoName == All \notin Names
ASSUME PrefixReflexive ==
    /\ HasPrefix \subseteq Names \X Names
    /\ \A n \in Names : <<n, n>> \in HasPrefix
ASSUME LimitType == Limit \in Nat
ASSUME SwitchesType == Debug \in BOOLEAN /\ CheckWebpack1337 \in BOOLEAN
ASSUME KindsType ==
    Kinds \subseteq {"good", "dangling", "corrupt", "invalid", "panics", "absent"}
ASSUME BoundsType == DirMoves \in BOOLEAN /\ MaxEdits \in Nat /\ MaxPartials \in Nat
ASSUME NilIsNew == Nil \notin Nat /\ Blank \notin Nat /\ Nil # Blank

VARIABLES
    \* the directory of .ast.json files
    disk,             \* disk[n]: the kind of file n and its version
    dirOk,            \* the root of the template directory can be read
    edits,            \* how often the directory changed
    \* Engine
    slots,            \* len(Engine.ratelimit)
    writer,           \* RWMutex: holds, or waits for readers with, the write lock
    readers,          \* RWMutex: goroutines that hold a read lock
    blocked,          \* RWMutex: goroutines parked in RLock behind the writer
    templatesLoaded,
    templates,
    TemplateCode,
    Webpackserver,
    alive,            \* the process runs
    \* the calls in progress
    pc,
    tpl,              \* the template name of the call, or its filter
    rest,             \* the partials RenderPartials has not rendered yet
    todo,             \* compileDir: files read from the directory, not compiled
    result,           \* compileDir: the templates compiled so far
    got,              \* Render: the version of the template it executes
    ret,              \* how the call ended
    since             \* history: the versions on disk when the call began

diskVars == <<disk, dirOk, edits>>
lockVars == <<writer, readers, blocked>>
storeVars == <<templatesLoaded, templates, TemplateCode, Webpackserver>>
callVars == <<tpl, rest, since>>
loadVars == <<todo, result>>
vars == <<diskVars, slots, lockVars, storeVars, alive,
          pc, callVars, loadVars, got, ret>>

Versions == 0 .. MaxEdits
NoTemplates == [n \in Names |-> Nil]
Returned == {"none", "ok", "loaded", "notFound", "again", "loadErr", "waitErr", "panic"}

LoadLabels == {"lock", "locked", "open", "compile", "webpack"}
RenderLabels == {"check", "rlock", "read", "exec", "assetLock", "assetRead", "tail", "release"}
Labels == {"idle", "limit", "code"} \cup LoadLabels \cup RenderLabels

Init ==
    /\ disk \in [Names -> [kind : Kinds, ver : {0}]]
    /\ dirOk = TRUE
    /\ edits = 0
    /\ slots = 0
    /\ writer = Nobody
    /\ readers = {}
    /\ blocked = {}
    /\ templatesLoaded = 0
    /\ templates = NoTemplates
    /\ TemplateCode = NoTemplates
    /\ Webpackserver = FALSE
    /\ alive = TRUE
    /\ pc = [p \in Procs |-> "idle"]
    /\ tpl = [p \in Procs |-> All]
    /\ rest = [p \in Procs |-> <<>>]
    /\ todo = [p \in Procs |-> {}]
    /\ result = [p \in Procs |-> NoTemplates]
    /\ got = [p \in Procs |-> Nil]
    /\ ret = [p \in Procs |-> "none"]
    /\ since = [p \in Procs |-> [n \in Names |-> 0]]

-----------------------------------------------------------------------------
(* sync.RWMutex: a writer that has announced itself lets no new reader in; *)
(* Unlock hands the lock to the readers that were parked meanwhile.        *)

Announce(p) ==
    /\ writer = Nobody
    /\ writer' = p
    /\ UNCHANGED <<readers, blocked>>

HasWriteLock(p) == writer = p /\ readers = {}

Unlock ==
    /\ writer' = Nobody
    /\ readers' = blocked
    /\ blocked' = {}

RLock(p) ==
    /\ IF writer = Nobody
       THEN readers' = readers \cup {p} /\ blocked' = blocked
       ELSE blocked' = blocked \cup {p} /\ readers' = readers
    /\ UNCHANGED writer

RUnlock(p) ==
    /\ readers' = readers \ {p}
    /\ UNCHANGED <<writer, blocked>>

At(p, label) == alive /\ pc[p] = label
Goto(p, label) == pc' = [pc EXCEPT ![p] = label]
Return(p, r) == ret' = [ret EXCEPT ![p] = r]

-----------------------------------------------------------------------------
(* The calls. *)

Begin(p, label, n, partials) ==
    /\ At(p, "idle")
    /\ Goto(p, label)
    /\ tpl' = [tpl EXCEPT ![p] = n]
    /\ rest' = [rest EXCEPT ![p] = partials]
    /\ since' = [since EXCEPT ![p] = [m \in Names |-> disk[m].ver]]
    /\ Return(p, "none")
    /\ UNCHANGED <<diskVars, slots, lockVars, storeVars, alive, loadVars, got>>

\* Render(n), or RenderPartials with the partials n, partials[1], ...
Render(p) ==
    /\ p \in Requests
    /\ \E n \in Names, k \in 0 .. MaxPartials :
          \E partials \in [1 .. k -> Names] : Begin(p, "limit", n, partials)

Preload(p) == p \in Preloads /\ Begin(p, "lock", All, <<>>)

DebugGet(p) ==
    /\ p \in Debuggers
    /\ \E n \in Names \cup {All} : Begin(p, "lock", n, <<>>)

-----------------------------------------------------------------------------
(* Render up to LoadTemplates. *)

\* faulty: the channel is taken for unbounded
NoBound == TRUE
SlotFree == Limit = 0 \/ slots < Limit

\* the select on ctx.Done and the ratelimit channel: a slot is free
TakeSlot(p) ==
    /\ At(p, "limit")
    /\ SlotFree
    /\ slots' = IF Limit = 0 THEN slots ELSE slots + 1
    /\ Goto(p, "check")
    /\ UNCHANGED <<diskVars, lockVars, storeVars, alive, callVars, loadVars, got, ret>>

\* the same select: the context of the request is done
WaitFailed(p) ==
    /\ At(p, "limit")
    /\ Limit > 0
    /\ Goto(p, "idle")
    /\ Return(p, "waitErr")
    /\ UNCHANGED <<diskVars, slots, lockVars, storeVars, alive, callVars, loadVars, got>>

\* faulty: debug mode loads once, like production
NeedsFirstLoad == templatesLoaded = 0
\* faulty: production loads for each request, like debug mode
NeedsEveryLoad == TRUE
\* templatesLoaded is read outside the lock
NeedsLoad == Debug \/ templatesLoaded = 0

CheckLoaded(p) ==
    /\ At(p, "check")
    /\ Goto(p, IF NeedsLoad THEN "lock" ELSE "rlock")
    /\ UNCHANGED <<diskVars, slots, lockVars, storeVars, alive, callVars, loadVars, got, ret>>

-----------------------------------------------------------------------------
(* LoadTemplates, called with the filter Filter(p). *)

\* faulty: production loads what is asked for, too
FilterByName(p) == tpl[p]
Filter(p) == IF p \in Requests /\ ~Debug THEN All ELSE tpl[p]
Selected(f) == IF f = All THEN Names ELSE {n \in Names : <<n, f>> \in HasPrefix}

\* faulty: Render returns a load error without its deferred functions
AfterLoadWithoutDefers(p, err) ==
    IF p \in Requests THEN (IF err THEN "idle" ELSE "rlock")
    ELSE IF p \in Debuggers THEN "code" ELSE "idle"
\* where the caller goes on: Render stops on an error, DebugController.Get
\* ignores it, a startup process returns it
AfterLoad(p, err) ==
    IF p \in Requests THEN (IF err THEN "release" ELSE "rlock")
    ELSE IF p \in Debuggers THEN "code" ELSE "idle"

EndLoad(p, r) ==
    /\ Unlock
    /\ todo' = [todo EXCEPT ![p] = {}]
    /\ result' = [result EXCEPT ![p] = NoTemplates]
    /\ Return(p, r)

LockTemplates(p) ==
    /\ At(p, "lock")
    /\ Announce(p)
    /\ Goto(p, "locked")
    /\ UNCHANGED <<diskVars, slots, storeVars, alive, callVars, loadVars, got, ret>>

\* faulty: LoadTemplates ignores the result of CompareAndSwap
NeverRefuse(p) == FALSE
\* CompareAndSwap(&templatesLoaded, 0, 1): a full load runs once
MustNotReload(p) == templatesLoaded = 1 /\ Filter(p) = All

StartLoad(p) ==
    /\ At(p, "locked")
    /\ HasWriteLock(p)
    /\ ~MustNotReload(p)
    /\ templatesLoaded' = 1
    /\ Goto(p, "open")
    /\ UNCHANGED <<diskVars, slots, lockVars, templates, TemplateCode, Webpackserver,
                   alive, callVars, loadVars, got, ret>>

RefuseLoad(p) ==
    /\ At(p, "locked")
    /\ HasWriteLock(p)
    /\ MustNotReload(p)
    /\ EndLoad(p, "again")
    /\ Goto(p, AfterLoad(p, TRUE))
    /\ UNCHANGED <<diskVars, slots, storeVars, alive, callVars, got>>

\* compileDir opens the directory and lists the files the filter selects
OpenDir(p) ==
    /\ At(p, "open")
    /\ dirOk
    /\ todo' = [todo EXCEPT ![p] = {n \in Selected(Filter(p)) : disk[n].kind # "absent"}]
    /\ Goto(p, "compile")
    /\ UNCHANGED <<diskVars, slots, lockVars, storeVars, alive, callVars, result, got, ret>>

\* faulty: the flag stays set
BailOutKeepingFlag(p) ==
    /\ templates' = NoTemplates
    /\ EndLoad(p, "loadErr")
    /\ Goto(p, AfterLoad(p, TRUE))
    /\ UNCHANGED <<diskVars, slots, templatesLoaded, Webpackserver, alive, callVars, got>>

\* the assignment of compileDir's nil map, and the flag reset
BailOut(p) ==
    /\ templates' = NoTemplates
    /\ templatesLoaded' = 0
    /\ EndLoad(p, "loadErr")
    /\ Goto(p, AfterLoad(p, TRUE))
    /\ UNCHANGED <<diskVars, slots, Webpackserver, alive, callVars, got>>

OpenDirFails(p) ==
    /\ At(p, "open")
    /\ ~dirOk
    /\ UNCHANGED TemplateCode
    /\ BailOut(p)

\* renderState.Parse and TokenToTemplate: a call of an undefined mixin is an
\* error in debug mode and a warning otherwise
Compiles(n) == disk[n].kind = "good" \/ (disk[n].kind = "dangling" /\ ~Debug)

CompileFile(p, n) ==
    /\ At(p, "compile")
    /\ n \in todo[p]
    /\ Compiles(n)
    /\ todo' = [todo EXCEPT ![p] = @ \ {n}]
    /\ result' = [result EXCEPT ![p][n] = disk[n].ver]
    /\ TemplateCode' = [TemplateCode EXCEPT ![n] = disk[n].ver]
    /\ UNCHANGED <<diskVars, slots, lockVars, templatesLoaded, templates, Webpackserver,
                   alive, pc, callVars, got, ret>>

\* the file is gone or no JSON: Parse fails before TemplateCode is assigned
ParseFails(p, n) ==
    /\ At(p, "compile")
    /\ n \in todo[p]
    /\ disk[n].kind \in {"absent", "corrupt"}
    /\ UNCHANGED TemplateCode
    /\ BailOut(p)

\* TokenToTemplate fails: its results nil, "" are assigned all the same
TemplateFails(p, n) ==
    /\ At(p, "compile")
    /\ n \in todo[p]
    /\ disk[n].kind = "invalid" \/ (disk[n].kind = "dangling" /\ Debug)
    /\ TemplateCode' = [TemplateCode EXCEPT ![n] = Blank]
    /\ BailOut(p)

\* faulty: the panic of a Render passes by the deferred receive
UnwindWithoutDefers(p) == "idle"
Unwind(p) == IF p \in Requests THEN "release" ELSE "idle"

\* buildNode or JsExpr panics: only the deferred Unlock runs.  net/http
\* recovers a request, nothing recovers a startup process.
CompilePanics(p, n) ==
    /\ At(p, "compile")
    /\ n \in todo[p]
    /\ disk[n].kind = "panics"
    /\ EndLoad(p, "panic")
    /\ Goto(p, Unwind(p))
    /\ alive' = (p \notin Preloads)
    /\ UNCHANGED <<diskVars, slots, storeVars, callVars, got>>

\* Engine.templates is replaced; the webpack check follows under the lock
Publish(p) ==
    /\ At(p, "compile")
    /\ todo[p] = {}
    /\ templates' = result[p]
    /\ Webpackserver' = FALSE
    /\ Goto(p, "webpack")
    /\ UNCHANGED <<diskVars, slots, lockVars, templatesLoaded, TemplateCode,
                   alive, callVars, loadVars, got, ret>>

LeaveLoad(p) ==
    /\ At(p, "webpack")
    /\ \/ UNCHANGED Webpackserver
       \/ CheckWebpack1337 /\ Webpackserver' = TRUE
    /\ EndLoad(p, "loaded")
    /\ Goto(p, AfterLoad(p, FALSE))
    /\ UNCHANGED <<diskVars, slots, templatesLoaded, templates, TemplateCode, alive, callVars, got>>

-----------------------------------------------------------------------------
(* The rest of Render. *)

\* faulty: the lookup does not wait for the lock
RLockTemplatesAtOnce(p) ==
    /\ At(p, "rlock")
    /\ readers' = readers \cup {p}
    /\ Goto(p, "read")
    /\ UNCHANGED <<diskVars, slots, writer, blocked, storeVars, alive, callVars, loadVars, got, ret>>
RLockTemplates(p) ==
    /\ At(p, "rlock")
    /\ RLock(p)
    /\ Goto(p, "read")
    /\ UNCHANGED <<diskVars, slots, storeVars, alive, callVars, loadVars, got, ret>>

\* the lookup, then RUnlock, then the test of ok
Lookup(p) ==
    /\ At(p, "read")
    /\ p \in readers
    /\ got' = [got EXCEPT ![p] = templates[tpl[p]]]
    /\ RUnlock(p)
    /\ IF templates[tpl[p]] = Nil
       THEN Goto(p, "release") /\ Return(p, "notFound")
       ELSE Goto(p, "exec") /\ UNCHANGED ret
    /\ UNCHANGED <<diskVars, slots, storeVars, alive, callVars, loadVars>>

\* ExecuteTemplate ends normally, or panics with an ExecError
Execute(p) ==
    /\ At(p, "exec") \/ At(p, "tail")
    /\ Goto(p, "release")
    /\ \E r \in {"ok", "panic"} : Return(p, r)
    /\ UNCHANGED <<diskVars, slots, lockVars, storeVars, alive, callVars, loadVars, got>>

\* a template that calls asset(): Webpackserver is read outside the lock.
\* One call stands for all, each takes and drops the read lock the same way.
CallAsset(p) ==
    /\ At(p, "exec")
    /\ Goto(p, IF Webpackserver THEN "tail" ELSE "assetLock")
    /\ UNCHANGED <<diskVars, slots, lockVars, storeVars, alive, callVars, loadVars, got, ret>>

\* faulty: asset() does not wait for the lock
RLockAssetAtOnce(p) ==
    /\ At(p, "assetLock")
    /\ readers' = readers \cup {p}
    /\ Goto(p, "assetRead")
    /\ UNCHANGED <<diskVars, slots, writer, blocked, storeVars, alive, callVars, loadVars, got, ret>>
RLockAsset(p) ==
    /\ At(p, "assetLock")
    /\ RLock(p)
    /\ Goto(p, "assetRead")
    /\ UNCHANGED <<diskVars, slots, storeVars, alive, callVars, loadVars, got, ret>>

ReadAsset(p) ==
    /\ At(p, "assetRead")
    /\ p \in readers
    /\ RUnlock(p)
    /\ Goto(p, "tail")
    /\ UNCHANGED <<diskVars, slots, storeVars, alive, callVars, loadVars, got, ret>>

\* the deferred receive from ratelimit; RenderPartials goes on with the next
\* partial unless this one failed
ReleaseSlot(p) ==
    /\ At(p, "release")
    /\ Limit > 0 => slots > 0
    /\ slots' = IF Limit = 0 THEN slots ELSE slots - 1
    /\ got' = [got EXCEPT ![p] = Nil]
    /\ IF ret[p] = "ok" /\ rest[p] # <<>>
       THEN /\ tpl' = [tpl EXCEPT ![p] = Head(rest[p])]
            /\ rest' = [rest EXCEPT ![p] = Tail(rest[p])]
            /\ Goto(p, "limit")
       ELSE /\ rest' = [rest EXCEPT ![p] = <<>>]
            /\ Goto(p, "idle")
            /\ UNCHANGED tpl
    /\ UNCHANGED <<diskVars, lockVars, storeVars, alive, since, loadVars, ret>>

-----------------------------------------------------------------------------
(* DebugController.Get after LoadTemplates: TemplateCode is read outside   *)
(* the lock.  The Go runtime stops the process when it notices that        *)
(* another goroutine writes a map that is being read.                      *)

ReadCode(p) ==
    /\ At(p, "code")
    /\ Goto(p, "idle")
    /\ Return(p, IF tpl[p] # All /\ TemplateCode[tpl[p]] # Nil THEN "ok" ELSE "panic")
    /\ UNCHANGED <<diskVars, slots, lockVars, storeVars, alive, callVars, loadVars, got>>

ConcurrentMapAccess(p) ==
    /\ At(p, "code")
    /\ \E q \in Procs \ {p} : pc[q] = "compile"
    /\ alive' = FALSE
    /\ UNCHANGED <<diskVars, slots, lockVars, storeVars, pc, callVars, loadVars, got, ret>>

-----------------------------------------------------------------------------
(* The environment: the frontend build writes the template directory, and  *)
(* a supervisor starts the process again.                                  *)

EditFile(n) ==
    /\ edits < MaxEdits
    /\ edits' = edits + 1
    /\ \E k \in Kinds : disk' = [disk EXCEPT ![n] = [kind |-> k, ver |-> edits + 1]]
    /\ UNCHANGED <<dirOk, slots, lockVars, storeVars, alive, pc, callVars, loadVars, got, ret>>

MoveDir ==
    /\ DirMoves
    /\ edits < MaxEdits
    /\ edits' = edits + 1
    /\ dirOk' = ~dirOk
    /\ UNCHANGED <<disk, slots, lockVars, storeVars, alive, pc, callVars, loadVars, got, ret>>

Restart ==
    /\ ~alive
    /\ alive' = TRUE
    /\ slots' = 0
    /\ writer' = Nobody /\ readers' = {} /\ blocked' = {}
    /\ templatesLoaded' = 0
    /\ templates' = NoTemplates
    /\ TemplateCode' = NoTemplates
    /\ Webpackserver' = FALSE
    /\ pc' = [p \in Procs |-> "idle"]
    /\ tpl' = [p \in Procs |-> All]
    /\ rest' = [p \in Procs |-> <<>>]
    /\ todo' = [p \in Procs |-> {}]
    /\ result' = [p \in Procs |-> NoTemplates]
    /\ got' = [p \in Procs |-> Nil]
    /\ ret' = [p \in Procs |-> "none"]
    /\ since' = [p \in Procs |-> [n \in Names |-> 0]]
    /\ UNCHANGED diskVars

-----------------------------------------------------------------------------
Call(p) == Render(p) \/ Preload(p) \/ DebugGet(p)

LoadStep(p) ==
    \/ LockTemplates(p) \/ StartLoad(p) \/ RefuseLoad(p)
    \/ OpenDir(p) \/ OpenDirFails(p)
    \/ \E n \in Names : \/ CompileFile(p, n) \/ ParseFails(p, n)
                        \/ TemplateFails(p, n) \/ CompilePanics(p, n)
    \/ Publish(p) \/ LeaveLoad(p)

RenderStep(p) ==
    \/ TakeSlot(p) \/ CheckLoaded(p) \/ RLockTemplates(p) \/ Lookup(p)
    \/ Execute(p) \/ CallAsset(p) \/ RLockAsset(p) \/ ReadAsset(p) \/ ReleaseSlot(p)

Environment ==
    \/ \E p \in Procs : WaitFailed(p) \/ ConcurrentMapAccess(p)
    \/ \E n \in Names : EditFile(n)
    \/ MoveDir
    \/ Restart

Step(p) == LoadStep(p) \/ RenderStep(p) \/ ReadCode(p)

Next ==
    \/ \E p \in Procs : Call(p) \/ Step(p)
    \/ Environment

Spec == Init /\ [][Next]_vars

(* Goroutines are scheduled; the ratelimit channel and the RWMutex serve   *)
(* their waiters in order, so a waiter is not overtaken for ever.          *)
Fairness ==
    \A p \in Procs : /\ WF_vars(Step(p))
                     /\ SF_vars(TakeSlot(p))
                     /\ SF_vars(LockTemplates(p))

FairSpec == Spec /\ Fairness

-----------------------------------------------------------------------------
(* Properties. *)

\* Every variable keeps the type of the field or local it stands for.
TypeOK ==
    /\ disk \in [Names -> [kind : Kinds, ver : Versions]]
    /\ dirOk \in BOOLEAN
    /\ edits \in Versions
    /\ slots \in 0 .. Limit
    /\ writer \in Procs \cup {Nobody}
    /\ readers \subseteq Procs
    /\ blocked \subseteq Procs
    /\ templatesLoaded \in {0, 1}
    /\ templates \in [Names -> Versions \cup {Nil}]
    /\ TemplateCode \in [Names -> Versions \cup {Nil, Blank}]
    /\ Webpackserver \in BOOLEAN
    /\ alive \in BOOLEAN
    /\ pc \in [Procs -> Labels]
    /\ tpl \in [Procs -> Names \cup {All}]
    /\ rest \in [Procs -> Seq(Names)]
    /\ todo \in [Procs -> SUBSET Names]
    /\ result \in [Procs -> [Names -> Versions \cup {Nil}]]
    /\ got \in [Procs -> Versions \cup {Nil}]
    /\ ret \in [Procs -> Returned]
    /\ since \in [Procs -> [Names -> Versions]]

\* Each goroutine runs the code of its kind of call, and Render has a name.
CallsOK ==
    \A p \in Procs :
        /\ p \in Requests => pc[p] # "code" /\ (pc[p] # "idle" => tpl[p] \in Names)
        /\ p \notin Requests => pc[p] \notin RenderLabels \cup {"limit"}
        /\ p \in Preloads => pc[p] # "code" /\ tpl[p] = All

\* The labels at which a Render call owns an entry of the ratelimit channel.
Owners == {p \in Requests : pc[p] \in RenderLabels \cup LoadLabels}

\* The ratelimit channel holds one entry for every Render call past the
\* select and none for any other: no error return, refused load or panic of
\* a template leaks a slot or gives one back twice.
SlotsAccounted == slots = IF Limit = 0 THEN 0 ELSE Cardinality(Owners)

\* The labels at which LoadTemplates is past Lock and CompareAndSwap.
Inside == {"open", "compile", "webpack"}

\* Who holds or waits for the lock is where the program counter says, and a
\* goroutine past Lock has the lock to itself.
LockOK ==
    /\ \A p \in Procs :
          /\ pc[p] \in Inside \cup {"locked"} <=> writer = p
          /\ pc[p] \in {"read", "assetRead"} <=> p \in readers \cup blocked
          /\ pc[p] \in Inside => readers = {}
    /\ readers \cap blocked = {}
    /\ writer = Nobody => blocked = {}

\* While a load runs no goroutine holds the read lock and no second load
\* runs, so neither Lookup nor asset() meets a half replaced engine.
LoadsAlone ==
    \A p \in Procs : pc[p] \in Inside =>
        /\ readers = {}
        /\ \A q \in Procs \ {p} : pc[q] \notin Inside

NobodyLoads == \A p \in Procs : pc[p] \notin {"open", "compile"}

\* Nothing was ever wrong with file n: it was there from the start, good,
\* and nobody touched it.
AlwaysGood(n) == disk[n].kind = "good" /\ disk[n].ver = 0

\* A load that is under way has set the flag, and its results so far and the
\* files it still has to compile are together every good file.
LoadOK ==
    \A p \in Procs :
        /\ pc[p] \in Inside => templatesLoaded = 1
        /\ pc[p] = "compile" =>
              \A n \in Names : AlwaysGood(n) => n \in todo[p] \/ result[p][n] # Nil

\* Production, "all templates are loaded at once": once the flag is set and
\* no load is under way, every good file has its template.
PublishedComplete ==
    templatesLoaded = 1 /\ NobodyLoads =>
        \A n \in Names : AlwaysGood(n) => templates[n] # Nil

\* Production, "make sure template loading has finished by now!": a Render
\* that holds the read lock finds every good template.
LoadedAtLookup ==
    \A p \in Requests : pc[p] = "read" /\ p \in readers =>
        \A n \in Names : AlwaysGood(n) => templates[n] # Nil

\* Debug mode loads on each render: what Render executes is at least as new
\* as the file was when the call began, whoever reloads in between.
ServesFresh ==
    \A p \in Requests :
        pc[p] \in {"exec", "assetLock", "assetRead", "tail"} =>
            got[p] \in Nat /\ got[p] >= since[p][tpl[p]]

\* Production, "make sure to fully load only once!": after a load has ended
\* and set the flag, no load begins and nothing replaces the templates, until
\* a restart.
LoadsOnce ==
    [][alive /\ templatesLoaded = 1 /\ NobodyLoads
          => NobodyLoads' /\ UNCHANGED <<templates, templatesLoaded>>]_vars

\* Every call returns, unless the process dies: nobody waits for ever on the
\* ratelimit channel or on the lock, whatever error the others return with.
CallsEnd == \A p \in Procs : pc[p] # "idle" ~> (pc[p] = "idle" \/ ~alive)

\* Production: a failed load is tried again.  If the directory and its files
\* are repaired for good and requests keep coming, every template gets loaded
\* for good (where files are edited but none appears: a file that is created
\* after the load stays unknown).
Repaired == dirOk /\ \A n \in Names : disk[n].kind = "good"
Recovers ==
    (<>[]Repaired /\ []<>(\E p \in Requests : pc[p] = "check"))
        => <>[](templatesLoaded = 1 /\ \A n \in Names : templates[n] # Nil)

-----------------------------------------------------------------------------
(* What Readme.md says of debug mode; the code does not keep it. *)

\* "all templates are loaded on demand on each render request": a Render of
\* a file that was good all the time never answers that there is none.
FoundOnDemand ==
    \A p \in Requests : ret[p] = "notFound" => ~AlwaysGood(tpl[p])
=============================================================================
