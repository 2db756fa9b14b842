# Verification of pugtemplate

TLA+ models of [pugtemplate](../src/Readme.md), the module of the Flamingo
framework that compiles pug templates to Go templates and renders them, with
TLC runs on small instances and proofs that TLAPS checks for every instance.
The reference is the code: every definition names the lines it stands for in
`PROJECT.json` ("map").

- [What the program is made of](#what-the-program-is-made-of): inventory, hard behaviours, what makes each part correct
- [The modules](#the-modules): how state and actions correspond to the code
- [The runs](#the-runs): what each one checks and shows, the bounds, the fairness
- [The proofs](#the-proofs): what holds for every value of the constants
- [Where code and documentation disagree](#where-code-and-documentation-disagree)
- [What is not modelled](#what-is-not-modelled) and [the plan](#the-plan)

## What the program is made of

| Part | State | Operations | Talks to |
|---|---|---|---|
| Engine (`pugjs/engine.go`) | `templates`, `TemplateCode`, `templatesLoaded` (atomic), an `RWMutex`, the channel `ratelimit`, `Webpackserver`, `Assetrewrites` | `LoadTemplates`, `compileDir`, `Render`, `RenderPartials` | the compiler, the executor, `asset()`, the disk, port 1337 |
| Debug route (`debug.go`) | none of its own | `Get`: load with a filter, print `TemplateCode` | the engine |
| Startup (`pugjs/startup.go`) | an `errgroup`, `done`, the channel of `Finish` | `AddProcess`, `Finish`, `IsFinished` | `Notify`, the ready endpoint |
| Ready endpoint (`controllers/ready.go`) | none | `ServeHTTP` | `Startup.IsFinished` |
| Events and wiring (`engine.go` `Notify`, `module.go`) | bindings (the engine is a child singleton, the startup a singleton) | `AreaRoutedEvent` preloads, `ServerStartEvent` finishes the startup | engine, startup |
| Compiler (`pug_parser.go`, `pug_blocks.go`, `transform_*.go`) | `renderState`: mixin definitions and calls, mixin blocks, a counter, raw mode, "expects JS" | `Parse`, `TokenToTemplate`, `Render` of each block kind | the JavaScript translation, the template parser |
| JavaScript parser (`otto/parser`) | one token, `implicitSemicolon` and `insertSemicolon`, a stack of scopes with labels and flags, the errors | `next`, `parseStatement`, `parseExpression`, `nextStatement` | the JavaScript translation |
| JavaScript translation (`transform_js_.go`) | none: a tree becomes template text | `StrToStatements`, `FuncToStatements`, `renderStatement`, `renderExpression` | the JavaScript parser, the template parser |
| Template parser (`parse/lex.go`, `parse/parse.go`) | a lexer goroutine, an unbuffered channel of items, three tokens of lookahead, the variables in scope | `nextItem`, `backup`, `drain`, `recover` | each other |
| Executor (`tpl_exec.go`) | a tree of `state` objects: variables, globals, `depth`, `boundBlocks` | `walk*`, `eval*`, `__freeze` | template functions, objects |
| Objects (`types.go`) | `Array.items` (a Go slice), `Map.items` and `order` | member functions of arrays, maps, strings | templates |
| Runtime functions (`runtime.go`, `templatefunctions/`) | none, but `asset()` takes the engine's lock and `debug()` writes a package variable | comparison, attributes, formatting | templates |
| Template check (`puganalyse/`) | counters | a walk over the sources of the frontend | the disk |

**How they interact.** One `Engine` per area is shared by all the goroutines
that serve requests. A `Render` takes a slot of `ratelimit`, looks at
`templatesLoaded` *outside* the lock, loads if it has to (always in debug mode),
looks the template up under the read lock and executes it after it released
that lock. The startup preloads in the background: `AreaRoutedEvent` hands
`LoadTemplates("")` to `Startup.AddProcess`, `ServerStartEvent` calls `Finish`,
whose goroutine waits for the processes, sends the first error on an unbuffered
channel and closes `done`; the receiver that `Notify` started panics with
the error. `asset()` takes the read lock again in the middle of a render. The
debug route calls `LoadTemplates` with its own filter and reads `TemplateCode`
without the lock. For each file a load calls the compiler, the compiler hands the
JavaScript in attributes and code to otto's parser and renders the tree, and
the text of the whole file goes to the template parser, which starts the
lexer goroutine and reads its items one at a time. While a template executes,
states are copied: mixins and blocks work on copies of `state` whose slices
share memory.

**What is hard here.** The flag that says "loaded" is set before the load
starts, is taken back when it fails, and is read outside the lock. Every load
replaces the whole map by the templates its filter selects. Panics leave through
deferred functions: of `Render` (the slot), of `LoadTemplates` (the lock) and of
nobody (a panic in a startup goroutine ends the process). The lock is held
through file reads and an HTTP call. A readers-writer lock that prefers writers
is taken by a goroutine that holds a slot others wait for. `done`, the error
and the closed channel appear in an order that outsiders can observe. Go slices
alias: `append` writes to memory that others see, or does not, depending on the
capacity; this decides what a block finds in `boundBlocks` and whose variable
is overwritten in `vars`. The template parser puts up to three tokens back,
hands a pending one over to another `Tree`, and leaves by a panic while the lexer
waits to send. The JavaScript parser goes on after an error, inserts
semicolons by what the token *before* was, and keeps the legal targets of jumps in
flags that each construct sets and resets. The translation writes operators as
functions with arguments by position. All of them are in `PROJECT.json` under "hazards", at their lines.

**What makes the parts correct.**

- *Engine*: whoever looks a template up finds what a complete load produced
  (production) or something no older than its call (debug mode); a full load
  happens once; the rate limit counts exactly the running renders; readers never
  meet a load; every call returns; a failed load is repaired by a later one.
- *Startup*: ready comes last, and it comes unless the process dies; a failure
  is never swallowed.
- *Composition*: "ready" means, unless a preload failed, that a full load is in place
  and that no request will load again.
- *Arrays*: each call does to its own array and the one it returns what it does to a
  sequence, whatever memory is shared.
- *Executor*: a block sees the variables of the template that wrote it; a variable
  keeps its value until somebody it belongs to assigns it; every execution ends;
  a loop over a `Map` walks all its keys, each once unless its literal named it twice; recursion ends in an error, not in a
  stack overflow.
- *Template parser*: no token is lost, read twice or reordered; when `Parse` is
  back no goroutine is left; a definition is not replaced.
- *JavaScript*: nothing of an accepted source is lost, and a value is read as a whole; jumps have a target in
  their function; operators bind as they should; what the compiler supports
  becomes text that the template parser reads, with the variables in their places.

## The modules

| Module | Models | Extends / instantiates |
|---|---|---|
| `PugEngine` | `engine.go`, `debug.go`, the lock use of `asset()` | |
| `PugEngine_proofs` | theorems about it | `PugEngine`, `TLAPS` |
| `PugStartup` | `startup.go` and the receiver of `Notify` | `Readiness` as refinement target |
| `Readiness` | what startup and ready endpoint promise | |
| `PugStartup_proofs` | theorems about it | `PugStartup`, `TLAPS` |
| `PugServer` | `Notify`, the bindings; composes engine and startup | `PugEngine`, `PugStartup` |
| `PugServer_proofs` | theorems about the composition | `PugServer`, `PugEngine_proofs` |
| `PugArray` | the mutating functions of `Array` on Go slices | `JsArrays` |
| `JsArrays` | arrays as sequences: what each call does to its own and to the one it returns | |
| `PugArray_proofs` | theorems about them | `PugArray`, `TLAPS` |
| `TplExec` | `tpl_exec.go` (`walk*`, `vars`, `boundBlocks`), `__freeze`, the keys of a `Map` | |
| `TplExec_proofs` | theorems about it | `TplExec`, `SeqFacts` |
| `TplLex` | `parse/lex.go`: the lexer goroutine | |
| `TplParse` | `parse/parse.go`: the parser, and the channel between the two | `TplLex` |
| `TplParse_proofs` | theorems about them: the end of `Parse`, definitions | `TplParse`, `SeqFacts` |
| `TplOrder_proofs` | theorems about them: the order of the tokens, the types | `TplParse_proofs` |
| `SeqFacts` | lemmas about sequences of records | `SequenceTheorems`, `TLAPS` |
| `JsParser` | `otto/parser`: tokens, expressions, statements, scopes | |
| `JsExpr` | `transform_js_.go`: trees to template text | `JsParser` |
| `JsSources` | sources, and what becomes of them | `JsExpr` |
| `MCPugEngine`, `MCPugServer`, `MCPugArray`, `MCTplExec`, `MCTplParse`, `MCJsSources` | values for constants | the module they name |

### PugEngine

A goroutine is a process: a request (`Requests`), a startup process
(`Preloads`) or a call of the debug route (`Debuggers`). `pc` is where it is; a
label ends where another goroutine can observe what was done.

| Label | Code | Actions |
|---|---|---|
| `idle` | no call | `Render`, `Preload`, `DebugGet` begin one |
| `limit` | the `select` on the context and `ratelimit` | `TakeSlot`, `WaitFailed` |
| `check` | `Debug \|\| templatesLoaded == 0`, no lock held | `CheckLoaded` |
| `lock`, `locked` | `e.Lock()`: announce, then wait for the readers; `CompareAndSwap` | `LockTemplates`, `StartLoad`, `RefuseLoad` |
| `open`, `compile` | `compileDir` | `OpenDir`, `OpenDirFails`, `CompileFile`, `ParseFails`, `TemplateFails`, `CompilePanics`, `Publish` |
| `webpack` | the check of port 1337, then the deferred `Unlock` | `LeaveLoad` |
| `rlock`, `read` | the lookup | `RLockTemplates`, `Lookup` |
| `exec`, `assetLock`, `assetRead`, `tail` | `ExecuteTemplate` with a call of `asset()` | `Execute`, `CallAsset`, `RLockAsset`, `ReadAsset` |
| `release` | the deferred receive from `ratelimit`, then the next partial | `ReleaseSlot` |
| `code` | `DebugController.Get` behind its load | `ReadCode`, `ConcurrentMapAccess` |

`templates`, `TemplateCode`, `templatesLoaded` and `Webpackserver` are the fields
of that name; `slots` is `len(ratelimit)`. The RWMutex is modelled by what its
implementation does: a writer that has announced itself (`writer`) lets no new
reader in, readers that come later are `blocked`, `Unlock` hands the lock to
them. A template is the version of the file it was compiled from, so stale and
missing templates can be told apart. A file is `good`, `dangling` (it calls a
mixin nobody defines: an error in debug mode, a warning in production),
`corrupt` (no JSON), `invalid` (does not become a template), `panics` (the
compiler panics) or `absent`. `got`, `ret`, `since` and `todo`, `result` are
locals or history. The environment edits files, moves the template directory
away and starts the process again after it died. `ExecuteTemplate`'s error
branch (`engine.go:381-391`) is not an action: execution errors are panics
(the one `recover`, of `walkTry`, serves templates only) and a template in the map always finds itself,
so no execution returns an error.

### PugStartup and Readiness

`task` are the goroutines of the errgroup, `groupErr` its first error,
`finisher` the goroutine of `Finish` by what it does next (wait, send, close
`done`, close the channel), `receiver` the goroutine of `Notify`. The send
needs a receiver: the channel has no buffer. `Readiness` says only: tasks are
added until the startup is closed, they return, and the module becomes ready
after all that. `PugStartup` implements it with `pending <- Running`,
`closed <- finisher # "none"`, `ready <- done`.

### PugServer

The engine and the startup share the process (`alive`/`up`) and meet in three
places: `AreaRouted` (`AddProcess` with `LoadTemplates("")`), `PreloadReturns`
(the result of the load becomes the result of the task) and `Restart`.
`HandleRequest` is enabled once `ServerStart` has called `Finish`: the server
listens after it dispatched that event, which does not wait for the preload.

### PugArray and JsArrays

`memory` are the backing arrays, `items[a]` the slice header of an array
(backing array, offset, length). `append` (push, unshift) writes in place while
there is capacity and otherwise moves to a new backing array of twice the
capacity; shift, splice and slice cut windows; sort works in place. Backing
arrays nobody points to are reused. A call that panics (pop of an empty array,
an index out of range) ends the render and is no step. `JsArrays` has one
operator per call: what it does to the contents of its own array and to the one
it returns, as the summary in Readme.md, the comments in `types.go` and its tests say
(of slice, where document and test differ, the test). `ActsOnSequence` compares each step of `PugArray` with the operator of
that name. Results that are no arrays are left out. That *other* arrays change too, because they share memory, is what
the code does; `MCPugArray` gives TLC a view in which states that differ only in
the names of backing arrays, or in cells no array shows, are the same.

### TplExec

A file (`body`) is, per template, a sequence of instructions, one for each kind
of node the pug nodes render: an action that prints, `{{ $x := v }}`, `if`, `range`
over a value or a condition (while), try and catch, an assignment to a key of a
map, a for-in loop, a call of a mixin with or without a block, and
`{{ template $block }}`. `stack` are the walk functions in progress with what is left
of their lists; `states` are the `state` objects with `boundBlocks`, `vars` and
`depth`; `arrays` and `bindings` are the backing arrays of those two slices.
`Appended` and `Removed` are Go's `append` for pushing and for taking an
entry out: both work on memory that the copies of a state share. `map` is one `Map`
object, its keys and its order. A panic (`Panic`) unwinds to the nearest `try`,
whose catch walks in the state of the try, or ends the execution.

Values are only stored and looked up; an evaluation may panic (`Fails`), a
condition has either outcome. `env`, `user`, `first` and `mine` of a state and `scopes` are
history: which invocation declared the variables a state sees, whose block it
walks, and what a template has assigned and nobody it shares its variables with
has assigned since. `Instructions` names the instructions files are made of; only the
assumptions use it.

### TplLex and TplParse

`TplLex` is the lexer goroutine. `lexState` is the state function that runs,
`sending` that it waits in `emit`. The text is not a value of the model: what
comes next in it is chosen at the moment the parser takes the item (one action per
kind of element a state function can find), so that a run goes
through all texts up to its bound.

`TplParse` unfolds the recursive descent: `open` is the stack of lists that wait
for their `{{end}}` (file, if, else, range, with, define, block, try, catch), `pipes`
the pipelines that parentheses nest, `at` the place in the code that looks at the
next token, `held` what `next` returned and may be put back. Each `Tree` of
`trees` has its own three tokens of look-ahead (`token`, `peekCount`); all read the one
lexer. `Receive` is `nextItem`, `SkipSpace` the loop of the functions that skip spaces;
the other actions are what the code does with the token, one per production and
error. `errorf` ends the descent (`Stop`): it fails, or a runtime error of its
own comes in between, because it cuts the place of the error out of the text with
a position the lexer moves (`PosMoves`). `Recover` is `recover`, which drains the
channel before `Parse` returns the error; after a runtime error it panics again at once.
Of syntax trees only what `add` and `IsEmptyTree` ask is kept: whether
the list is blank, has content, or has a node `IsEmptyTree` panics for.

### JsParser, JsExpr and JsSources

A source is a sequence of lexemes: words, punctuation and `NL`, a line end. Each
function of otto's parser is an operator from a parser record (`tok`, `pos`,
`insert`, `implicit`, `scopes`, `recover`, `error`) to such a record, which
leaves the node in `val`; the operators recurse as the functions do, so these
modules are for TLC alone. `JsExpr` renders trees to words (a parenthesis is one
word with words in it) and statements to chunks (an action between braces, or
text). `JsSources` writes a source lexeme by lexeme and has each one read as a
script (`StrToStatements`) and as a value (`FuncToStatements`, which puts
`(function(){ return ... })` around it). A source is not continued when both readings have met
their first error inside it: the parser had read no further, so a longer source
has the same error. What only lacks its end has its error there. So has a regular
expression without its last slash: the code reports it at the first slash, but has read to
the end of the line, and that is what the model counts.

A slash where an operand is due begins a regular expression: `InBrackets` and `ScanRegExp` are the
loops of `scanString` (a slash in a class does not end it, the end of the line does),
`ValidPattern` is what the translation accepts (groups that close, nothing repeated twice),
and the node keeps pattern and flags. Escapes are left out.

## The runs

| Run | Instance | Shows |
|---|---|---|
| `engine_prod` | production, 2 requests, 1 preload, a template with a partial, limit 1, files good/dangling/absent, webpack check; 183 000 states (symmetry) | `TypeOK`, `PublishedComplete`, `LoadedAtLookup`, `LoadsOnce` |
| `engine_debug` | debug mode, 2 requests, the debug page, limit 2, files good/dangling/panics, 1 edit; 4.1 million states (symmetry) | `ServesFresh`, `SlotsAccounted`, `LoadsAlone` |
| `engine_live` | production, 2 requests, limit 1, one file that may be corrupt, a directory that may vanish, 3 changes; fair; 48 000 states | `CallsEnd`, `Recovers` |
| `server` | 1 request, 1 preload, 2 files good/corrupt/panics, 1 edit; fair; 63 000 states | `ReadyMeansLoaded`, `ReadyEndsLoading`, `ReadyOrDead`, `PreloadFailureIsFatal` |
| `startup` | 3 processes; fair; 371 states | `ReadyIsLast`, `StartupEnds`, `FailureIsFatal`, `Implements` |
| `array` | 2 arrays, 2 values, length up to 4; 56 000 states (view) | `TypeOK`, `ActsOnSequence` |
| `mixin_scope` | 1433 files: a page, two mixins, two blocks, with ifs, loops, exceptions and a map, whose literal may name a key twice; 167 000 states | `TypeOK`, `BlockScope`, `KeepsValues`, `Isolated`, `RenderEnds`, `EachKeyWalked` |
| `tpl_parse` | every text of one action with six items, two with four, or three with three; 838 000 states | `TypeOK`, `InOrder`, `LexerDone`, `DefinedOnce`, and that neither goroutine waits for ever |
| `js` | sixteen families of sources: a beginning and every continuation of four to six lexemes; 167 000 states | `NothingLost`, `JumpsLegal`, `Precedence`, `OneValue`, `Compiles`, `SameNames` |
| `engine_on_demand`, `server_dies`, `mixin_depth` | small | one disagreement each, see [below](#where-code-and-documentation-disagree) |

**Bounds and why they are enough.** *Engine*: two requests and a loader are what
the races need: one that acts between the two steps of another. Two names, one
the prefix of the other, are what a filter can tell apart (`strings.HasPrefix`
makes `home` select `home/x`). A limit of one makes every wait for a slot
happen, two lets two renders run at a time. `MaxEdits` bounds how often the
disk changes: one edit before, in or after any step of a call decides
freshness, three allow break, repair and break again. `MaxPartials` is one: two
renders in a row. Requests are interchangeable, which `engine_prod` and
`engine_debug` use; runs with liveness use no symmetry.

*Arrays*: two headers on arrays of length four reach every pair of shared
windows, in front of, inside and behind each other, with and without spare
capacity; a third header adds no new pair. `Blocks` has one backing array more
than there are arrays, for the moment of the move.

*Executor*: `MaxExecDepth` is 5 instead of 100000 and `MaxIterations` 3 instead of
10000; both limits are reached. `MaxStack` only keeps `mixin_depth` finite, no state
of `mixin_scope` reaches it. `RenderEnds` speaks of these files: `mixin_depth` has one
that does not end. The files come in four groups: who walks which
block (`MCScopes`, with calls of a mixin that no file defines and a mixin that
calls itself), who sets which variable (`MCVariables`), loops, conditions and
exceptions in one another (`MCControl`), and loops over a map that is assigned to
(`MCMapLoops`; `MCMaps` are literals with keys, with a key twice and with none, and
data without an order). A call that stands twice stands for a loop of two rounds, `May` for
a condition around it. Two rounds make a slice grow past a capacity and reuse
the memory behind it; that is where the sharing shows.

*Template parser*: `MaxItems` are the items between `{{` and `}}`, per action. Six items
are what the longest look-ahead needs (`{{range $x, $x := .}}`, three tokens put
back); two actions open and close a list or hand a token over to the `Tree` of a
`define`; three open, part and close one.

*JavaScript*: each family has the lexemes of one part of the grammar and lengths
at which its longest construct fits; the beginnings (`switch(a){`,
`a:while(1)function b(){`, `try{`) stand for what has to come before.

*Server*: one request and one preload meet in every order; files that cannot be read
or that make the compiler panic let the preload, or a load of the request before it,
fail in each way. `ReadyMeansLoaded` and `ReadyEndsLoading` speak of a startup
without a failed task; what can be seen between a failure and the end of the process is
[below](#where-code-and-documentation-disagree).

**Deadlock** is checked in the engine, the server, the arrays, `mixin_scope` and
`tpl_parse`, where the last state has a step of its own that changes nothing
(`Returned`, `Done`). The startup ends and a source ends; `CHECK_DEADLOCK FALSE` stands in
`startup`, `js` and `mixin_depth`.

**Fairness.** Weak fairness of every goroutine's steps is the Go scheduler.
`TakeSlot` and `LockTemplates` are strongly fair: a Go channel and `sync.RWMutex`
serve their waiters in order, so nobody is overtaken for ever. Requests, edits
and failing contexts are not fair. `LeaveLoad` is fair although `http.Get` has no
timeout: that the call on port 1337 ends is an assumption (a hazard without a
property). Startup functions return because `LoadTemplates` does. In `PugServer`
the framework dispatches its two events.
`RenderEnds` needs no fairness: it says that no execution takes steps for ever,
and that none is stuck is the absence of deadlock.

Every property of a passing run has a mutant of the modelled code (a dropped
guard, a skipped defer, a lock taken at once, an entry that is not moved, a flag
that is not restored) that violates it.

## The proofs

| Theorem | Says | Assumes |
|---|---|---|
| `PugEngine_proofs!TypeCorrect` | `Spec => []TypeOK` | |
| `LoadsRunAlone` | `Spec => []LoadsAlone` | |
| `SlotsNeverLeak` | `Spec => []SlotsAccounted` | |
| `ProductionLoadsOnce` | `Spec => LoadsOnce` | production, no debug page |
| `ProductionComplete` | `Spec => []PublishedComplete` | production, no debug page, no file that makes the compiler panic |
| `ProductionLoaded` | `Spec => []LoadedAtLookup` | production, no debug page, the directory stays, files good or dangling (or absent, if nothing is edited) |
| `DebugServesFresh` | `Spec => []ServesFresh` | debug mode |
| `ReadyComesLast` | `Spec => []ReadyIsLast` | |
| `StartupImplementsReadiness` | `Spec => Implements` | |
| `ReadyIsLoaded` | `Spec => []ReadyMeansLoaded` | as `ProductionComplete`, and there is a preload |
| `ReadyStopsLoading` | `Spec => ReadyEndsLoading` | the same |
| `PugArray_proofs!TypeCorrect` | `Spec => []TypeOK` | |
| `CallsActOnSequence` | `Spec => ActsOnSequence` | |
| `LexerIsDone` | `Spec => []LexerDone` | |
| `DefinitionsStay` | `Spec => DefinedOnce` | |
| `TokensInOrder` | `Spec => []InOrder` | |
| `TplOrder_proofs!TypeCorrect` | `Spec => []TypeOK` | |
| `TplExec_proofs!TypeCorrect` | `Spec => []TypeOK` | |
| `ScopesIsolated` | `Spec => Isolated` | |
| `EveryKeyWalked` | `Spec => EachKeyWalked` | |
| `BlocksScoped` | `Spec /\ []Orderly => []BlockScope` | `Orderly`, all along |
| `ValuesKept` | `Spec /\ []Orderly => []KeepsValues` | `Orderly`, all along |
| `OneAuthorOrderly` | `Spec /\ []OneAuthor => [](Orderly /\ BlockScope /\ KeepsValues)` | every block is passed by one state |

They hold for any number of goroutines and names, any limit, any values and
lengths of arrays, texts of any length, and files of any size. The assumptions on constants are the
named `ASSUME`s of the modules: kinds of goroutines are disjoint, there are
finitely many requests, the nulls are no values, values of arrays are numbers
(for sort), words and signs have the token types the lexer knows, a file is
made of lists of instructions and has a main template, the globals are a list,
the order of a map, where it has one, names its keys (`MapsType`; a literal may name a key more
than once), the order of strings is one (`BeforeType`), and no file writes or reads `$block`
but by a call and `{{ template $block }}` (`BlockVariable`): the compiler makes that name, and
a page that calls a variable of its own `block` is left out.

*Types* of the engine are proved with `CallsOK`: each goroutine runs the code of
its kind of call, and a `Render` past its beginning has a name. That is needed
because `Lookup` and the partials index maps by `tpl[p]`.

*The lock*: `LoadsAlone` is not inductive; `LockOK` is. It ties the program
counters to the owner, to the readers and to those that wait: whoever is past
`Lock` is the writer, the readers are those at `read` and `assetRead`, and
nobody waits when there is no writer. Uniqueness of the writer then gives
`LoadsAlone`.

*Slots*: `SlotsAccounted` is inductive with the types. Each action adds one
process to `Owners`, removes one, or leaves the set alone; the cardinality
lemmas of the library do the counting. `OwnersFinite` is where finiteness of
`Requests` is used.

*Completeness*: `ProductionInv` says with `LoadOK` that a load under way has set
the flag, and that what it has compiled and what it still has to compile are
together every good file. Without debug page and in production every filter is
the empty one (`FullLoads`), so `Publish` puts a complete set in place, and a
failing load takes the flag back before it lets the lock go. The assumption on
panics is needed: a panic in the compiler skips the reset, and the flag then
says "loaded" for ever. `ProductionLoadsOnce` is an action property and follows from
`FullLoads`: with the flag set and nobody inside, `CompareAndSwap` fails for the
empty filter, and all filters are empty; so no load begins at all.

*Lookup*: `LoadedAtLookup` speaks of a request that read the flag outside the
lock. `HealthyInv` adds to `ProductionInv` that a request on its way to the read lock
saw the flag, which over files that can be loaded is never taken back, so the
load that set it is over when the request has the lock.

*Freshness*: `FreshInv` compares three versions: the one the file has now, the
one it had when the call began (`since`), and the one in a map. A load compiles
what is on the disk, so what it has compiled is no older than its own
beginning (`ResultsOK`); between the load of a call and its lookup others may
replace the map, but only by loads that end later, with files that are newer
still (`AgesOK`, `FreshOK`).

*Startup*: the invariant `IInv` relates the goroutine of `Finish` to the group:
past the wait nothing runs and nothing new is added, and past the send of an
error the receiver has it. The refinement uses the same invariant: `CloseDone`
is `BecomeReady`, `Succeed` and `Fail` are `Return`, everything behind the wait
that is not `CloseDone` stutters.

*Composition*: `ReadyInv` takes the invariants of both components, proved step by
step with `PugEngine_proofs` under a name, and adds what only the composition
knows: a task of the group runs as long as its preload does (`TasksOK`), and behind
the wait every preload has returned (`FinishOK`). With at least one preload that
means a full load; without one the server is ready with nothing loaded. The error of a task that
failed is known to the group before `done` is closed; so while the group knows of none, each preload
has returned without one, and what it left is complete by `ProductionInv`. Loads of requests may
have failed before.

*Arrays*: `IInv` says that each header is a window of a backing array that is
not empty. What a call does to its own contents is then arithmetic on windows,
one lemma per call; `append` has a case for room and one for the move. Sort is a
rearrangement by a bijection, which leaves the number of occurrences as it is
(`SameCardinality`, `ReorderedSame`).

*Template parser*: `LexerDone` has to be shown at the two ends of `Parse`. After
an error it is the guard of `Recover`. After success it follows from the `EOF` token:
`IInv` says that a `Tree` holds `EOF` only when the lexer has sent its last item,
that tokens waiting to be put back are never `EOF`, and that as long as the
parser runs there is a `Tree` (the stack `open` and the number of `define`s and
blocks in it, `Depth`, say how many). `DefinitionsStay` is an action property of `Add` and
follows from `IsEmptyTree`.

*Order of the tokens*: `OInv` says for each place the parser is at (`at`) how many
tokens may be put back and which (`Counted`), that they and those a function holds
in its locals are the last ones of the lexer (`Numbered`, `Holds`), and what
state the lexer is in behind each of them (`Lexed`): a function that puts back three
tokens is right only because the lexer sends what it does in that state. What
`InOrder` says of the `Tree`s that a `define` or a block left behind cannot be shown
from that alone. A block begins a new `Tree` in the middle of a pipeline's end, and
if the token that ended it was a right parenthesis, this token stays behind in
the old `Tree`. The text is then refused, but for a reason in the lexer:
at that point no parenthesis is open, and its next item is the error. So the invariant has to know that `parenDepth` is the
number of parentheses the parser is in (`Parens`), and that the next thing it
meets after such a block is the lexer's error (`Suspended`).

*Types of the parser*: the part of `TypeOK` that could be wrong is `popVars`, which cuts
`t.vars` at a length remembered when the list was opened, while `useVar`, declarations,
else-ifs and parentheses change it in between, and lists of several `Tree`s
lie on one stack. `Fits` maps each list to its `Tree` and says: none remembers more
variables than its `Tree` has now, and of two lists of a `Tree` the inner one
remembers at least as many, if its end cuts. With the first part alone a cut
would break the invariant for the lists around it.

*Executor*: `IInv` says that every state is `Fine`: its slices are windows of
existing arrays, what it has frozen are existing states, its scope exists; and
that states of different scopes have their variables in different arrays
(`Apart`). `TypeOK` is not inductive, because a frozen entry is read from an array that
other states append to and remove from, in place; so the proof has to say of the cells
a step writes, also behind the windows, that they get entries of existing states (`Moved`).
`Isolated` needs `Apart`: `append` writes in the array of the scope that is
walked or moves to a new one (`Written`), a call of a mixin copies the globals to a
new array, and a block goes on in the array of its author, whose scope it has.
A panic assigns the exception in the scope of the `try`, which is on top
afterwards (`Keeps`, `Aside`).

*Maps*: `MapOK` says that the order, where there is one, names the keys of the map and no others, and that all
keys have a place among the strings. Then `Members` is the order itself: the prefixes
of the order satisfy the recursive equation, and two functions that do cannot differ first anywhere.
What `CHOOSE` sorts exists: the number of smaller keys says where each belongs. A key that the
order has twice was twice in the literal: an assignment appends only a key that is new, and
that makes no other key a repeated one (`NamingMore`); sorting repeats none (`EnumerationRepeats`).

*Blocks*: `BInv` is about the walk calls in progress, from the page up to the one on top
(`View`: in which state, in which scope, with which slice of blocks). `Called`: below a call in a
scope that somebody opened lies a call of that giver, and all in between are
in later scopes. `Rising`: above a mixin that has not used its block there are only later
scopes. `OwnNames`: a mixin that waits is the latest with a block of that name.
`Holding` is the core: every walk call above a mixin that waits has, in its slice, the
entry of that block, and behind it none of the same name for another state; and
since slices of different lengths lie in one array, that is said for each pair of
them, up to the length of the longer one. So whichever of them takes an entry out, and moves
those behind it for all of them, another name is what goes (`HeldStill`, `RemovingBlocks`),
and what is appended over the end of a shorter slice has another name as well
(`FreezingBlocks`). The mixin looks for the name in its `$block`, and `NamedIn` says that it
is the name its caller passed, wherever the variables have moved. `FirstFound` then gives
`BlockScope`.

*Values*: `KInv` is about the states that walk (`On`). `Keeping` is `KeepsValues` in terms of the
last entry of a name (`Has`). It is not inductive: `append` writes behind the end
of a slice, where another state with the same array may have a variable. So `Growing` says that of two
states that walk and share an array the later one sees as much of it, or more, and
`Layered` that walk calls are in later states the higher they are. Then the state on top,
the only one that assigns, sees all that the others see of its array: what it
pushes is behind the end of all of them, and what it writes in place is a name it assigns, which the
states of its scope forget (`Tells`, `StoringSaved`). A panic goes back to a state that is the last one of those
that are left. A template that is called has an array of its own. A block has the variables
of who gave it, not those of the top, and this is the step that needs `BInv`: the states up to
its giver see no more of the array than the giver does, and `Called` puts the
states above him in later scopes, with other arrays (`UseBlockKeeps`).

`Orderly` is a condition on the execution, and it is needed. Its first part says that no block
is frozen while a mixin that was given one of this name still has to use it: a
mixin that reaches itself with a block finds its own, later entry. Its second part says
that a second use of a block does not find an entry of somebody else.
`OneAuthorOrderly` derives both from a condition that speaks of calls alone, `OneAuthor`: a state
passes a block only if no other state has ever given one of this name to a scope, or left one
in a slice (a call that fails freezes its block and opens no scope). The block may be passed many
times, in a loop or by several calls, its mixin may use it any number of times, and
mixins may call themselves without a block; what the condition excludes is a template that passes a
block and is walked by two states. Its invariant is `AInv`:
all that is frozen of a block, in the slice of any state, is from the state that gave it
(`Authored`). An entry that is found is then the giver's, at every use. And no state freezes a block while
a mixin waits for it: by `Called` the mixin is above a walk call of that state,
by `Layered` all between this call and the top are in the same state, and then the mixin
would be in the scope of its giver, where `ScopesOK` puts it in a later one (`AuthorOrderly`).
`OneAuthor` is sufficient, not necessary: a mixin that passes a block and is called twice, one
call after the other, can be orderly and violate it.
`BlockScope` itself holds in more cases: TLC finds it true in all states of
`mixin_scope`, 168 of which are not orderly.

*Sequences*: the stacks of these models hold records without a common type.
`SeqFacts` states for them what append, cutting, replacing the last one and joining give;
the lemmas of the library need a set of elements.

**Only model-checked**: everything under fairness (`CallsEnd`, `Recovers`,
`StartupEnds`, `FailureIsFatal`, `ReadyOrDead`, `PreloadFailureIsFatal`) and
`RenderEnds`, which are out of the prover's reach. `BlockScope` and `KeepsValues` in executions
that are not `Orderly`, where they do not hold for every file: a second use of a block can run it in
another scope, and overwrite there what an invocation further out assigned. Everything about
JavaScript, whose operators are recursive.

## Where code and documentation disagree

With a run:

- `engine_on_demand`: two renders of different pages in debug mode; one of them
  answers "not found" because the other one replaced the map between load and
  lookup (`engine.go:357`, Readme.md:293).
- `server_dies`: a request that overtakes the preload loads the templates, the
  preload is refused, and the refusal is a startup error: the process ends
  although all templates are good (`engine.go:203`, Readme.md:285-286).
- `mixin_depth`: a recursive mixin that passes its block on runs without the
  limit of `maxExecDepth`: the block is found by name, finds itself, and the
  depth comes from the frozen scope (`tpl_exec.go:482`, comment at 23-26).

Seen while modelling, without a run.

*Engine and startup:*

- The debug page works in production too and replaces all templates by those of
  its filter; the flag is set and no request loads the others (`debug.go:40`,
  Readme.md:285).
- A request that read the flag as unset and lost the race for the lock is
  answered "Can not preload all templates again" (`engine.go:204`); Readme.md:285
  says requests are blocked until loading has finished. A request that read
  the flag as set while a load runs that then fails finds an empty map
  (`engine.go:364`).
- After a failed preload `done` is closed before the receiver's panic ends the
  process: for that moment the ready endpoint answers 200 with nothing
  loaded, and a request that waited loads again (`startup.go:40`; Readme.md:290 promises
  200 only if loading has finished). `ReadyMeansLoaded` and `ReadyEndsLoading` speak of
  startups without such a failure.
- `Finish` without a receiver never becomes ready after a failure
  (`startup.go:37`); `Notify` always starts one.

*Objects:*

- `splice` and `slice` share memory with their array (`types.go:275`), which
  JavaScript's do not (Readme.md:101, 137). `slice(n)` returns the elements from n on
  (`types.go:283`), as `TestArray_Slice` expects; Readme.md:138 has those before n. `push` returns null, Readme.md:135 says the array.
- The Readme documents `keys()`, `assign()` and `hasMember()` of objects;
  `Map.Member` knows `__assign` only (`types.go:539`). A struct field `ID`
  becomes the key `iD`, which `.id` does not find.
- Partials are looked for in `<template>.partial/` (`engine.go:298`),
  Readme.md:250 says `.partials/`.
- Unescaped attribute values that do not start with `"` are dropped, an empty one
  panics (`runtime.go:236`). A key that occurs twice in an object literal is
  walked twice (`runtime.go:127-130`; `EachKeyWalked` allows it for such keys only), and an empty
  literal never gets an order.

*Executor:*

- A second `{{ block }}` in one mixin invocation runs with the globals only, or,
  when a loop has frozen the same block again, in an older scope: `BlockScope`
  speaks of the first use. In a mixin that calls itself the second use finds
  the block of an outer invocation.
- A mixin that uses its block twice can take away the block of another one, without any
  recursion (`tpl_exec.go:483`). A page calls `list2` with a block; `list2` calls `list`
  with a block of its own, then uses the one it was given; `list` passes a block `c`
  on to `card`, which uses it twice, and `c` calls mixins with blocks in turn. The slices of all
  of them lie in one array once the page has made it large enough, and the second use
  takes an entry out below the end of another slice: `list2` does not find its block, and
  this block runs with the globals only. TLC shows it for a page that has called a dozen
  mixins with blocks. The files of `mixin_scope` are too small for it, and
  `BlocksScoped` excludes it by the second part of `Orderly`.
- What a block assigns is lost for its author once `append` has moved the
  variables to a new array, and seen by him before: it depends on how many
  variables there are.
- `each x in x` walks nothing, because the variable hides its source; an `each`
  over nothing leaves its variable set to the whole list.
- While loops run 10001 times before they fail (`tpl_exec.go:430`).
- A recursive mixin whose `try` catches the error of the depth leaves a frozen
  entry behind; a block that uses it starts one deeper than `maxExecDepth`, and
  the test for equality never holds again (`tpl_exec.go:472`).

*Template parser:*

- `errorf` reads `lex.pos` while the lexer writes it (`parse.go:160`). After a
  runtime error `recover` panics again before it drains: the lexer may wait for
  good.
- `{{catch}}` may end the first list of if, range and with, and is accepted at
  the top; it takes any two tokens behind it. A `try` without `catch` and
  "unknown node" are panics with a string, at which `recover`'s type assertion
  panics again. `useVar` defines a variable that is not defined.

*JavaScript:*

- The value `a });({` ends the function put around it. It is accepted, and what
  follows is dropped without an error (`transform_js_.go:66-71`). On one line and without a
  semicolon this cannot happen: `OneValue`.
- A `switch` may end without its brace; the keys of an object may be
  punctuation and its commas may be missing; relational operators group from
  the right; a line end after the first token of a value ends it.
- The compiler renders null operands as nothing and has no functions for
  `instanceof`, `in`, `typeof` and `void`; `a.b += 1` becomes a plain assignment, `a += 1` a text that is read and fails when it is executed,
  `a[0] = c` renders `c`, `a.b[0] = c` a variable `$$a.b`, `for (var x in y)`
  declares its variable with null, `a, b` prints the text of a call, `--` does not assign. `?:`,
  `&&` and `||` evaluate both branches. `Supported` of `JsSources` lists what is left:
  `Compiles` speaks of that.

## What is not modelled

- *Compiler*: how tags, attributes and texts are written is formatting. What a
  file's compilation can end in is in `PugEngine`; the text of each, while, if,
  try, mixins and blocks is what the instructions of `TplExec` stand for; that of
  expressions is in `JsExpr`. Interpolation (`${...}`) rewrites strings.
- *JavaScript parser*: how characters become tokens, comments and their map,
  source maps, escapes in regular expressions and the translation of those that are accepted.
- *Objects*: `String`, `Number` and the functions of arrays that only read are
  functions of their arguments. The six spellings of a member name
  (`types.go:539`) and the conversion of structs are data.
- *Runtime functions, functions for templates* (`runtime.go`,
  `templatefunctions/`): pure functions, but for `asset()` (in `PugEngine`) and the
  package variable `debug()` writes, which only sets the depth of a print.
- *Template sets and escapers* (`tpl.go`, `tpl_funcs.go`): a fork of
  `text/template`'s tables, fixed after parsing, and string rewriting.
- *Template check* (`puganalyse/`): a sequential walk over files that writes a
  report.
- *Wiring*: static asset handlers, the proxy to webpack, CORS headers and
  configuration are I/O. `Assetrewrites` does not influence control. Logging
  and tracing are left out.

An evaluation that panics, in any of these functions, is `Fails` of `TplExec` and an
end of `Execute` in `PugEngine`. Hazards that no property covers have a note
in `PROJECT.json`: the HTTP call without a timeout (`engine.go:222`), the three
boundary cases of pure functions, the data races of `debug()` and `errorf`.

## The plan

What could follow:

1. The call structure of the files as an assumption on `Programs`, from which `Orderly`
   or `OneAuthor` follows as an invariant: the mixins that a template can reach are a relation.
2. The spellings of a `Map`'s members, as keys with a relation "is found under".
3. The comparison operators and the merging of attributes as operators, against
   tables of what JavaScript and pug say.
