------------------------------- MODULE TplExec -------------------------------
(***************************************************************************)
(* The execution of a template text: the walk functions of                 *)
(* pugjs/tpl_exec.go, the variables they keep, and mixins with the blocks  *)
(* that are passed to them.                                                *)
(*                                                                         *)
(* A call "+m" with a block becomes {{ __freeze "b" }}{{ template "m" }}:  *)
(* the name b and a pointer to the caller's state are appended to the      *)
(* caller's boundBlocks.  The mixin, and every template below it, starts   *)
(* with a copy of that slice.  {{ template $block }} looks its name up     *)
(* there, goes on in a copy of the state it was frozen with, and takes the *)
(* entry out of the slice.  The copies of a state share the backing arrays *)
(* of boundBlocks and of vars: what one appends, moves or overwrites can   *)
(* show in another.                                                        *)
(*                                                                         *)
(* Data is abstract: a condition has either outcome, an evaluation may     *)
(* panic, and a value is only stored and looked up.                        *)
(***************************************************************************)
EXTENDS Integers, Sequences, FiniteSets, SequencesExt

CONSTANTS
    Main,          \* the template of the page
    Instructions,  \* all that the files are made of
    Programs,      \* files: the instructions of Main, the mixins and the blocks
    Globals,       \* the variables of the data, and $global
    Items,         \* the elements of every array that a range goes through
    TheMap,        \* the Map object of the page: a literal or data
    Maps,          \* what TheMap is at first
    Before(_, _),  \* the order of the keys as strings
    Exception,     \* what recover returns
    Index,         \* an index or a key, any one
    Null,          \* the zero value: no value, or null
    MaxExecDepth,  \* maxExecDepth
    MaxIterations, \* the 10000 iterations of a while loop
    MaxStack       \* bound: walk calls in progress at a time

ASSUME BoundsType == {MaxExecDepth, MaxIterations, MaxStack} \subseteq Nat

\* A template is a list of instructions, which have names and lists in turn.
ASSUME ProgramsType ==
    /\ \A i \in Instructions :
          i.vars \in Seq(STRING) /\ {i.list, i.else} \subseteq Seq(Instructions)
    /\ \A p \in Programs : Main \in DOMAIN p
    /\ UNION {Range(p) : p \in Programs} \subseteq Seq(Instructions)
ASSUME GlobalsType == Globals \in Seq(ToSet(Globals))

\* Only a call gives $block a value, and only a block reads it.
Writing == {"set", "try", "range", "forin"}
ASSUME BlockVariable ==
    /\ \A i \in Instructions :
          /\ i.op = "block" => i.vars = <<"$block">>
          /\ i.op \in Writing => i.vars # <<>> /\ "$block" \notin ToSet(i.vars)
    /\ "$block" \notin {g.name : g \in ToSet(Globals)} \cup {Null}
    /\ \A p \in Programs : Null \notin DOMAIN p

\* A map is finite, and where it has an order, its keys are those in the
\* order.  A literal can name a key twice, which is then twice in the order.
ASSUME MapsType ==
    \A m \in Maps : /\ IsFiniteSet(m.keys) /\ m.order \in Seq(m.keys)
                    /\ m.order # <<>> => ToSet(m.order) = m.keys
\* Strings have one order.
Keys == (UNION {m.keys : m \in Maps}) \cup {i.value : i \in {j \in Instructions : j.op = "put"}}
ASSUME BeforeType ==
    /\ \A j, k \in Keys : Before(j, k) \in BOOLEAN /\ (Before(j, k) <=> j # k /\ ~Before(k, j))
    /\ \A i, j, k \in Keys : Before(i, j) /\ Before(j, k) => Before(i, k)

\* The instructions of a template, as the pug nodes render them: an action
\* that prints, {{ $x := v }}, if, range, a range over a condition, try, an
\* assignment to a key of TheMap, a range over its keys, a call of a mixin
\* with a block or without, and {{ template $block }}.  The source of a range
\* is a value or the name of a variable.
Nothing == [op |-> "print", vars |-> <<>>, value |-> Null, list |-> <<>>, else |-> <<>>]
Show == Nothing
Set(x, v) == [Nothing EXCEPT !.op = "set", !.vars = <<x>>, !.value = v]
If(list, else) == [Nothing EXCEPT !.op = "if", !.list = list, !.else = else]
Each(xs, v, list) == [Nothing EXCEPT !.op = "range", !.vars = xs, !.value = v, !.list = list]
While(list) == [Nothing EXCEPT !.op = "while", !.list = list]
Try(list, x, catch) == [Nothing EXCEPT !.op = "try", !.vars = <<x>>, !.list = list, !.else = catch]
Put(k) == [Nothing EXCEPT !.op = "put", !.value = k]
ForIn(x, list) == [Nothing EXCEPT !.op = "forin", !.vars = <<x>>, !.list = list]
Call(m, b) == [Nothing EXCEPT !.op = "call", !.vars = <<m>>, !.value = b]
Block == [Nothing EXCEPT !.op = "block", !.vars = <<"$block">>]

VARIABLES
    body,     \* the file that is executed
    stack,    \* walk calls in progress: which state walks which instructions
    states,   \* the state objects made so far
    scopes,   \* history: the states that start with variables of their own
    arrays,   \* backing arrays of boundBlocks
    bindings, \* backing arrays of vars
    map       \* the keys of TheMap, and their order when it has one


vars == <<body, stack, states, scopes, arrays, bindings, map>>

-----------------------------------------------------------------------------
(* Go slices: a window of a backing array.                                 *)

NoSlice == [arr |-> 0, len |-> 0]
NoEntry == [name |-> Null, scope |-> 0]
Unbound == [name |-> Null, value |-> Null]

Cap(heap, s) == IF s.arr = 0 THEN 0 ELSE Len(heap[s.arr])
Window(heap, s) == IF s.len = 0 THEN <<>> ELSE SubSeq(heap[s.arr], 1, s.len)

\* The capacity after appending up to n entries one by one: it doubles.
Doubled(c, n) == CASE n <= c -> c [] c < n /\ n <= 2 * c -> 2 * c [] 2 * c < n /\ n <= 4 * c -> 4 * c [] OTHER -> n

\* append: in place while there is room, then in a new array
Appended(heap, s, xs, empty) ==
    LET n == s.len + Len(xs)
        written == [i \in DOMAIN heap |->
                      IF i # s.arr THEN heap[i]
                      ELSE [j \in DOMAIN heap[i] |->
                              IF s.len < j /\ j <= n THEN xs[j - s.len] ELSE heap[i][j]]]
    IN  IF n <= Cap(heap, s)
        THEN [heap |-> written, slice |-> [s EXCEPT !.len = n]]
        ELSE [heap |-> Append(written, Window(heap, s) \o xs \o
                                [i \in 1 .. Doubled(Cap(heap, s), n) - n |-> empty]),
              slice |-> [arr |-> Len(heap) + 1, len |-> n]]

\* faulty: what is left over behind the slice is cleared, as slices.Delete does
RemovedAndCleared(heap, s, i) ==
    [heap |-> [heap EXCEPT ![s.arr] =
                  [j \in DOMAIN @ |-> CASE i <= j /\ j < s.len -> @[j + 1]
                                        [] j = s.len -> NoEntry
                                        [] OTHER -> @[j]]],
     slice |-> [s EXCEPT !.len = @ - 1]]
\* append(s[:i-1], s[i:]...) moves the entries behind i, in place
Removed(heap, s, i) ==
    [heap |-> [heap EXCEPT ![s.arr] =
                  [j \in DOMAIN @ |-> IF i <= j /\ j < s.len THEN @[j + 1] ELSE @[j]]],
     slice |-> [s EXCEPT !.len = @ - 1]]

\* the last entry of this name, 0 if there is none
Found(heap, s, name) == SelectLastInSeq(Window(heap, s), LAMBDA e : e.name = name)

-----------------------------------------------------------------------------
(* Variables.                                                              *)

varValue(heap, s, x) ==
    LET i == Found(heap, s, x) IN IF i = 0 THEN Null ELSE heap[s.arr][i].value

Binding(x, v) == [name |-> x, value |-> v]
Names(es) == {es[i].name : i \in DOMAIN es}
\* the last of es that assigns x
ValueIn(es, x) == es[SelectLastInSeq(es, LAMBDA e : e.name = x)].value

\* s.setVarValue: a binding that is there gets the value, another is pushed
setVarValue(m, e) ==
    LET i == Found(m.heap, m.slice, e.name) IN
    IF i = 0 THEN Appended(m.heap, m.slice, <<e>>, Unbound)
    ELSE [m EXCEPT !.heap[m.slice.arr][i] = e]

\* for each of es, one, two or three
setVarValues(heap, s, es) ==
    LET one == setVarValue([heap |-> heap, slice |-> s], es[1])
        two == setVarValue(one, es[2])
    IN  CASE Len(es) = 1 -> one [] Len(es) = 2 -> two [] Len(es) = 3 -> setVarValue(two, es[3])

Memory == [states |-> states, bindings |-> bindings]
Becomes(m) == states' = m.states /\ bindings' = m.bindings

\* History: what a state assigned itself, until another state that shares
\* its variables assigns the name.  es are the assignments of the state s.
Noted(all, s, es) ==
    [i \in DOMAIN all |->
        LET old == all[i].mine
            others == DOMAIN old \ Names(es)
        IN  IF all[i].env # all[s].env THEN all[i]
            ELSE IF i # s THEN [all[i] EXCEPT !.mine = [y \in others |-> old[y]]]
            ELSE [all[i] EXCEPT !.mine =
                    [y \in others \cup Names(es) |->
                        IF y \in others THEN old[y] ELSE ValueIn(es, y)]]]

\* The variables of the state s are r, after it assigned es.
Stored(m, s, r, es) ==
    [states |-> Noted([m.states EXCEPT ![s].vars = r.slice], s, es), bindings |-> r.heap]
Assigned(m, s, es) == Stored(m, s, setVarValues(m.bindings, m.states[s].vars, es), es)

-----------------------------------------------------------------------------
NoVars == [x \in {} |-> Null]
NewState(bound, depth, variables, env, user, first) ==
    [bound |-> bound, depth |-> depth, vars |-> variables,
     env |-> env, user |-> user, first |-> first, mine |-> NoVars]
Frame(s, kind, todo, stmt, items) ==
    [state |-> s, kind |-> kind, todo |-> todo, stmt |-> stmt, items |-> items, n |-> 0]

\* History: who gave a mixin which block, and whether the mixin used it.
NoGiver == [giver |-> 0, block |-> Null, used |-> FALSE]

\* execute: the variables are $ and the globals, appended one by one
Init ==
    /\ body \in Programs
    /\ map \in Maps
    /\ stack = <<Frame(1, "template", body[Main], Nothing, <<>>)>>
    /\ scopes = <<NoGiver>>
    /\ arrays = <<>>
    /\ LET all == Appended(<<<<Binding("$", Null)>>>>, [arr |-> 1, len |-> 1], Globals, Unbound)
       IN  /\ states = <<NewState(NoSlice, 0, all.slice, 1, 1, FALSE)>>
           /\ bindings = all.heap

Top == Last(stack)
State == states[Top.state]
Instr == Head(Top.todo)
Walking == stack # <<>> /\ Top.todo # <<>>
Ready(op) == Walking /\ Instr.op = op
Advanced == [stack EXCEPT ![Len(stack)].todo = Tail(@)]
Enter(frame) == Len(stack) < MaxStack /\ stack' = Append(Advanced, frame)
Leave == stack' = Front(stack)

\* A panic, with the memory m: the try nearest to it walks its catch, in the
\* state of the try, and where there is none the execution is over.
Caught(f) == Frame(f.state, "list", f.stmt.else, Nothing, <<>>)
Panic(m) ==
    LET t == SelectLastInSeq(stack, LAMBDA f : f.kind = "try") IN
    /\ UNCHANGED <<body, scopes, map>>
    /\ IF t = 0 THEN stack' = <<>> /\ Becomes(m)
       ELSE /\ stack' = Append(SubSeq(stack, 1, t - 1), Caught(stack[t]))
            /\ Becomes(Assigned(m, stack[t].state, <<Binding(stack[t].stmt.vars[1], Exception)>>))

-----------------------------------------------------------------------------
(* walk.                                                                   *)

\* text, or an action whose value is printed
Prints ==
    /\ Ready("print")
    /\ stack' = Advanced
    /\ UNCHANGED <<body, states, scopes, arrays, bindings, map>>

\* errorf, a panic of a template function, a write that fails
Fails == Ready("print") /\ Panic(Memory) /\ UNCHANGED arrays

Sets ==
    /\ Ready("set")
    /\ stack' = Advanced
    /\ Becomes(Assigned(Memory, Top.state, <<Binding(Instr.vars[1], Instr.value)>>))
    /\ UNCHANGED <<body, scopes, arrays, map>>

walkIfOrWith ==
    /\ Ready("if")
    /\ \E list \in {Instr.list, Instr.else} : Enter(Frame(Top.state, "list", list, Nothing, <<>>))
    /\ UNCHANGED <<body, states, scopes, arrays, bindings, map>>

walkTry ==
    /\ Ready("try")
    /\ Enter(Frame(Top.state, "try", Instr.list, Instr, <<>>))
    /\ UNCHANGED <<body, states, scopes, arrays, bindings, map>>

\* The end of a list, of a template and of a try.
Ends ==
    /\ stack # <<>> /\ Top.todo = <<>> /\ Top.kind \in {"list", "template", "try"}
    /\ Leave
    /\ UNCHANGED <<body, states, scopes, arrays, bindings, map>>

-----------------------------------------------------------------------------
(* walkRange.  The variables are pushed before the pipeline is evaluated,  *)
(* so they hide what it names; it sets them to the whole value, and the    *)
(* elements follow.                                                        *)

Walkable == DOMAIN Items \cup {TheMap}
RangeValue ==
    CASE Instr.value \in Walkable -> Instr.value
      [] Instr.value \in ToSet(Instr.vars) -> Null
      [] OTHER -> varValue(bindings, State.vars, Instr.value)
Declared(v) == [i \in DOMAIN Instr.vars |-> Binding(Instr.vars[i], v)]
Evaluated(v) ==
    LET new == Declared(v) IN Stored(Memory, Top.state, Appended(bindings, State.vars, new, Unbound), new)

sortKeys == CHOOSE s \in SetToSeqs(map.keys) : \A i, j \in DOMAIN s : i < j => Before(s[i], s[j])
\* the keys of obj.order that the map has
Members ==
    LET kept[n \in 0 .. Len(map.order)] ==
            IF n = 0 THEN <<>>
            ELSE IF map.order[n] \in map.keys THEN Append(kept[n - 1], map.order[n])
            ELSE kept[n - 1]
    IN  kept[Len(map.order)]
WalkedKeys == IF map.order # <<>> THEN Members ELSE sortKeys
Elements == IF RangeValue = TheMap THEN WalkedKeys ELSE Items[RangeValue]
walkRange ==
    /\ Ready("range")
    /\ RangeValue \in Walkable
    /\ Enter(Frame(Top.state, "range", <<>>, Instr, Elements))
    /\ Becomes(Evaluated(RangeValue))
    /\ UNCHANGED <<body, scopes, arrays, map>>

\* over no value at all
RangeNothing ==
    /\ Ready("range")
    /\ RangeValue = Null
    /\ stack' = Advanced
    /\ Becomes(Evaluated(RangeValue))
    /\ UNCHANGED <<body, scopes, arrays, map>>

CannotRange ==
    /\ Ready("range")
    /\ RangeValue \notin Walkable \cup {Null}
    /\ Panic(Evaluated(RangeValue))
    /\ UNCHANGED arrays

\* the value a for..in declares its variable with
KeyList == "keys"
\* Keys, of __range_helper_keys__: a map without an order gets one, the order
\* in which Go happens to walk it
ForKeys ==
    /\ Ready("forin")
    /\ \E order \in IF map.order # <<>> THEN {map.order} ELSE SetToSeqs(map.keys) :
        /\ map' = [keys |-> map.keys, order |-> order]
        /\ Enter(Frame(Top.state, "range", <<>>, Instr, order))
    /\ Becomes(Evaluated(KeyList))
    /\ UNCHANGED <<body, scopes, arrays>>

\* faulty: an assignment puts the key at the end, also when it is there
ToTheEnd(k) == [keys |-> map.keys \cup {k}, order |-> Append(map.order, k)]
\* __assign: a key that is new goes to the end of the order, if there is one
With(k) == [keys |-> map.keys \cup {k},
            order |-> IF map.order # <<>> /\ k \notin map.keys THEN Append(map.order, k) ELSE map.order]

Puts ==
    /\ Ready("put")
    /\ stack' = Advanced
    /\ map' = With(Instr.value)
    /\ UNCHANGED <<body, states, scopes, arrays, bindings>>

InLoop(kind) == stack # <<>> /\ Top.todo = <<>> /\ Top.kind = kind

\* with two variables the first is the index; a member of the map is named by
\* its key
Element(v) ==
    LET xs == Top.stmt.vars IN
    IF Len(xs) = 2 THEN <<Binding(xs[1], Index), Binding(xs[2], v)>> ELSE <<Binding(xs[1], v)>>

oneIteration ==
    /\ InLoop("range")
    /\ Top.items # <<>>
    /\ Becomes(Assigned(Memory, Top.state, Element(Head(Top.items))))
    /\ stack' = [stack EXCEPT ![Len(stack)].todo = Top.stmt.list, ![Len(stack)].items = Tail(@)]
    /\ UNCHANGED <<body, scopes, arrays, map>>

RangeEnds ==
    /\ InLoop("range")
    /\ Top.items = <<>>
    /\ Leave
    /\ UNCHANGED <<body, states, scopes, arrays, bindings, map>>

\* A range over a condition, true or false.
walkWhile ==
    /\ Ready("while")
    /\ \/ Enter(Frame(Top.state, "while", Instr.list, Instr, <<>>))
       \/ stack' = Advanced
    /\ UNCHANGED <<body, states, scopes, arrays, bindings, map>>

\* i++ comes before the comparison, which comes before the next test
\* faulty: the count starts again with every iteration
IterationsForgotten == 1
Iterations == Top.n + 1

WhileGoesOn ==
    /\ InLoop("while")
    /\ Iterations <= MaxIterations
    /\ \/ stack' = [stack EXCEPT ![Len(stack)].todo = Top.stmt.list, ![Len(stack)].n = Iterations]
       \/ Leave
    /\ UNCHANGED <<body, states, scopes, arrays, bindings, map>>

WhileTooLong == InLoop("while") /\ Iterations > MaxIterations /\ Panic(Memory) /\ UNCHANGED arrays

-----------------------------------------------------------------------------
(* walkTemplate.                                                           *)

TooDeep == State.depth = MaxExecDepth

Arguments(block) == <<Binding("$attributes", Null), Binding("$__args__", Null), Binding("$block", block)>>

\* new walks tmpl, with the bindings heap, and the state on top keeps bound
Walk(tmpl, new, heap, bound) ==
    /\ Enter(Frame(Len(states) + 1, "template", body[tmpl], Nothing, <<>>))
    /\ LET entered == [states |-> Append([states EXCEPT ![Top.state].bound = bound], new),
                       bindings |-> heap]
       IN  IF Ready("call")
           THEN \* the mixin takes its arguments first
                Becomes(Assigned(entered, Len(states) + 1, Arguments(Instr.value)))
           ELSE Becomes(entered)
    /\ UNCHANGED <<body, map>>

\* make and copy: an array of its own with the globals
\* faulty: the globals are not copied, every state has the one array
GlobalsShared ==
    IF \E i \in DOMAIN states : states[i].env # 1
    THEN LET s == CHOOSE s \in DOMAIN states : states[s].env # 1 IN
         [heap |-> bindings, slice |-> [arr |-> states[s].vars.arr, len |-> Len(Globals)]]
    ELSE [heap |-> Append(bindings, Globals \o <<Unbound, Unbound, Unbound, Unbound>>),
          slice |-> [arr |-> Len(bindings) + 1, len |-> Len(Globals)]]
GlobalsCopied ==
    [heap |-> Append(bindings, Globals), slice |-> [arr |-> Len(bindings) + 1, len |-> Len(Globals)]]

\* __freeze, where there is a block
Frozen ==
    IF Instr.value = Null
    THEN [heap |-> arrays, slice |-> State.bound]
    ELSE Appended(arrays, State.bound, <<[name |-> Instr.value, scope |-> Top.state]>>, NoEntry)

\* __freeze, then the template action with the arguments and the block's name
CallMixin ==
    /\ Ready("call")
    /\ Instr.vars[1] \in DOMAIN body
    /\ ~TooDeep
    /\ arrays' = Frozen.heap
    /\ scopes' = Append(scopes, [giver |-> Top.state, block |-> Instr.value, used |-> FALSE])
    /\ Walk(Instr.vars[1],
            NewState(Frozen.slice, State.depth + 1, GlobalsCopied.slice,
                     Len(scopes) + 1, Top.state, FALSE),
            GlobalsCopied.heap, Frozen.slice)

\* the block stays frozen
Freezes(all) == [all EXCEPT ![Top.state].bound = Frozen.slice]
CallTooDeep ==
    /\ Ready("call")
    /\ Instr.vars[1] \in DOMAIN body
    /\ TooDeep
    /\ arrays' = Frozen.heap
    /\ Panic([Memory EXCEPT !.states = Freezes(@)])

\* a mixin that no file defines, a warning of the compiler in production
CallUndefined ==
    /\ Ready("call")
    /\ Instr.vars[1] \notin DOMAIN body
    /\ arrays' = Frozen.heap
    /\ states' = Freezes(states)
    /\ stack' = Advanced
    /\ UNCHANGED <<body, scopes, bindings, map>>

MyBlock == varValue(bindings, State.vars, Instr.vars[1])
Position == Found(arrays, State.bound, MyBlock)

\* faulty: the block walks in the state that uses it
ScopeOfUser == State
\* *s.boundBlocks[i].scope
FrozenScope == states[arrays[State.bound.arr][Position].scope]

\* {{ template $block }} for a block that boundBlocks has
UseBlock ==
    /\ Ready("block")
    /\ MyBlock \in DOMAIN body
    /\ ~TooDeep
    /\ Position # 0
    /\ LET rest == Removed(arrays, State.bound, Position) IN
        /\ arrays' = rest.heap
        /\ scopes' = [scopes EXCEPT ![State.env].used = TRUE]
        /\ Walk(MyBlock,
                NewState(FrozenScope.bound, FrozenScope.depth + 1, FrozenScope.vars,
                         FrozenScope.env, State.env, ~scopes[State.env].used),
                bindings, rest.slice)

\* for a block that is not there (any more): only the globals are visible
UseBlockAgain ==
    /\ Ready("block")
    /\ MyBlock \in DOMAIN body
    /\ ~TooDeep
    /\ Position = 0
    /\ scopes' = Append([scopes EXCEPT ![State.env].used = TRUE], NoGiver)
    /\ Walk(MyBlock,
            NewState(State.bound, State.depth + 1, GlobalsCopied.slice,
                     Len(scopes) + 1, State.env, ~scopes[State.env].used),
            GlobalsCopied.heap, State.bound)
    /\ UNCHANGED arrays

BlockTooDeep ==
    /\ Ready("block")
    /\ MyBlock \in DOMAIN body
    /\ TooDeep
    /\ Panic(Memory)
    /\ UNCHANGED arrays

\* no template of that name: walkTemplate returns
UseNoBlock ==
    /\ Ready("block")
    /\ MyBlock \notin DOMAIN body
    /\ stack' = Advanced
    /\ UNCHANGED <<body, states, scopes, arrays, bindings, map>>

\* Execute is back.
Returned == stack = <<>> /\ UNCHANGED vars

Next ==
    \/ Prints \/ Fails \/ Sets \/ walkIfOrWith \/ walkTry \/ Ends
    \/ walkRange \/ RangeNothing \/ CannotRange \/ oneIteration \/ RangeEnds \/ ForKeys \/ Puts
    \/ walkWhile \/ WhileGoesOn \/ WhileTooLong
    \/ CallMixin \/ CallTooDeep \/ CallUndefined \/ UseBlock \/ UseBlockAgain
    \/ BlockTooDeep \/ UseNoBlock
    \/ Returned

Spec == Init /\ [][Next]_vars

-----------------------------------------------------------------------------
(* Properties. *)

\* Every slice is a window of its array, every state and scope exists.
TypeOK ==
    /\ \A i \in DOMAIN states : LET s == states[i] IN
          /\ s.bound.len <= Cap(arrays, s.bound)
          /\ s.vars.len <= Cap(bindings, s.vars)
          /\ s.depth \in Nat
          /\ s.env \in DOMAIN scopes
          /\ \A j \in 1 .. s.bound.len : arrays[s.bound.arr][j].scope \in DOMAIN states
    /\ \A i \in DOMAIN stack : stack[i].state \in DOMAIN states

\* Where a mixin uses its block for the first time, the block sees the
\* variables of the template that passed it, whatever was frozen, overwritten
\* or taken out of the shared backing arrays before.  (For files like those of
\* the runs.  A mixin that reaches itself before it uses its block finds its
\* own, later entry, and one that uses its block twice can take away the entry
\* that another mixin still needs: see Orderly.)
BlockScope ==
    \A i \in DOMAIN stack : LET s == states[stack[i].state] IN
        s.first => LET giver == scopes[s.user].giver IN giver # 0 /\ s.env = states[giver].env

\* No block is frozen while a mixin that was given the block of this name
\* before still has to use it, and a mixin that uses its block again does not
\* find what another template left in the shared arrays.
Orderly ==
    /\ Ready("call") /\ Instr.value # Null =>
          \A i \in DOMAIN stack : LET e == scopes[states[stack[i].state].env] IN
             e.used \/ e.block # Instr.value
    /\ Ready("block") /\ MyBlock \in DOMAIN body /\ scopes[State.env].used /\ Position # 0 =>
          arrays[State.bound.arr][Position].scope = scopes[State.env].giver

\* A variable keeps the value that a template gave it until this template, or
\* a block it passed, assigns it again: no mixin below, no loop, no exception
\* and no append to a shared backing array changes or hides it.
KeepsValues ==
    \A i \in DOMAIN stack : LET s == states[stack[i].state] IN
        \A x \in DOMAIN s.mine : varValue(bindings, s.vars, x) = s.mine[x]

\* No dynamic scoping: a step changes no variable of another scope than the one
\* that the template on top walks in, before the step or after it.  A mixin
\* has its own, and a block the one of the template that passed it, however
\* the copies of the states append to the arrays they share.
Isolated ==
    [][\A i \in DOMAIN states :
          LET env == states[i].env IN
          stack # <<>> /\ env # State.env /\ (stack' # <<>> => env # State'.env) =>
             Window(bindings', states'[i].vars) = Window(bindings, states[i].vars)]_vars

Repeated(s) == {x \in ToSet(s) : \E i, j \in DOMAIN s : i # j /\ s[i] = x /\ s[j] = x}

\* Every loop over the map walks each key that the map has at that moment, and
\* only those, whatever was assigned before, in loops or outside, and whether
\* the order comes from the literal, from an earlier loop or from sorting.  It
\* walks a key twice only when the literal named it twice: no assignment and
\* no loop puts a key into the order that is there.
EachKeyWalked ==
    [][/\ Repeated(map'.order) \subseteq Repeated(map.order)
       /\ stack' # <<>> /\ Len(stack') > Len(stack) =>
            LET f == Last(stack') IN
            f.kind = "range" /\ (f.stmt.op = "forin" \/ RangeValue = TheMap) =>
               ToSet(f.items) = map.keys /\ Repeated(f.items) \subseteq Repeated(map.order)]_vars

\* Every execution ends: the depth bounds what calls itself, the iterations a
\* loop whose condition stays true, and what is caught is not tried again.
\* (No behaviour takes steps for ever, and none is stuck before the end, which
\* is what TLC checks as the absence of deadlocks.)
RenderEnds == <>[][FALSE]_vars

\* tpl_exec.go, "This limit allows us to return an error instead of
\* triggering a stack overflow": no more than maxExecDepth nested templates.
DepthLimited == Len(SelectSeq(stack, LAMBDA f : f.kind = "template")) <= MaxExecDepth + 1
=============================================================================
