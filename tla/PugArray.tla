------------------------------ MODULE PugArray ------------------------------
(***************************************************************************)
(* Array of pugjs/types.go.  An Array object holds a Go slice: a window of *)
(* a backing array that other slices may share.  Go's append writes into   *)
(* the backing array while there is room behind the window and moves to a  *)
(* larger one otherwise.  A call that panics (pop of an empty array, a     *)
(* start index that is out of range) changes nothing and is no step.       *)
(***************************************************************************)
EXTENDS Integers, Sequences, FiniteSets, Functions

CONSTANTS
    Ids,       \* the Array objects a template makes
    Given,     \* those that are literals or data of the controller
    Values,    \* elements: numbers, in the order of their strings
    MaxLen,    \* bound: length of an array
    Blocks,    \* backing arrays, one more than Ids
    Absent     \* the object does not exist yet

ASSUME ValuesType == Values \subseteq Int
ASSUME BoundsType == MaxLen \in Nat /\ Cardinality(Blocks) > Cardinality(Ids)
ASSUME GivenType == Given \subseteq Ids
ASSUME AbsentIsNew == Absent \notin [blk : Blocks, off : Nat, len : Nat]

VARIABLES
    memory,   \* the backing arrays; an unused one is empty
    items     \* Array.items of each object

vars == <<memory, items>>

Live == {a \in Ids : items[a] # Absent}
Cap(a) == Len(memory[items[a].blk]) - items[a].off
Content(a) == SubSeq(memory[items[a].blk], items[a].off + 1, items[a].off + items[a].len)
Unused == {k \in Blocks : memory[k] = <<>>}
Ascending(s) == \A i, j \in DOMAIN s : i < j => s[i] <= s[j]

Literals == UNION {[1 .. n -> Values] : n \in 1 .. MaxLen}

\* convert makes a slice whose capacity is its length
Init ==
    \E literal \in [Given -> Literals], home \in [Given -> Blocks] :
        /\ \A a, b \in Given : a # b => home[a] # home[b]
        /\ items = [a \in Ids |-> IF a \in Given
                                 THEN [blk |-> home[a], off |-> 0, len |-> Len(literal[a])]
                                 ELSE Absent]
        /\ memory \in [Blocks -> Literals \cup {<<>>}]
        /\ \A a \in Given : memory[home[a]] = literal[a]
        /\ \A k \in Blocks : (\A a \in Given : home[a] # k) => memory[k] = <<>>

Point(a, header) == items' = [items EXCEPT ![a] = header]

HasRoom(a) == items[a].len < Cap(a)

\* the new capacity when append has no room: double, or just enough
Grown(old, needed) == IF needed > 2 * old THEN needed ELSE 2 * old

\* s in a fresh backing array of capacity c; what is behind s is zero, and
\* the old backing array is collected unless another slice uses it
Move(a, s, c) ==
    \E k \in Unused :
        /\ memory' = [j \in Blocks |->
              CASE j = k -> s \o [i \in 1 .. c - Len(s) |-> 0]
                [] j # k /\ \E b \in Live \ {a} : items[b].blk = j -> memory[j]
                [] OTHER -> <<>>]
        /\ Point(a, [blk |-> k, off |-> 0, len |-> Len(s)])

\* a.items = append(a.items, what)
Push(a, v) ==
    LET h == items[a] IN
    /\ h.len < MaxLen
    /\ IF HasRoom(a)
       THEN /\ memory' = [memory EXCEPT ![h.blk][h.off + h.len + 1] = v]
            /\ Point(a, [h EXCEPT !.len = @ + 1])
       ELSE Move(a, Append(Content(a), v), Grown(Cap(a), h.len + 1))

\* faulty: the arguments of append are swapped
UnshiftBehind(a, v) ==
    /\ items[a].len < MaxLen
    /\ Move(a, Append(Content(a), v),
            IF items[a].len = 0 THEN 1 ELSE Grown(1, items[a].len + 1))
\* a.items = append(elements, a.items...), elements is a slice of its own
Unshift(a, v) ==
    /\ items[a].len < MaxLen
    /\ Move(a, <<v>> \o Content(a),
            IF items[a].len = 0 THEN 1 ELSE Grown(1, items[a].len + 1))

Pop(a) ==
    /\ items[a].len > 0
    /\ Point(a, [items[a] EXCEPT !.len = @ - 1])
    /\ UNCHANGED memory

\* faulty: the rest of a slice begins one element early
RestFromBefore(a, n) ==
    [blk |-> items[a].blk, off |-> items[a].off + n - 1, len |-> items[a].len - n]
\* a.items[n:]
Rest(a, n) == [blk |-> items[a].blk, off |-> items[a].off + n, len |-> items[a].len - n]

\* an empty array stays as it is
Shift(a) ==
    /\ items[a].len > 0
    /\ Point(a, Rest(a, 1))
    /\ UNCHANGED memory

Reorderings(s) == {[i \in DOMAIN s |-> s[p[i]]] : p \in Bijection(DOMAIN s, DOMAIN s)}
Written(m, off, s) ==
    [i \in DOMAIN m |-> IF i \in off + 1 .. off + Len(s) THEN s[i - off] ELSE m[i]]

\* sort.Slice works on the window, in place
Sort(a) ==
    /\ \E s \in Reorderings(Content(a)) :
          /\ Ascending(s)
          /\ memory' = [memory EXCEPT ![items[a].blk] = Written(@, items[a].off, s)]
    /\ UNCHANGED items

Splice(a, b, n) ==
    /\ items' = [items EXCEPT ![a].len = n, ![b] = Rest(a, n)]
    /\ UNCHANGED memory

Slice(a, b, n) ==
    /\ Point(b, Rest(a, n))
    /\ UNCHANGED memory

Next ==
    \E a \in Live :
        \/ \E v \in Values : Push(a, v) \/ Unshift(a, v)
        \/ Pop(a) \/ Shift(a) \/ Sort(a)
        \/ \E b \in Ids \ Live, n \in 0 .. items[a].len : Splice(a, b, n) \/ Slice(a, b, n)

Spec == Init /\ [][Next]_vars

-----------------------------------------------------------------------------
(* Properties. *)

\* Every slice is a window of the backing array it points to.
TypeOK ==
    /\ memory \in [Blocks -> Seq(Values \cup {0})]
    /\ \A a \in Live :
          /\ items[a] \in [blk : Blocks, off : Nat, len : 0 .. MaxLen]
          /\ items[a].off + items[a].len <= Len(memory[items[a].blk])

Author == INSTANCE JsArrays WITH content <- [a \in Ids |-> IF a \in Live THEN Content(a) ELSE Absent]

\* Each call is what JsArrays says of it, on its own array and its result.
CallOnSequence ==
    \A a \in Live :
        /\ \A v \in Values : /\ Push(a, v) => Author!Push(a, v)
                             /\ Unshift(a, v) => Author!Unshift(a, v)
        /\ Pop(a) => Author!Pop(a)
        /\ Shift(a) => Author!Shift(a)
        /\ Sort(a) => Author!Sort(a)
        /\ \A b \in Ids \ Live, n \in 0 .. items[a].len :
              /\ Splice(a, b, n) => Author!Splice(a, b, n)
              /\ Slice(a, b, n) => Author!Slice(a, b, n)

\* Every call does to its own array, and to the array it returns, what it does
\* to a sequence, however the backing array is shared and whatever capacity it
\* has left.  Nothing is said of the other arrays that show the same cells.
ActsOnSequence == [][CallOnSequence]_vars
=============================================================================
