------------------------------ MODULE JsArrays ------------------------------
(***************************************************************************)
(* Arrays as sequences: what each call does to the array it is made on and *)
(* to the array it returns.  Push, pop, splice and sort are as in the      *)
(* summary of Readme.md, shift and unshift as in the comments of types.go, *)
(* slice as in TestArray_Slice, of which Readme.md says something else.    *)
(* What a call returns that is no array is left out.                       *)
(***************************************************************************)
EXTENDS Integers, Sequences, FiniteSets

VARIABLE content   \* the sequence of each array object

\* the elements from the n-th on
From(a, n) == SubSeq(content[a], n + 1, Len(content[a]))

Ordered(s) == \A i \in 1 .. Len(s) - 1 : s[i] <= s[i + 1]
Occurs(v, s) == Cardinality({i \in DOMAIN s : s[i] = v})
SameElements(s, t) == \A i \in DOMAIN s \cup DOMAIN t :
    /\ i \in DOMAIN s => Occurs(s[i], s) = Occurs(s[i], t)
    /\ i \in DOMAIN t => Occurs(t[i], s) = Occurs(t[i], t)

Push(a, v) == content'[a] = Append(content[a], v)
Unshift(a, v) == content'[a] = <<v>> \o content[a]
Pop(a) == content[a] # <<>> /\ content'[a] = SubSeq(content[a], 1, Len(content[a]) - 1)
Shift(a) == content[a] # <<>> /\ content'[a] = Tail(content[a])
Sort(a) == SameElements(content'[a], content[a]) /\ Ordered(content'[a])
Splice(a, b, n) == content'[a] = SubSeq(content[a], 1, n) /\ content'[b] = From(a, n)
Slice(a, b, n) == content'[a] = content[a] /\ content'[b] = From(a, n)
=============================================================================
