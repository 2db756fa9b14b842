--------------------------- MODULE TplParse_proofs ---------------------------
(* Proofs about TplParse: for texts of any length, with any names, the lexer *)
(* goroutine has nothing left to send when Parse returns, and a definition   *)
(* is never replaced.                                                        *)
EXTENDS TplParse, SeqFacts, WellFoundedInduction

-----------------------------------------------------------------------------
(* The look-ahead of a Tree.                                               *)

TreeSet(A, B, C) == [name : A, token : [0 .. 2 -> B], peekCount : 0 .. 3, vars : C]
IsTree(t) == \E A, B, C : t \in TreeSet(A, B, C)
HasEOF(t) == \E j \in 0 .. 2 : t.token[j].typ = "EOF"

\* u holds no end of the text that t does not hold.
Derived(u, t) == IsTree(u) /\ (HasEOF(u) => HasEOF(t))

LEMMA TreeItself == ASSUME NEW t, IsTree(t) PROVE Derived(t, t)
  BY DEF Derived

\* A Tree with other tokens and another count.
LEMMA CountTokensSet ==
    ASSUME NEW t, IsTree(t), NEW B, NEW u \in [0 .. 2 -> B], NEW n \in 0 .. 3
    PROVE  IsTree([t EXCEPT !.peekCount = n, !.token = u]) /\ [t EXCEPT !.peekCount = n, !.token = u].token = u
  <1>1. PICK A, D, C : t \in TreeSet(A, D, C)
    BY DEF IsTree
  <1>2. [t EXCEPT !.peekCount = n, !.token = u] \in TreeSet(A, B, C) /\ [t EXCEPT !.peekCount = n, !.token = u].token = u
    BY <1>1 DEF TreeSet
  <1> QED
    BY <1>2, Zenon DEF IsTree

LEMMA TokensCountSet ==
    ASSUME NEW t, IsTree(t), NEW B, NEW u \in [0 .. 2 -> B], NEW n \in 0 .. 3
    PROVE  IsTree([t EXCEPT !.token = u, !.peekCount = n]) /\ [t EXCEPT !.token = u, !.peekCount = n].token = u
  <1>1. PICK A, D, C : t \in TreeSet(A, D, C)
    BY DEF IsTree
  <1>2. [t EXCEPT !.token = u, !.peekCount = n] \in TreeSet(A, B, C) /\ [t EXCEPT !.token = u, !.peekCount = n].token = u
    BY <1>1 DEF TreeSet
  <1> QED
    BY <1>2, Zenon DEF IsTree

LEMMA TreeFields ==
    ASSUME NEW t, IsTree(t)
    PROVE  /\ t.peekCount \in 0 .. 3
           /\ \E B : t.token \in [0 .. 2 -> B]
  BY DEF IsTree, TreeSet

LEMMA NextDerived ==
    ASSUME NEW t, IsTree(t), t.peekCount > 0
    PROVE  Derived(next(t), t)
  <1>1. PICK B : t.token \in [0 .. 2 -> B]
    BY TreeFields
  <1>2. PICK n \in 0 .. 2 : n = t.peekCount - 1
    BY TreeFields
  <1>3. PICK u \in [0 .. 2 -> B \cup {ZeroItem}] : u = [t.token EXCEPT ![n] = ZeroItem]
    BY <1>1, <1>2
  <1>4. next(t) = [t EXCEPT !.peekCount = n, !.token = u]
    BY <1>2, <1>3 DEF next
  <1>5. n \in 0 .. 3
    BY <1>2
  <1>6. IsTree(next(t)) /\ next(t).token = u
    <2>1. IsTree([t EXCEPT !.peekCount = n, !.token = u]) /\ [t EXCEPT !.peekCount = n, !.token = u].token = u
      BY <1>5, CountTokensSet, Zenon
    <2> QED
      BY <1>4, <2>1, Zenon
  <1>7. \A j \in 0 .. 2 : u[j] = IF j = n THEN ZeroItem ELSE t.token[j]
    BY <1>1, <1>2, <1>3
  <1>8. HasEOF(next(t)) => HasEOF(t)
    <2>1. ZeroItem.typ # "EOF"
      BY DEF ZeroItem
    <2> QED
      BY <1>6, <1>7, <2>1 DEF HasEOF
  <1> QED
    BY <1>6, <1>8 DEF Derived

LEMMA NamedDerived ==
    ASSUME NEW t, IsTree(t), NEW x
    PROVE  Derived([t EXCEPT !.name = x], t) /\ Derived([t EXCEPT !.vars = x], t)
  <1>1. PICK A, B, C : t \in TreeSet(A, B, C)
    BY DEF IsTree
  <1>2. /\ [t EXCEPT !.name = x] \in TreeSet({x}, B, C)
        /\ [t EXCEPT !.vars = x] \in TreeSet(A, B, {x})
        /\ [t EXCEPT !.name = x].token = t.token
        /\ [t EXCEPT !.vars = x].token = t.token
    BY <1>1 DEF TreeSet
  <1> QED
    BY <1>2, Zenon DEF Derived, IsTree, HasEOF

LEMMA Backup2Derived ==
    ASSUME NEW t, IsTree(t), NEW x, x.typ # "EOF"
    PROVE  Derived(backup2(t, x), t)
  <1>1. PICK B : t.token \in [0 .. 2 -> B]
    BY TreeFields
  <1>2. PICK u \in [0 .. 2 -> B \cup {x}] : u = [t.token EXCEPT ![1] = x]
    BY <1>1
  <1>3. backup2(t, x) = [t EXCEPT !.token = u, !.peekCount = 2]
    BY <1>2 DEF backup2
  <1>4. IsTree(backup2(t, x)) /\ backup2(t, x).token = u
    <2>1. PICK n \in 0 .. 3 : n = 2
      OBVIOUS
    <2>2. IsTree([t EXCEPT !.token = u, !.peekCount = n]) /\ [t EXCEPT !.token = u, !.peekCount = n].token = u
      BY TokensCountSet, Zenon
    <2> QED
      BY <1>3, <2>1, <2>2, Zenon
  <1>5. \A j \in 0 .. 2 : u[j] = IF j = 1 THEN x ELSE t.token[j]
    BY <1>1, <1>2
  <1> QED
    BY <1>4, <1>5 DEF Derived, HasEOF

LEMMA Backup3Derived ==
    ASSUME NEW t, IsTree(t), NEW x, NEW y, x.typ # "EOF", y.typ # "EOF"
    PROVE  Derived(backup3(t, x, y), t)
  <1>1. PICK B : t.token \in [0 .. 2 -> B]
    BY TreeFields
  <1>2. PICK u \in [0 .. 2 -> B \cup {x, y}] : u = [[t.token EXCEPT ![1] = y] EXCEPT ![2] = x]
    BY <1>1
  <1>3. backup3(t, x, y) = [t EXCEPT !.token = u, !.peekCount = 3]
    BY <1>2 DEF backup3
  <1>4. IsTree(backup3(t, x, y)) /\ backup3(t, x, y).token = u
    <2>1. PICK n \in 0 .. 3 : n = 3
      OBVIOUS
    <2>2. IsTree([t EXCEPT !.token = u, !.peekCount = n]) /\ [t EXCEPT !.token = u, !.peekCount = n].token = u
      BY TokensCountSet, Zenon
    <2> QED
      BY <1>3, <2>1, <2>2, Zenon
  <1>5. \A j \in 0 .. 2 : u[j] = IF j = 2 THEN x ELSE IF j = 1 THEN y ELSE t.token[j]
    BY <1>1, <1>2
  <1> QED
    BY <1>4, <1>5 DEF Derived, HasEOF

\* An item taken from the lexer.
LEMMA FetchedIs ==
    ASSUME NEW t, IsTree(t), NEW x
    PROVE  IsTree(fetched(t, x)) /\ (HasEOF(fetched(t, x)) => HasEOF(t) \/ x.typ = "EOF")
  <1>1. PICK B : t.token \in [0 .. 2 -> B]
    BY TreeFields
  <1>2. PICK u \in [0 .. 2 -> B \cup {x}] : u = [t.token EXCEPT ![0] = x]
    BY <1>1
  <1>3. fetched(t, x) = [t EXCEPT !.token = u, !.peekCount = 1]
    BY <1>2 DEF fetched
  <1>4. IsTree(fetched(t, x)) /\ fetched(t, x).token = u
    <2>1. PICK n \in 0 .. 3 : n = 1
      OBVIOUS
    <2>2. IsTree([t EXCEPT !.token = u, !.peekCount = n]) /\ [t EXCEPT !.token = u, !.peekCount = n].token = u
      BY TokensCountSet, Zenon
    <2> QED
      BY <1>3, <2>1, <2>2, Zenon
  <1>5. \A j \in 0 .. 2 : u[j] = IF j = 0 THEN x ELSE t.token[j]
    BY <1>1, <1>2
  <1> QED
    BY <1>4, <1>5 DEF HasEOF

LEMMA NewTreeIs == ASSUME NEW x PROVE IsTree(NewTree(x)) /\ ~HasEOF(NewTree(x))
  <1>1. NewTree(x) \in TreeSet({x}, {ZeroItem}, {<<"$">>})
    BY DEF NewTree, TreeSet
  <1>2. \A j \in 0 .. 2 : NewTree(x).token[j] = ZeroItem
    BY DEF NewTree
  <1>3. ZeroItem.typ # "EOF"
    BY DEF ZeroItem
  <1>4. ~HasEOF(NewTree(x))
    BY <1>2, <1>3 DEF HasEOF
  <1> QED
    BY <1>1, <1>4, Zenon DEF IsTree

-----------------------------------------------------------------------------
(* The lists that wait for their {{end}}, and how many Trees they belong   *)
(* to: a define and a block are lists of a Tree of their own.              *)

Own == {"define", "block"}
ListSet(A, B, C) == [what : A, vars : B, class : C, elseIf : BOOLEAN]
IsList(l) == \E A, B, C : l \in ListSet(A, B, C)

\* d[i] Trees are in progress in the i-th list.
Nested(o, d) ==
    /\ IsSeq(o) /\ Len(o) >= 1 /\ o[1].what = "parse"
    /\ \A i \in 1 .. Len(o) :
          /\ IsList(o[i])
          /\ o[i].elseIf => i > 1 /\ o[i].what \in {"if", "else"} /\ o[i - 1].what = "if"
    /\ d \in [1 .. Len(o) -> Nat \ {0}]
    /\ \A i \in 2 .. Len(o) : o[i].what \in Own => d[i] = d[i - 1] + 1
    /\ \A i, j \in 1 .. Len(o) :
          i <= j /\ (\A k \in i + 1 .. j : o[k].what \notin Own) => d[j] = d[i]
Depth(o, n) == \E d : Nested(o, d) /\ d[Len(o)] = n

LEMMA DepthFacts ==
    ASSUME NEW o, NEW n, Depth(o, n)
    PROVE  /\ n \in Nat /\ n >= 1 /\ IsSeq(o) /\ Len(o) \in Nat /\ Len(o) >= 1
           /\ o[1].what = "parse" /\ \A i \in 1 .. Len(o) : IsList(o[i])
           /\ \A i \in 1 .. Len(o) : o[i].elseIf => o[i].what \in {"if", "else"}
  <1>1. PICK d : Nested(o, d) /\ d[Len(o)] = n
    BY DEF Depth
  <1>2. Len(o) \in Nat
    BY <1>1, SeqBasics DEF Nested
  <1>3. d[Len(o)] \in Nat \ {0}
    BY <1>1, <1>2 DEF Nested
  <1> QED
    BY <1>1, <1>2, <1>3 DEF Nested

LEMMA DepthAtFirst == Depth(<<List("parse")>>, 1)
  <1>1. PICK l : l = List("parse")
    OBVIOUS
  <1>2. l \in ListSet({"parse"}, {0}, {"empty"}) /\ l.what = "parse" /\ ~l.elseIf
    BY <1>1 DEF List, ListSet
  <1>3. IsList(l)
    BY <1>2, Zenon DEF IsList
  <1>4. PICK o : o = <<l>>
    OBVIOUS
  <1>5. IsSeq(o) /\ Len(o) = 1 /\ o[1] = l
    BY <1>4, OneIsSeq
  <1>6. PICK d : d = [i \in 1 .. 1 |-> 1]
    OBVIOUS
  <1>7. d \in [1 .. 1 -> Nat \ {0}] /\ d[1] = 1
    BY <1>6
  <1>8. Nested(o, d)
    BY <1>2, <1>3, <1>5, <1>7 DEF Nested
  <1> QED
    BY <1>1, <1>4, <1>5, <1>7, <1>8 DEF Depth

\* The depths after the list l is put on top.
Deeper(o, d, l) ==
    [i \in 1 .. Len(o) + 1 |->
        IF i <= Len(o) THEN d[i] ELSE IF l.what \in Own THEN d[Len(o)] + 1 ELSE d[Len(o)]]

LEMMA NestedAppend ==
    ASSUME NEW o, NEW d, Nested(o, d), NEW l, IsList(l),
           l.elseIf => l.what \in {"if", "else"} /\ o[Len(o)].what = "if"
    PROVE  Nested(Append(o, l), Deeper(o, d, l))
  <1>1. PICK n : Nested(o, d) /\ d[Len(o)] = n
    OBVIOUS
  <1>2. PICK m \in Nat : m = Len(o) /\ m >= 1
    BY SeqBasics DEF Nested
  <1>3. PICK p : p = Append(o, l)
    OBVIOUS
  <1>4. /\ IsSeq(p) /\ Len(p) = m + 1 /\ p[m + 1] = l
        /\ \A i \in 1 .. m : p[i] = o[i]
    BY <1>1, <1>2, <1>3, Appending DEF Nested
  <1>5. d \in [1 .. m -> Nat \ {0}] /\ d[m] = n
    BY <1>1, <1>2 DEF Nested
  <1>6. PICK r \in Nat \ {0} : r = IF l.what \in Own THEN n + 1 ELSE n
    BY <1>2, <1>5
  <1>7. PICK e : e = [i \in 1 .. m + 1 |-> IF i <= m THEN d[i] ELSE r]
    OBVIOUS
  <1>8. e = Deeper(o, d, l)
    BY <1>1, <1>2, <1>6, <1>7 DEF Deeper
  <1>9. /\ e \in [1 .. m + 1 -> Nat \ {0}] /\ e[m + 1] = r
        /\ \A i \in 1 .. m : e[i] = d[i]
    BY <1>7, <1>5
  <1>10. \A i \in 1 .. m + 1 :
           /\ IsList(p[i])
           /\ p[i].elseIf => i > 1 /\ p[i].what \in {"if", "else"} /\ p[i - 1].what = "if"
    <2> SUFFICES ASSUME NEW i \in 1 .. m + 1
                 PROVE /\ IsList(p[i])
                       /\ p[i].elseIf => i > 1 /\ p[i].what \in {"if", "else"} /\ p[i - 1].what = "if"
      OBVIOUS
    <2>1. CASE i = m + 1
      <3>1. i - 1 = m /\ m \in 1 .. m /\ i > 1
        BY <1>2, <2>1
      <3> QED
        BY <1>2, <1>4, <2>1, <3>1
    <2>2. CASE i \in 1 .. m
      <3>1. /\ IsList(o[i])
            /\ o[i].elseIf => i > 1 /\ o[i].what \in {"if", "else"} /\ o[i - 1].what = "if"
        BY <1>1, <1>2, <2>2 DEF Nested
      <3>2. i > 1 => i - 1 \in 1 .. m
        BY <2>2
      <3> QED
        BY <1>4, <2>2, <3>1, <3>2
    <2>3. i = m + 1 \/ i \in 1 .. m
      OBVIOUS
    <2> QED
      BY <2>1, <2>2, <2>3, Zenon
  <1>11. \A i \in 2 .. m + 1 : p[i].what \in Own => e[i] = e[i - 1] + 1
    <2> SUFFICES ASSUME NEW i \in 2 .. m + 1, p[i].what \in Own PROVE e[i] = e[i - 1] + 1
      OBVIOUS
    <2>1. i - 1 \in 1 .. m
      OBVIOUS
    <2>2. CASE i = m + 1
      BY <1>4, <1>6, <1>5, <1>9, <2>1, <2>2
    <2>3. CASE i \in 2 .. m
      <3>1. i \in 1 .. m /\ o[i].what \in Own
        BY <1>4, <2>3
      <3>2. d[i] = d[i - 1] + 1
        BY <1>1, <1>2, <2>3, <3>1 DEF Nested
      <3> QED
        BY <1>9, <2>1, <3>1, <3>2
    <2> QED
      BY <2>2, <2>3
  <1>12. \A i, j \in 1 .. m + 1 :
            i <= j /\ (\A k \in i + 1 .. j : p[k].what \notin Own) => e[j] = e[i]
    <2> SUFFICES ASSUME NEW i \in 1 .. m + 1, NEW j \in 1 .. m + 1, i <= j,
                        \A k \in i + 1 .. j : p[k].what \notin Own
                 PROVE  e[j] = e[i]
      OBVIOUS
    <2>1. CASE i = j
      BY <2>1
    <2>2. CASE i < j /\ j \in 1 .. m
      <3>1. \A k \in i + 1 .. j : o[k].what \notin Own
        BY <1>4, <2>2
      <3>2. i \in 1 .. m
        BY <2>2
      <3>3. d[j] = d[i]
        BY <1>1, <1>2, <2>2, <3>1, <3>2 DEF Nested
      <3> QED
        BY <1>9, <2>2, <3>2, <3>3
    <2>3. CASE i < j /\ j = m + 1
      <3>1. i \in 1 .. m /\ m \in 1 .. m
        BY <1>2, <2>3
      <3>2. l.what \notin Own
        BY <1>4, <2>3
      <3>3. \A k \in i + 1 .. m : o[k].what \notin Own
        BY <1>4, <2>3
      <3>4. d[m] = d[i]
        BY <1>1, <1>2, <3>1, <3>3 DEF Nested
      <3> QED
        BY <1>6, <1>5, <1>9, <2>3, <3>1, <3>2, <3>4
    <2> QED
      BY <2>1, <2>2, <2>3
  <1>13. p[1].what = "parse"
    BY <1>1, <1>2, <1>4 DEF Nested
  <1>14. Nested(p, e)
    BY <1>2, <1>4, <1>9, <1>10, <1>11, <1>12, <1>13 DEF Nested
  <1> QED
    BY <1>3, <1>8, <1>14

LEMMA DepthAppend ==
    ASSUME NEW o, NEW n, Depth(o, n), NEW l, IsList(l),
           l.elseIf => l.what \in {"if", "else"} /\ o[Len(o)].what = "if"
    PROVE  Depth(Append(o, l), IF l.what \in Own THEN n + 1 ELSE n)
  <1>1. PICK d : Nested(o, d) /\ d[Len(o)] = n
    BY DEF Depth
  <1>2. Nested(Append(o, l), Deeper(o, d, l))
    BY <1>1, NestedAppend
  <1>3. Len(o) \in Nat /\ Len(Append(o, l)) = Len(o) + 1
    BY <1>1, Appending, SeqBasics DEF Nested
  <1>4. Deeper(o, d, l)[Len(o) + 1] = IF l.what \in Own THEN n + 1 ELSE n
    BY <1>1, <1>3 DEF Deeper
  <1> QED
    BY <1>2, <1>3, <1>4 DEF Depth

\* The list on top becomes another one of the same depth.
LEMMA NestedReplace ==
    ASSUME NEW o, NEW d, Nested(o, d), NEW l, IsList(l),
           l.what \in Own <=> o[Len(o)].what \in Own, l.elseIf = o[Len(o)].elseIf,
           l.elseIf => l.what \in {"if", "else"},
           o[Len(o)].what = "parse" => l.what = "parse"
    PROVE  Nested([o EXCEPT ![Len(o)] = l], d)
  <1>1. Nested(o, d)
    OBVIOUS
  <1>2. PICK m \in Nat : m = Len(o) /\ m >= 1
    BY SeqBasics DEF Nested
  <1>3. PICK p : p = [o EXCEPT ![Len(o)] = l]
    OBVIOUS
  <1>4. /\ IsSeq(p) /\ Len(p) = m /\ p[m] = l
        /\ \A i \in 1 .. m - 1 : p[i] = o[i]
    <2>1. IsSeq(o)
      BY DEF Nested
    <2>2. /\ IsSeq(p) /\ Len(p) = Len(o)
          /\ \A i \in 1 .. Len(o) - 1 : p[i] = o[i]
          /\ Len(o) > 0 => p[Len(o)] = l
      BY <1>3, <2>1, Replacing, Zenon
    <2>3. Len(o) > 0
      BY <1>2
    <2> QED
      BY <1>2, <2>2, <2>3
  <1>5. \A i \in 1 .. m : (p[i].what \in Own <=> o[i].what \in Own) /\ IsList(p[i])
    <2> SUFFICES ASSUME NEW i \in 1 .. m
                 PROVE  (p[i].what \in Own <=> o[i].what \in Own) /\ IsList(p[i])
      OBVIOUS
    <2>1. CASE i = m
      BY <1>2, <1>4, <2>1
    <2>2. CASE i \in 1 .. m - 1
      BY <1>1, <1>2, <1>4, <2>2 DEF Nested
    <2>3. i = m \/ i \in 1 .. m - 1
      OBVIOUS
    <2> QED
      BY <2>1, <2>2, <2>3, Zenon
  <1>6. \A i \in 1 .. m :
           p[i].elseIf => i > 1 /\ p[i].what \in {"if", "else"} /\ p[i - 1].what = "if"
    <2> SUFFICES ASSUME NEW i \in 1 .. m, p[i].elseIf
                 PROVE i > 1 /\ p[i].what \in {"if", "else"} /\ p[i - 1].what = "if"
      OBVIOUS
    <2>1. o[i].elseIf /\ p[i].what \in {"if", "else"}
      <3>1. CASE i = m
        BY <1>2, <1>4, <3>1
      <3>2. CASE i \in 1 .. m - 1
        BY <1>1, <1>2, <1>4, <3>2 DEF Nested
      <3>3. i = m \/ i \in 1 .. m - 1
        OBVIOUS
      <3> QED
        BY <3>1, <3>2, <3>3, Zenon
    <2>2. i > 1 /\ o[i - 1].what = "if"
      BY <1>1, <1>2, <2>1 DEF Nested
    <2>3. i - 1 \in 1 .. m - 1
      BY <2>2
    <2> QED
      BY <1>4, <2>1, <2>2, <2>3
  <1>7. p[1].what = "parse"
    <2>1. o[1].what = "parse"
      BY <1>1 DEF Nested
    <2>2. CASE m = 1
      BY <1>2, <1>4, <2>1, <2>2
    <2>3. CASE 1 \in 1 .. m - 1
      BY <1>4, <2>1, <2>3
    <2>4. m = 1 \/ 1 \in 1 .. m - 1
      BY <1>2
    <2> QED
      BY <2>2, <2>3, <2>4
  <1>8. /\ d \in [1 .. m -> Nat \ {0}]
        /\ \A i \in 2 .. m : o[i].what \in Own => d[i] = d[i - 1] + 1
        /\ \A i, j \in 1 .. m :
              i <= j /\ (\A k \in i + 1 .. j : o[k].what \notin Own) => d[j] = d[i]
    BY <1>1, <1>2 DEF Nested
  <1>9. \A i \in 2 .. m : p[i].what \in Own => d[i] = d[i - 1] + 1
    <2>1. \A i \in 2 .. m : i \in 1 .. m
      OBVIOUS
    <2> QED
      BY <1>5, <1>8, <2>1, Zenon
  <1>10. \A i, j \in 1 .. m :
            i <= j /\ (\A k \in i + 1 .. j : p[k].what \notin Own) => d[j] = d[i]
    <2> SUFFICES ASSUME NEW i \in 1 .. m, NEW j \in 1 .. m, i <= j,
                        \A k \in i + 1 .. j : p[k].what \notin Own
                 PROVE  d[j] = d[i]
      OBVIOUS
    <2>1. \A k \in i + 1 .. j : k \in 1 .. m
      OBVIOUS
    <2>2. \A k \in i + 1 .. j : o[k].what \notin Own
      BY <1>5, <2>1
    <2> QED
      BY <1>8, <2>2
  <1>11. Nested(p, d)
    BY <1>2, <1>4, <1>5, <1>6, <1>7, <1>8, <1>9, <1>10 DEF Nested
  <1> QED
    BY <1>3, <1>11

LEMMA DepthReplace ==
    ASSUME NEW o, NEW n, Depth(o, n), NEW l, IsList(l),
           l.what \in Own <=> o[Len(o)].what \in Own, l.elseIf = o[Len(o)].elseIf,
           l.elseIf => l.what \in {"if", "else"},
           o[Len(o)].what = "parse" => l.what = "parse"
    PROVE  Depth([o EXCEPT ![Len(o)] = l], n)
  <1>1. PICK d : Nested(o, d) /\ d[Len(o)] = n
    BY DEF Depth
  <1>2. Nested([o EXCEPT ![Len(o)] = l], d)
    BY <1>1, NestedReplace
  <1>3. Len([o EXCEPT ![Len(o)] = l]) = Len(o)
    BY <1>1, Replacing DEF Nested
  <1> QED
    BY <1>1, <1>2, <1>3 DEF Depth

\* The lists down to the m-th.
LEMMA NestedCut ==
    ASSUME NEW o, NEW d, Nested(o, d), NEW m \in 1 .. Len(o)
    PROVE  /\ Nested(SubSeq(o, 1, m), [i \in 1 .. m |-> d[i]])
           /\ Depth(SubSeq(o, 1, m), d[m])
  <1>1. PICK q \in Nat : q = Len(o) /\ m \in Nat /\ 1 <= m /\ m <= q
    BY SeqBasics DEF Nested
  <1>2. PICK p : p = SubSeq(o, 1, m)
    OBVIOUS
  <1>3. IsSeq(p) /\ Len(p) = m /\ \A i \in 1 .. m : p[i] = o[i]
    BY <1>1, <1>2, Cutting DEF Nested
  <1>4. PICK e : e = [i \in 1 .. m |-> d[i]]
    OBVIOUS
  <1>5. /\ d \in [1 .. q -> Nat \ {0}]
        /\ \A i \in 2 .. q : o[i].what \in Own => d[i] = d[i - 1] + 1
        /\ \A i, j \in 1 .. q :
              i <= j /\ (\A k \in i + 1 .. j : o[k].what \notin Own) => d[j] = d[i]
        /\ \A i \in 1 .. q :
              /\ IsList(o[i])
              /\ o[i].elseIf => i > 1 /\ o[i].what \in {"if", "else"} /\ o[i - 1].what = "if"
    BY <1>1 DEF Nested
  <1>6. \A i \in 1 .. m : i \in 1 .. q
    BY <1>1
  <1>7. e \in [1 .. m -> Nat \ {0}] /\ \A i \in 1 .. m : e[i] = d[i]
    BY <1>4, <1>5, <1>6
  <1>8. \A i \in 1 .. m :
           /\ IsList(p[i])
           /\ p[i].elseIf => i > 1 /\ p[i].what \in {"if", "else"} /\ p[i - 1].what = "if"
    <2> SUFFICES ASSUME NEW i \in 1 .. m
                 PROVE /\ IsList(p[i])
                       /\ p[i].elseIf => i > 1 /\ p[i].what \in {"if", "else"} /\ p[i - 1].what = "if"
      OBVIOUS
    <2>1. i > 1 => i - 1 \in 1 .. m
      BY <1>1
    <2> QED
      BY <1>3, <1>5, <1>6, <2>1
  <1>9. \A i \in 2 .. m : p[i].what \in Own => e[i] = e[i - 1] + 1
    <2> SUFFICES ASSUME NEW i \in 2 .. m, p[i].what \in Own PROVE e[i] = e[i - 1] + 1
      OBVIOUS
    <2>1. i \in 1 .. m /\ i - 1 \in 1 .. m /\ i \in 2 .. q
      BY <1>1
    <2> QED
      BY <1>3, <1>5, <1>7, <2>1
  <1>10. \A i, j \in 1 .. m :
            i <= j /\ (\A k \in i + 1 .. j : p[k].what \notin Own) => e[j] = e[i]
    <2> SUFFICES ASSUME NEW i \in 1 .. m, NEW j \in 1 .. m, i <= j,
                        \A k \in i + 1 .. j : p[k].what \notin Own
                 PROVE  e[j] = e[i]
      OBVIOUS
    <2>1. \A k \in i + 1 .. j : k \in 1 .. m
      BY <1>1
    <2>2. \A k \in i + 1 .. j : o[k].what \notin Own
      BY <1>3, <2>1
    <2> QED
      BY <1>5, <1>6, <1>7, <2>2
  <1>11. p[1].what = "parse" /\ Len(p) >= 1
    <2>1. 1 \in 1 .. m /\ o[1].what = "parse"
      BY <1>1 DEF Nested
    <2> QED
      BY <1>1, <1>3, <2>1
  <1>12. Nested(p, e)
    BY <1>3, <1>7, <1>8, <1>9, <1>10, <1>11 DEF Nested
  <1>13. e[Len(p)] = d[m]
    BY <1>1, <1>3, <1>7
  <1> QED
    BY <1>2, <1>4, <1>12, <1>13 DEF Depth

LEMMA DepthCut ==
    ASSUME NEW o, NEW n, Depth(o, n), NEW m \in 1 .. Len(o),
           \A k \in m + 1 .. Len(o) : o[k].what \notin Own
    PROVE  Depth(SubSeq(o, 1, m), n)
  <1>1. PICK d : Nested(o, d) /\ d[Len(o)] = n
    BY DEF Depth
  <1>2. PICK q \in Nat : q = Len(o) /\ q >= 1
    BY DepthFacts
  <1>3. q \in 1 .. q /\ m \in 1 .. q /\ m <= q
    BY <1>2
  <1>4. d[q] = d[m]
    BY <1>1, <1>2, <1>3 DEF Nested
  <1> QED
    BY <1>1, <1>2, <1>4, NestedCut

LEMMA DepthCutOwn ==
    ASSUME NEW o, NEW n, Depth(o, n), o[Len(o)].what \in Own
    PROVE  Len(o) >= 2 /\ n >= 2 /\ Depth(SubSeq(o, 1, Len(o) - 1), n - 1)
  <1>1. PICK d : Nested(o, d) /\ d[Len(o)] = n
    BY DEF Depth
  <1>2. PICK q \in Nat : q = Len(o) /\ q >= 1 /\ o[1].what = "parse"
    BY DepthFacts
  <1>3. q # 1
    BY <1>2 DEF Own
  <1>4. q \in 2 .. q /\ q - 1 \in 1 .. q
    BY <1>2, <1>3
  <1>5. d[q] = d[q - 1] + 1 /\ d[q - 1] \in Nat \ {0}
    BY <1>1, <1>2, <1>4 DEF Nested
  <1>6. Depth(SubSeq(o, 1, q - 1), d[q - 1])
    BY <1>1, <1>2, <1>4, NestedCut
  <1>7. d[q - 1] = n - 1 /\ n >= 2
    BY <1>1, <1>2, <1>5
  <1> QED
    BY <1>2, <1>3, <1>6, <1>7

\* The ifs that an "else if" chain ends with one {{end}}.
LEMMA OutermostIs ==
    ASSUME NEW o, NEW n, Depth(o, n), o[Len(o)].what \notin Own \cup {"parse"}
    PROVE  LET m == Max({i \in DOMAIN o : ~o[i].elseIf}) IN
           /\ m \in 2 .. Len(o)
           /\ \A k \in m .. Len(o) : o[k].what \notin Own
           /\ m = Len(o) \/ o[m].what = "if"
  <1>1. PICK d : Nested(o, d) /\ d[Len(o)] = n
    BY DEF Depth
  <1>2. PICK q \in Nat : q = Len(o) /\ q >= 1 /\ DOMAIN o = 1 .. q
    BY DepthFacts, SeqBasics
  <1>3. PICK S : S = {i \in DOMAIN o : ~o[i].elseIf}
    OBVIOUS
  <1>4. \A i \in 1 .. q : o[i].elseIf => i > 1 /\ o[i].what \in {"if", "else"} /\ o[i - 1].what = "if"
    BY <1>1, <1>2 DEF Nested
  <1>5. 1 \in S
    <2>1. 1 \in 1 .. q /\ ~(1 > 1)
      BY <1>2
    <2> QED
      BY <1>2, <1>3, <1>4, <2>1
  <1>6. S \subseteq 1 .. q
    BY <1>2, <1>3
  <1>7. PICK m : m = Max(S)
    OBVIOUS
  <1>8. m \in S /\ \A i \in S : i <= m
    BY <1>5, <1>6, <1>7, MaxExists
  <1>9. m \in 1 .. q /\ \A k \in m + 1 .. q : o[k].elseIf
    BY <1>2, <1>3, <1>6, <1>8
  <1>10. \A k \in m + 1 .. q : o[k].what \notin Own /\ o[k - 1].what = "if"
    <2>1. \A k \in m + 1 .. q : k \in 1 .. q
      BY <1>9
    <2>2. \A k \in m + 1 .. q : o[k].what \in {"if", "else"} /\ o[k - 1].what = "if"
      BY <1>4, <1>9, <2>1, Zenon
    <2> QED
      BY <2>2 DEF Own
  <1>11. o[1].what = "parse"
    BY <1>1 DEF Nested
  <1>12. o[m].what \notin Own \cup {"parse"} /\ (m = q \/ o[m].what = "if")
    <2>1. CASE m = q
      BY <1>2, <2>1
    <2>2. CASE m < q
      <3>1. m + 1 \in m + 1 .. q /\ (m + 1) - 1 = m
        BY <1>9, <2>2
      <3>2. o[m].what = "if"
        BY <1>10, <3>1
      <3> QED
        BY <3>2 DEF Own
    <2>3. m = q \/ m < q
      BY <1>9
    <2> QED
      BY <2>1, <2>2, <2>3
  <1>13. m # 1
    BY <1>11, <1>12
  <1>14. \A k \in m .. q : o[k].what \notin Own
    <2> SUFFICES ASSUME NEW k \in m .. q PROVE o[k].what \notin Own
      OBVIOUS
    <2>1. k = m \/ k \in m + 1 .. q
      BY <1>9
    <2> QED
      BY <1>10, <1>12, <2>1
  <1> QED
    BY <1>2, <1>3, <1>7, <1>9, <1>12, <1>13, <1>14

LEMMA ListIs ==
    ASSUME NEW w PROVE IsList(List(w)) /\ List(w).what = w /\ List(w).elseIf = FALSE
  <1>1. List(w) \in ListSet({w}, {0}, {"empty"}) /\ List(w).what = w /\ List(w).elseIf = FALSE
    BY DEF List, ListSet
  <1> QED
    BY <1>1, Zenon DEF IsList

\* A list with another field.
LEMMA ListExcept ==
    ASSUME NEW l, IsList(l), NEW x
    PROVE  /\ /\ IsList([l EXCEPT !.vars = x])
              /\ [l EXCEPT !.vars = x].what = l.what /\ [l EXCEPT !.vars = x].elseIf = l.elseIf
           /\ /\ IsList([l EXCEPT !.class = x])
              /\ [l EXCEPT !.class = x].what = l.what /\ [l EXCEPT !.class = x].elseIf = l.elseIf
           /\ /\ IsList([l EXCEPT !.what = x])
              /\ [l EXCEPT !.what = x].what = x /\ [l EXCEPT !.what = x].elseIf = l.elseIf
  <1>1. PICK A, B, C : l \in ListSet(A, B, C)
    BY DEF IsList
  <1>2. /\ [l EXCEPT !.vars = x] \in ListSet(A, {x}, C)
        /\ [l EXCEPT !.vars = x].what = l.what /\ [l EXCEPT !.vars = x].elseIf = l.elseIf
    BY <1>1 DEF ListSet
  <1>3. /\ [l EXCEPT !.class = x] \in ListSet(A, B, {x})
        /\ [l EXCEPT !.class = x].what = l.what /\ [l EXCEPT !.class = x].elseIf = l.elseIf
    BY <1>1 DEF ListSet
  <1>4. /\ [l EXCEPT !.what = x] \in ListSet({x}, B, C)
        /\ [l EXCEPT !.what = x].what = x /\ [l EXCEPT !.what = x].elseIf = l.elseIf
    BY <1>1 DEF ListSet
  <1> QED
    BY <1>2, <1>3, <1>4, Zenon DEF IsList

LEMMA ElseIfList ==
    ASSUME NEW x
    PROVE  LET l == [List("if") EXCEPT !.elseIf = TRUE, !.vars = x] IN IsList(l) /\ l.what = "if"
  <1>1. LET l == [List("if") EXCEPT !.elseIf = TRUE, !.vars = x]
        IN  l \in ListSet({"if"}, {x}, {"empty"}) /\ l.what = "if"
    BY DEF List, ListSet
  <1> QED
    BY <1>1, Zenon DEF IsList

\* A node is appended to the list on top.
LEMMA DepthNode ==
    ASSUME NEW o, NEW n, Depth(o, n), NEW c
    PROVE  Depth(AppendNode(o, c), n)
  <1>1. PICK q \in Nat : q = Len(o) /\ q >= 1 /\ IsList(o[q])
                        /\ (o[q].elseIf => o[q].what \in {"if", "else"})
    <2>1. Len(o) \in 1 .. Len(o)
      BY DepthFacts
    <2> QED
      BY <2>1, DepthFacts
  <1>2. PICK l : l = [o[q] EXCEPT !.class = Joined(o[q].class, c)]
    OBVIOUS
  <1>3. IsList(l) /\ l.what = o[q].what /\ l.elseIf = o[q].elseIf
    BY <1>1, <1>2, ListExcept, Zenon
  <1>4. AppendNode(o, c) = [o EXCEPT ![Len(o)] = l]
    BY <1>1, <1>2 DEF AppendNode
  <1>5. Depth([o EXCEPT ![Len(o)] = l], n)
    BY <1>1, <1>3, DepthReplace
  <1> QED
    BY <1>4, <1>5

\* The list on top goes on as another kind of list.
LEMMA DepthWhat ==
    ASSUME NEW o, NEW n, Depth(o, n), o[Len(o)].what \notin Own \cup {"parse"},
           NEW w, w \notin Own, o[Len(o)].elseIf => w \in {"if", "else"}
    PROVE  Depth([o EXCEPT ![Len(o)].what = w], n)
  <1>1. PICK q \in Nat : q = Len(o) /\ q >= 1 /\ IsList(o[q])
    <2>1. Len(o) \in 1 .. Len(o)
      BY DepthFacts
    <2> QED
      BY <2>1, DepthFacts
  <1>2. PICK l : l = [o[q] EXCEPT !.what = w]
    OBVIOUS
  <1>3. IsList(l) /\ l.what = w /\ l.elseIf = o[q].elseIf
    BY <1>1, <1>2, ListExcept, ZenonT(60)
  <1>4. [o EXCEPT ![Len(o)].what = w] = [o EXCEPT ![Len(o)] = l]
    BY <1>1, <1>2
  <1>5. Depth([o EXCEPT ![Len(o)] = l], n)
    BY <1>1, <1>3, DepthReplace
  <1> QED
    BY <1>4, <1>5

-----------------------------------------------------------------------------
(* The invariant.  The lexer has nothing left to send once it has sent the *)
(* end of the text; a Tree holds the end of the text only after that; and  *)
(* as long as the parser runs there is a Tree, the one of the file: the    *)
(* stack of lists says how many there are.                                 *)

Quiet == lexState \in {"nil", "ended"}

TreesOK ==
    /\ IsSeq(trees)
    /\ \A i \in 1 .. Len(trees) : IsTree(trees[i]) /\ (HasEOF(trees[i]) => Quiet)

\* A definition's Tree is made before its list.
Headers == {"defineName", "defineDelim"}
DepthOK == \E n : Depth(open, n) /\ Len(trees) = IF at \in Headers THEN n + 1 ELSE n

ElseIfOK == at = "elseIf" => open[Len(open)].what = "if"

\* No token that may be put back is the end of the text.
HeldOK ==
    /\ at = "define?" => held[1].typ # "EOF"
    /\ at = "afterVariable" => \E h : held = <<h>> /\ h.typ # "EOF"
    /\ at = "declaration" => held[1].typ # "EOF" /\ (Len(held) = 2 => held[2].typ # "EOF")

Running == TreesOK /\ DepthOK /\ ElseIfOK /\ HeldOK
IInv == (result = "running" => Running) /\ LexerDone

Special == Headers \cup {"elseIf", "define?", "afterVariable", "declaration"}

LEMMA CurrentTree ==
    ASSUME Running
    PROVE  /\ IsSeq(trees) /\ Len(trees) \in Nat /\ Len(trees) >= 1 /\ T = trees[Len(trees)]
           /\ IsTree(T) /\ (HasEOF(T) => Quiet)
           /\ IsSeq(open) /\ Len(open) \in Nat /\ Len(open) >= 1 /\ Top = open[Len(open)]
  <1>1. PICK n : Depth(open, n) /\ Len(trees) = IF at \in Headers THEN n + 1 ELSE n
    BY DEF Running, DepthOK
  <1>2. n \in Nat /\ n >= 1 /\ IsSeq(open) /\ Len(open) \in Nat /\ Len(open) >= 1
    BY <1>1, DepthFacts
  <1>3. IsSeq(trees) /\ T = trees[Len(trees)] /\ Top = open[Len(open)]
    BY <1>2, SeqBasics DEF Running, TreesOK, T, Top
  <1>4. Len(trees) \in Nat /\ Len(trees) >= 1
    BY <1>1, <1>2
  <1>5. Len(trees) \in 1 .. Len(trees)
    BY <1>4
  <1> QED
    BY <1>2, <1>3, <1>4, <1>5 DEF Running, TreesOK

\* A token pending in a Tree is one of the three of its look-ahead.
LEMMA CurrentToken ==
    ASSUME Running, T.peekCount > 0, Cur.typ = "EOF"
    PROVE  Quiet
  <1>1. T.peekCount - 1 \in 0 .. 2
    BY CurrentTree, TreeFields
  <1>2. HasEOF(T)
    BY <1>1 DEF HasEOF, Cur
  <1> QED
    BY <1>2, CurrentTree

\* The current Tree becomes u.
LEMMA TreesMove ==
    ASSUME Running, NEW u, IsTree(u), HasEOF(u) => Quiet', Quiet => Quiet',
           trees' = [trees EXCEPT ![Len(trees)] = u]
    PROVE  TreesOK' /\ Len(trees') = Len(trees)
  <1>1. PICK m \in Nat : m = Len(trees) /\ m >= 1 /\ IsSeq(trees)
    BY CurrentTree
  <1>2. PICK p : p = trees'
    OBVIOUS
  <1>3. /\ IsSeq(p) /\ Len(p) = m /\ p[m] = u
        /\ \A i \in 1 .. m - 1 : p[i] = trees[i]
    <2>1. /\ IsSeq(p) /\ Len(p) = Len(trees)
          /\ \A i \in 1 .. Len(trees) - 1 : p[i] = trees[i]
          /\ Len(trees) > 0 => p[Len(trees)] = u
      BY <1>1, <1>2, Replacing, Zenon
    <2> QED
      BY <1>1, <2>1
  <1>4. \A i \in 1 .. m : IsTree(p[i]) /\ (HasEOF(p[i]) => Quiet')
    <2> SUFFICES ASSUME NEW i \in 1 .. m PROVE IsTree(p[i]) /\ (HasEOF(p[i]) => Quiet')
      OBVIOUS
    <2>1. CASE i = m
      BY <1>3, <2>1
    <2>2. CASE i \in 1 .. m - 1
      <3>1. p[i] = trees[i] /\ IsTree(trees[i]) /\ (HasEOF(trees[i]) => Quiet)
        BY <1>1, <1>3, <2>2 DEF Running, TreesOK
      <3> QED
        BY <3>1
    <2>3. i = m \/ i \in 1 .. m - 1
      OBVIOUS
    <2> QED
      BY <2>1, <2>2, <2>3, Zenon
  <1> QED
    BY <1>1, <1>2, <1>3, <1>4 DEF TreesOK

LEMMA QuietStays == ASSUME UNCHANGED lexVars PROVE Quiet' <=> Quiet
  BY DEF lexVars, Quiet

\* The parser goes on, in the same Tree.
LEMMA Moves ==
    ASSUME Running, result = "running", NEW u, NEW label, Derived(u, T), Go(u, label), DepthOK',
           ElseIfOK', HeldOK'
    PROVE  IInv'
  <1>1. trees' = [trees EXCEPT ![Len(trees)] = u] /\ UNCHANGED lexVars /\ result' = result
    BY DEF Go
  <1>2. IsTree(u) /\ (HasEOF(u) => Quiet') /\ (Quiet => Quiet')
    BY <1>1, QuietStays, CurrentTree DEF Derived
  <1>3. TreesOK'
    BY <1>1, <1>2, TreesMove
  <1>4. LexerDone'
    BY <1>1 DEF LexerDone
  <1> QED
    BY <1>1, <1>3, <1>4 DEF IInv, Running

\* The stack of lists is as deep as it was.
LEMMA DepthMoves ==
    ASSUME Running, NEW u, NEW label, Go(u, label),
           label \in Headers <=> at \in Headers,
           \A n : Depth(open, n) => Depth(open', n)
    PROVE  DepthOK'
  <1>1. Len(trees') = Len(trees) /\ at' = label
    <2>1. Len([trees EXCEPT ![Len(trees)] = u]) = Len(trees)
      BY CurrentTree, Replacing
    <2> QED
      BY <2>1 DEF Go
  <1>2. PICK n : Depth(open, n) /\ Len(trees) = IF at \in Headers THEN n + 1 ELSE n
    BY DEF Running, DepthOK
  <1>3. Depth(open', n) /\ Len(trees') = IF at' \in Headers THEN n + 1 ELSE n
    BY <1>1, <1>2
  <1> QED
    BY <1>3 DEF DepthOK

LEMMA Plainly ==
    ASSUME Running, result = "running", at \notin Headers,
           NEW u, NEW label, label \notin Special, Derived(u, T), Go(u, label),
           \A n : Depth(open, n) => Depth(open', n)
    PROVE  IInv'
  <1>1. at' = label /\ label \notin Headers
    BY DEF Go, Special
  <1>2. DepthOK'
    BY <1>1, DepthMoves
  <1>3. ElseIfOK' /\ HeldOK'
    BY <1>1 DEF ElseIfOK, HeldOK, Special
  <1> QED
    BY <1>2, <1>3, Moves

\* The tokens pending and taken.
LEMMA Look ==
    ASSUME Running
    PROVE  Derived(T, T) /\ (T.peekCount > 0 => Derived(next(T), T))
  BY CurrentTree, TreeItself, NextDerived

LEMMA Transitive ==
    ASSUME NEW t, NEW u, NEW v, Derived(u, t), Derived(v, u) PROVE Derived(v, t)
  BY DEF Derived

LEMMA Stops ==
    ASSUME NEW how \in {"failed", "runtime error", "panicking"}, Stop(how)
    PROVE  IInv'
  BY DEF Stop, IInv, LexerDone

LEMMA Fails == ASSUME Fail PROVE IInv'
  BY Stops DEF Fail

LEMMA AddingStops == ASSUME NEW name, NEW class, AddStops(name, class) PROVE IInv'
  BY Stops, Fails DEF AddStops

-----------------------------------------------------------------------------
(* The lexer.                                                              *)

\* Only the last item is the end of the text.
LEMMA ItemsEnd ==
    ASSUME NEW i, nextItem(i)
    PROVE  ~Quiet /\ (i.typ = "EOF" => Quiet')
  <1>1. CASE lexText(i) \/ lexEOF(i) \/ lexLeftDelim(i) \/ lexRightDelim(i) \/ lexError(i)
    BY <1>1 DEF lexText, lexEOF, lexLeftDelim, lexRightDelim, lexError, emit, Quiet
  <1>2. CASE lexSpace(i) \/ lexField(i) \/ lexVariable(i) \/ lexQuote(i) \/ lexNumber(i) \/ lexLeftParen(i)
             \/ lexRightParen(i)
    BY <1>2 DEF lexSpace, lexField, lexVariable, lexQuote, lexNumber, lexLeftParen, lexRightParen,
                Inside, emit, Quiet
  <1>3. CASE lexSign(i)
    BY <1>3, SignsType DEF lexSign, Inside, emit, Quiet
  <1>4. CASE lexIdentifier(i)
    BY <1>4, WordsType DEF lexIdentifier, Inside, emit, Quiet, Keywords
  <1> QED
    BY <1>1, <1>2, <1>3, <1>4 DEF nextItem

LEMMA LexIInv ==
    ASSUME IInv, Lex
    PROVE  IInv'
  <1>1. Quiet => Quiet'
    BY DEF Lex, LexStep, scan, lexComment, closeItems, Quiet
  <1>2. UNCHANGED parseVars
    BY DEF Lex
  <1>3. LexerDone'
    BY <1>1, <1>2 DEF parseVars, IInv, LexerDone, Quiet
  <1>4. ASSUME Running PROVE Running'
    <2>1. UNCHANGED <<trees, open, at, held>>
      BY <1>2 DEF parseVars
    <2>2. TreesOK'
      BY <1>1, <1>4, <2>1 DEF Running, TreesOK
    <2>3. DepthOK' /\ ElseIfOK' /\ HeldOK'
      BY <1>4, <2>1 DEF Running, DepthOK, ElseIfOK, HeldOK
    <2> QED
      BY <2>2, <2>3 DEF Running
  <1> QED
    BY <1>2, <1>3, <1>4 DEF IInv, parseVars

-----------------------------------------------------------------------------
(* The look-ahead and the end of the text.                                 *)

LEMMA ReceiveIInv ==
    ASSUME IInv, Receive
    PROVE  IInv'
  <1>1. Running /\ result = "running"
    BY DEF Receive, IInv
  <1>2. PICK x : /\ trees' = [trees EXCEPT ![Len(trees)] = fetched(T, x)]
                 /\ x.typ = "EOF" => Quiet'
                 /\ Quiet => Quiet'
    <2>1. ASSUME NEW i, nextItem(i),
                 trees' = [trees EXCEPT
                              ![Len(trees)] = fetched(T, [typ |-> i.typ, val |-> i.val, n |-> sent'])]
          PROVE  \E x : /\ trees' = [trees EXCEPT ![Len(trees)] = fetched(T, x)]
                        /\ x.typ = "EOF" => Quiet'
                        /\ Quiet => Quiet'
      <3>1. PICK x : x = [typ |-> i.typ, val |-> i.val, n |-> sent']
        OBVIOUS
      <3>2. x.typ = i.typ
        BY <3>1
      <3> QED
        BY <2>1, <3>1, <3>2, ItemsEnd
    <2>2. ASSUME lexState = "ended", UNCHANGED lexVars,
                 trees' = [trees EXCEPT ![Len(trees)] = fetched(T, ZeroItem)]
          PROVE  \E x : /\ trees' = [trees EXCEPT ![Len(trees)] = fetched(T, x)]
                        /\ x.typ = "EOF" => Quiet'
                        /\ Quiet => Quiet'
      <3>1. ZeroItem.typ # "EOF"
        BY DEF ZeroItem
      <3> QED
        BY <2>2, <3>1, QuietStays
    <2> QED
      BY <2>1, <2>2 DEF Receive
  <1>3. IsTree(fetched(T, x)) /\ (HasEOF(fetched(T, x)) => Quiet')
    BY <1>1, <1>2, CurrentTree, FetchedIs
  <1>4. TreesOK' /\ Len(trees') = Len(trees)
    BY <1>1, <1>2, <1>3, TreesMove
  <1>5. UNCHANGED <<open, at, held, result>>
    BY DEF Receive
  <1>6. DepthOK' /\ ElseIfOK' /\ HeldOK'
    BY <1>1, <1>4, <1>5 DEF Running, DepthOK, ElseIfOK, HeldOK
  <1>7. LexerDone'
    BY <1>1, <1>5 DEF LexerDone
  <1> QED
    BY <1>4, <1>6, <1>7 DEF IInv, Running

LEMMA SkipSpaceIInv ==
    ASSUME IInv, SkipSpace
    PROVE  IInv'
  <1>1. Running /\ result = "running" /\ T.peekCount > 0
    BY DEF SkipSpace, IInv
  <1>2. UNCHANGED <<open, held>> /\ Go(next(T), at)
    BY DEF SkipSpace, Go
  <1>3. Derived(next(T), T)
    BY <1>1, Look
  <1>4. DepthOK'
    BY <1>1, <1>2, DepthMoves
  <1>5. ElseIfOK' /\ HeldOK'
    BY <1>1, <1>2 DEF Go, Running, ElseIfOK, HeldOK
  <1> QED
    BY <1>1, <1>2, <1>3, <1>4, <1>5, Moves

LEMMA ParseEOFIInv ==
    ASSUME IInv, ParseEOF
    PROVE  IInv'
  <1>1. Running /\ result = "running" /\ T.peekCount > 0 /\ Cur.typ = "EOF"
    BY DEF ParseEOF, Parsing, IInv
  <1>2. Quiet
    BY <1>1, CurrentToken
  <1>3. CASE AddStops(T.name, Top.class)
    BY <1>3, AddingStops
  <1>4. CASE result' = "ok" /\ UNCHANGED lexVars
    <2>1. Quiet'
      BY <1>2, <1>4, QuietStays
    <2> QED
      BY <1>4, <2>1 DEF IInv, LexerDone, Quiet
  <1> QED
    BY <1>3, <1>4 DEF ParseEOF

LEMMA RecoverIInv ==
    ASSUME IInv, Recover
    PROVE  IInv'
  <1>1. CASE UNCHANGED result
    BY <1>1 DEF Recover, IInv, LexerDone
  <1>2. CASE lexState = "ended" /\ UNCHANGED lexVars /\ result' \in {"error", "panic"}
    BY <1>2 DEF IInv, LexerDone, lexVars
  <1> QED
    BY <1>1, <1>2 DEF Recover

-----------------------------------------------------------------------------
(* Definitions.                                                            *)

LEMMA ParseLeftDelimIInv ==
    ASSUME IInv, ParseLeftDelim
    PROVE  IInv'
  <1>1. Running /\ result = "running" /\ T.peekCount > 0 /\ at = "loop"
    BY DEF ParseLeftDelim, Parsing, IInv
  <1>2. Go(next(T), "define?") /\ open' = open /\ held' = <<Cur>> /\ Cur.typ = "LeftDelim"
    BY DEF ParseLeftDelim
  <1>3. DepthOK'
    BY <1>1, <1>2, DepthMoves DEF Headers
  <1>4. ElseIfOK' /\ HeldOK'
    <2>1. at' = "define?"
      BY <1>2 DEF Go
    <2>2. held'[1] = Cur
      BY <1>2
    <2> QED
      BY <1>2, <2>1, <2>2 DEF ElseIfOK, HeldOK
  <1> QED
    BY <1>1, <1>2, <1>3, <1>4, Look, Moves

LEMMA NotDefineIInv ==
    ASSUME IInv, NotDefine
    PROVE  IInv'
  <1>1. Running /\ result = "running" /\ at = "define?"
    BY DEF NotDefine, Parsing, IInv
  <1>2. held[1].typ # "EOF"
    BY <1>1 DEF Running, HeldOK
  <1>3. Derived(backup2(T, held[1]), T)
    BY <1>1, <1>2, CurrentTree, Backup2Derived
  <1> QED
    BY <1>1, <1>3, Plainly DEF NotDefine, Headers, Special

\* A Tree for a definition is put on top.
LEMMA TreesGrow ==
    ASSUME Running, NEW u, NEW x, Derived(u, T), UNCHANGED lexVars,
           trees' = Append([trees EXCEPT ![Len(trees)] = u], NewTree(x))
    PROVE  TreesOK' /\ Len(trees') = Len(trees) + 1
  <1>1. PICK m \in Nat : m = Len(trees) /\ m >= 1 /\ IsSeq(trees)
    BY CurrentTree
  <1>2. PICK p : p = [trees EXCEPT ![Len(trees)] = u]
    OBVIOUS
  <1>3. IsTree(u) /\ (HasEOF(u) => Quiet)
    BY CurrentTree DEF Derived
  <1>4. IsSeq(p) /\ Len(p) = m /\ \A i \in 1 .. m : IsTree(p[i]) /\ (HasEOF(p[i]) => Quiet)
    <2>1. /\ IsSeq(p) /\ Len(p) = Len(trees)
          /\ \A i \in 1 .. Len(trees) - 1 : p[i] = trees[i]
          /\ Len(trees) > 0 => p[Len(trees)] = u
      BY <1>1, <1>2, Replacing, Zenon
    <2>2. \A i \in 1 .. m : IsTree(trees[i]) /\ (HasEOF(trees[i]) => Quiet)
      BY <1>1 DEF Running, TreesOK
    <2>3. \A i \in 1 .. m : i = m \/ i \in 1 .. m - 1
      OBVIOUS
    <2> QED
      BY <1>1, <1>3, <2>1, <2>2, <2>3
  <1>5. PICK q : q = trees'
    OBVIOUS
  <1>6. /\ IsSeq(q) /\ Len(q) = m + 1 /\ q[m + 1] = NewTree(x)
        /\ \A i \in 1 .. m : q[i] = p[i]
    BY <1>2, <1>4, <1>5, Appending
  <1>7. \A i \in 1 .. m + 1 : IsTree(q[i]) /\ (HasEOF(q[i]) => Quiet)
    <2>1. \A i \in 1 .. m + 1 : i = m + 1 \/ i \in 1 .. m
      OBVIOUS
    <2> QED
      BY <1>4, <1>6, <2>1, NewTreeIs
  <1> QED
    BY <1>1, <1>5, <1>6, <1>7, QuietStays DEF TreesOK

LEMMA DefineIInv ==
    ASSUME IInv, Define
    PROVE  IInv'
  <1>1. Running /\ result = "running" /\ T.peekCount > 0 /\ at = "define?"
    BY DEF Define, Parsing, IInv
  <1>2. /\ trees' = Append([trees EXCEPT ![Len(trees)] = next(T)], NewTree(MainName))
        /\ at' = "defineName" /\ UNCHANGED lexVars /\ result' = result /\ open' = open
    BY DEF Define
  <1>3. TreesOK' /\ Len(trees') = Len(trees) + 1
    BY <1>1, <1>2, Look, TreesGrow
  <1>4. DepthOK'
    <2>1. PICK n : Depth(open, n) /\ Len(trees) = n
      BY <1>1 DEF Running, DepthOK, Headers
    <2>2. Len(trees') = n + 1 /\ at' \in Headers
      BY <1>2, <1>3, <2>1 DEF Headers
    <2> QED
      BY <1>2, <2>1, <2>2 DEF DepthOK
  <1>5. ElseIfOK' /\ HeldOK' /\ LexerDone'
    BY <1>1, <1>2 DEF ElseIfOK, HeldOK, LexerDone
  <1> QED
    BY <1>3, <1>4, <1>5 DEF IInv, Running

LEMMA DefineNameIInv ==
    ASSUME IInv, DefineName
    PROVE  IInv'
  <1>1. Running /\ result = "running" /\ T.peekCount > 0 /\ at = "defineName"
    BY DEF DefineName, Parsing, IInv
  <1>2. CASE Fail
    BY <1>2, Fails
  <1>3. CASE Go([next(T) EXCEPT !.name = Cur.val], "defineDelim") /\ open' = open
    <2>1. Derived([next(T) EXCEPT !.name = Cur.val], T)
      <3>1. Derived(next(T), T)
        BY <1>1, Look
      <3>2. Derived([next(T) EXCEPT !.name = Cur.val], next(T))
        BY <3>1, NamedDerived DEF Derived
      <3> QED
        BY <3>1, <3>2, Transitive
    <2>2. DepthOK'
      BY <1>1, <1>3, DepthMoves DEF Headers
    <2>3. ElseIfOK' /\ HeldOK'
      BY <1>3 DEF Go, ElseIfOK, HeldOK
    <2> QED
      BY <1>1, <1>3, <2>1, <2>2, <2>3, Moves
  <1> QED
    BY <1>2, <1>3 DEF DefineName

LEMMA DefineDelimIInv ==
    ASSUME IInv, DefineDelim
    PROVE  IInv'
  <1>1. Running /\ result = "running" /\ T.peekCount > 0 /\ at = "defineDelim"
    BY DEF DefineDelim, Parsing, IInv
  <1>2. CASE Fail
    BY <1>2, Fails
  <1>3. CASE Go(next(T), "loop") /\ open' = Append(open, List("define"))
    <2>1. PICK n : Depth(open, n) /\ Len(trees) = n + 1
      BY <1>1 DEF Running, DepthOK, Headers
    <2>2. Depth(open', n + 1)
      <3>1. IsList(List("define")) /\ List("define").what \in Own /\ ~List("define").elseIf
        BY ListIs DEF Own
      <3> QED
        BY <1>3, <2>1, <3>1, DepthAppend
    <2>3. Len(trees') = Len(trees)
      BY <1>1, <1>3, CurrentTree, Replacing DEF Go
    <2>4. at' = "loop"
      BY <1>3 DEF Go
    <2>5. DepthOK'
      BY <2>1, <2>2, <2>3, <2>4 DEF DepthOK, Headers
    <2>6. ElseIfOK' /\ HeldOK'
      BY <2>4 DEF ElseIfOK, HeldOK
    <2> QED
      BY <1>1, <1>3, <2>5, <2>6, Look, Moves
  <1> QED
    BY <1>2, <1>3 DEF DefineDelim

-----------------------------------------------------------------------------
(* Nodes, keywords and the ends of lists.                                  *)

LEMMA PlainNext ==
    ASSUME Running, result = "running", at \notin Headers,
           NEW label, label \notin Special,
           Go(T, label) \/ (T.peekCount > 0 /\ Go(next(T), label)),
           \A n : Depth(open, n) => Depth(open', n)
    PROVE  IInv'
  BY Look, Plainly

LEMMA NodesIInv ==
    ASSUME IInv, Text \/ LeftDelim \/ UnexpectedInput
    PROVE  IInv'
  <1>1. CASE UnexpectedInput
    BY <1>1, Fails DEF UnexpectedInput
  <1>2. ASSUME TextOrAction PROVE Running /\ result = "running" /\ T.peekCount > 0 /\ at \notin Headers
    BY <1>2 DEF TextOrAction, Parsing, IInv, Headers
  <1>3. CASE Text
    <2>1. Running /\ result = "running" /\ T.peekCount > 0 /\ at \notin Headers
      BY <1>2, <1>3 DEF Text
    <2>2. Go(next(T), "loop") /\ \E c : open' = AppendNode(open, c)
      BY <1>3 DEF Text
    <2>3. \A n : Depth(open, n) => Depth(open', n)
      BY <2>2, DepthNode
    <2> QED
      BY <2>1, <2>2, <2>3, PlainNext DEF Special, Headers
  <1>4. CASE LeftDelim
    <2>1. Running /\ result = "running" /\ T.peekCount > 0 /\ at \notin Headers
      BY <1>2, <1>4 DEF LeftDelim
    <2>2. Go(next(T), "action") /\ open' = open
      BY <1>4 DEF LeftDelim
    <2> QED
      BY <2>1, <2>2, PlainNext DEF Special, Headers
  <1> QED
    BY <1>1, <1>3, <1>4

LEMMA ControlsAre ==
    \A x \in DOMAIN Controls : Controls[x] \in {"if", "range", "with"}
  BY DEF Controls

LEMMA ClausesAre ==
    \A x \in DOMAIN Clauses : Clauses[x] \notin Special
  BY DEF Clauses, Special, Headers

\* A list for which no Tree is made.
LEMMA DepthPush ==
    ASSUME NEW w, w \notin Own, NEW l, IsList(l), l.what = w, ~l.elseIf, open' = Append(open, l)
    PROVE  \A n : Depth(open, n) => Depth(open', n)
  BY DepthAppend

LEMMA KeywordsIInv ==
    ASSUME IInv, Control \/ Clause \/ Command \/ Try
    PROVE  IInv'
  <1>1. CASE Control
    <2>1. Running /\ result = "running" /\ T.peekCount > 0 /\ at \notin Headers
      BY <1>1 DEF Control, Parsing, IInv, Headers
    <2>2. PICK w \in {"if", "range", "with"} :
             open' = Append(open, [List(w) EXCEPT !.vars = Len(T.vars)])
      BY <1>1, ControlsAre DEF Control
    <2>3. PICK l : l = [List(w) EXCEPT !.vars = Len(T.vars)]
      OBVIOUS
    <2>4. IsList(l) /\ l.what = w /\ ~l.elseIf /\ w \notin Own
      <3>1. PICK k : k = List(w) /\ IsList(k) /\ k.what = w /\ k.elseIf = FALSE
        BY ListIs
      <3>2. PICK x : l = [k EXCEPT !.vars = x]
        BY <2>3, <3>1
      <3>3. PICK A, B, C : k \in ListSet(A, B, C)
        BY <3>1 DEF IsList
      <3>4. l \in ListSet(A, {x}, C) /\ l.what = k.what /\ l.elseIf = k.elseIf
        BY <3>2, <3>3 DEF ListSet
      <3>5. IsList(l)
        BY <3>4, Zenon DEF IsList
      <3> QED
        BY <3>1, <3>4, <3>5 DEF Own
    <2>5. \A n : Depth(open, n) => Depth(open', n)
      BY <2>2, <2>3, <2>4, DepthPush
    <2>6. Go(next(T), "pipeline")
      BY <1>1 DEF Control
    <2> QED
      BY <2>1, <2>5, <2>6, PlainNext DEF Special, Headers
  <1>2. CASE Clause
    <2>1. Running /\ result = "running" /\ T.peekCount > 0 /\ at \notin Headers
      BY <1>2 DEF Clause, Parsing, IInv, Headers
    <2>2. PICK label : label \notin Special /\ Go(next(T), label) /\ open' = open
      BY <1>2, ClausesAre DEF Clause
    <2> QED
      BY <2>1, <2>2, PlainNext
  <1>3. CASE Command
    <2>1. Running /\ result = "running" /\ at \notin Headers
      BY <1>3 DEF Command, Parsing, IInv, Headers
    <2>2. Go(T, "pipeline") /\ open' = open
      BY <1>3 DEF Command
    <2> QED
      BY <2>1, <2>2, PlainNext DEF Special, Headers
  <1>4. CASE Try
    <2>1. Running /\ result = "running" /\ T.peekCount > 0 /\ at \notin Headers
      BY <1>4 DEF Try, Parsing, IInv, Headers
    <2>2. CASE Fail
      BY <2>2, Fails
    <2>3. CASE open' = Append(open, List("try")) /\ Go(next(T), "loop")
      <3>1. "try" \notin Own
        BY DEF Own
      <3>2. \A n : Depth(open, n) => Depth(open', n)
        BY <2>3, <3>1, ListIs, DepthPush
      <3> QED
        BY <2>1, <2>3, <3>2, PlainNext DEF Special, Headers
    <2> QED
      BY <1>4, <2>2, <2>3 DEF Try
  <1> QED
    BY <1>1, <1>2, <1>3, <1>4

LEMMA NamesIInv ==
    ASSUME IInv, BlockName \/ TemplateName \/ BadName \/ TemplatePipe
    PROVE  IInv'
  <1>1. CASE BlockName \/ TemplateName
    <2>1. Running /\ result = "running" /\ T.peekCount > 0 /\ at \notin Headers
      BY <1>1 DEF BlockName, TemplateName, Named, Parsing, IInv, Headers
    <2>2. PICK label \in {"pipeline", "templatePipe"} : Go(next(T), label) /\ open' = open
      BY <1>1 DEF BlockName, TemplateName
    <2>3. label \notin Special
      BY DEF Special, Headers
    <2> QED
      BY <2>1, <2>2, <2>3, PlainNext
  <1>2. CASE BadName
    BY <1>2, Fails DEF BadName
  <1>3. CASE TemplatePipe
    <2>1. Running /\ result = "running" /\ T.peekCount > 0 /\ at \notin Headers
      BY <1>3 DEF TemplatePipe, Parsing, IInv, Headers
    <2>2. CASE Go(next(T), "loop") /\ open' = AppendNode(open, "full")
      BY <2>1, <2>2, DepthNode, PlainNext DEF Special, Headers
    <2>3. CASE Go(T, "pipeline") /\ open' = open
      BY <2>1, <2>3, PlainNext DEF Special, Headers
    <2> QED
      BY <1>3, <2>2, <2>3 DEF TemplatePipe
  <1> QED
    BY <1>1, <1>2, <1>3

LEMMA EndsIInv ==
    ASSUME IInv, EndControl \/ ElseControl \/ CatchControl
    PROVE  IInv'
  <1>1. Running /\ result = "running" /\ T.peekCount > 0 /\ at \notin Headers
    BY DEF EndControl, ElseControl, CatchControl, Parsing, IInv, Headers
  <1>2. \/ Fail
        \/ \E label \in {"End", "Else", "catchName", "Catch"} :
              (Go(next(T), label) \/ Go(T, label)) /\ open' = open
    BY DEF EndControl, ElseControl, CatchControl, Delimiter
  <1>3. \A label \in {"End", "Else", "catchName", "Catch"} : label \notin Special
    BY DEF Special, Headers
  <1> QED
    BY <1>1, <1>2, <1>3, Fails, PlainNext

-----------------------------------------------------------------------------
(* What becomes of a list that has ended.                                  *)

LEMMA RestartIInv ==
    ASSUME IInv, TopLevelEnd \/ TopLevelCatch \/ NoEndOfDefinition \/ NoEnd \/ MissingCatch
    PROVE  IInv'
  <1>1. CASE TopLevelCatch
    <2>1. Running /\ result = "running" /\ at \notin Headers
      BY <1>1 DEF TopLevelCatch, Ends, IInv, Headers
    <2>2. Go(T, "loop") /\ open' = AppendNode(open, "unknown")
      BY <1>1 DEF TopLevelCatch
    <2> QED
      BY <2>1, <2>2, DepthNode, PlainNext DEF Special, Headers
  <1>2. CASE TopLevelEnd \/ NoEndOfDefinition \/ NoEnd
    BY <1>2, Fails DEF TopLevelEnd, NoEndOfDefinition, NoEnd
  <1>3. CASE MissingCatch
    BY <1>3, Stops DEF MissingCatch
  <1> QED
    BY <1>1, <1>2, <1>3

LEMMA EndDefinitionIInv ==
    ASSUME IInv, EndDefinition
    PROVE  IInv'
  <1>1. Running /\ result = "running" /\ at = "End" /\ Top.what \in Own
    BY DEF EndDefinition, Ends, IInv, Own
  <1>2. CASE AddStops(T.name, Top.class)
    BY <1>2, AddingStops
  <1>3. CASE /\ trees' = Front(trees)
             /\ open' = IF Top.what = "block" THEN AppendNode(Front(open), "full") ELSE Front(open)
             /\ at' = "loop"
             /\ UNCHANGED lexVars /\ result' = result
    <2>1. PICK n : Depth(open, n) /\ Len(trees) = n
      BY <1>1 DEF Running, DepthOK, Headers
    <2>2. n >= 2 /\ n \in Nat /\ Depth(Front(open), n - 1)
      <3>1. open[Len(open)].what \in Own
        BY <1>1, CurrentTree
      <3> QED
        BY <2>1, <3>1, DepthFacts, DepthCutOwn DEF Front
    <2>3. Depth(open', n - 1)
      BY <1>3, <2>2, DepthNode
    <2>4. PICK p : p = trees'
      OBVIOUS
    <2>5. IsSeq(p) /\ Len(p) = n - 1 /\ \A i \in 1 .. n - 1 : p[i] = trees[i]
      <3>1. IsSeq(trees) /\ n - 1 \in Nat /\ n - 1 <= Len(trees)
        BY <1>1, <2>1, <2>2, CurrentTree
      <3>2. p = SubSeq(trees, 1, n - 1)
        BY <1>3, <2>1, <2>4 DEF Front
      <3> QED
        BY <3>1, <3>2, Cutting
    <2>6. \A i \in 1 .. n - 1 : IsTree(p[i]) /\ (HasEOF(p[i]) => Quiet)
      <3>1. \A i \in 1 .. n - 1 : i \in 1 .. n
        BY <2>2
      <3> QED
        BY <1>1, <2>1, <2>5, <3>1 DEF Running, TreesOK
    <2>7. TreesOK'
      BY <1>3, <2>4, <2>5, <2>6, QuietStays DEF TreesOK
    <2>8. DepthOK' /\ ElseIfOK' /\ HeldOK' /\ LexerDone'
      BY <1>1, <1>3, <2>3, <2>4, <2>5 DEF DepthOK, Headers, ElseIfOK, HeldOK, LexerDone
    <2> QED
      BY <2>7, <2>8 DEF IInv, Running
  <1> QED
    BY <1>2, <1>3 DEF EndDefinition

\* An if with its else ifs, a range, a with or a try has ended.
LEMMA CloseIInv ==
    ASSUME IInv, EndIf \/ EndCatch
    PROVE  IInv'
  <1>1. Running /\ result = "running" /\ at \in Nodes /\ Top.what \notin Own \cup {"parse"}
    BY DEF EndIf, EndCatch, Ends, IInv, Nodes, Own
  <1>2. PICK class : Close(class) /\ Continue
    BY DEF EndIf, EndCatch
  <1>3. UNCHANGED lexVars /\ result' = result /\ at' = "loop"
    BY <1>2 DEF Continue
  <1>4. PICK n : Depth(open, n) /\ Len(trees) = n
    BY <1>1 DEF Running, DepthOK, Headers, Nodes
  <1>5. PICK q \in Nat : q = Len(open) /\ open[q].what \notin Own \cup {"parse"}
    BY <1>1, CurrentTree
  <1>6. PICK m : m = Outermost
    OBVIOUS
  <1>7. m \in 2 .. q /\ \A k \in m .. q : open[k].what \notin Own
    BY <1>4, <1>5, <1>6, OutermostIs DEF Outermost
  <1>8. Depth(SubSeq(open, 1, m - 1), n)
    <2>1. m - 1 \in 1 .. Len(open)
      BY <1>5, <1>7
    <2>2. \A k \in (m - 1) + 1 .. Len(open) : open[k].what \notin Own
      BY <1>5, <1>7
    <2> QED
      BY <1>4, <2>1, <2>2, DepthCut
  <1>9. Depth(open', n)
    BY <1>2, <1>6, <1>8, DepthNode DEF Close
  <1>10. PICK u : Derived(u, T) /\ trees' = [trees EXCEPT ![Len(trees)] = u]
    <2>1. CASE trees' = trees
      <3>1. trees = [trees EXCEPT ![Len(trees)] = T]
        <4>1. PICK S : trees \in Seq(S)
          BY <1>1, CurrentTree DEF IsSeq
        <4> QED
          BY <1>1, <4>1, CurrentTree
      <3> QED
        BY <1>1, <2>1, <3>1, Look
    <2>2. ASSUME NEW v, trees' = [trees EXCEPT ![Len(trees)] = [T EXCEPT !.vars = v]]
          PROVE  \E u : Derived(u, T) /\ trees' = [trees EXCEPT ![Len(trees)] = u]
      BY <1>1, <2>2, CurrentTree, NamedDerived
    <2>3. \/ trees' = trees
          \/ trees' = [trees EXCEPT
                          ![Len(trees)] = [T EXCEPT !.vars = SubSeq(T.vars, 1, open[Outermost].vars)]]
      BY <1>2 DEF Close
    <2> QED
      BY <2>1, <2>2, <2>3
  <1>11. TreesOK' /\ Len(trees') = Len(trees)
    BY <1>1, <1>3, <1>10, CurrentTree, QuietStays, TreesMove DEF Derived
  <1>12. DepthOK' /\ ElseIfOK' /\ HeldOK' /\ LexerDone'
    BY <1>1, <1>3, <1>4, <1>9, <1>11 DEF DepthOK, Headers, ElseIfOK, HeldOK, LexerDone
  <1> QED
    BY <1>11, <1>12 DEF IInv, Running

LEMMA ElseIInv ==
    ASSUME IInv, ElseIf \/ ElseIfIf \/ Else \/ Catch
    PROVE  IInv'
  <1>1. Running /\ result = "running" /\ at \notin Headers
    BY DEF ElseIf, ElseIfIf, Else, Catch, Parsing, Ends, IInv, Headers
  <1>2. CASE ElseIf
    <2>1. Go(T, "elseIf") /\ open' = open /\ Top.what = "if"
      BY <1>2 DEF ElseIf
    <2>2. DepthOK'
      BY <1>1, <2>1, DepthMoves DEF Headers
    <2>3. ElseIfOK' /\ HeldOK'
      BY <1>1, <2>1, CurrentTree DEF Go, ElseIfOK, HeldOK
    <2> QED
      BY <1>1, <2>1, <2>2, <2>3, Look, Moves
  <1>3. CASE ElseIfIf
    <2>1. T.peekCount > 0 /\ Go(next(T), "pipeline") /\ at = "elseIf"
      BY <1>3 DEF ElseIfIf, Parsing
    <2>2. PICK l : l = [List("if") EXCEPT !.elseIf = TRUE, !.vars = Len(T.vars)]
      OBVIOUS
    <2>3. IsList(l) /\ l.what = "if" /\ open' = Append(open, l)
      BY <1>3, <2>2, ElseIfList DEF ElseIfIf
    <2>4. open[Len(open)].what = "if"
      BY <1>1, <2>1 DEF Running, ElseIfOK
    <2>5. \A n : Depth(open, n) => Depth(open', n)
      <3>1. "if" \notin Own
        BY DEF Own
      <3> QED
        BY <2>3, <2>4, <3>1, DepthAppend
    <2> QED
      BY <1>1, <2>1, <2>5, PlainNext DEF Special, Headers
  <1>4. CASE Else \/ Catch
    <2>1. Go(T, "loop")
      BY <1>4 DEF Else, Catch
    <2>2. PICK w \in {"else", "catch"} :
             /\ open' = [open EXCEPT ![Len(open)].what = w]
             /\ open[Len(open)].what \in {"if", "range", "with", "try"}
             /\ w = "catch" => open[Len(open)].what = "try"
      <3>1. CASE Else
        <4>1. at = "elseIf" \/ Top.what \in {"range", "with"}
          BY <3>1 DEF Else, Parsing
        <4>2. open[Len(open)].what \in {"if", "range", "with"}
          BY <1>1, <4>1, CurrentTree DEF Running, ElseIfOK
        <4> QED
          BY <3>1, <4>2 DEF Else
      <3>2. CASE Catch
        BY <1>1, <3>2, CurrentTree DEF Catch
      <3> QED
        BY <1>4, <3>1, <3>2
    <2>3. \A n : Depth(open, n) => Depth(open', n)
      <3> SUFFICES ASSUME NEW n, Depth(open, n) PROVE Depth(open', n)
        OBVIOUS
      <3>1. w \notin Own /\ open[Len(open)].what \notin Own \cup {"parse"}
        BY <2>2 DEF Own
      <3>2. open[Len(open)].elseIf => w \in {"if", "else"}
        <4>1. Len(open) \in 1 .. Len(open)
          BY DepthFacts
        <4>2. open[Len(open)].elseIf => open[Len(open)].what \in {"if", "else"}
          BY <4>1, DepthFacts
        <4> QED
          BY <2>2, <4>2
      <3> QED
        BY <2>2, <3>1, <3>2, DepthWhat
    <2> QED
      BY <1>1, <2>1, <2>3, PlainNext DEF Special, Headers
  <1> QED
    BY <1>2, <1>3, <1>4

-----------------------------------------------------------------------------
(* Pipelines.                                                              *)

LEMMA PipelineIInv ==
    ASSUME IInv, Pipeline
    PROVE  IInv'
  <1>1. Running /\ result = "running" /\ T.peekCount > 0 /\ at = "pipeline"
    BY DEF Pipeline, Parsing, IInv
  <1>2. CASE Cur.typ = "Variable" /\ held' = <<Cur>> /\ Go(next(T), "afterVariable") /\ open' = open
    <2>1. DepthOK'
      BY <1>1, <1>2, DepthMoves DEF Headers
    <2>2. ElseIfOK' /\ HeldOK'
      BY <1>2 DEF Go, ElseIfOK, HeldOK
    <2> QED
      BY <1>1, <1>2, <2>1, <2>2, Look, Moves
  <1>3. CASE Go(T, "commands") /\ open' = open
    BY <1>1, <1>3, PlainNext DEF Special, Headers
  <1> QED
    BY <1>2, <1>3 DEF Pipeline

LEMMA AfterVariableIInv ==
    ASSUME IInv, AfterVariable
    PROVE  IInv'
  <1>1. Running /\ result = "running" /\ T.peekCount > 0 /\ at = "afterVariable"
    BY DEF AfterVariable, Parsing, IInv
  <1>2. PICK h : held = <<h>> /\ h.typ # "EOF"
    BY <1>1 DEF Running, HeldOK
  <1>3. PICK u : Derived(u, T) /\ Go(u, "declaration") /\ open' = open
    BY <1>1, Look DEF AfterVariable
  <1>4. at' = "declaration"
    BY <1>3 DEF Go
  <1>5. held'[1].typ # "EOF" /\ (Len(held') = 2 => held'[2].typ # "EOF")
    <2>1. CASE Cur.typ = "Space" /\ held' = Append(held, Cur)
      <3>1. PICK c : c = Cur
        OBVIOUS
      <3>2. PICK s : s = <<h>> /\ IsSeq(s) /\ Len(s) = 1 /\ s[1] = h
        BY OneIsSeq
      <3>3. held'[1] = h /\ held'[2] = c
        <4>1. held' = Append(s, c)
          BY <1>2, <2>1, <3>1, <3>2
        <4>2. Append(s, c)[Len(s) + 1] = c /\ \A i \in 1 .. Len(s) : Append(s, c)[i] = s[i]
          BY <3>2, Appending
        <4> QED
          BY <3>2, <4>1, <4>2
      <3> QED
        BY <1>2, <2>1, <3>1, <3>3
    <2>2. CASE held' = held
      <3>1. held'[1] = h /\ Len(held') = 1
        BY <1>2, <2>2
      <3> QED
        BY <1>2, <3>1
    <2> QED
      BY <2>1, <2>2 DEF AfterVariable
  <1>6. DepthOK'
    BY <1>1, <1>3, DepthMoves DEF Headers
  <1>7. ElseIfOK' /\ HeldOK'
    BY <1>4, <1>5 DEF ElseIfOK, HeldOK
  <1> QED
    BY <1>1, <1>3, <1>6, <1>7, Moves

LEMMA DeclarationsIInv ==
    ASSUME IInv, Declaration \/ TooManyDeclarations \/ NoDeclaration
    PROVE  IInv'
  <1>1. CASE TooManyDeclarations
    BY <1>1, Fails DEF TooManyDeclarations
  <1>2. CASE Declaration
    <2>1. Running /\ result = "running" /\ T.peekCount > 0 /\ at = "declaration"
      BY <1>2 DEF Declaration, Parsing, IInv
    <2>2. PICK u, label :
             /\ Derived(u, T) /\ Go(u, label) /\ open' = open
             /\ label \in {"pipeline", "commands"}
      <3>1. Derived(next(T), T)
        BY <2>1, Look
      <3>2. \A v : Derived([next(T) EXCEPT !.vars = v], T)
        BY <3>1, NamedDerived, Transitive DEF Derived
      <3>3. PICK w : w = next(T)
        OBVIOUS
      <3>4. PICK v : v = Append(w.vars, held[1].val)
        OBVIOUS
      <3>5. PICK label : label = IF Comma THEN "pipeline" ELSE "commands"
        OBVIOUS
      <3>6. Go([w EXCEPT !.vars = v], label) /\ open' = open
        BY <1>2, <3>3, <3>4, <3>5 DEF Declaration
      <3>7. PICK u : u = [w EXCEPT !.vars = v]
        OBVIOUS
      <3>8. Derived(u, T)
        BY <3>2, <3>3, <3>7
      <3>9. Go(u, label) /\ open' = open
        BY <3>6, <3>7
      <3>10. label \in {"pipeline", "commands"}
        BY <3>5
      <3> QED
        BY <3>8, <3>9, <3>10, Zenon
    <2>3. label \notin Special
      BY <2>2 DEF Special, Headers
    <2> QED
      BY <2>1, <2>2, <2>3, Plainly DEF Headers
  <1>3. CASE NoDeclaration
    <2>1. Running /\ result = "running" /\ T.peekCount > 0 /\ at = "declaration"
      BY <1>3 DEF NoDeclaration, Parsing, IInv
    <2>2. held[1].typ # "EOF" /\ (Len(held) = 2 => held[2].typ # "EOF")
      BY <2>1 DEF Running, HeldOK
    <2>3. PICK u : Derived(u, T) /\ Go(u, "commands") /\ open' = open
      <3>1. CASE Len(held) = 2
        BY <1>3, <2>1, <2>2, <3>1, CurrentTree, Backup3Derived DEF NoDeclaration
      <3>2. CASE Len(held) # 2
        BY <1>3, <2>1, <2>2, <3>2, CurrentTree, Backup2Derived DEF NoDeclaration
      <3> QED
        BY <3>1, <3>2
    <2> QED
      BY <2>1, <2>3, Plainly DEF Special, Headers
  <1> QED
    BY <1>1, <1>2, <1>3

LEMMA PipelineEndsIInv ==
    ASSUME IInv, ParenPipeline \/ ActionNode \/ ControlNode
    PROVE  IInv'
  <1>1. Running /\ result = "running" /\ T.peekCount > 0 /\ at = "commands"
    BY DEF ParenPipeline, ActionNode, ControlNode, PipelineEnds, Parsing, IInv
  <1>2. Derived(Rest, T)
    BY <1>1, Look DEF Rest
  <1>3. PICK label \in {"rightParen", "loop"} : Go(Rest, label)
    BY DEF ParenPipeline, ActionNode, ControlNode, PipelineEnds, SetRest, Go
  <1>4. label \notin Special
    BY DEF Special, Headers
  <1>5. \A n : Depth(open, n) => Depth(open', n)
    BY DepthNode DEF ParenPipeline, ActionNode, ControlNode
  <1> QED
    BY <1>1, <1>2, <1>3, <1>4, <1>5, Plainly DEF Headers

LEMMA BlockTreeIInv ==
    ASSUME IInv, BlockTree
    PROVE  IInv'
  <1>1. Running /\ result = "running" /\ T.peekCount > 0 /\ at = "commands"
    BY DEF BlockTree, PipelineEnds, Parsing, IInv
  <1>2. /\ trees' = Append([trees EXCEPT ![Len(trees)] = Rest], NewTree(P.name))
        /\ at' = "loop" /\ UNCHANGED lexVars /\ result' = result
        /\ open' = Append(open, List("block"))
    BY DEF BlockTree, PipelineEnds
  <1>3. Derived(Rest, T)
    BY <1>1, Look DEF Rest
  <1>4. TreesOK' /\ Len(trees') = Len(trees) + 1
    BY <1>1, <1>2, <1>3, TreesGrow
  <1>5. DepthOK'
    <2>1. PICK n : Depth(open, n) /\ Len(trees) = n
      BY <1>1 DEF Running, DepthOK, Headers
    <2>2. IsList(List("block")) /\ List("block").what \in Own /\ ~List("block").elseIf
      BY ListIs DEF Own
    <2>3. Depth(open', n + 1)
      BY <1>2, <2>1, <2>2, DepthAppend
    <2> QED
      BY <1>2, <1>4, <2>1, <2>3 DEF DepthOK, Headers
  <1>6. ElseIfOK' /\ HeldOK' /\ LexerDone'
    BY <1>1, <1>2 DEF ElseIfOK, HeldOK, LexerDone
  <1> QED
    BY <1>4, <1>5, <1>6 DEF IInv, Running

LEMMA TermsIInv ==
    ASSUME IInv,
           \/ FirstOperand \/ BadPipeline \/ Term \/ BadTerm \/ Paren \/ NoTerm \/ RightParen
           \/ Chain \/ BadChain \/ NextOperand \/ CommandEnds \/ BadCommand
    PROVE  IInv'
  <1>1. CASE Fail
    BY <1>1, Fails
  <1>2. CASE Term
    <2>1. Running /\ result = "running" /\ T.peekCount > 0 /\ at = "term"
      BY <1>2 DEF Term, Parsing, IInv
    <2>2. PICK u : Derived(u, T) /\ Go(u, "chain") /\ open' = open
      <3>1. Derived(next(T), T)
        BY <2>1, Look
      <3>2. \A v : Derived([next(T) EXCEPT !.vars = v], T)
        BY <3>1, NamedDerived, Transitive DEF Derived
      <3>3. CASE Cur.typ = "Variable"
        BY <1>2, <3>2, <3>3 DEF Term
      <3>4. CASE Cur.typ # "Variable"
        BY <1>2, <3>1, <3>4 DEF Term
      <3> QED
        BY <3>3, <3>4
    <2> QED
      BY <2>1, <2>2, Plainly DEF Special, Headers
  <1>3. CASE FirstOperand \/ Paren \/ NoTerm \/ (RightParen /\ ~Fail) \/ Chain \/ NextOperand \/ CommandEnds
    <2>1. /\ Running /\ result = "running" /\ T.peekCount > 0
          /\ at \in {"commands", "term", "rightParen", "chain", "afterOperand"}
      BY <1>3 DEF FirstOperand, Paren, NoTerm, RightParen, Chain, NextOperand, CommandEnds, Parsing, IInv
    <2>2. PICK label \in {"commands", "term", "pipeline", "chain", "afterOperand"} :
             (Go(T, label) \/ Go(next(T), label)) /\ open' = open
      BY <1>3 DEF FirstOperand, Paren, NoTerm, RightParen, Chain, NextOperand, CommandEnds
    <2>3. label \notin Special /\ at \notin Headers
      BY <2>1 DEF Special, Headers
    <2> QED
      BY <2>1, <2>2, <2>3, PlainNext
  <1> QED
    BY <1>1, <1>2, <1>3 DEF BadPipeline, BadTerm, BadChain, BadCommand

-----------------------------------------------------------------------------

LEMMA InitIInv == ASSUME Init PROVE IInv
  <1>1. PICK t : t = NewTree(MainName) /\ IsTree(t) /\ ~HasEOF(t)
    BY NewTreeIs
  <1>2. IsSeq(trees) /\ Len(trees) = 1 /\ trees[1] = t
    BY <1>1, OneIsSeq DEF Init
  <1>3. TreesOK
    BY <1>1, <1>2 DEF TreesOK
  <1>4. DepthOK
    BY <1>2, DepthAtFirst DEF Init, DepthOK, Headers
  <1> QED
    BY <1>3, <1>4 DEF Init, IInv, Running, ElseIfOK, HeldOK, LexerDone

LEMMA NextIInv == ASSUME IInv, [Next]_vars PROVE IInv'
  <1>1. CASE UNCHANGED vars
    BY <1>1 DEF vars, lexVars, parseVars, IInv, Running, TreesOK, DepthOK, ElseIfOK, HeldOK, LexerDone, Quiet
  <1>2. CASE Lex
    BY <1>2, LexIInv
  <1>3. CASE Done
    BY <1>1, <1>3 DEF Done
  <1>4. CASE ParseNext
    <2>1. CASE Receive \/ SkipSpace \/ ParseEOF \/ Recover
      BY <2>1, ReceiveIInv, SkipSpaceIInv, ParseEOFIInv, RecoverIInv
    <2>2. CASE UnexpectedEOF
      BY <2>2, Fails DEF UnexpectedEOF
    <2>3. CASE ParseLeftDelim \/ NotDefine \/ Define \/ DefineName \/ DefineDelim
      BY <2>3, ParseLeftDelimIInv, NotDefineIInv, DefineIInv, DefineNameIInv, DefineDelimIInv
    <2>4. CASE Text \/ LeftDelim \/ UnexpectedInput \/ Control \/ Clause \/ Command \/ Try
      BY <2>4, NodesIInv, KeywordsIInv
    <2>5. CASE BlockName \/ TemplateName \/ BadName \/ TemplatePipe \/ EndControl \/ ElseControl \/ CatchControl
      BY <2>5, NamesIInv, EndsIInv
    <2>6. CASE TopLevelEnd \/ TopLevelCatch \/ NoEndOfDefinition \/ NoEnd \/ MissingCatch \/ EndDefinition
      BY <2>6, RestartIInv, EndDefinitionIInv
    <2>7. CASE EndIf \/ EndCatch \/ ElseIf \/ ElseIfIf \/ Else \/ Catch
      BY <2>7, CloseIInv, ElseIInv
    <2>8. CASE Pipeline \/ AfterVariable \/ Declaration \/ TooManyDeclarations \/ NoDeclaration
      BY <2>8, PipelineIInv, AfterVariableIInv, DeclarationsIInv
    <2>9. CASE ParenPipeline \/ ActionNode \/ ControlNode \/ BlockTree
      BY <2>9, PipelineEndsIInv, BlockTreeIInv
    <2>10. CASE FirstOperand \/ BadPipeline \/ Term \/ BadTerm \/ Paren \/ NoTerm \/ RightParen
                \/ Chain \/ BadChain \/ NextOperand \/ CommandEnds \/ BadCommand
      BY <2>10, TermsIInv
    <2> QED
      BY <1>4, <2>1, <2>2, <2>3, <2>4, <2>5, <2>6, <2>7, <2>8, <2>9, <2>10, Zenon DEF ParseNext
  <1> QED
    BY <1>1, <1>2, <1>3, <1>4 DEF Next

\* LexerDone: when Parse has returned a tree or an error, or panics because
\* try has no catch, the lexer goroutine has nothing left to send, whatever
\* the text and however long it is (parse.go Parse, recover; lex.go drain).
THEOREM LexerIsDone == Spec => []LexerDone
  <1>1. Init => IInv
    BY InitIInv
  <1>2. IInv /\ [Next]_vars => IInv'
    BY NextIInv
  <1>3. IInv => LexerDone
    BY DEF IInv
  <1> QED
    BY <1>1, <1>2, <1>3, PTL DEF Spec

-----------------------------------------------------------------------------
(* Definitions are not replaced: the parser writes treeSet only through    *)
(* add, and add leaves what is not blank.                                  *)

TreeSetOK == DOMAIN treeSet = TreeNames /\ treeSet = [name \in TreeNames |-> treeSet[name]]

LEMMA AddKeeps ==
    ASSUME TreeSetOK, NEW name, NEW class, add(name, class)
    PROVE  /\ TreeSetOK'
           /\ \A x \in TreeNames : treeSet[x] \in {"full", "unknown"} => treeSet'[x] = treeSet[x]
  <1>1. CASE AddOutcome(name, class) = "set"
    <2>1. treeSet' = [treeSet EXCEPT ![name] = class]
      BY <1>1 DEF add
    <2>2. TreeSetOK'
      BY <2>1 DEF TreeSetOK
    <2>3. treeSet[name] \notin {"full", "unknown"}
      <3>1. CASE treeSet[name] = "unknown"
        BY <1>1, <3>1 DEF AddOutcome
      <3>2. CASE treeSet[name] = "full"
        BY <1>1, <3>2 DEF AddOutcome
      <3> QED
        BY <3>1, <3>2
    <2> QED
      BY <2>1, <2>2, <2>3 DEF TreeSetOK
  <1>2. CASE AddOutcome(name, class) # "set"
    BY <1>2 DEF add, TreeSetOK
  <1> QED
    BY <1>1, <1>2

LEMMA OnlyAdd ==
    ASSUME [Next]_vars
    PROVE  UNCHANGED treeSet \/ \E name, class : add(name, class)
  <1>1. CASE Lex \/ Done \/ UNCHANGED vars
    BY <1>1 DEF Lex, Done, vars, parseVars
  <1>2. ASSUME Fail \/ \E how : Stop(how) PROVE UNCHANGED treeSet
    BY <1>2 DEF Fail, Stop
  <1>3. ASSUME NEW name, NEW class, AddStops(name, class) PROVE UNCHANGED treeSet
    BY <1>2, <1>3 DEF AddStops
  <1>4. CASE ParseNext
    <2>1. CASE Receive \/ SkipSpace \/ Recover
      BY <2>1 DEF Receive, SkipSpace, Recover
    <2>2. CASE ParseEOF \/ EndDefinition
      BY <2>2, <1>3 DEF ParseEOF, EndDefinition
    <2>3. CASE \/ UnexpectedEOF \/ UnexpectedInput \/ BadName \/ TopLevelEnd \/ NoEndOfDefinition \/ NoEnd
               \/ MissingCatch \/ TooManyDeclarations \/ BadPipeline \/ BadTerm \/ BadChain \/ BadCommand
      BY <1>2, <2>3 DEF UnexpectedEOF, UnexpectedInput, BadName, TopLevelEnd, NoEndOfDefinition, NoEnd,
                        MissingCatch, TooManyDeclarations, BadPipeline, BadTerm, BadChain, BadCommand
    <2>4. CASE ParseLeftDelim \/ NotDefine \/ Define \/ DefineName \/ DefineDelim
      BY <1>2, <2>4 DEF ParseLeftDelim, NotDefine, Define, DefineName, DefineDelim
    <2>5. CASE Text \/ LeftDelim \/ Control \/ Clause \/ Command \/ Try
      BY <1>2, <2>5 DEF Text, LeftDelim, Control, Clause, Command, Try
    <2>6. CASE BlockName \/ TemplateName \/ TemplatePipe \/ EndControl \/ ElseControl \/ CatchControl
      BY <1>2, <2>6 DEF BlockName, TemplateName, TemplatePipe, EndControl, ElseControl, CatchControl, Delimiter
    <2>7. CASE TopLevelCatch \/ EndIf \/ EndCatch \/ ElseIf \/ ElseIfIf \/ Else \/ Catch
      BY <2>7 DEF TopLevelCatch, EndIf, EndCatch, ElseIf, ElseIfIf, Else, Catch, Continue
    <2>8. CASE Pipeline \/ AfterVariable \/ Declaration \/ NoDeclaration
      BY <2>8 DEF Pipeline, AfterVariable, Declaration, NoDeclaration
    <2>9. CASE ParenPipeline \/ ActionNode \/ ControlNode \/ BlockTree
      BY <2>9 DEF ParenPipeline, ActionNode, ControlNode, BlockTree, PipelineEnds
    <2>10. CASE FirstOperand \/ Term \/ Paren \/ NoTerm \/ RightParen \/ Chain \/ NextOperand \/ CommandEnds
      BY <1>2, <2>10 DEF FirstOperand, Term, Paren, NoTerm, RightParen, Chain, NextOperand, CommandEnds
    <2> QED
      BY <1>4, <2>1, <2>2, <2>3, <2>4, <2>5, <2>6, <2>7, <2>8, <2>9, <2>10, Zenon DEF ParseNext
  <1> QED
    BY <1>1, <1>4 DEF Next

\* DefinedOnce: a definition that is not blank is never replaced by another
\* one, in whatever order the texts define their names (parse.go add).
THEOREM DefinitionsStay == Spec => DefinedOnce
  <1>1. Init => TreeSetOK
    BY DEF Init, TreeSetOK
  <1>2. TreeSetOK /\ [Next]_vars => TreeSetOK'
    <2> SUFFICES ASSUME TreeSetOK, [Next]_vars PROVE TreeSetOK'
      OBVIOUS
    <2>1. CASE UNCHANGED treeSet
      BY <2>1 DEF TreeSetOK
    <2>2. CASE \E name, class : add(name, class)
      BY <2>2, AddKeeps
    <2> QED
      BY <2>1, <2>2, OnlyAdd
  <1>3. TreeSetOK /\ [Next]_vars =>
           [\A name \in TreeNames :
               treeSet[name] \in {"full", "unknown"} => treeSet'[name] = treeSet[name]]_vars
    <2> SUFFICES ASSUME TreeSetOK, [Next]_vars
                 PROVE  \A name \in TreeNames :
                           treeSet[name] \in {"full", "unknown"} => treeSet'[name] = treeSet[name]
      OBVIOUS
    <2>1. CASE UNCHANGED treeSet
      BY <2>1
    <2>2. CASE \E name, class : add(name, class)
      BY <2>2, AddKeeps
    <2> QED
      BY <2>1, <2>2, OnlyAdd
  <1> QED
    BY <1>1, <1>2, <1>3, PTL DEF Spec, DefinedOnce
=============================================================================
