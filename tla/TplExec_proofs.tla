---------------------------- MODULE TplExec_proofs ----------------------------
(* Proofs about TplExec: for files of any kind and states in any number, the *)
(* slices of the variables and of the blocks stay windows of their arrays,   *)
(* no template reaches the variables of another one, a loop over a map walks *)
(* each of its keys once, a block walks where it was passed, and a variable  *)
(* keeps the value that a template gave it.                                  *)
EXTENDS TplExec, SeqFacts, FiniteSetTheorems

-----------------------------------------------------------------------------
(* Slices.                                                                 *)

LEMMA FunctionIsSeq ==
    ASSUME NEW n \in Nat, NEW f, f = [i \in 1 .. n |-> f[i]]
    PROVE  IsSeq(f) /\ Len(f) = n
  <1>1. PICK S : S = {f[i] : i \in 1 .. n}
    OBVIOUS
  <1>2. \A i \in 1 .. n : f[i] \in S
    BY <1>1
  <1>3. f \in [1 .. n -> S]
    BY <1>2
  <1>4. f \in Seq(S) /\ Len(f) = n
    BY <1>3
  <1> QED
    BY <1>4 DEF IsSeq

Heap(h) == IsSeq(h) /\ \A a \in 1 .. Len(h) : IsSeq(h[a])
Slices == [arr : Nat, len : Nat]
Fits(h, s) == s \in Slices /\ s.arr <= Len(h) /\ s.len <= Cap(h, s)

LEMMA FitsFields ==
    ASSUME NEW h, Heap(h), NEW s, Fits(h, s)
    PROVE  /\ s.arr \in Nat /\ s.len \in Nat
           /\ s.arr = 0 => s.len = 0
           /\ s.arr # 0 => s.arr \in 1 .. Len(h) /\ s.len <= Len(h[s.arr])
           /\ Cap(h, s) \in Nat /\ Len(h) \in Nat
  <1>1. s.arr \in Nat /\ s.len \in Nat
    BY DEF Fits, Slices
  <1>2. Len(h) \in Nat
    BY SeqBasics DEF Heap
  <1>3. s.arr # 0 => s.arr \in 1 .. Len(h)
    BY <1>1, <1>2 DEF Fits
  <1>4. CASE s.arr = 0
    BY <1>1, <1>2, <1>4 DEF Fits, Cap
  <1>5. CASE s.arr # 0
    <2>1. Len(h[s.arr]) \in Nat
      BY <1>3, <1>5, SeqBasics DEF Heap
    <2> QED
      BY <1>1, <1>2, <1>3, <1>5, <2>1 DEF Fits, Cap
  <1> QED
    BY <1>4, <1>5

\* h with xs written behind the slice s, as far as the array goes.
Overwritten(h, s, n, xs) ==
    [i \in DOMAIN h |->
        IF i # s.arr THEN h[i]
        ELSE [j \in DOMAIN h[i] |-> IF s.len < j /\ j <= n THEN xs[j - s.len] ELSE h[i][j]]]

LEMMA Overwriting ==
    ASSUME NEW h, Heap(h), NEW s, NEW n, NEW xs, NEW w, w = Overwritten(h, s, n, xs)
    PROVE  /\ Heap(w) /\ Len(w) = Len(h)
           /\ \A a \in 1 .. Len(h) :
                 /\ Len(w[a]) = Len(h[a])
                 /\ a # s.arr => w[a] = h[a]
                 /\ \A j \in 1 .. Len(h[a]) :
                       w[a][j] = IF a = s.arr /\ s.len < j /\ j <= n THEN xs[j - s.len] ELSE h[a][j]
  <1>1. PICK m \in Nat : m = Len(h) /\ DOMAIN h = 1 .. m
    BY SeqBasics DEF Heap
  <1>2. /\ w = [i \in 1 .. m |-> w[i]]
        /\ \A a \in 1 .. m :
              w[a] = IF a # s.arr THEN h[a]
                     ELSE [j \in DOMAIN h[a] |-> IF s.len < j /\ j <= n THEN xs[j - s.len] ELSE h[a][j]]
    BY <1>1 DEF Overwritten
  <1>3. IsSeq(w) /\ Len(w) = m
    BY <1>2, FunctionIsSeq
  <1>4. ASSUME NEW a \in 1 .. m
        PROVE  /\ IsSeq(w[a]) /\ Len(w[a]) = Len(h[a])
               /\ a # s.arr => w[a] = h[a]
               /\ \A j \in 1 .. Len(h[a]) :
                     w[a][j] = IF a = s.arr /\ s.len < j /\ j <= n THEN xs[j - s.len] ELSE h[a][j]
    <2>1. IsSeq(h[a])
      BY <1>1, <1>4 DEF Heap
    <2>2. CASE a # s.arr
      BY <1>2, <1>4, <2>1, <2>2
    <2>3. CASE a = s.arr
      <3>1. PICK k \in Nat : k = Len(h[a]) /\ DOMAIN h[a] = 1 .. k
        BY <2>1, SeqBasics
      <3>2. PICK f : f = w[a]
        OBVIOUS
      <3>3. f = [j \in 1 .. k |-> IF s.len < j /\ j <= n THEN xs[j - s.len] ELSE h[a][j]]
        BY <1>2, <1>4, <2>3, <3>1, <3>2
      <3>4. /\ f = [j \in 1 .. k |-> f[j]]
            /\ \A j \in 1 .. k : f[j] = IF s.len < j /\ j <= n THEN xs[j - s.len] ELSE h[a][j]
        BY <3>3
      <3>5. IsSeq(f) /\ Len(f) = k
        BY <3>4, FunctionIsSeq
      <3> QED
        BY <2>3, <3>1, <3>2, <3>4, <3>5
    <2> QED
      BY <2>2, <2>3
  <1> QED
    BY <1>1, <1>3, <1>4 DEF Heap

\* g has the arrays of h, and perhaps more.
Grown(h, g) ==
    /\ Heap(g) /\ Len(h) <= Len(g)
    /\ \A a \in 1 .. Len(h) : Len(g[a]) = Len(h[a])

LEMMA FitsStays ==
    ASSUME NEW h, Heap(h), NEW g, Grown(h, g), NEW s, Fits(h, s)
    PROVE  Fits(g, s)
  <1>1. Len(h) \in Nat /\ Len(g) \in Nat
    BY SeqBasics DEF Heap, Grown
  <1>2. s \in Slices /\ s.arr \in Nat /\ s.arr <= Len(h)
    BY FitsFields DEF Fits
  <1>3. Cap(g, s) = Cap(h, s)
    <2>1. s.arr # 0 => s.arr \in 1 .. Len(h)
      BY FitsFields
    <2> QED
      BY <2>1 DEF Cap, Grown
  <1> QED
    BY <1>1, <1>2, <1>3 DEF Fits, Grown

LEMMA WindowIs ==
    ASSUME NEW h, Heap(h), NEW s, Fits(h, s), NEW w, w = Window(h, s)
    PROVE  /\ IsSeq(w) /\ Len(w) = s.len
           /\ \A j \in 1 .. s.len : w[j] = h[s.arr][j]
  <1>1. s.len \in Nat /\ (s.len # 0 => s.arr \in 1 .. Len(h) /\ s.len <= Len(h[s.arr]))
    BY FitsFields
  <1>2. CASE s.len = 0
    BY <1>2, EmptyIsSeq DEF Window
  <1>3. CASE s.len # 0
    <2>1. w = SubSeq(h[s.arr], 1, s.len) /\ IsSeq(h[s.arr])
      BY <1>1, <1>3 DEF Window, Heap
    <2> QED
      BY <1>1, <1>3, <2>1, Cutting
  <1> QED
    BY <1>2, <1>3

LEMMA DoubledIs ==
    ASSUME NEW c \in Nat, NEW n \in Nat
    PROVE  Doubled(c, n) \in Nat /\ n <= Doubled(c, n)
  <1>1. CASE n <= c
    BY <1>1 DEF Doubled
  <1>2. CASE c < n /\ n <= 2 * c
    BY <1>2 DEF Doubled
  <1>3. CASE 2 * c < n /\ n <= 4 * c
    BY <1>3 DEF Doubled
  <1>4. CASE 4 * c < n
    BY <1>4 DEF Doubled
  <1> QED
    BY <1>1, <1>2, <1>3, <1>4

\* What append does to the arrays and gives back.
LEMMA Appends ==
    ASSUME NEW h, Heap(h), NEW s, Fits(h, s), NEW xs, IsSeq(xs), NEW empty,
           NEW r, r = Appended(h, s, xs, empty)
    PROVE  /\ Grown(h, r.heap) /\ Fits(r.heap, r.slice)
           /\ r.slice.len = s.len + Len(xs)
           /\ r.slice.arr = s.arr \/ r.slice.arr = Len(h) + 1
           /\ \A a \in 1 .. Len(h) :
                 /\ a # s.arr => r.heap[a] = h[a]
                 /\ \A j \in 1 .. Len(h[a]) :
                       r.heap[a][j] = h[a][j] \/ (j - s.len \in 1 .. Len(xs) /\ r.heap[a][j] = xs[j - s.len])
           /\ \A j \in 1 .. r.slice.len :
                 r.heap[r.slice.arr][j] = IF j <= s.len THEN h[s.arr][j] ELSE xs[j - s.len]
  <1>1. /\ s \in Slices /\ s.arr \in Nat /\ s.len \in Nat /\ Len(h) \in Nat
        /\ s.arr = 0 => s.len = 0
        /\ s.arr # 0 => s.arr \in 1 .. Len(h) /\ s.len <= Len(h[s.arr])
    BY FitsFields DEF Fits
  <1>2. PICK x \in Nat : x = Len(xs)
    BY SeqBasics
  <1>3. PICK n \in Nat : n = s.len + x /\ s.len <= n
    BY <1>1
  <1>4. PICK c \in Nat : c = Cap(h, s)
    BY FitsFields
  <1>5. PICK w : w = Overwritten(h, s, n, xs)
    OBVIOUS
  <1>6. /\ Heap(w) /\ Len(w) = Len(h)
        /\ \A a \in 1 .. Len(h) :
              /\ Len(w[a]) = Len(h[a])
              /\ a # s.arr => w[a] = h[a]
              /\ \A j \in 1 .. Len(h[a]) :
                    w[a][j] = IF a = s.arr /\ s.len < j /\ j <= n THEN xs[j - s.len] ELSE h[a][j]
    BY <1>5, Overwriting
  <1>7. ASSUME NEW a \in 1 .. Len(h)
        PROVE  /\ a # s.arr => w[a] = h[a]
               /\ \A j \in 1 .. Len(h[a]) :
                     w[a][j] = h[a][j] \/ (j - s.len \in 1 .. x /\ w[a][j] = xs[j - s.len])
    <2> SUFFICES ASSUME NEW j \in 1 .. Len(h[a]), w[a][j] # h[a][j]
                 PROVE  j - s.len \in 1 .. x /\ w[a][j] = xs[j - s.len]
      BY <1>6
    <2>1. s.len < j /\ j <= n /\ w[a][j] = xs[j - s.len]
      BY <1>6
    <2>2. j \in Nat
      BY <1>7, SeqBasics DEF Heap
    <2>3. j - s.len \in 1 .. x
      BY <1>1, <1>3, <2>1, <2>2
    <2> QED
      BY <2>1, <2>3
  <1>8. CASE n <= c
    <2>1. PICK t : t = [s EXCEPT !.len = n]
      OBVIOUS
    <2>2. r.heap = w /\ r.slice = t
      BY <1>2, <1>3, <1>4, <1>5, <1>8, <2>1 DEF Appended, Overwritten
    <2>3. t \in Slices /\ t.arr = s.arr /\ t.len = n
      BY <1>1, <2>1 DEF Slices
    <2>4. Grown(h, w)
      BY <1>1, <1>6 DEF Grown
    <2>5. Cap(w, t) = c
      BY <1>1, <1>4, <1>6, <2>3 DEF Cap
    <2>6. Fits(w, t)
      BY <1>1, <1>6, <1>8, <2>3, <2>5 DEF Fits, Cap
    <2>7. ASSUME NEW j \in 1 .. n
          PROVE  w[s.arr][j] = IF j <= s.len THEN h[s.arr][j] ELSE xs[j - s.len]
      <3>1. s.arr # 0 /\ c = Len(h[s.arr])
        BY <1>3, <1>4, <1>8, <2>7 DEF Cap
      <3>2. s.arr \in 1 .. Len(h) /\ j \in 1 .. Len(h[s.arr])
        BY <1>1, <1>8, <2>7, <3>1
      <3> QED
        BY <1>1, <1>6, <2>7, <3>2
    <2> QED
      BY <1>2, <1>3, <1>7, <2>2, <2>3, <2>4, <2>6, <2>7
  <1>9. CASE ~(n <= c)
    <2>1. PICK d \in Nat : d = Doubled(c, n) - n
      BY DoubledIs
    <2>2. PICK v : v = Window(h, s) /\ IsSeq(v) /\ Len(v) = s.len /\ \A j \in 1 .. s.len : v[j] = h[s.arr][j]
      BY WindowIs
    <2>3. PICK e : e = [i \in 1 .. d |-> empty]
      OBVIOUS
    <2>4. IsSeq(e) /\ Len(e) = d
      <3>1. e = [i \in 1 .. d |-> e[i]]
        BY <2>3
      <3> QED
        BY <3>1, FunctionIsSeq
    <2>5. PICK y : y = v \o xs
      OBVIOUS
    <2>6. /\ IsSeq(y) /\ Len(y) = n
          /\ \A j \in 1 .. n : y[j] = IF j <= s.len THEN h[s.arr][j] ELSE xs[j - s.len]
      <3>1. /\ IsSeq(y) /\ Len(y) = Len(v) + Len(xs)
            /\ \A j \in 1 .. Len(v) + Len(xs) : y[j] = IF j <= Len(v) THEN v[j] ELSE xs[j - Len(v)]
        BY <2>2, <2>5, Joining
      <3> QED
        BY <1>1, <1>2, <1>3, <2>2, <3>1
    <2>7. PICK z : z = y \o e
      OBVIOUS
    <2>8. /\ IsSeq(z) /\ Len(z) = n + d
          /\ \A j \in 1 .. n : z[j] = y[j]
      <3>1. /\ IsSeq(z) /\ Len(z) = Len(y) + Len(e)
            /\ \A j \in 1 .. Len(y) + Len(e) : z[j] = IF j <= Len(y) THEN y[j] ELSE e[j - Len(y)]
        BY <2>4, <2>6, <2>7, Joining
      <3> QED
        BY <2>4, <2>6, <3>1
    <2>9. PICK g : g = Append(w, z)
      OBVIOUS
    <2>10. /\ IsSeq(g) /\ Len(g) = Len(h) + 1 /\ g[Len(h) + 1] = z
           /\ \A a \in 1 .. Len(h) : g[a] = w[a]
      BY <1>6, <2>9, Appending DEF Heap
    <2>11. PICK t : t = [arr |-> Len(h) + 1, len |-> n]
      OBVIOUS
    <2>12. r.heap = g /\ r.slice = t
      BY <1>2, <1>3, <1>4, <1>5, <1>9, <2>1, <2>2, <2>3, <2>5, <2>7, <2>9, <2>11
         DEF Appended, Overwritten
    <2>13. t \in Slices /\ t.arr = Len(h) + 1 /\ t.len = n
      BY <1>1, <2>11 DEF Slices
    <2>14. Heap(g)
      BY <1>1, <1>6, <2>8, <2>10 DEF Heap
    <2>15. Grown(h, g)
      <3>1. Len(h) <= Len(g)
        BY <1>1, <2>10
      <3>2. \A a \in 1 .. Len(h) : Len(g[a]) = Len(h[a])
        BY <1>6, <2>10
      <3> QED
        BY <2>14, <3>1, <3>2 DEF Grown
    <2>16. Fits(g, t)
      BY <1>1, <2>8, <2>10, <2>13 DEF Fits, Cap
    <2>17. ASSUME NEW a \in 1 .. Len(h)
           PROVE  /\ a # s.arr => g[a] = h[a]
                  /\ \A j \in 1 .. Len(h[a]) :
                        g[a][j] = h[a][j] \/ (j - s.len \in 1 .. x /\ g[a][j] = xs[j - s.len])
      BY <1>7, <2>10
    <2>18. ASSUME NEW j \in 1 .. n
           PROVE  g[Len(h) + 1][j] = IF j <= s.len THEN h[s.arr][j] ELSE xs[j - s.len]
      BY <2>6, <2>8, <2>10
    <2> QED
      BY <1>2, <1>3, <2>12, <2>13, <2>15, <2>16, <2>17, <2>18
  <1> QED
    BY <1>8, <1>9

\* Where a name is found in a slice.
LEMMA FoundIs ==
    ASSUME NEW h, Heap(h), NEW s, Fits(h, s), NEW x
    PROVE  Found(h, s, x) \in 0 .. s.len
  <1>1. PICK w : w = Window(h, s)
    OBVIOUS
  <1>2. Len(w) = s.len /\ s.len \in Nat
    BY <1>1, WindowIs, FitsFields
  <1>3. PICK I : I = {i \in 1 .. Len(w) : w[i].name = x}
    OBVIOUS
  <1>4. Found(h, s, x) = IF I # {} THEN Max(I) ELSE 0
    BY <1>1, <1>3 DEF Found, SelectLastInSeq
  <1>5. CASE I = {}
    BY <1>2, <1>4, <1>5
  <1>6. CASE I # {}
    <2>1. Max(I) \in I
      BY <1>2, <1>3, <1>6, MaxExists
    <2> QED
      BY <1>2, <1>3, <1>4, <1>6, <2>1
  <1> QED
    BY <1>5, <1>6

-----------------------------------------------------------------------------
(* Writing variables: of the arrays that are there, only the one of the      *)
(* slice s is written, and the slice t takes its place.                      *)

Written(h, s, g, t) ==
    /\ Grown(h, g) /\ Fits(g, t)
    /\ t.arr = s.arr \/ t.arr > Len(h)
    /\ \A a \in 1 .. Len(h) : a # s.arr => g[a] = h[a]

LEMMA WrittenTwice ==
    ASSUME NEW h, NEW s, NEW g, NEW t, NEW k, NEW u,
           Heap(h), Fits(h, s), Written(h, s, g, t), Written(g, t, k, u)
    PROVE  Written(h, s, k, u)
  <1>1. /\ Len(h) \in Nat /\ Len(g) \in Nat /\ Len(k) \in Nat /\ Len(h) <= Len(g) /\ Len(g) <= Len(k)
        /\ s.arr \in Nat /\ t.arr \in Nat /\ u.arr \in Nat
    BY FitsFields DEF Written, Grown
  <1>2. Grown(h, k)
    <2>1. \A a \in 1 .. Len(h) : a \in 1 .. Len(g)
      BY <1>1
    <2> QED
      BY <1>1, <2>1 DEF Written, Grown
  <1>3. ASSUME NEW a \in 1 .. Len(h), a # s.arr
        PROVE  k[a] = h[a]
    <2>1. a \in 1 .. Len(g) /\ a # t.arr
      BY <1>1, <1>3 DEF Written
    <2> QED
      BY <1>3, <2>1 DEF Written
  <1>4. u.arr = s.arr \/ u.arr > Len(h)
    BY <1>1 DEF Written
  <1> QED
    BY <1>2, <1>3, <1>4 DEF Written

LEMMA AppendedWrites ==
    ASSUME NEW h, Heap(h), NEW s, Fits(h, s), NEW xs, IsSeq(xs), NEW empty,
           NEW r, r = Appended(h, s, xs, empty)
    PROVE  Written(h, s, r.heap, r.slice)
  <1>1. Len(h) + 1 > Len(h)
    BY FitsFields
  <1> QED
    BY <1>1, Appends DEF Written

LEMMA OneWrites ==
    ASSUME NEW h, Heap(h), NEW s, Fits(h, s), NEW m, m = [heap |-> h, slice |-> s], NEW e,
           NEW r, r = setVarValue(m, e)
    PROVE  Written(h, s, r.heap, r.slice) /\ r = [heap |-> r.heap, slice |-> r.slice]
  <1>1. PICK i : i = Found(h, s, e.name)
    OBVIOUS
  <1>2. i \in 0 .. s.len /\ s.len \in Nat
    BY <1>1, FoundIs, FitsFields
  <1>3. CASE i = 0
    <2>1. r = Appended(h, s, <<e>>, Unbound)
      BY <1>1, <1>3 DEF setVarValue
    <2>2. r = [heap |-> r.heap, slice |-> r.slice]
      BY <2>1 DEF Appended
    <2> QED
      BY <2>1, <2>2, AppendedWrites, OneIsSeq
  <1>4. CASE i # 0
    <2>1. s.arr \in 1 .. Len(h) /\ i \in 1 .. Len(h[s.arr]) /\ Len(h) \in Nat
      BY <1>2, <1>4, FitsFields
    <2>2. PICK g : g = [h EXCEPT ![s.arr][i] = e]
      OBVIOUS
    <2>3. r = [heap |-> g, slice |-> s] /\ r.heap = g /\ r.slice = s
      BY <1>1, <1>4, <2>2 DEF setVarValue
    <2>4. IsSeq(h) /\ DOMAIN h = 1 .. Len(h)
      BY SeqBasics DEF Heap
    <2>5. PICK n \in Nat : n = Len(h)
      BY <2>1
    <2>6. /\ g = [a \in 1 .. n |-> g[a]]
          /\ \A a \in 1 .. n : g[a] = IF a = s.arr THEN [h[a] EXCEPT ![i] = e] ELSE h[a]
      BY <2>2, <2>4, <2>5
    <2>7. IsSeq(g) /\ Len(g) = n
      BY <2>6, FunctionIsSeq
    <2>8. ASSUME NEW a \in 1 .. n
          PROVE  IsSeq(g[a]) /\ Len(g[a]) = Len(h[a]) /\ (a # s.arr => g[a] = h[a])
      <3>1. IsSeq(h[a])
        BY <2>5, <2>8 DEF Heap
      <3>2. CASE a # s.arr
        BY <2>6, <2>8, <3>1, <3>2
      <3>3. CASE a = s.arr
        <4>1. PICK k \in Nat : k = Len(h[a]) /\ DOMAIN h[a] = 1 .. k
          BY <3>1, SeqBasics
        <4>2. PICK f : f = g[a]
          OBVIOUS
        <4>3. f = [j \in 1 .. k |-> f[j]]
          BY <2>6, <2>8, <3>3, <4>1, <4>2
        <4>4. IsSeq(f) /\ Len(f) = k
          BY <4>3, FunctionIsSeq
        <4> QED
          BY <3>3, <4>1, <4>2, <4>4
      <3> QED
        BY <3>2, <3>3
    <2>9. Grown(h, g)
      BY <2>5, <2>7, <2>8 DEF Grown, Heap
    <2>10. Fits(g, s)
      BY <2>9, FitsStays
    <2> QED
      BY <2>3, <2>5, <2>8, <2>9, <2>10 DEF Written
  <1> QED
    BY <1>3, <1>4

LEMMA ValuesWrite ==
    ASSUME NEW h, Heap(h), NEW s, Fits(h, s), NEW es, Len(es) \in 1 .. 3,
           NEW r, r = setVarValues(h, s, es)
    PROVE  Written(h, s, r.heap, r.slice)
  <1>1. PICK e, f, x : e = es[1] /\ f = es[2] /\ x = es[3]
    OBVIOUS
  <1>2. PICK m : m = [heap |-> h, slice |-> s]
    OBVIOUS
  <1>3. PICK one : one = setVarValue(m, e)
    OBVIOUS
  <1>4. Written(h, s, one.heap, one.slice) /\ one = [heap |-> one.heap, slice |-> one.slice]
    BY <1>2, <1>3, OneWrites
  <1>5. PICK two : two = setVarValue(one, f)
    OBVIOUS
  <1>6. /\ Written(one.heap, one.slice, two.heap, two.slice)
        /\ two = [heap |-> two.heap, slice |-> two.slice]
    BY <1>4, <1>5, OneWrites DEF Written, Grown
  <1>7. PICK three : three = setVarValue(two, x)
    OBVIOUS
  <1>8. Written(two.heap, two.slice, three.heap, three.slice)
    BY <1>6, <1>7, OneWrites DEF Written, Grown
  <1>9. Written(h, s, two.heap, two.slice)
    BY <1>4, <1>6, WrittenTwice
  <1>10. Written(h, s, three.heap, three.slice)
    BY <1>8, <1>9, WrittenTwice
  <1>11. r = CASE Len(es) = 1 -> one [] Len(es) = 2 -> two [] Len(es) = 3 -> three
    BY <1>1, <1>2, <1>3, <1>5, <1>7 DEF setVarValues
  <1>12. Len(es) = 1 \/ Len(es) = 2 \/ Len(es) = 3
    OBVIOUS
  <1>13. r = one \/ r = two \/ r = three
    BY <1>11, <1>12
  <1> QED
    BY <1>4, <1>9, <1>10, <1>13

-----------------------------------------------------------------------------
(* The states and their memory.                                            *)

IsState(s) ==
    s = [bound |-> s.bound, depth |-> s.depth, vars |-> s.vars,
         env |-> s.env, user |-> s.user, first |-> s.first, mine |-> s.mine]

\* The blocks in the slice s are frozen with some of n states.
Live(h, s, n) == \A j \in 1 .. s.len : h[s.arr][j].scope \in 1 .. n

\* One of n states, with the arrays A of blocks and B of variables, and k scopes.
Fine(s, A, B, n, k) ==
    /\ IsState(s)
    /\ Fits(A, s.bound) /\ Live(A, s.bound, n)
    /\ Fits(B, s.vars) /\ s.vars.arr # 0
    /\ s.depth \in Nat
    /\ s.env \in 1 .. k

\* Different scopes keep their variables in different arrays.
Apart(all) == \A i, j \in 1 .. Len(all) : all[i].env # all[j].env => all[i].vars.arr # all[j].vars.arr

MemoryOK(all, A, B, k) ==
    /\ IsSeq(all) /\ Heap(A) /\ Heap(B) /\ k \in Nat
    /\ \A i \in 1 .. Len(all) : Fine(all[i], A, B, Len(all), k)
    /\ Apart(all)

\* Later, the variables of the states all with the arrays B are what they
\* were, but those of the scopes E.
Aside(all, B, later, C, E) ==
    \A i \in 1 .. Len(all) :
        /\ i \in 1 .. Len(later) /\ later[i].env = all[i].env
        /\ all[i].env \notin E => Window(C, later[i].vars) = Window(B, all[i].vars)

\* The memory q keeps the states all, but for the variables of the scopes E.
Keeps(all, A, B, k, q, E) ==
    /\ q = [states |-> q.states, bindings |-> q.bindings]
    /\ MemoryOK(q.states, A, q.bindings, k) /\ Len(q.states) = Len(all)
    /\ Aside(all, B, q.states, q.bindings, E)

\* The arrays A get entries of n states, or none.
Moved(A, C, n) ==
    /\ Grown(A, C)
    /\ \A a \in 1 .. Len(A) : \A j \in 1 .. Len(A[a]) : C[a][j] = A[a][j] \/ C[a][j].scope \in 1 .. n

LEMMA LiveStays ==
    ASSUME NEW A, Heap(A), NEW C, NEW n \in Nat, NEW p \in Nat, n <= p, Moved(A, C, p),
           NEW s, Fits(A, s), Live(A, s, n)
    PROVE  Fits(C, s) /\ Live(C, s, p)
  <1>1. Fits(C, s)
    BY FitsStays DEF Moved
  <1>2. s.len \in Nat /\ (s.arr = 0 => s.len = 0)
        /\ (s.arr # 0 => s.arr \in 1 .. Len(A) /\ s.len <= Len(A[s.arr]) /\ Len(A[s.arr]) \in Nat)
    BY FitsFields, SeqBasics DEF Heap
  <1>3. ASSUME NEW j \in 1 .. s.len
        PROVE  C[s.arr][j].scope \in 1 .. p
    <2>1. s.arr \in 1 .. Len(A) /\ j \in 1 .. Len(A[s.arr])
      BY <1>2
    <2>2. A[s.arr][j].scope \in 1 .. n
      BY DEF Live
    <2>3. A[s.arr][j].scope \in 1 .. p
      BY <2>2
    <2> QED
      BY <2>1, <2>3 DEF Moved
  <1> QED
    BY <1>1, <1>3 DEF Live

LEMMA GrownItself == ASSUME NEW h, Heap(h) PROVE Grown(h, h) /\ \A n : Moved(h, h, n)
  <1>1. Len(h) \in Nat
    BY SeqBasics DEF Heap
  <1> QED
    BY <1>1 DEF Grown, Moved

\* The windows of arrays that are not written.
LEMMA WindowStays ==
    ASSUME NEW h, Heap(h), NEW s, Fits(h, s), NEW g, s.arr # 0 => g[s.arr] = h[s.arr]
    PROVE  Window(g, s) = Window(h, s)
  <1>1. s.arr = 0 => s.len = 0
    BY FitsFields
  <1> QED
    BY <1>1 DEF Window

\* What storing changes of the states.
LEMMA StoredIs ==
    ASSUME NEW all, NEW B, NEW A, NEW k, MemoryOK(all, A, B, k),
           NEW m, m = [states |-> all, bindings |-> B],
           NEW s \in 1 .. Len(all), NEW r, NEW es,
           NEW q, q = Stored(m, s, r, es)
    PROVE  /\ q = [states |-> q.states, bindings |-> q.bindings] /\ q.bindings = r.heap
           /\ IsSeq(q.states) /\ Len(q.states) = Len(all)
           /\ \A i \in 1 .. Len(all) :
                 /\ IsState(q.states[i])
                 /\ q.states[i].bound = all[i].bound /\ q.states[i].depth = all[i].depth
                 /\ q.states[i].env = all[i].env
                 /\ q.states[i].user = all[i].user /\ q.states[i].first = all[i].first
                 /\ q.states[i].vars = IF i = s THEN r.slice ELSE all[i].vars
  <1>1. PICK n \in Nat : n = Len(all) /\ DOMAIN all = 1 .. n /\ IsSeq(all)
    BY SeqBasics DEF MemoryOK
  <1>2. \A i \in 1 .. n : IsState(all[i])
    BY <1>1 DEF MemoryOK, Fine
  <1>3. PICK t : t = [all EXCEPT ![s].vars = r.slice]
    OBVIOUS
  <1>4. /\ t = [i \in 1 .. n |-> t[i]]
        /\ \A i \in 1 .. n : t[i] = IF i = s THEN [all[i] EXCEPT !.vars = r.slice] ELSE all[i]
    BY <1>1, <1>3
  <1>5. ASSUME NEW i \in 1 .. n
        PROVE  /\ IsState(t[i])
               /\ t[i].bound = all[i].bound /\ t[i].depth = all[i].depth /\ t[i].env = all[i].env
               /\ t[i].user = all[i].user /\ t[i].first = all[i].first
               /\ t[i].vars = IF i = s THEN r.slice ELSE all[i].vars
    BY <1>2, <1>4 DEF IsState
  <1>6. PICK w : w = Noted(t, s, es)
    OBVIOUS
  <1>7. q = [states |-> w, bindings |-> r.heap]
    BY <1>3, <1>6 DEF Stored
  <1>8. w = [i \in 1 .. n |-> w[i]]
    BY <1>4, <1>6 DEF Noted
  <1>9. ASSUME NEW i \in 1 .. n
        PROVE  \E x : w[i] = t[i] \/ w[i] = [t[i] EXCEPT !.mine = x]
    <2>1. DOMAIN t = 1 .. n
      BY <1>4
    <2>2. PICK others, old : others = DOMAIN t[i].mine \ Names(es) /\ old = t[i].mine
      OBVIOUS
    <2>3. w[i] = IF t[i].env # t[s].env THEN t[i]
                 ELSE IF i # s THEN [t[i] EXCEPT !.mine = [y \in others |-> old[y]]]
                 ELSE [t[i] EXCEPT !.mine =
                         [y \in others \cup Names(es) |->
                             IF y \in others THEN old[y] ELSE ValueIn(es, y)]]
      BY <1>6, <2>1, <2>2 DEF Noted
    <2> QED
      BY <2>3
  <1>10. ASSUME NEW i \in 1 .. n
         PROVE  /\ IsState(w[i])
                /\ w[i].bound = t[i].bound /\ w[i].depth = t[i].depth
                /\ w[i].env = t[i].env /\ w[i].vars = t[i].vars
                /\ w[i].user = t[i].user /\ w[i].first = t[i].first
    <2>1. PICK x : w[i] = t[i] \/ w[i] = [t[i] EXCEPT !.mine = x]
      BY <1>9
    <2>2. IsState(t[i])
      BY <1>5
    <2> QED
      BY <2>1, <2>2 DEF IsState
  <1>11. IsSeq(w) /\ Len(w) = n
    BY <1>8, FunctionIsSeq
  <1> QED
    BY <1>1, <1>5, <1>7, <1>10, <1>11

\* Storing what was written for a state keeps all of it, and leaves the
\* variables of the other scopes alone.
LEMMA StoringKeeps ==
    ASSUME NEW all, NEW B, NEW A, NEW k, MemoryOK(all, A, B, k),
           NEW s \in 1 .. Len(all), NEW es, NEW r, Written(B, all[s].vars, r.heap, r.slice),
           NEW q, q = Stored([states |-> all, bindings |-> B], s, r, es)
    PROVE  Keeps(all, A, B, k, q, {all[s].env})
  <1>1. PICK w, C : w = q.states /\ C = q.bindings
    OBVIOUS
  <1>2. /\ q = [states |-> w, bindings |-> C] /\ C = r.heap
        /\ IsSeq(w) /\ Len(w) = Len(all)
        /\ \A i \in 1 .. Len(all) :
              /\ IsState(w[i])
              /\ w[i].bound = all[i].bound /\ w[i].depth = all[i].depth
              /\ w[i].env = all[i].env
              /\ w[i].vars = IF i = s THEN r.slice ELSE all[i].vars
    BY <1>1, StoredIs
  <1>3. /\ Heap(A) /\ Heap(B) /\ k \in Nat /\ Apart(all)
        /\ \A i \in 1 .. Len(all) : Fine(all[i], A, B, Len(all), k)
    BY DEF MemoryOK
  <1>4. /\ Grown(B, C) /\ Fits(C, r.slice) /\ Heap(C) /\ Len(B) \in Nat
        /\ r.slice.arr = all[s].vars.arr \/ r.slice.arr > Len(B)
        /\ \A a \in 1 .. Len(B) : a # all[s].vars.arr => C[a] = B[a]
    BY <1>2, <1>3, SeqBasics DEF Written, Grown, Heap
  <1>5. \A i \in 1 .. Len(all) : all[i].vars.arr \in 1 .. Len(B)
    <2> SUFFICES ASSUME NEW i \in 1 .. Len(all) PROVE all[i].vars.arr \in 1 .. Len(B)
      OBVIOUS
    <2>1. Fits(B, all[i].vars) /\ all[i].vars.arr # 0
      BY <1>3 DEF Fine
    <2> QED
      BY <1>3, <2>1, FitsFields
  <1>6. r.slice.arr # 0
    BY <1>4, <1>5
  <1>7. ASSUME NEW i \in 1 .. Len(all)
        PROVE  Fine(w[i], A, C, Len(all), k)
    <2>1. /\ Fits(A, all[i].bound) /\ Live(A, all[i].bound, Len(all)) /\ Fits(B, all[i].vars)
          /\ all[i].vars.arr # 0 /\ all[i].depth \in Nat /\ all[i].env \in 1 .. k
      BY <1>3 DEF Fine
    <2>2. Fits(C, all[i].vars)
      BY <1>3, <1>4, <2>1, FitsStays
    <2>3. Fits(C, w[i].vars) /\ w[i].vars.arr # 0
      BY <1>2, <1>4, <1>6, <2>1, <2>2
    <2> QED
      BY <1>2, <2>1, <2>3 DEF Fine
  <1>8. Apart(w)
    <2> SUFFICES ASSUME NEW i \in 1 .. Len(all), NEW j \in 1 .. Len(all), w[i].env # w[j].env
                 PROVE  w[i].vars.arr # w[j].vars.arr
      BY <1>2 DEF Apart
    <2>1. all[i].env # all[j].env
      BY <1>2
    <2>2. all[i].vars.arr # all[j].vars.arr
      BY <1>3, <2>1 DEF Apart
    <2>3. ~(i = s /\ j = s)
      BY <2>1
    <2>4. all[i].vars.arr \in 1 .. Len(B) /\ all[j].vars.arr \in 1 .. Len(B)
      BY <1>5
    <2>5. CASE i = s
      <3>1. w[i].vars.arr = r.slice.arr /\ w[j].vars.arr = all[j].vars.arr
        BY <1>2, <2>3, <2>5
      <3> QED
        BY <1>4, <2>2, <2>4, <2>5, <3>1
    <2>6. CASE j = s
      <3>1. w[j].vars.arr = r.slice.arr /\ w[i].vars.arr = all[i].vars.arr
        BY <1>2, <2>3, <2>6
      <3> QED
        BY <1>4, <2>2, <2>4, <2>6, <3>1
    <2>7. CASE i # s /\ j # s
      BY <1>2, <2>2, <2>7
    <2> QED
      BY <2>5, <2>6, <2>7
  <1>9. Aside(all, B, w, C, {all[s].env})
    <2> SUFFICES ASSUME NEW i \in 1 .. Len(all), all[i].env # all[s].env
                 PROVE  Window(C, w[i].vars) = Window(B, all[i].vars)
      BY <1>2 DEF Aside
    <2>1. w[i].vars = all[i].vars
      BY <1>2
    <2>2. all[i].vars.arr # all[s].vars.arr
      BY <1>3 DEF Apart
    <2>3. Fits(B, all[i].vars)
      BY <1>3 DEF Fine
    <2>4. C[all[i].vars.arr] = B[all[i].vars.arr]
      BY <1>4, <1>5, <2>2
    <2> QED
      BY <1>3, <2>1, <2>3, <2>4, WindowStays
  <1>10. MemoryOK(w, A, C, k)
    BY <1>2, <1>3, <1>4, <1>7, <1>8 DEF MemoryOK
  <1> QED
    BY <1>1, <1>2, <1>9, <1>10 DEF Keeps

LEMMA AssigningKeeps ==
    ASSUME NEW all, NEW B, NEW A, NEW k, MemoryOK(all, A, B, k),
           NEW s \in 1 .. Len(all), NEW es, Len(es) \in 1 .. 3,
           NEW q, q = Assigned([states |-> all, bindings |-> B], s, es)
    PROVE  Keeps(all, A, B, k, q, {all[s].env})
  <1>1. PICK r : r = setVarValues(B, all[s].vars, es)
    OBVIOUS
  <1>2. q = Stored([states |-> all, bindings |-> B], s, r, es)
    BY <1>1 DEF Assigned
  <1>3. Heap(B) /\ Fits(B, all[s].vars)
    BY DEF MemoryOK, Fine
  <1>4. Written(B, all[s].vars, r.heap, r.slice)
    BY <1>1, <1>3, ValuesWrite
  <1> QED
    BY <1>2, <1>4, StoringKeeps

LEMMA AsideTwice ==
    ASSUME NEW all, NEW B, NEW w, NEW C, NEW E, NEW y, NEW D, NEW F,
           Aside(all, B, w, C, E), Aside(w, C, y, D, F)
    PROVE  Aside(all, B, y, D, E \cup F)
  BY DEF Aside

\* The blocks of a state, after the arrays of blocks moved.
LEMMA FreezingKeeps ==
    ASSUME NEW all, NEW B, NEW A, NEW k, MemoryOK(all, A, B, k),
           NEW C, Moved(A, C, Len(all)),
           NEW s \in 1 .. Len(all), NEW x, Fits(C, x), Live(C, x, Len(all)),
           NEW w, w = [all EXCEPT ![s].bound = x],
           NEW q, q = [states |-> w, bindings |-> B]
    PROVE  /\ Keeps(all, C, B, k, q, {})
           /\ \A i \in 1 .. Len(all) : w[i].depth = all[i].depth /\ w[i].vars = all[i].vars
  <1>1. PICK n \in Nat : n = Len(all) /\ DOMAIN all = 1 .. n
    BY SeqBasics DEF MemoryOK
  <1>2. /\ Heap(A) /\ Heap(B) /\ Heap(C) /\ k \in Nat /\ Apart(all)
        /\ \A i \in 1 .. n : Fine(all[i], A, B, n, k)
    BY <1>1 DEF MemoryOK, Moved, Grown
  <1>3. /\ w = [i \in 1 .. n |-> w[i]]
        /\ \A i \in 1 .. n : w[i] = IF i = s THEN [all[i] EXCEPT !.bound = x] ELSE all[i]
    BY <1>1
  <1>4. IsSeq(w) /\ Len(w) = n
    BY <1>3, FunctionIsSeq
  <1>5. ASSUME NEW i \in 1 .. n
        PROVE  /\ IsState(w[i]) /\ w[i].bound = IF i = s THEN x ELSE all[i].bound
               /\ w[i].depth = all[i].depth /\ w[i].vars = all[i].vars /\ w[i].env = all[i].env
    <2>1. PICK y, z : y = w[i] /\ z = all[i]
      OBVIOUS
    <2>2. IsState(z)
      BY <1>2, <2>1 DEF Fine
    <2>3. y = IF i = s THEN [z EXCEPT !.bound = x] ELSE z
      BY <1>3, <2>1
    <2>4. /\ IsState(y) /\ y.bound = IF i = s THEN x ELSE z.bound
          /\ y.depth = z.depth /\ y.vars = z.vars /\ y.env = z.env
      BY <2>2, <2>3 DEF IsState
    <2> QED
      BY <2>1, <2>4
  <1>6. ASSUME NEW i \in 1 .. n
        PROVE  Fine(w[i], C, B, n, k)
    <2>1. /\ Fits(A, all[i].bound) /\ Live(A, all[i].bound, n) /\ Fits(B, all[i].vars)
          /\ all[i].vars.arr # 0 /\ all[i].depth \in Nat /\ all[i].env \in 1 .. k
      BY <1>2 DEF Fine
    <2>2. Fits(C, all[i].bound) /\ Live(C, all[i].bound, n)
      BY <1>1, <1>2, <2>1, LiveStays
    <2>3. Fits(C, w[i].bound) /\ Live(C, w[i].bound, n)
      BY <1>1, <1>5, <2>2
    <2> QED
      BY <1>5, <2>1, <2>3 DEF Fine
  <1>7. Apart(w)
    BY <1>1, <1>2, <1>4, <1>5 DEF Apart
  <1>8. Aside(all, B, w, B, {})
    BY <1>1, <1>4, <1>5 DEF Aside
  <1> QED
    BY <1>1, <1>2, <1>4, <1>5, <1>6, <1>7, <1>8 DEF MemoryOK, Keeps

\* A state with variables of its own, or with those of one of the states all.
Places(all, st) ==
    \/ \A i \in 1 .. Len(all) : all[i].env # st.env /\ all[i].vars.arr # st.vars.arr
    \/ \E i \in 1 .. Len(all) : all[i].env = st.env /\ all[i].vars.arr = st.vars.arr

\* A state that is new, with variables of its own or those of another state.
LEMMA AddingKeeps ==
    ASSUME NEW all, NEW B, NEW A, NEW k, MemoryOK(all, A, B, k),
           NEW C, Grown(B, C), \A a \in 1 .. Len(B) : C[a] = B[a],
           NEW p \in Nat, k <= p,
           NEW st, Fine(st, A, C, Len(all) + 1, p), Places(all, st),
           NEW w, w = Append(all, st)
    PROVE  MemoryOK(w, A, C, p) /\ Aside(all, B, w, C, {})
  <1>1. PICK n \in Nat : n = Len(all) /\ DOMAIN all = 1 .. n /\ IsSeq(all)
    BY SeqBasics DEF MemoryOK
  <1>2. /\ Heap(A) /\ Heap(B) /\ Heap(C) /\ k \in Nat /\ Apart(all)
        /\ \A i \in 1 .. n : Fine(all[i], A, B, n, k)
    BY <1>1 DEF MemoryOK, Grown
  <1>3. IsSeq(w) /\ Len(w) = n + 1 /\ w[n + 1] = st /\ \A i \in 1 .. n : w[i] = all[i]
    BY <1>1, Appending
  <1>4. ASSUME NEW i \in 1 .. n
        PROVE  Fine(all[i], A, C, n + 1, p)
    <2>1. /\ Fits(A, all[i].bound) /\ Live(A, all[i].bound, n) /\ Fits(B, all[i].vars)
          /\ all[i].vars.arr # 0 /\ all[i].depth \in Nat /\ all[i].env \in 1 .. k /\ IsState(all[i])
      BY <1>2 DEF Fine
    <2>2. Fits(C, all[i].vars)
      BY <1>2, <2>1, FitsStays
    <2>3. Live(A, all[i].bound, n + 1)
      BY <1>2, <2>1, LiveStays, GrownItself
    <2>4. all[i].env \in 1 .. p
      BY <1>2, <2>1
    <2> QED
      BY <2>1, <2>2, <2>3, <2>4 DEF Fine
  <1>5. \A i \in 1 .. n + 1 : i = n + 1 \/ i \in 1 .. n
    OBVIOUS
  <1>6. \A i \in 1 .. n + 1 : Fine(w[i], A, C, n + 1, p)
    BY <1>1, <1>3, <1>4, <1>5
  <1>7. Apart(w)
    <2>1. \A i \in 1 .. n : all[i].env # st.env => all[i].vars.arr # st.vars.arr
      BY <1>1, <1>2 DEF Apart, Places
    <2>2. ASSUME NEW i \in 1 .. n + 1, NEW j \in 1 .. n + 1, w[i].env # w[j].env
          PROVE  w[i].vars.arr # w[j].vars.arr
      <3>1. CASE i = n + 1 /\ j = n + 1
        BY <2>2, <3>1
      <3>2. CASE i = n + 1 /\ j \in 1 .. n
        BY <1>3, <2>1, <2>2, <3>2
      <3>3. CASE i \in 1 .. n /\ j = n + 1
        BY <1>3, <2>1, <2>2, <3>3
      <3>4. CASE i \in 1 .. n /\ j \in 1 .. n
        BY <1>1, <1>2, <1>3, <2>2, <3>4 DEF Apart
      <3> QED
        BY <1>5, <3>1, <3>2, <3>3, <3>4
    <2> QED
      BY <1>3, <2>2 DEF Apart
  <1>8. Aside(all, B, w, C, {})
    <2> SUFFICES ASSUME NEW i \in 1 .. n
                 PROVE  i \in 1 .. n + 1 /\ Window(C, all[i].vars) = Window(B, all[i].vars)
      BY <1>1, <1>3 DEF Aside
    <2>1. Fits(B, all[i].vars) /\ all[i].vars.arr # 0
      BY <1>2 DEF Fine
    <2>2. all[i].vars.arr \in 1 .. Len(B)
      BY <1>2, <2>1, FitsFields
    <2> QED
      BY <1>2, <2>1, <2>2, WindowStays
  <1> QED
    BY <1>1, <1>2, <1>3, <1>6, <1>7, <1>8 DEF MemoryOK

\* Taking a block out of a slice.
LEMMA Removing ==
    ASSUME NEW A, Heap(A), NEW s, Fits(A, s), NEW n \in Nat, Live(A, s, n),
           NEW i \in 1 .. s.len, NEW r, r = Removed(A, s, i)
    PROVE  Moved(A, r.heap, n) /\ Fits(r.heap, r.slice) /\ Live(r.heap, r.slice, n)
  <1>1. /\ s \in Slices /\ s.len \in Nat /\ s.arr \in 1 .. Len(A) /\ Len(A) \in Nat
        /\ s.len <= Len(A[s.arr]) /\ IsSeq(A) /\ DOMAIN A = 1 .. Len(A)
    BY FitsFields, SeqBasics DEF Fits, Heap
  <1>2. PICK p \in Nat : p = Len(A)
    BY <1>1
  <1>3. PICK C : C = r.heap
    OBVIOUS
  <1>4. PICK x \in Nat : x = Len(A[s.arr]) /\ DOMAIN A[s.arr] = 1 .. x
    BY <1>1, SeqBasics DEF Heap
  <1>5. PICK y : y = [j \in 1 .. x |-> IF i <= j /\ j < s.len THEN A[s.arr][j + 1] ELSE A[s.arr][j]]
    OBVIOUS
  <1>6. IsSeq(y) /\ Len(y) = x
    <2>1. y = [j \in 1 .. x |-> y[j]]
      BY <1>5
    <2> QED
      BY <2>1, FunctionIsSeq
  <1>7. C = [A EXCEPT ![s.arr] = y]
    BY <1>3, <1>4, <1>5 DEF Removed
  <1>8. C = [a \in 1 .. p |-> C[a]] /\ \A a \in 1 .. p : C[a] = IF a = s.arr THEN y ELSE A[a]
    BY <1>1, <1>2, <1>7
  <1>9. IsSeq(C) /\ Len(C) = p
    BY <1>8, FunctionIsSeq
  <1>10. Grown(A, C)
    BY <1>1, <1>2, <1>4, <1>6, <1>8, <1>9 DEF Grown, Heap
  <1>11. ASSUME NEW j \in 1 .. x
         PROVE  y[j] = A[s.arr][j] \/ y[j].scope \in 1 .. n
    <2>1. CASE i <= j /\ j < s.len
      <3>1. j + 1 \in 1 .. s.len
        BY <1>1, <2>1
      <3> QED
        BY <1>5, <2>1, <3>1 DEF Live
    <2>2. CASE ~(i <= j /\ j < s.len)
      BY <1>5, <2>2
    <2> QED
      BY <2>1, <2>2
  <1>12. Moved(A, C, n)
    BY <1>1, <1>2, <1>4, <1>8, <1>10, <1>11 DEF Moved
  <1>13. PICK t : t = r.slice
    OBVIOUS
  <1>14. t \in Slices /\ t.arr = s.arr /\ t.len = s.len - 1
    BY <1>1, <1>13 DEF Removed, Slices
  <1>15. Fits(C, t)
    BY <1>1, <1>2, <1>4, <1>6, <1>8, <1>9, <1>14 DEF Fits, Cap
  <1>16. ASSUME NEW j \in 1 .. t.len
         PROVE  C[t.arr][j].scope \in 1 .. n
    <2>1. j \in 1 .. s.len /\ j \in 1 .. x
      BY <1>1, <1>4, <1>14
    <2>2. C[t.arr][j] = y[j]
      BY <1>1, <1>2, <1>8, <1>14
    <2> QED
      BY <1>11, <2>1, <2>2 DEF Live
  <1> QED
    BY <1>3, <1>12, <1>13, <1>15, <1>16 DEF Live

\* Freezing a block in a slice.
LEMMA Freezing ==
    ASSUME NEW A, Heap(A), NEW s, Fits(A, s), NEW n \in Nat, Live(A, s, n),
           NEW e, e.scope \in 1 .. n, NEW r, r = Appended(A, s, <<e>>, NoEntry)
    PROVE  Moved(A, r.heap, n) /\ Fits(r.heap, r.slice) /\ Live(r.heap, r.slice, n)
  <1>1. PICK xs : xs = <<e>>
    OBVIOUS
  <1>2. IsSeq(xs)
    BY <1>1, OneIsSeq
  <1>3. Len(xs) = 1 /\ xs[1] = e
    BY <1>1, OneIsSeq
  <1>4. PICK empty : empty = NoEntry
    OBVIOUS
  <1>5. r = Appended(A, s, xs, empty)
    BY <1>1, <1>4
  <1>6. /\ Grown(A, r.heap) /\ Fits(r.heap, r.slice)
        /\ r.slice.len = s.len + 1
        /\ \A a \in 1 .. Len(A) : \A j \in 1 .. Len(A[a]) :
              r.heap[a][j] = A[a][j] \/ (j - s.len \in 1 .. 1 /\ r.heap[a][j] = xs[j - s.len])
        /\ \A j \in 1 .. r.slice.len :
              r.heap[r.slice.arr][j] = IF j <= s.len THEN A[s.arr][j] ELSE xs[j - s.len]
    <2>1. Grown(A, r.heap) /\ Fits(r.heap, r.slice)
      BY <1>2, <1>5, Appends
    <2>2. r.slice.len = s.len + Len(xs)
      BY <1>2, <1>5, Appends
    <2>3. ASSUME NEW a \in 1 .. Len(A), NEW j \in 1 .. Len(A[a])
          PROVE  r.heap[a][j] = A[a][j] \/ (j - s.len \in 1 .. Len(xs) /\ r.heap[a][j] = xs[j - s.len])
      BY <1>2, <1>5, Appends
    <2>4. \A j \in 1 .. r.slice.len :
             r.heap[r.slice.arr][j] = IF j <= s.len THEN A[s.arr][j] ELSE xs[j - s.len]
      BY <1>2, <1>5, Appends
    <2> QED
      BY <1>3, <2>1, <2>2, <2>3, <2>4
  <1>7. Moved(A, r.heap, n)
    BY <1>3, <1>6 DEF Moved
  <1>8. ASSUME NEW j \in 1 .. r.slice.len
        PROVE  r.heap[r.slice.arr][j].scope \in 1 .. n
    <2>1. s.len \in Nat
      BY FitsFields
    <2>2. CASE j <= s.len
      BY <1>6, <2>1, <2>2 DEF Live
    <2>3. CASE ~(j <= s.len)
      <3>1. j - s.len = 1
        BY <1>6, <2>1, <2>3
      <3> QED
        BY <1>3, <1>6, <2>3, <3>1
    <2> QED
      BY <2>2, <2>3
  <1> QED
    BY <1>6, <1>7, <1>8 DEF Live

-----------------------------------------------------------------------------
(* The invariant.                                                          *)

FrameOK(f, n) ==
    /\ f = [state |-> f.state, kind |-> f.kind, todo |-> f.todo,
            stmt |-> f.stmt, items |-> f.items, n |-> f.n]
    /\ f.state \in 1 .. n
    /\ f.todo \in Seq(Instructions)
    /\ f.stmt \in Instructions \cup {Nothing}

StackOK(s, n) == IsSeq(s) /\ \A i \in 1 .. Len(s) : FrameOK(s[i], n)

IInv ==
    /\ body \in Programs
    /\ IsSeq(scopes)
    /\ MemoryOK(states, arrays, bindings, Len(scopes))
    /\ StackOK(stack, Len(states))

\* What Isolated says of a step.
Undisturbed ==
    \A i \in DOMAIN states :
        LET env == states[i].env IN
        stack # <<>> /\ env # State.env /\ (stack' # <<>> => env # State'.env) =>
           Window(bindings', states'[i].vars) = Window(bindings, states[i].vars)

\* A step that keeps the memory, and assigns only in scopes it walks in.
LEMMA Concluding ==
    ASSUME IInv, body' = body, IsSeq(scopes'),
           MemoryOK(states', arrays', bindings', Len(scopes')),
           StackOK(stack', Len(states')),
           NEW E, Aside(states, bindings, states', bindings', E),
           \A e \in E : (stack # <<>> /\ e = State.env) \/ (stack' # <<>> /\ e = State'.env)
    PROVE  IInv' /\ Undisturbed
  <1>1. IInv'
    BY DEF IInv
  <1>2. DOMAIN states = 1 .. Len(states)
    BY SeqBasics DEF IInv, MemoryOK
  <1>3. Undisturbed
    BY <1>2 DEF Undisturbed, Aside
  <1> QED
    BY <1>1, <1>3

LEMMA AsideItself ==
    ASSUME NEW all, IsSeq(all), NEW B PROVE Aside(all, B, all, B, {})
  BY DEF Aside

LEMMA ListsOf ==
    ASSUME NEW i \in Instructions \cup {Nothing}
    PROVE  i.list \in Seq(Instructions) /\ i.else \in Seq(Instructions)
  <1>1. CASE i \in Instructions
    BY <1>1, ProgramsType
  <1>2. CASE i = Nothing
    <2>1. i.list = <<>> /\ i.else = <<>>
      BY <1>2 DEF Nothing
    <2>2. <<>> \in Seq(Instructions)
      OBVIOUS
    <2> QED
      BY <2>1, <2>2
  <1> QED
    BY <1>1, <1>2

LEMMA FrameIs ==
    ASSUME NEW n \in Nat, NEW s \in 1 .. n, NEW k, NEW todo \in Seq(Instructions),
           NEW i \in Instructions \cup {Nothing}, NEW xs,
           NEW f, f = Frame(s, k, todo, i, xs)
    PROVE  FrameOK(f, n) /\ f.state = s
  BY DEF Frame, FrameOK

-----------------------------------------------------------------------------
(* The stack of walk calls.                                                *)

LEMMA TopIs ==
    ASSUME IInv, stack # <<>>
    PROVE  /\ Len(stack) \in Nat /\ Len(stack) >= 1 /\ Top = stack[Len(stack)]
           /\ FrameOK(Top, Len(states)) /\ Top.state \in 1 .. Len(states)
           /\ State = states[Top.state] /\ Fine(State, arrays, bindings, Len(states), Len(scopes))
           /\ IsSeq(states) /\ Len(states) \in Nat /\ DOMAIN states = 1 .. Len(states)
           /\ IsSeq(stack) /\ DOMAIN stack = 1 .. Len(stack)
  <1>1. /\ IsSeq(stack) /\ Len(stack) \in Nat /\ Len(stack) # 0 /\ Top = stack[Len(stack)]
        /\ DOMAIN stack = 1 .. Len(stack)
    BY SeqBasics DEF IInv, StackOK, Top
  <1>2. FrameOK(Top, Len(states))
    BY <1>1 DEF IInv, StackOK
  <1>3. Top.state \in 1 .. Len(states)
    BY <1>2 DEF FrameOK
  <1>4. State = states[Top.state] /\ Fine(State, arrays, bindings, Len(states), Len(scopes))
    BY <1>3 DEF State, IInv, MemoryOK
  <1>5. IsSeq(states) /\ Len(states) \in Nat /\ DOMAIN states = 1 .. Len(states)
    BY SeqBasics DEF IInv, MemoryOK
  <1> QED
    BY <1>1, <1>2, <1>3, <1>4, <1>5

LEMMA InstrIs ==
    ASSUME IInv, Walking
    PROVE  /\ Instr \in Instructions /\ Tail(Top.todo) \in Seq(Instructions)
           /\ Instr.list \in Seq(Instructions) /\ Instr.else \in Seq(Instructions)
           /\ stack # <<>>
  <1>1. Top.todo \in Seq(Instructions) /\ Top.todo # <<>> /\ stack # <<>>
    BY TopIs DEF Walking, FrameOK
  <1>2. Instr \in Instructions /\ Tail(Top.todo) \in Seq(Instructions)
    BY <1>1 DEF Instr
  <1> QED
    BY <1>1, <1>2, ListsOf

LEMMA Retopped ==
    ASSUME NEW s, NEW n, StackOK(s, n), s # <<>>, NEW f, FrameOK(f, n),
           NEW t, t = [s EXCEPT ![Len(s)] = f]
    PROVE  StackOK(t, n) /\ t # <<>> /\ Last(t) = f
  <1>1. PICK q \in Nat : q = Len(s) /\ q >= 1
    BY SeqBasics DEF StackOK
  <1>2. IsSeq(t) /\ Len(t) = q /\ t[q] = f /\ \A i \in 1 .. q - 1 : t[i] = s[i]
    <2>1. IsSeq(s)
      BY DEF StackOK
    <2>2. /\ IsSeq([s EXCEPT ![Len(s)] = f]) /\ Len([s EXCEPT ![Len(s)] = f]) = Len(s)
          /\ \A i \in 1 .. Len(s) - 1 : [s EXCEPT ![Len(s)] = f][i] = s[i]
          /\ Len(s) > 0 => [s EXCEPT ![Len(s)] = f][Len(s)] = f
      BY <2>1, Replacing, Zenon
    <2>3. /\ Len(t) = Len(s) /\ IsSeq(t)
          /\ \A i \in 1 .. Len(s) - 1 : t[i] = s[i]
          /\ Len(s) > 0 => t[Len(s)] = f
      BY <2>2, Zenon
    <2> QED
      BY <1>1, <2>3
  <1>3. \A i \in 1 .. q : i = q \/ i \in 1 .. q - 1
    BY <1>1
  <1>4. \A i \in 1 .. q : FrameOK(t[i], n)
    BY <1>1, <1>2, <1>3 DEF StackOK
  <1>5. t # <<>> /\ Last(t) = f
    <2>1. (t = <<>> <=> Len(t) = 0) /\ Last(t) = t[Len(t)]
      BY <1>2, SeqBasics, Zenon
    <2> QED
      BY <1>1, <1>2, <2>1
  <1> QED
    BY <1>2, <1>4, <1>5 DEF StackOK

LEMMA AdvancedIs ==
    ASSUME IInv, Walking
    PROVE  StackOK(Advanced, Len(states)) /\ Advanced # <<>> /\ Last(Advanced).state = Top.state
  <1>1. PICK f : f = [Top EXCEPT !.todo = Tail(Top.todo)]
    OBVIOUS
  <1>2. FrameOK(Top, Len(states)) /\ Top = stack[Len(stack)] /\ stack # <<>>
    BY TopIs, InstrIs
  <1>3. FrameOK(f, Len(states)) /\ f.state = Top.state
    BY <1>1, <1>2, InstrIs DEF FrameOK
  <1>4. Advanced = [stack EXCEPT ![Len(stack)] = f]
    BY <1>1, <1>2 DEF Advanced
  <1> QED
    <2>1. StackOK(stack, Len(states))
      BY DEF IInv
    <2>2. StackOK(Advanced, Len(states)) /\ Advanced # <<>> /\ Last(Advanced) = f
      BY <1>2, <1>3, <1>4, <2>1, Retopped
    <2> QED
      BY <1>3, <2>2

LEMMA Pushed ==
    ASSUME NEW s, NEW n \in Nat, StackOK(s, n), NEW p \in Nat, n <= p, NEW f, FrameOK(f, p),
           NEW t, t = Append(s, f)
    PROVE  StackOK(t, p) /\ t # <<>> /\ Last(t) = f
  <1>1. PICK q \in Nat : q = Len(s)
    BY SeqBasics DEF StackOK
  <1>2. IsSeq(t) /\ Len(t) = q + 1 /\ t[q + 1] = f /\ \A i \in 1 .. q : t[i] = s[i]
    BY <1>1, Appending DEF StackOK
  <1>3. \A i \in 1 .. q : FrameOK(s[i], p)
    BY <1>1 DEF StackOK, FrameOK
  <1>4. \A i \in 1 .. q + 1 : i = q + 1 \/ i \in 1 .. q
    OBVIOUS
  <1>5. \A i \in 1 .. q + 1 : FrameOK(t[i], p)
    BY <1>2, <1>3, <1>4
  <1>6. t # <<>> /\ Last(t) = f
    <2>1. (t = <<>> <=> Len(t) = 0) /\ Last(t) = t[Len(t)]
      BY <1>2, SeqBasics, Zenon
    <2> QED
      BY <1>2, <2>1
  <1> QED
    BY <1>2, <1>5, <1>6 DEF StackOK

LEMMA Entered ==
    ASSUME IInv, Walking, NEW p \in Nat, Len(states) <= p, NEW f, FrameOK(f, p), Enter(f)
    PROVE  StackOK(stack', p) /\ stack' # <<>> /\ Last(stack') = f
  <1>1. stack' = Append(Advanced, f)
    BY DEF Enter
  <1>2. StackOK(Advanced, Len(states)) /\ Len(states) \in Nat
    BY AdvancedIs, TopIs, InstrIs
  <1> QED
    BY <1>1, <1>2, Pushed

LEMMA CutIs ==
    ASSUME NEW s, NEW n, StackOK(s, n), NEW q \in Nat, q <= Len(s)
    PROVE  StackOK(SubSeq(s, 1, q), n)
  <1>1. Len(s) \in Nat
    BY SeqBasics DEF StackOK
  <1>2. \A i \in 1 .. q : i \in 1 .. Len(s)
    BY <1>1
  <1> QED
    BY <1>2, Cutting DEF StackOK

LEMMA Left ==
    ASSUME IInv, stack # <<>>, Leave
    PROVE  StackOK(stack', Len(states))
  <1>1. Len(stack) - 1 \in Nat /\ Len(stack) - 1 <= Len(stack)
    BY TopIs
  <1> QED
    BY <1>1, CutIs DEF IInv, Leave, Front

-----------------------------------------------------------------------------
(* The steps.                                                              *)

LEMMA Plainly ==
    ASSUME IInv, UNCHANGED <<body, states, scopes, arrays, bindings>>,
           StackOK(stack', Len(states))
    PROVE  IInv' /\ Undisturbed
  <1>1. IsSeq(states) /\ IsSeq(scopes)
    BY DEF IInv, MemoryOK
  <1>2. Aside(states, bindings, states', bindings', {})
    BY <1>1, AsideItself
  <1>3. MemoryOK(states', arrays', bindings', Len(scopes'))
    BY DEF IInv
  <1>4. PICK E : E = {}
    OBVIOUS
  <1> QED
    BY <1>1, <1>2, <1>3, <1>4, Concluding

LEMMA Assigns ==
    ASSUME IInv, stack # <<>>, NEW es, Len(es) \in 1 .. 3,
           Becomes(Assigned(Memory, Top.state, es)),
           UNCHANGED <<body, scopes, arrays>>,
           StackOK(stack', Len(states))
    PROVE  IInv' /\ Undisturbed
  <1>1. PICK q : q = Assigned([states |-> states, bindings |-> bindings], Top.state, es)
    OBVIOUS
  <1>2. states' = q.states /\ bindings' = q.bindings
    BY <1>1 DEF Becomes, Memory
  <1>3. /\ MemoryOK(states, arrays, bindings, Len(scopes)) /\ IsSeq(scopes)
        /\ Top.state \in 1 .. Len(states) /\ State = states[Top.state]
    BY TopIs DEF IInv
  <1>4. PICK E : E = {states[Top.state].env}
    OBVIOUS
  <1>5. Keeps(states, arrays, bindings, Len(scopes), q, E)
    BY <1>1, <1>3, <1>4, AssigningKeeps
  <1> QED
    BY <1>2, <1>3, <1>4, <1>5, Concluding DEF Keeps

\* The variables of a range are declared in the state on top.
LEMMA EvaluatedIs ==
    ASSUME IInv, Walking, NEW v, NEW q, q = Evaluated(v)
    PROVE  Keeps(states, arrays, bindings, Len(scopes), q, {State.env})
  <1>1. PICK xs : xs = Declared(v)
    OBVIOUS
  <1>2. IsSeq(xs)
    <2>1. Instr.vars \in Seq(STRING)
      BY InstrIs, ProgramsType
    <2>2. PICK n \in Nat : n = Len(Instr.vars) /\ DOMAIN Instr.vars = 1 .. n
      BY <2>1
    <2>3. xs = [i \in 1 .. n |-> xs[i]]
      BY <1>1, <2>2 DEF Declared
    <2> QED
      BY <2>3, FunctionIsSeq
  <1>3. PICK r : r = Appended(bindings, State.vars, xs, Unbound)
    OBVIOUS
  <1>4. q = Stored([states |-> states, bindings |-> bindings], Top.state, r, xs)
    BY <1>1, <1>3 DEF Evaluated, Memory
  <1>5. /\ MemoryOK(states, arrays, bindings, Len(scopes)) /\ Heap(bindings)
        /\ Top.state \in 1 .. Len(states) /\ State = states[Top.state]
        /\ Fits(bindings, State.vars)
    BY TopIs, InstrIs DEF IInv, MemoryOK, Fine
  <1>6. Written(bindings, states[Top.state].vars, r.heap, r.slice)
    BY <1>2, <1>3, <1>5, AppendedWrites
  <1>7. PICK E : E = {states[Top.state].env}
    OBVIOUS
  <1>8. Keeps(states, arrays, bindings, Len(scopes), q, E)
    BY <1>4, <1>5, <1>6, <1>7, StoringKeeps
  <1> QED
    BY <1>5, <1>7, <1>8

LEMMA Evaluates ==
    ASSUME IInv, Walking, NEW v, Becomes(Evaluated(v)),
           UNCHANGED <<body, scopes, arrays>>,
           StackOK(stack', Len(states))
    PROVE  IInv' /\ Undisturbed
  <1>1. PICK q : q = Evaluated(v)
    OBVIOUS
  <1>2. states' = q.states /\ bindings' = q.bindings
    BY <1>1 DEF Becomes
  <1>3. PICK E : E = {State.env}
    OBVIOUS
  <1>4. Keeps(states, arrays, bindings, Len(scopes), q, E)
    BY <1>1, <1>3, EvaluatedIs
  <1>5. IsSeq(scopes) /\ stack # <<>>
    BY InstrIs DEF IInv
  <1> QED
    BY <1>2, <1>3, <1>4, <1>5, Concluding DEF Keeps

\* A panic ends the execution, or goes on in the try with its exception.
LEMMA Panics ==
    ASSUME IInv, stack # <<>>, NEW m, Keeps(states, arrays', bindings, Len(scopes), m, {State.env}),
           Panic(m)
    PROVE  IInv' /\ Undisturbed
  <1>1. PICK w, C : w = m.states /\ C = m.bindings
    OBVIOUS
  <1>2. /\ m = [states |-> w, bindings |-> C]
        /\ MemoryOK(w, arrays', C, Len(scopes)) /\ Len(w) = Len(states)
        /\ Aside(states, bindings, w, C, {State.env})
    BY <1>1 DEF Keeps
  <1>3. UNCHANGED <<body, scopes>> /\ IsSeq(scopes) /\ body \in Programs
    BY DEF Panic, IInv
  <1>4. PICK n \in Nat : n = Len(states) /\ n = Len(w)
    BY <1>2, TopIs
  <1>5. PICK q \in Nat : q = Len(stack) /\ DOMAIN stack = 1 .. q
    BY TopIs
  <1>6. PICK I : I = {i \in 1 .. q : stack[i].kind = "try"}
    OBVIOUS
  <1>7. PICK t : t = IF I # {} THEN Max(I) ELSE 0
    OBVIOUS
  <1>8. t = SelectLastInSeq(stack, LAMBDA f : f.kind = "try")
    BY <1>5, <1>6, <1>7 DEF SelectLastInSeq
  <1>9. CASE t = 0
    <2>1. stack' = <<>> /\ states' = w /\ bindings' = C
      BY <1>1, <1>8, <1>9 DEF Panic, Becomes
    <2>2. StackOK(stack', n)
      BY <2>1, EmptyIsSeq DEF StackOK
    <2>3. PICK E : E = {State.env}
      OBVIOUS
    <2> QED
      BY <1>2, <1>3, <1>4, <2>1, <2>2, <2>3, Concluding
  <1>10. CASE t # 0
    <2>1. t \in 1 .. q
      BY <1>6, <1>7, <1>10, MaxExists
    <2>2. PICK f : f = stack[t]
      OBVIOUS
    <2>3. PICK es : es = <<Binding(f.stmt.vars[1], Exception)>>
      OBVIOUS
    <2>4. PICK u : u = Assigned(m, f.state, es)
      OBVIOUS
    <2>5. /\ stack' = Append(SubSeq(stack, 1, t - 1), Caught(f))
          /\ states' = u.states /\ bindings' = u.bindings
      BY <1>8, <1>10, <2>2, <2>3, <2>4 DEF Panic, Becomes
    <2>6. FrameOK(f, n)
      BY <1>4, <1>5, <2>1, <2>2 DEF IInv, StackOK
    <2>7. PICK c : c = Caught(f)
      OBVIOUS
    <2>8. FrameOK(c, n) /\ c.state = f.state /\ f.state \in 1 .. n
      <3>1. f.state \in 1 .. n /\ f.stmt \in Instructions \cup {Nothing}
        BY <2>6 DEF FrameOK
      <3>2. f.stmt.else \in Seq(Instructions)
        BY <3>1, ListsOf
      <3> QED
        BY <2>7, <3>1, <3>2, FrameIs DEF Caught
    <2>9. PICK s : s = SubSeq(stack, 1, t - 1)
      OBVIOUS
    <2>10. StackOK(s, n)
      <3>1. t - 1 \in Nat /\ t - 1 <= Len(stack) /\ StackOK(stack, n)
        BY <1>4, <1>5, <2>1 DEF IInv
      <3> QED
        BY <2>9, <3>1, CutIs
    <2>11. StackOK(stack', n) /\ stack' # <<>> /\ Last(stack') = c
      <3>1. stack' = Append(s, c)
        BY <2>5, <2>7, <2>9
      <3>2. n \in Nat /\ n <= n
        BY <1>4
      <3> QED
        BY <2>8, <2>10, <3>1, <3>2, Pushed
    <2>12. Len(es) \in 1 .. 3
      BY <2>3, OneIsSeq
    <2>13. u = Assigned([states |-> w, bindings |-> C], f.state, es)
      BY <1>2, <2>4
    <2>14. PICK F : F = {w[f.state].env}
      OBVIOUS
    <2>15. Keeps(w, arrays', C, Len(scopes), u, F)
      BY <1>2, <1>4, <2>8, <2>12, <2>13, <2>14, AssigningKeeps
    <2>16. PICK E : E = {State.env} \cup F
      OBVIOUS
    <2>17. Aside(states, bindings, states', bindings', E)
      BY <1>2, <2>5, <2>15, <2>16, AsideTwice DEF Keeps
    <2>18. State'.env = w[f.state].env
      <3>1. Top'.state = f.state
        BY <2>8, <2>11 DEF Top
      <3>2. State' = states'[f.state]
        BY <3>1 DEF State
      <3> QED
        BY <1>4, <2>5, <2>8, <2>15, <3>2 DEF Keeps, Aside
    <2>19. MemoryOK(states', arrays', bindings', Len(scopes')) /\ Len(states') = n
      BY <1>3, <1>4, <2>5, <2>15 DEF Keeps
    <2> QED
      BY <1>3, <2>11, <2>14, <2>16, <2>18, <2>19, <2>17, Concluding
  <1> QED
    BY <1>9, <1>10

\* What a state with no memory yet is made of.
LEMMA NewStateIs ==
    ASSUME NEW bound, NEW depth, NEW v, NEW env, NEW user, NEW first,
           NEW st, st = NewState(bound, depth, v, env, user, first)
    PROVE  /\ IsState(st) /\ st.bound = bound /\ st.depth = depth /\ st.vars = v
           /\ st.env = env /\ st.user = user /\ st.first = first
  BY DEF NewState, IsState

LEMMA BodyIs ==
    ASSUME body \in Programs, NEW x \in DOMAIN body
    PROVE  body[x] \in Seq(Instructions)
  <1>1. body[x] \in Range(body)
    BY DEF Range
  <1>2. Range(body) \in {Range(p) : p \in Programs}
    OBVIOUS
  <1> QED
    BY <1>1, <1>2, ProgramsType

LEMMA NothingIs == <<>> \in Seq(Instructions) /\ Nothing \in Instructions \cup {Nothing}
  OBVIOUS

LEMMA PlainSteps ==
    ASSUME IInv,
           \/ Prints \/ walkIfOrWith \/ walkTry \/ Ends \/ RangeEnds \/ Puts
           \/ walkWhile \/ WhileGoesOn \/ UseNoBlock
    PROVE  IInv' /\ Undisturbed
  <1>1. UNCHANGED <<body, states, scopes, arrays, bindings>>
    BY DEF Prints, walkIfOrWith, walkTry, Ends, RangeEnds, Puts, walkWhile, WhileGoesOn, UseNoBlock
  <1>2. SUFFICES StackOK(stack', Len(states))
    BY <1>1, Plainly
  <1>3. CASE Walking /\ stack' = Advanced
    BY <1>3, AdvancedIs
  <1>4. CASE stack # <<>> /\ Leave
    BY <1>4, Left
  <1>5. ASSUME Walking, NEW k, NEW todo \in Seq(Instructions), NEW i \in Instructions \cup {Nothing},
               NEW xs, Enter(Frame(Top.state, k, todo, i, xs))
        PROVE  StackOK(stack', Len(states))
    <2>1. PICK f : f = Frame(Top.state, k, todo, i, xs)
      OBVIOUS
    <2>2. Len(states) \in Nat /\ Top.state \in 1 .. Len(states)
      BY <1>5, TopIs, InstrIs
    <2>3. PICK n \in Nat : n = Len(states) /\ Top.state \in 1 .. n
      BY <2>2
    <2>4. FrameOK(f, n)
      BY <1>5, <2>1, <2>3, FrameIs
    <2>5. Enter(f) /\ Walking /\ Len(states) <= n
      BY <1>5, <2>1, <2>3 DEF Enter
    <2>6. StackOK(stack', n)
      BY <2>4, <2>5, Entered
    <2> QED
      BY <2>3, <2>6
  <1>6. CASE Prints
    BY <1>3, <1>6 DEF Prints, Ready
  <1>7. CASE walkIfOrWith
    <2>1. PICK list \in {Instr.list, Instr.else} : Enter(Frame(Top.state, "list", list, Nothing, <<>>))
      BY <1>7 DEF walkIfOrWith
    <2>2. Walking
      BY <1>7 DEF walkIfOrWith, Ready
    <2>3. list \in Seq(Instructions)
      BY <2>2, InstrIs
    <2> QED
      BY <1>5, <2>1, <2>2, <2>3, NothingIs
  <1>8. CASE walkTry
    <2>1. Walking /\ Enter(Frame(Top.state, "try", Instr.list, Instr, <<>>))
      BY <1>8 DEF walkTry, Ready
    <2> QED
      BY <1>5, <2>1, InstrIs
  <1>9. CASE Ends
    BY <1>4, <1>9 DEF Ends
  <1>10. CASE RangeEnds
    BY <1>4, <1>10 DEF RangeEnds, InLoop
  <1>11. CASE Puts
    BY <1>3, <1>11 DEF Puts, Ready
  <1>12. CASE walkWhile
    <2>1. Walking
      BY <1>12 DEF walkWhile, Ready
    <2>2. CASE stack' = Advanced
      BY <1>3, <2>1, <2>2
    <2>3. CASE Enter(Frame(Top.state, "while", Instr.list, Instr, <<>>))
      BY <1>5, <2>1, <2>3, InstrIs
    <2> QED
      BY <1>12, <2>2, <2>3 DEF walkWhile
  <1>13. CASE WhileGoesOn
    <2>1. stack # <<>>
      BY <1>13 DEF WhileGoesOn, InLoop
    <2>2. CASE Leave
      BY <1>4, <2>1, <2>2
    <2>3. CASE stack' = [stack EXCEPT ![Len(stack)].todo = Top.stmt.list, ![Len(stack)].n = Iterations]
      <3>1. PICK f : f = [Top EXCEPT !.todo = Top.stmt.list, !.n = Iterations]
        OBVIOUS
      <3>2. FrameOK(Top, Len(states)) /\ Top = stack[Len(stack)] /\ Len(stack) \in DOMAIN stack
        BY <2>1, TopIs
      <3>3. Top.stmt.list \in Seq(Instructions)
        BY <3>2, ListsOf DEF FrameOK
      <3>4. FrameOK(f, Len(states))
        BY <3>1, <3>2, <3>3 DEF FrameOK
      <3>5. stack' = [stack EXCEPT ![Len(stack)] = f]
        BY <2>3, <3>1, <3>2
      <3>6. StackOK(stack, Len(states))
        BY DEF IInv
      <3> QED
        BY <2>1, <3>4, <3>5, <3>6, Retopped
    <2> QED
      BY <1>13, <2>2, <2>3 DEF WhileGoesOn
  <1>14. CASE UseNoBlock
    BY <1>3, <1>14 DEF UseNoBlock, Ready
  <1> QED
    BY <1>6, <1>7, <1>8, <1>9, <1>10, <1>11, <1>12, <1>13, <1>14

LEMMA AssigningSteps ==
    ASSUME IInv, Sets \/ oneIteration
    PROVE  IInv' /\ Undisturbed
  <1>1. CASE Sets
    <2>1. PICK es : es = <<Binding(Instr.vars[1], Instr.value)>>
      OBVIOUS
    <2>2. /\ Walking /\ stack' = Advanced /\ Becomes(Assigned(Memory, Top.state, es))
          /\ UNCHANGED <<body, scopes, arrays>>
      BY <1>1, <2>1 DEF Sets, Ready
    <2>3. Len(es) \in 1 .. 3
      BY <2>1, OneIsSeq
    <2>4. StackOK(stack', Len(states)) /\ stack # <<>>
      BY <2>2, AdvancedIs, InstrIs
    <2> QED
      BY <2>2, <2>3, <2>4, Assigns
  <1>2. CASE oneIteration
    <2>1. PICK es : es = Element(Head(Top.items))
      OBVIOUS
    <2>2. /\ stack # <<>> /\ Becomes(Assigned(Memory, Top.state, es))
          /\ stack' = [stack EXCEPT ![Len(stack)].todo = Top.stmt.list, ![Len(stack)].items = Tail(@)]
          /\ UNCHANGED <<body, scopes, arrays>>
      BY <1>2, <2>1 DEF oneIteration, InLoop
    <2>3. Len(es) \in 1 .. 3
      <3>1. PICK b, c, d : /\ b = Binding(Top.stmt.vars[1], Index)
                           /\ c = Binding(Top.stmt.vars[2], Head(Top.items))
                           /\ d = Binding(Top.stmt.vars[1], Head(Top.items))
        OBVIOUS
      <3>2. es = <<b, c>> \/ es = <<d>>
        BY <2>1, <3>1 DEF Element
      <3> QED
        BY <3>2
    <2>4. PICK f : f = [Top EXCEPT !.todo = Top.stmt.list, !.items = Tail(Top.items)]
      OBVIOUS
    <2>5. FrameOK(Top, Len(states)) /\ Top = stack[Len(stack)] /\ Len(stack) \in DOMAIN stack
      BY <2>2, TopIs
    <2>6. Top.stmt.list \in Seq(Instructions)
      BY <2>5, ListsOf DEF FrameOK
    <2>7. FrameOK(f, Len(states))
      BY <2>4, <2>5, <2>6 DEF FrameOK
    <2>8. stack' = [stack EXCEPT ![Len(stack)] = f]
      BY <2>2, <2>4, <2>5
    <2>9. StackOK(stack', Len(states))
      BY <2>2, <2>7, <2>8, Retopped DEF IInv
    <2> QED
      BY <2>2, <2>3, <2>9, Assigns
  <1> QED
    BY <1>1, <1>2

LEMMA RangeSteps ==
    ASSUME IInv, walkRange \/ RangeNothing \/ ForKeys
    PROVE  IInv' /\ Undisturbed
  <1>1. ASSUME Walking, NEW xs, Enter(Frame(Top.state, "range", <<>>, Instr, xs))
        PROVE  StackOK(stack', Len(states))
    <2>1. PICK f : f = Frame(Top.state, "range", <<>>, Instr, xs)
      OBVIOUS
    <2>2. Len(states) \in Nat /\ Top.state \in 1 .. Len(states)
      BY <1>1, TopIs, InstrIs
    <2>3. PICK n \in Nat : n = Len(states) /\ Top.state \in 1 .. n
      BY <2>2
    <2>4. FrameOK(f, n)
      BY <1>1, <2>1, <2>3, FrameIs, InstrIs, NothingIs
    <2>5. Enter(f) /\ Walking /\ Len(states) <= n
      BY <1>1, <2>1, <2>3 DEF Enter
    <2>6. StackOK(stack', n)
      BY <2>4, <2>5, Entered
    <2> QED
      BY <2>3, <2>6
  <1>2. CASE walkRange
    <2>1. PICK v : v = RangeValue
      OBVIOUS
    <2>2. /\ Walking /\ Enter(Frame(Top.state, "range", <<>>, Instr, Elements))
          /\ Becomes(Evaluated(v)) /\ UNCHANGED <<body, scopes, arrays>>
      BY <1>2, <2>1 DEF walkRange, Ready
    <2> QED
      BY <1>1, <2>2, Evaluates
  <1>3. CASE RangeNothing
    <2>1. PICK v : v = RangeValue
      OBVIOUS
    <2>2. Walking /\ stack' = Advanced /\ Becomes(Evaluated(v)) /\ UNCHANGED <<body, scopes, arrays>>
      BY <1>3, <2>1 DEF RangeNothing, Ready
    <2> QED
      BY <2>2, AdvancedIs, Evaluates
  <1>4. CASE ForKeys
    <2>1. PICK v : v = KeyList
      OBVIOUS
    <2>2. PICK order : Enter(Frame(Top.state, "range", <<>>, Instr, order))
      BY <1>4 DEF ForKeys
    <2>3. Walking /\ Becomes(Evaluated(v)) /\ UNCHANGED <<body, scopes, arrays>>
      BY <1>4, <2>1 DEF ForKeys, Ready
    <2> QED
      BY <1>1, <2>2, <2>3, Evaluates
  <1> QED
    BY <1>2, <1>3, <1>4

\* The memory of a step that changes the blocks only.
LEMMA KeepsFrozen ==
    ASSUME IInv, stack # <<>>, NEW A, Moved(arrays, A, Len(states)),
           NEW x, Fits(A, x), Live(A, x, Len(states)),
           NEW w, w = [states EXCEPT ![Top.state].bound = x],
           NEW q, q = [states |-> w, bindings |-> bindings]
    PROVE  Keeps(states, A, bindings, Len(scopes), q, {})
  <1>1. MemoryOK(states, arrays, bindings, Len(scopes)) /\ Top.state \in 1 .. Len(states)
    BY TopIs DEF IInv
  <1> QED
    BY <1>1, FreezingKeeps

LEMMA KeepsItself ==
    ASSUME IInv
    PROVE  Keeps(states, arrays, bindings, Len(scopes), Memory, {})
  <1>1. MemoryOK(states, arrays, bindings, Len(scopes)) /\ IsSeq(states)
    BY DEF IInv, MemoryOK
  <1> QED
    BY <1>1, AsideItself DEF Keeps, Memory

LEMMA AsideMore ==
    ASSUME NEW all, NEW A, NEW B, NEW k, NEW q, NEW E, Keeps(all, A, B, k, q, E), NEW F, E \subseteq F
    PROVE  Keeps(all, A, B, k, q, F)
  BY DEF Keeps, Aside

\* __freeze keeps the slice of the state a window of arrays with live entries.
LEMMA FrozenIs ==
    ASSUME IInv, Walking
    PROVE  /\ Moved(arrays, Frozen.heap, Len(states))
           /\ Fits(Frozen.heap, Frozen.slice) /\ Live(Frozen.heap, Frozen.slice, Len(states))
  <1>1. PICK r : r = Frozen
    OBVIOUS
  <1>2. PICK n \in Nat : n = Len(states)
    BY TopIs, InstrIs
  <1>3. /\ Heap(arrays) /\ Fits(arrays, State.bound) /\ Live(arrays, State.bound, n)
        /\ Top.state \in 1 .. n
    BY <1>2, TopIs, InstrIs DEF IInv, MemoryOK, Fine
  <1>4. CASE Instr.value = Null
    <2>1. r.heap = arrays /\ r.slice = State.bound
      BY <1>1, <1>4 DEF Frozen
    <2> QED
      BY <1>1, <1>2, <1>3, <2>1, GrownItself
  <1>5. CASE Instr.value # Null
    <2>1. PICK e : e = [name |-> Instr.value, scope |-> Top.state]
      OBVIOUS
    <2>2. r = Appended(arrays, State.bound, <<e>>, NoEntry)
      BY <1>1, <1>5, <2>1 DEF Frozen
    <2>3. e.scope \in 1 .. n
      BY <1>3, <2>1
    <2>4. Moved(arrays, r.heap, n) /\ Fits(r.heap, r.slice) /\ Live(r.heap, r.slice, n)
      BY <1>3, <2>2, <2>3, Freezing
    <2> QED
      BY <1>1, <1>2, <2>4
  <1> QED
    BY <1>4, <1>5

LEMMA PanicSteps ==
    ASSUME IInv, Fails \/ CannotRange \/ WhileTooLong \/ CallTooDeep \/ BlockTooDeep
    PROVE  IInv' /\ Undisturbed
  <1>1. ASSUME stack # <<>>, UNCHANGED arrays, Panic(Memory)
        PROVE  IInv' /\ Undisturbed
    <2>1. PICK E : E = {State.env} /\ {} \subseteq E
      OBVIOUS
    <2>2. Keeps(states, arrays', bindings, Len(scopes), Memory, E)
      BY <1>1, <2>1, KeepsItself, AsideMore
    <2> QED
      BY <1>1, <2>1, <2>2, Panics
  <1>2. CASE Fails
    BY <1>1, <1>2, InstrIs DEF Fails, Ready
  <1>3. CASE WhileTooLong
    BY <1>1, <1>3 DEF WhileTooLong, InLoop
  <1>4. CASE BlockTooDeep
    BY <1>1, <1>4, InstrIs DEF BlockTooDeep, Ready
  <1>5. CASE CannotRange
    <2>1. PICK m : m = Evaluated(RangeValue)
      OBVIOUS
    <2>2. Walking /\ UNCHANGED arrays /\ Panic(m)
      BY <1>5, <2>1 DEF CannotRange, Ready, Panic
    <2>3. Keeps(states, arrays', bindings, Len(scopes), m, {State.env})
      BY <2>1, <2>2, EvaluatedIs
    <2> QED
      BY <2>2, <2>3, InstrIs, Panics
  <1>6. CASE CallTooDeep
    <2>1. PICK A, x : A = Frozen.heap /\ x = Frozen.slice
      OBVIOUS
    <2>2. PICK w : w = [states EXCEPT ![Top.state].bound = x]
      OBVIOUS
    <2>3. PICK m : m = [states |-> w, bindings |-> bindings]
      OBVIOUS
    <2>4. m = [Memory EXCEPT !.states = Freezes(@)]
      BY <2>1, <2>2, <2>3 DEF Memory, Freezes
    <2>5. Walking /\ arrays' = A /\ Panic(m)
      BY <1>6, <2>1, <2>4 DEF CallTooDeep, Ready, Panic
    <2>6. stack # <<>>
      BY <2>5, InstrIs
    <2>7. Moved(arrays, A, Len(states)) /\ Fits(A, x) /\ Live(A, x, Len(states))
      BY <2>1, <2>5, FrozenIs
    <2>8. Keeps(states, A, bindings, Len(scopes), m, {})
      BY <2>2, <2>3, <2>6, <2>7, KeepsFrozen
    <2>9. Keeps(states, arrays', bindings, Len(scopes), m, {State.env})
      BY <2>5, <2>8, AsideMore
    <2> QED
      BY <2>5, <2>6, <2>9, Panics
  <1> QED
    BY <1>2, <1>3, <1>4, <1>5, <1>6

LEMMA UndefinedStep ==
    ASSUME IInv, CallUndefined
    PROVE  IInv' /\ Undisturbed
  <1>1. PICK A, x : A = Frozen.heap /\ x = Frozen.slice
    OBVIOUS
  <1>2. PICK w : w = [states EXCEPT ![Top.state].bound = x]
    OBVIOUS
  <1>3. PICK m : m = [states |-> w, bindings |-> bindings]
    OBVIOUS
  <1>4. /\ Walking /\ arrays' = A /\ states' = w /\ stack' = Advanced
        /\ UNCHANGED <<body, scopes, bindings>>
    BY <1>1, <1>2 DEF CallUndefined, Ready, Freezes
  <1>5. stack # <<>>
    BY <1>4, InstrIs
  <1>6. Moved(arrays, A, Len(states)) /\ Fits(A, x) /\ Live(A, x, Len(states))
    BY <1>1, <1>4, FrozenIs
  <1>7. PICK E : E = {}
    OBVIOUS
  <1>8. Keeps(states, A, bindings, Len(scopes), m, E)
    BY <1>2, <1>3, <1>5, <1>6, <1>7, KeepsFrozen
  <1>9. /\ MemoryOK(w, A, bindings, Len(scopes)) /\ Len(w) = Len(states)
        /\ Aside(states, bindings, w, bindings, E)
    BY <1>3, <1>8 DEF Keeps
  <1>10. StackOK(stack', Len(states')) /\ IsSeq(scopes')
    BY <1>4, <1>9, AdvancedIs DEF IInv
  <1> QED
    BY <1>4, <1>7, <1>9, <1>10, Concluding

\* The variables of a template that is called.
LEMMA GlobalsCopiedIs ==
    ASSUME IInv, NEW r, r = GlobalsCopied
    PROVE  /\ Grown(bindings, r.heap) /\ \A a \in 1 .. Len(bindings) : r.heap[a] = bindings[a]
           /\ Fits(r.heap, r.slice) /\ r.slice.arr = Len(bindings) + 1
  <1>1. PICK n \in Nat : n = Len(bindings)
    BY SeqBasics DEF IInv, MemoryOK, Heap
  <1>2. PICK g : g = Globals
    OBVIOUS
  <1>3. IsSeq(g) /\ Len(g) \in Nat
    BY <1>2, GlobalsType DEF IsSeq
  <1>4. PICK C : C = Append(bindings, g)
    OBVIOUS
  <1>5. PICK v : v = [arr |-> n + 1, len |-> Len(g)]
    OBVIOUS
  <1>6. r.heap = C /\ r.slice = v
    BY <1>1, <1>2, <1>4, <1>5 DEF GlobalsCopied
  <1>7. IsSeq(bindings) /\ Heap(bindings)
    BY DEF IInv, MemoryOK, Heap
  <1>8. IsSeq(C) /\ Len(C) = n + 1 /\ C[n + 1] = g /\ \A a \in 1 .. n : C[a] = bindings[a]
    BY <1>1, <1>4, <1>7, Appending
  <1>9. \A a \in 1 .. n + 1 : a = n + 1 \/ a \in 1 .. n
    OBVIOUS
  <1>10. Heap(C)
    BY <1>1, <1>3, <1>7, <1>8, <1>9 DEF Heap
  <1>11. Grown(bindings, C)
    BY <1>1, <1>8, <1>10 DEF Grown
  <1>12. Fits(C, v)
    BY <1>1, <1>3, <1>5, <1>8 DEF Fits, Slices, Cap
  <1> QED
    BY <1>1, <1>5, <1>6, <1>8, <1>11, <1>12

\* The memory with the state st, when the state on top goes on with the blocks x.
LEMMA Added ==
    ASSUME IInv, stack # <<>>, NEW A, Moved(arrays, A, Len(states)),
           NEW x, Fits(A, x), Live(A, x, Len(states)),
           NEW C, Grown(bindings, C), \A a \in 1 .. Len(bindings) : C[a] = bindings[a],
           NEW p \in Nat, Len(scopes) <= p,
           NEW st, Fine(st, A, C, Len(states) + 1, p), Places(states, st),
           NEW y, y = Append([states EXCEPT ![Top.state].bound = x], st)
    PROVE  /\ MemoryOK(y, A, C, p) /\ Len(y) = Len(states) + 1 /\ y[Len(states) + 1] = st
           /\ Aside(states, bindings, y, C, {})
  <1>1. PICK n \in Nat : n = Len(states)
    BY TopIs
  <1>2. MemoryOK(states, arrays, bindings, Len(scopes)) /\ Top.state \in 1 .. n
    BY <1>1, TopIs DEF IInv
  <1>3. PICK B, k, t : B = bindings /\ k = Len(scopes) /\ t = Top.state
    OBVIOUS
  <1>4. PICK w : w = [states EXCEPT ![t].bound = x]
    OBVIOUS
  <1>5. PICK q : q = [states |-> w, bindings |-> B]
    OBVIOUS
  <1>6. PICK none : none = {}
    OBVIOUS
  <1>7. /\ Keeps(states, A, B, k, q, none)
        /\ \A i \in 1 .. n : w[i].vars = states[i].vars
    <2>1. PICK all : all = states
      OBVIOUS
    <2>2. /\ MemoryOK(all, arrays, B, k) /\ Moved(arrays, A, Len(all)) /\ t \in 1 .. Len(all)
          /\ Fits(A, x) /\ Live(A, x, Len(all)) /\ w = [all EXCEPT ![t].bound = x]
      BY <1>1, <1>2, <1>3, <1>4, <2>1
    <2>3. Keeps(all, A, B, k, q, none)
      BY <1>5, <1>6, <2>2, FreezingKeeps
    <2>4. \A i \in 1 .. Len(all) : w[i].vars = all[i].vars
      BY <1>5, <2>2, FreezingKeeps
    <2> QED
      BY <1>1, <2>1, <2>3, <2>4
  <1>8. MemoryOK(w, A, B, k) /\ Len(w) = n /\ Aside(states, B, w, B, none)
    BY <1>1, <1>5, <1>7 DEF Keeps
  <1>9. \A i \in 1 .. n : w[i].env = states[i].env
    BY <1>1, <1>8 DEF Aside
  <1>10. y = Append(w, st)
    BY <1>3, <1>4
  <1>11. /\ MemoryOK(y, A, C, p) /\ y[n + 1] = st
         /\ Aside(w, B, y, C, none)
    <2>1. Fine(st, A, C, Len(w) + 1, p) /\ k <= p /\ Grown(B, C) /\ \A a \in 1 .. Len(B) : C[a] = B[a]
      BY <1>1, <1>3, <1>8
    <2>2. Places(w, st)
      BY <1>1, <1>7, <1>8, <1>9 DEF Places
    <2>3. MemoryOK(y, A, C, p)
      BY <1>8, <1>10, <2>1, <2>2, AddingKeeps
    <2>4. Aside(w, B, y, C, none)
      BY <1>6, <1>8, <1>10, <2>1, <2>2, AddingKeeps
    <2>5. y[n + 1] = st
      BY <1>8, <1>10, Appending DEF MemoryOK
    <2> QED
      BY <2>3, <2>4, <2>5
  <1>12. IsSeq(w) /\ Len(y) = n + 1
    BY <1>8, <1>10, Appending DEF MemoryOK
  <1>13. Aside(states, B, y, C, none)
    <2>1. none = none \cup none
      OBVIOUS
    <2> QED
      BY <1>8, <1>11, <2>1, AsideTwice
  <1> QED
    BY <1>1, <1>3, <1>6, <1>11, <1>12, <1>13

\* walkTemplate: the state on top goes on with the blocks x, and the new state
\* st walks, with variables of its own or those of a state that is there.
LEMMA Walks ==
    ASSUME IInv, Walking,
           NEW x, Moved(arrays, arrays', Len(states)),
           Fits(arrays', x), Live(arrays', x, Len(states)),
           NEW C, Grown(bindings, C), \A a \in 1 .. Len(bindings) : C[a] = bindings[a],
           IsSeq(scopes'), Len(scopes) <= Len(scopes'),
           NEW st, Fine(st, arrays', C, Len(states) + 1, Len(scopes')),
           Places(states, st),
           NEW tmpl \in DOMAIN body, Walk(tmpl, st, C, x)
    PROVE  IInv' /\ Undisturbed
  <1>1. PICK n \in Nat : n = Len(states)
    BY TopIs, InstrIs
  <1>2. PICK p \in Nat : p = Len(scopes')
    BY SeqBasics
  <1>3. MemoryOK(states, arrays, bindings, Len(scopes)) /\ Top.state \in 1 .. n /\ body \in Programs
    BY <1>1, TopIs, InstrIs DEF IInv
  <1>4. PICK A, B : A = arrays' /\ B = bindings
    OBVIOUS
  <1>5. PICK y : y = Append([states EXCEPT ![Top.state].bound = x], st)
    OBVIOUS
  <1>6. PICK none : none = {}
    OBVIOUS
  <1>7. /\ MemoryOK(y, A, C, p) /\ y[n + 1] = st /\ Len(y) = n + 1
         /\ Aside(states, B, y, C, none)
    <2>1. Len(scopes) <= p /\ Fine(st, A, C, Len(states) + 1, p) /\ stack # <<>>
      BY <1>1, <1>2, <1>4, InstrIs
    <2>2. Moved(arrays, A, Len(states)) /\ Fits(A, x) /\ Live(A, x, Len(states))
      BY <1>4
    <2>3. MemoryOK(y, A, C, p)
      BY <1>5, <2>1, <2>2, Added
    <2>4. y[Len(states) + 1] = st /\ Len(y) = Len(states) + 1
      BY <1>5, <2>1, <2>2, Added
    <2>5. Aside(states, bindings, y, C, {})
      BY <1>5, <2>1, <2>2, Added
    <2> QED
      BY <1>1, <1>4, <1>6, <2>3, <2>4, <2>5
  <1>8. PICK f : f = Frame(n + 1, "template", body[tmpl], Nothing, <<>>)
    OBVIOUS
  <1>9. Enter(f) /\ body' = body
    BY <1>1, <1>8 DEF Walk, Enter
  <1>10. FrameOK(f, n + 1) /\ f.state = n + 1
    <2>1. PICK m \in Nat : m = n + 1
      OBVIOUS
    <2>2. PICK todo : todo = body[tmpl]
      OBVIOUS
    <2>3. m \in 1 .. m /\ todo \in Seq(Instructions)
      BY <1>3, <2>1, <2>2, BodyIs
    <2>4. f = Frame(m, "template", todo, Nothing, <<>>)
      BY <1>8, <2>1, <2>2
    <2> QED
      BY <2>1, <2>3, <2>4, NothingIs, FrameIs
  <1>11. StackOK(stack', n + 1) /\ stack' # <<>> /\ Last(stack') = f
    <2>1. n + 1 \in Nat /\ Len(states) <= n + 1
      BY <1>1
    <2> QED
      BY <1>9, <1>10, <2>1, Entered
  <1>12. Top'.state = n + 1 /\ State' = states'[n + 1]
    BY <1>10, <1>11 DEF Top, State
  <1>13. CASE Ready("call")
    <2>1. PICK es : es = Arguments(Instr.value)
      OBVIOUS
    <2>2. PICK u : u = Assigned([states |-> y, bindings |-> C], n + 1, es)
      OBVIOUS
    <2>3. states' = u.states /\ bindings' = u.bindings
      BY <1>1, <1>5, <1>13, <2>1, <2>2 DEF Walk, Becomes
    <2>4. Len(es) \in 1 .. 3
      BY <2>1 DEF Arguments
    <2>5. PICK E : E = {y[n + 1].env}
      OBVIOUS
    <2>6. n + 1 \in 1 .. Len(y)
      BY <1>7
    <2>7. Keeps(y, A, C, p, u, E)
      BY <1>7, <2>2, <2>4, <2>5, <2>6, AssigningKeeps
    <2>8. /\ MemoryOK(u.states, A, u.bindings, p) /\ Len(u.states) = n + 1
          /\ Aside(y, C, u.states, u.bindings, E)
      BY <1>7, <2>7 DEF Keeps
    <2>9. State'.env = y[n + 1].env
      BY <1>12, <2>3, <2>6, <2>8 DEF Aside
    <2>10. PICK F : F = none \cup E
      OBVIOUS
    <2>11. Aside(states, bindings, states', bindings', F)
      BY <1>4, <1>7, <2>3, <2>8, <2>10, AsideTwice
    <2> QED
      BY <1>2, <1>4, <1>6, <1>9, <1>11, <2>3, <2>5, <2>8, <2>9, <2>10, <2>11, Concluding
  <1>14. CASE ~Ready("call")
    <2>1. states' = y /\ bindings' = C
      BY <1>5, <1>14 DEF Walk, Becomes
    <2> QED
      BY <1>2, <1>4, <1>6, <1>7, <1>9, <1>11, <2>1, Concluding
  <1> QED
    BY <1>13, <1>14

\* A scope that is new is none of the scopes of the states, and the array of
\* its variables is new as well.
LEMMA NewScope ==
    ASSUME IInv, NEW st, st.env = Len(scopes) + 1, st.vars.arr = Len(bindings) + 1
    PROVE  Places(states, st)
  <1>1. Len(scopes) \in Nat /\ Len(bindings) \in Nat /\ Heap(bindings)
    BY SeqBasics DEF IInv, MemoryOK, Heap
  <1>2. ASSUME NEW i \in 1 .. Len(states)
        PROVE  states[i].env # st.env /\ states[i].vars.arr # st.vars.arr
    <2>1. states[i].env \in 1 .. Len(scopes) /\ Fits(bindings, states[i].vars)
      BY DEF IInv, MemoryOK, Fine
    <2>2. states[i].vars.arr \in Nat /\ states[i].vars.arr <= Len(bindings)
      BY <2>1 DEF Fits, Slices
    <2> QED
      BY <1>1, <2>1, <2>2
  <1> QED
    BY <1>2 DEF Places

\* The state of a mixin that is called.
LEMMA CalledState ==
    ASSUME IInv, Walking, NEW A, A = Frozen.heap, NEW x, x = Frozen.slice,
           NEW r, r = GlobalsCopied, NEW user, NEW first,
           NEW st, st = NewState(x, State.depth + 1, r.slice, Len(scopes) + 1, user, first)
    PROVE  /\ Moved(arrays, A, Len(states)) /\ Fits(A, x) /\ Live(A, x, Len(states))
           /\ Grown(bindings, r.heap) /\ \A a \in 1 .. Len(bindings) : r.heap[a] = bindings[a]
           /\ Fine(st, A, r.heap, Len(states) + 1, Len(scopes) + 1) /\ Places(states, st)
  <1>1. PICK C, v : C = r.heap /\ v = r.slice
    OBVIOUS
  <1>2. PICK env, depth : env = Len(scopes) + 1 /\ depth = State.depth + 1
    OBVIOUS
  <1>3. PICK n \in Nat : n = Len(states)
    BY TopIs, InstrIs
  <1>4. Moved(arrays, A, n) /\ Fits(A, x) /\ Live(A, x, n) /\ Heap(A)
    BY <1>3, FrozenIs DEF Moved, Grown
  <1>5. /\ Grown(bindings, C) /\ \A a \in 1 .. Len(bindings) : C[a] = bindings[a]
        /\ Fits(C, v) /\ v.arr = Len(bindings) + 1
    BY <1>1, GlobalsCopiedIs
  <1>6. Len(scopes) \in Nat /\ Len(bindings) \in Nat
    BY SeqBasics DEF IInv, MemoryOK, Heap
  <1>7. IsState(st) /\ st.bound = x /\ st.depth = depth /\ st.vars = v /\ st.env = env
    <2>1. st = NewState(x, depth, v, env, user, first)
      BY <1>1, <1>2
    <2> QED
      BY <2>1, NewStateIs
  <1>8. Fine(st, A, C, n + 1, Len(scopes) + 1)
    <2>1. depth \in Nat /\ env \in 1 .. Len(scopes) + 1
      BY <1>2, <1>6, TopIs, InstrIs DEF Fine
    <2>2. Live(A, x, n + 1)
      BY <1>4, LiveStays, GrownItself
    <2>3. v.arr # 0
      BY <1>5, <1>6
    <2> QED
      BY <1>4, <1>5, <1>7, <2>1, <2>2, <2>3 DEF Fine
  <1>9. Places(states, st)
    BY <1>2, <1>5, <1>7, NewScope
  <1> QED
    BY <1>1, <1>3, <1>4, <1>5, <1>8, <1>9

LEMMA CallStep ==
    ASSUME IInv, CallMixin
    PROVE  IInv' /\ Undisturbed
  <1>1. PICK A, x, r : A = Frozen.heap /\ x = Frozen.slice /\ r = GlobalsCopied
    OBVIOUS
  <1>2. PICK first : first = FALSE
    OBVIOUS
  <1>3. PICK st : st = NewState(x, State.depth + 1, r.slice, Len(scopes) + 1, Top.state, first)
    OBVIOUS
  <1>4. PICK tmpl : tmpl = Instr.vars[1]
    OBVIOUS
  <1>5. /\ Walking /\ tmpl \in DOMAIN body /\ arrays' = A
        /\ scopes' = Append(scopes, [giver |-> Top.state, block |-> Instr.value, used |-> FALSE])
    BY <1>1, <1>4 DEF CallMixin, Ready
  <1>6. Walk(tmpl, st, r.heap, x)
    BY <1>1, <1>3, <1>4, <1>2 DEF CallMixin, Walk, Enter
  <1>7. /\ Moved(arrays, A, Len(states)) /\ Fits(A, x) /\ Live(A, x, Len(states))
        /\ Grown(bindings, r.heap) /\ \A a \in 1 .. Len(bindings) : r.heap[a] = bindings[a]
        /\ Fine(st, A, r.heap, Len(states) + 1, Len(scopes) + 1) /\ Places(states, st)
    BY <1>1, <1>3, <1>5, CalledState
  <1>8. IsSeq(scopes) /\ Len(scopes) \in Nat
    BY SeqBasics DEF IInv
  <1>9. IsSeq(scopes') /\ Len(scopes') = Len(scopes) + 1
    BY <1>5, <1>8, Appending
  <1>10. Len(scopes) <= Len(scopes')
    BY <1>8, <1>9
  <1> QED
    BY <1>5, <1>6, <1>7, <1>9, <1>10, Walks

LEMMA BlockStep ==
    ASSUME IInv, UseBlock
    PROVE  IInv' /\ Undisturbed
  <1>1. PICK s, i : s = State.bound /\ i = Position
    OBVIOUS
  <1>2. PICK r : r = Removed(arrays, s, i)
    OBVIOUS
  <1>3. PICK A, x : A = r.heap /\ x = r.slice
    OBVIOUS
  <1>4. PICK old : old = FrozenScope
    OBVIOUS
  <1>5. PICK depth, first : depth = old.depth + 1 /\ first = ~scopes[State.env].used
    OBVIOUS
  <1>6. PICK st : st = NewState(old.bound, depth, old.vars, old.env, State.env, first)
    OBVIOUS
  <1>7. PICK tmpl : tmpl = MyBlock
    OBVIOUS
  <1>8. /\ Walking /\ tmpl \in DOMAIN body /\ arrays' = A /\ i # 0
        /\ scopes' = [scopes EXCEPT ![State.env].used = TRUE]
    BY <1>1, <1>2, <1>3, <1>7 DEF UseBlock, Ready
  <1>9. Walk(tmpl, st, bindings, x)
    BY <1>1, <1>2, <1>3, <1>4, <1>5, <1>6, <1>7 DEF UseBlock, Walk, Enter
  <1>10. PICK n \in Nat : n = Len(states)
    BY <1>8, TopIs, InstrIs
  <1>11. Heap(arrays) /\ Heap(bindings) /\ Fits(arrays, s) /\ Live(arrays, s, n)
    BY <1>1, <1>8, <1>10, TopIs, InstrIs DEF IInv, MemoryOK, Fine
  <1>12. i \in 1 .. s.len
    <2>1. i \in 0 .. s.len /\ s.len \in Nat
      BY <1>1, <1>11, FoundIs, FitsFields DEF Position
    <2> QED
      BY <1>8, <2>1
  <1>13. Moved(arrays, A, n) /\ Fits(A, x) /\ Live(A, x, n) /\ Heap(A)
    BY <1>2, <1>3, <1>11, <1>12, Removing DEF Moved, Grown
  <1>14. PICK j \in 1 .. n : old = states[j]
    <2>1. arrays[s.arr][i].scope \in 1 .. n
      BY <1>11, <1>12 DEF Live
    <2> QED
      BY <1>1, <1>4, <2>1 DEF FrozenScope
  <1>15. Fine(old, arrays, bindings, n, Len(scopes))
    BY <1>10, <1>14 DEF IInv, MemoryOK
  <1>16. /\ Fits(arrays, old.bound) /\ Live(arrays, old.bound, n)
         /\ Fits(bindings, old.vars) /\ old.vars.arr # 0
         /\ old.depth \in Nat /\ old.env \in 1 .. Len(scopes)
    BY <1>15 DEF Fine
  <1>17. IsSeq(scopes') /\ Len(scopes') = Len(scopes) /\ Len(scopes) \in Nat
    <2>1. IsSeq(scopes)
      BY DEF IInv
    <2>2. PICK k \in Nat : k = Len(scopes) /\ DOMAIN scopes = 1 .. k
      BY <2>1, SeqBasics
    <2>3. scopes' = [m \in 1 .. k |-> scopes'[m]]
      BY <1>8, <2>2
    <2>4. PICK t : t = scopes'
      OBVIOUS
    <2>5. IsSeq(t) /\ Len(t) = k
      BY <2>3, <2>4, FunctionIsSeq
    <2> QED
      BY <2>2, <2>4, <2>5
  <1>18. IsState(st) /\ st.bound = old.bound /\ st.depth = depth /\ st.vars = old.vars /\ st.env = old.env
    BY <1>6, NewStateIs
  <1>19. Fine(st, A, bindings, n + 1, Len(scopes'))
    <2>1. depth \in Nat
      BY <1>5, <1>16
    <2>2. Fits(A, old.bound) /\ Live(A, old.bound, n)
      BY <1>11, <1>13, <1>16, LiveStays
    <2>3. Live(A, old.bound, n + 1)
      BY <1>13, <2>2, LiveStays, GrownItself
    <2> QED
      BY <1>16, <1>17, <1>18, <2>1, <2>2, <2>3 DEF Fine
  <1>20. Places(states, st)
    BY <1>10, <1>14, <1>18 DEF Places
  <1>21. Grown(bindings, bindings) /\ Len(scopes) <= Len(scopes')
    BY <1>11, <1>17, GrownItself
  <1> QED
    BY <1>8, <1>9, <1>10, <1>13, <1>17, <1>19, <1>20, <1>21, Walks

LEMMA BlockAgainStep ==
    ASSUME IInv, UseBlockAgain
    PROVE  IInv' /\ Undisturbed
  <1>1. PICK x : x = State.bound
    OBVIOUS
  <1>2. PICK r : r = GlobalsCopied
    OBVIOUS
  <1>3. PICK C, v : C = r.heap /\ v = r.slice
    OBVIOUS
  <1>4. PICK env, depth, first :
           env = Len(scopes) + 1 /\ depth = State.depth + 1 /\ first = ~scopes[State.env].used
    OBVIOUS
  <1>5. PICK st : st = NewState(x, depth, v, env, State.env, first)
    OBVIOUS
  <1>6. PICK tmpl : tmpl = MyBlock
    OBVIOUS
  <1>7. /\ Walking /\ tmpl \in DOMAIN body /\ arrays' = arrays
        /\ scopes' = Append([scopes EXCEPT ![State.env].used = TRUE], NoGiver)
    BY <1>6 DEF UseBlockAgain, Ready
  <1>8. Walk(tmpl, st, C, x)
    BY <1>1, <1>2, <1>3, <1>4, <1>5, <1>6 DEF UseBlockAgain, Walk, Enter
  <1>9. PICK n \in Nat : n = Len(states)
    BY <1>7, TopIs, InstrIs
  <1>10. Heap(arrays) /\ Fits(arrays, x) /\ Live(arrays, x, n) /\ Moved(arrays, arrays, n)
    BY <1>1, <1>7, <1>9, TopIs, InstrIs, GrownItself DEF IInv, MemoryOK, Fine
  <1>11. /\ Grown(bindings, C) /\ \A a \in 1 .. Len(bindings) : C[a] = bindings[a]
         /\ Fits(C, v) /\ v.arr = Len(bindings) + 1
    BY <1>2, <1>3, GlobalsCopiedIs
  <1>12. IsSeq(scopes) /\ Len(scopes) \in Nat /\ Len(bindings) \in Nat
    BY SeqBasics DEF IInv, MemoryOK, Heap
  <1>13. IsSeq(scopes') /\ Len(scopes') = Len(scopes) + 1
    <2>1. PICK s : s = [scopes EXCEPT ![State.env].used = TRUE]
      OBVIOUS
    <2>2. PICK k \in Nat : k = Len(scopes) /\ DOMAIN scopes = 1 .. k
      BY <1>12, SeqBasics
    <2>3. s = [j \in 1 .. k |-> s[j]]
      BY <2>1, <2>2
    <2>4. IsSeq(s) /\ Len(s) = k
      BY <2>3, FunctionIsSeq
    <2> QED
      BY <1>7, <2>1, <2>2, <2>4, Appending
  <1>14. PICK p \in Nat : p = Len(scopes')
    BY <1>12, <1>13
  <1>15. p = Len(scopes') /\ Len(scopes) <= p /\ env \in 1 .. p
    BY <1>4, <1>12, <1>13, <1>14
  <1>16. IsState(st) /\ st.bound = x /\ st.depth = depth /\ st.vars = v /\ st.env = env
    BY <1>5, NewStateIs
  <1>17. Fine(st, arrays, C, n + 1, p)
    <2>1. depth \in Nat
      BY <1>4, <1>7, TopIs, InstrIs DEF Fine
    <2>2. Live(arrays, x, n + 1)
      BY <1>10, LiveStays, GrownItself
    <2>3. v.arr # 0
      BY <1>11, <1>12
    <2> QED
      BY <1>10, <1>11, <1>15, <1>16, <2>1, <2>2, <2>3 DEF Fine
  <1>18. Places(states, st)
    BY <1>4, <1>11, <1>16, NewScope
  <1> QED
    BY <1>7, <1>8, <1>9, <1>10, <1>11, <1>13, <1>15, <1>17, <1>18, Walks

LEMMA NextIInv ==
    ASSUME IInv, [Next]_vars
    PROVE  IInv' /\ (vars' # vars => Undisturbed)
  <1>1. CASE UNCHANGED vars
    BY <1>1, Plainly DEF vars, IInv
  <1>2. CASE Next
    BY <1>1, <1>2, PlainSteps, AssigningSteps, RangeSteps, PanicSteps, UndefinedStep,
       CallStep, BlockStep, BlockAgainStep DEF Next, Returned
  <1> QED
    BY <1>1, <1>2

LEMMA InitIInv == Init => IInv
  <1> SUFFICES ASSUME Init PROVE IInv
    OBVIOUS
  <1>1. body \in Programs /\ arrays = <<>>
    BY DEF Init
  <1>2. IsSeq(scopes) /\ Len(scopes) = 1
    BY OneIsSeq DEF Init
  <1>3. StackOK(stack, 1)
    <2>1. PICK todo : todo = body[Main]
      OBVIOUS
    <2>2. PICK f : f = Frame(1, "template", todo, Nothing, <<>>)
      OBVIOUS
    <2>3. todo \in Seq(Instructions) /\ 1 \in 1 .. 1
      BY <1>1, <2>1, BodyIs, ProgramsType
    <2>4. FrameOK(f, 1)
      BY <2>2, <2>3, NothingIs, FrameIs
    <2>5. stack = <<f>>
      BY <2>1, <2>2 DEF Init
    <2>6. IsSeq(stack) /\ Len(stack) = 1 /\ stack[1] = f
      BY <2>5, OneIsSeq
    <2> QED
      BY <2>4, <2>6 DEF StackOK
  <1>4. PICK b : b = <<Binding("$", Null)>>
    OBVIOUS
  <1>5. PICK h : h = <<b>>
    OBVIOUS
  <1>6. PICK s : s = [arr |-> 1, len |-> 1]
    OBVIOUS
  <1>7. PICK r : r = Appended(h, s, Globals, Unbound)
    OBVIOUS
  <1>8. Heap(h) /\ Fits(h, s)
    <2>1. IsSeq(b) /\ Len(b) = 1
      BY <1>4, OneIsSeq
    <2>2. IsSeq(h) /\ Len(h) = 1 /\ h[1] = b
      BY <1>5, OneIsSeq
    <2> QED
      BY <1>6, <2>1, <2>2 DEF Heap, Fits, Slices, Cap
  <1>9. IsSeq(Globals)
    BY GlobalsType DEF IsSeq
  <1>10. Written(h, s, r.heap, r.slice)
    BY <1>7, <1>8, <1>9, AppendedWrites
  <1>11. PICK C, v : C = r.heap /\ v = r.slice
    OBVIOUS
  <1>12. Heap(C) /\ Fits(C, v) /\ v.arr # 0
    <2>1. Len(h) \in Nat
      BY <1>8, FitsFields
    <2> QED
      BY <1>6, <1>10, <1>11, <2>1 DEF Written, Grown
  <1>13. PICK none, first : none = NoSlice /\ first = FALSE
    OBVIOUS
  <1>14. PICK st : st = NewState(none, 0, v, 1, 1, first)
    OBVIOUS
  <1>15. states = <<st>> /\ bindings = C
    BY <1>4, <1>5, <1>6, <1>7, <1>11, <1>13, <1>14 DEF Init
  <1>16. IsSeq(states) /\ Len(states) = 1 /\ states[1] = st
    BY <1>15, OneIsSeq
  <1>17. PICK A : A = <<>>
    OBVIOUS
  <1>18. Heap(A) /\ Len(A) = 0
    BY <1>17, EmptyIsSeq DEF Heap
  <1>19. Fine(st, A, C, 1, 1)
    <2>1. IsState(st) /\ st.bound = none /\ st.depth = 0 /\ st.vars = v /\ st.env = 1
      BY <1>14, NewStateIs
    <2>2. none \in Slices /\ none.arr = 0 /\ none.len = 0
      BY <1>13 DEF NoSlice, Slices
    <2>3. Fits(A, none) /\ Live(A, none, 1)
      BY <1>18, <2>2 DEF Fits, Live, Cap
    <2> QED
      BY <1>12, <2>1, <2>3 DEF Fine
  <1>20. MemoryOK(states, arrays, bindings, Len(scopes))
    BY <1>1, <1>2, <1>12, <1>15, <1>16, <1>17, <1>18, <1>19 DEF MemoryOK, Apart
  <1> QED
    BY <1>1, <1>2, <1>3, <1>16, <1>20 DEF IInv

LEMMA IInvTypeOK == IInv => TypeOK
  <1> SUFFICES ASSUME IInv PROVE TypeOK
    OBVIOUS
  <1>1. /\ DOMAIN states = 1 .. Len(states) /\ DOMAIN scopes = 1 .. Len(scopes)
        /\ DOMAIN stack = 1 .. Len(stack)
    BY SeqBasics DEF IInv, MemoryOK, StackOK
  <1>2. \A i \in 1 .. Len(states) : Fine(states[i], arrays, bindings, Len(states), Len(scopes))
    BY DEF IInv, MemoryOK
  <1>3. \A i \in 1 .. Len(stack) : stack[i].state \in 1 .. Len(states)
    BY DEF IInv, StackOK, FrameOK
  <1> QED
    BY <1>1, <1>2, <1>3 DEF TypeOK, Fine, Fits, Live

-----------------------------------------------------------------------------
(* The keys of the map.                                                    *)

\* An enumeration of a set has each of its elements once.
LEMMA EnumerationIs ==
    ASSUME NEW S, IsFiniteSet(S), NEW s \in SetToSeqs(S)
    PROVE  /\ IsSeq(s) /\ Len(s) = Cardinality(S) /\ Len(s) \in Nat
           /\ ToSet(s) = S
           /\ \A i, j \in 1 .. Len(s) : i # j => s[i] # s[j]
  <1>1. PICK n \in Nat : n = Cardinality(S)
    BY FS_CardinalityType
  <1>2. s \in [1 .. n -> S] /\ \A i, j \in 1 .. n : i # j => s[i] # s[j]
    BY <1>1 DEF SetToSeqs
  <1>3. s \in Seq(S) /\ Len(s) = n
    BY <1>2
  <1>4. s \in Injection(1 .. n, S)
    BY <1>2 DEF Injection, IsInjective
  <1>5. IsFiniteSet(1 .. n) /\ Cardinality(1 .. n) = n
    BY FS_Interval
  <1>6. s \in Surjection(1 .. n, S)
    BY <1>1, <1>4, <1>5, FS_Injection
  <1>7. ToSet(s) = S
    BY <1>2, <1>6 DEF Surjection, ToSet
  <1> QED
    BY <1>1, <1>2, <1>3, <1>7 DEF IsSeq

LEMMA EnumerationRepeats ==
    ASSUME NEW S, IsFiniteSet(S), NEW s \in SetToSeqs(S)
    PROVE  Repeated(s) = {}
  <1>1. DOMAIN s = 1 .. Len(s) /\ \A i, j \in 1 .. Len(s) : i # j => s[i] # s[j]
    BY EnumerationIs, SeqBasics
  <1> QED
    BY <1>1 DEF Repeated

\* A new key behind the others.
LEMMA NamingMore ==
    ASSUME NEW s, IsSeq(s), NEW k, k \notin ToSet(s)
    PROVE  /\ IsSeq(Append(s, k)) /\ Append(s, k) # <<>>
           /\ ToSet(Append(s, k)) = ToSet(s) \cup {k}
           /\ Repeated(Append(s, k)) \subseteq Repeated(s)
  <1>1. PICK n \in Nat : n = Len(s) /\ DOMAIN s = 1 .. n
    BY SeqBasics
  <1>2. PICK t : t = Append(s, k)
    OBVIOUS
  <1>3. IsSeq(t) /\ Len(t) = n + 1 /\ t[n + 1] = k /\ \A i \in 1 .. n : t[i] = s[i]
    <2>1. /\ IsSeq(Append(s, k)) /\ Len(Append(s, k)) = Len(s) + 1
          /\ \A i \in 1 .. Len(s) : Append(s, k)[i] = s[i]
          /\ Append(s, k)[Len(s) + 1] = k
      BY Appending
    <2> QED
      BY <1>1, <1>2, <2>1
  <1>4. DOMAIN t = 1 .. n + 1 /\ t # <<>>
    BY <1>3, SeqBasics
  <1>5. \A i \in 1 .. n + 1 : i = n + 1 \/ i \in 1 .. n
    OBVIOUS
  <1>6. ToSet(t) = ToSet(s) \cup {k}
    BY <1>1, <1>3, <1>4, <1>5 DEF ToSet
  <1>7. ASSUME NEW x \in Repeated(t)
        PROVE  x \in Repeated(s)
    <2>1. PICK i, j \in 1 .. n + 1 : i # j /\ t[i] = x /\ t[j] = x
      BY <1>4 DEF Repeated
    <2>2. \A l \in 1 .. n : t[l] # k
      BY <1>1, <1>3 DEF ToSet
    <2>3. i \in 1 .. n /\ j \in 1 .. n
      BY <1>3, <1>5, <2>1, <2>2
    <2>4. s[i] = x /\ s[j] = x /\ x \in ToSet(s)
      BY <1>1, <1>3, <2>1, <2>3 DEF ToSet
    <2> QED
      BY <1>1, <2>1, <2>3, <2>4 DEF Repeated
  <1> QED
    BY <1>2, <1>3, <1>4, <1>6, <1>7

\* Sorting: the keys before a key say where it is.
LEMMA Sorting ==
    ASSUME NEW S, IsFiniteSet(S), S \subseteq Keys
    PROVE  \E s \in SetToSeqs(S) : \A i, j \in DOMAIN s : i < j => Before(s[i], s[j])
  <1>1. PICK n \in Nat : n = Cardinality(S)
    BY FS_CardinalityType
  <1>2. PICK rank : rank = [k \in S |-> Cardinality({x \in S : Before(x, k)}) + 1]
    OBVIOUS
  <1>3. ASSUME NEW k \in S
        PROVE  rank[k] \in 1 .. n
    <2>1. PICK T : T = {x \in S : Before(x, k)}
      OBVIOUS
    <2>2. T \subseteq S \ {k}
      BY <2>1, BeforeType
    <2>3. IsFiniteSet(S \ {k}) /\ Cardinality(S \ {k}) = n - 1
      BY <1>1, <1>3, FS_RemoveElement
    <2>4. IsFiniteSet(T) /\ Cardinality(T) <= n - 1
      BY <2>2, <2>3, FS_Subset
    <2>5. Cardinality(T) \in Nat
      BY <2>4, FS_CardinalityType
    <2>6. rank[k] = Cardinality(T) + 1
      BY <1>2, <1>3, <2>1
    <2> QED
      BY <2>4, <2>5, <2>6
  <1>4. ASSUME NEW j \in S, NEW k \in S, Before(j, k)
        PROVE  rank[j] < rank[k]
    <2>1. PICK T, U : T = {x \in S : Before(x, j)} /\ U = {x \in S : Before(x, k)}
      OBVIOUS
    <2>2. T \subseteq U
      BY <1>4, <2>1, BeforeType
    <2>3. j \in U /\ j \notin T
      BY <1>4, <2>1, BeforeType
    <2>4. U \subseteq S
      BY <2>1
    <2>5. IsFiniteSet(U)
      BY <2>4, FS_Subset
    <2>6. IsFiniteSet(T) /\ Cardinality(T) <= Cardinality(U) /\ Cardinality(T) # Cardinality(U)
      BY <2>2, <2>3, <2>5, FS_Subset
    <2>7. Cardinality(T) \in Nat /\ Cardinality(U) \in Nat
      BY <2>5, <2>6, FS_CardinalityType
    <2>8. rank[j] = Cardinality(T) + 1 /\ rank[k] = Cardinality(U) + 1
      BY <1>2, <2>1
    <2> QED
      BY <2>6, <2>7, <2>8
  <1>5. ASSUME NEW j \in S, NEW k \in S, j # k
        PROVE  rank[j] # rank[k]
    <2>1. Before(j, k) \/ Before(k, j)
      BY <1>5, BeforeType
    <2> QED
      BY <1>3, <1>4, <2>1
  <1>6. rank \in Injection(S, 1 .. n)
    <2>1. rank = [k \in S |-> rank[k]]
      BY <1>2
    <2>2. rank \in [S -> 1 .. n]
      BY <1>3, <2>1
    <2> QED
      BY <1>5, <2>2 DEF Injection, IsInjective
  <1>7. IsFiniteSet(1 .. n) /\ Cardinality(1 .. n) = n
    BY FS_Interval
  <1>8. rank \in Surjection(S, 1 .. n)
    BY <1>1, <1>6, <1>7, FS_Injection
  <1>9. PICK s : s = [i \in 1 .. n |-> CHOOSE k \in S : rank[k] = i]
    OBVIOUS
  <1>10. ASSUME NEW i \in 1 .. n
         PROVE  s[i] \in S /\ rank[s[i]] = i
    <2>1. \E k \in S : rank[k] = i
      BY <1>8 DEF Surjection
    <2> QED
      BY <1>9, <2>1
  <1>11. s \in SetToSeqs(S)
    <2>1. s \in [1 .. n -> S]
      BY <1>9, <1>10
    <2>2. \A i, j \in 1 .. n : i # j => s[i] # s[j]
      BY <1>10
    <2> QED
      BY <1>1, <2>1, <2>2 DEF SetToSeqs
  <1>12. ASSUME NEW i \in 1 .. n, NEW j \in 1 .. n, i < j
         PROVE  Before(s[i], s[j])
    <2>1. s[i] \in S /\ s[j] \in S /\ rank[s[i]] = i /\ rank[s[j]] = j
      BY <1>10
    <2>2. s[i] # s[j]
      BY <1>12, <2>1
    <2>3. ~Before(s[j], s[i])
      <3>1. ASSUME Before(s[j], s[i]) PROVE FALSE
        <4>1. rank[s[j]] < rank[s[i]]
          BY <1>4, <2>1, <3>1
        <4> QED
          BY <1>12, <2>1, <4>1
      <3> QED
        BY <3>1
    <2> QED
      BY <2>1, <2>2, <2>3, BeforeType
  <1>13. DOMAIN s = 1 .. n
    BY <1>9
  <1> QED
    BY <1>11, <1>12, <1>13

MapOK ==
    /\ IsFiniteSet(map.keys) /\ map.keys \subseteq Keys
    /\ IsSeq(map.order) /\ (map.order # <<>> => ToSet(map.order) = map.keys)

\* The loop that skips keys the map does not have skips none.
LEMMA MembersAre ==
    ASSUME MapOK, map.order # <<>>
    PROVE  Members = map.order
  <1>1. PICK o, K : o = map.order /\ K = map.keys
    OBVIOUS
  <1>2. PICK n \in Nat : n = Len(o) /\ IsSeq(o) /\ ToSet(o) = K
    BY <1>1, SeqBasics DEF MapOK
  <1>3. \A i \in 1 .. n : o[i] \in K
    BY <1>2, SeqBasics DEF ToSet
  <1> DEFINE Kept(all, m) == IF m = 0 THEN <<>> ELSE IF o[m] \in K THEN Append(all[m - 1], o[m]) ELSE all[m - 1]
  <1>4. PICK g : g = [m \in 0 .. n |-> SubSeq(o, 1, m)]
    OBVIOUS
  <1>5. g[0] = <<>> /\ \A m \in 1 .. n : g[m] = Append(g[m - 1], o[m])
    <2>1. PICK S : o \in Seq(S)
      BY <1>2 DEF IsSeq
    <2>2. g[0] = <<>>
      BY <1>2, <1>4, <2>1, Cutting, SeqBasics
    <2>3. ASSUME NEW m \in 1 .. n PROVE g[m] = Append(g[m - 1], o[m])
      <3>1. PICK k \in Nat : k = m - 1 /\ k + 1 = m
        OBVIOUS
      <3>2. PICK s, t : s = SubSeq(o, 1, k) /\ t = SubSeq(o, 1, k + 1)
        OBVIOUS
      <3>3. k <= Len(o) /\ k + 1 <= Len(o)
        BY <1>2, <3>1
      <3>4. IsSeq(s) /\ Len(s) = k /\ \A i \in 1 .. k : s[i] = o[i]
        BY <1>2, <3>2, <3>3, Cutting
      <3>5. k + 1 \in Nat
        OBVIOUS
      <3>6. IsSeq(t) /\ Len(t) = k + 1 /\ \A i \in 1 .. k + 1 : t[i] = o[i]
        BY <1>2, <3>2, <3>3, <3>5, Cutting
      <3>7. PICK u : u = Append(s, o[m])
        OBVIOUS
      <3>8. IsSeq(u) /\ Len(u) = k + 1 /\ (\A i \in 1 .. k : u[i] = s[i]) /\ u[k + 1] = o[m]
        BY <3>4, <3>7, Appending
      <3>9. \A i \in 1 .. k + 1 : u[i] = t[i]
        <4>1. \A i \in 1 .. k + 1 : i = k + 1 \/ i \in 1 .. k
          OBVIOUS
        <4> QED
          BY <3>1, <3>4, <3>6, <3>8, <4>1
      <3>10. u = t
        BY <3>6, <3>8, <3>9 DEF IsSeq
      <3>11. g[m] = t /\ g[m - 1] = s
        <4>1. m \in 0 .. n /\ k \in 0 .. n
          BY <3>1
        <4>2. g[m] = SubSeq(o, 1, m) /\ g[k] = SubSeq(o, 1, k)
          BY <1>4, <4>1
        <4> QED
          BY <3>1, <3>2, <4>2
      <3> QED
        BY <3>7, <3>10, <3>11
    <2> QED
      BY <2>2, <2>3
  <1>6. g = [m \in 0 .. n |-> Kept(g, m)]
    <2>1. \A m \in 0 .. n : m = 0 \/ m \in 1 .. n
      OBVIOUS
    <2>2. \A m \in 0 .. n : g[m] = Kept(g, m)
      BY <1>3, <1>5, <2>1
    <2> QED
      BY <1>4, <2>2
  <1>7. PICK kept : kept = CHOOSE f : f = [m \in 0 .. n |-> Kept(f, m)]
    OBVIOUS
  <1>8. kept = [m \in 0 .. n |-> Kept(kept, m)]
    BY <1>6, <1>7
  <1>9. Members = kept[n]
    BY <1>1, <1>2, <1>7 DEF Members
  <1>10. \A m \in 0 .. n : kept[m] = g[m]
    <2>1. PICK bad : bad = {m \in 0 .. n : kept[m] # g[m]}
      OBVIOUS
    <2>2. ASSUME bad # {} PROVE FALSE
      <3>1. bad \subseteq Nat
        BY <2>1
      <3>2. PICK m \in bad : \A k \in bad : ~(k < m)
        <4>1. PICK m \in bad : \A k \in bad : ~(<<k, m>> \in OpToRel(<, Nat))
          BY <2>2, <3>1, NatLessThanWellFounded, WFMin
        <4> QED
          BY <3>1, <4>1 DEF OpToRel
      <3>3. m \in 0 .. n /\ kept[m] # g[m]
        BY <2>1
      <3>4. m # 0
        <4>1. kept[0] = <<>>
          BY <1>8
        <4> QED
          BY <1>5, <3>3, <4>1
      <3>5. m \in 1 .. n /\ m - 1 \in 0 .. n /\ m - 1 < m
        BY <3>3, <3>4
      <3>6. kept[m - 1] = g[m - 1]
        BY <2>1, <3>2, <3>5
      <3>7. kept[m] = Append(kept[m - 1], o[m])
        BY <1>3, <1>8, <3>3, <3>4, <3>5
      <3> QED
        BY <1>5, <3>3, <3>5, <3>6, <3>7
    <2> QED
      BY <2>1, <2>2
  <1>11. g[n] = o
    <2>1. PICK S : o \in Seq(S)
      BY <1>2 DEF IsSeq
    <2>2. PICK t : t = SubSeq(o, 1, n)
      OBVIOUS
    <2>3. IsSeq(t) /\ Len(t) = n /\ \A i \in 1 .. n : t[i] = o[i]
      BY <1>2, <2>2, Cutting
    <2>4. t = o
      BY <1>2, <2>3 DEF IsSeq
    <2> QED
      BY <1>4, <2>2, <2>4
  <1> QED
    BY <1>1, <1>9, <1>10, <1>11

LEMMA WalkedKeysAre ==
    ASSUME MapOK
    PROVE  /\ ToSet(WalkedKeys) = map.keys
           /\ Repeated(WalkedKeys) \subseteq Repeated(map.order)
  <1>1. CASE map.order # <<>>
    BY <1>1, MembersAre DEF WalkedKeys, MapOK
  <1>2. CASE map.order = <<>>
    <2>1. WalkedKeys \in SetToSeqs(map.keys) /\ IsFiniteSet(map.keys)
      BY <1>2, Sorting DEF WalkedKeys, sortKeys, MapOK
    <2> QED
      BY <2>1, EnumerationIs, EnumerationRepeats
  <1> QED
    BY <1>1, <1>2

\* The order that a for..in walks.
LEMMA KeysAre ==
    ASSUME MapOK, NEW order \in IF map.order # <<>> THEN {map.order} ELSE SetToSeqs(map.keys)
    PROVE  /\ IsSeq(order) /\ ToSet(order) = map.keys
           /\ Repeated(order) \subseteq Repeated(map.order)
  <1>1. CASE map.order # <<>>
    BY <1>1 DEF MapOK
  <1>2. CASE map.order = <<>>
    BY <1>2, EnumerationIs, EnumerationRepeats DEF MapOK
  <1> QED
    BY <1>1, <1>2

LEMMA MapSteps ==
    ASSUME IInv, MapOK, [Next]_vars
    PROVE  MapOK' /\ Repeated(map'.order) \subseteq Repeated(map.order)
  <1>1. CASE UNCHANGED map
    BY <1>1 DEF MapOK
  <1>2. CASE ForKeys
    <2>1. PICK order \in IF map.order # <<>> THEN {map.order} ELSE SetToSeqs(map.keys) :
             map' = [keys |-> map.keys, order |-> order]
      BY <1>2 DEF ForKeys
    <2>2. map'.keys = map.keys /\ map'.order = order
      BY <2>1
    <2> QED
      BY <2>2, KeysAre DEF MapOK
  <1>3. CASE Puts
    <2>1. PICK k : k = Instr.value
      OBVIOUS
    <2>2. map' = With(k) /\ Walking /\ Instr.op = "put"
      BY <1>3, <2>1 DEF Puts, Ready
    <2>3. k \in Keys
      <3>1. Instr \in {i \in Instructions : i.op = "put"}
        BY <2>2, InstrIs
      <3> QED
        BY <2>1, <3>1 DEF Keys
    <2>4. /\ map'.keys = map.keys \cup {k}
          /\ map'.order = IF map.order # <<>> /\ k \notin map.keys THEN Append(map.order, k) ELSE map.order
      BY <2>2 DEF With
    <2>5. IsFiniteSet(map'.keys) /\ map'.keys \subseteq Keys
      BY <2>3, <2>4, FS_AddElement DEF MapOK
    <2>6. /\ IsSeq(map'.order) /\ (map'.order # <<>> => ToSet(map'.order) = map'.keys)
          /\ Repeated(map'.order) \subseteq Repeated(map.order)
      <3>1. CASE map.order = <<>>
        BY <2>4, <3>1 DEF MapOK
      <3>2. CASE map.order # <<>> /\ k \in map.keys
        <4>1. map'.keys = map.keys
          BY <2>4, <3>2
        <4> QED
          BY <2>4, <3>2, <4>1 DEF MapOK
      <3>3. CASE map.order # <<>> /\ k \notin map.keys
        BY <2>4, <3>3, NamingMore DEF MapOK
      <3> QED
        BY <3>1, <3>2, <3>3
    <2> QED
      BY <2>5, <2>6 DEF MapOK
  <1> QED
    BY <1>1, <1>2, <1>3
       DEF vars, Next, Prints, Fails, Sets, walkIfOrWith, walkTry, Ends, walkRange, RangeNothing,
           CannotRange, oneIteration, RangeEnds, walkWhile, WhileGoesOn, WhileTooLong, CallMixin,
           CallTooDeep, CallUndefined, UseBlock, UseBlockAgain, BlockTooDeep, UseNoBlock, Returned,
           Walk, Panic

\* Entering makes the stack longer by a frame.
LEMMA EnteredIs ==
    ASSUME IInv, Walking, NEW f, Enter(f)
    PROVE  stack' # <<>> /\ Last(stack') = f
  <1>1. PICK s : s = Advanced
    OBVIOUS
  <1>2. IsSeq(s)
    BY <1>1, AdvancedIs DEF StackOK
  <1>3. PICK t : t = Append(s, f)
    OBVIOUS
  <1>4. IsSeq(t) /\ Len(t) = Len(s) + 1 /\ t[Len(s) + 1] = f
    BY <1>2, <1>3, Appending
  <1>5. Len(s) \in Nat /\ (t = <<>> <=> Len(t) = 0) /\ Last(t) = t[Len(t)]
    BY <1>2, <1>4, SeqBasics
  <1>6. stack' = t
    BY <1>1, <1>3 DEF Enter
  <1> QED
    BY <1>4, <1>5, <1>6

\* What a walk call does in its own frame, its end and a panic do not.
LEMMA NotEntered ==
    ASSUME IInv, stack # <<>>,
           \/ Walking /\ stack' = Advanced
           \/ Leave
           \/ stack' = [stack EXCEPT ![Len(stack)].todo = Top.stmt.list, ![Len(stack)].items = Tail(@)]
           \/ stack' = [stack EXCEPT ![Len(stack)].todo = Top.stmt.list, ![Len(stack)].n = Iterations]
           \/ \E m : Panic(m)
    PROVE  stack' # <<>> => Len(stack') <= Len(stack)
  <1>1. PICK n \in Nat : n = Len(stack) /\ n >= 1 /\ DOMAIN stack = 1 .. n
    BY TopIs
  <1>2. PICK t : t = stack'
    OBVIOUS
  <1>3. CASE t = [i \in 1 .. n |-> t[i]]
    BY <1>1, <1>2, <1>3, FunctionIsSeq
  <1>4. CASE Walking /\ stack' = Advanced
    BY <1>1, <1>2, <1>3, <1>4 DEF Advanced
  <1>5. CASE Leave
    <2>1. n - 1 \in Nat /\ n - 1 <= Len(stack) /\ IsSeq(stack)
      BY <1>1, TopIs
    <2>2. stack' = SubSeq(stack, 1, n - 1)
      BY <1>1, <1>5 DEF Leave, Front
    <2>3. Len(stack') = n - 1
      BY <2>1, <2>2, Cutting
    <2> QED
      BY <1>1, <2>3
  <1>6. CASE stack' = [stack EXCEPT ![Len(stack)].todo = Top.stmt.list, ![Len(stack)].items = Tail(@)]
    BY <1>1, <1>2, <1>3, <1>6
  <1>7. CASE stack' = [stack EXCEPT ![Len(stack)].todo = Top.stmt.list, ![Len(stack)].n = Iterations]
    BY <1>1, <1>2, <1>3, <1>7
  <1>8. ASSUME NEW m, Panic(m), stack' # <<>>
        PROVE  Len(stack') <= Len(stack)
    <2>1. PICK I : I = {i \in 1 .. n : stack[i].kind = "try"}
      OBVIOUS
    <2>2. PICK q : q = IF I # {} THEN Max(I) ELSE 0
      OBVIOUS
    <2>3. q = SelectLastInSeq(stack, LAMBDA f : f.kind = "try")
      BY <1>1, <2>1, <2>2 DEF SelectLastInSeq
    <2>4. q # 0 /\ stack' = Append(SubSeq(stack, 1, q - 1), Caught(stack[q]))
      BY <1>8, <2>3 DEF Panic
    <2>5. q \in 1 .. n
      BY <2>1, <2>2, <2>4, MaxExists
    <2>6. PICK s : s = SubSeq(stack, 1, q - 1)
      OBVIOUS
    <2>7. IsSeq(s) /\ Len(s) = q - 1
      <3>1. q - 1 \in Nat /\ q - 1 <= Len(stack) /\ IsSeq(stack)
        BY <1>1, <2>5, TopIs
      <3> QED
        BY <2>6, <3>1, Cutting
    <2>8. Len(stack') = q - 1 + 1
      BY <2>4, <2>6, <2>7, Appending
    <2> QED
      BY <1>1, <2>5, <2>8
  <1> QED
    BY <1>4, <1>5, <1>6, <1>7, <1>8

\* What EachKeyWalked says of a step that enters a loop.
WalksKeys(f) == ToSet(f.items) = map.keys /\ Repeated(f.items) \subseteq Repeated(map.order)
KeysWalked ==
    stack' # <<>> /\ Len(stack') > Len(stack) =>
       LET f == Last(stack') IN
       f.kind = "range" /\ (f.stmt.op = "forin" \/ RangeValue = TheMap) => WalksKeys(f)

LEMMA KeySteps ==
    ASSUME IInv, MapOK, Next, vars' # vars
    PROVE  KeysWalked
  <1>1. ASSUME stack # <<>>,
               \/ Walking /\ stack' = Advanced
               \/ Leave
               \/ stack' = [stack EXCEPT ![Len(stack)].todo = Top.stmt.list, ![Len(stack)].items = Tail(@)]
               \/ stack' = [stack EXCEPT ![Len(stack)].todo = Top.stmt.list, ![Len(stack)].n = Iterations]
               \/ \E m : Panic(m)
        PROVE  KeysWalked
    <2>1. stack' # <<>> => Len(stack') <= Len(stack) /\ Len(stack) \in Nat
      BY <1>1, NotEntered, TopIs
    <2>2. SUFFICES ASSUME stack' # <<>>, Len(stack') > Len(stack) PROVE FALSE
      BY DEF KeysWalked
    <2>3. IsSeq(stack') /\ Len(stack') \in Nat
      <3>1. IInv'
        BY NextIInv
      <3> QED
        BY <3>1, SeqBasics DEF IInv, StackOK
    <2> QED
      BY <2>1, <2>2, <2>3
  <1>2. ASSUME Walking, NEW f, Enter(f), f.kind # "range"
        PROVE  KeysWalked
    BY <1>2, EnteredIs DEF KeysWalked
  <1>3. ASSUME Walking, NEW f, Enter(f), WalksKeys(f)
        PROVE  KeysWalked
    BY <1>3, EnteredIs DEF KeysWalked
  <1>4. CASE Prints \/ Sets \/ RangeNothing \/ Puts \/ CallUndefined \/ UseNoBlock
    <2>1. Walking /\ stack' = Advanced /\ stack # <<>>
      BY <1>4, InstrIs DEF Prints, Sets, RangeNothing, Puts, CallUndefined, UseNoBlock, Ready
    <2> QED
      BY <1>1, <2>1
  <1>5. CASE Fails \/ CannotRange \/ WhileTooLong \/ CallTooDeep \/ BlockTooDeep
    <2>1. stack # <<>> /\ \E m : Panic(m)
      BY <1>5, InstrIs DEF Fails, CannotRange, WhileTooLong, CallTooDeep, BlockTooDeep, Ready, InLoop
    <2> QED
      BY <1>1, <2>1
  <1>6. CASE Ends \/ RangeEnds \/ oneIteration \/ WhileGoesOn
    BY <1>1, <1>6 DEF Ends, RangeEnds, oneIteration, WhileGoesOn, InLoop
  <1>7. CASE walkIfOrWith
    <2>1. PICK list : Enter(Frame(Top.state, "list", list, Nothing, <<>>)) /\ Walking
      BY <1>7 DEF walkIfOrWith, Ready
    <2>2. PICK f : f = Frame(Top.state, "list", list, Nothing, <<>>)
      OBVIOUS
    <2>3. Enter(f) /\ f.kind # "range"
      BY <2>1, <2>2 DEF Frame, Enter
    <2> QED
      BY <1>2, <2>1, <2>3
  <1>8. CASE walkTry
    <2>1. PICK f : f = Frame(Top.state, "try", Instr.list, Instr, <<>>)
      OBVIOUS
    <2>2. Walking /\ Enter(f) /\ f.kind # "range"
      BY <1>8, <2>1 DEF walkTry, Ready, Frame, Enter
    <2> QED
      BY <1>2, <2>2
  <1>9. CASE walkWhile
    <2>1. PICK f : f = Frame(Top.state, "while", Instr.list, Instr, <<>>)
      OBVIOUS
    <2>2. Walking /\ f.kind # "range" /\ stack # <<>>
      BY <1>9, <2>1, InstrIs DEF walkWhile, Ready, Frame
    <2>3. Enter(f) \/ stack' = Advanced
      BY <1>9, <2>1 DEF walkWhile, Enter
    <2> QED
      BY <1>1, <1>2, <2>2, <2>3
  <1>10. CASE CallMixin \/ UseBlock \/ UseBlockAgain
    <2>1. PICK tmpl, st, C, x : Walking /\ Walk(tmpl, st, C, x)
      BY <1>10 DEF CallMixin, UseBlock, UseBlockAgain, Ready
    <2>2. PICK f : f = Frame(Len(states) + 1, "template", body[tmpl], Nothing, <<>>)
      OBVIOUS
    <2>3. Enter(f) /\ f.kind # "range"
      BY <2>1, <2>2 DEF Walk, Frame, Enter
    <2> QED
      BY <1>2, <2>1, <2>3
  <1>11. CASE walkRange
    <2>1. PICK xs : xs = Elements
      OBVIOUS
    <2>2. PICK f : f = Frame(Top.state, "range", <<>>, Instr, xs)
      OBVIOUS
    <2>3. Walking /\ Enter(f) /\ f.items = xs /\ f.stmt.op # "forin"
      BY <1>11, <2>1, <2>2 DEF walkRange, Ready, Frame, Enter
    <2>4. CASE RangeValue = TheMap
      <3>1. WalksKeys(f)
        BY <2>1, <2>3, <2>4, WalkedKeysAre DEF Elements, WalksKeys
      <3> QED
        BY <1>3, <2>3, <3>1
    <2>5. CASE RangeValue # TheMap
      BY <2>3, <2>5, EnteredIs DEF KeysWalked
    <2> QED
      BY <2>4, <2>5
  <1>12. CASE ForKeys
    <2>1. PICK order \in IF map.order # <<>> THEN {map.order} ELSE SetToSeqs(map.keys) :
             Enter(Frame(Top.state, "range", <<>>, Instr, order))
      BY <1>12 DEF ForKeys
    <2>2. PICK f : f = Frame(Top.state, "range", <<>>, Instr, order)
      OBVIOUS
    <2>3. Walking /\ Enter(f) /\ f.items = order
      BY <1>12, <2>1, <2>2 DEF ForKeys, Ready, Frame, Enter
    <2>4. WalksKeys(f)
      BY <2>3, KeysAre DEF WalksKeys
    <2> QED
      BY <1>3, <2>3, <2>4
  <1> QED
    BY <1>4, <1>5, <1>6, <1>7, <1>8, <1>9, <1>10, <1>11, <1>12 DEF Next, Returned

LEMMA InitMapOK == Init => MapOK
  <1> SUFFICES ASSUME Init PROVE MapOK
    OBVIOUS
  <1>1. map \in Maps
    BY DEF Init
  <1>2. map.keys \subseteq Keys
    BY <1>1 DEF Keys
  <1>3. IsFiniteSet(map.keys) /\ map.order \in Seq(map.keys) /\ (map.order # <<>> => ToSet(map.order) = map.keys)
    BY <1>1, MapsType
  <1> QED
    BY <1>2, <1>3 DEF MapOK, IsSeq

-----------------------------------------------------------------------------
(* The blocks of the mixins.  Of the walk calls in progress, v says in which *)
(* state each walks, in which scope, and with which slice of blocks; sc are  *)
(* the scopes and A the arrays of blocks.                                    *)

\* The mixin with the scope e was given a block and has not used it.
Waits(e, sc) == ~sc[e].used /\ sc[e].block # Null

\* The first m entries of A[a] have one of the name x for the state q, and up
\* to the n-th none for another state behind it.
Held(A, a, m, n, x, q) ==
    \E k \in 1 .. m :
        /\ A[a][k].name = x /\ A[a][k].scope = q
        /\ \A i \in k .. n : A[a][i].name = x => A[a][i].scope = q

\* Above a mixin that has not used its block, there are only later scopes.
Rising(v, n, sc) ==
    \A i, j \in 1 .. n : i <= j /\ ~sc[v[i].env].used => v[i].env <= v[j].env
\* The call of a mixin is in progress below it, with no earlier scope between.
Called(v, n, sc) ==
    \A i \in 1 .. n : sc[v[i].env].giver # 0 =>
       \E c \in 1 .. i - 1 :
          /\ v[c].state = sc[v[i].env].giver
          /\ \A l \in c + 1 .. i : v[i].env <= v[l].env
\* No later mixin has a block of the name that one waits for.
OwnNames(v, n, sc) ==
    \A l, j \in 1 .. n : l <= j /\ Waits(v[l].env, sc) /\ v[l].env < v[j].env =>
       sc[v[j].env].block # sc[v[l].env].block
\* All walk calls above a mixin that waits find its block, also one with the
\* slice of another.
Holding(v, n, sc, A) ==
    \A l, i, j \in 1 .. n :
       l <= i /\ l <= j /\ Waits(v[l].env, sc) /\ v[i].bound.arr = v[j].bound.arr =>
          /\ v[i].bound.arr # 0
          /\ Held(A, v[i].bound.arr, v[i].bound.len, v[j].bound.len,
                  sc[v[l].env].block, sc[v[l].env].giver)

Blocks(v, n, sc, A) == Rising(v, n, sc) /\ Called(v, n, sc) /\ OwnNames(v, n, sc) /\ Holding(v, n, sc, A)

\* A walk call ends, or another one starts in the state on top.
LEMMA Reframing ==
    ASSUME NEW n \in Nat, n >= 1, NEW v, NEW sc, NEW A, Blocks(v, n, sc, A),
           NEW p \in Nat, p <= n + 1, NEW w,
           \A i \in 1 .. p : w[i] = v[IF i <= n THEN i ELSE n]
    PROVE  Blocks(w, p, sc, A)
  <1>1. PICK b : b = [i \in 1 .. p |-> IF i <= n THEN i ELSE n]
    OBVIOUS
  <1>2. /\ \A i \in 1 .. p : b[i] \in 1 .. n /\ b[i] <= i /\ w[i] = v[b[i]] /\ (i <= n => b[i] = i)
        /\ \A i, j \in 1 .. p : i <= j => b[i] <= b[j]
    BY <1>1
  <1>3. Rising(w, p, sc)
    BY <1>2 DEF Rising, Blocks
  <1>4. Called(w, p, sc)
    <2> SUFFICES ASSUME NEW i \in 1 .. p, sc[w[i].env].giver # 0
                 PROVE  \E c \in 1 .. i - 1 :
                           /\ w[c].state = sc[w[i].env].giver
                           /\ \A l \in c + 1 .. i : w[i].env <= w[l].env
      BY DEF Called
    <2>1. PICK k \in 1 .. n : k = b[i] /\ k <= i /\ w[i] = v[k]
      BY <1>2
    <2>2. PICK c \in 1 .. k - 1 : /\ v[c].state = sc[v[k].env].giver
                                  /\ \A l \in c + 1 .. k : v[k].env <= v[l].env
      BY <2>1 DEF Called, Blocks
    <2>3. c \in 1 .. i - 1 /\ c \in 1 .. p /\ c <= n
      BY <2>1, <2>2
    <2>4. w[c] = v[c]
      BY <1>2, <2>3
    <2>5. ASSUME NEW l \in c + 1 .. i
          PROVE  w[i].env <= w[l].env
      <3>1. l \in 1 .. p /\ l <= i /\ c + 1 <= l
        BY <2>3
      <3>2. b[l] <= k /\ b[l] \in 1 .. n
        BY <1>2, <2>1, <3>1
      <3>3. c + 1 <= b[l]
        BY <1>1, <2>1, <2>2, <3>1
      <3>4. b[l] \in c + 1 .. k
        BY <2>1, <2>3, <3>2, <3>3
      <3> QED
        BY <1>2, <2>1, <2>2, <3>1, <3>4
    <2> QED
      BY <2>1, <2>2, <2>3, <2>4, <2>5
  <1>5. OwnNames(w, p, sc)
    BY <1>2 DEF OwnNames, Blocks
  <1>6. Holding(w, p, sc, A)
    <2> SUFFICES ASSUME NEW l \in 1 .. p, NEW i \in 1 .. p, NEW j \in 1 .. p,
                        l <= i, l <= j, Waits(w[l].env, sc), w[i].bound.arr = w[j].bound.arr
                 PROVE  /\ w[i].bound.arr # 0
                        /\ Held(A, w[i].bound.arr, w[i].bound.len, w[j].bound.len,
                                sc[w[l].env].block, sc[w[l].env].giver)
      BY DEF Holding
    <2>1. /\ b[l] \in 1 .. n /\ b[i] \in 1 .. n /\ b[j] \in 1 .. n /\ b[l] <= b[i] /\ b[l] <= b[j]
          /\ w[l] = v[b[l]] /\ w[i] = v[b[i]] /\ w[j] = v[b[j]]
      BY <1>2
    <2> QED
      BY <2>1 DEF Holding, Blocks
  <1> QED
    BY <1>3, <1>4, <1>5, <1>6 DEF Blocks

\* The walk calls with their states and scopes stay, some blocks are used.
LEMMA SameScopes ==
    ASSUME NEW n \in Nat, NEW v, NEW sc, NEW w, NEW su,
           Rising(v, n, sc), Called(v, n, sc), OwnNames(v, n, sc),
           \A i \in 1 .. n : /\ w[i].state = v[i].state /\ w[i].env = v[i].env
                             /\ su[v[i].env].giver = sc[v[i].env].giver
                             /\ su[v[i].env].block = sc[v[i].env].block
                             /\ sc[v[i].env].used => su[v[i].env].used
    PROVE  Rising(w, n, su) /\ Called(w, n, su) /\ OwnNames(w, n, su)
  <1>1. Rising(w, n, su)
    BY DEF Rising
  <1>2. Called(w, n, su)
    <2> SUFFICES ASSUME NEW i \in 1 .. n, su[w[i].env].giver # 0
                 PROVE  \E c \in 1 .. i - 1 :
                           /\ w[c].state = su[w[i].env].giver
                           /\ \A l \in c + 1 .. i : w[i].env <= w[l].env
      BY DEF Called
    <2>1. PICK c \in 1 .. i - 1 : /\ v[c].state = sc[v[i].env].giver
                                  /\ \A l \in c + 1 .. i : v[i].env <= v[l].env
      BY DEF Called
    <2>2. c \in 1 .. n /\ \A l \in c + 1 .. i : l \in 1 .. n
      OBVIOUS
    <2> QED
      BY <2>1, <2>2
  <1>3. OwnNames(w, n, su)
    BY DEF OwnNames, Waits
  <1> QED
    BY <1>1, <1>2, <1>3

\* r is what freezing e leaves: an entry behind the slice s, which stays in its
\* array or moves to a new one.
FrozenIn(A, s, e, r) ==
    /\ Fits(r.heap, r.slice) /\ r.slice.len = s.len + 1 /\ Heap(r.heap)
    /\ r.slice.arr = s.arr \/ r.slice.arr = Len(A) + 1
    /\ \A a \in 1 .. Len(A) :
          /\ a # s.arr => r.heap[a] = A[a]
          /\ \A j \in 1 .. Len(A[a]) : r.heap[a][j] = A[a][j] \/ (j = s.len + 1 /\ r.heap[a][j] = e)
    /\ \A j \in 1 .. s.len : r.heap[r.slice.arr][j] = A[s.arr][j]
    /\ r.slice.arr \in Nat /\ r.slice.arr # 0 /\ r.heap[r.slice.arr][s.len + 1] = e

LEMMA FrozenCells ==
    ASSUME NEW A, Heap(A), NEW s, Fits(A, s), NEW e, NEW r, r = Appended(A, s, <<e>>, NoEntry)
    PROVE  FrozenIn(A, s, e, r)
  <1>1. PICK m \in Nat : m = s.len
    BY FitsFields
  <1>2. PICK xs : xs = <<e>>
    OBVIOUS
  <1>3. IsSeq(xs)
    BY <1>2, OneIsSeq
  <1>4. Len(xs) = 1 /\ xs[1] = e
    BY <1>2, OneIsSeq
  <1>5. PICK empty : empty = NoEntry
    OBVIOUS
  <1>6. r = Appended(A, s, xs, empty)
    BY <1>2, <1>5
  <1>7. /\ Fits(r.heap, r.slice) /\ Heap(r.heap) /\ r.slice.len = m + 1
        /\ r.slice.arr = s.arr \/ r.slice.arr = Len(A) + 1
    <2>1. Grown(A, r.heap) /\ Fits(r.heap, r.slice)
      BY <1>3, <1>6, Appends
    <2>2. r.slice.len = s.len + Len(xs)
      BY <1>3, <1>6, Appends
    <2>3. r.slice.arr = s.arr \/ r.slice.arr = Len(A) + 1
      BY <1>3, <1>6, Appends
    <2> QED
      BY <1>1, <1>4, <2>1, <2>2, <2>3 DEF Grown
  <1>8. ASSUME NEW a \in 1 .. Len(A), NEW j \in 1 .. Len(A[a])
        PROVE  r.heap[a][j] = A[a][j] \/ (j = m + 1 /\ r.heap[a][j] = e)
    <2>1. r.heap[a][j] = A[a][j] \/ (j - s.len \in 1 .. Len(xs) /\ r.heap[a][j] = xs[j - s.len])
      BY <1>3, <1>6, Appends
    <2>2. j \in Nat
      BY <1>8, SeqBasics DEF Heap
    <2>3. j - m \in 1 .. 1 => j - m = 1 /\ j = m + 1
      BY <1>1, <2>2
    <2> QED
      BY <1>1, <1>4, <2>1, <2>3
  <1>9. \A a \in 1 .. Len(A) : a # s.arr => r.heap[a] = A[a]
    BY <1>3, <1>6, Appends
  <1>10. \A j \in 1 .. r.slice.len : r.heap[r.slice.arr][j] = IF j <= s.len THEN A[s.arr][j] ELSE xs[j - s.len]
    BY <1>3, <1>6, Appends
  <1>11. \A j \in 1 .. m : r.heap[r.slice.arr][j] = A[s.arr][j]
    <2> SUFFICES ASSUME NEW j \in 1 .. m PROVE r.heap[r.slice.arr][j] = A[s.arr][j]
      OBVIOUS
    <2>1. j \in 1 .. r.slice.len /\ j <= s.len
      BY <1>1, <1>7
    <2> QED
      BY <1>10, <2>1
  <1>12. r.heap[r.slice.arr][m + 1] = e
    <2>1. m + 1 \in 1 .. r.slice.len /\ ~(m + 1 <= m) /\ (m + 1) - m = 1
      BY <1>1, <1>7
    <2> QED
      BY <1>1, <1>4, <1>10, <2>1
  <1>13. r.slice.arr \in Nat /\ r.slice.arr # 0
    BY <1>7, FitsFields
  <1> QED
    BY <1>1, <1>7, <1>8, <1>9, <1>11, <1>12, <1>13 DEF FrozenIn

\* A block of the name x is frozen in the slice on top, when nobody waits for
\* one of this name.
LEMMA FreezingBlocks ==
    ASSUME NEW n \in Nat, n >= 1, NEW v, NEW sc, NEW A, Blocks(v, n, sc, A),
           Heap(A), \A i \in 1 .. n : Fits(A, v[i].bound),
           \A i \in 1 .. n : v[i].state = v[n].state => v[i].bound = v[n].bound,
           NEW x, \A i \in 1 .. n : Waits(v[i].env, sc) => sc[v[i].env].block # x,
           NEW e, e.name = x, NEW r, r = Appended(A, v[n].bound, <<e>>, NoEntry),
           NEW w, \A i \in 1 .. n : /\ w[i].state = v[i].state /\ w[i].env = v[i].env
                                    /\ w[i].bound = IF v[i].state = v[n].state THEN r.slice ELSE v[i].bound
    PROVE  /\ Blocks(w, n, sc, r.heap)
           /\ r.slice.arr # 0 /\ r.slice.len \in Nat /\ r.slice.len >= 1
           /\ r.heap[r.slice.arr][r.slice.len] = e
  <1>1. PICK C, y, s : C = r.heap /\ y = r.slice /\ s = v[n].bound
    OBVIOUS
  <1>2. Fits(A, s)
    BY <1>1
  <1>3. PICK m \in Nat : m = s.len
    BY <1>2, FitsFields
  <1>4. /\ Fits(C, y) /\ y.len = m + 1 /\ Heap(C)
        /\ y.arr = s.arr \/ y.arr = Len(A) + 1
        /\ \A a \in 1 .. Len(A) :
              /\ a # s.arr => C[a] = A[a]
              /\ \A j \in 1 .. Len(A[a]) : C[a][j] = A[a][j] \/ (j = m + 1 /\ C[a][j] = e)
        /\ \A j \in 1 .. m : C[y.arr][j] = A[s.arr][j]
        /\ y.arr \in Nat /\ y.arr # 0 /\ C[y.arr][m + 1] = e
    <2>1. r = Appended(A, s, <<e>>, NoEntry)
      BY <1>1
    <2>2. FrozenIn(A, s, e, r)
      BY <1>2, <2>1, FrozenCells
    <2> QED
      BY <1>1, <1>3, <2>2 DEF FrozenIn
  <1>5. Len(A) \in Nat /\ s.arr \in Nat /\ s.arr <= Len(A)
    BY <1>2, FitsFields DEF Fits
  <1>6. Rising(w, n, sc) /\ Called(w, n, sc) /\ OwnNames(w, n, sc)
    <2>1. Rising(v, n, sc) /\ Called(v, n, sc) /\ OwnNames(v, n, sc)
      BY DEF Blocks
    <2> QED
      BY <2>1, SameScopes
  <1>7. Holding(w, n, sc, C)
    <2> SUFFICES ASSUME NEW l \in 1 .. n, NEW i \in 1 .. n, NEW j \in 1 .. n,
                        l <= i, l <= j, Waits(v[l].env, sc), w[i].bound.arr = w[j].bound.arr
                 PROVE  /\ w[i].bound.arr # 0
                        /\ Held(C, w[i].bound.arr, w[i].bound.len, w[j].bound.len,
                                sc[v[l].env].block, sc[v[l].env].giver)
      BY DEF Holding
    <2>1. PICK b, q : b = sc[v[l].env].block /\ q = sc[v[l].env].giver /\ b # x
      OBVIOUS
    <2>2. PICK g, h : g = v[i].bound /\ h = v[j].bound
      OBVIOUS
    <2>3. /\ Fits(A, g) /\ Fits(A, h)
          /\ w[i].bound = (IF v[i].state = v[n].state THEN y ELSE g)
          /\ w[j].bound = (IF v[j].state = v[n].state THEN y ELSE h)
          /\ v[i].state = v[n].state => g = s
          /\ v[j].state = v[n].state => h = s
      BY <1>1, <2>2
    <2>4. /\ g.arr \in Nat /\ g.arr <= Len(A) /\ g.len \in Nat
          /\ h.arr \in Nat /\ h.arr <= Len(A) /\ h.len \in Nat
          /\ g.arr # 0 => g.arr \in 1 .. Len(A) /\ g.len <= Len(A[g.arr])
          /\ h.arr # 0 => h.arr \in 1 .. Len(A) /\ h.len <= Len(A[h.arr])
      BY <2>3, FitsFields DEF Fits
    <2>5. ASSUME NEW c \in 1 .. n, NEW d \in 1 .. n, l <= c, l <= d, v[c].bound.arr = v[d].bound.arr
          PROVE  /\ v[c].bound.arr # 0
                 /\ Held(A, v[c].bound.arr, v[c].bound.len, v[d].bound.len, b, q)
      BY <2>1, <2>5 DEF Holding, Blocks
    <2>6. CASE w[i].bound.arr = Len(A) + 1
      <3>1. w[i].bound = y /\ w[j].bound = y
        BY <1>5, <2>3, <2>4, <2>6
      <3>2. PICK k \in 1 .. m : /\ A[s.arr][k].name = b /\ A[s.arr][k].scope = q
                                /\ \A p \in k .. m : A[s.arr][p].name = b => A[s.arr][p].scope = q
        BY <1>1, <1>3, <2>5 DEF Held
      <3>3. k \in 1 .. m + 1 /\ k <= m
        OBVIOUS
      <3>4. C[y.arr][k] = A[s.arr][k]
        BY <1>4, <3>3
      <3>5. ASSUME NEW p \in k .. m + 1, C[y.arr][p].name = b
            PROVE  C[y.arr][p].scope = q
        <4>1. p \in 1 .. m + 1 /\ p # m + 1
          <5>1. p \in 1 .. m + 1
            BY <3>5
          <5>2. C[y.arr][m + 1].name = x
            BY <1>4
          <5> QED
            BY <2>1, <3>5, <5>1, <5>2
        <4>2. p \in k .. m /\ p <= m
          BY <4>1
        <4> QED
          BY <1>4, <3>2, <3>5, <4>1, <4>2
      <3>6. Held(C, y.arr, m + 1, m + 1, b, q)
        BY <3>2, <3>3, <3>4, <3>5 DEF Held
      <3> QED
        BY <1>4, <2>1, <3>1, <3>6
    <2>7. CASE w[i].bound.arr # Len(A) + 1
      <3>1. w[i].bound.arr = g.arr /\ w[j].bound.arr = h.arr /\ g.arr = h.arr
        BY <1>4, <2>3, <2>7
      <3>2. PICK a : a = g.arr
        OBVIOUS
      <3>3. a # 0 /\ a \in 1 .. Len(A) /\ g.len <= Len(A[a]) /\ h.len <= Len(A[a])
        BY <2>2, <2>4, <2>5, <3>1, <3>2
      <3>4. CASE a # s.arr
        <4>1. w[i].bound = g /\ w[j].bound = h
          BY <2>3, <3>1, <3>2, <3>4
        <4>2. C[a] = A[a]
          BY <1>4, <3>3, <3>4
        <4>3. Held(A, a, g.len, h.len, b, q)
          BY <2>2, <2>5, <3>1, <3>2
        <4>4. Held(C, a, g.len, h.len, b, q)
          BY <4>2, <4>3 DEF Held
        <4> QED
          BY <2>1, <3>2, <3>3, <4>1, <4>4
      <3>5. CASE a = s.arr
        <4>1. PICK k \in 1 .. m : /\ k <= g.len
                                  /\ A[a][k].name = b /\ A[a][k].scope = q
                                  /\ \A p \in k .. h.len : A[a][p].name = b => A[a][p].scope = q
          <5>1. CASE g.len >= m
            <6>1. v[n].bound.arr = v[j].bound.arr /\ l <= n
              BY <1>1, <2>2, <3>1, <3>2, <3>5
            <6>2. Held(A, s.arr, s.len, h.len, b, q)
              BY <1>1, <2>2, <2>5, <6>1
            <6>3. PICK k \in 1 .. s.len : /\ A[s.arr][k].name = b /\ A[s.arr][k].scope = q
                                          /\ \A p \in k .. h.len : A[s.arr][p].name = b => A[s.arr][p].scope = q
              BY <6>2 DEF Held
            <6> QED
              BY <1>3, <2>4, <3>5, <5>1, <6>3
          <5>2. CASE ~(g.len >= m)
            <6>1. PICK k \in 1 .. g.len : /\ A[a][k].name = b /\ A[a][k].scope = q
                                          /\ \A p \in k .. h.len : A[a][p].name = b => A[a][p].scope = q
              BY <2>2, <2>5, <3>1, <3>2 DEF Held
            <6> QED
              BY <1>3, <2>4, <5>2, <6>1
          <5> QED
            BY <5>1, <5>2
        <4>2. s.len <= Len(A[a]) /\ Len(A[a]) \in Nat
          BY <1>2, <3>3, <3>5, FitsFields, SeqBasics DEF Heap
        <4>3. k \in 1 .. Len(A[a]) /\ k # m + 1
          BY <1>3, <4>1, <4>2
        <4>4. C[a][k] = A[a][k]
          BY <1>4, <3>3, <4>3
        <4>5. PICK z : z = w[i].bound.len /\ z \in Nat /\ k <= z
          <5>1. w[i].bound.len = m + 1 \/ w[i].bound.len = g.len
            BY <1>4, <2>3
          <5>2. m + 1 \in Nat /\ k <= m + 1
            BY <1>3
          <5>3. g.len \in Nat /\ k <= g.len
            BY <2>4, <4>1
          <5>4. w[i].bound.len \in Nat /\ k <= w[i].bound.len
            BY <5>1, <5>2, <5>3
          <5> QED
            BY <5>4
        <4>6. ASSUME NEW p \in k .. w[j].bound.len, C[a][p].name = b
              PROVE  C[a][p].scope = q
          <5>1. CASE w[j].bound = y /\ h = s
            <6>1. y.arr = a
              BY <3>1, <3>2, <5>1
            <6>2. p \in 1 .. m + 1 /\ p >= k
              BY <1>4, <4>6, <5>1
            <6>3. C[a][m + 1].name = x
              BY <1>4, <6>1
            <6>4. p \in k .. m /\ p <= m
              BY <2>1, <4>6, <6>2, <6>3
            <6>5. C[a][p] = A[a][p]
              BY <1>4, <3>5, <6>1, <6>2, <6>4
            <6> QED
              BY <1>3, <4>1, <4>6, <5>1, <6>4, <6>5
          <5>2. CASE w[j].bound = h
            <6>1. p \in k .. h.len /\ p \in 1 .. Len(A[a])
              BY <2>4, <3>3, <4>2, <4>6, <5>2
            <6>2. C[a][p] = A[a][p]
              BY <1>4, <2>1, <3>3, <4>6, <6>1
            <6> QED
              BY <4>1, <4>6, <6>1, <6>2
          <5> QED
            BY <2>3, <5>1, <5>2
        <4>7. Held(C, a, z, w[j].bound.len, b, q)
          <5>1. k \in 1 .. z
            BY <4>5
          <5> QED
            BY <4>1, <4>4, <4>6, <5>1 DEF Held
        <4> QED
          BY <2>1, <3>1, <3>2, <3>3, <4>5, <4>7
      <3> QED
        BY <3>4, <3>5
    <2> QED
      BY <2>6, <2>7
  <1>8. Blocks(w, n, sc, C)
    BY <1>6, <1>7 DEF Blocks
  <1>9. y.len \in Nat /\ y.len >= 1 /\ C[y.arr][y.len] = e
    BY <1>3, <1>4
  <1> QED
    BY <1>1, <1>4, <1>8, <1>9

\* The entry that is found is the last one of its name.
LEMMA FoundLast ==
    ASSUME NEW h, Heap(h), NEW s, Fits(h, s), NEW x, NEW f, f = Found(h, s, x)
    PROVE  /\ f \in 0 .. s.len /\ s.len \in Nat
           /\ f # 0 => h[s.arr][f].name = x
           /\ \A j \in f + 1 .. s.len : h[s.arr][j].name # x
  <1>1. PICK w : w = Window(h, s)
    OBVIOUS
  <1>2. PICK n \in Nat : n = s.len
    BY FitsFields
  <1>3. Len(w) = n /\ \A j \in 1 .. n : w[j] = h[s.arr][j]
    BY <1>1, <1>2, WindowIs
  <1>4. PICK I : I = {i \in 1 .. n : w[i].name = x}
    OBVIOUS
  <1>5. f = IF I # {} THEN Max(I) ELSE 0
    <2>1. I = {i \in 1 .. Len(w) : w[i].name = x}
      BY <1>3, <1>4
    <2>2. Found(h, s, x) = IF {i \in 1 .. Len(w) : w[i].name = x} # {}
                           THEN Max({i \in 1 .. Len(w) : w[i].name = x}) ELSE 0
      BY <1>1 DEF Found, SelectLastInSeq
    <2> QED
      BY <2>1, <2>2, Zenon
  <1>6. CASE I = {}
    <2>1. f = 0
      BY <1>5, <1>6
    <2>2. \A j \in 1 .. n : h[s.arr][j].name # x
      BY <1>3, <1>4, <1>6
    <2> QED
      BY <1>2, <2>1, <2>2
  <1>7. CASE I # {}
    <2>1. f = Max(I)
      BY <1>5, <1>7
    <2>2. I \subseteq 1 .. n
      BY <1>4
    <2>3. f \in I /\ \A j \in I : j <= f
      BY <1>7, <2>1, <2>2, MaxExists
    <2>4. f \in 1 .. n /\ h[s.arr][f].name = x
      BY <1>3, <1>4, <2>3
    <2>5. ASSUME NEW j \in f + 1 .. n PROVE h[s.arr][j].name # x
      <3>1. j \in 1 .. n /\ ~(j <= f)
        BY <2>4
      <3>2. j \notin I
        BY <2>3, <3>1
      <3> QED
        BY <1>3, <1>4, <3>1, <3>2
    <2> QED
      BY <1>2, <2>4, <2>5
  <1> QED
    BY <1>6, <1>7

\* r is what taking the i-th entry out of the slice s leaves.
RemovedFrom(A, s, i, r) ==
    /\ Heap(r.heap)
    /\ r.slice.arr = s.arr /\ r.slice.len = s.len - 1
    /\ s.arr \in 1 .. Len(A)
    /\ \A a \in 1 .. Len(A) : a # s.arr => r.heap[a] = A[a]
    /\ \A j \in 1 .. Len(A[s.arr]) :
          r.heap[s.arr][j] = IF i <= j /\ j < s.len THEN A[s.arr][j + 1] ELSE A[s.arr][j]

LEMMA RemovedCells ==
    ASSUME NEW A, Heap(A), NEW s, Fits(A, s), NEW i \in 1 .. s.len, NEW r, r = Removed(A, s, i)
    PROVE  RemovedFrom(A, s, i, r)
  <1>1. /\ s.arr \in 1 .. Len(A) /\ s.len \in Nat /\ s.arr \in Nat
        /\ s.len <= Len(A[s.arr]) /\ IsSeq(A) /\ IsSeq(A[s.arr])
    BY FitsFields DEF Heap
  <1>2. PICK n \in Nat : n = Len(A) /\ DOMAIN A = 1 .. n
    BY <1>1, SeqBasics
  <1>3. PICK x \in Nat : x = Len(A[s.arr]) /\ DOMAIN A[s.arr] = 1 .. x
    BY <1>1, SeqBasics
  <1>4. PICK y : y = [j \in 1 .. x |-> IF i <= j /\ j < s.len THEN A[s.arr][j + 1] ELSE A[s.arr][j]]
    OBVIOUS
  <1>5. IsSeq(y)
    <2>1. y = [j \in 1 .. x |-> y[j]]
      BY <1>4
    <2> QED
      BY <2>1, FunctionIsSeq
  <1>6. PICK C : C = r.heap
    OBVIOUS
  <1>7. C = [A EXCEPT ![s.arr] = y]
    BY <1>3, <1>4, <1>6 DEF Removed
  <1>8. C = [a \in 1 .. n |-> C[a]] /\ \A a \in 1 .. n : C[a] = IF a = s.arr THEN y ELSE A[a]
    BY <1>1, <1>2, <1>7
  <1>9. IsSeq(C) /\ Len(C) = n
    BY <1>8, FunctionIsSeq
  <1>10. Heap(C)
    BY <1>2, <1>5, <1>8, <1>9 DEF Heap
  <1>11. r.slice = [s EXCEPT !.len = s.len - 1]
    BY DEF Removed
  <1>12. r.slice.arr = s.arr /\ r.slice.len = s.len - 1
    BY <1>11 DEF Fits, Slices
  <1>13. ASSUME NEW j \in 1 .. Len(A[s.arr])
         PROVE  C[s.arr][j] = IF i <= j /\ j < s.len THEN A[s.arr][j + 1] ELSE A[s.arr][j]
    <2>1. C[s.arr] = y /\ j \in 1 .. x
      BY <1>1, <1>2, <1>3, <1>8
    <2> QED
      BY <1>4, <2>1
  <1>14. \A k \in 1 .. Len(A) : k # s.arr => C[k] = A[k]
    BY <1>2, <1>8
  <1> QED
    BY <1>1, <1>6, <1>10, <1>12, <1>13, <1>14 DEF RemovedFrom

\* The entries of the array a behind the P-th move, up to the one at top.
Shifted(A, C, a, P, top, len) ==
    \A j \in 1 .. len : C[a][j] = IF P <= j /\ j < top THEN A[a][j + 1] ELSE A[a][j]

\* Where the last entry of another name was taken out of the slice s, one of
\* the name b is still held, by the slices g and h of its array.
LEMMA HeldStill ==
    ASSUME NEW A, NEW C, NEW a, NEW top \in Nat, NEW P \in 1 .. top,
           NEW len \in Nat, top <= len,
           Shifted(A, C, a, P, top, len),
           NEW b, NEW q, A[a][P].name # b,
           NEW m \in Nat, NEW m2 \in Nat, m2 = m \/ (m2 = m - 1 /\ m = top),
           NEW n2 \in Nat, n2 <= len, m <= len,
           NEW z \in Nat, z >= n2, z >= top, Held(A, a, m, z, b, q)
    PROVE  Held(C, a, m2, n2, b, q)
  <1>1. PICK k \in 1 .. m : /\ A[a][k].name = b /\ A[a][k].scope = q
                            /\ \A i \in k .. z : A[a][i].name = b => A[a][i].scope = q
    BY DEF Held
  <1>2. k # P /\ k \in 1 .. len
    BY <1>1
  <1>3. PICK d : d = IF P < k /\ k <= top THEN k - 1 ELSE k
    OBVIOUS
  <1>4. d \in 1 .. m2 /\ d \in 1 .. len
    BY <1>2, <1>3
  <1>5. C[a][d] = A[a][k]
    <2>1. CASE P < k /\ k <= top
      <3>1. d = k - 1 /\ P <= d /\ d < top /\ d + 1 = k
        BY <1>3, <2>1
      <3> QED
        BY <1>4, <3>1 DEF Shifted
    <2>2. CASE ~(P < k /\ k <= top)
      <3>1. d = k /\ ~(P <= d /\ d < top)
        BY <1>2, <1>3, <2>2
      <3> QED
        BY <1>4, <3>1 DEF Shifted
    <2> QED
      BY <2>1, <2>2
  <1>6. ASSUME NEW i \in d .. n2, C[a][i].name = b
        PROVE  C[a][i].scope = q
    <2>1. i \in 1 .. len /\ i \in Nat /\ d <= i /\ i <= n2
      BY <1>4, <1>6
    <2>2. PICK j : j = IF P <= i /\ i < top THEN i + 1 ELSE i
      OBVIOUS
    <2>3. C[a][i] = A[a][j]
      BY <2>1, <2>2 DEF Shifted
    <2>4. j \in k .. z
      <3>1. CASE P <= i /\ i < top
        <4>1. j = i + 1 /\ j <= z
          BY <2>1, <2>2, <3>1
        <4>2. k <= j
          BY <1>3, <2>1, <4>1
        <4> QED
          BY <2>1, <4>1, <4>2
      <3>2. CASE ~(P <= i /\ i < top)
        <4>1. j = i /\ j <= z
          BY <2>1, <2>2, <3>2
        <4>2. k <= j
          BY <1>2, <1>3, <2>1, <3>2, <4>1
        <4> QED
          BY <2>1, <4>1, <4>2
      <3> QED
        BY <3>1, <3>2
    <2> QED
      BY <1>1, <1>6, <2>3, <2>4
  <1> QED
    BY <1>1, <1>4, <1>5, <1>6 DEF Held

\* The mixin on top takes its block out of its slice: the others who wait still
\* have theirs.
LEMMA RemovingBlocks ==
    ASSUME NEW n \in Nat, n >= 1, NEW v, NEW sc, NEW A, Blocks(v, n, sc, A),
           Heap(A), \A i \in 1 .. n : Fits(A, v[i].bound) /\ v[i].env \in Nat,
           \A i \in 1 .. n : v[i].state = v[n].state => v[i].bound = v[n].bound,
           NEW P \in 1 .. v[n].bound.len,
           A[v[n].bound.arr][P].name = sc[v[n].env].block,
           NEW r, r = Removed(A, v[n].bound, P),
           NEW su, \A i \in 1 .. n : /\ su[v[i].env].giver = sc[v[i].env].giver
                                     /\ su[v[i].env].block = sc[v[i].env].block
                                     /\ sc[v[i].env].used => su[v[i].env].used,
           su[v[n].env].used,
           NEW w, \A i \in 1 .. n : /\ w[i].state = v[i].state /\ w[i].env = v[i].env
                                    /\ w[i].bound = IF v[i].state = v[n].state THEN r.slice ELSE v[i].bound
    PROVE  Blocks(w, n, su, r.heap)
  <1>1. PICK C, y, s : C = r.heap /\ y = r.slice /\ s = v[n].bound
    OBVIOUS
  <1>2. Fits(A, s)
    BY <1>1
  <1>3. PICK m \in Nat : m = s.len
    BY <1>2, FitsFields
  <1>4. RemovedFrom(A, s, P, r)
    BY <1>1, <1>2, RemovedCells
  <1>5. /\ y.arr = s.arr /\ y.len = m - 1 /\ s.arr \in 1 .. Len(A)
        /\ \A a \in 1 .. Len(A) : a # s.arr => C[a] = A[a]
        /\ \A j \in 1 .. Len(A[s.arr]) : C[s.arr][j] = IF P <= j /\ j < m THEN A[s.arr][j + 1] ELSE A[s.arr][j]
    BY <1>1, <1>3, <1>4 DEF RemovedFrom
  <1>6. Rising(w, n, su) /\ Called(w, n, su) /\ OwnNames(w, n, su)
    <2>1. Rising(v, n, sc) /\ Called(v, n, sc) /\ OwnNames(v, n, sc)
      BY DEF Blocks
    <2> QED
      BY <2>1, SameScopes
  <1>7. PICK len \in Nat : len = Len(A[s.arr]) /\ m <= len /\ P \in 1 .. m
    <2>1. IsSeq(A[s.arr])
      BY <1>5 DEF Heap
    <2>2. s.len <= Len(A[s.arr])
      BY <1>2, <1>5, FitsFields
    <2>3. Len(A[s.arr]) \in Nat
      BY <2>1, SeqBasics
    <2> QED
      BY <1>1, <1>3, <2>2, <2>3
  <1>8. Holding(w, n, su, C)
    <2> SUFFICES ASSUME NEW l \in 1 .. n, NEW i \in 1 .. n, NEW j \in 1 .. n,
                        l <= i, l <= j, Waits(v[l].env, su), w[i].bound.arr = w[j].bound.arr
                 PROVE  /\ w[i].bound.arr # 0
                        /\ Held(C, w[i].bound.arr, w[i].bound.len, w[j].bound.len,
                                sc[v[l].env].block, sc[v[l].env].giver)
      BY DEF Holding
    <2>1. PICK b, q : b = sc[v[l].env].block /\ q = sc[v[l].env].giver
      OBVIOUS
    <2>2. Waits(v[l].env, sc) /\ v[l].env # v[n].env
      BY DEF Waits
    <2>3. sc[v[n].env].block # b
      <3>1. v[l].env <= v[n].env
        BY <2>2 DEF Blocks, Rising, Waits
      <3>2. v[l].env < v[n].env
        BY <2>2, <3>1
      <3> QED
        BY <2>1, <2>2, <3>2 DEF Blocks, OwnNames
    <2>4. PICK g, h : g = v[i].bound /\ h = v[j].bound
      OBVIOUS
    <2>5. /\ Fits(A, g) /\ Fits(A, h)
          /\ w[i].bound = (IF v[i].state = v[n].state THEN y ELSE g)
          /\ w[j].bound = (IF v[j].state = v[n].state THEN y ELSE h)
          /\ v[i].state = v[n].state => g = s
          /\ v[j].state = v[n].state => h = s
      BY <1>1, <2>4
    <2>6. /\ w[i].bound.arr = g.arr /\ w[j].bound.arr = h.arr /\ g.arr = h.arr
      BY <1>5, <2>5
    <2>7. ASSUME NEW d \in 1 .. n, l <= d, v[d].bound.arr = g.arr
          PROVE  g.arr # 0 /\ Held(A, g.arr, g.len, v[d].bound.len, b, q)
      BY <2>1, <2>2, <2>4, <2>7 DEF Holding, Blocks
    <2>8. PICK a : a = g.arr /\ a # 0 /\ a \in 1 .. Len(A)
      BY <2>4, <2>5, <2>6, <2>7, FitsFields
    <2>9. CASE a # s.arr
      <3>1. w[i].bound = g /\ w[j].bound = h
        BY <2>5, <2>6, <2>8, <2>9
      <3>2. C[a] = A[a]
        BY <1>5, <2>8, <2>9
      <3>3. Held(A, a, g.len, h.len, b, q)
        BY <2>4, <2>6, <2>7, <2>8
      <3>4. Held(C, a, g.len, h.len, b, q)
        BY <3>2, <3>3 DEF Held
      <3> QED
        BY <2>1, <2>8, <3>1, <3>4
    <2>10. CASE a = s.arr
      <3>1. PICK x \in Nat, z \in Nat : x = g.len /\ z = h.len /\ x <= len /\ z <= len
        <4>1. g.len \in Nat /\ h.len \in Nat
          BY <2>5, FitsFields
        <4>2. g.len <= Len(A[a]) /\ h.len <= Len(A[a])
          BY <2>5, <2>6, <2>8, FitsFields
        <4> QED
          BY <1>7, <2>10, <4>1, <4>2
      <3>2. PICK x2 \in Nat : x2 = w[i].bound.len /\ (x2 = x \/ (x2 = x - 1 /\ x = m))
        BY <1>3, <1>5, <1>7, <2>5, <3>1
      <3>3. PICK z2 \in Nat : z2 = w[j].bound.len /\ z2 <= z /\ (z2 # z => z = m)
        BY <1>3, <1>5, <1>7, <2>5, <3>1
      <3>4. PICK u \in Nat : u >= z /\ u >= m /\ Held(A, a, x, u, b, q)
        <4>1. CASE z >= m
          <5>1. Held(A, a, x, z, b, q)
            BY <2>4, <2>6, <2>7, <2>8, <3>1
          <5> QED
            BY <4>1, <5>1
        <4>2. CASE ~(z >= m)
          <5>1. l <= n /\ n \in 1 .. n
            OBVIOUS
          <5>2. Held(A, a, x, m, b, q)
            BY <1>1, <1>3, <2>7, <2>8, <2>10, <3>1, <5>1
          <5> QED
            BY <4>2, <5>2
        <4> QED
          BY <4>1, <4>2
      <3>5. Shifted(A, C, a, P, m, len)
        BY <1>5, <1>7, <2>10 DEF Shifted
      <3>6. A[a][P].name # b
        BY <1>1, <2>3, <2>10
      <3>7. Held(C, a, x2, z2, b, q)
        <4>1. z2 <= len /\ u >= z2
          BY <3>1, <3>3, <3>4
        <4>2. P \in 1 .. m /\ m <= len
          BY <1>7
        <4> QED
          BY <3>1, <3>2, <3>3, <3>4, <3>5, <3>6, <4>1, <4>2, HeldStill
      <3> QED
        BY <2>1, <2>6, <2>8, <3>2, <3>3, <3>7
    <2> QED
      BY <2>9, <2>10
  <1> QED
    BY <1>1, <1>6, <1>8 DEF Blocks

\* A scope is added, or the block of one is used.
LEMMA MoreScopes ==
    ASSUME NEW n \in Nat, NEW v, NEW sc, NEW A, Blocks(v, n, sc, A), NEW su,
           \A i \in 1 .. n : /\ su[v[i].env].giver = sc[v[i].env].giver
                             /\ su[v[i].env].block = sc[v[i].env].block
                             /\ sc[v[i].env].used => su[v[i].env].used
    PROVE  Blocks(v, n, su, A)
  <1>1. Rising(v, n, su) /\ Called(v, n, su) /\ OwnNames(v, n, su)
    <2>1. Rising(v, n, sc) /\ Called(v, n, sc) /\ OwnNames(v, n, sc)
      BY DEF Blocks
    <2> QED
      BY <2>1, SameScopes
  <1>2. Holding(v, n, su, A)
    <2>1. Holding(v, n, sc, A)
      BY DEF Blocks
    <2>2. \A l \in 1 .. n : Waits(v[l].env, su) => Waits(v[l].env, sc)
      BY DEF Waits
    <2> QED
      BY <2>1, <2>2 DEF Holding
  <1> QED
    BY <1>1, <1>2 DEF Blocks

\* A mixin walks, in a scope of its own with the blocks of the state on top.
LEMMA CallingBlocks ==
    ASSUME NEW n \in Nat, n >= 1, NEW v, NEW sc, NEW A, Blocks(v, n, sc, A),
           NEW K \in Nat, \A i \in 1 .. n : v[i].env \in Nat /\ v[i].env < K,
           \A i \in 1 .. n : Waits(v[i].env, sc) => sc[K].block # sc[v[i].env].block,
           sc[K].giver # 0 => sc[K].giver = v[n].state,
           Waits(K, sc) => /\ v[n].bound.arr # 0
                           /\ Held(A, v[n].bound.arr, v[n].bound.len, v[n].bound.len,
                                   sc[K].block, sc[K].giver),
           NEW w, \A i \in 1 .. n : w[i] = v[i],
           w[n + 1].env = K, w[n + 1].bound = v[n].bound
    PROVE  Blocks(w, n + 1, sc, A)
  <1>1. /\ \A i \in 1 .. n + 1 : i \in 1 .. n \/ i = n + 1
        /\ \A i \in 1 .. n : i \in 1 .. n + 1 /\ i < n + 1
    OBVIOUS
  <1>2. Rising(w, n + 1, sc)
    <2> SUFFICES ASSUME NEW i \in 1 .. n + 1, NEW j \in 1 .. n + 1, i <= j, ~sc[w[i].env].used
                 PROVE  w[i].env <= w[j].env
      BY DEF Rising
    <2>1. CASE j \in 1 .. n
      <3>1. i \in 1 .. n
        BY <2>1
      <3> QED
        BY <2>1, <3>1 DEF Rising, Blocks
    <2>2. CASE j = n + 1
      BY <1>1, <2>2
    <2> QED
      BY <1>1, <2>1, <2>2
  <1>3. Called(w, n + 1, sc)
    <2> SUFFICES ASSUME NEW i \in 1 .. n + 1, sc[w[i].env].giver # 0
                 PROVE  \E c \in 1 .. i - 1 :
                           /\ w[c].state = sc[w[i].env].giver
                           /\ \A l \in c + 1 .. i : w[i].env <= w[l].env
      BY DEF Called
    <2>1. CASE i \in 1 .. n
      <3>1. PICK c \in 1 .. i - 1 : /\ v[c].state = sc[v[i].env].giver
                                    /\ \A l \in c + 1 .. i : v[i].env <= v[l].env
        BY <2>1 DEF Called, Blocks
      <3>2. c \in 1 .. n /\ \A l \in c + 1 .. i : l \in 1 .. n
        BY <2>1
      <3> QED
        BY <2>1, <3>1, <3>2
    <2>2. CASE i = n + 1
      <3>1. n \in 1 .. i - 1 /\ w[n].state = sc[w[i].env].giver
        BY <2>2
      <3>2. \A l \in n + 1 .. i : l = i
        BY <2>2
      <3>3. w[i].env <= w[i].env
        BY <2>2
      <3> QED
        BY <3>1, <3>2, <3>3
    <2> QED
      BY <1>1, <2>1, <2>2
  <1>4. OwnNames(w, n + 1, sc)
    <2> SUFFICES ASSUME NEW l \in 1 .. n + 1, NEW j \in 1 .. n + 1, l <= j,
                        Waits(w[l].env, sc), w[l].env < w[j].env
                 PROVE  sc[w[j].env].block # sc[w[l].env].block
      BY DEF OwnNames
    <2>1. CASE j \in 1 .. n
      <3>1. l \in 1 .. n
        BY <2>1
      <3> QED
        BY <2>1, <3>1 DEF OwnNames, Blocks
    <2>2. CASE j = n + 1
      <3>1. l \in 1 .. n
        BY <1>1, <2>2
      <3> QED
        BY <2>2, <3>1
    <2> QED
      BY <1>1, <2>1, <2>2
  <1>5. Holding(w, n + 1, sc, A)
    <2> SUFFICES ASSUME NEW l \in 1 .. n + 1, NEW i \in 1 .. n + 1, NEW j \in 1 .. n + 1,
                        l <= i, l <= j, Waits(w[l].env, sc), w[i].bound.arr = w[j].bound.arr
                 PROVE  /\ w[i].bound.arr # 0
                        /\ Held(A, w[i].bound.arr, w[i].bound.len, w[j].bound.len,
                                sc[w[l].env].block, sc[w[l].env].giver)
      BY DEF Holding
    <2>1. CASE l = n + 1
      <3>1. i = n + 1 /\ j = n + 1
        BY <2>1
      <3> QED
        BY <2>1, <3>1
    <2>2. CASE l \in 1 .. n
      <3>1. PICK c \in 1 .. n : l <= c /\ w[i].bound = v[c].bound
        <4>1. CASE i \in 1 .. n
          BY <4>1
        <4>2. CASE i = n + 1
          <5>1. n \in 1 .. n /\ l <= n
            BY <2>2
          <5> QED
            BY <4>2, <5>1
        <4> QED
          BY <1>1, <4>1, <4>2
      <3>2. PICK d \in 1 .. n : l <= d /\ w[j].bound = v[d].bound
        <4>1. CASE j \in 1 .. n
          BY <4>1
        <4>2. CASE j = n + 1
          <5>1. n \in 1 .. n /\ l <= n
            BY <2>2
          <5> QED
            BY <4>2, <5>1
        <4> QED
          BY <1>1, <4>1, <4>2
      <3>3. Waits(v[l].env, sc) /\ w[l].env = v[l].env
        BY <2>2
      <3> QED
        BY <2>2, <3>1, <3>2, <3>3 DEF Holding, Blocks
    <2> QED
      BY <1>1, <2>1, <2>2
  <1> QED
    BY <1>2, <1>3, <1>4, <1>5 DEF Blocks

\* A block walks, in the scope and with the blocks of the c-th walk call: above
\* that one nobody waits.
LEMMA EnteringBlocks ==
    ASSUME NEW n \in Nat, NEW v, NEW sc, NEW A, Blocks(v, n, sc, A), \A i \in 1 .. n : v[i].env \in Nat,
           NEW c \in 1 .. n, \A l \in c + 1 .. n : sc[v[l].env].used /\ v[c].env <= v[l].env,
           NEW w, \A i \in 1 .. n : w[i] = v[i],
           w[n + 1].env = v[c].env, w[n + 1].bound = v[c].bound
    PROVE  Blocks(w, n + 1, sc, A)
  <1>1. /\ \A i \in 1 .. n + 1 : i \in 1 .. n \/ i = n + 1
        /\ \A i \in 1 .. n : i \in 1 .. n + 1 /\ i < n + 1 /\ (i <= c \/ i \in c + 1 .. n)
    OBVIOUS
  <1>2. Rising(w, n + 1, sc)
    <2> SUFFICES ASSUME NEW i \in 1 .. n + 1, NEW j \in 1 .. n + 1, i <= j, ~sc[w[i].env].used
                 PROVE  w[i].env <= w[j].env
      BY DEF Rising
    <2>1. CASE j \in 1 .. n
      <3>1. i \in 1 .. n
        BY <2>1
      <3> QED
        BY <2>1, <3>1 DEF Rising, Blocks
    <2>2. CASE j = n + 1 /\ i \in 1 .. n
      <3>1. i <= c
        BY <1>1, <2>2
      <3> QED
        BY <2>2, <3>1 DEF Rising, Blocks
    <2>3. CASE j = n + 1 /\ i = n + 1
      BY <2>3
    <2> QED
      BY <1>1, <2>1, <2>2, <2>3
  <1>3. Called(w, n + 1, sc)
    <2> SUFFICES ASSUME NEW i \in 1 .. n + 1, sc[w[i].env].giver # 0
                 PROVE  \E d \in 1 .. i - 1 :
                           /\ w[d].state = sc[w[i].env].giver
                           /\ \A l \in d + 1 .. i : w[i].env <= w[l].env
      BY DEF Called
    <2>1. CASE i \in 1 .. n
      <3>1. PICK d \in 1 .. i - 1 : /\ v[d].state = sc[v[i].env].giver
                                    /\ \A l \in d + 1 .. i : v[i].env <= v[l].env
        BY <2>1 DEF Called, Blocks
      <3>2. d \in 1 .. n /\ \A l \in d + 1 .. i : l \in 1 .. n
        BY <2>1
      <3> QED
        BY <2>1, <3>1, <3>2
    <2>2. CASE i = n + 1
      <3>1. PICK d \in 1 .. c - 1 : /\ v[d].state = sc[v[c].env].giver
                                    /\ \A l \in d + 1 .. c : v[c].env <= v[l].env
        BY <2>2 DEF Called, Blocks
      <3>2. d \in 1 .. i - 1 /\ d \in 1 .. n /\ w[d].state = sc[w[i].env].giver
        BY <2>2, <3>1
      <3>3. ASSUME NEW l \in d + 1 .. i
            PROVE  w[i].env <= w[l].env
        <4>1. l \in d + 1 .. c \/ l \in c + 1 .. n \/ l = i
          BY <2>2
        <4>2. l = i \/ l \in 1 .. n
          BY <2>2, <3>2
        <4> QED
          BY <2>2, <3>1, <4>1, <4>2
      <3> QED
        BY <3>2, <3>3
    <2> QED
      BY <1>1, <2>1, <2>2
  <1>4. OwnNames(w, n + 1, sc)
    <2> SUFFICES ASSUME NEW l \in 1 .. n + 1, NEW j \in 1 .. n + 1, l <= j,
                        Waits(w[l].env, sc), w[l].env < w[j].env
                 PROVE  sc[w[j].env].block # sc[w[l].env].block
      BY DEF OwnNames
    <2>1. CASE j \in 1 .. n
      <3>1. l \in 1 .. n
        BY <2>1
      <3> QED
        BY <2>1, <3>1 DEF OwnNames, Blocks
    <2>2. CASE j = n + 1
      <3>1. l \in 1 .. n
        BY <1>1, <2>2
      <3>2. l <= c
        BY <1>1, <3>1 DEF Waits
      <3> QED
        BY <2>2, <3>1, <3>2 DEF OwnNames, Blocks
    <2> QED
      BY <1>1, <2>1, <2>2
  <1>5. Holding(w, n + 1, sc, A)
    <2> SUFFICES ASSUME NEW l \in 1 .. n + 1, NEW i \in 1 .. n + 1, NEW j \in 1 .. n + 1,
                        l <= i, l <= j, Waits(w[l].env, sc), w[i].bound.arr = w[j].bound.arr
                 PROVE  /\ w[i].bound.arr # 0
                        /\ Held(A, w[i].bound.arr, w[i].bound.len, w[j].bound.len,
                                sc[w[l].env].block, sc[w[l].env].giver)
      BY DEF Holding
    <2>1. PICK k \in 1 .. n : k <= l /\ k <= c /\ v[k].env = w[l].env
      <3>1. CASE l = n + 1
        BY <3>1
      <3>2. CASE l \in 1 .. n
        BY <1>1, <3>2 DEF Waits
      <3> QED
        BY <1>1, <3>1, <3>2
    <2>2. PICK x \in 1 .. n : k <= x /\ w[i].bound = v[x].bound
      <3>1. CASE i \in 1 .. n
        BY <2>1, <3>1
      <3>2. CASE i = n + 1
        BY <2>1, <3>2
      <3> QED
        BY <1>1, <3>1, <3>2
    <2>3. PICK d \in 1 .. n : k <= d /\ w[j].bound = v[d].bound
      <3>1. CASE j \in 1 .. n
        BY <2>1, <3>1
      <3>2. CASE j = n + 1
        BY <2>1, <3>2
      <3> QED
        BY <1>1, <3>1, <3>2
    <2> QED
      BY <2>1, <2>2, <2>3 DEF Holding, Blocks
  <1> QED
    BY <1>2, <1>3, <1>4, <1>5 DEF Blocks

-----------------------------------------------------------------------------
(* The name of its block, among the variables of a mixin.                  *)

\* The variables z with the arrays B name the block b, if any.
Mine(B, z, b) ==
    /\ \A k \in 1 .. z.len : B[z.arr][k].name = "$block" => B[z.arr][k].value = b
    /\ b # Null => \E k \in 1 .. z.len : B[z.arr][k].name = "$block"
Without(B, z) == \A k \in 1 .. z.len : B[z.arr][k].name # "$block"

\* Writing the slice s, which becomes t, leaves the name of the block in it,
\* and in all other slices of its array.
Saves(B, s, C, t) ==
    /\ \A b : Mine(B, s, b) => /\ Mine(C, t, b)
                               /\ \A z : Fits(B, z) /\ z.arr = s.arr /\ Mine(B, z, b) => Mine(C, z, b)
    /\ Without(B, s) => Without(C, t)

LEMMA AppendSaves ==
    ASSUME NEW B, Heap(B), NEW s, Fits(B, s), NEW xs, IsSeq(xs), NEW empty,
           \A i \in 1 .. Len(xs) : xs[i].name # "$block",
           NEW r, r = Appended(B, s, xs, empty)
    PROVE  Saves(B, s, r.heap, r.slice)
  <1>1. PICK C, t : C = r.heap /\ t = r.slice
    OBVIOUS
  <1>2. PICK m \in Nat : m = s.len
    BY FitsFields
  <1>3. PICK x \in Nat : x = Len(xs)
    BY SeqBasics
  <1>4. t.len = m + x
    <2>1. r.slice.len = s.len + Len(xs)
      BY Appends
    <2> QED
      BY <1>1, <1>2, <1>3, <2>1
  <1>5. \A j \in 1 .. m + x : C[t.arr][j] = IF j <= m THEN B[s.arr][j] ELSE xs[j - m]
    <2>1. \A j \in 1 .. r.slice.len : r.heap[r.slice.arr][j] = IF j <= s.len THEN B[s.arr][j] ELSE xs[j - s.len]
      BY Appends
    <2> QED
      BY <1>1, <1>2, <1>4, <2>1
  <1>6. ASSUME NEW a \in 1 .. Len(B), NEW j \in 1 .. Len(B[a])
        PROVE  C[a][j] = B[a][j] \/ (j - m \in 1 .. x /\ C[a][j] = xs[j - m])
    <2>1. r.heap[a][j] = B[a][j] \/ (j - s.len \in 1 .. Len(xs) /\ r.heap[a][j] = xs[j - s.len])
      BY Appends
    <2> QED
      BY <1>1, <1>2, <1>3, <2>1
  <1>7. ASSUME NEW j \in 1 .. m + x
        PROVE  (j \in 1 .. m /\ C[t.arr][j] = B[s.arr][j]) \/ C[t.arr][j].name # "$block"
    <2>1. CASE j <= m
      BY <1>5, <2>1
    <2>2. CASE ~(j <= m)
      <3>1. j - m \in 1 .. x
        BY <2>2
      <3>2. C[t.arr][j] = xs[j - m]
        BY <1>5, <2>2
      <3> QED
        BY <1>3, <3>1, <3>2
    <2> QED
      BY <2>1, <2>2
  <1>8. ASSUME NEW b, Mine(B, s, b)
        PROVE  Mine(C, t, b)
    <2>1. \A k \in 1 .. t.len : C[t.arr][k].name = "$block" => C[t.arr][k].value = b
      BY <1>2, <1>4, <1>7, <1>8 DEF Mine
    <2>2. ASSUME b # Null PROVE \E k \in 1 .. t.len : C[t.arr][k].name = "$block"
      <3>1. PICK k \in 1 .. m : B[s.arr][k].name = "$block"
        BY <1>2, <1>8, <2>2 DEF Mine
      <3>2. k \in 1 .. m + x /\ k <= m
        OBVIOUS
      <3> QED
        BY <1>4, <1>5, <3>1, <3>2
    <2> QED
      BY <2>1, <2>2 DEF Mine
  <1>9. ASSUME NEW b, Mine(B, s, b), NEW z, Fits(B, z), z.arr = s.arr, Mine(B, z, b)
        PROVE  Mine(C, z, b)
    <2>1. PICK a : a = z.arr
      OBVIOUS
    <2>2. z.len \in Nat /\ (z.len # 0 => a \in 1 .. Len(B) /\ z.len <= Len(B[a]))
      BY <1>9, <2>1, FitsFields
    <2>3. z.len # 0 => Len(B[a]) \in Nat
      BY <2>2, SeqBasics DEF Heap
    <2>4. ASSUME NEW k \in 1 .. z.len
          PROVE  C[a][k] = B[a][k] \/ (k - m \in 1 .. x /\ C[a][k] = xs[k - m])
      BY <1>6, <2>2, <2>3
    <2>5. ASSUME NEW k \in 1 .. z.len, C[a][k].name = "$block"
          PROVE  C[a][k].value = b
      <3>1. C[a][k] = B[a][k]
        BY <1>3, <2>4, <2>5
      <3> QED
        BY <1>9, <2>1, <2>5, <3>1 DEF Mine
    <2>6. ASSUME b # Null
          PROVE  \E k \in 1 .. z.len : C[a][k].name = "$block"
      <3>1. PICK k1 \in 1 .. m : B[a][k1].name = "$block"
        BY <1>2, <1>9, <2>1, <2>6 DEF Mine
      <3>2. PICK k2 \in 1 .. z.len : B[a][k2].name = "$block"
        BY <1>9, <2>1, <2>6 DEF Mine
      <3>3. CASE C[a][k2] = B[a][k2]
        BY <3>2, <3>3
      <3>4. CASE C[a][k2] # B[a][k2]
        <4>1. k2 - m \in 1 .. x
          BY <2>4, <3>4
        <4>2. k1 \in 1 .. z.len /\ ~(k1 - m \in 1 .. x)
          BY <2>2, <4>1
        <4>3. C[a][k1] = B[a][k1]
          BY <2>4, <4>2
        <4> QED
          BY <3>1, <4>2, <4>3
      <3> QED
        BY <3>3, <3>4
    <2> QED
      BY <2>1, <2>5, <2>6 DEF Mine
  <1>10. Without(B, s) => Without(C, t)
    BY <1>2, <1>4, <1>7 DEF Without
  <1> QED
    BY <1>1, <1>8, <1>9, <1>10 DEF Saves

LEMMA OneSaves ==
    ASSUME NEW B, Heap(B), NEW s, Fits(B, s), NEW m, m = [heap |-> B, slice |-> s],
           NEW e, e.name # "$block", NEW r, r = setVarValue(m, e)
    PROVE  Saves(B, s, r.heap, r.slice)
  <1>1. PICK i : i = Found(B, s, e.name)
    OBVIOUS
  <1>2. i \in 0 .. s.len /\ s.len \in Nat /\ (i # 0 => B[s.arr][i].name = e.name)
    BY <1>1, FoundLast
  <1>3. CASE i = 0
    <2>1. PICK xs : xs = <<e>>
      OBVIOUS
    <2>2. IsSeq(xs) /\ Len(xs) = 1 /\ xs[1] = e
      BY <2>1, OneIsSeq
    <2>3. \A j \in 1 .. Len(xs) : xs[j].name # "$block"
      <3>1. \A j \in 1 .. 1 : j = 1
        OBVIOUS
      <3> QED
        BY <2>2, <3>1
    <2>4. PICK empty : empty = Unbound
      OBVIOUS
    <2>5. r = Appended(B, s, xs, empty)
      BY <1>1, <1>3, <2>1, <2>4 DEF setVarValue
    <2> QED
      BY <2>2, <2>3, <2>5, AppendSaves
  <1>4. CASE i # 0
    <2>1. s.arr \in 1 .. Len(B) /\ i \in 1 .. Len(B[s.arr]) /\ IsSeq(B)
      BY <1>2, <1>4, FitsFields DEF Heap
    <2>2. PICK n \in Nat : n = Len(B) /\ DOMAIN B = 1 .. n
      BY <2>1, SeqBasics
    <2>3. PICK C : C = [B EXCEPT ![s.arr][i] = e]
      OBVIOUS
    <2>4. r.heap = C /\ r.slice = s
      BY <1>1, <1>4, <2>3 DEF setVarValue
    <2>5. IsSeq(B[s.arr])
      BY <2>1 DEF Heap
    <2>6. PICK x \in Nat : x = Len(B[s.arr]) /\ DOMAIN B[s.arr] = 1 .. x
      BY <2>5, SeqBasics
    <2>7. C[s.arr] = [B[s.arr] EXCEPT ![i] = e]
      BY <2>1, <2>2, <2>3
    <2>8. C[s.arr][i] = e /\ \A k \in 1 .. x : k # i => C[s.arr][k] = B[s.arr][k]
      BY <2>1, <2>6, <2>7
    <2>9. \A k \in 1 .. x :
             /\ C[s.arr][k].name = "$block" <=> B[s.arr][k].name = "$block"
             /\ C[s.arr][k].name = "$block" => C[s.arr][k] = B[s.arr][k]
      BY <1>2, <1>4, <2>8
    <2>10. ASSUME NEW z, Fits(B, z), z.arr = s.arr
           PROVE  /\ \A b : Mine(B, z, b) => Mine(C, z, b)
                  /\ Without(B, z) => Without(C, z)
      <3>1. \A k \in 1 .. z.len : k \in 1 .. x
        BY <2>1, <2>6, <2>10, FitsFields
      <3> QED
        BY <2>9, <2>10, <3>1 DEF Mine, Without
    <2> QED
      BY <2>4, <2>10 DEF Saves
  <1> QED
    BY <1>3, <1>4

\* In arrays that are not written.
LEMMA MineStays ==
    ASSUME NEW B, Heap(B), NEW z, Fits(B, z), NEW C, z.arr # 0 => C[z.arr] = B[z.arr],
           NEW b, Mine(B, z, b)
    PROVE  Mine(C, z, b)
  <1>1. z.arr = 0 => z.len = 0
    BY FitsFields
  <1>2. CASE z.arr = 0
    <2>1. \A k : k \notin 1 .. z.len
      BY <1>1, <1>2
    <2> QED
      BY <2>1 DEF Mine
  <1>3. CASE z.arr # 0
    BY <1>3 DEF Mine
  <1> QED
    BY <1>2, <1>3

LEMMA SavesTwice ==
    ASSUME NEW B, NEW s, NEW C, NEW t, NEW D, NEW u, Heap(B), Fits(B, s), s.arr # 0,
           Written(B, s, C, t), Saves(B, s, C, t), Written(C, t, D, u), Saves(C, t, D, u)
    PROVE  Saves(B, s, D, u)
  <1>1. /\ Grown(B, C) /\ Heap(C) /\ (t.arr = s.arr \/ t.arr > Len(B))
        /\ \A a \in 1 .. Len(C) : a # t.arr => D[a] = C[a]
        /\ Len(B) \in Nat /\ Len(C) \in Nat /\ Len(B) <= Len(C) /\ t.arr \in Nat
    BY FitsFields DEF Written, Grown
  <1>2. ASSUME NEW b, Mine(B, s, b), NEW z, Fits(B, z), z.arr = s.arr, Mine(B, z, b)
        PROVE  Mine(D, z, b)
    <2>1. Mine(C, t, b) /\ Mine(C, z, b)
      BY <1>2 DEF Saves
    <2>2. Fits(C, z)
      BY <1>1, <1>2, FitsStays
    <2>3. CASE z.arr = t.arr
      BY <2>1, <2>2, <2>3 DEF Saves
    <2>4. CASE z.arr # t.arr
      <3>1. z.arr \in 1 .. Len(B)
        BY <1>2, FitsFields
      <3>2. z.arr \in 1 .. Len(C)
        BY <1>1, <3>1
      <3>3. D[z.arr] = C[z.arr]
        BY <1>1, <2>4, <3>2
      <3> QED
        BY <1>1, <2>1, <2>2, <3>3, MineStays
    <2> QED
      BY <2>3, <2>4
  <1>3. \A b : Mine(B, s, b) => Mine(D, u, b)
    BY DEF Saves
  <1>4. Without(B, s) => Without(D, u)
    BY DEF Saves
  <1> QED
    BY <1>2, <1>3, <1>4 DEF Saves

LEMMA ValuesSave ==
    ASSUME NEW B, Heap(B), NEW s, Fits(B, s), s.arr # 0, NEW es, Len(es) \in 1 .. 2,
           \A i \in 1 .. Len(es) : es[i].name # "$block",
           NEW r, r = setVarValues(B, s, es)
    PROVE  Saves(B, s, r.heap, r.slice)
  <1>1. PICK e, f : e = es[1] /\ f = es[2]
    OBVIOUS
  <1>2. PICK m : m = [heap |-> B, slice |-> s]
    OBVIOUS
  <1>3. PICK one : one = setVarValue(m, e)
    OBVIOUS
  <1>4. PICK two : two = setVarValue(one, f)
    OBVIOUS
  <1>5. Written(B, s, one.heap, one.slice) /\ one = [heap |-> one.heap, slice |-> one.slice]
    BY <1>2, <1>3, OneWrites
  <1>6. e.name # "$block" /\ (Len(es) = 2 => f.name # "$block")
    BY <1>1
  <1>7. Saves(B, s, one.heap, one.slice)
    BY <1>2, <1>3, <1>6, OneSaves
  <1>8. Heap(one.heap) /\ Fits(one.heap, one.slice)
    BY <1>5 DEF Written, Grown
  <1>9. CASE Len(es) = 1
    <2>1. r = one
      BY <1>1, <1>2, <1>3, <1>9 DEF setVarValues
    <2> QED
      BY <1>7, <2>1
  <1>10. CASE Len(es) = 2
    <2>1. r = two
      BY <1>1, <1>2, <1>3, <1>4, <1>10 DEF setVarValues
    <2>2. Written(one.heap, one.slice, two.heap, two.slice)
      BY <1>4, <1>5, <1>8, OneWrites
    <2>3. Saves(one.heap, one.slice, two.heap, two.slice)
      BY <1>4, <1>5, <1>6, <1>8, <1>10, OneSaves
    <2> QED
      BY <1>5, <1>7, <2>1, <2>2, <2>3, SavesTwice
  <1> QED
    BY <1>9, <1>10

\* Every state has the name of the block of its scope.
NamedIn(all, B, sc) == \A i \in 1 .. Len(all) : Mine(B, all[i].vars, sc[all[i].env].block)

\* The states differ in their variables only.
Alike(all, later) ==
    /\ Len(later) = Len(all)
    /\ \A i \in 1 .. Len(all) :
          /\ later[i].bound = all[i].bound /\ later[i].env = all[i].env
          /\ later[i].user = all[i].user /\ later[i].first = all[i].first

LEMMA AlikeItself == ASSUME NEW all PROVE Alike(all, all)
  BY DEF Alike

LEMMA StoringNames ==
    ASSUME NEW all, NEW B, NEW A, NEW k, MemoryOK(all, A, B, k), NEW sc, NamedIn(all, B, sc),
           NEW s \in 1 .. Len(all), NEW es, NEW r,
           Written(B, all[s].vars, r.heap, r.slice), Saves(B, all[s].vars, r.heap, r.slice),
           NEW q, q = Stored([states |-> all, bindings |-> B], s, r, es)
    PROVE  Alike(all, q.states) /\ NamedIn(q.states, q.bindings, sc)
  <1>1. PICK w, C, x : w = q.states /\ C = q.bindings /\ x = all[s].vars
    OBVIOUS
  <1>2. /\ C = r.heap /\ Len(w) = Len(all)
        /\ \A i \in 1 .. Len(all) :
              /\ w[i].bound = all[i].bound /\ w[i].env = all[i].env
              /\ w[i].user = all[i].user /\ w[i].first = all[i].first
              /\ w[i].vars = IF i = s THEN r.slice ELSE all[i].vars
    BY <1>1, StoredIs
  <1>3. Alike(all, w)
    BY <1>2 DEF Alike
  <1>4. ASSUME NEW i \in 1 .. Len(all)
        PROVE  Mine(C, w[i].vars, sc[w[i].env].block)
    <2>1. Mine(B, all[i].vars, sc[all[i].env].block) /\ Mine(B, x, sc[all[s].env].block)
      BY <1>1 DEF NamedIn
    <2>2. Heap(B) /\ Fits(B, all[i].vars)
      BY DEF MemoryOK, Fine
    <2>3. Saves(B, x, C, r.slice) /\ Written(B, x, C, r.slice)
      BY <1>1, <1>2
    <2>4. CASE i = s
      BY <1>2, <2>1, <2>3, <2>4 DEF Saves
    <2>5. CASE i # s /\ all[i].vars.arr = x.arr
      <3>1. all[i].env = all[s].env
        BY <1>1, <2>5 DEF MemoryOK, Apart
      <3>2. Mine(C, all[i].vars, sc[all[i].env].block)
        BY <2>1, <2>2, <2>3, <2>5, <3>1 DEF Saves
      <3> QED
        BY <1>2, <2>5, <3>2
    <2>6. CASE i # s /\ all[i].vars.arr # x.arr
      <3>1. all[i].vars.arr # 0 => all[i].vars.arr \in 1 .. Len(B)
        BY <2>2, FitsFields
      <3>2. all[i].vars.arr # 0 => C[all[i].vars.arr] = B[all[i].vars.arr]
        BY <2>3, <2>6, <3>1 DEF Written
      <3>3. Mine(C, all[i].vars, sc[all[i].env].block)
        BY <2>1, <2>2, <3>2, MineStays
      <3> QED
        BY <1>2, <2>6, <3>3
    <2> QED
      BY <2>4, <2>5, <2>6
  <1>5. NamedIn(w, C, sc)
    BY <1>2, <1>4 DEF NamedIn
  <1> QED
    BY <1>1, <1>3, <1>5

LEMMA AssigningNames ==
    ASSUME NEW all, NEW B, NEW A, NEW k, MemoryOK(all, A, B, k), NEW sc, NamedIn(all, B, sc),
           NEW s \in 1 .. Len(all), NEW es, Len(es) \in 1 .. 2,
           \A i \in 1 .. Len(es) : es[i].name # "$block",
           NEW q, q = Assigned([states |-> all, bindings |-> B], s, es)
    PROVE  Alike(all, q.states) /\ NamedIn(q.states, q.bindings, sc)
  <1>1. PICK r : r = setVarValues(B, all[s].vars, es)
    OBVIOUS
  <1>2. q = Stored([states |-> all, bindings |-> B], s, r, es)
    BY <1>1 DEF Assigned
  <1>3. Heap(B) /\ Fits(B, all[s].vars) /\ all[s].vars.arr # 0
    BY DEF MemoryOK, Fine
  <1>4. Len(es) \in 1 .. 3
    OBVIOUS
  <1>5. Written(B, all[s].vars, r.heap, r.slice)
    BY <1>1, <1>3, <1>4, ValuesWrite
  <1>6. Saves(B, all[s].vars, r.heap, r.slice)
    BY <1>1, <1>3, ValuesSave
  <1> QED
    BY <1>2, <1>5, <1>6, StoringNames

\* What writes a variable is not called $block.
LEMMA VarsAre ==
    ASSUME NEW i \in Instructions, i.op \in Writing
    PROVE  /\ IsSeq(i.vars) /\ Len(i.vars) \in Nat /\ Len(i.vars) >= 1
           /\ \A j \in 1 .. Len(i.vars) : i.vars[j] # "$block"
  <1>1. i.vars \in Seq(STRING) /\ i.vars # <<>> /\ "$block" \notin ToSet(i.vars)
    BY ProgramsType, BlockVariable
  <1>2. Len(i.vars) \in Nat /\ Len(i.vars) # 0 /\ DOMAIN i.vars = 1 .. Len(i.vars)
    BY <1>1
  <1>3. \A j \in 1 .. Len(i.vars) : i.vars[j] \in ToSet(i.vars)
    BY <1>2 DEF ToSet
  <1> QED
    BY <1>1, <1>2, <1>3 DEF IsSeq

-----------------------------------------------------------------------------
(* The walk calls from one step to the next.                               *)

\* The variables of a range, and of a try, are those of its instruction.
KindOK(f) ==
    /\ f.kind = "range" => f.stmt.op \in {"range", "forin"}
    /\ f.kind = "try" => f.stmt.op = "try"
KindsOK(s) == \A i \in 1 .. Len(s) : KindOK(s[i])

\* The walk calls t are those of s, but for some that ended at the end, or with
\* another one in the state on top.
Goes(s, t) ==
    /\ Len(t) \in Nat /\ Len(t) <= Len(s) + 1
    /\ \A i \in 1 .. Len(t) : t[i].state = s[IF i <= Len(s) THEN i ELSE Len(s)].state

LEMMA StackIs ==
    ASSUME IInv, stack # <<>>
    PROVE  /\ IsSeq(stack) /\ Len(stack) \in Nat /\ Len(stack) >= 1
           /\ DOMAIN stack = 1 .. Len(stack) /\ Top = stack[Len(stack)]
           /\ \A i \in 1 .. Len(stack) : FrameOK(stack[i], Len(states))
           /\ FrameOK(Top, Len(states)) /\ Top.state \in 1 .. Len(states)
  BY TopIs DEF IInv, StackOK

LEMMA IsFunction ==
    ASSUME NEW s, IsSeq(s)
    PROVE  s = [i \in 1 .. Len(s) |-> s[i]]
  <1>1. PICK S : s \in Seq(S)
    BY DEF IsSeq
  <1> QED
    BY <1>1

LEMMA Rewriting ==
    ASSUME IInv, stack # <<>>, KindsOK(stack), NEW f, f.state = Top.state, KindOK(f),
           NEW t, t = [stack EXCEPT ![Len(stack)] = f]
    PROVE  Goes(stack, t) /\ KindsOK(t) /\ IsSeq(t) /\ Len(t) = Len(stack) /\ t[Len(t)] = f
  <1>1. PICK n \in Nat : n = Len(stack) /\ n >= 1 /\ DOMAIN stack = 1 .. n /\ Top = stack[n]
    BY StackIs
  <1>2. t = [i \in 1 .. n |-> IF i = n THEN f ELSE stack[i]]
    <2>1. stack = [i \in 1 .. n |-> stack[i]]
      BY <1>1, StackIs, IsFunction
    <2> QED
      BY <1>1, <2>1, Zenon
  <1>3. IsSeq(t) /\ Len(t) = n /\ \A i \in 1 .. n : t[i] = IF i = n THEN f ELSE stack[i]
    BY <1>2, FunctionIsSeq
  <1>4. Goes(stack, t)
    BY <1>1, <1>2, <1>3 DEF Goes
  <1>5. KindsOK(t)
    BY <1>1, <1>2, <1>3 DEF KindsOK
  <1> QED
    BY <1>1, <1>2, <1>3, <1>4, <1>5

LEMMA AdvancedGoes ==
    ASSUME IInv, Walking, KindsOK(stack)
    PROVE  Goes(stack, Advanced) /\ KindsOK(Advanced) /\ IsSeq(Advanced) /\ Len(Advanced) = Len(stack)
  <1>1. PICK f : f = [Top EXCEPT !.todo = Tail(Top.todo)]
    OBVIOUS
  <1>2. stack # <<>>
    BY DEF Walking
  <1>3. FrameOK(Top, Len(states)) /\ Top = stack[Len(stack)] /\ Len(stack) \in 1 .. Len(stack)
    BY <1>2, StackIs
  <1>4. f.state = Top.state /\ f.kind = Top.kind /\ f.stmt = Top.stmt
    BY <1>1, <1>3 DEF FrameOK
  <1>5. KindOK(f)
    BY <1>3, <1>4 DEF KindsOK, KindOK
  <1>6. Advanced = [stack EXCEPT ![Len(stack)] = f]
    BY <1>1, <1>3 DEF Advanced
  <1> QED
    BY <1>2, <1>4, <1>5, <1>6, Rewriting

LEMMA GoesBy ==
    ASSUME IInv, stack # <<>>, KindsOK(stack),
           \/ Walking /\ stack' = Advanced
           \/ Leave
           \/ stack' = [stack EXCEPT ![Len(stack)].todo = Top.stmt.list, ![Len(stack)].items = Tail(@)]
           \/ stack' = [stack EXCEPT ![Len(stack)].todo = Top.stmt.list, ![Len(stack)].n = Iterations]
           \/ Walking /\ \E f : Enter(f) /\ f.state = Top.state /\ KindOK(f)
    PROVE  Goes(stack, stack') /\ KindsOK(stack')
  <1>1. PICK n \in Nat : n = Len(stack) /\ n >= 1 /\ DOMAIN stack = 1 .. n /\ Top = stack[n]
    BY StackIs
  <1>2. FrameOK(Top, Len(states)) /\ KindOK(Top)
    BY <1>1, StackIs DEF KindsOK
  <1>3. CASE Walking /\ stack' = Advanced
    BY <1>3, AdvancedGoes
  <1>4. CASE Leave
    <2>1. PICK t : t = SubSeq(stack, 1, n - 1) /\ t = stack'
      BY <1>1, <1>4 DEF Leave, Front
    <2>2. n - 1 \in Nat /\ n - 1 <= Len(stack) /\ IsSeq(stack)
      BY <1>1, StackIs
    <2>3. Len(t) = n - 1 /\ \A i \in 1 .. n - 1 : t[i] = stack[i]
      BY <2>1, <2>2, Cutting
    <2>4. \A i \in 1 .. n - 1 : i \in 1 .. n /\ i <= n
      BY <1>1
    <2>5. Goes(stack, t)
      BY <1>1, <2>2, <2>3, <2>4 DEF Goes
    <2>6. KindsOK(t)
      BY <1>1, <2>3, <2>4 DEF KindsOK
    <2> QED
      BY <2>1, <2>5, <2>6
  <1>5. CASE stack' = [stack EXCEPT ![Len(stack)].todo = Top.stmt.list, ![Len(stack)].items = Tail(@)]
    <2>1. PICK f : f = [Top EXCEPT !.todo = Top.stmt.list, !.items = Tail(Top.items)]
      OBVIOUS
    <2>2. f.state = Top.state /\ KindOK(f)
      BY <1>2, <2>1 DEF FrameOK, KindOK
    <2>3. stack' = [stack EXCEPT ![Len(stack)] = f]
      BY <1>1, <1>5, <2>1
    <2> QED
      BY <2>2, <2>3, Rewriting
  <1>6. CASE stack' = [stack EXCEPT ![Len(stack)].todo = Top.stmt.list, ![Len(stack)].n = Iterations]
    <2>1. PICK f : f = [Top EXCEPT !.todo = Top.stmt.list, !.n = Iterations]
      OBVIOUS
    <2>2. f.state = Top.state /\ KindOK(f)
      BY <1>2, <2>1 DEF FrameOK, KindOK
    <2>3. stack' = [stack EXCEPT ![Len(stack)] = f]
      BY <1>1, <1>6, <2>1
    <2> QED
      BY <2>2, <2>3, Rewriting
  <1>7. ASSUME Walking, NEW f, Enter(f), f.state = Top.state, KindOK(f)
        PROVE  Goes(stack, stack') /\ KindsOK(stack')
    <2>1. PICK s, t : s = Advanced /\ t = stack' /\ t = Append(s, f)
      BY <1>7 DEF Enter
    <2>2. Goes(stack, s) /\ KindsOK(s) /\ IsSeq(s) /\ Len(s) = n
      BY <1>1, <1>7, <2>1, AdvancedGoes
    <2>3. Len(t) = n + 1 /\ t[n + 1] = f /\ \A i \in 1 .. n : t[i] = s[i]
      BY <2>1, <2>2, Appending
    <2>4. \A i \in 1 .. n + 1 : i \in 1 .. n \/ i = n + 1
      BY <1>1
    <2>5. Goes(stack, t)
      BY <1>1, <1>7, <2>2, <2>3, <2>4 DEF Goes
    <2>6. KindsOK(t)
      BY <1>7, <2>2, <2>3, <2>4 DEF KindsOK
    <2> QED
      BY <2>1, <2>5, <2>6
  <1> QED
    BY <1>3, <1>4, <1>5, <1>6, <1>7

-----------------------------------------------------------------------------
(* The invariant of the blocks.                                            *)

View(s, all) ==
    [i \in 1 .. Len(s) |->
        [state |-> s[i].state, env |-> all[s[i].state].env, bound |-> all[s[i].state].bound]]

\* A block has who gave it, in an earlier scope.
ScopeOK(g, e, all) ==
    /\ g = [giver |-> g.giver, block |-> g.block, used |-> g.used]
    /\ g.giver = 0 => g.block = Null
    /\ g.giver # 0 => g.giver \in 1 .. Len(all) /\ all[g.giver].env < e
ScopesOK(sc, all) == \A e \in 1 .. Len(sc) : ScopeOK(sc[e], e, all)

\* The first use of a block walks in the scope of who gave it.
FirstOK(st, all, sc) ==
    st.first => /\ st.user \in 1 .. Len(sc) /\ sc[st.user].giver # 0
                /\ st.env = all[sc[st.user].giver].env
FirstsOK(all, sc) == \A i \in 1 .. Len(all) : FirstOK(all[i], all, sc)

Ordered(s, all, sc, B, A) ==
    /\ ScopesOK(sc, all) /\ FirstsOK(all, sc) /\ NamedIn(all, B, sc)
    /\ Blocks(View(s, all), Len(s), sc, A)

BInv == KindsOK(stack) /\ Ordered(stack, states, scopes, bindings, arrays)

\* The walk calls go on, and the states differ in their variables only.
LEMMA Calmly ==
    ASSUME NEW s, Len(s) \in Nat, Len(s) >= 1,
           NEW all, \A i \in 1 .. Len(s) : s[i].state \in 1 .. Len(all),
           NEW sc, NEW B, NEW A, Ordered(s, all, sc, B, A),
           NEW t, Goes(s, t), NEW later, Alike(all, later), NEW C, NamedIn(later, C, sc)
    PROVE  Ordered(t, later, sc, C, A)
  <1>1. PICK n, p \in Nat : n = Len(s) /\ p = Len(t) /\ n >= 1 /\ p <= n + 1
    BY DEF Goes
  <1>2. PICK v, w : v = View(s, all) /\ w = View(t, later)
    OBVIOUS
  <1>3. ASSUME NEW i \in 1 .. p
        PROVE  w[i] = v[IF i <= n THEN i ELSE n]
    <2>1. PICK k \in 1 .. n : k = (IF i <= n THEN i ELSE n)
      BY <1>1
    <2>2. t[i].state = s[k].state /\ s[k].state \in 1 .. Len(all)
      BY <1>1, <2>1 DEF Goes
    <2>3. v[k] = [state |-> s[k].state, env |-> all[s[k].state].env, bound |-> all[s[k].state].bound]
      BY <1>1, <1>2 DEF View
    <2>4. w[i] = [state |-> t[i].state, env |-> later[t[i].state].env, bound |-> later[t[i].state].bound]
      BY <1>1, <1>2 DEF View
    <2> QED
      BY <2>1, <2>2, <2>3, <2>4 DEF Alike
  <1>4. Blocks(w, p, sc, A)
    <2>1. Blocks(v, n, sc, A)
      BY <1>1, <1>2 DEF Ordered
    <2> QED
      BY <1>1, <1>3, <2>1, Reframing
  <1>5. ScopesOK(sc, later)
    BY DEF Ordered, ScopesOK, ScopeOK, Alike
  <1>6. FirstsOK(later, sc)
    <2> SUFFICES ASSUME NEW i \in 1 .. Len(later), later[i].first
                 PROVE  /\ later[i].user \in 1 .. Len(sc) /\ sc[later[i].user].giver # 0
                        /\ later[i].env = later[sc[later[i].user].giver].env
      BY DEF FirstsOK, FirstOK
    <2>1. /\ i \in 1 .. Len(all) /\ all[i].first /\ later[i].user = all[i].user
          /\ later[i].env = all[i].env
      BY DEF Alike
    <2>2. PICK u \in 1 .. Len(sc) : /\ u = all[i].user /\ sc[u].giver # 0
                                    /\ all[i].env = all[sc[u].giver].env
      BY <2>1 DEF Ordered, FirstsOK, FirstOK
    <2>3. sc[u].giver \in 1 .. Len(all)
      BY <2>2 DEF Ordered, ScopesOK, ScopeOK
    <2> QED
      BY <2>1, <2>2, <2>3 DEF Alike
  <1> QED
    BY <1>1, <1>2, <1>4, <1>5, <1>6 DEF Ordered

\* A panic that keeps the states all.
LEMMA PanicsOrdered ==
    ASSUME IInv, BInv, stack # <<>>,
           NEW all, Len(all) = Len(states), NEW B, Ordered(stack, all, scopes, B, arrays'),
           NEW m, Keeps(states, arrays', bindings, Len(scopes), m, {State.env}),
           Alike(all, m.states), NamedIn(m.states, m.bindings, scopes),
           Panic(m)
    PROVE  BInv'
  <1>1. PICK w, C : w = m.states /\ C = m.bindings
    OBVIOUS
  <1>2. /\ m = [states |-> w, bindings |-> C]
        /\ MemoryOK(w, arrays', C, Len(scopes)) /\ Len(w) = Len(states)
    BY <1>1 DEF Keeps
  <1>3. scopes' = scopes
    BY DEF Panic
  <1>4. PICK q \in Nat : q = Len(stack) /\ DOMAIN stack = 1 .. q /\ q >= 1 /\ IsSeq(stack)
    BY StackIs
  <1>5. \A i \in 1 .. Len(stack) : stack[i].state \in 1 .. Len(all)
    BY StackIs DEF FrameOK
  <1>6. PICK I : I = {i \in 1 .. q : stack[i].kind = "try"}
    OBVIOUS
  <1>7. PICK t : t = IF I # {} THEN Max(I) ELSE 0
    OBVIOUS
  <1>8. t = SelectLastInSeq(stack, LAMBDA f : f.kind = "try")
    BY <1>4, <1>6, <1>7 DEF SelectLastInSeq
  <1>9. CASE t = 0
    <2>1. PICK s : s = stack'
      OBVIOUS
    <2>2. s = <<>> /\ states' = w /\ bindings' = C
      BY <1>1, <1>8, <1>9, <2>1 DEF Panic, Becomes
    <2>3. Len(s) = 0
      BY <2>2, EmptyIsSeq
    <2>4. Goes(stack, s) /\ KindsOK(s)
      BY <1>4, <2>3 DEF Goes, KindsOK
    <2>5. Ordered(s, w, scopes, C, arrays')
      BY <1>1, <1>4, <1>5, <2>4, Calmly
    <2> QED
      BY <1>3, <2>1, <2>2, <2>4, <2>5 DEF BInv
  <1>10. CASE t # 0
    <2>1. t \in 1 .. q /\ stack[t].kind = "try"
      <3>1. I \subseteq 1 .. q /\ I # {} /\ t = Max(I)
        BY <1>6, <1>7, <1>10
      <3>2. t \in I
        BY <3>1, MaxExists
      <3> QED
        BY <1>6, <3>2
    <2>2. PICK f : f = stack[t]
      OBVIOUS
    <2>3. PICK es : es = <<Binding(f.stmt.vars[1], Exception)>>
      OBVIOUS
    <2>4. PICK u : u = Assigned(m, f.state, es)
      OBVIOUS
    <2>5. /\ stack' = Append(SubSeq(stack, 1, t - 1), Caught(f))
          /\ states' = u.states /\ bindings' = u.bindings
      BY <1>8, <1>10, <2>2, <2>3, <2>4 DEF Panic, Becomes
    <2>6. FrameOK(f, Len(states)) /\ KindOK(f) /\ f.kind = "try"
      BY <1>4, <2>1, <2>2, StackIs DEF BInv, KindsOK
    <2>7. f.state \in 1 .. Len(w) /\ f.stmt \in Instructions /\ f.stmt.op \in Writing
      <3>1. f.stmt \in Instructions \cup {Nothing} /\ f.state \in 1 .. Len(states)
        BY <2>6 DEF FrameOK
      <3>2. f.stmt.op = "try" /\ Nothing.op # "try"
        BY <2>6 DEF KindOK, Nothing
      <3> QED
        BY <1>2, <3>1, <3>2 DEF Writing
    <2>8. Len(es) = 1 /\ es[1].name # "$block"
      <3>1. f.stmt.vars[1] # "$block"
        BY <2>7, VarsAre
      <3> QED
        BY <2>3, <3>1, OneIsSeq DEF Binding
    <2>9. Alike(w, u.states) /\ NamedIn(u.states, u.bindings, scopes)
      <3>1. Len(es) \in 1 .. 2 /\ \A i \in 1 .. Len(es) : es[i].name # "$block"
        BY <2>8
      <3>2. u = Assigned([states |-> w, bindings |-> C], f.state, es)
        BY <1>2, <2>4
      <3>3. MemoryOK(w, arrays', C, Len(scopes)) /\ NamedIn(w, C, scopes)
        BY <1>1, <1>2
      <3> QED
        BY <2>7, <3>1, <3>2, <3>3, AssigningNames
    <2>10. PICK s, c : s = SubSeq(stack, 1, t - 1) /\ c = Caught(f)
      OBVIOUS
    <2>11. IsSeq(s) /\ Len(s) = t - 1 /\ \A i \in 1 .. t - 1 : s[i] = stack[i]
      <3>1. t - 1 \in Nat /\ t - 1 <= Len(stack) /\ IsSeq(stack)
        BY <1>4, <2>1
      <3> QED
        BY <2>10, <3>1, Cutting
    <2>12. PICK z : z = stack' /\ z = Append(s, c)
      BY <2>5, <2>10
    <2>13. Len(z) = t /\ z[t] = c /\ \A i \in 1 .. t - 1 : z[i] = stack[i]
      BY <2>1, <2>11, <2>12, Appending
    <2>14. c.state = f.state /\ c.kind = "list"
      BY <2>10 DEF Caught, Frame
    <2>15. \A i \in 1 .. t : i \in 1 .. t - 1 \/ i = t
      BY <2>1
    <2>16. Goes(stack, z)
      BY <1>4, <2>1, <2>2, <2>13, <2>14, <2>15 DEF Goes
    <2>17. KindsOK(z)
      <3>1. KindOK(c)
        BY <2>14 DEF KindOK
      <3>2. \A i \in 1 .. t - 1 : KindOK(stack[i])
        BY <1>4, <2>1 DEF BInv, KindsOK
      <3> QED
        BY <2>13, <2>15, <3>1, <3>2 DEF KindsOK
    <2>18. Alike(all, u.states)
      BY <1>1, <2>9 DEF Alike
    <2>19. Ordered(z, u.states, scopes, u.bindings, arrays')
      BY <1>4, <1>5, <2>9, <2>16, <2>18, Calmly
    <2> QED
      BY <1>3, <2>5, <2>12, <2>17, <2>19 DEF BInv
  <1> QED
    BY <1>9, <1>10

LEMMA ViewIs ==
    ASSUME NEW s, NEW all, NEW v, v = View(s, all)
    PROVE  \A i \in 1 .. Len(s) : /\ v[i].state = s[i].state /\ v[i].env = all[s[i].state].env
                                  /\ v[i].bound = all[s[i].state].bound
  BY DEF View

\* What the walk calls in progress walk in.
LEMMA ViewFits ==
    ASSUME IInv, stack # <<>>, NEW v, v = View(stack, states), NEW n, n = Len(stack)
    PROVE  /\ n \in Nat /\ n >= 1 /\ v[n].state = Top.state /\ v[n].env = State.env /\ v[n].bound = State.bound
           /\ \A i \in 1 .. n : /\ v[i].state \in 1 .. Len(states) /\ v[i].state = stack[i].state
                                /\ v[i].env = states[v[i].state].env /\ v[i].bound = states[v[i].state].bound
                                /\ v[i].env \in 1 .. Len(scopes) /\ v[i].env \in Nat
                                /\ Fits(arrays, v[i].bound)
  <1>1. /\ n \in Nat /\ n >= 1 /\ Top = stack[n] /\ State = states[Top.state] /\ n \in 1 .. n
        /\ \A i \in 1 .. n : stack[i].state \in 1 .. Len(states)
    <2>1. n \in Nat /\ n >= 1 /\ Top = stack[n] /\ \A i \in 1 .. n : FrameOK(stack[i], Len(states))
      BY StackIs
    <2>2. State = states[Top.state]
      BY TopIs
    <2>3. \A i \in 1 .. n : stack[i].state \in 1 .. Len(states)
      BY <2>1 DEF FrameOK
    <2>4. n \in 1 .. n
      BY <2>1
    <2> QED
      BY <2>1, <2>2, <2>3, <2>4
  <1>2. \A i \in 1 .. n : /\ v[i].state = stack[i].state /\ v[i].env = states[stack[i].state].env
                          /\ v[i].bound = states[stack[i].state].bound
    BY ViewIs
  <1>3. ASSUME NEW i \in 1 .. n
        PROVE  /\ states[stack[i].state].env \in 1 .. Len(scopes)
               /\ Fits(arrays, states[stack[i].state].bound)
    BY <1>1 DEF IInv, MemoryOK, Fine
  <1> QED
    BY <1>1, <1>2, <1>3

\* The state on top goes on with the slice x of blocks.
LEMMA Rebound ==
    ASSUME IInv, stack # <<>>, NEW x, NEW w, w = [states EXCEPT ![Top.state].bound = x]
    PROVE  /\ IsSeq(w) /\ Len(w) = Len(states)
           /\ \A i \in 1 .. Len(states) :
                 /\ w[i].bound = IF i = Top.state THEN x ELSE states[i].bound
                 /\ w[i].vars = states[i].vars /\ w[i].env = states[i].env
                 /\ w[i].user = states[i].user /\ w[i].first = states[i].first
  <1>1. PICK n \in Nat : n = Len(states) /\ DOMAIN states = 1 .. n
    BY TopIs
  <1>2. \A i \in 1 .. n : IsState(states[i])
    BY <1>1 DEF IInv, MemoryOK, Fine
  <1>3. /\ w = [i \in 1 .. n |-> w[i]]
        /\ \A i \in 1 .. n : w[i] = IF i = Top.state THEN [states[i] EXCEPT !.bound = x] ELSE states[i]
    BY <1>1
  <1>4. IsSeq(w) /\ Len(w) = n
    BY <1>3, FunctionIsSeq
  <1>5. ASSUME NEW i \in 1 .. n
        PROVE  /\ w[i].bound = IF i = Top.state THEN x ELSE states[i].bound
               /\ w[i].vars = states[i].vars /\ w[i].env = states[i].env
               /\ w[i].user = states[i].user /\ w[i].first = states[i].first
    <2>1. PICK y, z : y = w[i] /\ z = states[i]
      OBVIOUS
    <2>2. IsState(z) /\ y = IF i = Top.state THEN [z EXCEPT !.bound = x] ELSE z
      BY <1>2, <1>3, <2>1
    <2>3. /\ y.bound = IF i = Top.state THEN x ELSE z.bound
          /\ y.vars = z.vars /\ y.env = z.env /\ y.user = z.user /\ y.first = z.first
      BY <2>2 DEF IsState
    <2> QED
      BY <2>1, <2>3
  <1> QED
    BY <1>1, <1>4, <1>5

\* States that keep their scopes, users and variables keep what is theirs.
LEMMA KeptBy ==
    ASSUME NEW all, NEW sc, NEW B, ScopesOK(sc, all), FirstsOK(all, sc), NamedIn(all, B, sc),
           NEW w, Len(w) = Len(all),
           \A i \in 1 .. Len(all) : /\ w[i].vars = all[i].vars /\ w[i].env = all[i].env
                                    /\ w[i].user = all[i].user /\ w[i].first = all[i].first
    PROVE  ScopesOK(sc, w) /\ FirstsOK(w, sc) /\ NamedIn(w, B, sc)
  <1>1. ScopesOK(sc, w)
    BY DEF ScopesOK, ScopeOK
  <1>2. NamedIn(w, B, sc)
    BY DEF NamedIn
  <1>3. FirstsOK(w, sc)
    <2> SUFFICES ASSUME NEW i \in 1 .. Len(w), w[i].first
                 PROVE  /\ w[i].user \in 1 .. Len(sc) /\ sc[w[i].user].giver # 0
                        /\ w[i].env = w[sc[w[i].user].giver].env
      BY DEF FirstsOK, FirstOK
    <2>1. PICK u \in 1 .. Len(sc) : /\ u = all[i].user /\ sc[u].giver # 0
                                    /\ all[i].env = all[sc[u].giver].env
      BY DEF FirstsOK, FirstOK
    <2>2. sc[u].giver \in 1 .. Len(all)
      BY <2>1 DEF ScopesOK, ScopeOK
    <2> QED
      BY <2>1, <2>2
  <1> QED
    BY <1>1, <1>2, <1>3

LEMMA OrderedBy ==
    ASSUME NEW s, NEW all, NEW sc, NEW B, NEW A, Ordered(s, all, sc, B, A),
           NEW w, Len(w) = Len(all),
           \A i \in 1 .. Len(all) : /\ w[i].vars = all[i].vars /\ w[i].env = all[i].env
                                    /\ w[i].user = all[i].user /\ w[i].first = all[i].first,
           NEW C, Blocks(View(s, w), Len(s), sc, C)
    PROVE  Ordered(s, w, sc, B, C)
  <1>1. ScopesOK(sc, all) /\ FirstsOK(all, sc) /\ NamedIn(all, B, sc)
    BY DEF Ordered
  <1> QED
    BY <1>1, KeptBy DEF Ordered

\* No mixin that waits for a block has one of the name that is frozen.
LEMMA FrozenOrdered ==
    ASSUME IInv, BInv, Orderly, Ready("call"),
           NEW A, A = Frozen.heap, NEW x, x = Frozen.slice,
           NEW w, w = [states EXCEPT ![Top.state].bound = x]
    PROVE  /\ Ordered(stack, w, scopes, bindings, A)
           /\ \A i \in 1 .. Len(stack) : LET e == scopes[states[stack[i].state].env] IN
                 ~e.used /\ e.block # Null => e.block # Instr.value
           /\ Instr.value # Null =>
                 /\ x.arr # 0 /\ x.len \in Nat /\ x.len >= 1
                 /\ A[x.arr][x.len] = [name |-> Instr.value, scope |-> Top.state]
  <1>1. Walking /\ stack # <<>>
    BY InstrIs DEF Ready
  <1>2. PICK n : n = Len(stack)
    OBVIOUS
  <1>3. PICK v, u : v = View(stack, states) /\ u = View(stack, w)
    OBVIOUS
  <1>4. /\ n \in Nat /\ n >= 1 /\ v[n].state = Top.state /\ v[n].env = State.env /\ v[n].bound = State.bound
        /\ \A i \in 1 .. n : /\ v[i].state \in 1 .. Len(states) /\ v[i].state = stack[i].state
                             /\ v[i].env = states[v[i].state].env /\ v[i].bound = states[v[i].state].bound
                             /\ v[i].env \in 1 .. Len(scopes) /\ v[i].env \in Nat
                             /\ Fits(arrays, v[i].bound)
    BY <1>1, <1>2, <1>3, ViewFits
  <1>5. /\ Len(w) = Len(states)
        /\ \A i \in 1 .. Len(states) :
                 /\ w[i].bound = IF i = Top.state THEN x ELSE states[i].bound
                 /\ w[i].vars = states[i].vars /\ w[i].env = states[i].env
                 /\ w[i].user = states[i].user /\ w[i].first = states[i].first
    BY <1>1, Rebound
  <1>6. \A i \in 1 .. n : /\ u[i].state = stack[i].state /\ u[i].env = w[stack[i].state].env
                          /\ u[i].bound = w[stack[i].state].bound
    <2>1. u = View(stack, w)
      BY <1>3
    <2> QED
      BY <1>2, <2>1 DEF View
  <1>7. \A i \in 1 .. n : /\ u[i].state = v[i].state /\ u[i].env = v[i].env
                          /\ u[i].bound = IF v[i].state = v[n].state THEN x ELSE v[i].bound
    BY <1>4, <1>5, <1>6
  <1>8. Blocks(v, n, scopes, arrays) /\ Heap(arrays)
    BY <1>2, <1>3 DEF BInv, Ordered, IInv, MemoryOK
  <1>9. \A i \in 1 .. n : v[i].state = v[n].state => v[i].bound = v[n].bound
    BY <1>4
  <1>10. /\ Blocks(u, n, scopes, A)
         /\ \A i \in 1 .. n : Waits(v[i].env, scopes) => scopes[v[i].env].block # Instr.value
         /\ Instr.value # Null =>
                 /\ x.arr # 0 /\ x.len \in Nat /\ x.len >= 1
                 /\ A[x.arr][x.len] = [name |-> Instr.value, scope |-> Top.state]
    <2>1. CASE Instr.value = Null
      <3>1. A = arrays /\ x = State.bound
        BY <2>1 DEF Frozen
      <3>2. \A i \in 1 .. n : u[i].bound = v[i].bound
        BY <1>4, <1>7, <1>9, <3>1
      <3>3. u = v
        <4>1. u = [i \in 1 .. n |-> [state |-> stack[i].state, env |-> w[stack[i].state].env,
                                     bound |-> w[stack[i].state].bound]]
          BY <1>2, <1>3 DEF View
        <4>2. v = [i \in 1 .. n |-> [state |-> stack[i].state, env |-> states[stack[i].state].env,
                                     bound |-> states[stack[i].state].bound]]
          BY <1>2, <1>3 DEF View
        <4>3. \A i \in 1 .. n : /\ w[stack[i].state].env = states[stack[i].state].env
                                /\ w[stack[i].state].bound = states[stack[i].state].bound
          BY <1>4, <1>6, <1>7, <3>2
        <4> QED
          BY <4>1, <4>2, <4>3
      <3> QED
        BY <1>8, <2>1, <3>1, <3>3 DEF Waits
    <2>2. CASE Instr.value # Null
      <3>1. PICK e, b : e = [name |-> Instr.value, scope |-> Top.state] /\ b = Instr.value
        OBVIOUS
      <3>2. PICK r : r = Frozen
        OBVIOUS
      <3>3. r = Appended(arrays, v[n].bound, <<e>>, NoEntry)
        BY <1>4, <2>2, <3>1, <3>2 DEF Frozen
      <3>4. A = r.heap /\ x = r.slice /\ e.name = b
        BY <3>1, <3>2
      <3>5. \A i \in 1 .. n : Waits(v[i].env, scopes) => scopes[v[i].env].block # b
        <4>1. \A i \in DOMAIN stack : LET d == scopes[states[stack[i].state].env] IN
                                         d.used \/ d.block # Instr.value
          BY <2>2 DEF Orderly
        <4>2. DOMAIN stack = 1 .. n
          BY <1>1, <1>2, StackIs
        <4> QED
          BY <1>4, <3>1, <4>1, <4>2 DEF Waits
      <3>6. \A i \in 1 .. n : Fits(arrays, v[i].bound)
        BY <1>4
      <3>7. /\ Blocks(u, n, scopes, r.heap)
            /\ r.slice.arr # 0 /\ r.slice.len \in Nat /\ r.slice.len >= 1
            /\ r.heap[r.slice.arr][r.slice.len] = e
        <4>1. \A i \in 1 .. n : /\ u[i].state = v[i].state /\ u[i].env = v[i].env
                                /\ u[i].bound = IF v[i].state = v[n].state THEN r.slice ELSE v[i].bound
          BY <1>7, <3>4
        <4>2. n \in Nat /\ n >= 1 /\ e.name = b
          BY <1>4, <3>4
        <4>3. PICK sc, D : sc = scopes /\ D = arrays
          OBVIOUS
        <4>4. /\ Blocks(v, n, sc, D) /\ Heap(D) /\ \A i \in 1 .. n : Fits(D, v[i].bound)
              /\ \A i \in 1 .. n : Waits(v[i].env, sc) => sc[v[i].env].block # b
              /\ r = Appended(D, v[n].bound, <<e>>, NoEntry)
          BY <1>8, <3>3, <3>5, <3>6, <4>3
        <4>5. /\ Blocks(u, n, sc, r.heap)
              /\ r.slice.arr # 0 /\ r.slice.len \in Nat /\ r.slice.len >= 1
              /\ r.heap[r.slice.arr][r.slice.len] = e
          BY <1>9, <4>1, <4>2, <4>4, FreezingBlocks
        <4> QED
          BY <4>3, <4>5
      <3> QED
        BY <2>2, <3>1, <3>4, <3>5, <3>7
    <2> QED
      BY <2>1, <2>2
  <1>11. Ordered(stack, w, scopes, bindings, A)
    <2>1. PICK all, q : all = states /\ q = w
      OBVIOUS
    <2>2. Ordered(stack, all, scopes, bindings, arrays)
      BY <2>1 DEF BInv
    <2>3. Blocks(View(stack, q), Len(stack), scopes, A)
      BY <1>2, <1>3, <1>10, <2>1
    <2>4. Len(q) = Len(all)
      BY <1>5, <2>1
    <2>5. \A i \in 1 .. Len(all) : /\ q[i].vars = all[i].vars /\ q[i].env = all[i].env
                                   /\ q[i].user = all[i].user /\ q[i].first = all[i].first
      BY <1>5, <2>1
    <2>6. Ordered(stack, q, scopes, bindings, A)
      BY <2>2, <2>3, <2>4, <2>5, OrderedBy
    <2> QED
      BY <2>1, <2>6
  <1> QED
    BY <1>2, <1>4, <1>10, <1>11 DEF Waits

-----------------------------------------------------------------------------
(* The steps of walk, and the blocks.                                      *)

LEMMA Calm ==
    ASSUME IInv, BInv, stack # <<>>, UNCHANGED <<scopes, arrays>>,
           Goes(stack, stack'), KindsOK(stack'),
           Alike(states, states'), NamedIn(states', bindings', scopes)
    PROVE  BInv'
  <1>1. PICK s, t, all, later, C : s = stack /\ t = stack' /\ all = states /\ later = states' /\ C = bindings'
    OBVIOUS
  <1>2. /\ Len(s) \in Nat /\ Len(s) >= 1 /\ \A i \in 1 .. Len(s) : s[i].state \in 1 .. Len(all)
    BY <1>1, StackIs DEF FrameOK
  <1>3. Ordered(s, all, scopes, bindings, arrays) /\ Goes(s, t) /\ Alike(all, later) /\ NamedIn(later, C, scopes)
    BY <1>1 DEF BInv
  <1>4. Ordered(t, later, scopes, C, arrays)
    BY <1>2, <1>3, Calmly
  <1> QED
    BY <1>1, <1>4 DEF BInv

LEMMA Plain ==
    ASSUME IInv, BInv, stack # <<>>, UNCHANGED <<states, scopes, arrays, bindings>>,
           Goes(stack, stack'), KindsOK(stack')
    PROVE  BInv'
  <1>1. Alike(states, states') /\ NamedIn(states', bindings', scopes)
    BY AlikeItself DEF BInv, Ordered
  <1> QED
    BY <1>1, Calm

LEMMA AssignedNames ==
    ASSUME IInv, BInv, stack # <<>>, NEW es, Len(es) \in 1 .. 2,
           \A i \in 1 .. Len(es) : es[i].name # "$block",
           NEW q, q = Assigned(Memory, Top.state, es)
    PROVE  Alike(states, q.states) /\ NamedIn(q.states, q.bindings, scopes)
  <1>1. MemoryOK(states, arrays, bindings, Len(scopes)) /\ NamedIn(states, bindings, scopes)
    BY DEF IInv, BInv, Ordered
  <1>2. Top.state \in 1 .. Len(states) /\ q = Assigned([states |-> states, bindings |-> bindings], Top.state, es)
    BY TopIs DEF Memory
  <1> QED
    BY <1>1, <1>2, AssigningNames

LEMMA EvaluatedNames ==
    ASSUME IInv, BInv, Walking, Instr.op \in Writing, NEW v, NEW q, q = Evaluated(v)
    PROVE  Alike(states, q.states) /\ NamedIn(q.states, q.bindings, scopes)
  <1>1. PICK xs : xs = Declared(v)
    OBVIOUS
  <1>2. PICK i : i = Instr
    OBVIOUS
  <1>3. PICK n \in Nat : n = Len(i.vars) /\ DOMAIN i.vars = 1 .. n /\ \A j \in 1 .. n : i.vars[j] # "$block"
    <2>1. i \in Instructions /\ i.op \in Writing
      BY <1>2, InstrIs
    <2>2. IsSeq(i.vars) /\ Len(i.vars) \in Nat /\ \A j \in 1 .. Len(i.vars) : i.vars[j] # "$block"
      BY <2>1, VarsAre
    <2>3. DOMAIN i.vars = 1 .. Len(i.vars)
      BY <2>2, SeqBasics
    <2> QED
      BY <2>2, <2>3
  <1>4. xs = [j \in 1 .. n |-> Binding(i.vars[j], v)]
    BY <1>1, <1>2, <1>3 DEF Declared
  <1>5. IsSeq(xs) /\ Len(xs) = n
    <2>1. xs = [j \in 1 .. n |-> xs[j]]
      BY <1>4
    <2> QED
      BY <2>1, FunctionIsSeq
  <1>6. \A j \in 1 .. Len(xs) : xs[j].name # "$block"
    BY <1>3, <1>4, <1>5 DEF Binding
  <1>7. PICK r : r = Appended(bindings, State.vars, xs, Unbound)
    OBVIOUS
  <1>8. q = Stored([states |-> states, bindings |-> bindings], Top.state, r, xs)
    BY <1>1, <1>7 DEF Evaluated, Memory
  <1>9. /\ MemoryOK(states, arrays, bindings, Len(scopes)) /\ Heap(bindings)
        /\ Top.state \in 1 .. Len(states) /\ State = states[Top.state]
        /\ Fits(bindings, State.vars)
    BY TopIs, InstrIs DEF IInv, MemoryOK, Fine
  <1>10. Written(bindings, states[Top.state].vars, r.heap, r.slice)
    BY <1>5, <1>7, <1>9, AppendedWrites
  <1>11. Saves(bindings, states[Top.state].vars, r.heap, r.slice)
    BY <1>5, <1>6, <1>7, <1>9, AppendSaves
  <1>12. NamedIn(states, bindings, scopes)
    BY DEF BInv, Ordered
  <1> QED
    BY <1>8, <1>9, <1>10, <1>11, <1>12, StoringNames

\* The walk calls that start and keep the state.
LEMMA EntersOn ==
    ASSUME IInv, BInv, Walking, NEW kind, NEW list, NEW i, NEW xs,
           Enter(Frame(Top.state, kind, list, i, xs)),
           kind = "range" => i.op \in {"range", "forin"}, kind = "try" => i.op = "try"
    PROVE  Goes(stack, stack') /\ KindsOK(stack')
  <1>1. PICK f : f = Frame(Top.state, kind, list, i, xs)
    OBVIOUS
  <1>2. Enter(f) /\ f.state = Top.state /\ KindOK(f)
    BY <1>1 DEF Frame, KindOK
  <1>3. KindsOK(stack) /\ stack # <<>>
    BY InstrIs DEF BInv
  <1> QED
    BY <1>2, <1>3, GoesBy

LEMMA PlainBlocks ==
    ASSUME IInv, BInv,
           \/ Prints \/ walkIfOrWith \/ walkTry \/ Ends \/ RangeEnds \/ Puts
           \/ walkWhile \/ WhileGoesOn \/ UseNoBlock
    PROVE  BInv'
  <1>1. KindsOK(stack)
    BY DEF BInv
  <1>2. ASSUME Walking, stack' = Advanced, UNCHANGED <<states, scopes, arrays, bindings>>
        PROVE  BInv'
    <2>1. Goes(stack, stack') /\ KindsOK(stack') /\ stack # <<>>
      BY <1>1, <1>2, GoesBy, InstrIs
    <2> QED
      BY <1>2, <2>1, Plain
  <1>3. ASSUME stack # <<>>, Leave, UNCHANGED <<states, scopes, arrays, bindings>>
        PROVE  BInv'
    <2>1. Goes(stack, stack') /\ KindsOK(stack')
      BY <1>1, <1>3, GoesBy
    <2> QED
      BY <1>3, <2>1, Plain
  <1>4. CASE Prints
    BY <1>2, <1>4 DEF Prints, Ready
  <1>5. CASE Puts
    BY <1>2, <1>5 DEF Puts, Ready
  <1>6. CASE UseNoBlock
    BY <1>2, <1>6 DEF UseNoBlock, Ready
  <1>7. CASE Ends
    BY <1>3, <1>7 DEF Ends
  <1>8. CASE RangeEnds
    BY <1>3, <1>8 DEF RangeEnds, InLoop
  <1>9. CASE walkIfOrWith
    <2>1. PICK list \in {Instr.list, Instr.else} : Enter(Frame(Top.state, "list", list, Nothing, <<>>))
      BY <1>9 DEF walkIfOrWith
    <2>2. Walking /\ UNCHANGED <<states, scopes, arrays, bindings>>
      BY <1>9 DEF walkIfOrWith, Ready
    <2>3. Goes(stack, stack') /\ KindsOK(stack') /\ stack # <<>>
      BY <2>1, <2>2, EntersOn, InstrIs
    <2> QED
      BY <2>2, <2>3, Plain
  <1>10. CASE walkTry
    <2>1. Enter(Frame(Top.state, "try", Instr.list, Instr, <<>>)) /\ Instr.op = "try"
      BY <1>10 DEF walkTry, Ready
    <2>2. Walking /\ UNCHANGED <<states, scopes, arrays, bindings>>
      BY <1>10 DEF walkTry, Ready
    <2>3. Goes(stack, stack') /\ KindsOK(stack') /\ stack # <<>>
      BY <2>1, <2>2, EntersOn, InstrIs
    <2> QED
      BY <2>2, <2>3, Plain
  <1>11. CASE walkWhile
    <2>1. Walking /\ UNCHANGED <<states, scopes, arrays, bindings>>
      BY <1>11 DEF walkWhile, Ready
    <2>2. CASE Enter(Frame(Top.state, "while", Instr.list, Instr, <<>>))
      <3>1. Goes(stack, stack') /\ KindsOK(stack') /\ stack # <<>>
        BY <2>1, <2>2, EntersOn, InstrIs
      <3> QED
        BY <2>1, <3>1, Plain
    <2>3. CASE stack' = Advanced
      BY <1>2, <2>1, <2>3
    <2> QED
      BY <1>11, <2>2, <2>3 DEF walkWhile
  <1>12. CASE WhileGoesOn
    <2>1. /\ stack # <<>> /\ UNCHANGED <<states, scopes, arrays, bindings>>
          /\ \/ stack' = [stack EXCEPT ![Len(stack)].todo = Top.stmt.list, ![Len(stack)].n = Iterations]
             \/ Leave
      BY <1>12 DEF WhileGoesOn, InLoop
    <2>2. Goes(stack, stack') /\ KindsOK(stack')
      BY <1>1, <2>1, GoesBy
    <2> QED
      BY <2>1, <2>2, Plain
  <1> QED
    BY <1>4, <1>5, <1>6, <1>7, <1>8, <1>9, <1>10, <1>11, <1>12

LEMMA ElementNames ==
    ASSUME IInv, BInv, InLoop("range"), NEW x, NEW es, es = Element(x)
    PROVE  Len(es) \in 1 .. 2 /\ \A j \in 1 .. Len(es) : es[j].name # "$block"
  <1>1. PICK i : i = Top.stmt
    OBVIOUS
  <1>2. i \in Instructions /\ i.op \in Writing
    <2>1. FrameOK(Top, Len(states)) /\ Top = stack[Len(stack)] /\ Len(stack) \in 1 .. Len(stack)
      BY StackIs DEF InLoop
    <2>2. KindOK(Top)
      BY <2>1 DEF BInv, KindsOK
    <2>3. i \in Instructions \cup {Nothing} /\ i.op \in {"range", "forin"}
      BY <1>1, <2>1, <2>2 DEF FrameOK, KindOK, InLoop
    <2>4. Nothing.op = "print"
      BY DEF Nothing
    <2> QED
      BY <2>3, <2>4 DEF Writing
  <1>3. Len(i.vars) \in Nat /\ Len(i.vars) >= 1 /\ \A j \in 1 .. Len(i.vars) : i.vars[j] # "$block"
    BY <1>2, VarsAre
  <1>4. PICK a, b : a = i.vars[1] /\ b = i.vars[2]
    OBVIOUS
  <1>5. a # "$block" /\ (Len(i.vars) = 2 => b # "$block")
    <2>1. 1 \in 1 .. Len(i.vars) /\ (Len(i.vars) = 2 => 2 \in 1 .. Len(i.vars))
      BY <1>3
    <2> QED
      BY <1>3, <1>4, <2>1
  <1>6. PICK c, d, e : c = Binding(a, Index) /\ d = Binding(b, x) /\ e = Binding(a, x)
    OBVIOUS
  <1>7. c.name = a /\ d.name = b /\ e.name = a
    BY <1>6 DEF Binding
  <1>8. CASE Len(i.vars) = 2
    <2>1. es = <<c, d>>
      BY <1>1, <1>4, <1>6, <1>8 DEF Element
    <2>2. Len(es) = 2 /\ es[1] = c /\ es[2] = d
      BY <2>1
    <2>3. \A j \in 1 .. 2 : j = 1 \/ j = 2
      OBVIOUS
    <2> QED
      BY <1>7, <1>8, <1>5, <2>2, <2>3
  <1>9. CASE Len(i.vars) # 2
    <2>1. es = <<e>>
      BY <1>1, <1>4, <1>6, <1>9 DEF Element
    <2>2. Len(es) = 1 /\ es[1] = e
      BY <2>1, OneIsSeq
    <2>3. \A j \in 1 .. 1 : j = 1
      OBVIOUS
    <2> QED
      BY <1>7, <1>5, <2>2, <2>3
  <1> QED
    BY <1>8, <1>9

LEMMA NamingBlocks ==
    ASSUME IInv, BInv, Sets \/ oneIteration \/ walkRange \/ RangeNothing \/ ForKeys
    PROVE  BInv'
  <1>1. KindsOK(stack)
    BY DEF BInv
  <1>2. ASSUME Walking, Instr.op \in {"range", "forin"}, UNCHANGED <<scopes, arrays>>,
               NEW v, Becomes(Evaluated(v)),
               \/ stack' = Advanced
               \/ \E xs : Enter(Frame(Top.state, "range", <<>>, Instr, xs))
        PROVE  BInv'
    <2>1. PICK q : q = Evaluated(v)
      OBVIOUS
    <2>2. Alike(states, q.states) /\ NamedIn(q.states, q.bindings, scopes)
      BY <1>2, <2>1, EvaluatedNames DEF Writing
    <2>3. states' = q.states /\ bindings' = q.bindings /\ stack # <<>>
      BY <1>2, <2>1, InstrIs DEF Becomes
    <2>4. Goes(stack, stack') /\ KindsOK(stack')
      <3>1. CASE stack' = Advanced
        BY <1>1, <1>2, <2>3, <3>1, GoesBy
      <3>2. ASSUME NEW xs, Enter(Frame(Top.state, "range", <<>>, Instr, xs))
            PROVE  Goes(stack, stack') /\ KindsOK(stack')
        BY <1>2, <3>2, EntersOn
      <3> QED
        BY <1>2, <3>1, <3>2
    <2> QED
      BY <1>2, <2>2, <2>3, <2>4, Calm
  <1>3. CASE walkRange
    BY <1>2, <1>3 DEF walkRange, Ready
  <1>4. CASE RangeNothing
    BY <1>2, <1>4 DEF RangeNothing, Ready
  <1>5. CASE ForKeys
    BY <1>2, <1>5 DEF ForKeys, Ready
  <1>6. CASE Sets
    <2>1. PICK i : i = Instr
      OBVIOUS
    <2>2. PICK es : es = <<Binding(i.vars[1], i.value)>>
      OBVIOUS
    <2>3. /\ Walking /\ stack' = Advanced /\ Becomes(Assigned(Memory, Top.state, es))
          /\ UNCHANGED <<scopes, arrays>> /\ i.op = "set" /\ i \in Instructions /\ stack # <<>>
      BY <1>6, <2>1, <2>2, InstrIs DEF Sets, Ready
    <2>4. i.vars[1] # "$block"
      BY <2>3, VarsAre DEF Writing
    <2>5. Len(es) \in 1 .. 2 /\ \A j \in 1 .. Len(es) : es[j].name # "$block"
      <3>1. Len(es) = 1 /\ es[1].name = i.vars[1]
        BY <2>2, OneIsSeq DEF Binding
      <3> QED
        BY <2>4, <3>1
    <2>6. PICK q : q = Assigned(Memory, Top.state, es)
      OBVIOUS
    <2>7. Alike(states, q.states) /\ NamedIn(q.states, q.bindings, scopes)
      BY <2>3, <2>5, <2>6, AssignedNames
    <2>8. states' = q.states /\ bindings' = q.bindings
      BY <2>3, <2>6 DEF Becomes
    <2>9. Goes(stack, stack') /\ KindsOK(stack')
      BY <1>1, <2>3, GoesBy
    <2> QED
      BY <2>3, <2>7, <2>8, <2>9, Calm
  <1>7. CASE oneIteration
    <2>1. PICK es : es = Element(Head(Top.items))
      OBVIOUS
    <2>2. /\ stack # <<>> /\ InLoop("range") /\ Becomes(Assigned(Memory, Top.state, es))
          /\ stack' = [stack EXCEPT ![Len(stack)].todo = Top.stmt.list, ![Len(stack)].items = Tail(@)]
          /\ UNCHANGED <<scopes, arrays>>
      BY <1>7, <2>1 DEF oneIteration, InLoop
    <2>3. Len(es) \in 1 .. 2 /\ \A j \in 1 .. Len(es) : es[j].name # "$block"
      BY <2>1, <2>2, ElementNames
    <2>4. PICK q : q = Assigned(Memory, Top.state, es)
      OBVIOUS
    <2>5. Alike(states, q.states) /\ NamedIn(q.states, q.bindings, scopes)
      BY <2>2, <2>3, <2>4, AssignedNames
    <2>6. states' = q.states /\ bindings' = q.bindings
      BY <2>2, <2>4 DEF Becomes
    <2>7. Goes(stack, stack') /\ KindsOK(stack')
      BY <1>1, <2>2, GoesBy
    <2> QED
      BY <2>2, <2>5, <2>6, <2>7, Calm
  <1> QED
    BY <1>3, <1>4, <1>5, <1>6, <1>7

LEMMA PanicBlocks ==
    ASSUME IInv, BInv, Orderly, Fails \/ CannotRange \/ WhileTooLong \/ CallTooDeep \/ BlockTooDeep
    PROVE  BInv'
  <1>1. Ordered(stack, states, scopes, bindings, arrays) /\ NamedIn(states, bindings, scopes)
    BY DEF BInv, Ordered
  <1>2. ASSUME stack # <<>>, UNCHANGED arrays, Panic(Memory)
        PROVE  BInv'
    <2>1. Keeps(states, arrays', bindings, Len(scopes), Memory, {State.env})
      BY <1>2, KeepsItself, AsideMore
    <2>2. Alike(states, Memory.states) /\ NamedIn(Memory.states, Memory.bindings, scopes)
      BY <1>1, AlikeItself DEF Memory
    <2> QED
      BY <1>1, <1>2, <2>1, <2>2, PanicsOrdered
  <1>3. CASE Fails
    BY <1>2, <1>3, InstrIs DEF Fails, Ready
  <1>4. CASE WhileTooLong
    BY <1>2, <1>4 DEF WhileTooLong, InLoop
  <1>5. CASE BlockTooDeep
    BY <1>2, <1>5, InstrIs DEF BlockTooDeep, Ready
  <1>6. CASE CannotRange
    <2>1. PICK m : m = Evaluated(RangeValue)
      OBVIOUS
    <2>2. Walking /\ UNCHANGED arrays /\ Panic(m) /\ Instr.op = "range" /\ stack # <<>>
      BY <1>6, <2>1, InstrIs DEF CannotRange, Ready, Panic
    <2>3. Keeps(states, arrays', bindings, Len(scopes), m, {State.env})
      BY <2>1, <2>2, EvaluatedIs
    <2>4. Alike(states, m.states) /\ NamedIn(m.states, m.bindings, scopes)
      BY <2>1, <2>2, EvaluatedNames DEF Writing
    <2> QED
      BY <1>1, <2>2, <2>3, <2>4, PanicsOrdered
  <1>7. CASE CallTooDeep
    <2>1. PICK A, x : A = Frozen.heap /\ x = Frozen.slice
      OBVIOUS
    <2>2. PICK w : w = [states EXCEPT ![Top.state].bound = x]
      OBVIOUS
    <2>3. PICK m : m = [states |-> w, bindings |-> bindings]
      OBVIOUS
    <2>4. m = [Memory EXCEPT !.states = Freezes(@)]
      BY <2>1, <2>2, <2>3 DEF Memory, Freezes
    <2>5. Walking /\ Ready("call") /\ arrays' = A /\ Panic(m) /\ stack # <<>>
      BY <1>7, <2>1, <2>4, InstrIs DEF CallTooDeep, Ready, Panic
    <2>6. Moved(arrays, A, Len(states)) /\ Fits(A, x) /\ Live(A, x, Len(states))
      BY <2>1, <2>5, FrozenIs
    <2>7. Keeps(states, A, bindings, Len(scopes), m, {})
      BY <2>2, <2>3, <2>5, <2>6, KeepsFrozen
    <2>8. Keeps(states, arrays', bindings, Len(scopes), m, {State.env})
      BY <2>5, <2>7, AsideMore
    <2>9. Ordered(stack, w, scopes, bindings, A)
      BY <2>1, <2>2, <2>5, FrozenOrdered
    <2>10. Len(w) = Len(states)
      BY <2>2, <2>5, Rebound
    <2>11. Alike(w, m.states) /\ NamedIn(m.states, m.bindings, scopes)
      BY <2>3, <2>9, AlikeItself DEF Ordered
    <2> QED
      BY <2>5, <2>8, <2>9, <2>10, <2>11, PanicsOrdered
  <1> QED
    BY <1>3, <1>4, <1>5, <1>6, <1>7

LEMMA UndefinedBlocks ==
    ASSUME IInv, BInv, Orderly, CallUndefined
    PROVE  BInv'
  <1>1. PICK A, x : A = Frozen.heap /\ x = Frozen.slice
    OBVIOUS
  <1>2. PICK w : w = [states EXCEPT ![Top.state].bound = x]
    OBVIOUS
  <1>3. /\ Walking /\ Ready("call") /\ arrays' = A /\ states' = w /\ stack' = Advanced
        /\ UNCHANGED <<scopes, bindings>> /\ stack # <<>>
    BY <1>1, <1>2, InstrIs DEF CallUndefined, Ready, Freezes
  <1>4. Ordered(stack, w, scopes, bindings, A) /\ Len(w) = Len(states)
    BY <1>1, <1>2, <1>3, FrozenOrdered, Rebound
  <1>5. PICK s, t : s = stack /\ t = stack'
    OBVIOUS
  <1>6. Goes(s, t) /\ KindsOK(t)
    BY <1>3, <1>5, GoesBy DEF BInv
  <1>7. /\ Len(s) \in Nat /\ Len(s) >= 1 /\ \A i \in 1 .. Len(s) : s[i].state \in 1 .. Len(w)
    BY <1>3, <1>4, <1>5, StackIs DEF FrameOK
  <1>8. Alike(w, w) /\ NamedIn(w, bindings, scopes) /\ Ordered(s, w, scopes, bindings, A)
    BY <1>4, <1>5, AlikeItself DEF Ordered
  <1>9. Ordered(t, w, scopes, bindings, A)
    BY <1>6, <1>7, <1>8, Calmly
  <1> QED
    BY <1>3, <1>5, <1>6, <1>9 DEF BInv

-----------------------------------------------------------------------------
(* The templates that are entered, and the blocks.                         *)

LEMMA GlobalsNoBlock ==
    IsSeq(Globals) /\ Len(Globals) \in Nat /\ \A i \in 1 .. Len(Globals) : Globals[i].name # "$block"
  <1>1. Globals \in Seq(ToSet(Globals))
    BY GlobalsType
  <1>2. Len(Globals) \in Nat /\ DOMAIN Globals = 1 .. Len(Globals)
    BY <1>1
  <1>3. \A i \in 1 .. Len(Globals) : Globals[i] \in ToSet(Globals)
    BY <1>2 DEF ToSet
  <1>4. "$block" \notin {g.name : g \in ToSet(Globals)}
    BY BlockVariable
  <1> QED
    BY <1>1, <1>2, <1>3, <1>4 DEF IsSeq

\* The arguments of a call give the name of the block.
LEMMA ArgumentsNamed ==
    ASSUME NEW B, Heap(B), NEW s, Fits(B, s), Without(B, s), NEW b,
           NEW r, r = setVarValues(B, s, Arguments(b))
    PROVE  Mine(r.heap, r.slice, b)
  <1>1. PICK e, f, x : e = Binding("$attributes", Null) /\ f = Binding("$__args__", Null) /\ x = Binding("$block", b)
    OBVIOUS
  <1>2. e.name # "$block" /\ f.name # "$block" /\ x.name = "$block" /\ x.value = b
    BY <1>1 DEF Binding
  <1>3. PICK m : m = [heap |-> B, slice |-> s]
    OBVIOUS
  <1>4. PICK one, two, three : one = setVarValue(m, e) /\ two = setVarValue(one, f) /\ three = setVarValue(two, x)
    OBVIOUS
  <1>5. r = three
    <2>1. Arguments(b) = <<e, f, x>>
      BY <1>1 DEF Arguments
    <2>2. Len(<<e, f, x>>) = 3 /\ <<e, f, x>>[1] = e /\ <<e, f, x>>[2] = f /\ <<e, f, x>>[3] = x
      OBVIOUS
    <2> QED
      BY <1>3, <1>4, <2>1, <2>2 DEF setVarValues
  <1>6. Written(B, s, one.heap, one.slice) /\ one = [heap |-> one.heap, slice |-> one.slice]
    BY <1>3, <1>4, OneWrites
  <1>7. Saves(B, s, one.heap, one.slice)
    BY <1>2, <1>3, <1>4, OneSaves
  <1>8. Heap(one.heap) /\ Fits(one.heap, one.slice) /\ Without(one.heap, one.slice)
    BY <1>6, <1>7 DEF Written, Grown, Saves
  <1>9. Written(one.heap, one.slice, two.heap, two.slice) /\ two = [heap |-> two.heap, slice |-> two.slice]
    BY <1>4, <1>6, <1>8, OneWrites
  <1>10. Saves(one.heap, one.slice, two.heap, two.slice)
    BY <1>2, <1>4, <1>6, <1>8, OneSaves
  <1>11. Heap(two.heap) /\ Fits(two.heap, two.slice) /\ Without(two.heap, two.slice)
    BY <1>8, <1>9, <1>10 DEF Written, Grown, Saves
  <1>12. PICK C, t, q, u : C = two.heap /\ t = two.slice /\ q = three.heap /\ u = three.slice
    OBVIOUS
  <1>13. PICK i : i = Found(C, t, "$block")
    OBVIOUS
  <1>14. i = 0
    <2>1. i \in 0 .. t.len /\ t.len \in Nat /\ (i # 0 => C[t.arr][i].name = "$block")
      BY <1>11, <1>12, <1>13, FoundLast
    <2>2. i # 0 => i \in 1 .. t.len
      BY <2>1
    <2> QED
      BY <1>11, <1>12, <2>1, <2>2 DEF Without
  <1>15. PICK xs, empty : xs = <<x>> /\ empty = Unbound
    OBVIOUS
  <1>16. IsSeq(xs)
    BY <1>15, OneIsSeq
  <1>17. Len(xs) = 1 /\ xs[1] = x
    BY <1>15, OneIsSeq
  <1>18. three = Appended(C, t, xs, empty)
    <2>1. i = Found(two.heap, two.slice, x.name)
      BY <1>2, <1>12, <1>13
    <2> QED
      BY <1>4, <1>12, <1>14, <1>15, <2>1 DEF setVarValue
  <1>19. PICK k \in Nat : k = t.len
    BY <1>11, <1>12, FitsFields
  <1>20. Heap(C) /\ Fits(C, t)
    BY <1>11, <1>12
  <1>21. u.len = k + 1
    <2>1. u.len = t.len + Len(xs)
      BY <1>12, <1>16, <1>18, <1>20, Appends
    <2> QED
      BY <1>17, <1>19, <2>1
  <1>22. \A j \in 1 .. u.len : q[u.arr][j] = IF j <= t.len THEN C[t.arr][j] ELSE xs[j - t.len]
    BY <1>12, <1>16, <1>18, <1>20, Appends
  <1>23. \A j \in 1 .. k : q[u.arr][j].name # "$block"
    <2> SUFFICES ASSUME NEW j \in 1 .. k PROVE q[u.arr][j].name # "$block"
      OBVIOUS
    <2>1. j \in 1 .. u.len /\ j <= t.len /\ j \in 1 .. t.len
      BY <1>19, <1>21
    <2>2. q[u.arr][j] = C[t.arr][j]
      BY <1>22, <2>1
    <2> QED
      BY <1>11, <1>12, <2>1, <2>2 DEF Without
  <1>24. q[u.arr][k + 1] = x
    <2>1. k + 1 \in 1 .. u.len /\ ~(k + 1 <= t.len) /\ (k + 1) - t.len = 1
      BY <1>19, <1>21
    <2> QED
      BY <1>17, <1>22, <2>1
  <1>25. \A j \in 1 .. u.len : j \in 1 .. k \/ j = k + 1
    BY <1>21
  <1>26. Mine(q, u, b)
    <2>1. k + 1 \in 1 .. u.len
      BY <1>21
    <2> QED
      BY <1>2, <1>23, <1>24, <1>25, <2>1 DEF Mine
  <1> QED
    BY <1>5, <1>12, <1>26

Joined(s, w, p, t, y, n) ==
    /\ \A i \in 1 .. p : View(t, y)[i] = View(s, w)[i]
    /\ View(t, y)[p + 1].env = y[n + 1].env /\ View(t, y)[p + 1].bound = y[n + 1].bound

LEMMA ViewMore ==
    ASSUME NEW p \in Nat, NEW s, Len(s) = p, NEW n \in Nat, NEW w,
           \A i \in 1 .. p : s[i].state \in 1 .. n,
           NEW t, Len(t) = p + 1, \A i \in 1 .. p : t[i].state = s[i].state,
           t[p + 1].state = n + 1,
           NEW y, \A i \in 1 .. n : y[i].env = w[i].env /\ y[i].bound = w[i].bound
    PROVE  Joined(s, w, p, t, y, n)
  <1>1. PICK v, u : v = View(s, w) /\ u = View(t, y)
    OBVIOUS
  <1>2. ASSUME NEW i \in 1 .. p
        PROVE  u[i] = v[i]
    <2>1. i \in 1 .. Len(t)
      OBVIOUS
    <2>2. u[i] = [state |-> t[i].state, env |-> y[t[i].state].env, bound |-> y[t[i].state].bound]
      BY <1>1, <2>1 DEF View
    <2>3. v[i] = [state |-> s[i].state, env |-> w[s[i].state].env, bound |-> w[s[i].state].bound]
      BY <1>1 DEF View
    <2> QED
      BY <2>2, <2>3
  <1>3. p + 1 \in 1 .. Len(t)
    OBVIOUS
  <1>4. u[p + 1] = [state |-> n + 1, env |-> y[n + 1].env, bound |-> y[n + 1].bound]
    BY <1>1, <1>3 DEF View
  <1> QED
    BY <1>1, <1>2, <1>4 DEF Joined

\* A state is added, and walks.
LEMMA OrderedMore ==
    ASSUME NEW n \in Nat, NEW w, Len(w) = n,
           NEW y, Len(y) = n + 1,
           \A i \in 1 .. n : y[i].env = w[i].env /\ y[i].user = w[i].user /\ y[i].first = w[i].first,
           NEW su, ScopesOK(su, w), FirstsOK(w, su),
           FirstOK(y[n + 1], w, su),
           NEW C, NamedIn(y, C, su), NEW t, NEW A, Blocks(View(t, y), Len(t), su, A)
    PROVE  Ordered(t, y, su, C, A)
  <1>1. \A e \in 1 .. Len(su) : su[e].giver # 0 => su[e].giver \in 1 .. n /\ su[e].giver \in 1 .. n + 1
    <2>1. \A g \in 1 .. n : g \in 1 .. n + 1
      OBVIOUS
    <2>2. \A e \in 1 .. Len(su) : su[e].giver # 0 => su[e].giver \in 1 .. n
      BY DEF ScopesOK, ScopeOK
    <2> QED
      BY <2>1, <2>2
  <1>2. ScopesOK(su, y)
    BY <1>1 DEF ScopesOK, ScopeOK
  <1>3. FirstsOK(y, su)
    <2> SUFFICES ASSUME NEW i \in 1 .. n + 1, y[i].first
                 PROVE  /\ y[i].user \in 1 .. Len(su) /\ su[y[i].user].giver # 0
                        /\ y[i].env = y[su[y[i].user].giver].env
      BY DEF FirstsOK, FirstOK
    <2>1. CASE i = n + 1
      BY <1>1, <2>1 DEF FirstOK
    <2>2. CASE i \in 1 .. n
      <3>1. /\ w[i].user \in 1 .. Len(su) /\ su[w[i].user].giver # 0
            /\ w[i].env = w[su[w[i].user].giver].env
        BY <2>2 DEF FirstsOK, FirstOK
      <3> QED
        BY <1>1, <2>2, <3>1
    <2> QED
      BY <2>1, <2>2
  <1> QED
    BY <1>2, <1>3 DEF Ordered

\* What walkTemplate leaves: the walk calls, with another one in a new state.
LEMMA Walked ==
    ASSUME IInv, BInv, Walking, NEW tmpl, NEW st, NEW C, NEW x, Walk(tmpl, st, C, x),
           NEW y, y = Append([states EXCEPT ![Top.state].bound = x], st)
    PROVE  /\ Len(stack) \in Nat /\ Len(stack') = Len(stack) + 1 /\ KindsOK(stack')
           /\ \A i \in 1 .. Len(stack) : stack'[i].state = stack[i].state
           /\ stack'[Len(stack) + 1].state = Len(states) + 1
           /\ Ready("call") => Becomes(Assigned([states |-> y, bindings |-> C], Len(states) + 1,
                                                Arguments(Instr.value)))
           /\ ~Ready("call") => states' = y /\ bindings' = C
  <1>1. PICK n \in Nat : n = Len(stack)
    BY StackIs, InstrIs
  <1>2. PICK f : f = Frame(Len(states) + 1, "template", body[tmpl], Nothing, <<>>)
    OBVIOUS
  <1>3. PICK s, t : s = Advanced /\ t = stack' /\ t = Append(s, f)
    BY <1>2 DEF Walk, Enter
  <1>4. Goes(stack, s) /\ KindsOK(s) /\ IsSeq(s) /\ Len(s) = n
    BY <1>1, <1>3, AdvancedGoes DEF BInv
  <1>5. Len(t) = n + 1 /\ t[n + 1] = f /\ \A i \in 1 .. n : t[i] = s[i]
    BY <1>3, <1>4, Appending
  <1>6. f.state = Len(states) + 1 /\ KindOK(f)
    BY <1>2 DEF Frame, KindOK
  <1>7. \A i \in 1 .. n : t[i].state = stack[i].state
    BY <1>1, <1>4, <1>5 DEF Goes
  <1>8. \A i \in 1 .. n + 1 : i \in 1 .. n \/ i = n + 1
    BY <1>1
  <1>9. KindsOK(t)
    BY <1>4, <1>5, <1>6, <1>8 DEF KindsOK
  <1>10. /\ Ready("call") => Becomes(Assigned([states |-> y, bindings |-> C], Len(states) + 1,
                                              Arguments(Instr.value)))
         /\ ~Ready("call") => states' = y /\ bindings' = C
    BY DEF Walk, Becomes
  <1> QED
    BY <1>1, <1>3, <1>5, <1>6, <1>7, <1>9, <1>10

\* More scopes, and more arrays of variables.
LEMMA GrownScopes ==
    ASSUME IInv, NEW w, Len(w) = Len(states), FirstsOK(w, scopes), NamedIn(w, bindings, scopes),
           \A i \in 1 .. Len(states) : w[i].vars = states[i].vars /\ w[i].env = states[i].env,
           NEW su, Len(su) \in Nat, Len(scopes) <= Len(su),
           \A e \in 1 .. Len(scopes) : su[e].giver = scopes[e].giver /\ su[e].block = scopes[e].block,
           NEW C, \A a \in 1 .. Len(bindings) : C[a] = bindings[a]
    PROVE  FirstsOK(w, su) /\ NamedIn(w, C, su)
  <1>1. Len(scopes) \in Nat /\ \A e \in 1 .. Len(scopes) : e \in 1 .. Len(su)
    BY DEF IInv, MemoryOK
  <1>2. FirstsOK(w, su)
    BY <1>1 DEF FirstsOK, FirstOK
  <1>3. ASSUME NEW i \in 1 .. Len(states)
        PROVE  Mine(C, w[i].vars, su[w[i].env].block)
    <2>1. PICK z, b : z = states[i].vars /\ b = scopes[states[i].env].block
      OBVIOUS
    <2>2. Fits(bindings, z) /\ Heap(bindings) /\ states[i].env \in 1 .. Len(scopes)
      BY <2>1 DEF IInv, MemoryOK, Fine
    <2>3. z.arr # 0 => C[z.arr] = bindings[z.arr]
      BY <2>2, FitsFields
    <2>4. Mine(bindings, z, b)
      BY <2>1 DEF NamedIn
    <2>5. Mine(C, z, b)
      BY <2>2, <2>3, <2>4, MineStays
    <2> QED
      BY <2>1, <2>2, <2>5
  <1>4. NamedIn(w, C, su)
    BY <1>3 DEF NamedIn
  <1> QED
    BY <1>2, <1>4

\* The variables of a template that is called have no block yet.
LEMMA GlobalsCopiedWithout ==
    ASSUME IInv, NEW r, r = GlobalsCopied
    PROVE  Without(r.heap, r.slice)
  <1>1. PICK n \in Nat : n = Len(bindings)
    BY SeqBasics DEF IInv, MemoryOK, Heap
  <1>2. PICK g : g = Globals
    OBVIOUS
  <1>3. IsSeq(bindings)
    BY DEF IInv, MemoryOK, Heap
  <1>4. PICK C : C = Append(bindings, g)
    OBVIOUS
  <1>5. C[n + 1] = g
    BY <1>1, <1>3, <1>4, Appending
  <1>6. r.heap = C /\ r.slice.arr = n + 1 /\ r.slice.len = Len(g)
    BY <1>1, <1>2, <1>4 DEF GlobalsCopied
  <1> QED
    BY <1>2, <1>5, <1>6, GlobalsNoBlock DEF Without

\* u is the memory y with the arrays C, when the last state took its arguments.
Takes(y, n, C, b, u) ==
    /\ Len(u.states) = n + 1
    /\ \A i \in 1 .. n + 1 :
          /\ u.states[i].bound = y[i].bound /\ u.states[i].env = y[i].env
          /\ u.states[i].user = y[i].user /\ u.states[i].first = y[i].first
    /\ \A i \in 1 .. n : u.states[i].vars = y[i].vars
    /\ \A a \in 1 .. Len(bindings) : u.bindings[a] = bindings[a]
    /\ Mine(u.bindings, u.states[n + 1].vars, b)

\* A mixin takes its arguments.
LEMMA CalledNames ==
    ASSUME IInv, NEW y, NEW A, NEW C, NEW k, MemoryOK(y, A, C, k), NEW n \in Nat, Len(y) = n + 1,
           Len(C) > Len(bindings), y[n + 1].vars.arr = Len(bindings) + 1, Without(C, y[n + 1].vars),
           \A a \in 1 .. Len(bindings) : C[a] = bindings[a],
           NEW b, NEW es, es = Arguments(b), NEW u, u = Assigned([states |-> y, bindings |-> C], n + 1, es)
    PROVE  Takes(y, n, C, b, u)
  <1>1. PICK z : z = y[n + 1].vars
    OBVIOUS
  <1>2. PICK r : r = setVarValues(C, z, es)
    OBVIOUS
  <1>3. u = Stored([states |-> y, bindings |-> C], n + 1, r, es)
    BY <1>1, <1>2 DEF Assigned
  <1>4. n + 1 \in 1 .. Len(y)
    OBVIOUS
  <1>5. /\ u.bindings = r.heap /\ Len(u.states) = n + 1
        /\ \A i \in 1 .. n + 1 :
              /\ u.states[i].bound = y[i].bound /\ u.states[i].env = y[i].env
              /\ u.states[i].user = y[i].user /\ u.states[i].first = y[i].first
              /\ u.states[i].vars = IF i = n + 1 THEN r.slice ELSE y[i].vars
    BY <1>3, <1>4, StoredIs
  <1>6. Heap(C) /\ Fits(C, z) /\ Without(C, z) /\ z.arr = Len(bindings) + 1
    BY <1>1, <1>4 DEF MemoryOK, Fine
  <1>7. Len(es) \in 1 .. 3
    BY DEF Arguments
  <1>8. Written(C, z, r.heap, r.slice)
    BY <1>2, <1>6, <1>7, ValuesWrite
  <1>9. ASSUME NEW a \in 1 .. Len(bindings)
        PROVE  u.bindings[a] = bindings[a]
    <2>1. Len(bindings) \in Nat /\ Len(C) \in Nat
      BY <1>6, SeqBasics DEF IInv, MemoryOK, Heap
    <2>2. a \in 1 .. Len(C) /\ a # z.arr
      BY <1>6, <2>1
    <2> QED
      BY <1>5, <1>8, <2>2 DEF Written
  <1>10. Mine(r.heap, r.slice, b)
    BY <1>2, <1>6, ArgumentsNamed
  <1>11. \A i \in 1 .. n : i \in 1 .. n + 1 /\ i # n + 1
    OBVIOUS
  <1>12. n + 1 \in 1 .. n + 1
    OBVIOUS
  <1>13. u.states[n + 1].vars = r.slice
    BY <1>5, <1>12
  <1>14. \A i \in 1 .. n : u.states[i].vars = y[i].vars
    BY <1>5, <1>11
  <1> QED
    BY <1>5, <1>9, <1>10, <1>13, <1>14 DEF Takes

\* Another scope is added.
LEMMA AppendScopes ==
    ASSUME NEW w, NEW sc, IsSeq(sc), ScopesOK(sc, w),
           NEW k, k = Len(sc) + 1, NEW g, ScopeOK(g, k, w), NEW su, su = Append(sc, g)
    PROVE  ScopesOK(su, w)
  <1>1. Len(sc) \in Nat
    BY SeqBasics
  <1>2. Len(su) = k /\ su[k] = g /\ \A e \in 1 .. Len(sc) : su[e] = sc[e]
    BY Appending
  <1>3. \A e \in 1 .. k : e \in 1 .. Len(sc) \/ e = k
    BY <1>1
  <1> QED
    BY <1>2, <1>3 DEF ScopesOK

LEMMA CallBlocks ==
    ASSUME IInv, BInv, Orderly, CallMixin
    PROVE  BInv'
  <1>1. PICK A, x, r, b : A = Frozen.heap /\ x = Frozen.slice /\ r = GlobalsCopied /\ b = Instr.value
    OBVIOUS
  <1>2. PICK first : first = FALSE
    OBVIOUS
  <1>3. PICK st : st = NewState(x, State.depth + 1, r.slice, Len(scopes) + 1, Top.state, first)
    OBVIOUS
  <1>4. PICK C, tmpl, g : C = r.heap /\ tmpl = Instr.vars[1] /\ g = [giver |-> Top.state, block |-> b, used |-> FALSE]
    OBVIOUS
  <1>5. PICK su : su = scopes' /\ su = Append(scopes, g)
    BY <1>1, <1>4 DEF CallMixin
  <1>6. Ready("call") /\ Walking /\ stack # <<>> /\ arrays' = A
    BY <1>1, InstrIs DEF CallMixin, Ready
  <1>7. Walk(tmpl, st, C, x)
    BY <1>1, <1>2, <1>3, <1>4 DEF CallMixin, Walk, Enter
  <1>8. PICK n \in Nat : n = Len(states)
    BY <1>6, TopIs
  <1>9. PICK w : w = [states EXCEPT ![Top.state].bound = x]
    OBVIOUS
  <1>10. /\ Len(w) = n
         /\ \A i \in 1 .. n : w[i].vars = states[i].vars /\ w[i].env = states[i].env
         /\ Top.state \in 1 .. n /\ w[Top.state].bound = x
    <2>1. /\ Len(w) = Len(states)
          /\ \A i \in 1 .. Len(states) :
                 /\ w[i].bound = IF i = Top.state THEN x ELSE states[i].bound
                 /\ w[i].vars = states[i].vars /\ w[i].env = states[i].env
      BY <1>6, <1>9, Rebound
    <2>2. Top.state \in 1 .. Len(states)
      BY <1>6, TopIs
    <2> QED
      BY <1>8, <2>1, <2>2
  <1>11. /\ Ordered(stack, w, scopes, bindings, A)
         /\ \A i \in 1 .. Len(stack) : LET e == scopes[states[stack[i].state].env] IN
               ~e.used /\ e.block # Null => e.block # b
         /\ b # Null => /\ x.arr # 0 /\ x.len \in Nat /\ x.len >= 1
                        /\ A[x.arr][x.len] = [name |-> b, scope |-> Top.state]
    BY <1>1, <1>6, <1>9, FrozenOrdered
  <1>12. PICK y : y = Append(w, st)
    OBVIOUS
  <1>13. /\ Moved(arrays, A, Len(states)) /\ Fits(A, x) /\ Live(A, x, Len(states))
         /\ Grown(bindings, C) /\ \A a \in 1 .. Len(bindings) : C[a] = bindings[a]
         /\ Fine(st, A, C, Len(states) + 1, Len(scopes) + 1) /\ Places(states, st)
    BY <1>1, <1>3, <1>4, <1>6, CalledState
  <1>14. PICK k \in Nat : k = Len(scopes) /\ k + 1 \in Nat /\ Len(scopes) <= k + 1
    BY SeqBasics DEF IInv
  <1>15. MemoryOK(y, A, C, k + 1) /\ Len(y) = n + 1 /\ y[n + 1] = st
    <2>1. PICK p \in Nat : p = k + 1 /\ Len(scopes) <= p
      BY <1>14
    <2>2. Fine(st, A, C, Len(states) + 1, p)
      BY <1>13, <1>14, <2>1
    <2>3. y = Append([states EXCEPT ![Top.state].bound = x], st)
      BY <1>9, <1>12
    <2>4. stack # <<>> /\ p \in Nat /\ Len(scopes) <= p
      BY <1>6, <2>1
    <2>5. Moved(arrays, A, Len(states)) /\ Fits(A, x) /\ Live(A, x, Len(states))
      BY <1>13
    <2>6. Grown(bindings, C) /\ (\A a \in 1 .. Len(bindings) : C[a] = bindings[a]) /\ Places(states, st)
      BY <1>13
    <2>7. MemoryOK(y, A, C, p)
      BY <2>2, <2>3, <2>4, <2>5, <2>6, Added
    <2>8. Len(y) = Len(states) + 1 /\ y[Len(states) + 1] = st
      BY <2>2, <2>3, <2>4, <2>5, <2>6, Added
    <2> QED
      BY <1>8, <2>1, <2>7, <2>8
  <1>16. \A i \in 1 .. n : y[i] = w[i]
    <2>1. IsSeq(w)
      BY <1>6, <1>9, Rebound
    <2> QED
      BY <1>10, <1>12, <2>1, Appending
  <1>17. st.bound = x /\ st.vars = r.slice /\ st.env = k + 1 /\ st.first = FALSE
    BY <1>2, <1>3, <1>14, NewStateIs
  <1>18. PICK u : u = Assigned([states |-> y, bindings |-> C], n + 1, Arguments(b))
    OBVIOUS
  <1>19. PICK later, D : later = u.states /\ D = u.bindings
    OBVIOUS
  <1>20. PICK t : t = stack'
    OBVIOUS
  <1>21. PICK p \in Nat : p = Len(stack)
    BY <1>6, StackIs
  <1>22. /\ Len(t) = p + 1 /\ KindsOK(t) /\ \A i \in 1 .. p : t[i].state = stack[i].state
         /\ t[p + 1].state = n + 1 /\ states' = later /\ bindings' = D
    <2>1. y = Append([states EXCEPT ![Top.state].bound = x], st)
      BY <1>9, <1>12
    <2>2. /\ Len(stack') = Len(stack) + 1 /\ KindsOK(stack')
          /\ \A i \in 1 .. Len(stack) : stack'[i].state = stack[i].state
          /\ stack'[Len(stack) + 1].state = Len(states) + 1
      BY <1>6, <1>7, <2>1, Walked
    <2>3. Becomes(Assigned([states |-> y, bindings |-> C], Len(states) + 1, Arguments(Instr.value)))
      BY <1>6, <1>7, <2>1, Walked
    <2>4. Becomes(u)
      BY <1>1, <1>8, <1>18, <2>3
    <2> QED
      BY <1>8, <1>19, <1>20, <1>21, <2>2, <2>4 DEF Becomes
  <1>23. /\ Len(later) = n + 1
         /\ \A i \in 1 .. n + 1 :
               /\ later[i].bound = y[i].bound /\ later[i].env = y[i].env
               /\ later[i].user = y[i].user /\ later[i].first = y[i].first
         /\ \A i \in 1 .. n : later[i].vars = y[i].vars
         /\ \A a \in 1 .. Len(bindings) : D[a] = bindings[a]
         /\ Mine(D, later[n + 1].vars, b)
    <2>1. r.slice.arr = Len(bindings) + 1 /\ Without(C, r.slice)
      BY <1>1, <1>4, GlobalsCopiedIs, GlobalsCopiedWithout
    <2>2. Len(C) > Len(bindings)
      <3>1. Len(bindings) \in Nat /\ Len(C) \in Nat
        BY <1>13, SeqBasics DEF IInv, MemoryOK, Heap, Grown
      <3>2. Fits(C, r.slice)
        BY <1>1, <1>4, GlobalsCopiedIs
      <3>3. r.slice.arr <= Len(C)
        BY <3>2 DEF Fits
      <3> QED
        BY <2>1, <3>1, <3>3
    <2>3. y[n + 1].vars.arr = Len(bindings) + 1 /\ Without(C, y[n + 1].vars)
      BY <1>15, <1>17, <2>1
    <2>4. PICK es : es = Arguments(b)
      OBVIOUS
    <2>5. u = Assigned([states |-> y, bindings |-> C], n + 1, es)
      BY <1>18, <2>4
    <2>6. PICK m : m = k + 1 /\ MemoryOK(y, A, C, m)
      BY <1>15
    <2>7. \A a \in 1 .. Len(bindings) : C[a] = bindings[a]
      BY <1>13
    <2>8. Len(y) = n + 1
      BY <1>15
    <2>9. Takes(y, n, C, b, u)
      BY <2>2, <2>3, <2>4, <2>5, <2>6, <2>7, <2>8, CalledNames
    <2> QED
      BY <1>19, <2>9 DEF Takes
  <1>24. \A i \in 1 .. n : i \in 1 .. n + 1
    OBVIOUS
  <1>25. /\ \A i \in 1 .. n : /\ later[i].bound = w[i].bound /\ later[i].env = w[i].env
                              /\ later[i].user = w[i].user /\ later[i].first = w[i].first
                              /\ later[i].vars = w[i].vars
         /\ later[n + 1].bound = x /\ later[n + 1].env = k + 1 /\ later[n + 1].first = FALSE
    <2>1. n + 1 \in 1 .. n + 1
      OBVIOUS
    <2>2. later[n + 1].bound = st.bound /\ later[n + 1].env = st.env /\ later[n + 1].first = st.first
      BY <1>15, <1>23, <2>1
    <2> QED
      BY <1>16, <1>17, <1>23, <1>24, <2>2
  <1>26. /\ ScopesOK(su, w) /\ Len(su) = k + 1 /\ su[k + 1] = g
         /\ \A e \in 1 .. k : su[e] = scopes[e]
    <2>1. IsSeq(scopes) /\ ScopesOK(scopes, w)
      BY <1>11 DEF IInv, Ordered
    <2>2. PICK new : new = k + 1
      OBVIOUS
    <2>3. ScopeOK(g, new, w)
      <3>1. Top.state \in 1 .. n /\ State = states[Top.state] /\ State.env \in 1 .. k
        BY <1>6, <1>8, <1>14, TopIs DEF Fine
      <3>2. g.giver = Top.state /\ g = [giver |-> g.giver, block |-> g.block, used |-> g.used]
        BY <1>4
      <3>3. w[g.giver].env < new /\ g.giver # 0 /\ g.giver \in 1 .. Len(w)
        BY <1>10, <1>14, <2>2, <3>1, <3>2
      <3> QED
        BY <3>2, <3>3 DEF ScopeOK
    <2>4. new = Len(scopes) + 1
      BY <1>14, <2>2
    <2>5. ScopesOK(su, w)
      BY <1>5, <2>1, <2>3, <2>4, AppendScopes
    <2>6. Len(su) = new /\ su[new] = g /\ \A e \in 1 .. Len(scopes) : su[e] = scopes[e]
      BY <1>5, <2>1, <2>4, Appending
    <2> QED
      BY <1>14, <2>2, <2>5, <2>6
  <1>27. FirstsOK(w, su) /\ NamedIn(w, D, su)
    <2>1. /\ Len(w) = Len(states) /\ FirstsOK(w, scopes) /\ NamedIn(w, bindings, scopes)
          /\ \A i \in 1 .. Len(states) : w[i].vars = states[i].vars /\ w[i].env = states[i].env
      BY <1>8, <1>10, <1>11 DEF Ordered
    <2>2. /\ Len(su) \in Nat /\ Len(scopes) <= Len(su)
          /\ \A e \in 1 .. Len(scopes) : su[e].giver = scopes[e].giver /\ su[e].block = scopes[e].block
      BY <1>14, <1>26
    <2> QED
      BY <1>23, <2>1, <2>2, GrownScopes
  <1>28. NamedIn(later, D, su)
    <2>1. \A i \in 1 .. n + 1 : i \in 1 .. n \/ i = n + 1
      OBVIOUS
    <2>2. su[later[n + 1].env].block = b
      BY <1>4, <1>25, <1>26
    <2>3. \A i \in 1 .. n : Mine(D, later[i].vars, su[later[i].env].block)
      BY <1>10, <1>25, <1>27 DEF NamedIn
    <2> QED
      BY <1>23, <2>1, <2>2, <2>3 DEF NamedIn
  <1>29. Blocks(View(t, later), p + 1, su, A)
    <2>1. PICK v, z : v = View(stack, w) /\ z = View(t, later)
      OBVIOUS
    <2>2. \A i \in 1 .. p : stack[i].state \in 1 .. n
      BY <1>6, <1>8, <1>21, StackIs DEF FrameOK
    <2>3. \A i \in 1 .. p : /\ v[i].state = stack[i].state /\ v[i].env = states[stack[i].state].env
                            /\ v[i].bound = w[stack[i].state].bound
                            /\ v[i].env \in 1 .. k
      <3>1. \A i \in 1 .. p : /\ v[i].state = stack[i].state /\ v[i].env = w[stack[i].state].env
                              /\ v[i].bound = w[stack[i].state].bound
        BY <1>21, <2>1 DEF View
      <3>2. \A i \in 1 .. n : states[i].env \in 1 .. k
        BY <1>8, <1>14 DEF IInv, MemoryOK, Fine
      <3> QED
        BY <1>10, <2>2, <3>1, <3>2
    <2>4. p >= 1 /\ v[p].state = Top.state /\ v[p].bound = x /\ p \in 1 .. p
      <3>1. p >= 1 /\ Top = stack[p]
        BY <1>6, <1>21, StackIs
      <3>2. p \in 1 .. p
        BY <3>1
      <3> QED
        BY <1>10, <2>3, <3>1, <3>2
    <2>5. Blocks(v, p, su, A)
      <3>1. Blocks(v, p, scopes, A)
        BY <1>11, <1>21, <2>1 DEF Ordered
      <3>2. \A i \in 1 .. p : /\ su[v[i].env].giver = scopes[v[i].env].giver
                              /\ su[v[i].env].block = scopes[v[i].env].block
                              /\ scopes[v[i].env].used => su[v[i].env].used
        BY <1>26, <2>3
      <3> QED
        BY <3>1, <3>2, MoreScopes
    <2>6. /\ \A i \in 1 .. p : z[i] = v[i]
          /\ z[p + 1].env = k + 1 /\ z[p + 1].bound = v[p].bound
      <3>1. \A i \in 1 .. n : later[i].env = w[i].env /\ later[i].bound = w[i].bound
        BY <1>25
      <3>2. Joined(stack, w, p, t, later, n)
        BY <1>21, <1>22, <2>2, <3>1, ViewMore
      <3>3. /\ \A i \in 1 .. p : z[i] = v[i]
            /\ z[p + 1].env = later[n + 1].env /\ z[p + 1].bound = later[n + 1].bound
        BY <2>1, <3>2 DEF Joined
      <3> QED
        BY <1>25, <2>4, <3>3
    <2>7. PICK K \in Nat : K = k + 1 /\ \A i \in 1 .. p : v[i].env \in Nat /\ v[i].env < K
      BY <1>14, <2>3
    <2>8. su[K].block = b /\ su[K].giver = Top.state
      BY <1>4, <1>26, <2>7
    <2>9. \A i \in 1 .. p : Waits(v[i].env, su) => su[K].block # su[v[i].env].block
      BY <1>11, <1>21, <1>26, <2>3, <2>8 DEF Waits
    <2>10. Waits(K, su) => /\ v[p].bound.arr # 0
                           /\ Held(A, v[p].bound.arr, v[p].bound.len, v[p].bound.len, su[K].block, su[K].giver)
      <3> SUFFICES ASSUME b # Null
                   PROVE  x.arr # 0 /\ Held(A, x.arr, x.len, x.len, b, Top.state)
        BY <2>4, <2>8 DEF Waits
      <3>1. /\ x.arr # 0 /\ x.len \in Nat /\ x.len >= 1
            /\ A[x.arr][x.len].name = b /\ A[x.arr][x.len].scope = Top.state
        BY <1>11
      <3>2. x.len \in 1 .. x.len /\ \A i \in x.len .. x.len : i = x.len
        BY <3>1
      <3> QED
        BY <3>1, <3>2 DEF Held
    <2>11. Blocks(z, p + 1, su, A)
      BY <2>4, <2>5, <2>6, <2>7, <2>8, <2>9, <2>10, CallingBlocks
    <2> QED
      BY <2>1, <2>11
  <1>30. Ordered(t, later, su, D, A)
    <2>1. \A i \in 1 .. n : later[i].env = w[i].env /\ later[i].user = w[i].user /\ later[i].first = w[i].first
      BY <1>25
    <2>2. Blocks(View(t, later), Len(t), su, A)
      BY <1>22, <1>29
    <2>3. FirstOK(later[n + 1], w, su)
      BY <1>25 DEF FirstOK
    <2> QED
      BY <1>10, <1>23, <1>26, <1>27, <1>28, <2>1, <2>2, <2>3, OrderedMore
  <1> QED
    BY <1>5, <1>6, <1>20, <1>22, <1>30 DEF BInv

\* $block is the block of the scope on top, which somebody gave.
LEMMA MyBlockIs ==
    ASSUME IInv, BInv, Ready("block"), MyBlock \in DOMAIN body, NEW e, e = State.env
    PROVE  /\ e \in 1 .. Len(scopes) /\ MyBlock = scopes[e].block /\ MyBlock # Null
           /\ scopes[e].giver \in 1 .. Len(states)
           /\ states[scopes[e].giver].env < e
  <1>1. Walking /\ stack # <<>> /\ Instr.op = "block" /\ Instr \in Instructions
    BY InstrIs DEF Ready
  <1>2. Instr.vars[1] = "$block" /\ MyBlock # Null
    BY <1>1, BlockVariable DEF IInv
  <1>3. PICK z, x : z = State.vars /\ x = "$block"
    OBVIOUS
  <1>4. /\ Heap(bindings) /\ Fits(bindings, z) /\ e \in 1 .. Len(scopes)
        /\ Top.state \in 1 .. Len(states) /\ State = states[Top.state]
    BY <1>1, <1>3, TopIs DEF IInv, MemoryOK, Fine
  <1>5. PICK i : i = Found(bindings, z, x)
    OBVIOUS
  <1>6. MyBlock = IF i = 0 THEN Null ELSE bindings[z.arr][i].value
    BY <1>2, <1>3, <1>5 DEF MyBlock, varValue
  <1>7. i # 0 /\ MyBlock = bindings[z.arr][i].value
    BY <1>2, <1>6
  <1>8. i \in 1 .. z.len /\ bindings[z.arr][i].name = x
    <2>1. i \in 0 .. z.len /\ z.len \in Nat /\ (i # 0 => bindings[z.arr][i].name = x)
      BY <1>4, <1>5, FoundLast
    <2> QED
      BY <1>7, <2>1
  <1>9. Mine(bindings, z, scopes[e].block)
    BY <1>3, <1>4 DEF BInv, Ordered, NamedIn
  <1>10. MyBlock = scopes[e].block
    BY <1>3, <1>7, <1>8, <1>9 DEF Mine
  <1>11. ScopesOK(scopes, states)
    BY DEF BInv, Ordered
  <1> QED
    BY <1>2, <1>4, <1>10, <1>11 DEF ScopesOK, ScopeOK

\* A mixin that uses its block for the first time finds what its caller froze.
LEMMA FirstFound ==
    ASSUME IInv, BInv, Ready("block"), MyBlock \in DOMAIN body,
           NEW e, e = State.env, ~scopes[e].used
    PROVE  /\ Position # 0
           /\ arrays[State.bound.arr][Position].scope = scopes[e].giver
  <1>1. stack # <<>>
    BY InstrIs DEF Ready
  <1>2. PICK n, v : n = Len(stack) /\ v = View(stack, states)
    OBVIOUS
  <1>3. n \in Nat /\ n >= 1 /\ v[n].env = e /\ v[n].bound = State.bound
    BY <1>1, <1>2, ViewFits
  <1>4. n \in 1 .. n
    BY <1>3
  <1>5. Holding(v, n, scopes, arrays)
    BY <1>2 DEF BInv, Ordered, Blocks
  <1>6. PICK x, q : x = MyBlock /\ q = scopes[e].giver
    OBVIOUS
  <1>7. Waits(v[n].env, scopes) /\ x = scopes[e].block
    BY <1>3, <1>6, MyBlockIs DEF Waits
  <1>8. PICK s : s = State.bound
    OBVIOUS
  <1>9. Held(arrays, s.arr, s.len, s.len, x, q)
    BY <1>3, <1>4, <1>5, <1>6, <1>7, <1>8 DEF Holding
  <1>10. PICK k \in 1 .. s.len : /\ arrays[s.arr][k].name = x
                                 /\ \A i \in k .. s.len : arrays[s.arr][i].name = x => arrays[s.arr][i].scope = q
    BY <1>9 DEF Held
  <1>11. Heap(arrays) /\ Fits(arrays, s)
    BY <1>1, <1>8, TopIs DEF IInv, MemoryOK, Fine
  <1>12. PICK f : f = Found(arrays, s, x)
    OBVIOUS
  <1>13. /\ f \in 0 .. s.len /\ s.len \in Nat
         /\ f # 0 => arrays[s.arr][f].name = x
         /\ \A j \in f + 1 .. s.len : arrays[s.arr][j].name # x
    BY <1>11, <1>12, FoundLast
  <1>14. k <= f
    <2>1. k \notin f + 1 .. s.len
      BY <1>10, <1>13
    <2> QED
      BY <1>13, <2>1
  <1>15. f # 0 /\ f \in k .. s.len
    BY <1>13, <1>14
  <1>16. arrays[s.arr][f].scope = q
    BY <1>10, <1>13, <1>15
  <1>17. Position = f
    BY <1>6, <1>8, <1>12 DEF Position
  <1> QED
    BY <1>6, <1>8, <1>15, <1>16, <1>17

\* The scope e has used its block.
LEMMA UsedIs ==
    ASSUME IInv, NEW w, ScopesOK(scopes, w), NEW e \in 1 .. Len(scopes),
           NEW su, su = [scopes EXCEPT ![e].used = TRUE]
    PROVE  /\ IsSeq(su) /\ Len(su) = Len(scopes) /\ ScopesOK(su, w) /\ su[e].used
           /\ \A i \in 1 .. Len(scopes) :
                 /\ su[i].giver = scopes[i].giver /\ su[i].block = scopes[i].block
                 /\ scopes[i].used => su[i].used
  <1>1. IsSeq(scopes)
    BY DEF IInv
  <1>2. PICK k \in Nat : k = Len(scopes) /\ DOMAIN scopes = 1 .. k
    BY <1>1, SeqBasics
  <1>3. /\ su = [i \in 1 .. k |-> su[i]]
        /\ \A i \in 1 .. k : su[i] = IF i = e THEN [scopes[i] EXCEPT !.used = TRUE] ELSE scopes[i]
    BY <1>2
  <1>4. IsSeq(su) /\ Len(su) = k
    BY <1>3, FunctionIsSeq
  <1>5. ASSUME NEW i \in 1 .. k
        PROVE  /\ su[i] = [giver |-> su[i].giver, block |-> su[i].block, used |-> su[i].used]
               /\ su[i].giver = scopes[i].giver /\ su[i].block = scopes[i].block
               /\ scopes[i].used => su[i].used
               /\ i = e => su[i].used
    <2>1. PICK y, z : y = su[i] /\ z = scopes[i]
      OBVIOUS
    <2>2. z = [giver |-> z.giver, block |-> z.block, used |-> z.used]
      BY <1>2, <2>1 DEF ScopesOK, ScopeOK
    <2>3. y = IF i = e THEN [z EXCEPT !.used = TRUE] ELSE z
      BY <1>3, <2>1
    <2>4. /\ y = [giver |-> y.giver, block |-> y.block, used |-> y.used]
          /\ y.giver = z.giver /\ y.block = z.block /\ (z.used => y.used) /\ (i = e => y.used)
      BY <2>2, <2>3
    <2> QED
      BY <2>1, <2>4
  <1>6. ASSUME NEW i \in 1 .. k
        PROVE  /\ su[i].giver = 0 => su[i].block = Null
               /\ su[i].giver # 0 => su[i].giver \in 1 .. Len(w) /\ w[su[i].giver].env < i
    <2>1. /\ scopes[i].giver = 0 => scopes[i].block = Null
          /\ scopes[i].giver # 0 => scopes[i].giver \in 1 .. Len(w) /\ w[scopes[i].giver].env < i
      BY <1>2 DEF ScopesOK, ScopeOK
    <2>2. su[i].giver = scopes[i].giver /\ su[i].block = scopes[i].block
      BY <1>5
    <2> QED
      BY <2>1, <2>2
  <1>7. ScopesOK(su, w)
    BY <1>4, <1>5, <1>6 DEF ScopesOK, ScopeOK
  <1> QED
    BY <1>2, <1>4, <1>5, <1>7

\* However another walk call is seen, in the scope and with the blocks of st.
BlocksWith(v, n, st, su, A) ==
    \A z : /\ \A i \in 1 .. n : z[i] = v[i]
           /\ z[n + 1].env = st.env /\ z[n + 1].bound = st.bound
           => Blocks(z, n + 1, su, A)

\* A block walks.
LEMMA UsingBlocks ==
    ASSUME IInv, BInv, Ready("block"), NEW tmpl, NEW st, NEW C, NEW x, Walk(tmpl, st, C, x),
           NEW w, w = [states EXCEPT ![Top.state].bound = x],
           NEW su, su = scopes', ScopesOK(su, w), FirstsOK(w, su), NamedIn(w, C, su),
           FirstOK(st, w, su),
           Mine(C, st.vars, su[st.env].block),
           BlocksWith(View(stack, w), Len(stack), st, su, arrays')
    PROVE  BInv'
  <1>1. Walking /\ stack # <<>> /\ ~Ready("call")
    BY InstrIs DEF Ready
  <1>2. PICK n \in Nat : n = Len(states)
    BY <1>1, TopIs
  <1>3. PICK p \in Nat : p = Len(stack)
    BY <1>1, StackIs
  <1>4. PICK y : y = Append(w, st)
    OBVIOUS
  <1>5. PICK t : t = stack'
    OBVIOUS
  <1>6. /\ Len(t) = p + 1 /\ KindsOK(t) /\ \A i \in 1 .. p : t[i].state = stack[i].state
        /\ t[p + 1].state = n + 1 /\ states' = y /\ bindings' = C
    <2>1. y = Append([states EXCEPT ![Top.state].bound = x], st)
      BY <1>4
    <2> QED
      BY <1>1, <1>2, <1>3, <1>5, <2>1, Walked
  <1>7. IsSeq(w) /\ Len(w) = n
    BY <1>1, <1>2, Rebound
  <1>8. Len(y) = n + 1 /\ y[n + 1] = st /\ \A i \in 1 .. n : y[i] = w[i]
    BY <1>4, <1>7, Appending
  <1>9. NamedIn(y, C, su)
    <2>1. \A i \in 1 .. n + 1 : i \in 1 .. n \/ i = n + 1
      OBVIOUS
    <2>2. \A i \in 1 .. n : Mine(C, w[i].vars, su[w[i].env].block)
      BY <1>7 DEF NamedIn
    <2> QED
      BY <1>8, <2>1, <2>2 DEF NamedIn
  <1>10. Blocks(View(t, y), p + 1, su, arrays')
    <2>1. PICK v, z : v = View(stack, w) /\ z = View(t, y)
      OBVIOUS
    <2>2. \A i \in 1 .. p : stack[i].state \in 1 .. n
      BY <1>1, <1>2, <1>3, StackIs DEF FrameOK
    <2>3. \A i \in 1 .. n : y[i].env = w[i].env /\ y[i].bound = w[i].bound
      BY <1>8
    <2>4. PICK s : s = stack /\ Len(s) = p
      BY <1>3
    <2>5. Joined(s, w, p, t, y, n)
      <3>1. \A i \in 1 .. p : s[i].state \in 1 .. n
        BY <2>2, <2>4
      <3>2. \A i \in 1 .. p : t[i].state = s[i].state
        BY <1>6, <2>4
      <3> QED
        BY <1>6, <2>3, <2>4, <3>1, <3>2, ViewMore
    <2>6. /\ \A i \in 1 .. p : z[i] = v[i]
          /\ z[p + 1].env = st.env /\ z[p + 1].bound = st.bound
      BY <1>8, <2>1, <2>4, <2>5 DEF Joined
    <2>7. BlocksWith(v, p, st, su, arrays')
      BY <1>3, <2>1
    <2> QED
      BY <2>1, <2>6, <2>7 DEF BlocksWith
  <1>11. Ordered(t, y, su, C, arrays')
    <2>1. \A i \in 1 .. n : y[i].env = w[i].env /\ y[i].user = w[i].user /\ y[i].first = w[i].first
      BY <1>8
    <2>2. PICK A : A = arrays'
      OBVIOUS
    <2>3. Blocks(View(t, y), Len(t), su, A)
      BY <1>6, <1>10, <2>2
    <2>4. FirstOK(y[n + 1], w, su)
      BY <1>8
    <2>5. Len(y) = n + 1 /\ Len(w) = n
      BY <1>7, <1>8
    <2>6. PICK us : us = su /\ ScopesOK(us, w) /\ FirstsOK(w, us) /\ NamedIn(y, C, us)
      BY <1>9
    <2>7. Ordered(t, y, us, C, A)
      <3>1. Blocks(View(t, y), Len(t), us, A)
        BY <2>3, <2>6
      <3>2. FirstOK(y[n + 1], w, us)
        BY <2>4, <2>6
      <3> QED
        BY <2>1, <2>5, <2>6, <3>1, <3>2, OrderedMore
    <2> QED
      BY <2>2, <2>6, <2>7
  <1> QED
    BY <1>5, <1>6, <1>11 DEF BInv

\* A block walks in the scope of who gave it, with the blocks of that state.
LEMMA UseBlockBlocks ==
    ASSUME IInv, BInv, Orderly, UseBlock
    PROVE  BInv'
  <1>1. PICK e, P, tmpl, r : /\ e = State.env /\ P = Position /\ tmpl = MyBlock
                             /\ r = Removed(arrays, State.bound, Position)
    OBVIOUS
  <1>2. PICK A, x : A = r.heap /\ x = r.slice
    OBVIOUS
  <1>3. PICK depth, first : depth = FrozenScope.depth + 1 /\ first = ~scopes[e].used
    OBVIOUS
  <1>4. PICK old : old = FrozenScope
    OBVIOUS
  <1>5. PICK st : st = NewState(old.bound, depth, old.vars, old.env, e, first)
    OBVIOUS
  <1>6. /\ Ready("block") /\ MyBlock \in DOMAIN body /\ P # 0 /\ arrays' = A
        /\ scopes' = [scopes EXCEPT ![e].used = TRUE]
    BY <1>1, <1>2 DEF UseBlock
  <1>7. Walk(tmpl, st, bindings, x)
    BY <1>1, <1>2, <1>3, <1>4, <1>5 DEF UseBlock, Walk, Enter
  <1>8. stack # <<>>
    BY <1>6, InstrIs DEF Ready
  <1>9. PICK g : g = scopes[e].giver
    OBVIOUS
  <1>10. /\ e \in 1 .. Len(scopes) /\ MyBlock = scopes[e].block
         /\ g \in 1 .. Len(states) /\ states[g].env < e
    BY <1>1, <1>6, <1>9, MyBlockIs
  <1>11. arrays[State.bound.arr][P].scope = g
    <2>1. CASE scopes[e].used
      BY <1>1, <1>6, <1>9, <2>1 DEF Orderly
    <2>2. CASE ~scopes[e].used
      BY <1>1, <1>6, <1>9, <2>2, FirstFound
    <2> QED
      BY <2>1, <2>2
  <1>12. old = states[g]
    BY <1>1, <1>4, <1>11 DEF FrozenScope
  <1>13. PICK w : w = [states EXCEPT ![Top.state].bound = x]
    OBVIOUS
  <1>14. /\ Len(w) = Len(states) /\ IsSeq(w)
         /\ \A i \in 1 .. Len(states) :
               /\ w[i].bound = IF i = Top.state THEN x ELSE states[i].bound
               /\ w[i].vars = states[i].vars /\ w[i].env = states[i].env
               /\ w[i].user = states[i].user /\ w[i].first = states[i].first
    <2>1. Len(w) = Len(states) /\ IsSeq(w)
      BY <1>8, <1>13, Rebound
    <2>2. \A i \in 1 .. Len(states) :
               /\ w[i].bound = IF i = Top.state THEN x ELSE states[i].bound
               /\ w[i].vars = states[i].vars /\ w[i].env = states[i].env
               /\ w[i].user = states[i].user /\ w[i].first = states[i].first
      BY <1>8, <1>13, Rebound
    <2> QED
      BY <2>1, <2>2
  <1>15. Top.state \in 1 .. Len(states) /\ State = states[Top.state] /\ Len(states) \in Nat /\ Len(scopes) \in Nat
    BY <1>8, TopIs, SeqBasics DEF IInv
  <1>16. g # Top.state
    <2>1. e \in Nat /\ states[Top.state].env = e
      BY <1>1, <1>10, <1>15
    <2> QED
      BY <1>10, <2>1
  <1>17. /\ st.bound = w[g].bound /\ st.vars = w[g].vars /\ st.env = w[g].env
         /\ st.user = e
    <2>1. st.bound = old.bound /\ st.vars = old.vars /\ st.env = old.env /\ st.user = e
      BY <1>5, NewStateIs
    <2>2. w[g].bound = states[g].bound /\ w[g].vars = states[g].vars /\ w[g].env = states[g].env
      BY <1>10, <1>14, <1>16
    <2> QED
      BY <1>12, <2>1, <2>2
  <1>18. ScopesOK(scopes, w) /\ FirstsOK(w, scopes) /\ NamedIn(w, bindings, scopes)
    <2>1. PICK all : all = states /\ ScopesOK(scopes, all) /\ FirstsOK(all, scopes) /\ NamedIn(all, bindings, scopes)
      BY DEF BInv, Ordered
    <2>2. /\ Len(w) = Len(all)
          /\ \A i \in 1 .. Len(all) : /\ w[i].vars = all[i].vars /\ w[i].env = all[i].env
                                      /\ w[i].user = all[i].user /\ w[i].first = all[i].first
      BY <1>14, <2>1
    <2> QED
      BY <2>1, <2>2, KeptBy
  <1>19. PICK su : su = scopes' /\ su = [scopes EXCEPT ![e].used = TRUE]
    BY <1>6
  <1>20. /\ Len(su) = Len(scopes) /\ ScopesOK(su, w) /\ su[e].used
         /\ \A i \in 1 .. Len(scopes) :
               /\ su[i].giver = scopes[i].giver /\ su[i].block = scopes[i].block
               /\ scopes[i].used => su[i].used
    <2>1. e \in 1 .. Len(scopes) /\ ScopesOK(scopes, w) /\ su = [scopes EXCEPT ![e].used = TRUE]
      BY <1>10, <1>18, <1>19
    <2>2. Len(su) = Len(scopes) /\ ScopesOK(su, w) /\ su[e].used
      BY <2>1, UsedIs
    <2>3. \A i \in 1 .. Len(scopes) :
               /\ su[i].giver = scopes[i].giver /\ su[i].block = scopes[i].block
               /\ scopes[i].used => su[i].used
      BY <2>1, UsedIs
    <2> QED
      BY <2>2, <2>3
  <1>21. FirstsOK(w, su) /\ NamedIn(w, bindings, su)
    <2>1. \A i \in 1 .. Len(states) : w[i].vars = states[i].vars /\ w[i].env = states[i].env
      BY <1>14
    <2>2. /\ Len(su) \in Nat /\ Len(scopes) <= Len(su)
          /\ \A i \in 1 .. Len(scopes) : su[i].giver = scopes[i].giver /\ su[i].block = scopes[i].block
      BY <1>15, <1>20
    <2>3. PICK C : C = bindings /\ \A a \in 1 .. Len(bindings) : C[a] = bindings[a]
      OBVIOUS
    <2>4. FirstsOK(w, su) /\ NamedIn(w, C, su)
      BY <1>14, <1>18, <2>1, <2>2, <2>3, GrownScopes
    <2> QED
      BY <2>3, <2>4
  <1>22. FirstOK(st, w, su)
    <2>1. su[e].giver = g /\ e \in 1 .. Len(su) /\ g # 0
      BY <1>9, <1>10, <1>20
    <2> QED
      BY <1>17, <2>1 DEF FirstOK
  <1>23. Mine(bindings, st.vars, su[st.env].block)
    BY <1>10, <1>14, <1>17, <1>21 DEF NamedIn
  <1>24. BlocksWith(View(stack, w), Len(stack), st, su, A)
    <2>1. PICK n, v, q : n = Len(stack) /\ v = View(stack, states) /\ q = View(stack, w)
      OBVIOUS
    <2>2. /\ n \in Nat /\ n >= 1 /\ v[n].state = Top.state /\ v[n].env = e /\ v[n].bound = State.bound
          /\ \A i \in 1 .. n : /\ v[i].state \in 1 .. Len(states) /\ v[i].state = stack[i].state
                               /\ v[i].env = states[v[i].state].env /\ v[i].bound = states[v[i].state].bound
                               /\ v[i].env \in 1 .. Len(scopes) /\ v[i].env \in Nat
                               /\ Fits(arrays, v[i].bound)
      BY <1>1, <1>8, <2>1, ViewFits
    <2>3. \A i \in 1 .. n : /\ q[i].state = v[i].state /\ q[i].env = v[i].env
                            /\ q[i].bound = w[v[i].state].bound
                            /\ q[i].bound = IF v[i].state = v[n].state THEN x ELSE v[i].bound
      <3>1. \A i \in 1 .. n : /\ q[i].state = stack[i].state /\ q[i].env = w[stack[i].state].env
                              /\ q[i].bound = w[stack[i].state].bound
        BY <2>1, ViewIs
      <3> QED
        BY <1>14, <2>2, <3>1
    <2>4. Blocks(v, n, scopes, arrays)
      BY <2>1 DEF BInv, Ordered
    <2>5. PICK c \in 1 .. n - 1 : v[c].state = g /\ \A l \in c + 1 .. n : e <= v[l].env
      <3>1. n \in 1 .. n /\ scopes[v[n].env].giver # 0 /\ scopes[v[n].env].giver = g
        BY <1>9, <1>10, <2>2
      <3> QED
        BY <2>2, <2>4, <3>1 DEF Blocks, Called
    <2>6. c \in 1 .. n /\ q[c].env = st.env /\ q[c].bound = st.bound /\ v[c].env < e /\ v[c].env \in Nat
      <3>1. c \in 1 .. n
        BY <2>2
      <3> QED
        BY <1>10, <1>17, <1>14, <2>2, <2>3, <2>5, <3>1
    <2>7. Blocks(q, n, su, A)
      <3>1. Heap(arrays) /\ Fits(arrays, State.bound)
        BY <1>8, TopIs DEF IInv, MemoryOK, Fine
      <3>2. P \in 1 .. v[n].bound.len /\ arrays[v[n].bound.arr][P].name = scopes[v[n].env].block
        <4>1. P = Found(arrays, State.bound, MyBlock)
          BY <1>1 DEF Position
        <4>2. /\ P \in 0 .. State.bound.len /\ State.bound.len \in Nat
              /\ P # 0 => arrays[State.bound.arr][P].name = MyBlock
          BY <3>1, <4>1, FoundLast
        <4> QED
          BY <1>6, <1>10, <2>2, <4>2
      <3>3. r = Removed(arrays, v[n].bound, P)
        BY <1>1, <2>2
      <3>4. \A i \in 1 .. n : v[i].state = v[n].state => v[i].bound = v[n].bound
        BY <2>2
      <3>5. \A i \in 1 .. n : /\ su[v[i].env].giver = scopes[v[i].env].giver
                              /\ su[v[i].env].block = scopes[v[i].env].block
                              /\ scopes[v[i].env].used => su[v[i].env].used
        BY <1>20, <2>2
      <3>6. \A i \in 1 .. n : /\ q[i].state = v[i].state /\ q[i].env = v[i].env
                              /\ q[i].bound = IF v[i].state = v[n].state THEN r.slice ELSE v[i].bound
        BY <1>2, <2>3
      <3>7. su[v[n].env].used
        BY <1>20, <2>2
      <3>8. \A i \in 1 .. n : Fits(arrays, v[i].bound) /\ v[i].env \in Nat
        BY <2>2
      <3>9. PICK sc, B : /\ sc = scopes /\ B = arrays
                         /\ Blocks(v, n, sc, B) /\ Heap(B)
                         /\ P \in 1 .. v[n].bound.len /\ B[v[n].bound.arr][P].name = sc[v[n].env].block
                         /\ r = Removed(B, v[n].bound, P)
        BY <2>4, <3>1, <3>2, <3>3
      <3>10. Blocks(q, n, su, r.heap)
        <4>1. \A i \in 1 .. n : Fits(B, v[i].bound) /\ v[i].env \in Nat
          BY <3>8, <3>9
        <4>2. \A i \in 1 .. n : /\ su[v[i].env].giver = sc[v[i].env].giver
                                /\ su[v[i].env].block = sc[v[i].env].block
                                /\ sc[v[i].env].used => su[v[i].env].used
          BY <3>5, <3>9
        <4>3. n \in Nat /\ n >= 1
          BY <2>2
        <4> QED
          BY <3>4, <3>6, <3>7, <3>9, <4>1, <4>2, <4>3, RemovingBlocks
      <3> QED
        BY <1>2, <3>10
    <2>8. ASSUME NEW l \in c + 1 .. n
          PROVE  su[q[l].env].used /\ q[c].env <= q[l].env
      <3>1. l \in 1 .. n /\ n \in 1 .. n /\ l <= n
        BY <2>2, <2>6
      <3>2. q[l].env = v[l].env /\ q[c].env = v[c].env /\ v[l].env \in Nat /\ v[c].env \in Nat
        BY <2>2, <2>3, <2>6, <3>1
      <3>3. q[c].env <= q[l].env
        BY <1>10, <2>5, <2>6, <3>2
      <3>4. Rising(q, n, su)
        BY <2>7 DEF Blocks
      <3>5. q[n].env = e
        BY <2>2, <2>3, <3>1
      <3>6. ~su[q[l].env].used => q[l].env <= e
        BY <3>1, <3>4, <3>5 DEF Rising
      <3>7. e <= q[l].env
        BY <2>5, <3>2
      <3>8. q[l].env <= e => q[l].env = e
        BY <1>10, <3>2, <3>7
      <3> QED
        BY <1>20, <3>3, <3>6, <3>8
    <2>9. \A i \in 1 .. n : q[i].env \in Nat
      BY <2>2, <2>3
    <2>10. ASSUME NEW z, \A i \in 1 .. n : z[i] = q[i], z[n + 1].env = st.env, z[n + 1].bound = st.bound
           PROVE  Blocks(z, n + 1, su, A)
      <3>1. z[n + 1].env = q[c].env /\ z[n + 1].bound = q[c].bound
        BY <2>6, <2>10
      <3> QED
        BY <2>2, <2>6, <2>7, <2>8, <2>9, <2>10, <3>1, EnteringBlocks
    <2> QED
      BY <2>1, <2>10 DEF BlocksWith
  <1>25. BlocksWith(View(stack, w), Len(stack), st, su, arrays')
    BY <1>6, <1>24
  <1> QED
    BY <1>6, <1>7, <1>13, <1>19, <1>20, <1>21, <1>22, <1>23, <1>25, UsingBlocks

\* A block that is not there any more walks in a scope of its own.
LEMMA UseAgainBlocks ==
    ASSUME IInv, BInv, UseBlockAgain
    PROVE  BInv'
  <1>1. PICK e, x, r, tmpl : e = State.env /\ x = State.bound /\ r = GlobalsCopied /\ tmpl = MyBlock
    OBVIOUS
  <1>2. PICK C, y : C = r.heap /\ y = r.slice
    OBVIOUS
  <1>3. PICK depth, first, none, k :
            depth = State.depth + 1 /\ first = ~scopes[e].used /\ none = NoGiver /\ k = Len(scopes)
    OBVIOUS
  <1>4. PICK new : new = k + 1
    OBVIOUS
  <1>5. PICK st : st = NewState(x, depth, y, new, e, first)
    OBVIOUS
  <1>6. PICK us : us = [scopes EXCEPT ![e].used = TRUE]
    OBVIOUS
  <1>7. /\ Ready("block") /\ MyBlock \in DOMAIN body /\ Position = 0 /\ arrays' = arrays
        /\ scopes' = Append(us, none)
    BY <1>1, <1>3, <1>6 DEF UseBlockAgain
  <1>8. Walk(tmpl, st, C, x)
    BY <1>1, <1>2, <1>3, <1>4, <1>5 DEF UseBlockAgain, Walk, Enter
  <1>9. stack # <<>>
    BY <1>7, InstrIs DEF Ready
  <1>10. e \in 1 .. k /\ k \in Nat /\ Top.state \in 1 .. Len(states) /\ State = states[Top.state]
    BY <1>1, <1>3, <1>9, TopIs, SeqBasics DEF IInv, Fine
  <1>11. scopes[e].used
    BY <1>1, <1>7, FirstFound
  <1>12. st.bound = x /\ st.vars = y /\ st.env = new /\ ~st.first
    <2>1. st.bound = x /\ st.vars = y /\ st.env = new /\ st.first = first
      BY <1>5, NewStateIs
    <2>2. ~first
      BY <1>3, <1>11
    <2> QED
      BY <2>1, <2>2
  <1>13. PICK w : w = [states EXCEPT ![Top.state].bound = x]
    OBVIOUS
  <1>14. /\ Len(w) = Len(states)
         /\ \A i \in 1 .. Len(states) :
               /\ w[i].bound = states[i].bound
               /\ w[i].vars = states[i].vars /\ w[i].env = states[i].env
               /\ w[i].user = states[i].user /\ w[i].first = states[i].first
    <2>1. Len(w) = Len(states)
      BY <1>9, <1>13, Rebound
    <2>2. \A i \in 1 .. Len(states) :
               /\ w[i].bound = IF i = Top.state THEN x ELSE states[i].bound
               /\ w[i].vars = states[i].vars /\ w[i].env = states[i].env
               /\ w[i].user = states[i].user /\ w[i].first = states[i].first
      BY <1>9, <1>13, Rebound
    <2> QED
      BY <1>1, <1>10, <2>1, <2>2
  <1>15. ScopesOK(scopes, w) /\ FirstsOK(w, scopes) /\ NamedIn(w, bindings, scopes)
    <2>1. PICK all : all = states /\ ScopesOK(scopes, all) /\ FirstsOK(all, scopes) /\ NamedIn(all, bindings, scopes)
      BY DEF BInv, Ordered
    <2>2. /\ Len(w) = Len(all)
          /\ \A i \in 1 .. Len(all) : /\ w[i].vars = all[i].vars /\ w[i].env = all[i].env
                                      /\ w[i].user = all[i].user /\ w[i].first = all[i].first
      BY <1>14, <2>1
    <2> QED
      BY <2>1, <2>2, KeptBy
  <1>16. IsSeq(us) /\ Len(us) = k /\ ScopesOK(us, w)
    <2>1. e \in 1 .. Len(scopes) /\ ScopesOK(scopes, w)
      BY <1>3, <1>10, <1>15
    <2>2. IsSeq(us) /\ Len(us) = Len(scopes) /\ ScopesOK(us, w)
      BY <1>6, <2>1, UsedIs
    <2> QED
      BY <1>3, <2>2
  <1>17. \A i \in 1 .. k :
             /\ us[i].giver = scopes[i].giver /\ us[i].block = scopes[i].block
             /\ scopes[i].used => us[i].used
    <2>1. e \in 1 .. Len(scopes) /\ ScopesOK(scopes, w)
      BY <1>3, <1>10, <1>15
    <2>2. \A i \in 1 .. Len(scopes) :
             /\ us[i].giver = scopes[i].giver /\ us[i].block = scopes[i].block
             /\ scopes[i].used => us[i].used
      BY <1>6, <2>1, UsedIs
    <2> QED
      BY <1>3, <2>2
  <1>18. PICK su : su = scopes' /\ su = Append(us, none)
    BY <1>7
  <1>19. none.giver = 0 /\ none.block = Null
    BY <1>3 DEF NoGiver
  <1>20. ScopesOK(su, w) /\ Len(su) = k + 1 /\ su[k + 1] = none /\ \A i \in 1 .. k : su[i] = us[i]
    <2>1. ScopeOK(none, new, w)
      BY <1>3 DEF NoGiver, ScopeOK
    <2>2. IsSeq(us) /\ ScopesOK(us, w) /\ new = Len(us) + 1 /\ su = Append(us, none)
      BY <1>4, <1>16, <1>18
    <2>3. ScopesOK(su, w)
      BY <2>1, <2>2, AppendScopes
    <2>4. Len(su) = new /\ su[new] = none /\ \A i \in 1 .. Len(us) : su[i] = us[i]
      BY <2>2, Appending
    <2> QED
      BY <1>4, <1>16, <2>3, <2>4
  <1>21. \A i \in 1 .. k :
             /\ su[i].giver = scopes[i].giver /\ su[i].block = scopes[i].block
             /\ scopes[i].used => su[i].used
    BY <1>17, <1>20
  <1>22. FirstsOK(w, su) /\ NamedIn(w, C, su)
    <2>1. \A i \in 1 .. Len(states) : w[i].vars = states[i].vars /\ w[i].env = states[i].env
      BY <1>14
    <2>2. /\ Len(su) \in Nat /\ Len(scopes) <= Len(su)
          /\ \A i \in 1 .. Len(scopes) : su[i].giver = scopes[i].giver /\ su[i].block = scopes[i].block
      BY <1>3, <1>10, <1>20, <1>21
    <2>3. \A a \in 1 .. Len(bindings) : C[a] = bindings[a]
      BY <1>1, <1>2, GlobalsCopiedIs
    <2> QED
      BY <1>14, <1>15, <2>1, <2>2, <2>3, GrownScopes
  <1>23. FirstOK(st, w, su)
    BY <1>12 DEF FirstOK
  <1>24. Mine(C, st.vars, su[st.env].block)
    <2>1. Without(C, y)
      BY <1>1, <1>2, GlobalsCopiedWithout
    <2>2. su[st.env].block = Null
      BY <1>4, <1>12, <1>19, <1>20
    <2> QED
      BY <1>12, <2>1, <2>2 DEF Mine, Without
  <1>25. BlocksWith(View(stack, w), Len(stack), st, su, arrays)
    <2>1. PICK n, v, q : n = Len(stack) /\ v = View(stack, states) /\ q = View(stack, w)
      OBVIOUS
    <2>2. /\ n \in Nat /\ n >= 1 /\ v[n].state = Top.state /\ v[n].env = e /\ v[n].bound = x
          /\ \A i \in 1 .. n : /\ v[i].state \in 1 .. Len(states) /\ v[i].state = stack[i].state
                               /\ v[i].env \in 1 .. Len(scopes) /\ v[i].env \in Nat
      BY <1>1, <1>9, <2>1, ViewFits
    <2>3. \A i \in 1 .. n : q[i] = v[i]
      <3>1. ASSUME NEW i \in 1 .. n
            PROVE  q[i] = v[i]
        <4>1. q[i] = [state |-> stack[i].state, env |-> w[stack[i].state].env, bound |-> w[stack[i].state].bound]
          BY <2>1 DEF View
        <4>2. v[i] = [state |-> stack[i].state, env |-> states[stack[i].state].env,
                      bound |-> states[stack[i].state].bound]
          BY <2>1 DEF View
        <4>3. stack[i].state \in 1 .. Len(states)
          BY <2>2
        <4> QED
          BY <1>14, <4>1, <4>2, <4>3
      <3> QED
        BY <3>1
    <2>4. Blocks(v, n, su, arrays)
      <3>1. PICK sc, B : sc = scopes /\ B = arrays /\ Blocks(v, n, sc, B)
        BY <2>1 DEF BInv, Ordered
      <3>2. \A i \in 1 .. n : /\ su[v[i].env].giver = sc[v[i].env].giver
                              /\ su[v[i].env].block = sc[v[i].env].block
                              /\ sc[v[i].env].used => su[v[i].env].used
        BY <1>3, <1>21, <2>2, <3>1
      <3>3. Blocks(v, n, su, B)
        BY <2>2, <3>1, <3>2, MoreScopes
      <3> QED
        BY <3>1, <3>3
    <2>5. /\ new \in Nat /\ \A i \in 1 .. n : v[i].env \in Nat /\ v[i].env < new
      BY <1>3, <1>4, <1>10, <2>2
    <2>6. su[new].giver = 0 /\ su[new].block = Null /\ ~Waits(new, su)
      BY <1>4, <1>19, <1>20 DEF Waits
    <2>7. \A i \in 1 .. n : Waits(v[i].env, su) => su[new].block # su[v[i].env].block
      BY <2>6 DEF Waits
    <2>8. ASSUME NEW z, \A i \in 1 .. n : z[i] = q[i], z[n + 1].env = st.env, z[n + 1].bound = st.bound
          PROVE  Blocks(z, n + 1, su, arrays)
      <3>1. z[n + 1].env = new /\ z[n + 1].bound = v[n].bound
        BY <1>12, <2>2, <2>8
      <3>2. \A i \in 1 .. n : z[i] = v[i]
        BY <2>3, <2>8
      <3>3. PICK B : B = arrays /\ Blocks(v, n, su, B)
        BY <2>4
      <3>4. Blocks(z, n + 1, su, B)
        BY <2>2, <2>5, <2>6, <2>7, <3>1, <3>2, <3>3, CallingBlocks
      <3> QED
        BY <3>3, <3>4
    <2> QED
      BY <2>1, <2>8 DEF BlocksWith
  <1>26. BlocksWith(View(stack, w), Len(stack), st, su, arrays')
    BY <1>7, <1>25
  <1> QED
    BY <1>7, <1>8, <1>13, <1>18, <1>20, <1>22, <1>23, <1>24, <1>26, UsingBlocks

\* One scope, whose variables are the globals.
LEMMA InitBlocks == Init => BInv
  <1> SUFFICES ASSUME Init PROVE BInv
    OBVIOUS
  <1>1. PICK B, s, xs, r : /\ B = <<<<Binding("$", Null)>>>> /\ s = [arr |-> 1, len |-> 1] /\ xs = Globals
                           /\ r = Appended(B, s, xs, Unbound)
    OBVIOUS
  <1>2. PICK first : first = FALSE
    OBVIOUS
  <1>3. PICK st : st = NewState(NoSlice, 0, r.slice, 1, 1, first)
    OBVIOUS
  <1>4. PICK f : f = Frame(1, "template", body[Main], Nothing, <<>>)
    OBVIOUS
  <1>5. states = <<st>> /\ bindings = r.heap /\ scopes = <<NoGiver>> /\ stack = <<f>>
    BY <1>1, <1>2, <1>3, <1>4 DEF Init
  <1>6. f.state = 1 /\ f.kind = "template"
    BY <1>4 DEF Frame
  <1>7. Len(stack) = 1 /\ stack[1] = f /\ Len(states) = 1 /\ states[1] = st
        /\ Len(scopes) = 1 /\ scopes[1] = NoGiver /\ \A i \in 1 .. 1 : i = 1
    BY <1>5
  <1>8. KindsOK(stack)
    BY <1>6, <1>7 DEF KindsOK, KindOK
  <1>9. st.vars = r.slice /\ st.env = 1 /\ st.first = FALSE /\ st.bound = NoSlice
    BY <1>2, <1>3, NewStateIs
  <1>10. NoGiver.giver = 0 /\ NoGiver.block = Null
         /\ NoGiver = [giver |-> NoGiver.giver, block |-> NoGiver.block, used |-> NoGiver.used]
    BY DEF NoGiver
  <1>11. ScopesOK(scopes, states)
    BY <1>7, <1>10 DEF ScopesOK, ScopeOK
  <1>12. FirstsOK(states, scopes)
    BY <1>7, <1>9 DEF FirstsOK, FirstOK
  <1>13. NamedIn(states, bindings, scopes)
    <2>1. Heap(B) /\ Fits(B, s)
      <3>1. PICK b : b = <<Binding("$", Null)>>
        OBVIOUS
      <3>2. B = <<b>> /\ Len(b) = 1 /\ IsSeq(b)
        BY <1>1, <3>1, OneIsSeq
      <3>3. IsSeq(B) /\ Len(B) = 1 /\ B[1] = b
        BY <3>2, OneIsSeq
      <3>4. s.arr = 1 /\ s.len = 1 /\ s \in Slices
        BY <1>1 DEF Slices
      <3> QED
        BY <3>2, <3>3, <3>4 DEF Heap, Fits, Cap
    <2>2. Without(B, s)
      BY <1>1 DEF Without, Binding
    <2>3. IsSeq(xs) /\ \A i \in 1 .. Len(xs) : xs[i].name # "$block"
      BY <1>1, GlobalsNoBlock
    <2>4. Saves(B, s, r.heap, r.slice)
      BY <1>1, <2>1, <2>3, AppendSaves
    <2>5. Without(r.heap, r.slice)
      BY <2>2, <2>4 DEF Saves
    <2>6. Mine(r.heap, r.slice, Null)
      BY <2>5 DEF Mine, Without
    <2> QED
      BY <1>5, <1>7, <1>9, <1>10, <2>6 DEF NamedIn
  <1>14. Blocks(View(stack, states), Len(stack), scopes, arrays)
    <2>1. PICK v : v = View(stack, states)
      OBVIOUS
    <2>2. v[1].env = 1
      BY <1>6, <1>7, <1>9, <2>1, ViewIs
    <2>3. Rising(v, 1, scopes) /\ Called(v, 1, scopes) /\ OwnNames(v, 1, scopes) /\ Holding(v, 1, scopes, arrays)
      BY <1>7, <1>10, <2>2 DEF Rising, Called, OwnNames, Holding, Waits
    <2> QED
      BY <1>7, <2>1, <2>3 DEF Blocks
  <1> QED
    BY <1>8, <1>11, <1>12, <1>13, <1>14 DEF BInv, Ordered

LEMMA NextBlocks ==
    ASSUME IInv, BInv, Orderly, [Next]_vars
    PROVE  BInv'
  <1>1. CASE UNCHANGED vars
    BY <1>1 DEF vars, BInv
  <1>2. CASE Next
    BY <1>1, <1>2, PlainBlocks, NamingBlocks, PanicBlocks, UndefinedBlocks,
       CallBlocks, UseBlockBlocks, UseAgainBlocks DEF Next, Returned
  <1> QED
    BY <1>1, <1>2

LEMMA BInvScope == ASSUME IInv, BInv PROVE BlockScope
  <1> SUFFICES ASSUME NEW i \in DOMAIN stack, states[stack[i].state].first
               PROVE  LET s == states[stack[i].state]
                          giver == scopes[s.user].giver
                      IN  giver # 0 /\ s.env = states[giver].env
    BY DEF BlockScope
  <1>1. stack[i].state \in 1 .. Len(states)
    BY SeqBasics DEF IInv, StackOK, FrameOK
  <1> QED
    BY <1>1 DEF BInv, Ordered, FirstsOK, FirstOK

-----------------------------------------------------------------------------
(* The values of the variables.                                            *)

\* Of the first n entries of q, the last one of the name x has the value v.
LastOf(q, n, x, v) ==
    \E k \in 1 .. n : /\ q[k].name = x /\ q[k].value = v
                      /\ \A j \in k + 1 .. n : q[j].name # x
Has(B, z, x, v) == LastOf(B[z.arr], z.len, x, v)

\* Writing the entries es to the slice s, which becomes t, gives the names of
\* es their values, and leaves the others in it and in shorter slices of its
\* array.
Tells(B, s, C, t, es) ==
    /\ \A x, v : LastOf(es, Len(es), x, v) => Has(C, t, x, v)
    /\ \A x, v : x \notin Names(es) /\ Has(B, s, x, v) => Has(C, t, x, v)
    /\ \A z, x, v : Fits(B, z) /\ z.arr = s.arr /\ z.len <= s.len
                    /\ x \notin Names(es) /\ Has(B, z, x, v) => Has(C, z, x, v)
    /\ t.arr = s.arr => s.len <= t.len

\* The first n entries of r say of the name x what those of q do.
SameOf(q, r, n, x) ==
    \A j \in 1 .. n : /\ r[j].name = x <=> q[j].name = x
                      /\ r[j].name = x => r[j].value = q[j].value

LEMMA LastSame ==
    ASSUME NEW q, NEW n \in Nat, NEW x, NEW v, LastOf(q, n, x, v), NEW r, SameOf(q, r, n, x)
    PROVE  LastOf(r, n, x, v)
  <1>1. PICK k \in 1 .. n : /\ q[k].name = x /\ q[k].value = v
                            /\ \A j \in k + 1 .. n : q[j].name # x
    BY DEF LastOf
  <1>2. \A j \in k + 1 .. n : j \in 1 .. n
    OBVIOUS
  <1> QED
    BY <1>1, <1>2 DEF LastOf, SameOf

\* What varValue returns.
LEMMA HasValue ==
    ASSUME NEW B, Heap(B), NEW z, Fits(B, z), NEW x, NEW v, Has(B, z, x, v)
    PROVE  varValue(B, z, x) = v
  <1>1. PICK f : f = Found(B, z, x)
    OBVIOUS
  <1>2. /\ f \in 0 .. z.len /\ z.len \in Nat
        /\ f # 0 => B[z.arr][f].name = x
        /\ \A j \in f + 1 .. z.len : B[z.arr][j].name # x
    BY <1>1, FoundLast
  <1>3. PICK k \in 1 .. z.len : /\ B[z.arr][k].name = x /\ B[z.arr][k].value = v
                                /\ \A j \in k + 1 .. z.len : B[z.arr][j].name # x
    BY DEF Has, LastOf
  <1>4. k \notin f + 1 .. z.len
    BY <1>2, <1>3
  <1>5. f # 0 /\ f \in 1 .. z.len
    BY <1>2, <1>3, <1>4
  <1>6. f \notin k + 1 .. z.len
    BY <1>2, <1>3, <1>5
  <1>7. f = k
    BY <1>2, <1>3, <1>4, <1>5, <1>6
  <1> QED
    BY <1>1, <1>3, <1>5, <1>7 DEF varValue

\* What is noted of an assignment: the last value it gives.
LEMMA ValueInIs ==
    ASSUME NEW es, IsSeq(es), NEW x \in Names(es)
    PROVE  LastOf(es, Len(es), x, ValueIn(es, x))
  <1>1. PICK n \in Nat : n = Len(es) /\ DOMAIN es = 1 .. n
    BY SeqBasics
  <1>2. PICK I : I = {i \in 1 .. n : es[i].name = x}
    OBVIOUS
  <1>3. PICK i0 \in 1 .. n : es[i0].name = x
    BY <1>1 DEF Names
  <1>4. I \subseteq 1 .. n /\ I # {}
    BY <1>2, <1>3
  <1>5. PICK f : f = Max(I)
    OBVIOUS
  <1>6. f \in I /\ \A i \in I : i <= f
    BY <1>4, <1>5, MaxExists
  <1>7. ValueIn(es, x) = es[f].value
    <2>1. SelectLastInSeq(es, LAMBDA e : e.name = x) = IF I # {} THEN Max(I) ELSE 0
      BY <1>1, <1>2 DEF SelectLastInSeq
    <2> QED
      BY <1>4, <1>5, <2>1 DEF ValueIn
  <1>8. f \in 1 .. n /\ es[f].name = x
    BY <1>2, <1>6
  <1>9. ASSUME NEW j \in f + 1 .. n PROVE es[j].name # x
    <2>1. j \in 1 .. n /\ ~(j <= f)
      BY <1>8
    <2> QED
      BY <1>2, <1>6, <2>1
  <1> QED
    BY <1>1, <1>7, <1>8, <1>9 DEF LastOf

LEMMA NamesAre ==
    ASSUME NEW es, IsSeq(es), NEW i \in 1 .. Len(es)
    PROVE  es[i].name \in Names(es)
  BY SeqBasics DEF Names

LEMMA AppendTells ==
    ASSUME NEW B, Heap(B), NEW s, Fits(B, s), NEW xs, IsSeq(xs), NEW empty,
           NEW r, r = Appended(B, s, xs, empty)
    PROVE  Tells(B, s, r.heap, r.slice, xs)
  <1>1. PICK C, t : C = r.heap /\ t = r.slice
    OBVIOUS
  <1>2. PICK m \in Nat : m = s.len
    BY FitsFields
  <1>3. PICK l \in Nat : l = Len(xs)
    BY SeqBasics
  <1>4. t.len = m + l
    <2>1. r.slice.len = s.len + Len(xs)
      BY Appends
    <2> QED
      BY <1>1, <1>2, <1>3, <2>1
  <1>5. \A j \in 1 .. m + l : C[t.arr][j] = IF j <= m THEN B[s.arr][j] ELSE xs[j - m]
    <2>1. \A j \in 1 .. r.slice.len : r.heap[r.slice.arr][j] = IF j <= s.len THEN B[s.arr][j] ELSE xs[j - s.len]
      BY Appends
    <2> QED
      BY <1>1, <1>2, <1>4, <2>1
  <1>6. ASSUME NEW x, NEW v, LastOf(xs, l, x, v)
        PROVE  Has(C, t, x, v)
    <2>1. PICK k \in 1 .. l : /\ xs[k].name = x /\ xs[k].value = v
                              /\ \A j \in k + 1 .. l : xs[j].name # x
      BY <1>6 DEF LastOf
    <2>2. PICK h : h = m + k
      OBVIOUS
    <2>3. h \in 1 .. m + l /\ ~(h <= m) /\ h - m = k
      BY <2>2
    <2>4. C[t.arr][h] = xs[k]
      BY <1>5, <2>3
    <2>5. ASSUME NEW j \in h + 1 .. m + l PROVE C[t.arr][j].name # x
      <3>1. j \in 1 .. m + l /\ ~(j <= m) /\ j - m \in k + 1 .. l
        BY <2>2
      <3> QED
        BY <1>5, <2>1, <3>1
    <2> QED
      BY <1>4, <2>1, <2>3, <2>4, <2>5 DEF Has, LastOf
  <1>7. ASSUME NEW x, NEW v, x \notin Names(xs), Has(B, s, x, v)
        PROVE  Has(C, t, x, v)
    <2>1. PICK k \in 1 .. m : /\ B[s.arr][k].name = x /\ B[s.arr][k].value = v
                              /\ \A j \in k + 1 .. m : B[s.arr][j].name # x
      BY <1>2, <1>7 DEF Has, LastOf
    <2>2. k \in 1 .. m + l /\ k <= m
      OBVIOUS
    <2>3. ASSUME NEW j \in k + 1 .. m + l PROVE C[t.arr][j].name # x
      <3>1. j \in 1 .. m + l
        OBVIOUS
      <3>2. CASE j <= m
        BY <1>5, <2>1, <3>1, <3>2
      <3>3. CASE ~(j <= m)
        <4>1. j - m \in 1 .. l
          BY <3>3
        <4>2. xs[j - m].name # x
          BY <1>3, <1>7, <4>1, NamesAre
        <4> QED
          BY <1>5, <3>1, <3>3, <4>2
      <3> QED
        BY <3>2, <3>3
    <2> QED
      BY <1>4, <1>5, <2>1, <2>2, <2>3 DEF Has, LastOf
  <1>8. ASSUME NEW z, NEW x, NEW v, Fits(B, z), z.arr = s.arr, z.len <= m, Has(B, z, x, v)
        PROVE  Has(C, z, x, v)
    <2>1. z.len \in Nat /\ (z.len # 0 => z.arr \in 1 .. Len(B) /\ z.len <= Len(B[z.arr]))
      BY <1>8, FitsFields
    <2>2. z.len # 0 => Len(B[z.arr]) \in Nat
      BY <2>1, SeqBasics DEF Heap
    <2>3. ASSUME NEW j \in 1 .. z.len PROVE C[z.arr][j] = B[z.arr][j]
      <3>1. z.arr \in 1 .. Len(B) /\ j \in 1 .. Len(B[z.arr]) /\ ~(j - m \in 1 .. l)
        BY <1>8, <2>1, <2>2
      <3>2. C[z.arr][j] = B[z.arr][j] \/ (j - s.len \in 1 .. Len(xs) /\ r.heap[z.arr][j] = xs[j - s.len])
        BY <1>1, <3>1, Appends
      <3> QED
        BY <1>2, <1>3, <3>1, <3>2
    <2>4. SameOf(B[z.arr], C[z.arr], z.len, x)
      BY <2>3 DEF SameOf
    <2> QED
      BY <1>8, <2>1, <2>4, LastSame DEF Has
  <1>9. s.len <= t.len
    BY <1>2, <1>4
  <1> QED
    BY <1>1, <1>2, <1>3, <1>6, <1>7, <1>8, <1>9 DEF Tells

LEMMA OneTells ==
    ASSUME NEW B, Heap(B), NEW s, Fits(B, s), NEW m, m = [heap |-> B, slice |-> s],
           NEW e, NEW es, es = <<e>>, NEW r, r = setVarValue(m, e)
    PROVE  Tells(B, s, r.heap, r.slice, es)
  <1>1. PICK i : i = Found(B, s, e.name)
    OBVIOUS
  <1>2. /\ i \in 0 .. s.len /\ s.len \in Nat
        /\ i # 0 => B[s.arr][i].name = e.name
        /\ \A j \in i + 1 .. s.len : B[s.arr][j].name # e.name
    BY <1>1, FoundLast
  <1>3. IsSeq(es) /\ Len(es) = 1 /\ es[1] = e
    BY OneIsSeq
  <1>4. CASE i = 0
    <2>1. PICK empty : empty = Unbound
      OBVIOUS
    <2>2. r = Appended(B, s, es, empty)
      BY <1>1, <1>4, <2>1 DEF setVarValue
    <2> QED
      BY <1>3, <2>2, AppendTells
  <1>5. CASE i # 0
    <2>1. s.arr \in 1 .. Len(B) /\ i \in 1 .. Len(B[s.arr]) /\ IsSeq(B)
      BY <1>2, <1>5, FitsFields DEF Heap
    <2>2. PICK n \in Nat : n = Len(B) /\ DOMAIN B = 1 .. n
      BY <2>1, SeqBasics
    <2>3. PICK C : C = [B EXCEPT ![s.arr][i] = e]
      OBVIOUS
    <2>4. r.heap = C /\ r.slice = s
      BY <1>1, <1>5, <2>3 DEF setVarValue
    <2>5. IsSeq(B[s.arr])
      BY <2>1 DEF Heap
    <2>6. PICK l \in Nat : l = Len(B[s.arr]) /\ DOMAIN B[s.arr] = 1 .. l
      BY <2>5, SeqBasics
    <2>7. C[s.arr] = [B[s.arr] EXCEPT ![i] = e]
      BY <2>1, <2>2, <2>3
    <2>8. C[s.arr][i] = e /\ \A k \in 1 .. l : k # i => C[s.arr][k] = B[s.arr][k]
      BY <2>1, <2>6, <2>7
    <2>9. \A k \in 1 .. s.len : k \in 1 .. l
      BY <2>1, <2>6, FitsFields
    <2>10. ASSUME NEW x, NEW v, LastOf(es, 1, x, v)
           PROVE  Has(C, s, x, v)
      <3>1. PICK k \in 1 .. 1 : es[k].name = x /\ es[k].value = v
        BY <2>10 DEF LastOf
      <3>2. k = 1
        OBVIOUS
      <3>3. e.name = x /\ e.value = v
        BY <1>3, <3>1, <3>2
      <3>4. i \in 1 .. s.len
        BY <1>2, <1>5
      <3>5. \A j \in i + 1 .. s.len : j \in 1 .. s.len /\ j # i
        BY <3>4
      <3>6. \A j \in i + 1 .. s.len : C[s.arr][j].name # x
        BY <1>2, <2>8, <2>9, <3>3, <3>5
      <3> QED
        BY <2>8, <3>3, <3>4, <3>6 DEF Has, LastOf
    <2>11. ASSUME NEW z, Fits(B, z), z.arr = s.arr, NEW x, NEW v, x # e.name, Has(B, z, x, v)
           PROVE  Has(C, z, x, v)
      <3>1. z.len \in Nat /\ \A k \in 1 .. z.len : k \in 1 .. l
        BY <2>1, <2>6, <2>11, FitsFields
      <3>2. \A k \in 1 .. l : /\ C[s.arr][k].name = x <=> B[s.arr][k].name = x
                              /\ C[s.arr][k].name = x => C[s.arr][k].value = B[s.arr][k].value
        BY <1>2, <1>5, <2>8, <2>11
      <3>3. SameOf(B[s.arr], C[s.arr], z.len, x)
        BY <3>1, <3>2 DEF SameOf
      <3> QED
        BY <2>11, <3>1, <3>3, LastSame DEF Has
    <2>12. e.name \in Names(es)
      BY <1>3, NamesAre
    <2>13. s.len <= s.len
      BY <1>2
    <2>14. \A x, v : LastOf(es, Len(es), x, v) => Has(C, s, x, v)
      BY <1>3, <2>10
    <2>15. \A x, v : x \notin Names(es) /\ Has(B, s, x, v) => Has(C, s, x, v)
      BY <2>11, <2>12
    <2>16. \A z, x, v : Fits(B, z) /\ z.arr = s.arr /\ z.len <= s.len
                        /\ x \notin Names(es) /\ Has(B, z, x, v) => Has(C, z, x, v)
      BY <2>11, <2>12
    <2> QED
      BY <2>4, <2>13, <2>14, <2>15, <2>16 DEF Tells
  <1> QED
    BY <1>4, <1>5

\* gs are the entries es and then the entries fs.
Follows(es, fs, gs) ==
    /\ Names(gs) = Names(es) \cup Names(fs)
    /\ \A x, v : LastOf(gs, Len(gs), x, v) =>
          LastOf(fs, Len(fs), x, v) \/ (x \notin Names(fs) /\ LastOf(es, Len(es), x, v))

LEMMA TellsTwice ==
    ASSUME NEW B, NEW s, NEW C, NEW t, NEW D, NEW u, Heap(B), Fits(B, s), s.arr # 0,
           NEW es, NEW fs, NEW gs, Follows(es, fs, gs),
           Written(B, s, C, t), Tells(B, s, C, t, es), Written(C, t, D, u), Tells(C, t, D, u, fs)
    PROVE  Tells(B, s, D, u, gs)
  <1>1. /\ Grown(B, C) /\ Heap(C) /\ Fits(C, t) /\ Fits(D, u) /\ Heap(D)
        /\ t.arr = s.arr \/ t.arr > Len(B)
        /\ u.arr = t.arr \/ u.arr > Len(C)
        /\ \A a \in 1 .. Len(C) : a # t.arr => D[a] = C[a]
        /\ Len(B) \in Nat /\ Len(C) \in Nat /\ Len(B) <= Len(C)
    BY FitsFields DEF Written, Grown
  <1>2. /\ s.arr \in 1 .. Len(B) /\ t.arr \in Nat /\ u.arr \in Nat
        /\ s.len \in Nat /\ t.len \in Nat /\ u.len \in Nat
    BY <1>1, FitsFields
  <1>3. ASSUME NEW x, NEW v, LastOf(gs, Len(gs), x, v)
        PROVE  Has(D, u, x, v)
    <2>1. CASE LastOf(fs, Len(fs), x, v)
      BY <2>1 DEF Tells
    <2>2. CASE x \notin Names(fs) /\ LastOf(es, Len(es), x, v)
      <3>1. Has(C, t, x, v)
        BY <2>2 DEF Tells
      <3> QED
        BY <2>2, <3>1 DEF Tells
    <2> QED
      BY <1>3, <2>1, <2>2 DEF Follows
  <1>4. ASSUME NEW x, NEW v, x \notin Names(gs), Has(B, s, x, v)
        PROVE  Has(D, u, x, v)
    <2>1. x \notin Names(es) /\ x \notin Names(fs)
      BY <1>4 DEF Follows
    <2>2. Has(C, t, x, v)
      BY <1>4, <2>1 DEF Tells
    <2> QED
      BY <2>1, <2>2 DEF Tells
  <1>5. ASSUME NEW z, NEW x, NEW v, Fits(B, z), z.arr = s.arr, z.len <= s.len,
               x \notin Names(gs), Has(B, z, x, v)
        PROVE  Has(D, z, x, v)
    <2>1. x \notin Names(es) /\ x \notin Names(fs)
      BY <1>5 DEF Follows
    <2>2. Has(C, z, x, v)
      BY <1>5, <2>1 DEF Tells
    <2>3. Fits(C, z) /\ z.len \in Nat
      BY <1>1, <1>5, FitsStays, FitsFields
    <2>4. CASE t.arr = s.arr
      <3>1. s.len <= t.len
        BY <2>4 DEF Tells
      <3>2. z.len <= t.len
        BY <1>2, <1>5, <2>3, <3>1
      <3>3. z.arr = t.arr
        BY <1>5, <2>4
      <3> QED
        BY <2>1, <2>2, <2>3, <3>2, <3>3 DEF Tells
    <2>5. CASE t.arr # s.arr
      <3>1. s.arr \in 1 .. Len(C)
        BY <1>1, <1>2
      <3>2. D[z.arr] = C[z.arr]
        BY <1>1, <1>5, <2>5, <3>1
      <3> QED
        BY <2>2, <3>2 DEF Has
    <2> QED
      BY <2>4, <2>5
  <1>6. ASSUME u.arr = s.arr
        PROVE  s.len <= u.len
    <2>1. t.arr = s.arr
      BY <1>1, <1>2, <1>6
    <2>2. s.len <= t.len /\ t.len <= u.len
      BY <1>6, <2>1 DEF Tells
    <2> QED
      BY <1>2, <2>2
  <1> QED
    BY <1>3, <1>4, <1>5, <1>6 DEF Tells

LEMMA SameSeq ==
    ASSUME NEW a, IsSeq(a), NEW b, IsSeq(b), Len(a) = Len(b), \A i \in 1 .. Len(a) : a[i] = b[i]
    PROVE  a = b
  <1>1. a = [i \in 1 .. Len(a) |-> a[i]] /\ b = [i \in 1 .. Len(b) |-> b[i]]
    BY IsFunction
  <1> QED
    BY <1>1

LEMMA OneFollows ==
    ASSUME NEW es, IsSeq(es), NEW f, NEW fs, fs = <<f>>,
           NEW gs, IsSeq(gs), NEW n, n = Len(es), Len(gs) = n + 1, gs[n + 1] = f,
           \A i \in 1 .. n : gs[i] = es[i]
    PROVE  Follows(es, fs, gs)
  <1>1. n \in Nat /\ DOMAIN es = 1 .. n /\ DOMAIN gs = 1 .. n + 1
    BY SeqBasics
  <1>2. IsSeq(fs) /\ Len(fs) = 1 /\ fs[1] = f /\ DOMAIN fs = 1 .. 1
    BY OneIsSeq, SeqBasics
  <1>3. \A i \in 1 .. n + 1 : i \in 1 .. n \/ i = n + 1
    BY <1>1
  <1>4. \A i \in 1 .. n : i \in 1 .. n + 1
    BY <1>1
  <1>5. n + 1 \in 1 .. n + 1 /\ 1 \in 1 .. 1 /\ \A i \in 1 .. 1 : i = 1
    BY <1>1
  <1>6. Names(fs) = {f.name}
    BY <1>2, <1>5 DEF Names
  <1>7. Names(gs) = Names(es) \cup Names(fs)
    <2>1. \A x \in Names(gs) : x \in Names(es) \cup {f.name}
      BY <1>1, <1>3 DEF Names
    <2>2. \A x \in Names(es) : x \in Names(gs)
      BY <1>1, <1>4 DEF Names
    <2>3. f.name \in Names(gs)
      BY <1>1, <1>5 DEF Names
    <2> QED
      BY <1>6, <2>1, <2>2, <2>3
  <1>8. ASSUME NEW x, NEW v, LastOf(gs, n + 1, x, v)
        PROVE  LastOf(fs, 1, x, v) \/ (x \notin Names(fs) /\ LastOf(es, n, x, v))
    <2>1. PICK k \in 1 .. n + 1 : /\ gs[k].name = x /\ gs[k].value = v
                                  /\ \A j \in k + 1 .. n + 1 : gs[j].name # x
      BY <1>8 DEF LastOf
    <2>2. CASE k = n + 1
      <3>1. fs[1].name = x /\ fs[1].value = v
        BY <1>2, <2>1, <2>2
      <3>2. \A j \in 1 + 1 .. 1 : fs[j].name # x
        OBVIOUS
      <3> QED
        BY <1>5, <3>1, <3>2 DEF LastOf
    <2>3. CASE k # n + 1
      <3>1. k \in 1 .. n /\ n + 1 \in k + 1 .. n + 1
        BY <1>1, <1>3, <2>3
      <3>2. f.name # x
        BY <2>1, <3>1
      <3>3. \A j \in k + 1 .. n : j \in 1 .. n /\ j \in k + 1 .. n + 1
        BY <1>1, <3>1
      <3>4. LastOf(es, n, x, v)
        BY <2>1, <3>1, <3>3 DEF LastOf
      <3> QED
        BY <1>6, <3>2, <3>4
    <2> QED
      BY <2>2, <2>3
  <1> QED
    BY <1>2, <1>7, <1>8 DEF Follows

LEMMA ValuesTell ==
    ASSUME NEW B, Heap(B), NEW s, Fits(B, s), s.arr # 0, NEW es, IsSeq(es), Len(es) \in 1 .. 3,
           NEW r, r = setVarValues(B, s, es)
    PROVE  Tells(B, s, r.heap, r.slice, es)
  <1>1. PICK e, f, g : e = es[1] /\ f = es[2] /\ g = es[3]
    OBVIOUS
  <1>2. PICK m : m = [heap |-> B, slice |-> s]
    OBVIOUS
  <1>3. PICK one : one = setVarValue(m, e)
    OBVIOUS
  <1>4. PICK two : two = setVarValue(one, f)
    OBVIOUS
  <1>5. PICK three : three = setVarValue(two, g)
    OBVIOUS
  <1>6. PICK os, fs, gs : os = <<e>> /\ fs = <<f>> /\ gs = <<g>>
    OBVIOUS
  <1>7. Written(B, s, one.heap, one.slice) /\ one = [heap |-> one.heap, slice |-> one.slice]
    BY <1>2, <1>3, OneWrites
  <1>8. Tells(B, s, one.heap, one.slice, os)
    BY <1>2, <1>3, <1>6, OneTells
  <1>9. Heap(one.heap) /\ Fits(one.heap, one.slice)
    BY <1>7 DEF Written, Grown
  <1>10. IsSeq(os) /\ Len(os) = 1 /\ os[1] = e
    BY <1>6, OneIsSeq
  <1>11. CASE Len(es) = 1
    <2>1. r = one
      BY <1>1, <1>2, <1>3, <1>11 DEF setVarValues
    <2>2. os = es
      <3>1. \A i \in 1 .. 1 : i = 1
        OBVIOUS
      <3> QED
        BY <1>1, <1>10, <1>11, <3>1, SameSeq
    <2> QED
      BY <1>8, <2>1, <2>2
  <1>12. Written(one.heap, one.slice, two.heap, two.slice) /\ two = [heap |-> two.heap, slice |-> two.slice]
    BY <1>4, <1>7, <1>9, OneWrites
  <1>13. Tells(one.heap, one.slice, two.heap, two.slice, fs)
    BY <1>4, <1>6, <1>7, <1>9, OneTells
  <1>14. ASSUME NEW ps, IsSeq(ps), Len(ps) = 2, ps[1] = e, ps[2] = f
         PROVE  Tells(B, s, two.heap, two.slice, ps)
    <2>1. PICK n : n = 1 /\ n = Len(os)
      BY <1>10
    <2>2. Len(ps) = n + 1 /\ ps[n + 1] = f /\ \A i \in 1 .. n : ps[i] = os[i]
      <3>1. \A i \in 1 .. 1 : i = 1
        OBVIOUS
      <3> QED
        BY <1>10, <1>14, <2>1, <3>1
    <2>3. Follows(os, fs, ps)
      BY <1>6, <1>10, <1>14, <2>1, <2>2, OneFollows
    <2> QED
      BY <1>7, <1>8, <1>12, <1>13, <2>3, TellsTwice
  <1>15. Written(B, s, two.heap, two.slice)
    BY <1>7, <1>12, WrittenTwice
  <1>16. CASE Len(es) = 2
    <2>1. r = two
      BY <1>1, <1>2, <1>3, <1>4, <1>16 DEF setVarValues
    <2> QED
      BY <1>1, <1>14, <1>16, <2>1
  <1>17. CASE Len(es) = 3
    <2>1. r = three
      BY <1>1, <1>2, <1>3, <1>4, <1>5, <1>17 DEF setVarValues
    <2>2. PICK ps : ps = SubSeq(es, 1, 2)
      OBVIOUS
    <2>3. IsSeq(ps) /\ Len(ps) = 2 /\ \A i \in 1 .. 2 : ps[i] = es[i]
      <3>1. 2 \in Nat /\ 2 <= Len(es)
        BY <1>17
      <3> QED
        BY <2>2, <3>1, Cutting
    <2>4. 1 \in 1 .. 2 /\ 2 \in 1 .. 2
      OBVIOUS
    <2>5. Tells(B, s, two.heap, two.slice, ps)
      BY <1>1, <1>14, <2>3, <2>4
    <2>6. Heap(two.heap) /\ Fits(two.heap, two.slice)
      BY <1>12 DEF Written, Grown
    <2>7. Written(two.heap, two.slice, three.heap, three.slice)
      BY <1>5, <1>12, <2>6, OneWrites
    <2>8. Tells(two.heap, two.slice, three.heap, three.slice, gs)
      BY <1>5, <1>6, <1>12, <2>6, OneTells
    <2>9. PICK n : n = 2 /\ n = Len(ps)
      BY <2>3
    <2>10. Len(es) = n + 1 /\ es[n + 1] = g /\ \A i \in 1 .. n : es[i] = ps[i]
      BY <1>1, <1>17, <2>3, <2>9
    <2>11. Follows(ps, gs, es)
      BY <1>6, <2>3, <2>9, <2>10, OneFollows
    <2> QED
      BY <1>15, <2>1, <2>5, <2>7, <2>8, <2>11, TellsTwice
  <1>18. Len(es) = 1 \/ Len(es) = 2 \/ Len(es) = 3
    OBVIOUS
  <1> QED
    BY <1>11, <1>16, <1>17, <1>18

\* What the state i notes after the state s assigned es.
Notes(all, i, mine, s, es) ==
    \A x \in DOMAIN mine :
        \/ /\ x \in DOMAIN all[i].mine /\ mine[x] = all[i].mine[x]
           /\ all[i].env = all[s].env => x \notin Names(es)
        \/ i = s /\ x \in Names(es) /\ mine[x] = ValueIn(es, x)

LEMMA StoredNotes ==
    ASSUME NEW all, NEW B, NEW A, NEW k, MemoryOK(all, A, B, k),
           NEW m, m = [states |-> all, bindings |-> B],
           NEW s \in 1 .. Len(all), NEW r, NEW es,
           NEW q, q = Stored(m, s, r, es), NEW i \in 1 .. Len(all)
    PROVE  Notes(all, i, q.states[i].mine, s, es)
  <1>1. PICK n \in Nat : n = Len(all) /\ DOMAIN all = 1 .. n /\ IsSeq(all)
    BY SeqBasics DEF MemoryOK
  <1>2. \A j \in 1 .. n : IsState(all[j])
    BY <1>1 DEF MemoryOK, Fine
  <1>3. PICK t : t = [all EXCEPT ![s].vars = r.slice]
    OBVIOUS
  <1>4. /\ t = [j \in 1 .. n |-> t[j]]
        /\ \A j \in 1 .. n : t[j] = IF j = s THEN [all[j] EXCEPT !.vars = r.slice] ELSE all[j]
    BY <1>1, <1>3
  <1>5. \A j \in 1 .. n : IsState(t[j]) /\ t[j].env = all[j].env /\ t[j].mine = all[j].mine
    BY <1>2, <1>4 DEF IsState
  <1>6. PICK w : w = Noted(t, s, es)
    OBVIOUS
  <1>7. q.states = w
    BY <1>3, <1>6 DEF Stored
  <1>8. PICK old, others, N : old = t[i].mine /\ others = DOMAIN old \ N /\ N = Names(es)
    OBVIOUS
  <1>9. w[i] = IF t[i].env # t[s].env THEN t[i]
               ELSE IF i # s THEN [t[i] EXCEPT !.mine = [y \in others |-> old[y]]]
               ELSE [t[i] EXCEPT !.mine =
                       [y \in others \cup N |-> IF y \in others THEN old[y] ELSE ValueIn(es, y)]]
    <2>1. DOMAIN t = 1 .. n
      BY <1>4
    <2> QED
      BY <1>1, <1>6, <1>8, <2>1 DEF Noted
  <1>10. IsState(t[i]) /\ old = all[i].mine /\ t[i].env = all[i].env /\ t[s].env = all[s].env
    BY <1>1, <1>5, <1>8
  <1>11. PICK mine : mine = w[i].mine
    OBVIOUS
  <1>12. CASE all[i].env # all[s].env
    <2>1. mine = all[i].mine
      BY <1>9, <1>10, <1>11, <1>8, <1>12
    <2> QED
      BY <1>7, <1>11, <1>12, <2>1 DEF Notes
  <1>13. CASE all[i].env = all[s].env /\ i # s
    <2>1. mine = [y \in others |-> old[y]]
      BY <1>9, <1>10, <1>11, <1>13 DEF IsState
    <2>2. \A x \in DOMAIN mine : x \in DOMAIN old /\ mine[x] = old[x] /\ x \notin N
      BY <1>8, <2>1
    <2> QED
      BY <1>7, <1>8, <1>10, <1>11, <2>2 DEF Notes
  <1>14. CASE i = s
    <2>1. mine = [y \in others \cup N |-> IF y \in others THEN old[y] ELSE ValueIn(es, y)]
      BY <1>9, <1>10, <1>11, <1>14 DEF IsState
    <2>2. \A x \in DOMAIN mine : \/ x \in DOMAIN old /\ mine[x] = old[x] /\ x \notin N
                                 \/ x \in N /\ mine[x] = ValueIn(es, x)
      BY <1>8, <2>1
    <2> QED
      BY <1>7, <1>8, <1>10, <1>11, <1>14, <2>2 DEF Notes
  <1> QED
    BY <1>12, <1>13, <1>14

-----------------------------------------------------------------------------
(* The states that walk.                                                   *)

On(s) == {s[i].state : i \in 1 .. Len(s)}
\* A walk call is in the state of the one below, or in a later one.
Layered(s) == \A i, j \in 1 .. Len(s) : i <= j => s[i].state <= s[j].state

\* Of the states P, a later one sees as much of the array they share.
Growing(P, all) ==
    \A p, q \in P : p <= q /\ all[p].vars.arr = all[q].vars.arr => all[p].vars.len <= all[q].vars.len
\* They have the values that they noted.
Keeping(P, all, B) ==
    \A p \in P : \A x \in DOMAIN all[p].mine : Has(B, all[p].vars, x, all[p].mine[x])
Saved(P, all, B) == Growing(P, all) /\ Keeping(P, all, B)

KInv == Layered(stack) /\ Saved(On(stack), states, bindings)

LEMMA SavedLess ==
    ASSUME NEW P, NEW all, NEW B, Saved(P, all, B), NEW Q, Q \subseteq P
    PROVE  Saved(Q, all, B)
  BY DEF Saved, Growing, Keeping

\* The state s, the last of them, assigns es.
LEMMA StoringSaved ==
    ASSUME NEW all, NEW B, NEW A, NEW k, MemoryOK(all, A, B, k),
           NEW P, P \subseteq 1 .. Len(all), Saved(P, all, B),
           NEW s \in 1 .. Len(all), \A p \in P : p <= s,
           NEW es, IsSeq(es), NEW r,
           Written(B, all[s].vars, r.heap, r.slice), Tells(B, all[s].vars, r.heap, r.slice, es),
           s \in P,
           NEW q, q = Stored([states |-> all, bindings |-> B], s, r, es)
    PROVE  Saved(P, q.states, q.bindings)
  <1>1. PICK w, C, a, t : w = q.states /\ C = q.bindings /\ a = all[s].vars /\ t = r.slice
    OBVIOUS
  <1>2. /\ C = r.heap
        /\ \A i \in 1 .. Len(all) : w[i].env = all[i].env /\ w[i].vars = IF i = s THEN t ELSE all[i].vars
    BY <1>1, StoredIs
  <1>3. Written(B, a, C, t) /\ Tells(B, a, C, t, es)
    BY <1>1, <1>2
  <1>4. /\ Heap(B) /\ Heap(C) /\ Apart(all) /\ Len(all) \in Nat /\ Len(B) \in Nat
        /\ \A i \in 1 .. Len(all) : Fits(B, all[i].vars) /\ all[i].vars.arr \in 1 .. Len(B)
    <2>1. Heap(B) /\ Apart(all) /\ IsSeq(all)
      BY DEF MemoryOK
    <2>2. \A i \in 1 .. Len(all) : Fits(B, all[i].vars) /\ all[i].vars.arr # 0
      BY DEF MemoryOK, Fine
    <2>3. \A i \in 1 .. Len(all) : all[i].vars.arr \in 1 .. Len(B)
      BY <2>1, <2>2, FitsFields
    <2>4. Heap(C)
      BY <1>3 DEF Written, Grown
    <2> QED
      BY <2>1, <2>2, <2>3, <2>4, SeqBasics DEF Heap
  <1>5. \A p \in P : p \in 1 .. Len(all) /\ p \in Int
    BY <1>4
  <1>6. \A p \in P : all[p].vars.len \in Nat
    BY <1>4, <1>5, FitsFields
  <1>7. /\ t.arr = a.arr \/ t.arr > Len(B)
        /\ t.arr = a.arr => a.len <= t.len
        /\ t.len \in Nat /\ t.arr \in Nat /\ a.arr \in 1 .. Len(B) /\ a.len \in Nat
    <2>1. Fits(C, t) /\ Fits(B, a)
      BY <1>1, <1>3, <1>4 DEF Written
    <2>2. t.len \in Nat /\ t.arr \in Nat /\ a.len \in Nat
      BY <1>4, <2>1, FitsFields
    <2> QED
      BY <1>1, <1>3, <1>4, <2>2 DEF Written, Tells
  <1>8. Growing(P, w)
    <2> SUFFICES ASSUME NEW p \in P, NEW y \in P, p <= y, w[p].vars.arr = w[y].vars.arr
                 PROVE  w[p].vars.len <= w[y].vars.len
      BY DEF Growing
    <2>1. p \in 1 .. Len(all) /\ y \in 1 .. Len(all) /\ y <= s
      BY <1>5
    <2>2. CASE p = y
      BY <1>2, <1>6, <1>7, <2>1, <2>2
    <2>3. CASE p # y /\ y # s
      <3>1. p # s
        BY <2>1, <2>3
      <3>2. w[p].vars = all[p].vars /\ w[y].vars = all[y].vars
        BY <1>2, <2>1, <2>3, <3>1
      <3> QED
        BY <3>2 DEF Saved, Growing
    <2>4. CASE p # y /\ y = s
      <3>1. w[p].vars = all[p].vars /\ w[y].vars = t
        BY <1>2, <2>1, <2>4
      <3>2. all[p].vars.arr = t.arr /\ all[p].vars.arr \in 1 .. Len(B)
        BY <1>4, <2>1, <3>1
      <3>3. t.arr = a.arr
        BY <1>4, <1>7, <3>2
      <3>4. all[p].vars.len <= a.len
        BY <1>1, <2>4, <3>2, <3>3 DEF Saved, Growing
      <3>5. all[p].vars.len \in Nat
        BY <1>6
      <3> QED
        BY <1>7, <3>1, <3>3, <3>4, <3>5
    <2> QED
      BY <2>2, <2>3, <2>4
  <1>9. ASSUME NEW p \in P, NEW x \in DOMAIN w[p].mine
        PROVE  Has(C, w[p].vars, x, w[p].mine[x])
    <2>1. p \in 1 .. Len(all)
      BY <1>5
    <2>2. PICK mine, v : mine = w[p].mine /\ v = mine[x]
      OBVIOUS
    <2>3. Notes(all, p, mine, s, es)
      BY <1>1, <2>1, <2>2, StoredNotes
    <2>4. CASE p = s /\ x \in Names(es) /\ v = ValueIn(es, x)
      <3>1. LastOf(es, Len(es), x, v)
        BY <2>4, ValueInIs
      <3>2. Has(C, t, x, v)
        BY <1>3, <3>1 DEF Tells
      <3> QED
        BY <1>2, <2>2, <2>4, <3>2
    <2>5. CASE x \in DOMAIN all[p].mine /\ v = all[p].mine[x] /\ (all[p].env = all[s].env => x \notin Names(es))
      <3>1. Has(B, all[p].vars, x, v)
        BY <2>5 DEF Saved, Keeping
      <3>2. CASE p = s
        <4>1. Has(C, t, x, v)
          BY <1>1, <1>3, <2>5, <3>1, <3>2 DEF Tells
        <4> QED
          BY <1>2, <2>1, <2>2, <3>2, <4>1
      <3>3. CASE p # s /\ all[p].vars.arr = a.arr
        <4>1. all[p].env = all[s].env
          BY <1>1, <1>4, <2>1, <3>3 DEF Apart
        <4>2. all[p].vars.len <= a.len
          BY <1>1, <3>3 DEF Saved, Growing
        <4>3. Fits(B, all[p].vars)
          BY <1>4, <2>1
        <4>4. Has(C, all[p].vars, x, v)
          BY <1>3, <2>5, <3>1, <3>3, <4>1, <4>2, <4>3 DEF Tells
        <4> QED
          BY <1>2, <2>1, <2>2, <3>3, <4>4
      <3>4. CASE p # s /\ all[p].vars.arr # a.arr
        <4>1. C[all[p].vars.arr] = B[all[p].vars.arr]
          BY <1>3, <1>4, <2>1, <3>4 DEF Written
        <4>2. Has(C, all[p].vars, x, v)
          BY <3>1, <4>1 DEF Has
        <4> QED
          BY <1>2, <2>1, <2>2, <3>4, <4>2
      <3> QED
        BY <3>2, <3>3, <3>4
    <2> QED
      BY <2>2, <2>3, <2>4, <2>5 DEF Notes
  <1>10. Keeping(P, w, C)
    BY <1>9 DEF Keeping
  <1> QED
    BY <1>1, <1>8, <1>10 DEF Saved

LEMMA AssigningSaved ==
    ASSUME NEW all, NEW B, NEW A, NEW k, MemoryOK(all, A, B, k),
           NEW P, P \subseteq 1 .. Len(all), Saved(P, all, B),
           NEW s \in P, \A p \in P : p <= s,
           NEW es, IsSeq(es), Len(es) \in 1 .. 3,
           NEW q, q = Assigned([states |-> all, bindings |-> B], s, es)
    PROVE  Saved(P, q.states, q.bindings)
  <1>1. PICK r : r = setVarValues(B, all[s].vars, es)
    OBVIOUS
  <1>2. q = Stored([states |-> all, bindings |-> B], s, r, es) /\ s \in 1 .. Len(all)
    BY <1>1 DEF Assigned
  <1>3. Heap(B) /\ Fits(B, all[s].vars) /\ all[s].vars.arr # 0
    BY <1>2 DEF MemoryOK, Fine
  <1>4. Written(B, all[s].vars, r.heap, r.slice)
    BY <1>1, <1>3, ValuesWrite
  <1>5. Tells(B, all[s].vars, r.heap, r.slice, es)
    BY <1>1, <1>3, ValuesTell
  <1> QED
    BY <1>2, <1>4, <1>5, StoringSaved

\* In y the states P are as in all, and n is a state that notes nothing yet, and
\* sees what they see of the array it shares with them.
Adds(P, all, y, n) ==
    /\ \A p \in P : y[p].vars = all[p].vars /\ y[p].mine = all[p].mine
    /\ \A p \in P : all[p].vars.arr = y[n].vars.arr => all[p].vars.len <= y[n].vars.len
    /\ y[n].mine = NoVars /\ y[n].vars.len \in Nat

LEMMA AddingSaved ==
    ASSUME NEW all, NEW B, NEW A, NEW k, MemoryOK(all, A, B, k),
           NEW P, P \subseteq 1 .. Len(all), Saved(P, all, B),
           NEW C, \A a \in 1 .. Len(B) : C[a] = B[a],
           NEW n, n = Len(all) + 1, NEW y, Adds(P, all, y, n)
    PROVE  Saved(P \cup {n}, y, C)
  <1> USE DEF Adds
  <1>1. Len(all) \in Nat
    BY SeqBasics DEF MemoryOK
  <1>2. n \in Nat /\ \A p \in P : p \in Nat /\ ~(n <= p) /\ p \in 1 .. Len(all)
    BY <1>1
  <1>3. \A p \in P : all[p].vars.arr \in 1 .. Len(B)
    <2> SUFFICES ASSUME NEW p \in P PROVE all[p].vars.arr \in 1 .. Len(B)
      OBVIOUS
    <2>1. Heap(B) /\ Fits(B, all[p].vars) /\ all[p].vars.arr # 0
      BY <1>2 DEF MemoryOK, Fine
    <2> QED
      BY <2>1, FitsFields
  <1>4. Growing(P \cup {n}, y)
    <2> SUFFICES ASSUME NEW p \in P \cup {n}, NEW q \in P \cup {n}, p <= q,
                        y[p].vars.arr = y[q].vars.arr
                 PROVE  y[p].vars.len <= y[q].vars.len
      BY DEF Growing
    <2>1. CASE p = n
      BY <1>2, <2>1
    <2>2. CASE p \in P /\ q = n
      BY <2>2
    <2>3. CASE p \in P /\ q \in P
      BY <2>3 DEF Saved, Growing
    <2> QED
      BY <2>1, <2>2, <2>3
  <1>5. Keeping(P \cup {n}, y, C)
    <2> SUFFICES ASSUME NEW p \in P \cup {n}, NEW x \in DOMAIN y[p].mine
                 PROVE  Has(C, y[p].vars, x, y[p].mine[x])
      BY DEF Keeping
    <2>1. p # n
      BY DEF NoVars
    <2>2. p \in P /\ x \in DOMAIN all[p].mine
      BY <2>1
    <2>3. Has(B, all[p].vars, x, all[p].mine[x])
      BY <2>2 DEF Saved, Keeping
    <2>4. C[all[p].vars.arr] = B[all[p].vars.arr]
      BY <1>3, <2>2
    <2>5. Has(C, all[p].vars, x, all[p].mine[x])
      BY <2>3, <2>4 DEF Has
    <2> QED
      BY <2>2, <2>5
  <1> QED
    BY <1>4, <1>5 DEF Saved

LEMMA LayeredGoes ==
    ASSUME NEW s, Len(s) \in Nat, Len(s) >= 1, Layered(s), NEW t, Goes(s, t)
    PROVE  Layered(t) /\ On(t) \subseteq On(s)
  <1>1. PICK n, m \in Nat : n = Len(s) /\ m = Len(t) /\ n >= 1 /\ m <= n + 1
    BY DEF Goes
  <1>2. PICK b : b = [i \in 1 .. m |-> IF i <= n THEN i ELSE n]
    OBVIOUS
  <1>3. /\ \A i \in 1 .. m : b[i] \in 1 .. n
        /\ \A i, j \in 1 .. m : i <= j => b[i] <= b[j]
    BY <1>1, <1>2
  <1>4. \A i \in 1 .. m : t[i].state = s[b[i]].state
    BY <1>1, <1>2 DEF Goes
  <1>5. Layered(t)
    BY <1>1, <1>3, <1>4 DEF Layered
  <1>6. On(t) \subseteq On(s)
    BY <1>1, <1>3, <1>4 DEF On
  <1> QED
    BY <1>5, <1>6

\* The state on top is the last one.
LEMMA TopLast ==
    ASSUME IInv, stack # <<>>, Layered(stack)
    PROVE  /\ On(stack) \subseteq 1 .. Len(states) /\ Top.state \in On(stack)
           /\ \A p \in On(stack) : p <= Top.state
  <1>1. PICK n \in Nat : n = Len(stack) /\ n >= 1 /\ Top = stack[n]
    BY StackIs
  <1>2. n \in 1 .. n /\ \A i \in 1 .. n : i <= n
    BY <1>1
  <1>3. \A i \in 1 .. n : stack[i].state \in 1 .. Len(states)
    <2> SUFFICES ASSUME NEW i \in 1 .. n PROVE stack[i].state \in 1 .. Len(states)
      OBVIOUS
    <2>1. FrameOK(stack[i], Len(states))
      BY <1>1, StackIs
    <2> QED
      BY <2>1 DEF FrameOK
  <1>4. \A i \in 1 .. n : stack[i].state <= Top.state
    BY <1>1, <1>2 DEF Layered
  <1> QED
    BY <1>1, <1>2, <1>3, <1>4 DEF On

LEMMA CalmSaved ==
    ASSUME IInv, KInv, stack # <<>>, Goes(stack, stack'),
           NEW q, Saved(On(stack), q.states, q.bindings), states' = q.states, bindings' = q.bindings
    PROVE  KInv'
  <1>1. PICK s, t : s = stack /\ t = stack'
    OBVIOUS
  <1>2. Len(s) \in Nat /\ Len(s) >= 1 /\ Layered(s) /\ Goes(s, t)
    BY <1>1, StackIs DEF KInv
  <1>3. Layered(t) /\ On(t) \subseteq On(s)
    BY <1>2, LayeredGoes
  <1>4. Saved(On(t), q.states, q.bindings)
    BY <1>1, <1>3, SavedLess
  <1> QED
    BY <1>1, <1>3, <1>4 DEF KInv

LEMMA PlainSaved ==
    ASSUME IInv, KInv, stack # <<>>, Goes(stack, stack'), UNCHANGED <<states, bindings>>
    PROVE  KInv'
  <1>1. PICK q : q = [states |-> states, bindings |-> bindings]
    OBVIOUS
  <1>2. q.states = states /\ q.bindings = bindings
    BY <1>1
  <1>3. Saved(On(stack), q.states, q.bindings)
    BY <1>2 DEF KInv
  <1> QED
    BY <1>2, <1>3, CalmSaved

LEMMA AssignedSaved ==
    ASSUME IInv, KInv, stack # <<>>, NEW es, IsSeq(es), Len(es) \in 1 .. 3,
           NEW q, q = Assigned(Memory, Top.state, es)
    PROVE  Saved(On(stack), q.states, q.bindings)
  <1>1. PICK P, s : P = On(stack) /\ s = Top.state
    OBVIOUS
  <1>2. P \subseteq 1 .. Len(states) /\ s \in P /\ (\A p \in P : p <= s) /\ Saved(P, states, bindings)
    BY <1>1, TopLast DEF KInv
  <1>3. MemoryOK(states, arrays, bindings, Len(scopes))
    BY DEF IInv
  <1>4. q = Assigned([states |-> states, bindings |-> bindings], s, es)
    BY <1>1 DEF Memory
  <1> QED
    BY <1>1, <1>2, <1>3, <1>4, AssigningSaved

LEMMA EvaluatedSaved ==
    ASSUME IInv, KInv, Walking, NEW v, NEW q, q = Evaluated(v)
    PROVE  Saved(On(stack), q.states, q.bindings)
  <1>1. PICK xs : xs = Declared(v)
    OBVIOUS
  <1>2. IsSeq(xs)
    <2>1. Instr.vars \in Seq(STRING)
      BY InstrIs, ProgramsType
    <2>2. PICK n \in Nat : n = Len(Instr.vars) /\ DOMAIN Instr.vars = 1 .. n
      BY <2>1
    <2>3. xs = [i \in 1 .. n |-> xs[i]]
      BY <1>1, <2>2 DEF Declared
    <2> QED
      BY <2>3, FunctionIsSeq
  <1>3. PICK r : r = Appended(bindings, State.vars, xs, Unbound)
    OBVIOUS
  <1>4. PICK P, s : P = On(stack) /\ s = Top.state
    OBVIOUS
  <1>5. q = Stored([states |-> states, bindings |-> bindings], s, r, xs)
    BY <1>1, <1>3, <1>4 DEF Evaluated, Memory
  <1>6. /\ MemoryOK(states, arrays, bindings, Len(scopes)) /\ Heap(bindings)
        /\ s \in 1 .. Len(states) /\ State = states[s]
        /\ Fits(bindings, State.vars) /\ stack # <<>>
    BY <1>4, TopIs, InstrIs DEF IInv, MemoryOK, Fine
  <1>7. Written(bindings, states[s].vars, r.heap, r.slice)
    BY <1>2, <1>3, <1>6, AppendedWrites
  <1>8. Tells(bindings, states[s].vars, r.heap, r.slice, xs)
    BY <1>2, <1>3, <1>6, AppendTells
  <1>9. P \subseteq 1 .. Len(states) /\ s \in P /\ (\A p \in P : p <= s) /\ Saved(P, states, bindings)
    BY <1>4, <1>6, TopLast DEF KInv
  <1> QED
    BY <1>2, <1>4, <1>5, <1>6, <1>7, <1>8, <1>9, StoringSaved

\* A panic, with a memory that keeps the values of the states that walk.
LEMMA PanicsSaved ==
    ASSUME IInv, KInv, stack # <<>>,
           NEW m, Keeps(states, arrays', bindings, Len(scopes), m, {State.env}),
           Saved(On(stack), m.states, m.bindings),
           Panic(m)
    PROVE  KInv'
  <1>1. PICK w, C : w = m.states /\ C = m.bindings
    OBVIOUS
  <1>2. /\ m = [states |-> w, bindings |-> C]
        /\ MemoryOK(w, arrays', C, Len(scopes)) /\ Len(w) = Len(states)
    BY <1>1 DEF Keeps
  <1>3. PICK n \in Nat : n = Len(stack) /\ DOMAIN stack = 1 .. n /\ n >= 1 /\ IsSeq(stack)
    BY StackIs
  <1>4. PICK I : I = {i \in 1 .. n : stack[i].kind = "try"}
    OBVIOUS
  <1>5. PICK t : t = IF I # {} THEN Max(I) ELSE 0
    OBVIOUS
  <1>6. t = SelectLastInSeq(stack, LAMBDA f : f.kind = "try")
    BY <1>3, <1>4, <1>5 DEF SelectLastInSeq
  <1>7. CASE t = 0
    <2>1. stack' = <<>>
      BY <1>6, <1>7 DEF Panic
    <2>2. PICK s : s = stack' /\ Len(s) = 0
      BY <2>1, EmptyIsSeq
    <2>3. Layered(s) /\ On(s) = {}
      BY <2>2 DEF Layered, On
    <2>4. Saved(On(s), states', bindings')
      BY <2>3 DEF Saved, Growing, Keeping
    <2> QED
      BY <2>2, <2>3, <2>4 DEF KInv
  <1>8. CASE t # 0
    <2>1. t \in 1 .. n
      <3>1. I \subseteq 1 .. n /\ I # {} /\ t = Max(I)
        BY <1>4, <1>5, <1>8
      <3>2. t \in I
        BY <3>1, MaxExists
      <3> QED
        BY <3>1, <3>2
    <2>2. PICK f : f = stack[t]
      OBVIOUS
    <2>3. PICK es : es = <<Binding(f.stmt.vars[1], Exception)>>
      OBVIOUS
    <2>4. PICK u : u = Assigned(m, f.state, es)
      OBVIOUS
    <2>5. /\ stack' = Append(SubSeq(stack, 1, t - 1), Caught(f))
          /\ states' = u.states /\ bindings' = u.bindings
      BY <1>6, <1>8, <2>2, <2>3, <2>4 DEF Panic, Becomes
    <2>6. PICK s, c : s = SubSeq(stack, 1, t - 1) /\ c = Caught(f)
      OBVIOUS
    <2>7. IsSeq(s) /\ Len(s) = t - 1 /\ \A i \in 1 .. t - 1 : s[i] = stack[i]
      <3>1. t - 1 \in Nat /\ t - 1 <= Len(stack) /\ IsSeq(stack)
        BY <1>3, <2>1
      <3> QED
        BY <2>6, <3>1, Cutting
    <2>8. PICK z : z = stack' /\ z = Append(s, c)
      BY <2>5, <2>6
    <2>9. Len(z) = t /\ z[t] = c /\ \A i \in 1 .. t - 1 : z[i] = stack[i]
      BY <2>1, <2>7, <2>8, Appending
    <2>10. c.state = f.state
      BY <2>6 DEF Caught, Frame
    <2>11. \A i \in 1 .. t : i \in 1 .. t - 1 \/ i = t
      BY <2>1
    <2>12. \A i \in 1 .. t : z[i].state = stack[i].state
      BY <2>2, <2>9, <2>10, <2>11
    <2>13. Goes(stack, z)
      BY <1>3, <2>1, <2>9, <2>12 DEF Goes
    <2>14. PICK P : P = On(z)
      OBVIOUS
    <2>15. Layered(z) /\ P \subseteq On(stack)
      BY <1>3, <2>13, <2>14, LayeredGoes DEF KInv
    <2>16. P \subseteq 1 .. Len(w)
      BY <1>2, <2>15, TopLast DEF KInv
    <2>17. f.state \in P /\ \A p \in P : p <= f.state
      <3>1. t \in 1 .. t /\ \A i \in 1 .. t : i <= t
        BY <2>1
      <3>2. z[t].state = f.state
        BY <2>9, <2>10
      <3>3. f.state \in P
        BY <2>9, <2>14, <3>1, <3>2 DEF On
      <3>4. \A i \in 1 .. t : z[i].state <= f.state
        BY <2>9, <2>15, <3>1, <3>2 DEF Layered
      <3> QED
        BY <2>9, <2>14, <3>3, <3>4 DEF On
    <2>18. Saved(P, w, C)
      BY <1>1, <2>15, SavedLess
    <2>19. IsSeq(es) /\ Len(es) \in 1 .. 3
      <3>1. IsSeq(es) /\ Len(es) = 1
        BY <2>3, OneIsSeq
      <3> QED
        BY <3>1
    <2>20. u = Assigned([states |-> w, bindings |-> C], f.state, es)
      BY <1>2, <2>4
    <2>21. Saved(P, u.states, u.bindings)
      BY <1>2, <2>16, <2>17, <2>18, <2>19, <2>20, AssigningSaved
    <2> QED
      BY <2>5, <2>8, <2>14, <2>15, <2>21 DEF KInv
  <1> QED
    BY <1>7, <1>8

\* The state on top goes on with other blocks.
LEMMA ReboundSaved ==
    ASSUME IInv, stack # <<>>, NEW P, P \subseteq 1 .. Len(states), Saved(P, states, bindings), NEW x,
           NEW w, w = [states EXCEPT ![Top.state].bound = x]
    PROVE  /\ Saved(P, w, bindings)
           /\ \A p \in 1 .. Len(states) : w[p].vars = states[p].vars /\ w[p].mine = states[p].mine
  <1>1. PICK n \in Nat : n = Len(states) /\ DOMAIN states = 1 .. n
    BY TopIs
  <1>2. \A i \in 1 .. n : IsState(states[i])
    BY <1>1 DEF IInv, MemoryOK, Fine
  <1>3. \A i \in 1 .. n : w[i] = IF i = Top.state THEN [states[i] EXCEPT !.bound = x] ELSE states[i]
    BY <1>1
  <1>4. ASSUME NEW i \in 1 .. n
        PROVE  w[i].vars = states[i].vars /\ w[i].mine = states[i].mine
    <2>1. PICK y, z : y = w[i] /\ z = states[i]
      OBVIOUS
    <2>2. IsState(z) /\ y = IF i = Top.state THEN [z EXCEPT !.bound = x] ELSE z
      BY <1>2, <1>3, <2>1
    <2>3. y.vars = z.vars /\ y.mine = z.mine
      BY <2>2 DEF IsState
    <2> QED
      BY <2>1, <2>3
  <1>5. \A p \in P : w[p].vars = states[p].vars /\ w[p].mine = states[p].mine
    BY <1>1, <1>4
  <1>6. Growing(P, w)
    BY <1>5 DEF Saved, Growing
  <1>7. Keeping(P, w, bindings)
    BY <1>5 DEF Saved, Keeping
  <1> QED
    BY <1>1, <1>4, <1>6, <1>7 DEF Saved

LEMMA PlainKeeps ==
    ASSUME IInv, BInv, KInv,
           \/ Prints \/ walkIfOrWith \/ walkTry \/ Ends \/ RangeEnds \/ Puts
           \/ walkWhile \/ WhileGoesOn \/ UseNoBlock
    PROVE  KInv'
  <1>1. KindsOK(stack)
    BY DEF BInv
  <1>2. ASSUME Walking, stack' = Advanced, UNCHANGED <<states, bindings>>
        PROVE  KInv'
    <2>1. Goes(stack, stack') /\ stack # <<>>
      BY <1>1, <1>2, GoesBy, InstrIs
    <2> QED
      BY <1>2, <2>1, PlainSaved
  <1>3. ASSUME stack # <<>>, Leave, UNCHANGED <<states, bindings>>
        PROVE  KInv'
    <2>1. Goes(stack, stack')
      BY <1>1, <1>3, GoesBy
    <2> QED
      BY <1>3, <2>1, PlainSaved
  <1>4. ASSUME Walking, UNCHANGED <<states, bindings>>, NEW kind, NEW list, NEW i, NEW xs,
               Enter(Frame(Top.state, kind, list, i, xs)), kind # "range", kind = "try" => i.op = "try"
        PROVE  KInv'
    <2>1. Goes(stack, stack') /\ stack # <<>>
      BY <1>4, EntersOn, InstrIs
    <2> QED
      BY <1>4, <2>1, PlainSaved
  <1>5. CASE Prints
    BY <1>2, <1>5 DEF Prints, Ready
  <1>6. CASE Puts
    BY <1>2, <1>6 DEF Puts, Ready
  <1>7. CASE UseNoBlock
    BY <1>2, <1>7 DEF UseNoBlock, Ready
  <1>8. CASE Ends
    BY <1>3, <1>8 DEF Ends
  <1>9. CASE RangeEnds
    BY <1>3, <1>9 DEF RangeEnds, InLoop
  <1>10. CASE walkIfOrWith
    BY <1>4, <1>10 DEF walkIfOrWith, Ready
  <1>11. CASE walkTry
    BY <1>4, <1>11 DEF walkTry, Ready
  <1>12. CASE walkWhile
    BY <1>2, <1>4, <1>12 DEF walkWhile, Ready
  <1>13. CASE WhileGoesOn
    <2>1. /\ stack # <<>> /\ UNCHANGED <<states, bindings>>
          /\ \/ stack' = [stack EXCEPT ![Len(stack)].todo = Top.stmt.list, ![Len(stack)].n = Iterations]
             \/ Leave
      BY <1>13 DEF WhileGoesOn, InLoop
    <2>2. Goes(stack, stack')
      BY <1>1, <2>1, GoesBy
    <2> QED
      BY <2>1, <2>2, PlainSaved
  <1> QED
    BY <1>5, <1>6, <1>7, <1>8, <1>9, <1>10, <1>11, <1>12, <1>13

LEMMA ElementIs ==
    ASSUME NEW x, NEW es, es = Element(x)
    PROVE  IsSeq(es) /\ Len(es) \in 1 .. 3
  <1>1. PICK a, b, c : /\ a = Binding(Top.stmt.vars[1], Index) /\ b = Binding(Top.stmt.vars[2], x)
                       /\ c = Binding(Top.stmt.vars[1], x)
    OBVIOUS
  <1>2. es = <<a, b>> \/ es = <<c>>
    BY <1>1 DEF Element
  <1>4. CASE es = <<a, b>>
    <2>1. PICK S : S = {a, b}
      OBVIOUS
    <2>2. <<a, b>> \in Seq(S) /\ Len(<<a, b>>) = 2
      BY <2>1
    <2>3. es \in Seq(S) /\ Len(es) = 2
      BY <1>4, <2>2, Zenon
    <2>4. IsSeq(es) /\ Len(es) = 2
      BY <2>3 DEF IsSeq
    <2> QED
      BY <2>4
  <1>5. CASE es = <<c>>
    <2>1. IsSeq(es) /\ Len(es) = 1
      BY <1>5, OneIsSeq
    <2> QED
      BY <2>1
  <1> QED
    BY <1>2, <1>4, <1>5

LEMMA AssigningKeepsValues ==
    ASSUME IInv, BInv, KInv, Sets \/ oneIteration \/ walkRange \/ RangeNothing \/ ForKeys
    PROVE  KInv'
  <1>1. KindsOK(stack)
    BY DEF BInv
  <1>2. ASSUME Walking, Instr.op \in {"range", "forin"}, NEW v, Becomes(Evaluated(v)),
               \/ stack' = Advanced
               \/ \E xs : Enter(Frame(Top.state, "range", <<>>, Instr, xs))
        PROVE  KInv'
    <2>1. PICK q : q = Evaluated(v)
      OBVIOUS
    <2>2. Saved(On(stack), q.states, q.bindings)
      BY <1>2, <2>1, EvaluatedSaved
    <2>3. states' = q.states /\ bindings' = q.bindings /\ stack # <<>>
      BY <1>2, <2>1, InstrIs DEF Becomes
    <2>4. Goes(stack, stack')
      <3>1. CASE stack' = Advanced
        BY <1>1, <1>2, <2>3, <3>1, GoesBy
      <3>2. ASSUME NEW xs, Enter(Frame(Top.state, "range", <<>>, Instr, xs))
            PROVE  Goes(stack, stack')
        BY <1>2, <3>2, EntersOn
      <3> QED
        BY <1>2, <3>1, <3>2
    <2> QED
      BY <2>2, <2>3, <2>4, CalmSaved
  <1>3. CASE walkRange
    BY <1>2, <1>3 DEF walkRange, Ready
  <1>4. CASE RangeNothing
    BY <1>2, <1>4 DEF RangeNothing, Ready
  <1>5. CASE ForKeys
    BY <1>2, <1>5 DEF ForKeys, Ready
  <1>6. ASSUME stack # <<>>, Goes(stack, stack'), NEW es, IsSeq(es), Len(es) \in 1 .. 3,
               Becomes(Assigned(Memory, Top.state, es))
        PROVE  KInv'
    <2>1. PICK q : q = Assigned(Memory, Top.state, es)
      OBVIOUS
    <2>2. states' = q.states /\ bindings' = q.bindings
      BY <1>6, <2>1 DEF Becomes
    <2>3. Saved(On(stack), q.states, q.bindings)
      BY <1>6, <2>1, AssignedSaved
    <2> QED
      BY <1>6, <2>2, <2>3, CalmSaved
  <1>7. CASE Sets
    <2>1. PICK es : es = <<Binding(Instr.vars[1], Instr.value)>>
      OBVIOUS
    <2>2. Walking /\ stack' = Advanced /\ Becomes(Assigned(Memory, Top.state, es)) /\ stack # <<>>
      BY <1>7, <2>1, InstrIs DEF Sets, Ready
    <2>3. IsSeq(es) /\ Len(es) = 1
      BY <2>1, OneIsSeq
    <2>4. Len(es) \in 1 .. 3
      BY <2>3
    <2>5. Goes(stack, stack')
      BY <1>1, <2>2, GoesBy
    <2> QED
      BY <1>6, <2>2, <2>3, <2>4, <2>5
  <1>8. CASE oneIteration
    <2>1. PICK es : es = Element(Head(Top.items))
      OBVIOUS
    <2>2. /\ stack # <<>> /\ Becomes(Assigned(Memory, Top.state, es))
          /\ stack' = [stack EXCEPT ![Len(stack)].todo = Top.stmt.list, ![Len(stack)].items = Tail(@)]
      BY <1>8, <2>1 DEF oneIteration, InLoop
    <2>3. IsSeq(es) /\ Len(es) \in 1 .. 3
      BY <2>1, ElementIs
    <2>4. Goes(stack, stack')
      BY <1>1, <2>2, GoesBy
    <2> QED
      BY <1>6, <2>2, <2>3, <2>4
  <1> QED
    BY <1>3, <1>4, <1>5, <1>7, <1>8

LEMMA FreezingSaved ==
    ASSUME IInv, KInv, stack # <<>>, NEW x, NEW w, w = [states EXCEPT ![Top.state].bound = x]
    PROVE  Saved(On(stack), w, bindings)
  <1>1. PICK P : P = On(stack)
    OBVIOUS
  <1>2. P \subseteq 1 .. Len(states) /\ Saved(P, states, bindings)
    BY <1>1, TopLast DEF KInv
  <1> QED
    BY <1>1, <1>2, ReboundSaved

LEMMA PanicKeeps ==
    ASSUME IInv, BInv, KInv, Fails \/ CannotRange \/ WhileTooLong \/ CallTooDeep \/ BlockTooDeep
    PROVE  KInv'
  <1>1. ASSUME stack # <<>>, UNCHANGED arrays, Panic(Memory)
        PROVE  KInv'
    <2>1. PICK m : m = Memory
      OBVIOUS
    <2>2. Keeps(states, arrays', bindings, Len(scopes), m, {State.env})
      BY <1>1, <2>1, KeepsItself, AsideMore
    <2>3. Saved(On(stack), m.states, m.bindings)
      BY <2>1 DEF KInv, Memory
    <2> QED
      BY <1>1, <2>1, <2>2, <2>3, PanicsSaved
  <1>2. CASE Fails
    BY <1>1, <1>2, InstrIs DEF Fails, Ready
  <1>3. CASE WhileTooLong
    BY <1>1, <1>3 DEF WhileTooLong, InLoop
  <1>4. CASE BlockTooDeep
    BY <1>1, <1>4, InstrIs DEF BlockTooDeep, Ready
  <1>5. CASE CannotRange
    <2>1. PICK m : m = Evaluated(RangeValue)
      OBVIOUS
    <2>2. Walking /\ UNCHANGED arrays /\ Panic(m) /\ stack # <<>>
      BY <1>5, <2>1, InstrIs DEF CannotRange, Ready, Panic
    <2>3. Keeps(states, arrays', bindings, Len(scopes), m, {State.env})
      BY <2>1, <2>2, EvaluatedIs
    <2>4. Saved(On(stack), m.states, m.bindings)
      BY <2>1, <2>2, EvaluatedSaved
    <2> QED
      BY <2>2, <2>3, <2>4, PanicsSaved
  <1>6. CASE CallTooDeep
    <2>1. PICK A, x : A = Frozen.heap /\ x = Frozen.slice
      OBVIOUS
    <2>2. PICK w : w = [states EXCEPT ![Top.state].bound = x]
      OBVIOUS
    <2>3. PICK m : m = [states |-> w, bindings |-> bindings]
      OBVIOUS
    <2>4. m = [Memory EXCEPT !.states = Freezes(@)]
      BY <2>1, <2>2, <2>3 DEF Memory, Freezes
    <2>5. Walking /\ arrays' = A /\ Panic(m) /\ stack # <<>>
      BY <1>6, <2>1, <2>4, InstrIs DEF CallTooDeep, Ready, Panic
    <2>6. Moved(arrays, A, Len(states)) /\ Fits(A, x) /\ Live(A, x, Len(states))
      BY <2>1, <2>5, FrozenIs
    <2>7. Keeps(states, A, bindings, Len(scopes), m, {})
      BY <2>2, <2>3, <2>5, <2>6, KeepsFrozen
    <2>8. Keeps(states, arrays', bindings, Len(scopes), m, {State.env})
      BY <2>5, <2>7, AsideMore
    <2>9. Saved(On(stack), w, bindings)
      BY <2>2, <2>5, FreezingSaved
    <2>10. Saved(On(stack), m.states, m.bindings)
      BY <2>3, <2>9
    <2> QED
      BY <2>5, <2>8, <2>10, PanicsSaved
  <1> QED
    BY <1>2, <1>3, <1>4, <1>5, <1>6

LEMMA UndefinedKeeps ==
    ASSUME IInv, BInv, KInv, CallUndefined
    PROVE  KInv'
  <1>1. PICK x, w : x = Frozen.slice /\ w = [states EXCEPT ![Top.state].bound = x]
    OBVIOUS
  <1>2. /\ Walking /\ states' = w /\ stack' = Advanced /\ bindings' = bindings /\ stack # <<>>
    BY <1>1, InstrIs DEF CallUndefined, Ready, Freezes
  <1>3. Goes(stack, stack')
    BY <1>2, GoesBy DEF BInv
  <1>4. PICK q : q = [states |-> w, bindings |-> bindings]
    OBVIOUS
  <1>5. Saved(On(stack), w, bindings)
    BY <1>1, <1>2, FreezingSaved
  <1>6. Saved(On(stack), q.states, q.bindings) /\ q.states = w /\ q.bindings = bindings
    BY <1>4, <1>5
  <1> QED
    BY <1>2, <1>3, <1>6, CalmSaved

LEMMA ArgumentsAre ==
    ASSUME NEW b, NEW es, es = Arguments(b)
    PROVE  IsSeq(es) /\ Len(es) = 3
  <1>1. PICK e, f, x : e = Binding("$attributes", Null) /\ f = Binding("$__args__", Null) /\ x = Binding("$block", b)
    OBVIOUS
  <1>2. PICK S : S = {e, f, x}
    OBVIOUS
  <1>3. <<e, f, x>> \in Seq(S) /\ Len(<<e, f, x>>) = 3
    BY <1>2
  <1>4. es = <<e, f, x>>
    BY <1>1 DEF Arguments
  <1>5. es \in Seq(S) /\ Len(es) = 3
    BY <1>3, <1>4, Zenon
  <1> QED
    BY <1>5 DEF IsSeq

-----------------------------------------------------------------------------
(* The templates that are entered, and the values.                         *)

Sound(all, B) == \E A, k : MemoryOK(all, A, B, k)
\* The state st notes nothing yet, and sees what the states P see of the array
\* it shares with them.
Begins(st, P, all) ==
    /\ st.mine = NoVars /\ st.vars.len \in Nat
    /\ \A p \in P : all[p].vars.arr = st.vars.arr => all[p].vars.len <= st.vars.len

\* Another state walks, with variables of its own or all that are seen of
\* the variables of another.
LEMMA WalkKeeps ==
    ASSUME IInv, BInv, KInv, Walking, NEW tmpl, NEW st, NEW C, NEW x, Walk(tmpl, st, C, x),
           \A a \in 1 .. Len(bindings) : C[a] = bindings[a],
           Begins(st, On(stack), states),
           NEW y, y = Append([states EXCEPT ![Top.state].bound = x], st),
           Ready("call") => Sound(y, C)
    PROVE  KInv'
  <1>1. stack # <<>>
    BY InstrIs
  <1>2. PICK n, m : n = Len(states) /\ m = n + 1
    OBVIOUS
  <1>3. n \in Nat /\ m \in Nat
    BY <1>1, <1>2, TopIs
  <1>4. PICK w, B : w = [states EXCEPT ![Top.state].bound = x] /\ B = bindings
    OBVIOUS
  <1>5. PICK P : P = On(stack)
    OBVIOUS
  <1>6. P \subseteq 1 .. n /\ Saved(P, states, B) /\ Layered(stack)
    BY <1>1, <1>2, <1>4, <1>5, TopLast DEF KInv
  <1>7. \A p \in 1 .. n : w[p].vars = states[p].vars /\ w[p].mine = states[p].mine
    BY <1>1, <1>2, <1>4, <1>6, ReboundSaved
  <1>8. IsSeq(w) /\ Len(w) = n
    BY <1>1, <1>2, <1>4, Rebound
  <1>9. y = Append(w, st)
    BY <1>4
  <1>10. Len(y) = m /\ y[m] = st /\ \A p \in 1 .. n : y[p] = w[p]
    BY <1>2, <1>8, <1>9, Appending
  <1>11. \A p \in P : y[p].vars = states[p].vars /\ y[p].mine = states[p].mine
    BY <1>6, <1>7, <1>10
  <1>12. \A p \in P : states[p].vars.arr = y[m].vars.arr => states[p].vars.len <= y[m].vars.len
    BY <1>5, <1>10 DEF Begins
  <1>13. PICK Q : Q = P \cup {m}
    OBVIOUS
  <1>14. Saved(Q, y, C)
    <2>1. PICK all, D : all = states /\ D = arrays
      OBVIOUS
    <2>2. MemoryOK(all, D, B, Len(scopes))
      BY <1>4, <2>1 DEF IInv
    <2>3. P \subseteq 1 .. Len(all) /\ Saved(P, all, B) /\ m = Len(all) + 1
      BY <1>2, <1>6, <2>1
    <2>4. \A a \in 1 .. Len(B) : C[a] = B[a]
      BY <1>4
    <2>5. y[m].mine = NoVars /\ y[m].vars.len \in Nat
      BY <1>10 DEF Begins
    <2>6. Adds(P, all, y, m)
      BY <1>11, <1>12, <2>1, <2>5 DEF Adds
    <2> QED
      BY <1>13, <2>2, <2>3, <2>4, <2>6, AddingSaved
  <1>15. PICK l \in Nat : l = Len(stack)
    BY <1>1, StackIs
  <1>16. PICK t : t = stack'
    OBVIOUS
  <1>17. /\ Len(t) = l + 1 /\ \A i \in 1 .. l : t[i].state = stack[i].state
         /\ t[l + 1].state = m
         /\ Ready("call") => Becomes(Assigned([states |-> y, bindings |-> C], m, Arguments(Instr.value)))
         /\ ~Ready("call") => states' = y /\ bindings' = C
    BY <1>2, <1>15, <1>16, Walked
  <1>18. \A i \in 1 .. l + 1 : i \in 1 .. l \/ i = l + 1
    BY <1>15
  <1>19. \A i \in 1 .. l : stack[i].state \in P
    BY <1>5, <1>15 DEF On
  <1>20. On(t) \subseteq Q
    BY <1>13, <1>17, <1>18, <1>19 DEF On
  <1>21. m \in Q /\ Q \subseteq 1 .. m /\ \A p \in Q : p <= m
    <2>1. \A p \in Q : p \in 1 .. n \/ p = m
      BY <1>6, <1>13
    <2>2. \A p \in 1 .. n : p \in 1 .. m /\ p <= m
      BY <1>2, <1>3
    <2>3. m \in 1 .. m /\ m <= m
      BY <1>2, <1>3
    <2> QED
      BY <1>13, <2>1, <2>2, <2>3
  <1>22. Layered(t)
    <2> SUFFICES ASSUME NEW i \in 1 .. l + 1, NEW j \in 1 .. l + 1, i <= j
                 PROVE  t[i].state <= t[j].state
      BY <1>17 DEF Layered
    <2>1. CASE j = l + 1
      <3>1. t[i].state \in Q
        BY <1>17, <1>20 DEF On
      <3> QED
        BY <1>17, <1>21, <2>1, <3>1
    <2>2. CASE j \in 1 .. l
      <3>1. i \in 1 .. l
        BY <2>2
      <3> QED
        BY <1>6, <1>15, <1>17, <2>2, <3>1 DEF Layered
    <2> QED
      BY <1>18, <2>1, <2>2
  <1>23. Saved(Q, states', bindings')
    <2>1. CASE Ready("call")
      <3>1. PICK es : es = Arguments(Instr.value)
        OBVIOUS
      <3>2. IsSeq(es) /\ Len(es) = 3
        BY <3>1, ArgumentsAre
      <3>3. Len(es) \in 1 .. 3
        BY <3>2
      <3>4. PICK q : q = Assigned([states |-> y, bindings |-> C], m, es)
        OBVIOUS
      <3>5. states' = q.states /\ bindings' = q.bindings
        BY <1>17, <2>1, <3>1, <3>4 DEF Becomes
      <3>6. PICK A, k : MemoryOK(y, A, C, k) /\ Q \subseteq 1 .. Len(y)
        BY <1>10, <1>21, <2>1 DEF Sound
      <3>7. Saved(Q, q.states, q.bindings)
        BY <1>14, <1>21, <3>2, <3>3, <3>4, <3>6, AssigningSaved
      <3> QED
        BY <3>5, <3>7
    <2>2. CASE ~Ready("call")
      BY <1>14, <1>17, <2>2
    <2> QED
      BY <2>1, <2>2
  <1>24. Saved(On(t), states', bindings')
    <2>1. PICK later, D : later = states' /\ D = bindings'
      OBVIOUS
    <2>2. Saved(On(t), later, D)
      BY <1>20, <1>23, <2>1, SavedLess
    <2> QED
      BY <2>1, <2>2
  <1> QED
    BY <1>16, <1>22, <1>24 DEF KInv

\* No state that walks has the array that comes next.
LEMMA OwnArray ==
    ASSUME IInv, KInv, stack # <<>>, NEW a, a = Len(bindings) + 1, NEW p \in On(stack)
    PROVE  states[p].vars.arr # a
  <1>1. p \in 1 .. Len(states)
    BY TopLast DEF KInv
  <1>2. Heap(bindings) /\ Fits(bindings, states[p].vars) /\ states[p].vars.arr # 0
    BY <1>1 DEF IInv, MemoryOK, Fine
  <1>3. states[p].vars.arr \in 1 .. Len(bindings) /\ Len(bindings) \in Nat
    BY <1>2, FitsFields, SeqBasics DEF Heap
  <1> QED
    BY <1>3

\* A mixin has variables of its own.
LEMMA CallKeeps ==
    ASSUME IInv, BInv, KInv, CallMixin
    PROVE  KInv'
  <1>1. PICK A, x, r : A = Frozen.heap /\ x = Frozen.slice /\ r = GlobalsCopied
    OBVIOUS
  <1>2. PICK first : first = FALSE
    OBVIOUS
  <1>3. PICK st : st = NewState(x, State.depth + 1, r.slice, Len(scopes) + 1, Top.state, first)
    OBVIOUS
  <1>4. PICK C, tmpl : C = r.heap /\ tmpl = Instr.vars[1]
    OBVIOUS
  <1>5. Ready("call") /\ Walking /\ stack # <<>>
    BY InstrIs DEF CallMixin, Ready
  <1>6. Walk(tmpl, st, C, x)
    BY <1>1, <1>2, <1>3, <1>4 DEF CallMixin, Walk, Enter
  <1>7. PICK y : y = Append([states EXCEPT ![Top.state].bound = x], st)
    OBVIOUS
  <1>8. /\ Moved(arrays, A, Len(states)) /\ Fits(A, x) /\ Live(A, x, Len(states))
        /\ Grown(bindings, C) /\ \A a \in 1 .. Len(bindings) : C[a] = bindings[a]
        /\ Fine(st, A, C, Len(states) + 1, Len(scopes) + 1) /\ Places(states, st)
    BY <1>1, <1>3, <1>4, <1>5, CalledState
  <1>9. PICK k \in Nat : k = Len(scopes) + 1 /\ Len(scopes) <= k
    BY SeqBasics DEF IInv
  <1>10. MemoryOK(y, A, C, k)
    BY <1>5, <1>7, <1>8, <1>9, Added
  <1>11. Sound(y, C)
    BY <1>10 DEF Sound
  <1>12. st.mine = NoVars /\ st.vars = r.slice
    BY <1>3 DEF NewState
  <1>13. st.vars.len \in Nat /\ st.vars.arr = Len(bindings) + 1
    <2>1. Fits(C, r.slice) /\ Heap(C) /\ r.slice.arr = Len(bindings) + 1
      BY <1>1, <1>4, GlobalsCopiedIs DEF Grown
    <2> QED
      BY <1>12, <2>1, FitsFields
  <1>14. \A p \in On(stack) : states[p].vars.arr # st.vars.arr
    BY <1>5, <1>13, OwnArray
  <1>15. Begins(st, On(stack), states)
    BY <1>12, <1>13, <1>14 DEF Begins
  <1>16. Ready("call") => Sound(y, C)
    BY <1>11
  <1>17. \A a \in 1 .. Len(bindings) : C[a] = bindings[a]
    BY <1>8
  <1> QED
    BY <1>5, <1>6, <1>7, <1>15, <1>16, <1>17, WalkKeeps

\* A block that is not there any more has variables of its own.
LEMMA UseAgainKeeps ==
    ASSUME IInv, BInv, KInv, UseBlockAgain
    PROVE  KInv'
  <1>1. PICK x, r, tmpl, env, user : /\ x = State.bound /\ r = GlobalsCopied /\ tmpl = MyBlock
                                     /\ env = Len(scopes) + 1 /\ user = State.env
    OBVIOUS
  <1>2. PICK depth, first, C, v : /\ depth = State.depth + 1 /\ first = ~scopes[State.env].used
                                  /\ C = r.heap /\ v = r.slice
    OBVIOUS
  <1>3. PICK st : st = NewState(x, depth, v, env, user, first)
    OBVIOUS
  <1>4. Ready("block") /\ Walking /\ stack # <<>> /\ ~Ready("call")
    BY InstrIs DEF UseBlockAgain, Ready
  <1>5. Walk(tmpl, st, C, x)
    BY <1>1, <1>2, <1>3 DEF UseBlockAgain, Walk, Enter
  <1>6. PICK y : y = Append([states EXCEPT ![Top.state].bound = x], st)
    OBVIOUS
  <1>7. st.mine = NoVars /\ st.vars = v
    BY <1>3 DEF NewState
  <1>8. \A a \in 1 .. Len(bindings) : C[a] = bindings[a]
    BY <1>1, <1>2, GlobalsCopiedIs
  <1>9. st.vars.len \in Nat /\ st.vars.arr = Len(bindings) + 1
    <2>1. Fits(C, v) /\ Heap(C) /\ v.arr = Len(bindings) + 1
      BY <1>1, <1>2, GlobalsCopiedIs DEF Grown
    <2> QED
      BY <1>7, <2>1, FitsFields
  <1>10. \A p \in On(stack) : states[p].vars.arr # st.vars.arr
    BY <1>4, <1>9, OwnArray
  <1>11. Begins(st, On(stack), states)
    BY <1>7, <1>9, <1>10 DEF Begins
  <1>12. Ready("call") => Sound(y, C)
    BY <1>4
  <1> QED
    BY <1>4, <1>5, <1>6, <1>8, <1>11, <1>12, WalkKeeps

\* A block has the variables of who gave it, and sees all that the walk calls in
\* progress see of their array.
LEMMA UseBlockKeeps ==
    ASSUME IInv, BInv, KInv, Orderly, UseBlock
    PROVE  KInv'
  <1>1. PICK e, i, tmpl, r : /\ e = State.env /\ i = Position /\ tmpl = MyBlock
                             /\ r = Removed(arrays, State.bound, Position)
    OBVIOUS
  <1>2. PICK A, x : A = r.heap /\ x = r.slice
    OBVIOUS
  <1>3. PICK depth, first : depth = FrozenScope.depth + 1 /\ first = ~scopes[e].used
    OBVIOUS
  <1>4. PICK old : old = FrozenScope
    OBVIOUS
  <1>5. PICK st : st = NewState(old.bound, depth, old.vars, old.env, e, first)
    OBVIOUS
  <1>6. /\ Ready("block") /\ MyBlock \in DOMAIN body /\ i # 0
    BY <1>1 DEF UseBlock
  <1>7. Walk(tmpl, st, bindings, x)
    BY <1>1, <1>2, <1>3, <1>4, <1>5 DEF UseBlock, Walk, Enter
  <1>8. stack # <<>> /\ Walking /\ ~Ready("call")
    BY <1>6, InstrIs DEF Ready
  <1>9. PICK g : g = scopes[e].giver
    OBVIOUS
  <1>10. e \in 1 .. Len(scopes) /\ g \in 1 .. Len(states) /\ states[g].env < e
    BY <1>1, <1>6, <1>9, MyBlockIs
  <1>11. arrays[State.bound.arr][i].scope = g
    <2>1. CASE scopes[e].used
      BY <1>1, <1>6, <1>9, <2>1 DEF Orderly
    <2>2. CASE ~scopes[e].used
      BY <1>1, <1>6, <1>9, <2>2, FirstFound
    <2> QED
      BY <2>1, <2>2
  <1>12. old = states[g]
    BY <1>1, <1>4, <1>11 DEF FrozenScope
  <1>13. st.mine = NoVars /\ st.vars = states[g].vars
    BY <1>5, <1>12 DEF NewState
  <1>14. PICK n, v : n = Len(stack) /\ v = View(stack, states)
    OBVIOUS
  <1>15. /\ n \in Nat /\ n >= 1 /\ v[n].env = e
         /\ \A j \in 1 .. n : /\ v[j].state \in 1 .. Len(states) /\ v[j].state = stack[j].state
                              /\ v[j].env = states[v[j].state].env /\ v[j].env \in Nat
    BY <1>1, <1>8, <1>14, ViewFits
  <1>16. PICK c \in 1 .. n - 1 : v[c].state = g /\ \A l \in c + 1 .. n : e <= v[l].env
    <2>1. Blocks(v, n, scopes, arrays)
      BY <1>14 DEF BInv, Ordered
    <2>2. n \in 1 .. n /\ scopes[v[n].env].giver # 0 /\ scopes[v[n].env].giver = g
      BY <1>9, <1>10, <1>15
    <2> QED
      BY <1>15, <2>1, <2>2 DEF Blocks, Called
  <1>17. c \in 1 .. n /\ g \in On(stack)
    <2>1. c \in 1 .. n
      BY <1>15
    <2> QED
      BY <1>14, <1>15, <1>16, <2>1 DEF On
  <1>18. /\ Apart(states) /\ Heap(bindings) /\ Fits(bindings, states[g].vars)
         /\ states[g].env \in 1 .. Len(scopes) /\ Len(states) \in Nat /\ Len(scopes) \in Nat
    BY <1>10, SeqBasics DEF IInv, MemoryOK, Fine
  <1>19. ASSUME NEW p \in On(stack), states[p].vars.arr = states[g].vars.arr
         PROVE  states[p].vars.len <= states[g].vars.len
    <2>1. PICK j \in 1 .. n : p = v[j].state /\ p = stack[j].state
      BY <1>14, <1>15 DEF On
    <2>2. CASE j <= c
      <3>1. Layered(stack) /\ c \in 1 .. Len(stack) /\ j \in 1 .. Len(stack)
        BY <1>14, <1>17 DEF KInv
      <3>2. p <= g
        BY <1>15, <1>16, <1>17, <2>1, <2>2, <3>1 DEF Layered
      <3> QED
        BY <1>17, <1>19, <3>2 DEF KInv, Saved, Growing
    <2>3. CASE ~(j <= c)
      <3>1. j \in c + 1 .. n
        BY <1>15, <2>3
      <3>2. e <= states[p].env /\ states[p].env \in Nat /\ p \in 1 .. Len(states)
        BY <1>15, <1>16, <2>1, <3>1
      <3>3. states[p].env # states[g].env
        BY <1>10, <1>18, <3>2
      <3> QED
        BY <1>10, <1>18, <1>19, <3>2, <3>3 DEF Apart
    <2> QED
      BY <2>2, <2>3
  <1>20. Begins(st, On(stack), states)
    <2>1. states[g].vars.len \in Nat
      BY <1>18, FitsFields
    <2> QED
      BY <1>13, <1>19, <2>1 DEF Begins
  <1>21. PICK y : y = Append([states EXCEPT ![Top.state].bound = x], st)
    OBVIOUS
  <1>22. PICK C : C = bindings /\ \A a \in 1 .. Len(bindings) : C[a] = bindings[a]
    OBVIOUS
  <1>23. Walk(tmpl, st, C, x) /\ (Ready("call") => Sound(y, C))
    BY <1>7, <1>8, <1>22
  <1> QED
    BY <1>8, <1>20, <1>21, <1>22, <1>23, WalkKeeps

LEMMA InitKeeps == Init => KInv
  <1> SUFFICES ASSUME Init PROVE KInv
    OBVIOUS
  <1>1. PICK r : r = Appended(<<<<Binding("$", Null)>>>>, [arr |-> 1, len |-> 1], Globals, Unbound)
    OBVIOUS
  <1>2. PICK first : first = FALSE
    OBVIOUS
  <1>3. PICK st : st = NewState(NoSlice, 0, r.slice, 1, 1, first)
    OBVIOUS
  <1>4. PICK f : f = Frame(1, "template", body[Main], Nothing, <<>>)
    OBVIOUS
  <1>5. states = <<st>> /\ stack = <<f>>
    BY <1>1, <1>2, <1>3, <1>4 DEF Init
  <1>6. f.state = 1
    BY <1>4 DEF Frame
  <1>7. Len(stack) = 1 /\ stack[1] = f /\ states[1] = st /\ \A i \in 1 .. 1 : i = 1
    BY <1>5
  <1>8. st.mine = NoVars
    BY <1>3 DEF NewState
  <1>9. Layered(stack)
    BY <1>6, <1>7 DEF Layered
  <1>10. On(stack) \subseteq {1}
    BY <1>6, <1>7 DEF On
  <1>11. Fits(bindings, st.vars) /\ Heap(bindings)
    <2>1. IInv
      BY InitIInv
    <2>2. Len(states) = 1 /\ 1 \in 1 .. 1
      BY <1>5
    <2> QED
      BY <1>7, <2>1, <2>2 DEF IInv, MemoryOK, Fine
  <1>12. Growing(On(stack), states)
    BY <1>7, <1>10, <1>11, FitsFields DEF Growing
  <1>13. Keeping(On(stack), states, bindings)
    BY <1>7, <1>8, <1>10 DEF Keeping, NoVars
  <1> QED
    BY <1>9, <1>12, <1>13 DEF KInv, Saved

LEMMA NextKeeps ==
    ASSUME IInv, BInv, KInv, Orderly, [Next]_vars
    PROVE  KInv'
  <1>1. CASE UNCHANGED vars
    BY <1>1 DEF vars, KInv
  <1>2. CASE Next
    BY <1>1, <1>2, PlainKeeps, AssigningKeepsValues, PanicKeeps, UndefinedKeeps,
       CallKeeps, UseBlockKeeps, UseAgainKeeps DEF Next, Returned
  <1> QED
    BY <1>1, <1>2

LEMMA KInvValues == ASSUME IInv, KInv PROVE KeepsValues
  <1> SUFFICES ASSUME NEW i \in DOMAIN stack, NEW x \in DOMAIN states[stack[i].state].mine
               PROVE  varValue(bindings, states[stack[i].state].vars, x) = states[stack[i].state].mine[x]
    BY DEF KeepsValues
  <1>1. PICK p : p = stack[i].state
    OBVIOUS
  <1>2. IsSeq(stack) /\ i \in 1 .. Len(stack) /\ p \in 1 .. Len(states)
    BY <1>1, SeqBasics DEF IInv, StackOK, FrameOK
  <1>3. p \in On(stack)
    BY <1>1, <1>2 DEF On
  <1>4. Heap(bindings) /\ Fits(bindings, states[p].vars)
    BY <1>2 DEF IInv, MemoryOK, Fine
  <1>5. Has(bindings, states[p].vars, x, states[p].mine[x])
    BY <1>1, <1>3 DEF KInv, Saved, Keeping
  <1> QED
    BY <1>1, <1>4, <1>5, HasValue

-----------------------------------------------------------------------------
(* Executions in which every block is passed by one state.                 *)

\* The blocks of the name b in the slice s are frozen with the state q.
Of(s, A, b, q) == \A j \in 1 .. s.len : A[s.arr][j].name = b => A[s.arr][j].scope = q
AllOf(all, A, b, q) == \A i \in 1 .. Len(all) : Of(all[i].bound, A, b, q)
\* All that is frozen of a block is what the giver of any scope froze.
Authored(all, A, sc) ==
    \A e \in 1 .. Len(sc) : sc[e].block # Null => AllOf(all, A, sc[e].block, sc[e].giver)

\* A block is passed by one state only, in one call or in many: where its name
\* is frozen, no other state froze it for a scope or has it in a slice.
OneAuthor ==
    Ready("call") /\ Instr.value # Null =>
       /\ \A e \in 1 .. Len(scopes) : scopes[e].block = Instr.value => scopes[e].giver = Top.state
       /\ AllOf(states, arrays, Instr.value, Top.state)

AInv == Authored(states, arrays, scopes)

\* The states have the blocks that they had.
SameBounds(all, later) ==
    Len(later) = Len(all) /\ \A i \in 1 .. Len(all) : later[i].bound = all[i].bound

LEMMA BoundsItself == ASSUME NEW all PROVE SameBounds(all, all)
  BY DEF SameBounds

LEMMA BoundsTwice ==
    ASSUME NEW all, NEW w, SameBounds(all, w), NEW later, SameBounds(w, later)
    PROVE  SameBounds(all, later)
  BY DEF SameBounds

LEMMA AuthoredStays ==
    ASSUME NEW all, NEW A, NEW sc, Authored(all, A, sc), NEW later, SameBounds(all, later)
    PROVE  Authored(later, A, sc)
  BY DEF Authored, AllOf, SameBounds

LEMMA StoringBounds ==
    ASSUME NEW all, NEW B, NEW A, NEW k, MemoryOK(all, A, B, k),
           NEW s \in 1 .. Len(all), NEW r, NEW es,
           NEW q, q = Stored([states |-> all, bindings |-> B], s, r, es)
    PROVE  SameBounds(all, q.states)
  <1>1. PICK m : m = [states |-> all, bindings |-> B]
    OBVIOUS
  <1>2. PICK w : w = q.states
    OBVIOUS
  <1>3. q = Stored(m, s, r, es)
    BY <1>1
  <1>4. Len(w) = Len(all) /\ \A i \in 1 .. Len(all) : w[i].bound = all[i].bound
    BY <1>1, <1>2, <1>3, StoredIs
  <1> QED
    BY <1>2, <1>4 DEF SameBounds

LEMMA AssigningBounds ==
    ASSUME NEW all, NEW B, NEW A, NEW k, MemoryOK(all, A, B, k),
           NEW s \in 1 .. Len(all), NEW es,
           NEW q, q = Assigned([states |-> all, bindings |-> B], s, es)
    PROVE  SameBounds(all, q.states)
  <1>1. PICK r : r = setVarValues(B, all[s].vars, es)
    OBVIOUS
  <1>2. q = Stored([states |-> all, bindings |-> B], s, r, es)
    BY <1>1 DEF Assigned
  <1> QED
    BY <1>2, StoringBounds

LEMMA EvaluatedBounds ==
    ASSUME IInv, Walking, NEW v, NEW q, q = Evaluated(v)
    PROVE  SameBounds(states, q.states)
  <1>1. PICK xs : xs = Declared(v)
    OBVIOUS
  <1>2. PICK r, s : r = Appended(bindings, State.vars, xs, Unbound) /\ s = Top.state
    OBVIOUS
  <1>3. q = Stored([states |-> states, bindings |-> bindings], s, r, xs)
    BY <1>1, <1>2 DEF Evaluated, Memory
  <1>4. MemoryOK(states, arrays, bindings, Len(scopes)) /\ s \in 1 .. Len(states)
    BY <1>2, TopIs, InstrIs DEF IInv
  <1> QED
    BY <1>3, <1>4, StoringBounds

\* The catch of a panic assigns.
LEMMA PanicBounds ==
    ASSUME IInv, stack # <<>>,
           NEW m, Keeps(states, arrays', bindings, Len(scopes), m, {State.env}), Panic(m)
    PROVE  SameBounds(m.states, states')
  <1>1. PICK w, C, A : w = m.states /\ C = m.bindings /\ A = arrays'
    OBVIOUS
  <1>2. /\ m = [states |-> w, bindings |-> C]
        /\ MemoryOK(w, A, C, Len(scopes)) /\ Len(w) = Len(states)
    BY <1>1 DEF Keeps
  <1>3. PICK n \in Nat : n = Len(stack) /\ DOMAIN stack = 1 .. n /\ n >= 1 /\ IsSeq(stack)
    BY StackIs
  <1>4. PICK I : I = {i \in 1 .. n : stack[i].kind = "try"}
    OBVIOUS
  <1>5. PICK t : t = IF I # {} THEN Max(I) ELSE 0
    OBVIOUS
  <1>6. t = SelectLastInSeq(stack, LAMBDA f : f.kind = "try")
    BY <1>3, <1>4, <1>5 DEF SelectLastInSeq
  <1>7. CASE t = 0
    <2>1. states' = w
      BY <1>1, <1>6, <1>7 DEF Panic, Becomes
    <2> QED
      BY <1>1, <2>1, BoundsItself
  <1>8. CASE t # 0
    <2>1. t \in 1 .. n
      <3>1. I \subseteq 1 .. n /\ I # {} /\ t = Max(I)
        BY <1>4, <1>5, <1>8
      <3>2. t \in I
        BY <3>1, MaxExists
      <3> QED
        BY <3>1, <3>2
    <2>2. PICK s, es : s = stack[t].state /\ es = <<Binding(stack[t].stmt.vars[1], Exception)>>
      OBVIOUS
    <2>3. PICK u : u = Assigned(m, s, es)
      OBVIOUS
    <2>4. states' = u.states
      BY <1>6, <1>8, <2>2, <2>3 DEF Panic, Becomes
    <2>5. s \in 1 .. Len(w)
      <3>1. FrameOK(stack[t], Len(states))
        BY <1>3, <2>1, StackIs
      <3> QED
        BY <1>2, <2>2, <3>1 DEF FrameOK
    <2>6. u = Assigned([states |-> w, bindings |-> C], s, es)
      BY <1>2, <2>3
    <2>7. SameBounds(w, u.states)
      BY <1>2, <2>5, <2>6, AssigningBounds
    <2> QED
      BY <1>1, <2>4, <2>7
  <1> QED
    BY <1>7, <1>8

\* Freezing a block e: what is frozen in the other slices stays, or is e.
LEMMA FrozenOf ==
    ASSUME NEW A, Heap(A), NEW s, Fits(A, s), NEW e, NEW r, FrozenIn(A, s, e, r),
           NEW b, NEW q, e.name = b => e.scope = q,
           NEW z, Fits(A, z), Of(z, A, b, q)
    PROVE  Of(z, r.heap, b, q) /\ (z = s => Of(r.slice, r.heap, b, q))
  <1>1. /\ z.len \in Nat
        /\ z.len # 0 => z.arr \in 1 .. Len(A) /\ z.len <= Len(A[z.arr])
    BY FitsFields
  <1>2. z.len # 0 => Len(A[z.arr]) \in Nat
    BY <1>1, SeqBasics DEF Heap
  <1>3. ASSUME NEW j \in 1 .. z.len
        PROVE  r.heap[z.arr][j] = A[z.arr][j] \/ r.heap[z.arr][j] = e
    <2>1. z.arr \in 1 .. Len(A) /\ j \in 1 .. Len(A[z.arr])
      BY <1>1, <1>2
    <2> QED
      BY <2>1 DEF FrozenIn
  <1>4. Of(z, r.heap, b, q)
    BY <1>3 DEF Of
  <1>5. ASSUME z = s
        PROVE  Of(r.slice, r.heap, b, q)
    <2>1. PICK m \in Nat : m = s.len /\ r.slice.len = m + 1
      BY <1>1, <1>5 DEF FrozenIn
    <2>2. \A j \in 1 .. m + 1 : j \in 1 .. m \/ j = m + 1
      OBVIOUS
    <2>3. \A j \in 1 .. m : r.heap[r.slice.arr][j] = A[s.arr][j]
      BY <2>1 DEF FrozenIn
    <2>4. r.heap[r.slice.arr][m + 1] = e
      BY <2>1 DEF FrozenIn
    <2>5. \A j \in 1 .. m : A[s.arr][j].name = b => A[s.arr][j].scope = q
      BY <1>5, <2>1 DEF Of
    <2> QED
      BY <2>1, <2>2, <2>3, <2>4, <2>5 DEF Of
  <1> QED
    BY <1>4, <1>5

\* Taking out an entry moves others of the same slice.
LEMMA RemovedOf ==
    ASSUME NEW A, Heap(A), NEW s, Fits(A, s), NEW i \in 1 .. s.len, NEW r, RemovedFrom(A, s, i, r),
           NEW b, NEW q, Of(s, A, b, q), NEW z, Fits(A, z), Of(z, A, b, q)
    PROVE  Of(z, r.heap, b, q) /\ Of(r.slice, r.heap, b, q)
  <1>1. /\ s.len \in Nat /\ s.arr \in 1 .. Len(A) /\ s.len <= Len(A[s.arr]) /\ Len(A[s.arr]) \in Nat
        /\ z.len \in Nat /\ (z.len # 0 => z.arr \in 1 .. Len(A) /\ z.len <= Len(A[z.arr]))
    <2>1. s.len \in Nat /\ s.arr \in 1 .. Len(A) /\ s.len <= Len(A[s.arr])
      BY FitsFields
    <2>2. z.len \in Nat /\ (z.len # 0 => z.arr \in 1 .. Len(A) /\ z.len <= Len(A[z.arr]))
      BY FitsFields
    <2>3. Len(A[s.arr]) \in Nat
      BY <2>1, SeqBasics DEF Heap
    <2> QED
      BY <2>1, <2>2, <2>3
  <1>2. ASSUME NEW j \in 1 .. Len(A[s.arr]), A[s.arr][j].name = b => A[s.arr][j].scope = q
        PROVE  r.heap[s.arr][j].name = b => r.heap[s.arr][j].scope = q
    <2>1. r.heap[s.arr][j] = IF i <= j /\ j < s.len THEN A[s.arr][j + 1] ELSE A[s.arr][j]
      BY DEF RemovedFrom
    <2>2. CASE i <= j /\ j < s.len
      <3>1. j + 1 \in 1 .. s.len
        BY <1>1, <2>2
      <3>2. A[s.arr][j + 1].name = b => A[s.arr][j + 1].scope = q
        BY <3>1 DEF Of
      <3> QED
        BY <2>1, <2>2, <3>2
    <2>3. CASE ~(i <= j /\ j < s.len)
      BY <1>2, <2>1, <2>3
    <2> QED
      BY <2>2, <2>3
  <1>3. Of(z, r.heap, b, q)
    <2>1. CASE z.arr = s.arr
      <3>1. \A j \in 1 .. z.len : j \in 1 .. Len(A[s.arr])
        BY <1>1, <2>1
      <3> QED
        BY <1>2, <2>1, <3>1 DEF Of
    <2>2. CASE z.arr # s.arr
      <3>1. ASSUME NEW j \in 1 .. z.len PROVE r.heap[z.arr] = A[z.arr]
        <4>1. z.arr \in 1 .. Len(A)
          BY <1>1
        <4> QED
          BY <2>2, <4>1 DEF RemovedFrom
      <3> QED
        BY <3>1 DEF Of
    <2> QED
      BY <2>1, <2>2
  <1>4. Of(r.slice, r.heap, b, q)
    <2>1. r.slice.arr = s.arr /\ r.slice.len = s.len - 1
      BY DEF RemovedFrom
    <2>2. \A j \in 1 .. s.len - 1 : j \in 1 .. s.len /\ j \in 1 .. Len(A[s.arr])
      BY <1>1
    <2>3. \A j \in 1 .. s.len - 1 : A[s.arr][j].name = b => A[s.arr][j].scope = q
      BY <2>2 DEF Of
    <2> QED
      BY <1>2, <2>1, <2>2, <2>3 DEF Of
  <1> QED
    BY <1>3, <1>4

\* The slices of the states later are the slice x and slices of the states all.
Among(later, all, x) ==
    \A i \in 1 .. Len(later) : later[i].bound = x \/ \E c \in 1 .. Len(all) : later[i].bound = all[c].bound
\* So it is in the slice x too.
Marked(all, x, A, sc) ==
    /\ Authored(all, A, sc)
    /\ \A e \in 1 .. Len(sc) : sc[e].block # Null => Of(x, A, sc[e].block, sc[e].giver)

LEMMA AuthoredAmong ==
    ASSUME NEW all, NEW x, NEW A, NEW sc, Marked(all, x, A, sc), NEW later, Among(later, all, x)
    PROVE  Authored(later, A, sc)
  <1> SUFFICES ASSUME NEW e \in 1 .. Len(sc), sc[e].block # Null, NEW i \in 1 .. Len(later)
               PROVE  Of(later[i].bound, A, sc[e].block, sc[e].giver)
    BY DEF Authored, AllOf
  <1>1. Of(x, A, sc[e].block, sc[e].giver)
    BY DEF Marked
  <1>2. \A c \in 1 .. Len(all) : Of(all[c].bound, A, sc[e].block, sc[e].giver)
    BY DEF Marked, Authored, AllOf
  <1>3. later[i].bound = x \/ \E c \in 1 .. Len(all) : later[i].bound = all[c].bound
    BY DEF Among
  <1> QED
    BY <1>1, <1>2, <1>3

LEMMA MarkedScopes ==
    ASSUME NEW all, NEW x, NEW A, NEW sc, Marked(all, x, A, sc), NEW su,
           \A e \in 1 .. Len(su) : su[e].block # Null =>
              e \in 1 .. Len(sc) /\ su[e].block = sc[e].block /\ su[e].giver = sc[e].giver
    PROVE  Marked(all, x, A, su)
  <1>1. \A e \in 1 .. Len(su) : su[e].block # Null => Of(x, A, su[e].block, su[e].giver)
    BY DEF Marked
  <1>2. Authored(all, A, su)
    BY DEF Marked, Authored
  <1> QED
    BY <1>1, <1>2 DEF Marked

\* The steps that touch neither blocks nor scopes.
LEMMA CalmAuthor ==
    ASSUME AInv, SameBounds(states, states'), UNCHANGED <<arrays, scopes>>
    PROVE  AInv'
  BY AuthoredStays DEF AInv

LEMMA PlainAuthor ==
    ASSUME IInv, AInv,
           \/ Prints \/ walkIfOrWith \/ walkTry \/ Ends \/ RangeEnds \/ Puts
           \/ walkWhile \/ WhileGoesOn \/ UseNoBlock \/ Returned
    PROVE  AInv'
  <1>1. UNCHANGED <<states, arrays, scopes>>
    BY DEF Prints, walkIfOrWith, walkTry, Ends, RangeEnds, Puts, walkWhile, WhileGoesOn, UseNoBlock,
       Returned, vars
  <1> QED
    BY <1>1 DEF AInv

LEMMA AssigningAuthor ==
    ASSUME IInv, AInv, Sets \/ oneIteration \/ walkRange \/ RangeNothing \/ ForKeys
    PROVE  AInv'
  <1>1. ASSUME Walking, NEW v, Becomes(Evaluated(v)), UNCHANGED <<arrays, scopes>>
        PROVE  AInv'
    <2>1. PICK q : q = Evaluated(v)
      OBVIOUS
    <2>2. SameBounds(states, q.states) /\ states' = q.states
      BY <1>1, <2>1, EvaluatedBounds DEF Becomes
    <2> QED
      BY <1>1, <2>2, CalmAuthor
  <1>2. ASSUME stack # <<>>, NEW es, Becomes(Assigned(Memory, Top.state, es)), UNCHANGED <<arrays, scopes>>
        PROVE  AInv'
    <2>1. PICK q : q = Assigned(Memory, Top.state, es)
      OBVIOUS
    <2>2. q = Assigned([states |-> states, bindings |-> bindings], Top.state, es) /\ states' = q.states
      BY <1>2, <2>1 DEF Becomes, Memory
    <2>3. MemoryOK(states, arrays, bindings, Len(scopes)) /\ Top.state \in 1 .. Len(states)
      BY <1>2, TopIs DEF IInv
    <2>4. SameBounds(states, q.states)
      BY <2>2, <2>3, AssigningBounds
    <2> QED
      BY <1>2, <2>2, <2>4, CalmAuthor
  <1>3. CASE Sets
    BY <1>2, <1>3, InstrIs DEF Sets, Ready
  <1>4. CASE oneIteration
    BY <1>2, <1>4 DEF oneIteration, InLoop
  <1>5. CASE walkRange
    BY <1>1, <1>5 DEF walkRange, Ready
  <1>6. CASE RangeNothing
    BY <1>1, <1>6 DEF RangeNothing, Ready
  <1>7. CASE ForKeys
    BY <1>1, <1>7 DEF ForKeys, Ready
  <1> QED
    BY <1>3, <1>4, <1>5, <1>6, <1>7

\* __freeze leaves the blocks with the states that passed them.
LEMMA FrozenMarked ==
    ASSUME IInv, AInv, OneAuthor, Ready("call"), NEW A, A = Frozen.heap, NEW x, x = Frozen.slice
    PROVE  /\ Marked(states, x, A, scopes)
           /\ Instr.value # Null => /\ AllOf(states, A, Instr.value, Top.state)
                                    /\ Of(x, A, Instr.value, Top.state)
  <1>1. stack # <<>>
    BY InstrIs DEF Ready
  <1>2. PICK name, t : name = Instr.value /\ t = Top.state
    OBVIOUS
  <1>3. PICK s : s = State.bound
    OBVIOUS
  <1>4. /\ Heap(arrays) /\ Fits(arrays, s) /\ t \in 1 .. Len(states) /\ s = states[t].bound
        /\ \A i \in 1 .. Len(states) : Fits(arrays, states[i].bound)
    BY <1>1, <1>2, <1>3, TopIs DEF IInv, MemoryOK, Fine
  <1>5. ASSUME NEW b, NEW q, AllOf(states, arrays, b, q), name # Null /\ name = b => t = q
        PROVE  AllOf(states, A, b, q) /\ Of(x, A, b, q)
    <2>1. \A i \in 1 .. Len(states) : Of(states[i].bound, arrays, b, q)
      BY <1>5 DEF AllOf
    <2>2. CASE name = Null
      <3>1. A = arrays /\ x = s
        BY <1>2, <1>3, <2>2 DEF Frozen
      <3> QED
        BY <1>4, <1>5, <2>1, <3>1
    <2>3. CASE name # Null
      <3>1. PICK e : e = [name |-> name, scope |-> t]
        OBVIOUS
      <3>2. PICK r : r = Appended(arrays, s, <<e>>, NoEntry) /\ r.heap = A /\ r.slice = x
        BY <1>2, <1>3, <2>3, <3>1 DEF Frozen
      <3>3. FrozenIn(arrays, s, e, r)
        BY <1>4, <3>2, FrozenCells
      <3>4. e.name = b => e.scope = q
        BY <1>5, <2>3, <3>1
      <3>5. ASSUME NEW i \in 1 .. Len(states)
            PROVE  Of(states[i].bound, r.heap, b, q) /\ (states[i].bound = s => Of(r.slice, r.heap, b, q))
        <4>1. PICK z : z = states[i].bound /\ Fits(arrays, z) /\ Of(z, arrays, b, q)
          BY <1>4, <2>1
        <4>2. Of(z, r.heap, b, q) /\ (z = s => Of(r.slice, r.heap, b, q))
          BY <1>4, <3>3, <3>4, <4>1, FrozenOf
        <4> QED
          BY <4>1, <4>2
      <3>6. AllOf(states, A, b, q)
        BY <3>2, <3>5 DEF AllOf
      <3>7. Of(x, A, b, q)
        BY <1>4, <3>2, <3>5
      <3> QED
        BY <3>6, <3>7
    <2> QED
      BY <2>2, <2>3
  <1>6. ASSUME NEW e \in 1 .. Len(scopes), scopes[e].block # Null
        PROVE  AllOf(states, A, scopes[e].block, scopes[e].giver) /\ Of(x, A, scopes[e].block, scopes[e].giver)
    <2>1. AllOf(states, arrays, scopes[e].block, scopes[e].giver)
      BY <1>6 DEF AInv, Authored
    <2>2. name # Null /\ name = scopes[e].block => t = scopes[e].giver
      BY <1>2, <1>6 DEF OneAuthor
    <2> QED
      BY <1>5, <2>1, <2>2
  <1>7. Marked(states, x, A, scopes)
    BY <1>6 DEF Marked, Authored
  <1>8. name # Null => AllOf(states, A, name, t) /\ Of(x, A, name, t)
    BY <1>2, <1>5 DEF OneAuthor
  <1> QED
    BY <1>2, <1>7, <1>8

LEMMA ReboundAmong ==
    ASSUME IInv, stack # <<>>, NEW x, NEW w, w = [states EXCEPT ![Top.state].bound = x]
    PROVE  Among(w, states, x)
  <1>1. /\ Len(w) = Len(states)
        /\ \A i \in 1 .. Len(states) : w[i].bound = IF i = Top.state THEN x ELSE states[i].bound
    BY Rebound
  <1> QED
    BY <1>1 DEF Among

LEMMA PanicAuthor ==
    ASSUME IInv, AInv, OneAuthor, Fails \/ CannotRange \/ WhileTooLong \/ CallTooDeep \/ BlockTooDeep
    PROVE  AInv'
  <1>1. ASSUME stack # <<>>, UNCHANGED arrays, Panic(Memory)
        PROVE  AInv'
    <2>1. PICK m : m = Memory
      OBVIOUS
    <2>2. Keeps(states, arrays', bindings, Len(scopes), m, {State.env})
      BY <1>1, <2>1, KeepsItself, AsideMore
    <2>3. SameBounds(m.states, states')
      BY <1>1, <2>1, <2>2, PanicBounds
    <2>4. SameBounds(states, states')
      BY <2>1, <2>3 DEF Memory
    <2> QED
      BY <1>1, <2>4, CalmAuthor DEF Panic
  <1>2. CASE Fails
    BY <1>1, <1>2, InstrIs DEF Fails, Ready
  <1>3. CASE WhileTooLong
    BY <1>1, <1>3 DEF WhileTooLong, InLoop
  <1>4. CASE BlockTooDeep
    BY <1>1, <1>4, InstrIs DEF BlockTooDeep, Ready
  <1>5. CASE CannotRange
    <2>1. PICK m : m = Evaluated(RangeValue)
      OBVIOUS
    <2>2. Walking /\ UNCHANGED arrays /\ Panic(m) /\ stack # <<>>
      BY <1>5, <2>1, InstrIs DEF CannotRange, Ready, Panic
    <2>3. Keeps(states, arrays', bindings, Len(scopes), m, {State.env})
      BY <2>1, <2>2, EvaluatedIs
    <2>4. SameBounds(states, m.states)
      BY <2>1, <2>2, EvaluatedBounds
    <2>5. SameBounds(m.states, states')
      BY <2>2, <2>3, PanicBounds
    <2>6. SameBounds(states, states')
      BY <2>4, <2>5, BoundsTwice
    <2> QED
      BY <2>2, <2>6, CalmAuthor DEF Panic
  <1>6. CASE CallTooDeep
    <2>1. PICK A, x : A = Frozen.heap /\ x = Frozen.slice
      OBVIOUS
    <2>2. PICK w : w = [states EXCEPT ![Top.state].bound = x]
      OBVIOUS
    <2>3. PICK m : m = [states |-> w, bindings |-> bindings]
      OBVIOUS
    <2>4. m = [Memory EXCEPT !.states = Freezes(@)]
      BY <2>1, <2>2, <2>3 DEF Memory, Freezes
    <2>5. Ready("call") /\ Walking /\ arrays' = A /\ Panic(m) /\ stack # <<>>
      BY <1>6, <2>1, <2>4, InstrIs DEF CallTooDeep, Ready, Panic
    <2>6. Moved(arrays, A, Len(states)) /\ Fits(A, x) /\ Live(A, x, Len(states))
      BY <2>1, <2>5, FrozenIs
    <2>7. Keeps(states, A, bindings, Len(scopes), m, {})
      BY <2>2, <2>3, <2>5, <2>6, KeepsFrozen
    <2>8. Keeps(states, arrays', bindings, Len(scopes), m, {State.env})
      BY <2>5, <2>7, AsideMore
    <2>9. SameBounds(w, states')
      <3>1. SameBounds(m.states, states')
        BY <2>5, <2>8, PanicBounds
      <3> QED
        BY <2>3, <3>1
    <2>10. Marked(states, x, A, scopes)
      BY <2>1, <2>5, FrozenMarked
    <2>11. Among(w, states, x)
      BY <2>2, <2>5, ReboundAmong
    <2>12. Authored(w, A, scopes)
      BY <2>10, <2>11, AuthoredAmong
    <2>13. Authored(states', A, scopes)
      BY <2>9, <2>12, AuthoredStays
    <2>14. scopes' = scopes
      BY <2>5 DEF Panic
    <2> QED
      BY <2>5, <2>13, <2>14 DEF AInv
  <1> QED
    BY <1>2, <1>3, <1>4, <1>5, <1>6

LEMMA UndefinedAuthor ==
    ASSUME IInv, AInv, OneAuthor, CallUndefined
    PROVE  AInv'
  <1>1. PICK A, x, w : A = Frozen.heap /\ x = Frozen.slice /\ w = [states EXCEPT ![Top.state].bound = x]
    OBVIOUS
  <1>2. Ready("call") /\ stack # <<>> /\ arrays' = A /\ states' = w /\ scopes' = scopes
    BY <1>1, InstrIs DEF CallUndefined, Ready, Freezes
  <1>3. Marked(states, x, A, scopes)
    BY <1>1, <1>2, FrozenMarked
  <1>4. Among(w, states, x)
    BY <1>1, <1>2, ReboundAmong
  <1>5. Authored(w, A, scopes)
    BY <1>3, <1>4, AuthoredAmong
  <1> QED
    BY <1>2, <1>5 DEF AInv

\* The slices of the states, after a template is entered.
LEMMA EnteredBounds ==
    ASSUME IInv, BInv, Walking, NEW tmpl, NEW st, NEW C, NEW x, Walk(tmpl, st, C, x),
           NEW y, y = Append([states EXCEPT ![Top.state].bound = x], st),
           Ready("call") => Sound(y, C),
           st.bound = x \/ \E c \in 1 .. Len(states) : st.bound = states[c].bound
    PROVE  Among(states', states, x)
  <1>1. stack # <<>>
    BY InstrIs
  <1>2. PICK n \in Nat : n = Len(states)
    BY <1>1, TopIs
  <1>3. PICK w : w = [states EXCEPT ![Top.state].bound = x]
    OBVIOUS
  <1>4. IsSeq(w) /\ Len(w) = n
    BY <1>1, <1>2, <1>3, Rebound
  <1>5. Among(w, states, x)
    BY <1>1, <1>3, ReboundAmong
  <1>6. Len(y) = n + 1 /\ y[n + 1] = st /\ \A i \in 1 .. n : y[i] = w[i]
    BY <1>3, <1>4, Appending
  <1>7. \A i \in 1 .. n + 1 : i \in 1 .. n \/ i = n + 1
    BY <1>2
  <1>8. Among(y, states, x)
    <2>1. ASSUME NEW i \in 1 .. n
          PROVE  y[i].bound = x \/ \E c \in 1 .. Len(states) : y[i].bound = states[c].bound
      BY <1>4, <1>5, <1>6 DEF Among
    <2>2. y[n + 1].bound = x \/ \E c \in 1 .. Len(states) : y[n + 1].bound = states[c].bound
      BY <1>6
    <2> QED
      BY <1>6, <1>7, <2>1, <2>2 DEF Among
  <1>9. SameBounds(y, states')
    <2>1. CASE Ready("call")
      <3>1. PICK es : es = Arguments(Instr.value)
        OBVIOUS
      <3>2. PICK u : u = Assigned([states |-> y, bindings |-> C], n + 1, es)
        OBVIOUS
      <3>3. states' = u.states
        BY <1>2, <2>1, <3>1, <3>2, Walked DEF Becomes
      <3>4. PICK A, k : MemoryOK(y, A, C, k)
        BY <2>1 DEF Sound
      <3>5. n + 1 \in 1 .. Len(y)
        BY <1>6
      <3>6. SameBounds(y, u.states)
        BY <3>2, <3>4, <3>5, AssigningBounds
      <3> QED
        BY <3>3, <3>6
    <2>2. CASE ~Ready("call")
      BY <2>2, Walked, BoundsItself
    <2> QED
      BY <2>1, <2>2
  <1> QED
    BY <1>8, <1>9 DEF SameBounds, Among

LEMMA CallAuthor ==
    ASSUME IInv, BInv, AInv, OneAuthor, CallMixin
    PROVE  AInv'
  <1>1. PICK A, x, r, b : A = Frozen.heap /\ x = Frozen.slice /\ r = GlobalsCopied /\ b = Instr.value
    OBVIOUS
  <1>2. PICK first : first = FALSE
    OBVIOUS
  <1>3. PICK st : st = NewState(x, State.depth + 1, r.slice, Len(scopes) + 1, Top.state, first)
    OBVIOUS
  <1>4. PICK C, tmpl, g : C = r.heap /\ tmpl = Instr.vars[1] /\ g = [giver |-> Top.state, block |-> b, used |-> FALSE]
    OBVIOUS
  <1>5. PICK su : su = scopes' /\ su = Append(scopes, g)
    BY <1>1, <1>4 DEF CallMixin
  <1>6. Ready("call") /\ Walking /\ stack # <<>> /\ arrays' = A
    BY <1>1, InstrIs DEF CallMixin, Ready
  <1>7. Walk(tmpl, st, C, x)
    BY <1>1, <1>2, <1>3, <1>4 DEF CallMixin, Walk, Enter
  <1>8. PICK y : y = Append([states EXCEPT ![Top.state].bound = x], st)
    OBVIOUS
  <1>9. /\ Moved(arrays, A, Len(states)) /\ Fits(A, x) /\ Live(A, x, Len(states))
        /\ Grown(bindings, C) /\ \A a \in 1 .. Len(bindings) : C[a] = bindings[a]
        /\ Fine(st, A, C, Len(states) + 1, Len(scopes) + 1) /\ Places(states, st)
    BY <1>1, <1>3, <1>4, <1>6, CalledState
  <1>10. PICK k \in Nat : k = Len(scopes) + 1 /\ Len(scopes) <= k /\ Len(scopes) \in Nat
    BY SeqBasics DEF IInv
  <1>11. MemoryOK(y, A, C, k)
    BY <1>6, <1>8, <1>9, <1>10, Added
  <1>12. Sound(y, C)
    BY <1>11 DEF Sound
  <1>13. st.bound = x
    BY <1>3 DEF NewState
  <1>14. Among(states', states, x)
    BY <1>6, <1>7, <1>8, <1>12, <1>13, EnteredBounds
  <1>15. Marked(states, x, A, scopes)
    BY <1>1, <1>6, FrozenMarked
  <1>16. b # Null => AllOf(states, A, b, Top.state) /\ Of(x, A, b, Top.state)
    BY <1>1, <1>6, FrozenMarked
  <1>17. Len(su) = k /\ su[k] = g /\ \A e \in 1 .. Len(scopes) : su[e] = scopes[e]
    BY <1>5, <1>10, Appending DEF IInv
  <1>18. \A e \in 1 .. k : e \in 1 .. Len(scopes) \/ e = k
    BY <1>10
  <1>19. ASSUME NEW e \in 1 .. Len(su), su[e].block # Null
         PROVE  AllOf(states, A, su[e].block, su[e].giver) /\ Of(x, A, su[e].block, su[e].giver)
    <2>1. CASE e \in 1 .. Len(scopes)
      BY <1>15, <1>17, <1>19, <2>1 DEF Marked, Authored
    <2>2. CASE e = k
      BY <1>4, <1>16, <1>17, <1>19, <2>2
    <2> QED
      BY <1>17, <1>18, <2>1, <2>2
  <1>20. Marked(states, x, A, su)
    BY <1>19 DEF Marked, Authored
  <1>21. Authored(states', A, su)
    BY <1>14, <1>20, AuthoredAmong
  <1> QED
    BY <1>5, <1>6, <1>21 DEF AInv

LEMMA UseBlockAuthor ==
    ASSUME IInv, BInv, AInv, UseBlock
    PROVE  AInv'
  <1>1. PICK e, P, tmpl, r : /\ e = State.env /\ P = Position /\ tmpl = MyBlock
                             /\ r = Removed(arrays, State.bound, Position)
    OBVIOUS
  <1>2. PICK A, x : A = r.heap /\ x = r.slice
    OBVIOUS
  <1>3. PICK depth, first : depth = FrozenScope.depth + 1 /\ first = ~scopes[e].used
    OBVIOUS
  <1>4. PICK old : old = FrozenScope
    OBVIOUS
  <1>5. PICK st : st = NewState(old.bound, depth, old.vars, old.env, e, first)
    OBVIOUS
  <1>6. /\ Ready("block") /\ P # 0 /\ arrays' = A
        /\ scopes' = [scopes EXCEPT ![e].used = TRUE]
    BY <1>1, <1>2 DEF UseBlock
  <1>7. Walk(tmpl, st, bindings, x)
    BY <1>1, <1>2, <1>3, <1>4, <1>5 DEF UseBlock, Walk, Enter
  <1>8. stack # <<>> /\ Walking /\ ~Ready("call")
    BY <1>6, InstrIs DEF Ready
  <1>9. PICK s, t : s = State.bound /\ t = Top.state
    OBVIOUS
  <1>10. /\ Heap(arrays) /\ Fits(arrays, s) /\ t \in 1 .. Len(states) /\ s = states[t].bound
         /\ Live(arrays, s, Len(states)) /\ e \in 1 .. Len(scopes)
         /\ \A i \in 1 .. Len(states) : Fits(arrays, states[i].bound)
    BY <1>1, <1>8, <1>9, TopIs DEF IInv, MemoryOK, Fine
  <1>11. P \in 1 .. s.len
    <2>1. P = Found(arrays, s, MyBlock)
      BY <1>1, <1>9 DEF Position
    <2>2. P \in 0 .. s.len /\ s.len \in Nat
      BY <1>10, <2>1, FoundLast
    <2> QED
      BY <1>6, <2>2
  <1>12. RemovedFrom(arrays, s, P, r)
    BY <1>1, <1>9, <1>10, <1>11, RemovedCells
  <1>13. ASSUME NEW b, NEW q, AllOf(states, arrays, b, q)
         PROVE  AllOf(states, A, b, q) /\ Of(x, A, b, q)
    <2>1. Of(s, arrays, b, q)
      BY <1>10, <1>13 DEF AllOf
    <2>2. ASSUME NEW i \in 1 .. Len(states)
          PROVE  Of(states[i].bound, r.heap, b, q) /\ Of(r.slice, r.heap, b, q)
      <3>1. PICK z : z = states[i].bound /\ Fits(arrays, z) /\ Of(z, arrays, b, q)
        BY <1>10, <1>13 DEF AllOf
      <3>2. Of(z, r.heap, b, q) /\ Of(r.slice, r.heap, b, q)
        BY <1>10, <1>11, <1>12, <2>1, <3>1, RemovedOf
      <3> QED
        BY <3>1, <3>2
    <2> QED
      BY <1>2, <1>10, <2>2 DEF AllOf
  <1>14. Marked(states, x, A, scopes)
    <2>1. \A c \in 1 .. Len(scopes) : scopes[c].block # Null =>
             /\ AllOf(states, A, scopes[c].block, scopes[c].giver)
             /\ Of(x, A, scopes[c].block, scopes[c].giver)
      BY <1>13 DEF AInv, Authored
    <2> QED
      BY <2>1 DEF Marked, Authored
  <1>15. Marked(states, x, A, scopes')
    <2>1. PICK su : su = scopes' /\ su = [scopes EXCEPT ![e].used = TRUE]
      BY <1>6
    <2>2. PICK w : w = states /\ ScopesOK(scopes, w)
      BY DEF BInv, Ordered
    <2>3. Len(su) = Len(scopes)
      BY <1>10, <2>1, <2>2, UsedIs
    <2>4. \A c \in 1 .. Len(scopes) : su[c].giver = scopes[c].giver /\ su[c].block = scopes[c].block
      BY <1>10, <2>1, <2>2, UsedIs
    <2>5. Marked(states, x, A, su)
      BY <1>14, <2>3, <2>4, MarkedScopes
    <2> QED
      BY <2>1, <2>5
  <1>16. \E c \in 1 .. Len(states) : st.bound = states[c].bound
    <2>1. PICK c : c = arrays[s.arr][P].scope
      OBVIOUS
    <2>2. c \in 1 .. Len(states)
      BY <1>10, <1>11, <2>1 DEF Live
    <2>3. old = states[c]
      BY <1>1, <1>4, <1>9, <2>1 DEF FrozenScope
    <2>4. st.bound = old.bound
      BY <1>5 DEF NewState
    <2> QED
      BY <2>2, <2>3, <2>4
  <1>17. PICK y : y = Append([states EXCEPT ![Top.state].bound = x], st)
    OBVIOUS
  <1>18. PICK C : C = bindings
    OBVIOUS
  <1>19. Walk(tmpl, st, C, x) /\ (Ready("call") => Sound(y, C))
    BY <1>7, <1>8, <1>18
  <1>20. Among(states', states, x)
    BY <1>8, <1>16, <1>17, <1>19, EnteredBounds
  <1>21. Authored(states', A, scopes')
    BY <1>15, <1>20, AuthoredAmong
  <1> QED
    BY <1>6, <1>21 DEF AInv

LEMMA UseAgainAuthor ==
    ASSUME IInv, BInv, AInv, UseBlockAgain
    PROVE  AInv'
  <1>1. PICK e, x, r, tmpl : e = State.env /\ x = State.bound /\ r = GlobalsCopied /\ tmpl = MyBlock
    OBVIOUS
  <1>2. PICK C, v : C = r.heap /\ v = r.slice
    OBVIOUS
  <1>3. PICK depth, first, none, new :
            /\ depth = State.depth + 1 /\ first = ~scopes[e].used /\ none = NoGiver
            /\ new = Len(scopes) + 1
    OBVIOUS
  <1>4. PICK st : st = NewState(x, depth, v, new, e, first)
    OBVIOUS
  <1>5. PICK us : us = [scopes EXCEPT ![e].used = TRUE]
    OBVIOUS
  <1>6. /\ Ready("block") /\ arrays' = arrays /\ scopes' = Append(us, none)
    BY <1>1, <1>3, <1>5 DEF UseBlockAgain
  <1>7. Walk(tmpl, st, C, x)
    BY <1>1, <1>2, <1>3, <1>4 DEF UseBlockAgain, Walk, Enter
  <1>8. stack # <<>> /\ Walking /\ ~Ready("call")
    BY <1>6, InstrIs DEF Ready
  <1>9. /\ Top.state \in 1 .. Len(states) /\ x = states[Top.state].bound
        /\ e \in 1 .. Len(scopes) /\ Len(scopes) \in Nat
    BY <1>1, <1>8, TopIs, SeqBasics DEF IInv, MemoryOK, Fine
  <1>10. Marked(states, x, arrays, scopes)
    BY <1>9 DEF AInv, Marked, Authored, AllOf
  <1>11. PICK su : su = scopes' /\ su = Append(us, none)
    BY <1>6
  <1>12. Marked(states, x, arrays, su)
    <2>1. PICK w : w = states /\ ScopesOK(scopes, w)
      BY DEF BInv, Ordered
    <2>2. IsSeq(us) /\ Len(us) = Len(scopes)
      BY <1>5, <1>9, <2>1, UsedIs
    <2>3. \A c \in 1 .. Len(scopes) : us[c].giver = scopes[c].giver /\ us[c].block = scopes[c].block
      BY <1>5, <1>9, <2>1, UsedIs
    <2>4. Len(su) = Len(us) + 1 /\ su[Len(us) + 1] = none /\ \A c \in 1 .. Len(us) : su[c] = us[c]
      BY <1>11, <2>2, Appending
    <2>5. Len(su) = new /\ su[new] = none /\ \A c \in 1 .. Len(scopes) : su[c] = us[c]
      BY <1>3, <2>2, <2>4
    <2>6. none.block = Null
      BY <1>3 DEF NoGiver
    <2>7. \A c \in 1 .. new : c \in 1 .. Len(scopes) \/ c = new
      BY <1>3, <1>9
    <2>8. \A c \in 1 .. Len(su) : su[c].block # Null =>
             c \in 1 .. Len(scopes) /\ su[c].block = scopes[c].block /\ su[c].giver = scopes[c].giver
      BY <2>3, <2>5, <2>6, <2>7
    <2> QED
      BY <1>10, <2>8, MarkedScopes
  <1>13. st.bound = x
    BY <1>4 DEF NewState
  <1>14. PICK y : y = Append([states EXCEPT ![Top.state].bound = x], st)
    OBVIOUS
  <1>15. Ready("call") => Sound(y, C)
    BY <1>8
  <1>16. Among(states', states, x)
    BY <1>7, <1>8, <1>13, <1>14, <1>15, EnteredBounds
  <1>17. Authored(states', arrays, su)
    BY <1>12, <1>16, AuthoredAmong
  <1> QED
    BY <1>6, <1>11, <1>17 DEF AInv

LEMMA InitAuthor == Init => AInv
  <1> SUFFICES ASSUME Init PROVE AInv
    OBVIOUS
  <1>1. scopes = <<NoGiver>>
    BY DEF Init
  <1>2. \A e \in 1 .. Len(scopes) : scopes[e].block = Null
    BY <1>1 DEF NoGiver
  <1> QED
    BY <1>2 DEF AInv, Authored

\* Where every block is passed by one state, no state freezes a block while a
\* mixin waits for one of this name: below that mixin the state is in its call
\* of it, and no walk call above goes back to an earlier state.
LEMMA AuthorOrderly ==
    ASSUME IInv, BInv, KInv, AInv, OneAuthor
    PROVE  Orderly
  <1>1. ASSUME Ready("call"), Instr.value # Null, NEW i \in DOMAIN stack,
               ~scopes[states[stack[i].state].env].used,
               scopes[states[stack[i].state].env].block = Instr.value
        PROVE  FALSE
    <2>1. stack # <<>>
      BY <1>1, InstrIs DEF Ready
    <2>2. PICK n, v : n = Len(stack) /\ v = View(stack, states)
      OBVIOUS
    <2>3. /\ n \in Nat /\ n >= 1 /\ v[n].state = Top.state
          /\ \A j \in 1 .. n : /\ v[j].state \in 1 .. Len(states) /\ v[j].state = stack[j].state
                               /\ v[j].env = states[v[j].state].env
                               /\ v[j].env \in 1 .. Len(scopes) /\ v[j].env \in Nat
      BY <2>1, <2>2, ViewFits
    <2>4. i \in 1 .. n /\ n \in 1 .. n
      BY <2>1, <2>2, <2>3, TopIs
    <2>5. PICK e, t : e = v[i].env /\ t = Top.state
      OBVIOUS
    <2>6. e \in 1 .. Len(scopes) /\ e = states[stack[i].state].env /\ scopes[e].block = Instr.value
      BY <1>1, <2>3, <2>4, <2>5
    <2>7. scopes[e].giver = t
      BY <1>1, <2>5, <2>6 DEF OneAuthor
    <2>8. t \in 1 .. Len(states) /\ t # 0 /\ t \in Nat
      BY <2>3, <2>4, <2>5
    <2>9. Called(v, n, scopes) /\ ScopesOK(scopes, states)
      BY <2>2 DEF BInv, Ordered, Blocks
    <2>10. PICK c \in 1 .. i - 1 : v[c].state = t
      BY <2>4, <2>5, <2>7, <2>8, <2>9 DEF Called
    <2>11. c \in 1 .. n /\ c <= i /\ i <= n
      BY <2>3, <2>4
    <2>12. stack[c].state = t /\ stack[n].state = t /\ stack[i].state \in Nat
      BY <2>3, <2>4, <2>5, <2>10, <2>11
    <2>13. stack[c].state <= stack[i].state /\ stack[i].state <= stack[n].state
      BY <2>2, <2>4, <2>11 DEF KInv, Layered
    <2>14. stack[i].state = t
      BY <2>8, <2>12, <2>13
    <2>15. states[t].env < e
      BY <2>6, <2>7, <2>8, <2>9 DEF ScopesOK, ScopeOK
    <2>16. states[t].env = e /\ e \in Nat
      BY <2>3, <2>4, <2>5, <2>6, <2>14
    <2> QED
      BY <2>15, <2>16
  <1>2. ASSUME Ready("block"), MyBlock \in DOMAIN body, Position # 0
        PROVE  arrays[State.bound.arr][Position].scope = scopes[State.env].giver
    <2>1. stack # <<>>
      BY <1>2, InstrIs DEF Ready
    <2>2. PICK s, e, P, x : s = State.bound /\ e = State.env /\ P = Position /\ x = MyBlock
      OBVIOUS
    <2>3. e \in 1 .. Len(scopes) /\ x = scopes[e].block /\ x # Null
      BY <1>2, <2>2, MyBlockIs
    <2>4. Heap(arrays) /\ Fits(arrays, s) /\ Top.state \in 1 .. Len(states) /\ s = states[Top.state].bound
      BY <2>1, <2>2, TopIs DEF IInv, MemoryOK, Fine
    <2>5. P = Found(arrays, s, x)
      BY <2>2 DEF Position
    <2>6. P \in 0 .. s.len /\ s.len \in Nat /\ (P # 0 => arrays[s.arr][P].name = x)
      BY <2>4, <2>5, FoundLast
    <2>7. P \in 1 .. s.len /\ arrays[s.arr][P].name = x
      BY <1>2, <2>2, <2>6
    <2>8. Of(s, arrays, x, scopes[e].giver)
      BY <2>3, <2>4 DEF AInv, Authored, AllOf
    <2> QED
      BY <2>2, <2>7, <2>8 DEF Of
  <1> QED
    BY <1>1, <1>2 DEF Orderly

LEMMA NextAuthor ==
    ASSUME IInv, BInv, AInv, OneAuthor, [Next]_vars
    PROVE  AInv'
  <1>1. CASE UNCHANGED vars
    BY <1>1 DEF vars, AInv
  <1>2. CASE Next
    BY <1>2, PlainAuthor, AssigningAuthor, PanicAuthor, UndefinedAuthor,
       CallAuthor, UseBlockAuthor, UseAgainAuthor DEF Next
  <1> QED
    BY <1>1, <1>2

-----------------------------------------------------------------------------
(* The theorems.                                                           *)

\* Every step of a behaviour starts in the invariant and keeps it.
THEOREM Invariance == Spec => []IInv
  <1>1. IInv /\ [Next]_vars => IInv'
    BY NextIInv
  <1> QED
    BY <1>1, InitIInv, PTL DEF Spec

\* Whatever the files, and however deep their mixins and blocks nest: every
\* slice of variables or of blocks is a window of its array, every block that
\* is frozen has its state, and every state its scope.
THEOREM TypeCorrect == Spec => []TypeOK
  BY Invariance, IInvTypeOK, PTL

\* No step of walk changes a variable of another scope than the one that it
\* walks in: append, the assignments in place and the copies of states with
\* their shared arrays give no template or mixin the variables of another.
THEOREM ScopesIsolated == Spec => Isolated
  <1>1. IInv /\ [Next]_vars => [Undisturbed]_vars
    BY NextIInv
  <1>2. [][Undisturbed]_vars => Isolated
    BY PTL DEF Isolated, Undisturbed
  <1> QED
    BY <1>1, <1>2, Invariance, PTL DEF Spec

\* Every loop over the map walks the keys that the map has at that moment: the
\* order of a literal or of an earlier loop, which the assignments append to,
\* and the sorted keys where there is none.  It walks a key twice only when the
\* literal named it twice.
THEOREM EveryKeyWalked == Spec => EachKeyWalked
  <1> DEFINE Step == Repeated(map'.order) \subseteq Repeated(map.order) /\ KeysWalked
  <1>1. IInv /\ MapOK /\ [Next]_vars => MapOK'
    BY MapSteps
  <1>2. Spec => []MapOK
    BY <1>1, InitMapOK, Invariance, PTL DEF Spec
  <1>3. IInv /\ MapOK /\ [Next]_vars => [Step]_vars
    BY KeySteps, MapSteps
  <1>4. [][Step]_vars => EachKeyWalked
    BY PTL DEF EachKeyWalked, KeysWalked, WalksKeys
  <1> QED
    BY <1>2, <1>3, <1>4, Invariance, PTL DEF Spec

\* In every execution that is orderly, a block that its mixin uses for the
\* first time walks in the scope of the template that passed it: whatever the
\* states in between froze, moved or overwrote in the arrays that they share,
\* the entry of the block is found by its name, and nothing hides it.
THEOREM BlocksScoped == Spec /\ []Orderly => []BlockScope
  <1>1. Init => IInv /\ BInv
    BY InitIInv, InitBlocks
  <1>2. (IInv /\ BInv) /\ Orderly /\ [Next]_vars => (IInv /\ BInv)'
    BY NextIInv, NextBlocks
  <1>3. IInv /\ BInv => BlockScope
    BY BInvScope
  <1> QED
    BY <1>1, <1>2, <1>3, PTL DEF Spec

\* In every execution that is orderly, a variable has the value that a template
\* gave it, until this template or a block it passed assigns it again: what
\* the mixins below, the loops and the exceptions push to the arrays that the
\* states share is behind what this state sees, or in another array.
THEOREM ValuesKept == Spec /\ []Orderly => []KeepsValues
  <1>1. Init => IInv /\ BInv /\ KInv
    BY InitIInv, InitBlocks, InitKeeps
  <1>2. (IInv /\ BInv /\ KInv) /\ Orderly /\ [Next]_vars => (IInv /\ BInv /\ KInv)'
    BY NextIInv, NextBlocks, NextKeeps
  <1>3. IInv /\ BInv /\ KInv => KeepsValues
    BY KInvValues
  <1> QED
    BY <1>1, <1>2, <1>3, PTL DEF Spec

\* Every execution in which each block is passed by one state only, be it in
\* one call or in many, is orderly: a mixin that still waits for its block is
\* above the call of the state that passed it, and no walk call above goes back
\* to this state; and whatever entry of its name a mixin finds later, the same
\* state froze it.  So in such an execution the blocks walk where they were
\* passed, and the variables keep their values.
THEOREM OneAuthorOrderly == Spec /\ []OneAuthor => [](Orderly /\ BlockScope /\ KeepsValues)
  <1> DEFINE I == IInv /\ BInv /\ KInv /\ AInv
  <1>1. Init => I
    BY InitIInv, InitBlocks, InitKeeps, InitAuthor
  <1>2. I /\ OneAuthor => Orderly
    BY AuthorOrderly
  <1>3. I /\ OneAuthor /\ [Next]_vars => I'
    BY <1>2, NextIInv, NextBlocks, NextKeeps, NextAuthor
  <1>4. Spec /\ []OneAuthor => []Orderly
    <2> HIDE DEF I
    <2> QED
      BY <1>1, <1>2, <1>3, PTL DEF Spec
  <1> QED
    BY <1>4, BlocksScoped, ValuesKept, PTL
=============================================================================
