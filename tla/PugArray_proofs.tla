--------------------------- MODULE PugArray_proofs ---------------------------
(* Proofs about PugArray: what an array shows is what Readme.md documents,  *)
(* for any number of arrays, however they share their backing arrays.       *)
EXTENDS PugArray, SequenceTheorems, FiniteSetTheorems, FunctionTheorems, TLAPS

Header == [blk : Blocks, off : Nat, len : 0 .. MaxLen]
Cells == Values \cup {0}

\* The window of a slice lies in its backing array, which is not an empty one:
\* so append never moves an array on top of another.
HeaderOK(h, mem) ==
    /\ h \in Header
    /\ h.off + h.len <= Len(mem[h.blk])
    /\ mem[h.blk] # <<>>

IInv ==
    /\ memory \in [Blocks -> Seq(Cells)]
    /\ items \in [Ids -> Header \cup {Absent}]
    /\ \A a \in Ids : items[a] # Absent => HeaderOK(items[a], memory)

LEMMA AbsentNoHeader == Absent \notin Header
  BY AbsentIsNew, BoundsType DEF Header

LEMMA InvImpliesType == IInv => TypeOK
  BY DEF IInv, TypeOK, Live, HeaderOK, Header, Cells

-----------------------------------------------------------------------------
(* What the operators do to sequences. *)

LEMMA Zeros ==
    ASSUME NEW n \in Nat
    PROVE  [i \in 1 .. n |-> 0] \in Seq(Cells) /\ Len([i \in 1 .. n |-> 0]) = n
  BY DEF Cells

LEMMA WindowOK ==
    ASSUME NEW s \in Seq(Cells), NEW o \in Nat, NEW l \in Nat, o + l <= Len(s)
    PROVE  /\ SubSeq(s, o + 1, o + l) \in Seq(Cells)
           /\ Len(SubSeq(s, o + 1, o + l)) = l
           /\ \A i \in 1 .. l : SubSeq(s, o + 1, o + l)[i] = s[o + i]
  <1>1. \A i \in (o + 1) .. (o + l) : s[i] \in Cells
    OBVIOUS
  <1> QED
    BY <1>1, SubSeqProperties

LEMMA LenSet ==
    ASSUME NEW h \in Header, NEW l \in 0 .. MaxLen
    PROVE  /\ [h EXCEPT !.len = l] \in Header
           /\ [h EXCEPT !.len = l].blk = h.blk
           /\ [h EXCEPT !.len = l].off = h.off
           /\ [h EXCEPT !.len = l].len = l
  BY BoundsType DEF Header

\* A window that is one element longer, after the cell behind it was written.
LEMMA WindowLonger ==
    ASSUME NEW m \in Seq(Cells), NEW o \in Nat, NEW l \in Nat, o + l + 1 <= Len(m), NEW v \in Cells
    PROVE  SubSeq([m EXCEPT ![o + l + 1] = v], o + 1, o + (l + 1)) = Append(SubSeq(m, o + 1, o + l), v)
  <1> DEFINE mm == [m EXCEPT ![o + l + 1] = v]
             s == SubSeq(m, o + 1, o + l)
             t == SubSeq(mm, o + 1, o + (l + 1))
  <1>1. /\ mm \in Seq(Cells) /\ Len(mm) = Len(m) /\ mm[o + l + 1] = v
        /\ \A i \in 1 .. l : mm[o + i] = m[o + i]
    BY ExceptSeq
  <1> HIDE DEF mm
  <1>2. t \in Seq(Cells) /\ Len(t) = l + 1 /\ \A i \in 1 .. l + 1 : t[i] = mm[o + i]
    BY <1>1, WindowOK
  <1>3. s \in Seq(Cells) /\ Len(s) = l /\ \A i \in 1 .. l : s[i] = m[o + i]
    <2>1. o + l <= Len(m)
      OBVIOUS
    <2> QED
      BY <2>1, WindowOK
  <1> HIDE DEF s, t
  <1>4. /\ Append(s, v) \in Seq(Cells) /\ Len(Append(s, v)) = l + 1
        /\ \A i \in 1 .. l : Append(s, v)[i] = s[i]
        /\ Append(s, v)[l + 1] = v
    BY <1>3, AppendProperties
  <1>5. \A i \in 1 .. l + 1 : t[i] = Append(s, v)[i]
    <2> SUFFICES ASSUME NEW i \in 1 .. l + 1 PROVE t[i] = Append(s, v)[i]
      OBVIOUS
    <2>1. CASE i = l + 1
      <3>1. t[l + 1] = mm[o + (l + 1)] /\ o + (l + 1) = o + l + 1
        BY <1>2
      <3> QED
        BY <1>1, <1>4, <2>1, <3>1
    <2>2. CASE i \in 1 .. l
      BY <1>1, <1>2, <1>3, <1>4, <2>2
    <2>3. i = l + 1 \/ i \in 1 .. l
      OBVIOUS
    <2> QED
      BY <2>1, <2>2, <2>3, Zenon
  <1>6. t = Append(s, v)
    BY <1>2, <1>4, <1>5, SeqEqual
  <1> QED
    BY <1>6 DEF mm, s, t

\* A window of a window.
LEMMA WindowOfWindow ==
    ASSUME NEW m \in Seq(Cells), NEW o \in Nat, NEW l \in Nat, o + l <= Len(m),
           NEW n \in Nat, NEW k \in Nat, n + k <= l
    PROVE  SubSeq(m, (o + n) + 1, (o + n) + k) = SubSeq(SubSeq(m, o + 1, o + l), n + 1, n + k)
  <1> DEFINE s == SubSeq(m, o + 1, o + l)
             t == SubSeq(m, (o + n) + 1, (o + n) + k)
             u == SubSeq(s, n + 1, n + k)
  <1>1. s \in Seq(Cells) /\ Len(s) = l /\ \A i \in 1 .. l : s[i] = m[o + i]
    BY WindowOK
  <1>2. t \in Seq(Cells) /\ Len(t) = k /\ \A i \in 1 .. k : t[i] = m[(o + n) + i]
    <2>1. o + n \in Nat /\ (o + n) + k <= Len(m)
      OBVIOUS
    <2> QED
      BY <2>1, WindowOK
  <1> HIDE DEF s
  <1>3. u \in Seq(Cells) /\ Len(u) = k /\ \A i \in 1 .. k : u[i] = s[n + i]
    BY <1>1, WindowOK
  <1> HIDE DEF t, u
  <1>4. \A i \in 1 .. k : t[i] = u[i]
    <2> SUFFICES ASSUME NEW i \in 1 .. k PROVE t[i] = u[i]
      OBVIOUS
    <2>1. n + i \in 1 .. l /\ o + (n + i) = (o + n) + i
      OBVIOUS
    <2> QED
      BY <1>1, <1>2, <1>3, <2>1
  <1>5. t = u
    BY <1>2, <1>3, <1>4, SeqEqual
  <1> QED
    BY <1>5 DEF s, t, u

LEMMA GrownOK ==
    ASSUME NEW old \in Nat, NEW needed \in Nat
    PROVE  Grown(old, needed) \in Nat /\ Grown(old, needed) >= needed
  BY DEF Grown

LEMMA ContentOK ==
    ASSUME IInv, NEW a \in Live
    PROVE  /\ Content(a) \in Seq(Cells)
           /\ Len(Content(a)) = items[a].len
           /\ \A i \in 1 .. items[a].len : Content(a)[i] = memory[items[a].blk][items[a].off + i]
           /\ items[a].len \in 0 .. MaxLen /\ items[a].off \in Nat /\ items[a].blk \in Blocks
           /\ memory[items[a].blk] \in Seq(Cells)
           /\ items[a].off + items[a].len <= Len(memory[items[a].blk])
           /\ memory[items[a].blk] # <<>>
           /\ a \in Ids /\ items[a] \in Header
           /\ Cap(a) \in Nat /\ Cap(a) >= items[a].len
  <1>1. /\ a \in Ids /\ HeaderOK(items[a], memory) /\ items[a] \in Header
        /\ memory[items[a].blk] \in Seq(Cells)
        /\ items[a].len \in 0 .. MaxLen /\ items[a].off \in Nat /\ items[a].blk \in Blocks
    BY DEF IInv, Live, HeaderOK, Header
  <1>2. items[a].len \in Nat /\ items[a].off + items[a].len <= Len(memory[items[a].blk])
    BY <1>1, BoundsType DEF HeaderOK
  <1>3. /\ Content(a) \in Seq(Cells)
        /\ Len(Content(a)) = items[a].len
        /\ \A i \in 1 .. items[a].len : Content(a)[i] = memory[items[a].blk][items[a].off + i]
    BY <1>1, <1>2, WindowOK DEF Content
  <1> QED
    BY <1>1, <1>2, <1>3, SMTT(30) DEF Cap, HeaderOK

-----------------------------------------------------------------------------
(* The invariant. *)

LEMMA InitIInv == Init => IInv
  <1> SUFFICES ASSUME Init PROVE IInv
    OBVIOUS
  <1>1. PICK literal \in [Given -> Literals], home \in [Given -> Blocks] :
           /\ items = [a \in Ids |-> IF a \in Given
                          THEN [blk |-> home[a], off |-> 0, len |-> Len(literal[a])]
                          ELSE Absent]
           /\ memory \in [Blocks -> Literals \cup {<<>>}]
           /\ \A a \in Given : memory[home[a]] = literal[a]
    BY DEF Init
  <1>2. \A s \in Literals : s \in Seq(Cells) /\ Len(s) \in 1 .. MaxLen /\ s # <<>>
    <2> SUFFICES ASSUME NEW n \in 1 .. MaxLen, NEW s \in [1 .. n -> Values]
                 PROVE  s \in Seq(Cells) /\ Len(s) \in 1 .. MaxLen /\ s # <<>>
      BY DEF Literals
    <2>1. n \in Nat /\ n > 0
      BY BoundsType
    <2>2. s \in Seq(Values) /\ Len(s) = n
      BY <2>1
    <2> QED
      BY <2>1, <2>2 DEF Cells
  <1>3. memory \in [Blocks -> Seq(Cells)]
    <2>1. <<>> \in Seq(Cells)
      OBVIOUS
    <2>2. Literals \cup {<<>>} \subseteq Seq(Cells)
      BY <1>2, <2>1
    <2> QED
      BY <1>1, <2>2
  <1>4. \A a \in Given : a \in Ids /\ items[a] \in Header /\ HeaderOK(items[a], memory)
    <2> SUFFICES ASSUME NEW a \in Given
                 PROVE  a \in Ids /\ items[a] \in Header /\ HeaderOK(items[a], memory)
      OBVIOUS
    <2>1. a \in Ids /\ items[a] = [blk |-> home[a], off |-> 0, len |-> Len(literal[a])]
      BY <1>1, GivenType
    <2>2. literal[a] \in Literals /\ memory[home[a]] = literal[a] /\ home[a] \in Blocks
      BY <1>1
    <2> QED
      BY <1>2, <2>1, <2>2, BoundsType DEF Header, HeaderOK
  <1>5. items \in [Ids -> Header \cup {Absent}]
    BY <1>1, <1>4
  <1>6. \A a \in Ids : items[a] # Absent => a \in Given
    BY <1>1
  <1> QED
    BY <1>3, <1>4, <1>5, <1>6 DEF IInv

LEMMA MoveOK ==
    ASSUME IInv, NEW a \in Live, NEW s \in Seq(Cells), NEW c \in Nat,
           Len(s) \in 1 .. MaxLen, Len(s) <= c, Move(a, s, c)
    PROVE  /\ IInv'
           /\ items'[a] # Absent /\ Content(a)' = s
  <1>1. PICK k \in Unused :
           /\ memory' = [j \in Blocks |->
                 CASE j = k -> s \o [i \in 1 .. c - Len(s) |-> 0]
                   [] j # k /\ \E b \in Live \ {a} : items[b].blk = j -> memory[j]
                   [] OTHER -> <<>>]
           /\ items' = [items EXCEPT ![a] = [blk |-> k, off |-> 0, len |-> Len(s)]]
    BY DEF Move, Point
  <1>2. k \in Blocks /\ memory[k] = <<>>
    BY <1>1 DEF Unused
  <1> DEFINE t == s \o [i \in 1 .. c - Len(s) |-> 0]
  <1>3. /\ t \in Seq(Cells) /\ Len(t) >= Len(s) /\ t # <<>>
        /\ \A i \in 1 .. Len(s) : t[i] = s[i]
    <2>1. c - Len(s) \in Nat
      OBVIOUS
    <2>2. [i \in 1 .. c - Len(s) |-> 0] \in Seq(Cells) /\ Len([i \in 1 .. c - Len(s) |-> 0]) = c - Len(s)
      BY <2>1, Zeros
    <2>3. t \in Seq(Cells) /\ Len(t) = Len(s) + (c - Len(s)) /\ \A i \in 1 .. Len(s) : t[i] = s[i]
      BY <2>2, ConcatProperties
    <2> QED
      BY <2>3
  <1>4. /\ memory'[k] = t
        /\ \A b \in Live \ {a} : items[b].blk # k /\ memory'[items[b].blk] = memory[items[b].blk]
    <2>1. memory'[k] = t
      BY <1>1, <1>2
    <2>2. ASSUME NEW b \in Live \ {a}
          PROVE  items[b].blk # k /\ memory'[items[b].blk] = memory[items[b].blk]
      <3>1. items[b].blk \in Blocks /\ memory[items[b].blk] # <<>>
        BY ContentOK
      <3>2. items[b].blk # k
        BY <1>2, <3>1
      <3> QED
        BY <1>1, <3>1, <3>2
    <2> QED
      BY <2>1, <2>2
  <1> HIDE DEF t
  <1>5. memory' \in [Blocks -> Seq(Cells)]
    <2>1. \A j \in Blocks : memory[j] \in Seq(Cells)
      BY DEF IInv
    <2>2. memory' = [j \in Blocks |->
             CASE j = k -> t
               [] j # k /\ \E b \in Live \ {a} : items[b].blk = j -> memory[j]
               [] OTHER -> <<>>]
      BY <1>1 DEF t
    <2>3. \A j \in Blocks : memory'[j] \in Seq(Cells)
      BY <1>3, <2>1, <2>2
    <2> QED
      BY <2>2, <2>3
  <1>6. a \in Ids /\ items \in [Ids -> Header \cup {Absent}]
    BY DEF Live, IInv
  <1>7. [blk |-> k, off |-> 0, len |-> Len(s)] \in Header
    BY <1>2, BoundsType DEF Header
  <1>8. items'[a] = [blk |-> k, off |-> 0, len |-> Len(s)] /\ \A b \in Ids \ {a} : items'[b] = items[b]
    BY <1>1, <1>6
  <1>9. items' \in [Ids -> Header \cup {Absent}]
    BY <1>1, <1>6, <1>7
  <1>10. HeaderOK(items'[a], memory')
    BY <1>3, <1>4, <1>7, <1>8 DEF HeaderOK
  <1>11. \A b \in Ids \ {a} : items'[b] # Absent => HeaderOK(items'[b], memory')
    <2> SUFFICES ASSUME NEW b \in Ids \ {a}, items[b] # Absent PROVE HeaderOK(items[b], memory')
      BY <1>8
    <2>1. b \in Live \ {a}
      BY DEF Live
    <2> QED
      BY <1>4, <2>1 DEF IInv, HeaderOK
  <1>12. IInv'
    BY <1>5, <1>9, <1>10, <1>11 DEF IInv
  <1>13. Content(a)' = SubSeq(t, 0 + 1, 0 + Len(s))
    BY <1>4, <1>8 DEF Content
  <1>14. /\ Content(a)' \in Seq(Cells) /\ Len(Content(a)') = Len(s)
         /\ \A i \in 1 .. Len(s) : Content(a)'[i] = t[i]
    BY <1>3, <1>13, WindowOK
  <1>15. Content(a)' = s
    BY <1>3, <1>14, SeqEqual
  <1>16. items'[a] # Absent
    BY <1>7, <1>8, AbsentNoHeader
  <1> QED
    BY <1>12, <1>15, <1>16

\* What an array shows when its slice is pointed elsewhere in the same cells.
LEMMA PointOK ==
    ASSUME IInv, NEW h \in Header, NEW x \in Ids, HeaderOK(h, memory), Point(x, h), UNCHANGED memory
    PROVE  /\ IInv'
           /\ items'[x] = h /\ items'[x] # Absent
           /\ Content(x)' = SubSeq(memory[h.blk], h.off + 1, h.off + h.len)
           /\ \A b \in Live \ {x} : items'[b] # Absent /\ Content(b)' = Content(b)
  <1>1. items \in [Ids -> Header \cup {Absent}]
    BY DEF IInv
  <1>2. items' = [items EXCEPT ![x] = h] /\ memory' = memory
    BY DEF Point
  <1>3. items'[x] = h /\ \A b \in Ids \ {x} : items'[b] = items[b]
    BY <1>1, <1>2
  <1>4. IInv'
    BY <1>1, <1>2, <1>3 DEF IInv, HeaderOK
  <1>5. h # Absent
    BY AbsentNoHeader
  <1> QED
    BY <1>2, <1>3, <1>4, <1>5 DEF Live, Content

LEMMA PushRoomOK ==
    ASSUME IInv, NEW a \in Live, NEW v \in Values, HasRoom(a), Push(a, v)
    PROVE  IInv' /\ items'[a] # Absent /\ Content(a)' = Append(Content(a), v)
  <1>1. PICK h \in Header : h = items[a]
    BY ContentOK
  <1>2. PICK m \in Seq(Cells) : m = memory[h.blk]
    BY <1>1, ContentOK
  <1>3. PICK n \in Nat : n = h.len
    BY <1>1, ContentOK, BoundsType
  <1>4. PICK o \in Nat : o = h.off
    BY <1>1, ContentOK
  <1>5. PICK g \in Header : g = [h EXCEPT !.len = n + 1] /\ g.blk = h.blk /\ g.off = o /\ g.len = n + 1
    <2>1. n + 1 \in 0 .. MaxLen
      BY <1>1, <1>3, BoundsType DEF Push
    <2> QED
      BY <2>1, <1>4, LenSet
  <1>6. PICK mm \in Seq(Cells) : mm = [m EXCEPT ![o + n + 1] = v] /\ Len(mm) = Len(m)
    <2>1. n < Len(m) - o /\ Len(m) \in Nat
      BY <1>1, <1>2, <1>3, <1>4 DEF HasRoom, Cap
    <2>2. o + n + 1 \in 1 .. Len(m)
      BY <2>1
    <2>3. v \in Cells
      BY DEF Cells
    <2>4. [m EXCEPT ![o + n + 1] = v] \in Seq(Cells) /\ Len([m EXCEPT ![o + n + 1] = v]) = Len(m)
      BY <2>2, <2>3, ExceptSeq
    <2> QED
      BY <2>4, Zenon
  <1>7. o + n + 1 <= Len(m) /\ h.blk \in Blocks /\ a \in Ids /\ v \in Cells
    <2>1. n < Len(m) - o /\ Len(m) \in Nat
      BY <1>1, <1>2, <1>3, <1>4 DEF HasRoom, Cap
    <2>2. o + n + 1 <= Len(m)
      BY <2>1
    <2>3. h.blk \in Blocks /\ a \in Ids
      BY <1>1, ContentOK
    <2>4. v \in Cells
      BY DEF Cells
    <2> QED
      BY <2>2, <2>3, <2>4
  <1>8. memory' = [memory EXCEPT ![h.blk] = mm] /\ items' = [items EXCEPT ![a] = g]
    BY <1>1, <1>2, <1>3, <1>4, <1>5, <1>6 DEF Push, Point
  <1>9. memory \in [Blocks -> Seq(Cells)] /\ items \in [Ids -> Header \cup {Absent}]
    BY DEF IInv
  <1>10. /\ memory' \in [Blocks -> Seq(Cells)] /\ items' \in [Ids -> Header \cup {Absent}]
         /\ memory'[h.blk] = mm /\ \A k \in Blocks : Len(memory'[k]) = Len(memory[k])
         /\ items'[a] = g /\ \A b \in Ids \ {a} : items'[b] = items[b]
    BY <1>2, <1>6, <1>7, <1>8, <1>9
  <1>11. \A k \in Blocks : memory[k] # <<>> => memory'[k] # <<>>
    BY <1>9, <1>10
  <1>12. HeaderOK(g, memory')
    <2>1. mm # <<>> /\ o + (n + 1) <= Len(mm)
      BY <1>6, <1>7
    <2> QED
      BY <1>5, <1>10, <2>1 DEF HeaderOK
  <1>13. \A b \in Ids \ {a} : items'[b] # Absent => HeaderOK(items'[b], memory')
    BY <1>10, <1>11 DEF IInv, HeaderOK, Header
  <1>14. IInv' /\ items'[a] # Absent
    BY <1>10, <1>12, <1>13, AbsentNoHeader DEF IInv
  <1>15. Content(a)' = SubSeq(mm, o + 1, o + (n + 1)) /\ Content(a) = SubSeq(m, o + 1, o + n)
    BY <1>1, <1>2, <1>3, <1>4, <1>5, <1>10 DEF Content
  <1>16. Content(a)' = Append(Content(a), v)
    BY <1>6, <1>7, <1>15, WindowLonger
  <1> QED
    BY <1>14, <1>16

LEMMA PushOK ==
    ASSUME IInv, NEW a \in Live, NEW v \in Values, Push(a, v)
    PROVE  IInv' /\ items'[a] # Absent /\ Content(a)' = Append(Content(a), v)
  <1>1. CASE HasRoom(a)
    BY <1>1, PushRoomOK
  <1>2. CASE ~HasRoom(a)
    <2>1. PICK s \in Seq(Cells), n \in Nat :
             s = Append(Content(a), v) /\ n = items[a].len /\ Len(s) = n + 1
      <3>1. Content(a) \in Seq(Cells) /\ Len(Content(a)) = items[a].len /\ items[a].len \in Nat
        BY ContentOK, BoundsType
      <3>2. v \in Cells
        BY DEF Cells
      <3>3. Append(Content(a), v) \in Seq(Cells) /\ Len(Append(Content(a), v)) = items[a].len + 1
        BY <3>1, <3>2, AppendProperties
      <3> QED
        BY <3>1, <3>3
    <2>2. PICK c \in Nat : c = Grown(Cap(a), n + 1) /\ c >= n + 1
      <3>1. Cap(a) \in Nat /\ n + 1 \in Nat
        BY ContentOK
      <3> QED
        BY <3>1, GrownOK
    <2>3. Move(a, s, c) /\ n < MaxLen
      BY <1>2, <2>1, <2>2 DEF Push
    <2>4. Len(s) \in 1 .. MaxLen /\ Len(s) <= c
      BY <2>1, <2>2, <2>3, BoundsType
    <2> QED
      BY <2>1, <2>3, <2>4, MoveOK
  <1> QED
    BY <1>1, <1>2

LEMMA UnshiftOK ==
    ASSUME IInv, NEW a \in Live, NEW v \in Values, Unshift(a, v)
    PROVE  IInv' /\ items'[a] # Absent /\ Content(a)' = <<v>> \o Content(a)
  <1>1. PICK s \in Seq(Cells), n \in Nat :
           s = <<v>> \o Content(a) /\ n = items[a].len /\ Len(s) = n + 1
    <2>1. <<v>> \in Seq(Cells) /\ Len(<<v>>) = 1
      BY DEF Cells
    <2>2. Content(a) \in Seq(Cells) /\ Len(Content(a)) = items[a].len /\ items[a].len \in Nat
      BY ContentOK, BoundsType
    <2>3. <<v>> \o Content(a) \in Seq(Cells) /\ Len(<<v>> \o Content(a)) = 1 + items[a].len
      BY <2>1, <2>2, ConcatProperties
    <2>4. 1 + items[a].len = items[a].len + 1
      BY <2>2
    <2> QED
      BY <2>2, <2>3, <2>4, Zenon
  <1>2. PICK c \in Nat : c = (IF n = 0 THEN 1 ELSE Grown(1, n + 1)) /\ c >= n + 1
    <2>1. Grown(1, n + 1) \in Nat /\ Grown(1, n + 1) >= n + 1
      <3>1. n + 1 \in Nat /\ 1 \in Nat
        OBVIOUS
      <3> QED
        BY <3>1, GrownOK
    <2> QED
      BY <2>1
  <1>3. Move(a, s, c) /\ n < MaxLen
    BY <1>1, <1>2 DEF Unshift
  <1>4. Len(s) \in 1 .. MaxLen /\ Len(s) <= c
    BY <1>1, <1>2, <1>3, BoundsType
  <1> QED
    BY <1>1, <1>3, <1>4, MoveOK

LEMMA PopOK ==
    ASSUME IInv, NEW a \in Live, Pop(a)
    PROVE  /\ IInv' /\ items'[a] # Absent
           /\ Content(a) # <<>> /\ Content(a)' = SubSeq(Content(a), 1, Len(Content(a)) - 1)
  <1>1. PICK h \in Header : h = items[a]
    BY ContentOK
  <1>2. PICK m \in Seq(Cells) : m = memory[h.blk] /\ m # <<>>
    BY <1>1, ContentOK
  <1>3. PICK n \in Nat : n = h.len /\ n > 0 /\ n <= MaxLen
    BY <1>1, ContentOK, BoundsType DEF Pop
  <1>4. PICK o \in Nat : o = h.off /\ o + n <= Len(m)
    BY <1>1, <1>2, <1>3, ContentOK
  <1>5. PICK g \in Header : g = [h EXCEPT !.len = n - 1] /\ g.blk = h.blk /\ g.off = o /\ g.len = n - 1
    <2>1. n - 1 \in 0 .. MaxLen
      BY <1>3, BoundsType
    <2> QED
      BY <2>1, <1>4, LenSet
  <1>6. HeaderOK(g, memory) /\ Point(a, g) /\ UNCHANGED memory /\ a \in Ids
    BY <1>1, <1>2, <1>3, <1>4, <1>5, ContentOK DEF HeaderOK, Pop
  <1>7. IInv' /\ items'[a] # Absent /\ Content(a)' = SubSeq(m, o + 1, o + (n - 1))
    BY <1>2, <1>5, <1>6, PointOK
  <1>8. Content(a) = SubSeq(m, o + 1, o + n) /\ Len(Content(a)) = n
    BY <1>1, <1>2, <1>3, <1>4, ContentOK DEF Content
  <1>9. SubSeq(m, (o + 0) + 1, (o + 0) + (n - 1)) = SubSeq(SubSeq(m, o + 1, o + n), 0 + 1, 0 + (n - 1))
    <2>1. n - 1 \in Nat /\ 0 + (n - 1) <= n /\ 0 \in Nat
      BY <1>3
    <2> QED
      BY <1>4, <2>1, WindowOfWindow, SMTT(30)
  <1>10. o + 0 = o /\ 0 + (n - 1) = n - 1 /\ 0 + 1 = 1
    OBVIOUS
  <1>11. Content(a) # <<>>
    <2>1. n # 0
      BY <1>3
    <2> QED
      BY <1>8, <2>1, EmptySeq
  <1> QED
    BY <1>7, <1>8, <1>9, <1>10, <1>11

\* The slice without its first n elements, for a or for another array.
LEMMA RestOK ==
    ASSUME IInv, NEW a \in Live, NEW x \in Ids, NEW n \in 0 .. items[a].len,
           Point(x, Rest(a, n)), UNCHANGED memory
    PROVE  /\ IInv' /\ items'[x] # Absent
           /\ Content(x)' = SubSeq(Content(a), n + 1, Len(Content(a)))
           /\ \A b \in Live \ {x} : items'[b] # Absent /\ Content(b)' = Content(b)
  <1>1. PICK h \in Header : h = items[a]
    BY ContentOK
  <1>2. PICK m \in Seq(Cells) : m = memory[h.blk] /\ m # <<>>
    BY <1>1, ContentOK
  <1>3. PICK l \in Nat : l = h.len /\ l <= MaxLen /\ n \in Nat /\ n <= l
    BY <1>1, ContentOK, BoundsType
  <1>4. PICK o \in Nat : o = h.off /\ o + l <= Len(m)
    BY <1>1, <1>2, <1>3, ContentOK
  <1>5. PICK k \in 0 .. MaxLen, q \in Nat : k = l - n /\ q = o + n
    BY <1>3, BoundsType
  <1>6. PICK g \in Header : g = [blk |-> h.blk, off |-> q, len |-> k]
    BY <1>1, ContentOK DEF Header
  <1>7. k \in Nat /\ q + k = o + l /\ n + k = l /\ n + k <= l
    <2>1. k \in Nat
      BY <1>5, BoundsType
    <2> QED
      BY <2>1, <1>3, <1>5
  <1>8. HeaderOK(g, memory) /\ Point(x, g)
    <2>1. Rest(a, n) = g
      BY <1>1, <1>3, <1>4, <1>5, <1>6 DEF Rest
    <2> QED
      BY <1>2, <1>4, <1>6, <1>7, <2>1 DEF HeaderOK
  <1>9. /\ IInv' /\ items'[x] # Absent
        /\ Content(x)' = SubSeq(m, q + 1, q + k)
        /\ \A b \in Live \ {x} : items'[b] # Absent /\ Content(b)' = Content(b)
    BY <1>2, <1>6, <1>8, PointOK
  <1>10. Content(a) = SubSeq(m, o + 1, o + l) /\ Len(Content(a)) = l
    BY <1>1, <1>2, <1>3, <1>4, ContentOK DEF Content
  <1>11. SubSeq(m, q + 1, q + k) = SubSeq(SubSeq(m, o + 1, o + l), n + 1, n + k)
    <2>1. SubSeq(m, (o + n) + 1, (o + n) + k) = SubSeq(SubSeq(m, o + 1, o + l), n + 1, n + k)
      <3>1. n \in Nat /\ k \in Nat /\ n + k <= l /\ o + l <= Len(m)
        BY <1>3, <1>4, <1>7
      <3> QED
        BY <3>1, WindowOfWindow, SMTT(60)
    <2> QED
      BY <1>5, <2>1
  <1> QED
    BY <1>7, <1>9, <1>10, <1>11, Zenon

LEMMA SpliceOK ==
    ASSUME IInv, NEW a \in Live, NEW b \in Ids \ Live, NEW n \in 0 .. items[a].len, Splice(a, b, n)
    PROVE  /\ IInv' /\ items'[a] # Absent /\ items'[b] # Absent
           /\ Content(a)' = SubSeq(Content(a), 1, n)
           /\ Content(b)' = SubSeq(Content(a), n + 1, Len(Content(a)))
  <1>1. PICK h \in Header : h = items[a]
    BY ContentOK
  <1>2. PICK m \in Seq(Cells) : m = memory[h.blk] /\ m # <<>>
    BY <1>1, ContentOK
  <1>3. PICK l \in Nat : l = h.len /\ l <= MaxLen /\ n \in Nat /\ n <= l
    BY <1>1, ContentOK, BoundsType
  <1>4. PICK o \in Nat : o = h.off /\ o + l <= Len(m)
    BY <1>1, <1>2, <1>3, ContentOK
  <1>5. PICK k \in 0 .. MaxLen, q \in Nat : k = l - n /\ q = o + n
    BY <1>3, BoundsType
  <1>6. k \in Nat /\ q + k = o + l /\ n + k = l /\ n + k <= l /\ o + n <= Len(m) /\ n \in 0 .. MaxLen
    <2>1. Len(m) \in Nat
      OBVIOUS
    <2>2. k \in Nat /\ n \in 0 .. MaxLen
      BY <1>3, BoundsType
    <2>3. q + k = o + l /\ n + k = l /\ n + k <= l
      BY <1>3, <1>5, <2>2
    <2>4. o + n <= Len(m)
      BY <1>3, <1>4, <2>1
    <2> QED
      BY <2>2, <2>3, <2>4
  <1>7. PICK g \in Header : g = [blk |-> h.blk, off |-> q, len |-> k]
    BY <1>1, ContentOK DEF Header
  <1>8. PICK f \in Header : f = [h EXCEPT !.len = n] /\ f.blk = h.blk /\ f.off = o /\ f.len = n
    BY <1>4, <1>6, LenSet
  <1>9. Rest(a, n) = g
    BY <1>1, <1>3, <1>4, <1>5, <1>7 DEF Rest
  <1>10. a \in Ids /\ a # b /\ items \in [Ids -> Header \cup {Absent}] /\ memory' = memory
    BY DEF Live, IInv, Splice
  <1>11. items' = [[items EXCEPT ![a] = f] EXCEPT ![b] = g]
    BY <1>1, <1>8, <1>9, <1>10 DEF Splice
  <1>12. /\ items' \in [Ids -> Header \cup {Absent}] /\ items'[a] = f /\ items'[b] = g
         /\ \A x \in Ids \ {a, b} : items'[x] = items[x]
    BY <1>10, <1>11
  <1>13. HeaderOK(f, memory) /\ HeaderOK(g, memory)
    BY <1>2, <1>4, <1>6, <1>7, <1>8 DEF HeaderOK
  <1>14. IInv'
    BY <1>10, <1>12, <1>13 DEF IInv, HeaderOK
  <1>15. items'[a] # Absent /\ items'[b] # Absent
    BY <1>12, AbsentNoHeader
  <1>16. /\ Content(a)' = SubSeq(m, o + 1, o + n) /\ Content(b)' = SubSeq(m, q + 1, q + k)
         /\ Content(a) = SubSeq(m, o + 1, o + l) /\ Len(Content(a)) = l
    <2>1. Content(a)' = SubSeq(memory'[items'[a].blk], items'[a].off + 1, items'[a].off + items'[a].len)
      BY DEF Content
    <2>2. Content(b)' = SubSeq(memory'[items'[b].blk], items'[b].off + 1, items'[b].off + items'[b].len)
      BY DEF Content
    <2>3. f.blk = h.blk /\ g.blk = h.blk /\ g.off = q /\ g.len = k
      BY <1>7, <1>8
    <2>4. Content(a)' = SubSeq(m, o + 1, o + n) /\ Content(b)' = SubSeq(m, q + 1, q + k)
      BY <1>2, <1>8, <1>10, <1>12, <2>1, <2>2, <2>3
    <2>5. Content(a) = SubSeq(m, o + 1, o + l)
      BY <1>1, <1>2, <1>3, <1>4 DEF Content
    <2>6. Len(Content(a)) = l
      BY <1>1, <1>3, ContentOK
    <2> QED
      BY <2>4, <2>5, <2>6
  <1>17. SubSeq(m, o + 1, o + n) = SubSeq(SubSeq(m, o + 1, o + l), 1, n)
    <2>1. SubSeq(m, (o + 0) + 1, (o + 0) + n) = SubSeq(SubSeq(m, o + 1, o + l), 0 + 1, 0 + n)
      <3>1. 0 \in Nat /\ n \in Nat /\ 0 + n <= l /\ o + l <= Len(m)
        BY <1>3, <1>4
      <3> QED
        BY <3>1, WindowOfWindow, SMTT(60)
    <2>2. o + 0 = o /\ 0 + n = n /\ 0 + 1 = 1
      BY <1>3
    <2> QED
      BY <2>1, <2>2
  <1>18. SubSeq(m, q + 1, q + k) = SubSeq(SubSeq(m, o + 1, o + l), n + 1, n + k)
    <2>1. SubSeq(m, (o + n) + 1, (o + n) + k) = SubSeq(SubSeq(m, o + 1, o + l), n + 1, n + k)
      <3>1. n \in Nat /\ k \in Nat /\ n + k <= l /\ o + l <= Len(m)
        BY <1>3, <1>4, <1>6
      <3> QED
        BY <3>1, WindowOfWindow, SMTT(60)
    <2> QED
      BY <1>5, <2>1
  <1> QED
    BY <1>6, <1>14, <1>15, <1>16, <1>17, <1>18, Zenon

-----------------------------------------------------------------------------
(* Sorting. *)

LEMMA WrittenOK ==
    ASSUME NEW m \in Seq(Cells), NEW o \in Nat, NEW s \in Seq(Cells), o + Len(s) <= Len(m)
    PROVE  /\ Written(m, o, s) \in Seq(Cells) /\ Len(Written(m, o, s)) = Len(m)
           /\ SubSeq(Written(m, o, s), o + 1, o + Len(s)) = s
  <1>1. PICK w : w = Written(m, o, s)
    OBVIOUS
  <1>2. PICK n \in Nat : n = Len(s) /\ o + n <= Len(m)
    OBVIOUS
  <1>3. w = [i \in 1 .. Len(m) |-> IF i \in o + 1 .. o + n THEN s[i - o] ELSE m[i]]
    BY <1>1, <1>2 DEF Written
  <1>4. \A i \in 1 .. Len(m) : w[i] \in Cells
    <2> SUFFICES ASSUME NEW i \in 1 .. Len(m) PROVE w[i] \in Cells
      OBVIOUS
    <2>1. CASE i \in o + 1 .. o + n
      <3>1. i - o \in 1 .. Len(s) /\ w[i] = s[i - o]
        BY <1>2, <1>3, <2>1
      <3> QED
        BY <3>1
    <2>2. CASE ~(i \in o + 1 .. o + n)
      BY <1>3, <2>2
    <2> QED
      BY <2>1, <2>2
  <1>5. w \in Seq(Cells) /\ Len(w) = Len(m)
    <2>1. PICK k \in Nat : k = Len(m)
      OBVIOUS
    <2>2. w \in [1 .. k -> Cells]
      BY <1>3, <1>4, <2>1
    <2> QED
      BY <2>1, <2>2
  <1>6. \A i \in 1 .. n : w[o + i] = s[i]
    <2> SUFFICES ASSUME NEW i \in 1 .. n PROVE w[o + i] = s[i]
      OBVIOUS
    <2>1. o + i \in o + 1 .. o + n /\ o + i \in 1 .. Len(m) /\ (o + i) - o = i
      BY <1>2
    <2> QED
      BY <1>3, <2>1
  <1>7. PICK t : t = SubSeq(w, o + 1, o + n)
    OBVIOUS
  <1>8. t \in Seq(Cells) /\ Len(t) = n /\ \A i \in 1 .. n : t[i] = w[o + i]
    <2>1. n \in Nat /\ o + n <= Len(w)
      BY <1>2, <1>5
    <2> QED
      BY <1>5, <1>7, <2>1, WindowOK
  <1>9. t = s
    BY <1>2, <1>6, <1>8, SeqEqual
  <1> QED
    BY <1>1, <1>2, <1>5, <1>7, <1>9

\* Cardinality as JsArrays takes it from FiniteSets.
LEMMA SameCardinality == \A S : Author!Cardinality(S) = Cardinality(S)
  BY DEF Author!Cardinality, Cardinality

\* A sequence with its elements in another order.
LEMMA ReorderedSame ==
    ASSUME NEW c \in Seq(Cells), NEW s \in Reorderings(c)
    PROVE  s \in Seq(Cells) /\ Len(s) = Len(c) /\ Author!SameElements(s, c)
  <1>1. PICK n \in Nat : n = Len(c) /\ DOMAIN c = 1 .. n
    OBVIOUS
  <1>2. PICK p \in Bijection(DOMAIN c, DOMAIN c) : s = [i \in DOMAIN c |-> c[p[i]]]
    BY DEF Reorderings
  <1>3. /\ p \in [1 .. n -> 1 .. n]
        /\ \A i, j \in 1 .. n : p[i] = p[j] => i = j
        /\ \A j \in 1 .. n : \E i \in 1 .. n : p[i] = j
    <2>1. p \in Bijection(1 .. n, 1 .. n)
      BY <1>1, <1>2
    <2> QED
      BY <2>1 DEF Bijection, Injection, Surjection, IsInjective
  <1>4. s = [i \in 1 .. n |-> c[p[i]]]
    BY <1>1, <1>2
  <1>5. s \in Seq(Cells) /\ Len(s) = n /\ DOMAIN s = 1 .. n
    <2>1. s \in [1 .. n -> Cells]
      BY <1>1, <1>3, <1>4
    <2> QED
      BY <2>1
  <1>6. \A v : Author!Occurs(v, s) = Author!Occurs(v, c)
    <2> SUFFICES ASSUME NEW v PROVE Author!Occurs(v, s) = Author!Occurs(v, c)
      OBVIOUS
    <2>1. PICK A, B : A = {i \in 1 .. n : s[i] = v} /\ B = {i \in 1 .. n : c[i] = v}
      OBVIOUS
    <2>2. IsFiniteSet(A)
      <3>1. IsFiniteSet(1 .. n) /\ A \subseteq 1 .. n
        BY <2>1, FS_Interval
      <3> QED
        BY <3>1, FS_Subset
    <2>3. PICK F : F = [i \in A |-> p[i]]
      OBVIOUS
    <2>4. \A i \in A : i \in 1 .. n /\ c[p[i]] = v /\ p[i] \in 1 .. n
      BY <1>3, <1>4, <2>1
    <2>5. F \in [A -> B]
      BY <2>1, <2>3, <2>4
    <2>6. \A i, j \in A : F[i] = F[j] => i = j
      BY <1>3, <2>3, <2>4
    <2>7. \A j \in B : \E i \in A : F[i] = j
      <3> SUFFICES ASSUME NEW j \in B PROVE \E i \in A : F[i] = j
        OBVIOUS
      <3>1. PICK i \in 1 .. n : p[i] = j
        BY <1>3, <2>1
      <3>2. s[i] = v
        BY <1>4, <2>1, <3>1
      <3> QED
        BY <2>1, <2>3, <3>1, <3>2
    <2>8. F \in Bijection(A, B)
      BY <2>5, <2>6, <2>7, Fun_IsBij, Zenon
    <2>9. ExistsBijection(A, B)
      BY <2>8, Zenon DEF ExistsBijection
    <2>10. Cardinality(A) = Cardinality(B)
      BY <2>2, <2>9, FS_Bijection
    <2>11. Author!Occurs(v, s) = Cardinality(A) /\ Author!Occurs(v, c) = Cardinality(B)
      <3>1. {i \in DOMAIN s : s[i] = v} = A /\ {i \in DOMAIN c : c[i] = v} = B
        BY <1>1, <1>5, <2>1
      <3> QED
        BY <3>1, SameCardinality, Zenon DEF Author!Occurs
    <2> QED
      BY <2>10, <2>11
  <1>7. Author!SameElements(s, c)
    BY <1>6, Zenon DEF Author!SameElements
  <1> QED
    BY <1>1, <1>5, <1>7

LEMMA SortOK ==
    ASSUME IInv, NEW a \in Live, Sort(a)
    PROVE  /\ IInv' /\ items'[a] # Absent
           /\ Author!SameElements(Content(a)', Content(a)) /\ Author!Ordered(Content(a)')
  <1>1. PICK h \in Header : h = items[a]
    BY ContentOK
  <1>2. PICK m \in Seq(Cells) : m = memory[h.blk] /\ m # <<>>
    BY <1>1, ContentOK
  <1>3. PICK o \in Nat : o = h.off
    BY <1>1, ContentOK
  <1>4. PICK c \in Seq(Cells) : c = Content(a) /\ Len(c) = h.len /\ o + Len(c) <= Len(m)
    BY <1>1, <1>2, <1>3, ContentOK
  <1>5. PICK s \in Reorderings(c) :
           Ascending(s) /\ memory' = [memory EXCEPT ![h.blk] = Written(m, o, s)]
    BY <1>1, <1>2, <1>3, <1>4 DEF Sort
  <1>6. s \in Seq(Cells) /\ Len(s) = Len(c) /\ Author!SameElements(s, c)
    BY ReorderedSame
  <1>7. PICK mm \in Seq(Cells) : /\ mm = Written(m, o, s) /\ Len(mm) = Len(m)
                                /\ SubSeq(mm, o + 1, o + Len(s)) = s
    <2>1. o + Len(s) <= Len(m)
      BY <1>4, <1>6
    <2> QED
      BY <1>6, <2>1, WrittenOK
  <1>8. h.blk \in Blocks /\ items' = items /\ memory' = [memory EXCEPT ![h.blk] = mm]
    BY <1>1, <1>5, <1>7, ContentOK DEF Sort
  <1>9. mm # <<>>
    BY <1>2, <1>7, EmptySeq
  <1>10. /\ memory' \in [Blocks -> Seq(Cells)] /\ memory'[h.blk] = mm
         /\ \A k \in Blocks : k # h.blk => memory'[k] = memory[k]
    BY <1>8 DEF IInv
  <1>11. \A k \in Blocks : Len(memory'[k]) = Len(memory[k]) /\ (memory[k] # <<>> => memory'[k] # <<>>)
    BY <1>2, <1>7, <1>9, <1>10
  <1>12. IInv' /\ items'[a] # Absent
    BY <1>8, <1>10, <1>11 DEF IInv, HeaderOK, Header, Live
  <1>13. Content(a)' = s
    <2>1. Content(a)' = SubSeq(mm, o + 1, o + Len(s))
      BY <1>1, <1>3, <1>4, <1>6, <1>8, <1>10 DEF Content
    <2> QED
      BY <1>7, <2>1
  <1>14. Author!Ordered(s)
    <2> SUFFICES ASSUME NEW i \in 1 .. Len(s) - 1 PROVE s[i] <= s[i + 1]
      BY DEF Author!Ordered
    <2>1. i \in DOMAIN s /\ i + 1 \in DOMAIN s /\ i < i + 1
      BY <1>6
    <2> QED
      BY <1>5, <2>1 DEF Ascending
  <1> QED
    BY <1>4, <1>6, <1>12, <1>13, <1>14

-----------------------------------------------------------------------------
(* Every step. *)

LEMMA ShiftOK ==
    ASSUME IInv, NEW a \in Live, Shift(a)
    PROVE  /\ IInv' /\ items'[a] # Absent
           /\ Content(a) # <<>> /\ Content(a)' = Tail(Content(a))
  <1>1. PICK c \in Seq(Cells) : c = Content(a) /\ Len(c) = items[a].len /\ Len(c) > 0 /\ a \in Ids
    BY ContentOK DEF Shift
  <1>2. 1 \in 0 .. items[a].len
    BY <1>1
  <1>3. IInv' /\ items'[a] # Absent /\ Content(a)' = SubSeq(c, 1 + 1, Len(c))
    BY <1>1, <1>2, RestOK DEF Shift
  <1>4. c # <<>>
    BY <1>1, EmptySeq
  <1>5. Tail(c) = SubSeq(c, 2, Len(c))
    BY <1>4
  <1> QED
    BY <1>1, <1>3, <1>4, <1>5

LEMMA SliceOK ==
    ASSUME IInv, NEW a \in Live, NEW b \in Ids \ Live, NEW n \in 0 .. items[a].len, Slice(a, b, n)
    PROVE  /\ IInv' /\ items'[a] # Absent /\ items'[b] # Absent
           /\ Content(a)' = Content(a)
           /\ Content(b)' = SubSeq(Content(a), n + 1, Len(Content(a)))
  <1>1. a \in Live \ {b}
    OBVIOUS
  <1> QED
    BY <1>1, RestOK DEF Slice

\* The content the documentation speaks of, before and after a step.
LEMMA Contents ==
    ASSUME NEW a \in Ids
    PROVE  /\ a \in Live => [x \in Ids |-> IF x \in Live THEN Content(x) ELSE Absent][a] = Content(a)
           /\ items'[a] # Absent =>
                 [x \in Ids |-> IF x \in Live THEN Content(x) ELSE Absent]'[a] = Content(a)'
  BY DEF Live

LEMMA StepOnSequence ==
    ASSUME IInv PROVE CallOnSequence
  <1> Live \subseteq Ids
    BY DEF Live
  <1>1. ASSUME NEW a \in Live, NEW v \in Values, Push(a, v) PROVE Author!Push(a, v)
    BY <1>1, PushOK, Contents DEF Author!Push
  <1>2. ASSUME NEW a \in Live, NEW v \in Values, Unshift(a, v) PROVE Author!Unshift(a, v)
    BY <1>2, UnshiftOK, Contents DEF Author!Unshift
  <1>3. ASSUME NEW a \in Live, Pop(a) PROVE Author!Pop(a)
    BY <1>3, PopOK, Contents DEF Author!Pop
  <1>4. ASSUME NEW a \in Live, Shift(a) PROVE Author!Shift(a)
    BY <1>4, ShiftOK, Contents DEF Author!Shift
  <1>5. ASSUME NEW a \in Live, Sort(a) PROVE Author!Sort(a)
    BY <1>5, SortOK, Contents DEF Author!Sort
  <1>6. ASSUME NEW a \in Live, NEW b \in Ids \ Live, NEW n \in 0 .. items[a].len, Splice(a, b, n)
        PROVE  Author!Splice(a, b, n)
    BY <1>6, SpliceOK, Contents DEF Author!Splice, Author!From
  <1>7. ASSUME NEW a \in Live, NEW b \in Ids \ Live, NEW n \in 0 .. items[a].len, Slice(a, b, n)
        PROVE  Author!Slice(a, b, n)
    BY <1>7, SliceOK, Contents DEF Author!Slice, Author!From
  <1> QED
    BY <1>1, <1>2, <1>3, <1>4, <1>5, <1>6, <1>7, Zenon DEF CallOnSequence

LEMMA NextIInv == IInv /\ [Next]_vars => IInv'
  <1> SUFFICES ASSUME IInv, [Next]_vars PROVE IInv'
    OBVIOUS
  <1>1. CASE UNCHANGED vars
    BY <1>1 DEF IInv, vars
  <1>2. CASE Next
    <2>1. PICK a \in Live :
             \/ \E v \in Values : Push(a, v) \/ Unshift(a, v)
             \/ Pop(a) \/ Shift(a) \/ Sort(a)
             \/ \E b \in Ids \ Live, n \in 0 .. items[a].len : Splice(a, b, n) \/ Slice(a, b, n)
      BY <1>2 DEF Next
    <2>2. ASSUME NEW v \in Values, Push(a, v) PROVE IInv'
      BY <2>2, PushOK
    <2>3. ASSUME NEW v \in Values, Unshift(a, v) PROVE IInv'
      BY <2>3, UnshiftOK
    <2>4. CASE Pop(a)
      BY <2>4, PopOK
    <2>5. CASE Shift(a)
      BY <2>5, ShiftOK
    <2>6. CASE Sort(a)
      BY <2>6, SortOK
    <2>7. ASSUME NEW b \in Ids \ Live, NEW n \in 0 .. items[a].len, Splice(a, b, n) PROVE IInv'
      BY <2>7, SpliceOK
    <2>8. ASSUME NEW b \in Ids \ Live, NEW n \in 0 .. items[a].len, Slice(a, b, n) PROVE IInv'
      BY <2>8, SliceOK
    <2> QED
      BY <2>1, <2>2, <2>3, <2>4, <2>5, <2>6, <2>7, <2>8
  <1> QED
    BY <1>1, <1>2

-----------------------------------------------------------------------------
\* Every slice stays a window of the backing array it points to, for any
\* number of arrays and any bound of their lengths (types.go, Array).
THEOREM TypeCorrect == Spec => []TypeOK
  <1>1. Init => IInv
    BY InitIInv
  <1>2. IInv /\ [Next]_vars => IInv'
    BY NextIInv
  <1>3. IInv => TypeOK
    BY InvImpliesType
  <1> QED
    BY <1>1, <1>2, <1>3, PTL DEF Spec

\* push, unshift, pop, shift, sort, splice and slice do to their own array and
\* the array they return what they do to a sequence, although other arrays share
\* the cells they write and append moves an array only when it has no room.
THEOREM CallsActOnSequence == Spec => ActsOnSequence
  <1>1. Init => IInv
    BY InitIInv
  <1>2. IInv /\ [Next]_vars => IInv'
    BY NextIInv
  <1>3. IInv => CallOnSequence
    BY StepOnSequence
  <1> QED
    BY <1>1, <1>2, <1>3, PTL DEF Spec, ActsOnSequence
=============================================================================
