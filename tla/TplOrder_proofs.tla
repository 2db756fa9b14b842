--------------------------- MODULE TplOrder_proofs ---------------------------
(* Proofs about the look-ahead and the types of TplParse: for texts of any   *)
(* length, with parentheses and definitions nested in any way, no token is   *)
(* lost, read twice or read out of order, and the variables that the end of  *)
(* a control takes back are there.                                           *)
(*                                                                           *)
(* Order is the inductive invariant.  It says, for the place the parser is   *)
(* at, how many tokens may be pending and which (Counted), that they and     *)
(* those held are the last of the lexer (Numbered, Holds), what the lexer    *)
(* does after each of them (Lexed), and that the lexer's parenDepth is the   *)
(* number of pipelines the parser is in (Parens).  The last part is needed   *)
(* for blocks: a right parenthesis that ends the pipeline of a block is left *)
(* in the Tree that is suspended, and only the depth of the lexer shows that *)
(* there it is an error.                                                     *)
(*                                                                           *)
(* Typed is the inductive invariant for the types, in the second part.  Its  *)
(* core is Fits: the open lists remember how many variables were known where *)
(* they began, and never more than their Tree knows now.                     *)
EXTENDS TplParse_proofs

-----------------------------------------------------------------------------
(* The invariant.                                                          *)

Follows(x, y) == y.n = x.n + 1 \/ (y.n = x.n + 2 /\ x.typ = "LeftDelim")

\* How the item x changes the depth of parentheses.
Weight(x) == IF x.typ = "LeftParen" THEN 1 ELSE IF x.typ = "RightParen" THEN -1 ELSE 0
Net(t) == IF t.peekCount = 0 THEN 0 ELSE Weight(t.token[0])

\* What the lexer does when it has sent x and nothing after it.
Lexed(x) ==
    /\ x.typ \in {"LeftDelim", "Variable", "Space"} => lexState = "lexInsideAction"
    /\ x.typ = "LeftDelim" => parenDepth = 0
    /\ x.typ = "Space" => atWord = "space"
    /\ x.typ = "RightParen" => lexState \in {"lexInsideAction", "lexBadParen"}

\* More than one token is pending only where a variable or "{{" was put back.
Counted(t, l) ==
    /\ t.peekCount \in 0 .. 3
    /\ t.peekCount = 3 => /\ l \in {"commands", "term"}
                          /\ t.token[2].typ = "Variable" /\ t.token[1].typ = "Space"
    /\ t.peekCount = 2 => \/ l = "node" /\ t.token[1].typ = "LeftDelim"
                          \/ l \in {"commands", "term"} /\ t.token[1].typ = "Variable"
                          \/ l \in {"chain", "afterOperand"} /\ t.token[1].typ = "Space"
    /\ l \in {"End", "Catch"} => t.peekCount = 0

Numbered(t) ==
    /\ t.peekCount >= 1 => t.token[0].n = received /\ Lexed(t.token[0])
    /\ t.peekCount >= 2 => Follows(t.token[1], t.token[0])
    /\ t.peekCount = 3 => Follows(t.token[2], t.token[1])

\* The item n was taken from t, next comes the one after it, and that is no
\* space where no space can come.
Awaits(t, n, noSpace) ==
    IF t.peekCount = 0
    THEN /\ lexState = "lexInsideAction" /\ received = n
         /\ noSpace => atWord = "space"
    ELSE t.token[0].n = n + 1 /\ (noSpace => t.token[0].typ # "Space")

Holds(t, h, l) ==
    /\ l \notin {"define?", "afterVariable", "declaration"} => h = <<>>
    /\ l = "define?" =>
         /\ h = <<h[1]>> /\ h[1].n \in Nat /\ h[1].typ = "LeftDelim"
         /\ \/ Awaits(t, h[1].n, FALSE)
            \/ Awaits(t, h[1].n + 1, TRUE)
    /\ l = "afterVariable" =>
         h = <<h[1]>> /\ h[1].n \in Nat /\ h[1].typ = "Variable" /\ Awaits(t, h[1].n, FALSE)
    /\ l = "declaration" =>
         /\ h[1].n \in Nat /\ h[1].typ = "Variable"
         /\ \/ h = <<h[1]>> /\ t.peekCount > 0 /\ Awaits(t, h[1].n, TRUE)
            \/ /\ Len(h) = 2
               /\ h = <<h[1], h[2]>> /\ h[2].typ = "Space" /\ h[2].n = h[1].n + 1
               /\ Awaits(t, h[2].n, TRUE)

\* Between "{{" and the pipeline no parenthesis is taken; in it, every left
\* one is a pipeline of its own until the right one is taken at rightParen.
BeforePipeline ==
    {"define?", "node", "action", "else", "Else", "elseIf", "blockName", "templateName",
     "templatePipe"}
InPipeline ==
    {"pipeline", "afterVariable", "declaration", "commands", "term", "chain", "afterOperand"}
Parens(t, l, m) ==
    /\ l \in BeforePipeline => parenDepth = Net(t)
    /\ l \in InPipeline => m >= 1 /\ parenDepth = m - 1 + Net(t)
    /\ l = "rightParen" => m >= 1 /\ parenDepth = m + Net(t)

Good(t, h, l, m) == Counted(t, l) /\ Numbered(t) /\ Holds(t, h, l) /\ Parens(t, l, m)

\* The next token is the error that the lexer sends for a right parenthesis
\* too many, or is that error.
Refused(t, l) ==
    /\ l = "loop"
    /\ \/ t.peekCount = 0 /\ lexState = "lexBadParen"
       \/ t.peekCount = 1 /\ t.token[0].typ = "Error"
Suspended ==
    \A i \in 1 .. Len(trees) - 1 :
        trees[i].peekCount > 0 => trees[i].token[0].typ = "RightParen" /\ Refused(T, at)

LexOK ==
    /\ parenDepth \in Int /\ sent \in Nat
    /\ lexState \in {"lexText", "lexLeftDelim", "lexEOF"} => parenDepth = 0
    /\ lexState = "lexInsideAction" => parenDepth >= 0
    /\ received \in Nat
    /\ result = "running" => lexState = "ended" \/ received = sent

Order == IsSeq(pipes) /\ Good(T, held, at, Len(pipes)) /\ Suspended
OInv == LexOK /\ (result = "running" => Order)

-----------------------------------------------------------------------------
(* What next, backup and fetched do to the look-ahead.                     *)

LEMMA SetFields ==
    ASSUME NEW t, IsTree(t), NEW B, NEW u \in [0 .. 2 -> B], NEW n \in 0 .. 3
    PROVE  /\ [t EXCEPT !.peekCount = n, !.token = u].token = u
           /\ [t EXCEPT !.peekCount = n, !.token = u].peekCount = n
           /\ [t EXCEPT !.token = u, !.peekCount = n].token = u
           /\ [t EXCEPT !.token = u, !.peekCount = n].peekCount = n
  BY DEF IsTree, TreeSet

LEMMA NextFields ==
    ASSUME NEW t, IsTree(t), t.peekCount > 0
    PROVE  /\ next(t).peekCount = t.peekCount - 1
           /\ \A j \in 0 .. 2 : j # t.peekCount - 1 => next(t).token[j] = t.token[j]
  <1>1. PICK B : t.token \in [0 .. 2 -> B]
    BY TreeFields
  <1>2. PICK n \in 0 .. 2 : n = t.peekCount - 1
    BY TreeFields
  <1>3. PICK u \in [0 .. 2 -> B \cup {ZeroItem}] : u = [t.token EXCEPT ![n] = ZeroItem]
    BY <1>1, <1>2
  <1>4. next(t) = [t EXCEPT !.peekCount = n, !.token = u]
    BY <1>2, <1>3 DEF next
  <1>5. n \in 0 .. 3
    BY <1>2
  <1>6. next(t).peekCount = n /\ next(t).token = u
    <2>1. PICK v : v = [t EXCEPT !.peekCount = n, !.token = u]
      OBVIOUS
    <2>2. v.token = u /\ v.peekCount = n
      BY <1>5, <2>1, SetFields
    <2> QED
      BY <1>4, <2>1, <2>2
  <1>7. \A j \in 0 .. 2 : j # n => u[j] = t.token[j]
    BY <1>1, <1>2, <1>3
  <1> QED
    BY <1>2, <1>6, <1>7

LEMMA Backup2Fields ==
    ASSUME NEW t, IsTree(t), NEW x
    PROVE  /\ backup2(t, x).peekCount = 2
           /\ backup2(t, x).token[0] = t.token[0] /\ backup2(t, x).token[1] = x
  <1>1. PICK B : t.token \in [0 .. 2 -> B]
    BY TreeFields
  <1>2. PICK u \in [0 .. 2 -> B \cup {x}] : u = [t.token EXCEPT ![1] = x]
    BY <1>1
  <1>3. PICK n \in 0 .. 3 : n = 2
    OBVIOUS
  <1>4. PICK v : v = [t EXCEPT !.token = u, !.peekCount = n]
    OBVIOUS
  <1>5. v = backup2(t, x)
    BY <1>2, <1>3, <1>4 DEF backup2
  <1>6. v.token = u /\ v.peekCount = n
    BY <1>4, SetFields
  <1> QED
    BY <1>1, <1>2, <1>3, <1>5, <1>6

LEMMA Backup3Fields ==
    ASSUME NEW t, IsTree(t), NEW x, NEW y
    PROVE  /\ backup3(t, x, y).peekCount = 3
           /\ backup3(t, x, y).token[0] = t.token[0]
           /\ backup3(t, x, y).token[1] = y /\ backup3(t, x, y).token[2] = x
  <1>1. PICK B : t.token \in [0 .. 2 -> B]
    BY TreeFields
  <1>2. PICK u \in [0 .. 2 -> B \cup {x, y}] : u = [[t.token EXCEPT ![1] = y] EXCEPT ![2] = x]
    BY <1>1
  <1>3. PICK n \in 0 .. 3 : n = 3
    OBVIOUS
  <1>4. PICK v : v = [t EXCEPT !.token = u, !.peekCount = n]
    OBVIOUS
  <1>5. v = backup3(t, x, y)
    BY <1>2, <1>3, <1>4 DEF backup3
  <1>6. v.token = u /\ v.peekCount = n
    BY <1>4, SetFields
  <1> QED
    BY <1>1, <1>2, <1>3, <1>5, <1>6

LEMMA FetchedFields ==
    ASSUME NEW t, IsTree(t), NEW x
    PROVE  fetched(t, x).peekCount = 1 /\ fetched(t, x).token[0] = x
  <1>1. PICK B : t.token \in [0 .. 2 -> B]
    BY TreeFields
  <1>2. PICK u \in [0 .. 2 -> B \cup {x}] : u = [t.token EXCEPT ![0] = x]
    BY <1>1
  <1>3. PICK n \in 0 .. 3 : n = 1
    OBVIOUS
  <1>4. PICK v : v = [t EXCEPT !.token = u, !.peekCount = n]
    OBVIOUS
  <1>5. v = fetched(t, x)
    BY <1>2, <1>3, <1>4 DEF fetched
  <1>6. v.token = u /\ v.peekCount = n
    BY <1>4, SetFields
  <1> QED
    BY <1>1, <1>2, <1>3, <1>5, <1>6

\* The same tokens are pending.
Alike(u, t) ==
    /\ IsTree(u) /\ u.peekCount = t.peekCount
    /\ \A j \in 0 .. 2 : u.token[j] = t.token[j]

LEMMA NamedAlike ==
    ASSUME NEW t, IsTree(t), NEW x
    PROVE  Alike([t EXCEPT !.name = x], t) /\ Alike([t EXCEPT !.vars = x], t)
  <1>1. PICK A, B, C : t \in TreeSet(A, B, C)
    BY DEF IsTree
  <1>2. /\ [t EXCEPT !.name = x].token = t.token /\ [t EXCEPT !.name = x].peekCount = t.peekCount
        /\ [t EXCEPT !.vars = x].token = t.token /\ [t EXCEPT !.vars = x].peekCount = t.peekCount
    BY <1>1 DEF TreeSet
  <1>3. IsTree([t EXCEPT !.name = x]) /\ IsTree([t EXCEPT !.vars = x])
    BY NamedDerived DEF Derived
  <1> QED
    BY <1>2, <1>3 DEF Alike

LEMMA NewTreeFields == ASSUME NEW x PROVE NewTree(x).peekCount = 0
  BY DEF NewTree

LEMMA GoodAlike ==
    ASSUME NEW t, NEW u, Alike(u, t), NEW h, NEW l, NEW m, Good(t, h, l, m)
    PROVE  Good(u, h, l, m)
  BY DEF Good, Alike, Counted, Numbered, Holds, Awaits, Parens, Net

-----------------------------------------------------------------------------
(* The lexer.                                                              *)

\* What is true of every item that is taken from it.
ItemOK(i) ==
    /\ parenDepth' \in Int /\ sent' \in Nat
    /\ lexState' \in {"lexText", "lexLeftDelim", "lexEOF"} => parenDepth' = 0
    /\ lexState' = "lexInsideAction" => parenDepth' >= 0
    /\ parenDepth' = parenDepth + Weight(i)
    /\ lexState' # "ended" /\ lexState # "ended"
    /\ i.typ \in {"LeftDelim", "Variable", "Space"} => lexState' = "lexInsideAction"
    /\ i.typ = "LeftDelim" => parenDepth' = 0
    /\ i.typ = "Space" => atWord' = "space"
    /\ i.typ = "RightParen" => lexState' \in {"lexInsideAction", "lexBadParen"}
    /\ lexState = "lexInsideAction" => sent' = sent + 1 /\ (atWord = "space" => i.typ # "Space")
    /\ lexState = "lexBadParen" => i.typ = "Error"

LEMMA ItemIsOK ==
    ASSUME LexOK, NEW i, nextItem(i)
    PROVE  ItemOK(i)
  <1> USE DEF ItemOK, LexOK, Weight
  <1>1. CASE lexText(i)
    BY <1>1 DEF lexText, emit
  <1>2. CASE lexEOF(i)
    BY <1>2 DEF lexEOF, emit
  <1>3. CASE lexLeftDelim(i)
    BY <1>3 DEF lexLeftDelim, emit
  <1>4. CASE lexRightDelim(i)
    BY <1>4 DEF lexRightDelim, emit
  <1>5. CASE lexError(i)
    BY <1>5 DEF lexError, emit
  <1>6. CASE lexSpace(i)
    BY <1>6 DEF lexSpace, Inside, emit
  <1>7. CASE lexSign(i)
    BY <1>7, SignsType DEF lexSign, Inside, emit
  <1>8. CASE lexField(i)
    BY <1>8 DEF lexField, Inside, emit
  <1>9. CASE lexVariable(i)
    BY <1>9 DEF lexVariable, Inside, emit
  <1>10. CASE lexIdentifier(i)
    BY <1>10, WordsType DEF lexIdentifier, Inside, emit, Keywords
  <1>11. CASE lexQuote(i)
    BY <1>11 DEF lexQuote, Inside, emit
  <1>12. CASE lexNumber(i)
    BY <1>12 DEF lexNumber, Inside, emit
  <1>13. CASE lexLeftParen(i)
    BY <1>13 DEF lexLeftParen, Inside, emit
  <1>14. CASE lexRightParen(i)
    BY <1>14 DEF lexRightParen, emit
  <1> QED
    BY <1>1, <1>2, <1>3, <1>4, <1>5, <1>6, <1>7, <1>8, <1>9, <1>10, <1>11, <1>12, <1>13, <1>14
       DEF nextItem

LEMMA LexOInv ==
    ASSUME OInv, IInv, Lex
    PROVE  OInv'
  <1>1. UNCHANGED <<trees, open, pipes, at, held, received, treeSet, result>> /\ LexStep
    BY DEF Lex, parseVars
  <1>2. LexOK'
    BY <1>1 DEF OInv, LexOK, LexStep, scan, lexComment, closeItems
  <1>3. /\ UNCHANGED <<parenDepth, atWord>>
        /\ lexState \in {"lexInsideAction", "lexBadParen"} => lexState' = lexState
    BY <1>1 DEF LexStep, scan, lexComment, closeItems
  <1>4. ASSUME Order PROVE Order'
    <2>1. T' = T
      BY <1>1 DEF T
    <2>2. Counted(T, at)'
      BY <1>1, <1>4, <2>1 DEF Order, Good, Counted
    <2>3. Numbered(T)'
      BY <1>1, <1>3, <1>4, <2>1 DEF Order, Good, Numbered, Lexed, Follows
    <2>4. Holds(T, held, at)'
      BY <1>1, <1>3, <1>4, <2>1 DEF Order, Good, Holds, Awaits
    <2>5. Parens(T, at, Len(pipes))'
      BY <1>1, <1>3, <1>4, <2>1 DEF Order, Good, Parens, Net, Weight
    <2>6. Suspended'
      BY <1>1, <1>3, <1>4, <2>1 DEF Order, Suspended, Refused
    <2> QED
      BY <1>1, <1>4, <2>2, <2>3, <2>4, <2>5, <2>6 DEF Order, Good
  <1> QED
    BY <1>1, <1>2, <1>4 DEF OInv

-----------------------------------------------------------------------------
(* How the parser goes on.                                                 *)

LEMMA LexOKStays ==
    ASSUME LexOK, UNCHANGED lexVars, UNCHANGED received, result' = "running" => result = "running"
    PROVE  LexOK'
  BY DEF LexOK, lexVars

LEMMA OrderStops ==
    ASSUME OInv, NEW how \in {"failed", "runtime error", "panicking"}, Stop(how) PROVE OInv'
  <1>1. LexOK'
    BY LexOKStays DEF Stop, OInv
  <1> QED
    BY <1>1 DEF Stop, OInv

LEMMA OrderFails == ASSUME OInv, Fail PROVE OInv'
  BY OrderStops DEF Fail

LEMMA OrderAddStops == ASSUME OInv, NEW name, NEW class, AddStops(name, class) PROVE OInv'
  BY OrderStops, OrderFails DEF AddStops

LEMMA CurrentBecomes ==
    ASSUME Running, NEW u, trees' = [trees EXCEPT ![Len(trees)] = u]
    PROVE  /\ IsSeq(trees') /\ Len(trees') = Len(trees) /\ T' = u
           /\ \A i \in 1 .. Len(trees) - 1 : trees'[i] = trees[i]
  <1>1. PICK m \in Nat : m = Len(trees) /\ m >= 1 /\ IsSeq(trees)
    BY CurrentTree
  <1>2. PICK p : p = trees'
    OBVIOUS
  <1>3. /\ IsSeq(p) /\ Len(p) = m /\ p[m] = u
        /\ \A i \in 1 .. m - 1 : p[i] = trees[i]
    <2>1. /\ IsSeq(p) /\ Len(p) = Len(trees)
          /\ \A i \in 1 .. Len(trees) - 1 : p[i] = trees[i]
          /\ Len(trees) > 0 => p[Len(trees)] = u
      BY <1>1, <1>2, Replacing, Zenon
    <2> QED
      BY <1>1, <2>1
  <1>4. T' = u
    BY <1>1, <1>2, <1>3, SeqBasics DEF T
  <1> QED
    BY <1>1, <1>2, <1>3, <1>4

LEMMA GoOrder ==
    ASSUME Running, OInv, result = "running", ~Refused(T, at),
           NEW u, NEW label, Go(u, label), Good(u, held', label, Len(pipes')), IsSeq(pipes')
    PROVE  OInv'
  <1>1. /\ trees' = [trees EXCEPT ![Len(trees)] = u] /\ at' = label
        /\ UNCHANGED <<lexState, parenDepth, atWord, received, result>> /\ UNCHANGED lexVars
    BY DEF Go, lexVars
  <1>2. PICK m \in Nat : m = Len(trees) /\ m >= 1
    BY CurrentTree
  <1>3. PICK p : p = trees'
    OBVIOUS
  <1>4. Len(p) = m /\ \A i \in 1 .. m - 1 : p[i] = trees[i]
    BY <1>1, <1>2, <1>3, CurrentBecomes
  <1>5. T' = u
    BY <1>1, CurrentBecomes
  <1>6. Good(T, held, at, Len(pipes))'
    <2>1. Counted(T, at)'
      BY <1>1, <1>5 DEF Good, Counted
    <2>2. Numbered(T)'
      BY <1>1, <1>5 DEF Good, Numbered, Lexed, Follows
    <2>3. Holds(T, held, at)'
      BY <1>1, <1>5 DEF Good, Holds, Awaits
    <2>4. Parens(T, at, Len(pipes))'
      BY <1>1, <1>5 DEF Good, Parens, Net, Weight
    <2> QED
      BY <2>1, <2>2, <2>3, <2>4 DEF Good
  <1>7. \A i \in 1 .. m - 1 : ~(trees[i].peekCount > 0)
    BY <1>2 DEF OInv, Order, Suspended
  <1>8. Suspended'
    BY <1>2, <1>3, <1>4, <1>7 DEF Suspended
  <1>9. LexOK'
    BY <1>1, LexOKStays DEF OInv
  <1> QED
    BY <1>1, <1>6, <1>8, <1>9 DEF OInv, Order

\* The parser looks at a token.
LEMMA AtToken ==
    ASSUME OInv, IInv, NEW label, Parsing(label)
    PROVE  /\ Running /\ OInv /\ result = "running" /\ at = label
           /\ IsTree(T) /\ IsTree(next(T)) /\ T.peekCount \in 1 .. 3
           /\ next(T).peekCount = T.peekCount - 1
           /\ \A j \in 0 .. 2 : j # T.peekCount - 1 => next(T).token[j] = T.token[j]
           /\ Cur = T.token[T.peekCount - 1]
           /\ Good(T, held, label, Len(pipes)) /\ IsSeq(pipes)
           /\ at # "loop" \/ Cur.typ # "Error" => ~Refused(T, at)
  <1>1. Running /\ Order /\ result = "running" /\ at = label /\ T.peekCount > 0
    BY DEF OInv, IInv, Parsing
  <1>2. IsTree(T) /\ T.peekCount \in 0 .. 3
    BY <1>1, CurrentTree, TreeFields
  <1>3. IsTree(next(T))
    BY <1>1, <1>2, NextDerived DEF Derived
  <1>4. at # "loop" \/ Cur.typ # "Error" => ~Refused(T, at)
    BY <1>1 DEF Refused, Cur
  <1> QED
    BY <1>1, <1>2, <1>3, <1>4, NextFields DEF Order, Cur

\* Places about which only the look-ahead is known.
Plainest == {"loop", "end", "try", "catch", "catchName", "defineName", "defineDelim"}

LEMMA GoodPlain ==
    ASSUME NEW t, NEW l, NEW m, t.peekCount = 0, NEW h, h = <<>>, l \in Plainest \cup {"End", "Catch"}
    PROVE  Good(t, h, l, m)
  BY DEF Good, Counted, Numbered, Holds, Parens, Plainest, BeforePipeline, InPipeline

\* The one token pending is kept.
LEMMA GoodKept ==
    ASSUME NEW t, NEW h, NEW l, NEW m, Good(t, h, l, m), t.peekCount \in {0, 1},
           NEW k, NEW p, k \in Plainest, NEW g, g = <<>>
    PROVE  Good(t, g, k, p)
  BY DEF Good, Counted, Numbered, Holds, Parens, Plainest, BeforePipeline, InPipeline

LEMMA ReceiveOrder ==
    ASSUME OInv, IInv, Receive
    PROVE  OInv'
  <1>1. Running /\ Order /\ result = "running" /\ LexOK /\ T.peekCount = 0 /\ IsTree(T)
    BY CurrentTree DEF Receive, OInv, IInv
  <1>2. PICK x : /\ trees' = [trees EXCEPT ![Len(trees)] = fetched(T, x)]
                 /\ x.n = received' /\ Lexed(x)'
                 /\ parenDepth' = parenDepth + Weight(x)
                 /\ LexOK'
                 /\ lexState = "lexInsideAction" =>
                       received' = received + 1 /\ (atWord = "space" => x.typ # "Space")
                 /\ lexState = "lexBadParen" => x.typ = "Error"
    <2>1. ASSUME NEW i, nextItem(i), received' = sent',
                 trees' = [trees EXCEPT
                              ![Len(trees)] = fetched(T, [typ |-> i.typ, val |-> i.val, n |-> sent'])]
          PROVE  \E x : /\ trees' = [trees EXCEPT ![Len(trees)] = fetched(T, x)]
                        /\ x.n = received' /\ Lexed(x)'
                        /\ parenDepth' = parenDepth + Weight(x)
                        /\ LexOK'
                        /\ lexState = "lexInsideAction" =>
                              received' = received + 1 /\ (atWord = "space" => x.typ # "Space")
                        /\ lexState = "lexBadParen" => x.typ = "Error"
      <3>1. PICK x : x = [typ |-> i.typ, val |-> i.val, n |-> sent']
        OBVIOUS
      <3>2. x.typ = i.typ /\ x.n = sent'
        BY <3>1
      <3>3. ItemOK(i)
        BY <1>1, <2>1, ItemIsOK
      <3>4. Lexed(x)' /\ parenDepth' = parenDepth + Weight(x)
        BY <3>2, <3>3 DEF ItemOK, Lexed, Weight
      <3>5. LexOK'
        BY <2>1, <3>3 DEF ItemOK, LexOK
      <3>6. lexState = "lexInsideAction" => received' = received + 1
        BY <1>1, <2>1, <3>3 DEF ItemOK, LexOK
      <3> QED
        BY <2>1, <3>1, <3>2, <3>3, <3>4, <3>5, <3>6 DEF ItemOK
    <2>2. ASSUME lexState = "ended", UNCHANGED lexVars, received' = 0, result' = result,
                 trees' = [trees EXCEPT ![Len(trees)] = fetched(T, ZeroItem)]
          PROVE  \E x : /\ trees' = [trees EXCEPT ![Len(trees)] = fetched(T, x)]
                        /\ x.n = received' /\ Lexed(x)'
                        /\ parenDepth' = parenDepth + Weight(x)
                        /\ LexOK'
                        /\ lexState = "lexInsideAction" =>
                              received' = received + 1 /\ (atWord = "space" => x.typ # "Space")
                        /\ lexState = "lexBadParen" => x.typ = "Error"
      <3>1. ZeroItem.typ = "Error" /\ ZeroItem.n = 0
        BY DEF ZeroItem
      <3>2. Lexed(ZeroItem)' /\ parenDepth' = parenDepth + Weight(ZeroItem)
        BY <1>1, <2>2, <3>1 DEF Lexed, Weight, LexOK, lexVars
      <3>3. LexOK'
        BY <1>1, <2>2 DEF LexOK, lexVars
      <3> QED
        BY <2>2, <3>1, <3>2, <3>3
    <2> QED
      BY <2>1, <2>2 DEF Receive
  <1>3. PICK u : u = fetched(T, x) /\ u.peekCount = 1 /\ u.token[0] = x
    BY <1>1, FetchedFields
  <1>4. UNCHANGED <<at, held, pipes, result>> /\ at \notin Nodes
    BY DEF Receive
  <1>5. PICK n \in Nat : n = Len(trees) /\ n >= 1
    BY <1>1, CurrentTree
  <1>6. PICK p : p = trees'
    OBVIOUS
  <1>7. Len(p) = n /\ \A i \in 1 .. n - 1 : p[i] = trees[i]
    BY <1>1, <1>2, <1>3, <1>5, <1>6, CurrentBecomes
  <1>8. T' = u
    BY <1>1, <1>2, <1>3, CurrentBecomes
  <1>9. Counted(T, at)'
    BY <1>3, <1>4, <1>8 DEF Counted, Nodes
  <1>10. Numbered(T)'
    BY <1>2, <1>3, <1>8 DEF Numbered
  <1>11. Holds(T, held, at)'
    BY <1>1, <1>2, <1>3, <1>4, <1>8 DEF Order, Good, Holds, Awaits
  <1>12. Parens(T, at, Len(pipes))'
    BY <1>1, <1>2, <1>3, <1>4, <1>8 DEF Order, Good, Parens, Net, LexOK, Weight
  <1>13. Suspended'
    BY <1>1, <1>2, <1>3, <1>4, <1>5, <1>6, <1>7, <1>8 DEF Order, Suspended, Refused
  <1> QED
    BY <1>1, <1>2, <1>4, <1>9, <1>10, <1>11, <1>12, <1>13 DEF OInv, Order, Good

LEMMA SkipSpaceOrder ==
    ASSUME OInv, IInv, SkipSpace
    PROVE  OInv'
  <1>1. Running /\ Order /\ IsTree(T) /\ result = "running" /\ T.peekCount \in 1 .. 3
    BY CurrentTree, TreeFields DEF SkipSpace, OInv, IInv
  <1>2. Go(next(T), at) /\ UNCHANGED <<pipes, held>> /\ at \notin Exact /\ Cur.typ = "Space"
    BY DEF SkipSpace, Go
  <1>3. PICK u : u = next(T) /\ u.peekCount = T.peekCount - 1
    BY <1>1, NextFields
  <1>4. T.peekCount = 1 /\ T.token[0].typ = "Space"
    BY <1>1, <1>2 DEF Order, Good, Counted, Exact, Cur
  <1>5. Good(u, held, at, Len(pipes))
    <2>1. Counted(u, at) /\ Numbered(u)
      BY <1>3, <1>4 DEF Counted, Numbered
    <2>2. Holds(u, held, at)
      BY <1>1, <1>2, <1>3, <1>4 DEF Order, Good, Holds, Awaits, Numbered, Lexed, Exact
    <2>3. Parens(u, at, Len(pipes))
      BY <1>1, <1>3, <1>4 DEF Order, Good, Parens, Net, Weight
    <2> QED
      BY <2>1, <2>2, <2>3 DEF Good
  <1>6. ~Refused(T, at)
    BY <1>2 DEF Refused, Exact
  <1> QED
    BY <1>1, <1>2, <1>3, <1>5, <1>6, GoOrder DEF Order

LEMMA EndOfParseOrder ==
    ASSUME OInv, IInv, ParseEOF \/ Recover
    PROVE  OInv'
  <1>1. CASE ParseEOF
    <2>1. CASE AddStops(T.name, Top.class)
      BY <2>1, OrderAddStops
    <2>2. CASE result' = "ok" /\ UNCHANGED lexVars /\ UNCHANGED received
      <3>1. LexOK'
        BY <2>2, LexOKStays DEF OInv
      <3> QED
        BY <2>2, <3>1 DEF OInv
    <2> QED
      BY <1>1, <2>1, <2>2 DEF ParseEOF
  <1>2. CASE Recover
    <2>1. result # "running" /\ result' # "running" /\ LexOK
      BY <1>2 DEF Recover, OInv
    <2>2. CASE UNCHANGED lexVars /\ UNCHANGED received
      BY <2>1, <2>2, LexOKStays DEF OInv
    <2>3. ASSUME NEW i, nextItem(i), UNCHANGED received PROVE OInv'
      <3>1. ItemOK(i)
        BY <2>1, <2>3, ItemIsOK
      <3> QED
        BY <2>1, <2>3, <3>1 DEF OInv, LexOK, ItemOK
    <2> QED
      BY <1>2, <2>2, <2>3 DEF Recover
  <1> QED
    BY <1>1, <1>2

-----------------------------------------------------------------------------
(* Definitions.                                                            *)

LEMMA ParseLeftDelimOrder ==
    ASSUME OInv, IInv, ParseLeftDelim
    PROVE  OInv'
  <1>1. /\ Parsing("loop") /\ Cur.typ = "LeftDelim" /\ held' = <<Cur>> /\ pipes' = pipes
        /\ Go(next(T), "define?")
    BY DEF ParseLeftDelim
  <1>2. PICK u : u = next(T)
    OBVIOUS
  <1>3. PICK c : c = Cur
    OBVIOUS
  <1>4. PICK h : h = <<c>> /\ h[1] = c
    BY OneIsSeq
  <1>5. T.peekCount = 1 /\ u.peekCount = 0 /\ c = T.token[0] /\ IsSeq(pipes)
    BY <1>1, <1>2, <1>3, AtToken DEF Good, Counted
  <1>6. Good(u, h, "define?", Len(pipes))
    <2>1. Good(T, held, "loop", Len(pipes)) /\ LexOK
      BY <1>1, AtToken DEF OInv
    <2>2. Counted(u, "define?") /\ Numbered(u)
      BY <1>5 DEF Counted, Numbered
    <2>3. Holds(u, h, "define?")
      BY <1>1, <1>3, <1>4, <1>5, <2>1 DEF Good, Numbered, Lexed, Holds, Awaits, LexOK
    <2>4. Parens(u, "define?", Len(pipes))
      BY <1>1, <1>3, <1>5, <2>1 DEF Good, Numbered, Lexed, Parens, Net, BeforePipeline, InPipeline
    <2> QED
      BY <2>2, <2>3, <2>4 DEF Good
  <1>7. Running /\ result = "running" /\ ~Refused(T, at)
    BY <1>1, AtToken
  <1> QED
    BY <1>1, <1>2, <1>3, <1>4, <1>5, <1>6, <1>7, GoOrder

LEMMA NotDefineOrder ==
    ASSUME OInv, IInv, NotDefine
    PROVE  OInv'
  <1>1. Parsing("define?") /\ held' = <<>> /\ pipes' = pipes /\ Go(backup2(T, held[1]), "node")
        /\ Cur.typ # "Space"
    BY DEF NotDefine, Parsing, Exact
  <1>2. Good(T, held, "define?", Len(pipes)) /\ IsSeq(pipes) /\ IsTree(T) /\ T.peekCount \in 1 .. 3
    BY <1>1, AtToken
  <1>3. PICK u : u = backup2(T, held[1]) /\ u.peekCount = 2 /\ u.token[0] = T.token[0] /\ u.token[1] = held[1]
    BY <1>2, Backup2Fields
  <1>4. T.peekCount = 1
    BY <1>2 DEF Good, Counted
  <1>5. Good(u, <<>>, "node", Len(pipes))
    <2>1. Counted(u, "node")
      BY <1>2, <1>3 DEF Counted, Good, Holds
    <2>2. Numbered(u)
      BY <1>2, <1>3, <1>4 DEF Numbered, Good, Holds, Awaits, Follows
    <2>3. Holds(u, <<>>, "node") /\ Parens(u, "node", Len(pipes))
      BY <1>2, <1>3, <1>4 DEF Good, Holds, Parens, Net, BeforePipeline, InPipeline
    <2> QED
      BY <2>1, <2>2, <2>3 DEF Good
  <1>6. Running /\ result = "running" /\ ~Refused(T, at)
    BY <1>1, AtToken
  <1> QED
    BY <1>1, <1>2, <1>3, <1>5, <1>6, GoOrder

\* A new Tree is put on top of a Tree that becomes u.
LEMMA GrowOrder ==
    ASSUME Running, OInv, result = "running", ~Refused(T, at), NEW u, NEW x, NEW label,
           trees' = Append([trees EXCEPT ![Len(trees)] = u], NewTree(x)),
           at' = label, label \in {"loop", "defineName"}, held' = <<>>, IsSeq(pipes'),
           UNCHANGED lexVars, UNCHANGED received, result' = result,
           \/ u.peekCount = 0
           \/ label = "loop" /\ lexState = "lexBadParen" /\ u.token[0].typ = "RightParen"
    PROVE  OInv'
  <1>1. PICK m \in Nat : m = Len(trees) /\ m >= 1 /\ IsSeq(trees)
    BY CurrentTree
  <1>2. PICK p : p = [trees EXCEPT ![Len(trees)] = u]
    OBVIOUS
  <1>3. IsSeq(p) /\ Len(p) = m /\ p[m] = u /\ \A i \in 1 .. m - 1 : p[i] = trees[i]
    <2>1. /\ IsSeq(p) /\ Len(p) = Len(trees)
          /\ \A i \in 1 .. Len(trees) - 1 : p[i] = trees[i]
          /\ Len(trees) > 0 => p[Len(trees)] = u
      BY <1>1, <1>2, Replacing, Zenon
    <2> QED
      BY <1>1, <2>1
  <1>4. PICK q : q = trees'
    OBVIOUS
  <1>5. IsSeq(q) /\ Len(q) = m + 1 /\ q[m + 1] = NewTree(x) /\ \A i \in 1 .. m : q[i] = p[i]
    BY <1>2, <1>3, <1>4, Appending
  <1>6. T' = NewTree(x) /\ T'.peekCount = 0
    <2>1. Last(q) = q[m + 1]
      BY <1>1, <1>5, SeqBasics
    <2>2. T' = Last(q)
      BY <1>4 DEF T
    <2> QED
      BY <1>5, <2>1, <2>2, NewTreeFields
  <1>7. UNCHANGED <<lexState, parenDepth, atWord, received, result>>
    BY DEF lexVars
  <1>8. Good(T, held, at, Len(pipes))'
    BY <1>6 DEF Good, Counted, Numbered, Holds, Parens, BeforePipeline, InPipeline
  <1>9. \A i \in 1 .. m - 1 : ~(trees[i].peekCount > 0)
    BY <1>1 DEF OInv, Order, Suspended
  <1>10. Suspended'
    <2> SUFFICES ASSUME NEW i \in 1 .. m, q[i].peekCount > 0
                 PROVE  q[i].token[0].typ = "RightParen" /\ Refused(T, at)'
      BY <1>1, <1>4, <1>5 DEF Suspended
    <2>1. q[i] = p[i] /\ (i = m \/ i \in 1 .. m - 1)
      BY <1>5
    <2>2. q[i] = u
      BY <1>3, <1>9, <2>1
    <2> QED
      BY <1>6, <1>7, <2>2 DEF Refused
  <1>11. LexOK'
    BY LexOKStays DEF OInv
  <1> QED
    BY <1>8, <1>10, <1>11 DEF OInv, Order

LEMMA DefineOrder ==
    ASSUME OInv, IInv, Define
    PROVE  OInv'
  <1>1. /\ Parsing("define?") /\ UNCHANGED lexVars /\ UNCHANGED received /\ result' = result
        /\ trees' = Append([trees EXCEPT ![Len(trees)] = next(T)], NewTree(MainName))
        /\ held' = <<>> /\ at' = "defineName" /\ pipes' = pipes
    BY DEF Define
  <1>2. /\ Running /\ result = "running" /\ ~Refused(T, at) /\ IsSeq(pipes)
        /\ Good(T, held, "define?", Len(pipes))
        /\ next(T).peekCount = T.peekCount - 1 /\ T.peekCount \in 1 .. 3
    BY <1>1, AtToken
  <1>3. next(T).peekCount = 0
    BY <1>2 DEF Good, Counted
  <1> QED
    BY <1>1, <1>2, <1>3, GrowOrder

LEMMA DefinitionOrder ==
    ASSUME OInv, IInv, DefineName \/ DefineDelim
    PROVE  OInv'
  <1>1. CASE Fail
    BY <1>1, OrderFails
  <1>2. CASE DefineName /\ ~Fail
    <2>1. /\ Parsing("defineName") /\ Go([next(T) EXCEPT !.name = Cur.val], "defineDelim")
          /\ held' = held /\ pipes' = pipes
      BY <1>2 DEF DefineName
    <2>2. /\ Running /\ result = "running" /\ ~Refused(T, at) /\ IsSeq(pipes) /\ IsTree(next(T))
          /\ Good(T, held, "defineName", Len(pipes))
          /\ next(T).peekCount = T.peekCount - 1 /\ T.peekCount \in 1 .. 3
      BY <2>1, AtToken
    <2>3. PICK x : x = Cur.val
      OBVIOUS
    <2>4. PICK u : u = [next(T) EXCEPT !.name = x] /\ Alike(u, next(T))
      BY <2>2, NamedAlike
    <2>5. u.peekCount = 0 /\ held = <<>>
      BY <2>2, <2>4 DEF Alike, Good, Counted, Holds
    <2>6. Good(u, held', "defineDelim", Len(pipes'))
      BY <2>1, <2>5, GoodPlain DEF Plainest
    <2> QED
      BY <2>1, <2>2, <2>3, <2>4, <2>6, GoOrder
  <1>3. CASE DefineDelim /\ ~Fail
    <2>1. Parsing("defineDelim") /\ Go(next(T), "loop") /\ held' = held /\ pipes' = pipes
      BY <1>3 DEF DefineDelim
    <2>2. /\ Running /\ result = "running" /\ ~Refused(T, at) /\ IsSeq(pipes)
          /\ Good(T, held, "defineDelim", Len(pipes))
          /\ next(T).peekCount = T.peekCount - 1 /\ T.peekCount \in 1 .. 3
      BY <2>1, AtToken
    <2>3. next(T).peekCount = 0 /\ held = <<>>
      BY <2>2 DEF Good, Counted, Holds
    <2>4. Good(next(T), held', "loop", Len(pipes'))
      BY <2>1, <2>3, GoodPlain DEF Plainest
    <2> QED
      BY <2>1, <2>2, <2>4, GoOrder
  <1> QED
    BY <1>1, <1>2, <1>3

-----------------------------------------------------------------------------
(* Nodes and keywords.                                                     *)

LEMMA OneToken ==
    ASSUME OInv, IInv, NEW l, Parsing(l), l \notin {"node", "commands", "term", "chain", "afterOperand"}
    PROVE  T.peekCount = 1 /\ Cur = T.token[0] /\ next(T).peekCount = 0
  BY AtToken DEF Good, Counted

\* The parser goes on where only the look-ahead matters.
LEMMA PlainOrder ==
    ASSUME OInv, IInv, NEW l, Parsing(l), l \notin {"define?", "afterVariable", "declaration"},
           l = "loop" => Cur.typ # "Error", T.peekCount = 1,
           NEW k \in Plainest, Go(T, k) \/ Go(next(T), k), held' = held, IsSeq(pipes')
    PROVE  OInv'
  <1>1. /\ Running /\ result = "running" /\ ~Refused(T, at)
        /\ Good(T, held, l, Len(pipes)) /\ next(T).peekCount = 0
    BY AtToken
  <1>2. held = <<>>
    BY <1>1 DEF Good, Holds
  <1>3. CASE Go(T, k)
    <2>1. Good(T, held', k, Len(pipes'))
      BY <1>1, <1>2, GoodKept
    <2> QED
      BY <1>1, <1>3, <2>1, GoOrder
  <1>4. CASE Go(next(T), k)
    <2>1. Good(next(T), held', k, Len(pipes'))
      BY <1>1, <1>2, GoodPlain
    <2> QED
      BY <1>1, <1>4, <2>1, GoOrder
  <1> QED
    BY <1>3, <1>4

LEMMA PipesSeq == ASSUME OInv, result = "running" PROVE IsSeq(pipes) /\ Len(pipes) \in Nat
  BY SeqBasics DEF OInv, Order

LEMMA NodesOrder ==
    ASSUME OInv, IInv, Text \/ LeftDelim \/ UnexpectedInput
    PROVE  OInv'
  <1>1. CASE UnexpectedInput
    BY <1>1, OrderFails DEF UnexpectedInput
  <1>2. CASE Text
    <2>1. PICK l \in {"node", "loop"} : Parsing(l)
      BY <1>2 DEF Text, TextOrAction
    <2>2. Cur.typ = "Text" /\ Go(next(T), "loop") /\ UNCHANGED <<pipes, held>>
      BY <1>2 DEF Text
    <2>3. T.peekCount = 1
      <3>1. Good(T, held, l, Len(pipes)) /\ T.peekCount \in 1 .. 3 /\ Cur = T.token[T.peekCount - 1]
        BY <2>1, AtToken
      <3> QED
        BY <2>2, <3>1 DEF Good, Counted
    <2>4. IsSeq(pipes')
      BY <2>1, <2>2, PipesSeq DEF Parsing
    <2> QED
      BY <2>1, <2>2, <2>3, <2>4, PlainOrder DEF Plainest
  <1>3. CASE LeftDelim
    <2>1. PICK l \in {"node", "loop"} : Parsing(l)
      BY <1>3 DEF LeftDelim, TextOrAction
    <2>2. Cur.typ = "LeftDelim" /\ Go(next(T), "action") /\ UNCHANGED <<pipes, held>>
      BY <1>3 DEF LeftDelim
    <2>3. /\ Good(T, held, l, Len(pipes)) /\ T.peekCount \in 1 .. 3 /\ Cur = T.token[T.peekCount - 1]
          /\ Running /\ result = "running" /\ ~Refused(T, at) /\ IsSeq(pipes)
          /\ next(T).peekCount = T.peekCount - 1
          /\ \A j \in 0 .. 2 : j # T.peekCount - 1 => next(T).token[j] = T.token[j]
      BY <2>1, <2>2, AtToken
    <2>4. PICK u : u = next(T)
      OBVIOUS
    <2>5. T.peekCount \in {1, 2} /\ (l = "loop" => T.peekCount = 1) /\ held = <<>>
      BY <2>3 DEF Good, Counted, Holds
    <2>6. Good(u, held, "action", Len(pipes))
      <3>1. Counted(u, "action")
        BY <2>3, <2>4, <2>5 DEF Counted
      <3>2. Numbered(u)
        BY <2>3, <2>4, <2>5 DEF Numbered, Good
      <3>3. Holds(u, held, "action")
        BY <2>5 DEF Holds
      <3>4. parenDepth = Net(u)
        <4>1. CASE l = "node" /\ T.peekCount = 2
          BY <2>3, <2>4, <4>1 DEF Good, Parens, BeforePipeline, Net
        <4>2. CASE T.peekCount = 1
          BY <2>2, <2>3, <2>4, <4>2 DEF Good, Numbered, Lexed, Net
        <4> QED
          BY <2>5, <4>1, <4>2
      <3> QED
        BY <3>1, <3>2, <3>3, <3>4 DEF Good, Parens, InPipeline
    <2> QED
      BY <2>2, <2>3, <2>4, <2>6, GoOrder
  <1> QED
    BY <1>1, <1>2, <1>3

\* The one token pending is taken, or not, and parentheses are not touched.
LEMMA HeaderOrder ==
    ASSUME OInv, IInv, NEW l, Parsing(l), l \in BeforePipeline \ {"define?", "node"},
           NEW k,
           \/ k \in BeforePipeline \ {"define?", "node"} /\ pipes' = pipes
           \/ k = "pipeline" /\ Len(pipes') = 1 /\ IsSeq(pipes'),
           Go(T, k) \/ (Go(next(T), k) /\ Weight(Cur) = 0),
           held' = held
    PROVE  OInv'
  <1>1. /\ Running /\ result = "running" /\ ~Refused(T, at) /\ IsSeq(pipes)
        /\ Good(T, held, l, Len(pipes)) /\ next(T).peekCount = 0 /\ T.peekCount = 1 /\ Cur = T.token[0]
    BY AtToken, OneToken DEF BeforePipeline
  <1>2. held = <<>> /\ parenDepth = Net(T)
    BY <1>1 DEF Good, Holds, Parens, BeforePipeline
  <1>3. PICK u : Go(u, k) /\ (u = T \/ (u = next(T) /\ Weight(Cur) = 0))
    OBVIOUS
  <1>4. Good(u, held', k, Len(pipes'))
    <2>1. Counted(u, k) /\ Numbered(u)
      BY <1>1, <1>3 DEF Good, Counted, Numbered, BeforePipeline
    <2>2. Holds(u, held', k)
      BY <1>2 DEF Holds, BeforePipeline
    <2>3. Net(u) = parenDepth
      BY <1>1, <1>2, <1>3 DEF Net
    <2>4. Parens(u, k, Len(pipes'))
      <3>1. parenDepth \in Int
        BY DEF OInv, LexOK
      <3>2. CASE k \in BeforePipeline \ {"define?", "node"}
        BY <2>3, <3>2 DEF Parens, BeforePipeline, InPipeline
      <3>3. CASE k = "pipeline" /\ Len(pipes') = 1
        <4>1. PICK m \in Nat : m = Len(pipes') /\ m = 1
          BY <3>3
        <4>2. m >= 1 /\ parenDepth = m - 1 + Net(u)
          BY <2>3, <3>1, <4>1
        <4> QED
          BY <3>3, <4>1, <4>2 DEF Parens, BeforePipeline
      <3> QED
        BY <3>2, <3>3
    <2> QED
      BY <2>1, <2>2, <2>4 DEF Good
  <1>5. IsSeq(pipes')
    BY <1>1
  <1> QED
    BY <1>1, <1>3, <1>4, <1>5, GoOrder

LEMMA KeywordsOrder ==
    ASSUME OInv, IInv, Control \/ Clause \/ Command \/ Try
    PROVE  OInv'
  <1>1. "action" \in BeforePipeline \ {"define?", "node"}
    BY DEF BeforePipeline
  <1>2. CASE Control
    <2>1. /\ Parsing("action") /\ Cur.typ \in DOMAIN Controls
          /\ Go(next(T), "pipeline") /\ held' = held
      BY <1>2 DEF Control
    <2>2. PICK p : pipes' = <<p>>
      BY <1>2 DEF Control
    <2>3. IsSeq(pipes') /\ Len(pipes') = 1
      BY <2>2, OneIsSeq
    <2>4. Weight(Cur) = 0
      BY <2>1 DEF Controls, Weight
    <2> QED
      BY <1>1, <2>1, <2>3, <2>4, HeaderOrder
  <1>3. CASE Clause
    <2>1. Parsing("action") /\ Cur.typ \in DOMAIN Clauses /\ held' = held /\ pipes' = pipes
      BY <1>3 DEF Clause
    <2>2. PICK k : k = Clauses[Cur.typ] /\ Go(next(T), k)
      BY <1>3 DEF Clause
    <2>3. Weight(Cur) = 0
      BY <2>1 DEF Clauses, Weight
    <2>4. k \in {"end", "else", "catch", "try", "blockName", "templateName"}
      BY <2>1, <2>2 DEF Clauses
    <2>5. CASE k \in {"else", "blockName", "templateName"}
      <3>1. k \in BeforePipeline \ {"define?", "node"}
        BY <2>5 DEF BeforePipeline
      <3> QED
        BY <1>1, <2>1, <2>2, <2>3, <3>1, HeaderOrder
    <2>6. CASE k \in {"end", "catch", "try"}
      <3>1. k \in Plainest /\ T.peekCount = 1 /\ IsSeq(pipes')
        BY <2>1, <2>6, OneToken, PipesSeq DEF Plainest, Parsing
      <3> QED
        BY <2>1, <2>2, <3>1, PlainOrder
    <2> QED
      BY <2>4, <2>5, <2>6
  <1>4. CASE Command
    <2>1. Parsing("action") /\ Go(T, "pipeline") /\ held' = held
      BY <1>4 DEF Command
    <2>2. PICK p : pipes' = <<p>>
      BY <1>4 DEF Command
    <2>3. IsSeq(pipes') /\ Len(pipes') = 1
      BY <2>2, OneIsSeq
    <2> QED
      BY <1>1, <2>1, <2>3, HeaderOrder
  <1>5. CASE Try
    <2>1. CASE Fail
      BY <2>1, OrderFails
    <2>2. CASE Go(next(T), "loop") /\ UNCHANGED <<pipes, held>>
      <3>1. Parsing("try")
        BY <1>5 DEF Try
      <3>2. T.peekCount = 1 /\ IsSeq(pipes')
        BY <2>2, <3>1, OneToken, PipesSeq DEF Parsing
      <3> QED
        BY <2>2, <3>1, <3>2, PlainOrder DEF Plainest
    <2> QED
      BY <1>5, <2>1, <2>2 DEF Try
  <1> QED
    BY <1>2, <1>3, <1>4, <1>5

LEMMA NamesOrder ==
    ASSUME OInv, IInv, BlockName \/ TemplateName \/ BadName \/ TemplatePipe
    PROVE  OInv'
  <1>1. /\ "blockName" \in BeforePipeline \ {"define?", "node"}
        /\ "templateName" \in BeforePipeline \ {"define?", "node"}
        /\ "templatePipe" \in BeforePipeline \ {"define?", "node"}
    BY DEF BeforePipeline
  <1>2. CASE BadName
    BY <1>2, OrderFails DEF BadName
  <1>3. CASE BlockName
    <2>1. Parsing("blockName") /\ Weight(Cur) = 0 /\ Go(next(T), "pipeline") /\ held' = held
      BY <1>3 DEF BlockName, Named, Weight
    <2>2. PICK p : pipes' = <<p>>
      BY <1>3 DEF BlockName
    <2>3. IsSeq(pipes') /\ Len(pipes') = 1
      BY <2>2, OneIsSeq
    <2> QED
      BY <1>1, <2>1, <2>3, HeaderOrder
  <1>4. CASE TemplateName
    <2>1. /\ Parsing("templateName") /\ Weight(Cur) = 0 /\ Go(next(T), "templatePipe")
          /\ held' = held /\ pipes' = pipes
      BY <1>4 DEF TemplateName, Named, Weight
    <2> QED
      BY <1>1, <2>1, HeaderOrder
  <1>5. CASE TemplatePipe
    <2>1. Parsing("templatePipe") /\ held' = held
      BY <1>5 DEF TemplatePipe
    <2>2. CASE Cur.typ = "RightDelim"
      <3>1. Go(next(T), "loop") /\ pipes' = pipes
        BY <1>5, <2>2 DEF TemplatePipe
      <3>2. T.peekCount = 1 /\ IsSeq(pipes')
        BY <2>1, <3>1, OneToken, PipesSeq DEF Parsing
      <3> QED
        BY <2>1, <3>1, <3>2, PlainOrder DEF Plainest
    <2>3. CASE Cur.typ # "RightDelim"
      <3>1. Go(T, "pipeline")
        BY <1>5, <2>3 DEF TemplatePipe
      <3>2. PICK p : pipes' = <<p>>
        BY <1>5, <2>3 DEF TemplatePipe
      <3>3. IsSeq(pipes') /\ Len(pipes') = 1
        BY <3>2, OneIsSeq
      <3> QED
        BY <1>1, <2>1, <3>1, <3>3, HeaderOrder
    <2> QED
      BY <2>2, <2>3
  <1> QED
    BY <1>2, <1>3, <1>4, <1>5

-----------------------------------------------------------------------------
(* Ends of lists.                                                          *)

LEMMA DelimitersOrder ==
    ASSUME OInv, IInv, EndControl \/ ElseControl \/ CatchControl
    PROVE  OInv'
  <1>1. CASE Fail
    BY <1>1, OrderFails
  <1>2. ASSUME NEW l \in {"end", "catch", "catchName"}, NEW k \in {"End", "Catch"}, Parsing(l),
               Go(next(T), k), UNCHANGED <<pipes, held>>
        PROVE  OInv'
    <2>1. /\ Running /\ result = "running" /\ ~Refused(T, at) /\ IsSeq(pipes)
          /\ Good(T, held, l, Len(pipes)) /\ next(T).peekCount = 0
      BY <1>2, AtToken, OneToken
    <2>2. held = <<>>
      BY <2>1 DEF Good, Holds
    <2>3. Good(next(T), held', k, Len(pipes'))
      BY <1>2, <2>1, <2>2, GoodPlain
    <2> QED
      BY <1>2, <2>1, <2>3, GoOrder
  <1>3. CASE EndControl /\ ~Fail
    BY <1>2, <1>3 DEF EndControl, Delimiter
  <1>4. CASE ElseControl /\ ~Fail
    <2>1. /\ Parsing("else") /\ UNCHANGED <<pipes, held>>
          /\ Go(T, "Else") \/ (Go(next(T), "Else") /\ Weight(Cur) = 0)
      BY <1>4 DEF ElseControl, Delimiter, Weight
    <2> QED
      BY <2>1, HeaderOrder DEF BeforePipeline
  <1>5. CASE CatchControl
    <2>1. PICK l \in {"catch", "catchName"} : Parsing(l)
      BY <1>5 DEF CatchControl
    <2>2. PICK k \in {"catchName", "Catch"} : Go(next(T), k) /\ UNCHANGED <<pipes, held>>
      BY <1>5 DEF CatchControl
    <2>3. CASE k = "catchName"
      <3>1. T.peekCount = 1 /\ IsSeq(pipes')
        BY <2>1, <2>2, OneToken, PipesSeq DEF Parsing
      <3> QED
        BY <2>1, <2>2, <2>3, <3>1, PlainOrder DEF Plainest
    <2>4. CASE k = "Catch"
      BY <1>2, <2>1, <2>2, <2>4
    <2> QED
      BY <2>3, <2>4
  <1> QED
    BY <1>1, <1>3, <1>4, <1>5

LEMMA AtNode ==
    ASSUME OInv, IInv, result = "running", at \in Nodes
    PROVE  /\ Running /\ IsTree(T) /\ T.peekCount \in {0, 1} /\ held = <<>> /\ IsSeq(pipes)
           /\ Good(T, held, at, Len(pipes)) /\ ~Refused(T, at)
           /\ at # "Else" => T.peekCount = 0
  <1>1. Running /\ Order /\ IsTree(T) /\ T.peekCount \in 0 .. 3
    BY CurrentTree, TreeFields DEF OInv, IInv
  <1>2. T.peekCount < 2
    BY <1>1 DEF Order, Good, Counted, Nodes
  <1>3. at # "Else" => T.peekCount = 0
    BY <1>1 DEF Order, Good, Counted, Nodes
  <1>4. held = <<>> /\ ~Refused(T, at)
    BY <1>1 DEF Order, Good, Holds, Nodes, Refused
  <1> QED
    BY <1>1, <1>2, <1>3, <1>4 DEF Order

\* The parser goes on with the list around the one that has ended.
LEMMA LoopOrder ==
    ASSUME OInv, IInv, result = "running", at \in Nodes, NEW u, Alike(u, T),
           Go(u, "loop"), UNCHANGED <<pipes, held>>
    PROVE  OInv'
  <1>1. /\ Running /\ T.peekCount \in {0, 1} /\ held = <<>> /\ IsSeq(pipes)
        /\ Good(T, held, at, Len(pipes)) /\ ~Refused(T, at)
    BY AtNode
  <1>2. Good(T, held', "loop", Len(pipes'))
    BY <1>1, GoodKept DEF Plainest
  <1>3. Good(u, held', "loop", Len(pipes'))
    BY <1>2, GoodAlike
  <1> QED
    BY <1>1, <1>3, GoOrder

LEMMA AlikeItself == ASSUME NEW t, IsTree(t) PROVE Alike(t, t)
  BY DEF Alike

LEMMA RestartOrder ==
    ASSUME OInv, IInv, TopLevelEnd \/ TopLevelCatch \/ NoEndOfDefinition \/ NoEnd \/ MissingCatch \/ Catch
    PROVE  OInv'
  <1>1. CASE TopLevelEnd \/ NoEndOfDefinition \/ NoEnd
    BY <1>1, OrderFails DEF TopLevelEnd, NoEndOfDefinition, NoEnd
  <1>2. CASE MissingCatch
    BY <1>2, OrderStops DEF MissingCatch
  <1>3. CASE TopLevelCatch \/ Catch
    <2>1. result = "running" /\ at \in Nodes /\ Go(T, "loop") /\ UNCHANGED <<pipes, held>>
      BY <1>3 DEF TopLevelCatch, Catch, Ends, Nodes
    <2> QED
      BY <2>1, AtNode, AlikeItself, LoopOrder
  <1> QED
    BY <1>1, <1>2, <1>3

LEMMA CloseOrder ==
    ASSUME OInv, IInv, EndIf \/ EndCatch
    PROVE  OInv'
  <1>1. result = "running" /\ at \in Nodes
    BY DEF EndIf, EndCatch, Ends, Nodes
  <1>2. Running /\ IsTree(T)
    BY <1>1, AtNode
  <1>3. PICK class : Close(class) /\ Continue
    BY DEF EndIf, EndCatch
  <1>4. PICK u : Alike(u, T) /\ trees' = [trees EXCEPT ![Len(trees)] = u]
    <2>1. CASE trees' = trees
      <3>1. trees = [trees EXCEPT ![Len(trees)] = T]
        <4>1. PICK S : trees \in Seq(S)
          BY <1>2, CurrentTree DEF IsSeq
        <4> QED
          BY <1>2, <4>1, CurrentTree
      <3> QED
        BY <1>2, <2>1, <3>1, AlikeItself
    <2>2. ASSUME NEW v, trees' = [trees EXCEPT ![Len(trees)] = [T EXCEPT !.vars = v]]
          PROVE  \E u : Alike(u, T) /\ trees' = [trees EXCEPT ![Len(trees)] = u]
      BY <1>2, <2>2, NamedAlike
    <2>3. \/ trees' = trees
          \/ trees' = [trees EXCEPT
                          ![Len(trees)] = [T EXCEPT !.vars = SubSeq(T.vars, 1, open[Outermost].vars)]]
      BY <1>3 DEF Close
    <2> QED
      BY <2>1, <2>2, <2>3
  <1>5. Go(u, "loop") /\ UNCHANGED <<pipes, held>>
    BY <1>3, <1>4 DEF Continue, Go
  <1> QED
    BY <1>1, <1>4, <1>5, LoopOrder

\* The Tree below has nothing pending, or the text had been refused.
LEMMA EndDefinitionOrder ==
    ASSUME OInv, IInv, EndDefinition
    PROVE  OInv'
  <1>1. result = "running" /\ at = "End" /\ at \in Nodes /\ Top.what \in Own
    BY DEF EndDefinition, Ends, Nodes, Own
  <1>2. CASE AddStops(T.name, Top.class)
    BY <1>2, OrderAddStops
  <1>3. CASE /\ trees' = Front(trees) /\ at' = "loop"
             /\ UNCHANGED lexVars /\ UNCHANGED <<received, result, pipes, held>>
    <2>1. Running /\ held = <<>> /\ IsSeq(pipes) /\ ~Refused(T, at) /\ LexOK /\ Suspended
      BY <1>1, AtNode DEF OInv, Order
    <2>2. PICK m \in Nat : m = Len(trees) /\ m >= 1 /\ IsSeq(trees)
      BY <2>1, CurrentTree
    <2>3. PICK p : p = trees' /\ IsSeq(p) /\ Len(p) = m - 1 /\ \A i \in 1 .. m - 1 : p[i] = trees[i]
      <3>1. Front(trees) = SubSeq(trees, 1, m - 1)
        BY <2>2 DEF Front
      <3>2. PICK k \in Nat : k = m - 1 /\ k <= Len(trees)
        BY <2>2
      <3>3. PICK p : p = SubSeq(trees, 1, k)
        OBVIOUS
      <3>4. IsSeq(p) /\ Len(p) = k /\ \A i \in 1 .. k : p[i] = trees[i]
        BY <2>2, <3>2, <3>3, Cutting
      <3> QED
        BY <1>3, <3>1, <3>2, <3>3, <3>4
    <2>4. PICK n \in Nat : Len(trees') = n /\ n >= 1
      <3>1. IInv' /\ result' = "running"
        BY <1>1, <1>3, NextIInv DEF Next, ParseNext
      <3>2. Running'
        BY <3>1 DEF IInv
      <3>3. PICK d : Depth(open', d) /\ Len(trees') = IF at' \in Headers THEN d + 1 ELSE d
        BY <3>2 DEF Running, DepthOK
      <3>4. d \in Nat /\ d >= 1
        BY <3>3, DepthFacts
      <3> QED
        BY <3>3, <3>4
    <2>5. T' = p[m - 1] /\ p[m - 1] = trees[m - 1] /\ m - 1 \in 1 .. m - 1
      BY <2>2, <2>3, <2>4, SeqBasics DEF T
    <2>6. \A i \in 1 .. m - 1 : IsTree(trees[i]) /\ trees[i].peekCount = 0
      <3>1. \A i \in 1 .. m - 1 : IsTree(trees[i]) /\ ~(trees[i].peekCount > 0)
        BY <2>1, <2>2 DEF Suspended, Running, TreesOK
      <3> QED
        BY <3>1, TreeFields
    <2>7. Good(T, held, at, Len(pipes))'
      BY <1>3, <2>1, <2>5, <2>6 DEF Good, Counted, Numbered, Holds, Parens, BeforePipeline, InPipeline
    <2>8. Suspended'
      <3>1. \A i \in 1 .. (m - 1) - 1 : i \in 1 .. m - 1
        BY <2>2
      <3> QED
        BY <2>2, <2>3, <2>6, <3>1 DEF Suspended
    <2>9. LexOK'
      BY <1>3, <2>1, LexOKStays
    <2> QED
      BY <1>3, <2>1, <2>7, <2>8, <2>9 DEF OInv, Order
  <1> QED
    BY <1>2, <1>3 DEF EndDefinition

LEMMA ElseOrder ==
    ASSUME OInv, IInv, ElseIf \/ ElseIfIf \/ Else
    PROVE  OInv'
  <1>1. CASE ElseIf
    <2>1. result = "running" /\ at = "Else" /\ at \in Nodes /\ Go(T, "elseIf") /\ UNCHANGED <<pipes, held>>
      BY <1>1 DEF ElseIf, Ends, Nodes
    <2>2. /\ Running /\ T.peekCount \in {0, 1} /\ held = <<>> /\ IsSeq(pipes)
          /\ Good(T, held, "Else", Len(pipes)) /\ ~Refused(T, at)
      BY <2>1, AtNode
    <2>3. Good(T, held', "elseIf", Len(pipes'))
      BY <2>1, <2>2 DEF Good, Counted, Numbered, Holds, Parens, BeforePipeline, InPipeline
    <2> QED
      BY <2>1, <2>2, <2>3, GoOrder
  <1>2. CASE ElseIfIf
    <2>1. Parsing("elseIf") /\ Weight(Cur) = 0 /\ Go(next(T), "pipeline") /\ held' = held
      BY <1>2 DEF ElseIfIf, Weight
    <2>2. PICK p : pipes' = <<p>>
      BY <1>2 DEF ElseIfIf
    <2>3. IsSeq(pipes') /\ Len(pipes') = 1
      BY <2>2, OneIsSeq
    <2> QED
      BY <2>1, <2>3, HeaderOrder DEF BeforePipeline
  <1>3. CASE Else
    <2>1. Go(T, "loop") /\ UNCHANGED <<pipes, held>>
      BY <1>3 DEF Else
    <2>2. CASE Parsing("elseIf")
      <3>1. T.peekCount = 1 /\ IsSeq(pipes')
        BY <2>1, <2>2, OneToken, PipesSeq DEF Parsing
      <3> QED
        BY <2>1, <2>2, <3>1, PlainOrder DEF Plainest
    <2>3. CASE result = "running" /\ at \in Nodes
      BY <2>1, <2>3, AtNode, AlikeItself, LoopOrder
    <2> QED
      BY <1>3, <2>2, <2>3 DEF Else, Ends, Nodes
  <1> QED
    BY <1>1, <1>2, <1>3

-----------------------------------------------------------------------------
(* Pipelines.                                                              *)

LEMMA PipesReplaced ==
    ASSUME OInv, result = "running", NEW p, SetPipe(p)
    PROVE  IsSeq(pipes') /\ Len(pipes') = Len(pipes)
  <1>1. PICK q : q = [pipes EXCEPT ![Len(pipes)] = p]
    OBVIOUS
  <1>2. IsSeq(q) /\ Len(q) = Len(pipes)
    BY <1>1, PipesSeq, Replacing
  <1> QED
    BY <1>1, <1>2 DEF SetPipe

Commands == {"pipeline", "commands", "term", "chain", "afterOperand"}

\* The parser goes on in the same pipeline, and takes no parenthesis.
LEMMA CommandOrder ==
    ASSUME OInv, IInv, NEW l \in Commands, Parsing(l), NEW k \in Commands,
           IsSeq(pipes'), Len(pipes') = Len(pipes), held' = held,
           NEW u, Go(u, k), Counted(u, k),
           Alike(u, T) \/ (Alike(u, next(T)) /\ Weight(Cur) = 0)
    PROVE  OInv'
  <1>1. /\ Running /\ result = "running" /\ ~Refused(T, at)
        /\ Good(T, held, l, Len(pipes)) /\ T.peekCount \in 1 .. 3 /\ Cur = T.token[T.peekCount - 1]
        /\ next(T).peekCount = T.peekCount - 1
        /\ \A j \in 0 .. 2 : j # T.peekCount - 1 => next(T).token[j] = T.token[j]
    BY AtToken DEF Commands
  <1>2. held = <<>> /\ Len(pipes) >= 1 /\ parenDepth = Len(pipes) - 1 + Net(T)
    BY <1>1 DEF Good, Holds, Parens, Commands, InPipeline
  <1>3. Numbered(u)
    BY <1>1 DEF Good, Numbered, Alike
  <1>4. Net(u) = Net(T)
    <2>1. CASE Alike(u, T)
      BY <2>1 DEF Alike, Net
    <2>2. CASE Alike(u, next(T)) /\ Weight(Cur) = 0 /\ T.peekCount = 1
      BY <1>1, <2>2 DEF Alike, Net
    <2>3. CASE Alike(u, next(T)) /\ T.peekCount \in 2 .. 3
      BY <1>1, <2>3 DEF Alike, Net
    <2> QED
      BY <1>1, <2>1, <2>2, <2>3
  <1>5. Holds(u, held', k)
    BY <1>2 DEF Holds, Commands
  <1>6. Parens(u, k, Len(pipes'))
    BY <1>2, <1>4 DEF Parens, Commands, BeforePipeline
  <1> QED
    BY <1>1, <1>3, <1>5, <1>6, GoOrder DEF Good

LEMMA PipelineOrder ==
    ASSUME OInv, IInv, Pipeline
    PROVE  OInv'
  <1>1. Parsing("pipeline") /\ pipes' = pipes
    BY DEF Pipeline
  <1>2. /\ Running /\ result = "running" /\ ~Refused(T, at) /\ IsSeq(pipes) /\ IsTree(T)
        /\ Good(T, held, "pipeline", Len(pipes)) /\ T.peekCount = 1 /\ Cur = T.token[0]
        /\ next(T).peekCount = 0
    BY <1>1, AtToken, OneToken
  <1>3. CASE Cur.typ = "Variable"
    <2>1. Go(next(T), "afterVariable") /\ held' = <<Cur>>
      BY <1>3 DEF Pipeline
    <2>2. PICK u : u = next(T) /\ u.peekCount = 0
      BY <1>2
    <2>3. PICK c : c = Cur
      OBVIOUS
    <2>4. PICK h : h = <<c>> /\ h[1] = c
      BY OneIsSeq
    <2>5. Good(u, h, "afterVariable", Len(pipes))
      <3>1. Counted(u, "afterVariable") /\ Numbered(u)
        BY <2>2 DEF Counted, Numbered
      <3>2. Holds(u, h, "afterVariable")
        BY <1>2, <1>3, <2>2, <2>3, <2>4 DEF Holds, Awaits, Good, Numbered, Lexed, OInv, LexOK
      <3>3. Parens(u, "afterVariable", Len(pipes))
        BY <1>2, <1>3, <2>2 DEF Good, Parens, Net, Weight, BeforePipeline, InPipeline
      <3> QED
        BY <3>1, <3>2, <3>3 DEF Good
    <2> QED
      BY <1>1, <1>2, <2>1, <2>2, <2>3, <2>4, <2>5, GoOrder
  <1>4. CASE Cur.typ # "Variable"
    <2>1. Go(T, "commands") /\ held' = held
      BY <1>4 DEF Pipeline
    <2>2. Alike(T, T) /\ Counted(T, "commands")
      BY <1>2 DEF Alike, Counted
    <2> QED
      BY <1>1, <1>2, <2>1, <2>2, CommandOrder DEF Commands
  <1> QED
    BY <1>3, <1>4

LEMMA AfterVariableOrder ==
    ASSUME OInv, IInv, AfterVariable
    PROVE  OInv'
  <1>1. Parsing("afterVariable") /\ pipes' = pipes
    BY DEF AfterVariable
  <1>2. /\ Running /\ result = "running" /\ ~Refused(T, at) /\ IsSeq(pipes)
        /\ Good(T, held, "afterVariable", Len(pipes)) /\ T.peekCount = 1 /\ Cur = T.token[0]
        /\ next(T).peekCount = 0
    BY <1>1, AtToken, OneToken
  <1>3. PICK x : held = <<x>> /\ held[1] = x /\ x.n \in Nat /\ x.typ = "Variable" /\ Cur.n = x.n + 1
    BY <1>2 DEF Good, Holds, Awaits
  <1>4. CASE Cur.typ = "Space"
    <2>1. Go(next(T), "declaration") /\ held' = Append(held, Cur)
      BY <1>4 DEF AfterVariable
    <2>2. PICK u : u = next(T) /\ u.peekCount = 0
      BY <1>2
    <2>3. PICK c : c = Cur
      OBVIOUS
    <2>4. PICK h : h = <<x, c>> /\ h = Append(<<x>>, c) /\ Len(h) = 2 /\ h[1] = x /\ h[2] = c
      BY TwoIsSeq
    <2>5. held' = h
      BY <1>3, <2>1, <2>3, <2>4, Zenon
    <2>6. Good(u, h, "declaration", Len(pipes))
      <3>1. Counted(u, "declaration") /\ Numbered(u)
        BY <2>2 DEF Counted, Numbered
      <3>2. Holds(u, h, "declaration")
        BY <1>2, <1>3, <1>4, <2>2, <2>3, <2>4 DEF Holds, Awaits, Good, Numbered, Lexed
      <3>3. Parens(u, "declaration", Len(pipes))
        BY <1>2, <1>4, <2>2 DEF Good, Parens, Net, Weight, BeforePipeline, InPipeline
      <3> QED
        BY <3>1, <3>2, <3>3 DEF Good
    <2> QED
      BY <1>1, <1>2, <2>1, <2>2, <2>5, <2>6, GoOrder
  <1>5. CASE Cur.typ # "Space"
    <2>1. Go(T, "declaration") /\ held' = held
      BY <1>5 DEF AfterVariable
    <2>2. Good(T, held, "declaration", Len(pipes))
      <3>1. Counted(T, "declaration") /\ Numbered(T)
        BY <1>2 DEF Counted, Good
      <3>2. Holds(T, held, "declaration")
        BY <1>2, <1>3, <1>5 DEF Holds, Awaits
      <3>3. Parens(T, "declaration", Len(pipes))
        BY <1>2 DEF Good, Parens, BeforePipeline, InPipeline
      <3> QED
        BY <3>1, <3>2, <3>3 DEF Good
    <2> QED
      BY <1>1, <1>2, <2>1, <2>2, GoOrder
  <1> QED
    BY <1>4, <1>5

LEMMA DeclarationsOrder ==
    ASSUME OInv, IInv, Declaration \/ TooManyDeclarations \/ NoDeclaration
    PROVE  OInv'
  <1>1. CASE TooManyDeclarations
    BY <1>1, OrderFails DEF TooManyDeclarations
  <1>2. ASSUME Parsing("declaration")
        PROVE  /\ Running /\ result = "running" /\ ~Refused(T, at) /\ IsSeq(pipes)
               /\ IsTree(T) /\ IsTree(next(T)) /\ Good(T, held, "declaration", Len(pipes))
               /\ T.peekCount = 1 /\ Cur = T.token[0] /\ next(T).peekCount = 0
    BY <1>2, AtToken, OneToken
  <1>3. CASE Declaration
    <2>1. Parsing("declaration") /\ Weight(Cur) = 0 /\ held' = <<>>
      <3>1. Cur.typ = "ColonEquals" \/ Cur.typ = "Char"
        BY <1>3, Zenon DEF Declaration, Comma
      <3> QED
        BY <1>3, <3>1 DEF Declaration, Weight
    <2>2. IsSeq(pipes') /\ Len(pipes') = Len(pipes)
      BY <1>2, <1>3, <2>1, PipesReplaced DEF Declaration
    <2>3. PICK w : w = next(T)
      OBVIOUS
    <2>4. PICK v : v = Append(w.vars, held[1].val)
      OBVIOUS
    <2>5. PICK k \in {"pipeline", "commands"} : k = IF Comma THEN "pipeline" ELSE "commands"
      OBVIOUS
    <2>6. PICK u : u = [w EXCEPT !.vars = v]
      OBVIOUS
    <2>7. Go(u, k)
      BY <1>3, <2>3, <2>4, <2>5, <2>6 DEF Declaration
    <2>8. u.peekCount = 0
      BY <1>2, <2>1, <2>3, <2>6, NamedAlike DEF Alike
    <2>9. Counted(u, k) /\ Numbered(u) /\ Holds(u, <<>>, k)
      BY <2>5, <2>8 DEF Counted, Numbered, Holds
    <2>10. Parens(u, k, Len(pipes'))
      <3>1. Len(pipes) >= 1 /\ parenDepth = Len(pipes) - 1 + 0
        BY <1>2, <2>1 DEF Good, Parens, InPipeline, Net
      <3> QED
        BY <2>2, <2>5, <2>8, <3>1 DEF Parens, BeforePipeline, Net
    <2>11. Good(u, held', k, Len(pipes'))
      BY <2>1, <2>9, <2>10 DEF Good
    <2> QED
      BY <1>2, <2>1, <2>2, <2>7, <2>11, GoOrder
  <1>4. CASE NoDeclaration
    <2>1. Parsing("declaration") /\ held' = <<>> /\ pipes' = pipes
      BY <1>4 DEF NoDeclaration
    <2>2. Running /\ result = "running" /\ ~Refused(T, at) /\ IsSeq(pipes)
      BY <1>2, <2>1
    <2>3. /\ IsTree(T) /\ T.peekCount = 1 /\ Counted(T, "declaration") /\ Numbered(T)
          /\ Holds(T, held, "declaration") /\ Parens(T, "declaration", Len(pipes))
      BY <1>2, <2>1 DEF Good
    <2>4. PICK x, y : x = held[1] /\ y = held[2]
      OBVIOUS
    <2>5. PICK u : /\ Go(u, "commands") /\ u.token[0] = T.token[0] /\ u.peekCount \in {2, 3}
                   /\ Counted(u, "commands") /\ Numbered(u)
      <3>1. CASE Len(held) = 2
        <4>1. PICK u : /\ u = backup3(T, x, y) /\ u.peekCount = 3
                       /\ u.token[0] = T.token[0] /\ u.token[1] = y /\ u.token[2] = x
          BY <2>3, Backup3Fields
        <4>2. Go(u, "commands")
          BY <1>4, <2>4, <3>1, <4>1 DEF NoDeclaration
        <4>3. held # <<x>>
          <5>1. Len(<<x>>) = 1
            BY OneIsSeq
          <5> QED
            BY <3>1, <5>1
        <4>4. /\ x.typ = "Variable" /\ y.typ = "Space" /\ y.n = x.n + 1
              /\ T.token[0].n = y.n + 1
          BY <2>3, <2>4, <4>3 DEF Holds, Awaits
        <4>5. Counted(u, "commands") /\ Numbered(u)
          BY <2>3, <4>1, <4>4 DEF Counted, Numbered, Follows
        <4> QED
          BY <4>1, <4>2, <4>5
      <3>2. CASE Len(held) # 2
        <4>1. PICK u : /\ u = backup2(T, x) /\ u.peekCount = 2
                       /\ u.token[0] = T.token[0] /\ u.token[1] = x
          BY <2>3, Backup2Fields
        <4>2. Go(u, "commands")
          BY <1>4, <2>4, <3>2, <4>1 DEF NoDeclaration
        <4>3. x.typ = "Variable" /\ T.token[0].n = x.n + 1
          BY <2>3, <2>4, <3>2 DEF Holds, Awaits
        <4>4. Counted(u, "commands") /\ Numbered(u)
          BY <2>3, <4>1, <4>3 DEF Counted, Numbered, Follows
        <4> QED
          BY <4>1, <4>2, <4>4
      <3> QED
        BY <3>1, <3>2
    <2>6. Holds(u, <<>>, "commands")
      BY DEF Holds
    <2>7. Parens(u, "commands", Len(pipes))
      BY <2>3, <2>5 DEF Parens, BeforePipeline, InPipeline, Net
    <2>8. Good(u, held', "commands", Len(pipes'))
      BY <2>1, <2>5, <2>6, <2>7 DEF Good
    <2> QED
      BY <2>1, <2>2, <2>5, <2>8, GoOrder
  <1> QED
    BY <1>1, <1>3, <1>4

\* What is known where a pipeline ends: one token is pending, and it is taken
\* unless it is the right parenthesis.
LEMMA AtEndOfPipeline ==
    ASSUME OInv, IInv, PipelineEnds
    PROVE  /\ Running /\ result = "running" /\ ~Refused(T, at) /\ held = <<>> /\ held' = <<>>
           /\ UNCHANGED lexVars /\ UNCHANGED received /\ result' = result
           /\ Good(T, held, "commands", Len(pipes)) /\ T.peekCount = 1 /\ Len(pipes) \in Nat
           /\ IsSeq(pipes') /\ Len(pipes') = Len(pipes) - 1
           /\ Len(pipes) >= 1 /\ parenDepth = Len(pipes) - 1 + Net(T)
           /\ \/ Rest = next(T) /\ Rest.peekCount = 0 /\ Net(T) = 0
              \/ Rest = T /\ T.token[0].typ = "RightParen"
  <1>1. /\ Parsing("commands") /\ Cur.typ \in {"RightDelim", "RightParen"} /\ pipes' = Front(pipes)
        /\ UNCHANGED lexVars /\ UNCHANGED received /\ result' = result /\ held' = held
    BY DEF PipelineEnds
  <1>2. /\ Running /\ result = "running" /\ ~Refused(T, at) /\ IsSeq(pipes)
        /\ Good(T, held, "commands", Len(pipes)) /\ Cur = T.token[T.peekCount - 1]
        /\ T.peekCount \in 1 .. 3 /\ next(T).peekCount = T.peekCount - 1
    BY <1>1, AtToken
  <1>3. T.peekCount = 1 /\ held = <<>>
    BY <1>1, <1>2 DEF Good, Counted, Holds
  <1>4. Len(pipes) \in Nat /\ Len(pipes) >= 1 /\ parenDepth = Len(pipes) - 1 + Net(T)
    BY <1>2, SeqBasics DEF Good, Parens, InPipeline
  <1>5. IsSeq(pipes') /\ Len(pipes') = Len(pipes) - 1
    <2>1. PICK n \in Nat : n = Len(pipes) - 1 /\ n <= Len(pipes)
      BY <1>4
    <2>2. PICK q : q = SubSeq(pipes, 1, n)
      OBVIOUS
    <2>3. pipes' = q
      BY <1>1, <2>1, <2>2 DEF Front
    <2>4. IsSeq(q) /\ Len(q) = n
      BY <1>2, <2>1, <2>2, Cutting
    <2> QED
      BY <2>1, <2>3, <2>4
  <1>6. \/ Rest = next(T) /\ Rest.peekCount = 0 /\ Net(T) = 0
        \/ Rest = T /\ T.token[0].typ = "RightParen"
    <2>1. CASE Cur.typ = "RightDelim"
      BY <1>2, <1>3, <2>1 DEF Rest, Net, Weight
    <2>2. CASE Cur.typ = "RightParen"
      BY <1>2, <1>3, <2>2 DEF Rest
    <2> QED
      BY <1>1, <2>1, <2>2
  <1> QED
    BY <1>1, <1>2, <1>3, <1>4, <1>5, <1>6

LEMMA PipelineEndsOrder ==
    ASSUME OInv, IInv, ParenPipeline \/ ActionNode \/ ControlNode
    PROVE  OInv'
  <1>1. PipelineEnds /\ SetRest
    BY DEF ParenPipeline, ActionNode, ControlNode
  <1>2. PICK m \in Nat : m = Len(pipes) /\ Len(pipes') = m - 1
    BY <1>1, AtEndOfPipeline
  <1>3. /\ Running /\ result = "running" /\ ~Refused(T, at) /\ held' = <<>> /\ IsSeq(pipes')
        /\ UNCHANGED lexVars /\ UNCHANGED received /\ result' = result
        /\ Good(T, held, "commands", Len(pipes)) /\ T.peekCount = 1
        /\ parenDepth = m - 1 + Net(T)
        /\ \/ Rest = next(T) /\ Rest.peekCount = 0 /\ Net(T) = 0
           \/ Rest = T /\ T.token[0].typ = "RightParen"
    BY <1>1, <1>2, AtEndOfPipeline
  <1>4. PICK u : u = Rest
    OBVIOUS
  <1>5. CASE ActionNode \/ ControlNode
    <2>1. Go(u, "loop")
      BY <1>3, <1>4, <1>5 DEF ActionNode, ControlNode, SetRest, Go
    <2>2. Good(u, held', "loop", Len(pipes'))
      <3>1. CASE u.peekCount = 0
        BY <1>3, <3>1, GoodPlain DEF Plainest
      <3>2. CASE u = T
        BY <1>3, <3>2, GoodKept DEF Plainest
      <3> QED
        BY <1>3, <1>4, <3>1, <3>2
    <2> QED
      BY <1>3, <2>1, <2>2, GoOrder
  <1>6. CASE ParenPipeline
    <2>1. Go(u, "rightParen") /\ m > 1
      BY <1>2, <1>3, <1>4, <1>6 DEF ParenPipeline, SetRest, Go
    <2>2. Counted(u, "rightParen") /\ Numbered(u)
      BY <1>3, <1>4 DEF Good, Counted, Numbered
    <2>3. Holds(u, held', "rightParen")
      BY <1>3 DEF Holds
    <2>4. PICK k \in Nat : k = m - 1 /\ k >= 1
      BY <2>1
    <2>5. Net(u) = Net(T)
      BY <1>3, <1>4 DEF Net
    <2>6. Parens(u, "rightParen", Len(pipes'))
      BY <1>2, <1>3, <2>4, <2>5 DEF Parens, BeforePipeline, InPipeline
    <2> QED
      BY <1>3, <2>1, <2>2, <2>3, <2>6, GoOrder DEF Good
  <1> QED
    BY <1>5, <1>6

\* A right parenthesis that is left in the Tree is one too many, and the
\* lexer has found that out.
LEMMA BlockTreeOrder ==
    ASSUME OInv, IInv, BlockTree
    PROVE  OInv'
  <1>1. /\ PipelineEnds /\ Len(pipes) = 1 /\ at' = "loop"
        /\ trees' = Append([trees EXCEPT ![Len(trees)] = Rest], NewTree(P.name))
    BY DEF BlockTree
  <1>2. /\ Running /\ result = "running" /\ ~Refused(T, at) /\ held' = <<>> /\ IsSeq(pipes')
        /\ UNCHANGED lexVars /\ UNCHANGED received /\ result' = result
        /\ Good(T, held, "commands", Len(pipes)) /\ T.peekCount = 1
        /\ parenDepth = Len(pipes) - 1 + Net(T)
        /\ \/ Rest.peekCount = 0
           \/ Rest = T /\ T.token[0].typ = "RightParen"
    BY <1>1, AtEndOfPipeline
  <1>3. T.token[0].typ = "RightParen" => lexState = "lexBadParen"
    <2>1. SUFFICES ASSUME T.token[0].typ = "RightParen" PROVE lexState = "lexBadParen"
      OBVIOUS
    <2>2. parenDepth = -1
      BY <1>1, <1>2, <2>1 DEF Net, Weight
    <2>3. lexState \in {"lexInsideAction", "lexBadParen"}
      BY <1>2, <2>1 DEF Good, Numbered, Lexed
    <2> QED
      BY <2>2, <2>3 DEF OInv, LexOK
  <1>4. PICK u, x : u = Rest /\ x = P.name
    OBVIOUS
  <1>5. u.peekCount = 0 \/ (lexState = "lexBadParen" /\ u.token[0].typ = "RightParen")
    BY <1>2, <1>3, <1>4
  <1>6. trees' = Append([trees EXCEPT ![Len(trees)] = u], NewTree(x))
    BY <1>1, <1>4
  <1> QED
    BY <1>1, <1>2, <1>5, <1>6, GrowOrder

-----------------------------------------------------------------------------
(* Commands and their operands.                                            *)

LEMMA OperandsAre ==
    /\ "RightParen" \notin Operands /\ "Variable" \in Operands
    /\ \A x : x.typ \in Operands \ {"LeftParen"} => Weight(x) = 0
  BY DEF Operands, Literals, Weight

LEMMA TermOrder ==
    ASSUME OInv, IInv, FirstOperand \/ Term \/ NoTerm
    PROVE  OInv'
  <1>1. PICK l \in {"commands", "term"} : Parsing(l)
    BY DEF FirstOperand, Term, NoTerm
  <1>2. /\ OInv /\ result = "running" /\ IsTree(T) /\ IsTree(next(T)) /\ T.peekCount \in 1 .. 3
        /\ next(T).peekCount = T.peekCount - 1 /\ Counted(T, l) /\ Cur = T.token[T.peekCount - 1]
        /\ \A j \in 0 .. 2 : j # T.peekCount - 1 => next(T).token[j] = T.token[j]
    BY <1>1, AtToken DEF Good
  <1>3. l \in Commands
    BY DEF Commands
  <1>4. CASE FirstOperand
    <2>1. Go(T, "term") /\ pipes' = pipes /\ held' = held
      BY <1>4 DEF FirstOperand
    <2>2. Alike(T, T) /\ Counted(T, "term")
      BY <1>2 DEF Alike, Counted
    <2> QED
      BY <1>1, <1>2, <1>3, <2>1, <2>2, PipesSeq, CommandOrder DEF Commands
  <1>5. CASE Term
    <2>1. Cur.typ \in Operands \ {"LeftParen"} /\ held' = held
      BY <1>5 DEF Term
    <2>2. Weight(Cur) = 0
      BY <2>1, OperandsAre, Zenon
    <2>3. PICK p : SetPipe(p)
      BY <1>5 DEF Term
    <2>4. IsSeq(pipes') /\ Len(pipes') = Len(pipes)
      BY <1>2, <2>3, PipesReplaced
    <2>5. PICK u : Go(u, "chain") /\ Alike(u, next(T))
      <3>1. CASE Cur.typ = "Variable"
        <4>1. PICK w : w = next(T)
          OBVIOUS
        <4>2. PICK v : v = Used(w.vars, Cur.val)
          OBVIOUS
        <4>3. Go([w EXCEPT !.vars = v], "chain")
          BY <1>5, <3>1, <4>1, <4>2 DEF Term
        <4>4. Alike([w EXCEPT !.vars = v], w)
          BY <1>2, <4>1, NamedAlike
        <4> QED
          BY <4>1, <4>3, <4>4
      <3>2. CASE Cur.typ # "Variable"
        BY <1>2, <1>5, <3>2, AlikeItself DEF Term
      <3> QED
        BY <3>1, <3>2
    <2>6. Counted(u, "chain")
      BY <1>2, <2>5 DEF Counted, Alike
    <2> QED
      BY <1>1, <1>3, <2>1, <2>2, <2>4, <2>5, <2>6, CommandOrder DEF Commands
  <1>6. CASE NoTerm
    <2>1. Go(T, "afterOperand") /\ pipes' = pipes /\ held' = held /\ Cur.typ \notin Operands
      BY <1>6 DEF NoTerm
    <2>2. Cur.typ # "Variable"
      BY <2>1, OperandsAre, Zenon
    <2>3. Alike(T, T) /\ Counted(T, "afterOperand")
      BY <1>2, <2>2 DEF Alike, Counted
    <2> QED
      BY <1>1, <1>2, <1>3, <2>1, <2>3, PipesSeq, CommandOrder DEF Commands
  <1> QED
    BY <1>4, <1>5, <1>6

LEMMA OperandOrder ==
    ASSUME OInv, IInv, Chain \/ NextOperand \/ CommandEnds
    PROVE  OInv'
  <1>1. PICK l \in {"chain", "afterOperand"} : Parsing(l)
    BY DEF Chain, NextOperand, CommandEnds
  <1>2. /\ OInv /\ result = "running" /\ IsTree(T) /\ IsTree(next(T)) /\ T.peekCount \in 1 .. 3
        /\ next(T).peekCount = T.peekCount - 1 /\ Counted(T, l) /\ Cur = T.token[T.peekCount - 1]
        /\ \A j \in 0 .. 2 : j # T.peekCount - 1 => next(T).token[j] = T.token[j]
    BY <1>1, AtToken DEF Good
  <1>3. l \in Commands /\ Alike(T, T) /\ Alike(next(T), next(T))
    BY <1>2, AlikeItself DEF Commands
  <1>4. held' = held /\ IsSeq(pipes') /\ Len(pipes') = Len(pipes)
    BY <1>2, PipesSeq, PipesReplaced DEF Chain, NextOperand, CommandEnds
  <1>5. PICK u, k : /\ Go(u, k) /\ k \in {"chain", "afterOperand", "term", "commands"}
                    /\ Counted(u, k) /\ (u = T \/ (u = next(T) /\ Weight(Cur) = 0))
    <2>1. CASE Chain
      <3>1. CASE Cur.typ = "Field"
        <4>1. Go(next(T), "chain") /\ Weight(Cur) = 0
          BY <2>1, <3>1 DEF Chain, Weight
        <4>2. Counted(next(T), "chain")
          BY <1>2 DEF Counted
        <4> QED
          BY <4>1, <4>2
      <3>2. CASE Cur.typ # "Field"
        <4>1. Go(T, "afterOperand")
          BY <2>1, <3>2 DEF Chain
        <4>2. Counted(T, "afterOperand")
          BY <1>2 DEF Counted
        <4> QED
          BY <4>1, <4>2
      <3> QED
        BY <3>1, <3>2
    <2>2. CASE NextOperand
      <3>1. Go(next(T), "term") /\ Weight(Cur) = 0
        BY <2>2 DEF NextOperand, Weight
      <3>2. Counted(next(T), "term")
        BY <1>2 DEF Counted
      <3> QED
        BY <3>1, <3>2
    <2>3. CASE CommandEnds
      <3>1. Cur.typ # "Space" /\ (Go(T, "commands") \/ (Go(next(T), "commands") /\ Weight(Cur) = 0))
        BY <2>3 DEF CommandEnds, Weight
      <3>2. Counted(T, "commands") /\ Counted(next(T), "commands")
        BY <1>2, <3>1 DEF Counted
      <3> QED
        BY <3>1, <3>2
    <2> QED
      BY <2>1, <2>2, <2>3
  <1>6. Alike(u, T) \/ (Alike(u, next(T)) /\ Weight(Cur) = 0)
    BY <1>3, <1>5
  <1> QED
    BY <1>1, <1>3, <1>4, <1>5, <1>6, CommandOrder DEF Commands

\* A parenthesis taken is one more pipeline, or one that has ended.
LEMMA ParensOrder ==
    ASSUME OInv, IInv, Paren \/ RightParen
    PROVE  OInv'
  <1>1. CASE Paren
    <2>1. Parsing("term") /\ Cur.typ = "LeftParen" /\ held' = held /\ Go(next(T), "pipeline")
      BY <1>1 DEF Paren
    <2>2. PICK x : pipes' = Append(pipes, x)
      BY <1>1 DEF Paren
    <2>3. /\ Running /\ result = "running" /\ ~Refused(T, at) /\ IsSeq(pipes)
          /\ Good(T, held, "term", Len(pipes)) /\ T.peekCount \in 1 .. 3
          /\ next(T).peekCount = T.peekCount - 1 /\ Cur = T.token[T.peekCount - 1]
      BY <2>1, AtToken
    <2>4. T.peekCount = 1 /\ held = <<>>
      BY <2>1, <2>3 DEF Good, Counted, Holds
    <2>5. PICK m \in Nat : m = Len(pipes) /\ m >= 1 /\ parenDepth = m
      BY <2>1, <2>3, <2>4, SeqBasics DEF Good, Parens, InPipeline, Net, Weight
    <2>6. IsSeq(pipes') /\ Len(pipes') = m + 1
      BY <2>2, <2>3, <2>5, Appending
    <2>7. PICK u : u = next(T) /\ u.peekCount = 0
      BY <2>3, <2>4
    <2>8. Counted(u, "pipeline") /\ Numbered(u) /\ Holds(u, held', "pipeline")
      BY <2>1, <2>4, <2>7 DEF Counted, Numbered, Holds
    <2>9. Parens(u, "pipeline", Len(pipes'))
      BY <2>5, <2>6, <2>7 DEF Parens, BeforePipeline, Net
    <2> QED
      BY <2>1, <2>3, <2>6, <2>7, <2>8, <2>9, GoOrder DEF Good
  <1>2. CASE RightParen /\ ~Fail
    <2>1. Parsing("rightParen") /\ Cur.typ = "RightParen" /\ held' = held /\ Go(next(T), "chain")
      BY <1>2 DEF RightParen
    <2>2. PICK p : SetPipe(p)
      BY <1>2 DEF RightParen
    <2>3. /\ Running /\ result = "running" /\ ~Refused(T, at) /\ IsSeq(pipes)
          /\ Good(T, held, "rightParen", Len(pipes)) /\ T.peekCount = 1
          /\ next(T).peekCount = 0 /\ Cur = T.token[0]
      BY <2>1, AtToken, OneToken
    <2>4. PICK m \in Nat : m = Len(pipes) /\ m >= 1 /\ parenDepth = m - 1
      BY <2>1, <2>3, SeqBasics DEF Good, Parens, Net, Weight
    <2>5. IsSeq(pipes') /\ Len(pipes') = m
      BY <2>2, <2>3, <2>4, PipesReplaced
    <2>6. PICK u : u = next(T) /\ u.peekCount = 0
      BY <2>3
    <2>7. Counted(u, "chain") /\ Numbered(u) /\ Holds(u, held', "chain")
      BY <2>1, <2>3, <2>6 DEF Counted, Numbered, Holds, Good
    <2>8. Parens(u, "chain", Len(pipes'))
      BY <2>4, <2>5, <2>6 DEF Parens, BeforePipeline, Net
    <2> QED
      BY <2>1, <2>3, <2>5, <2>6, <2>7, <2>8, GoOrder DEF Good
  <1>3. CASE Fail
    BY <1>3, OrderFails
  <1> QED
    BY <1>1, <1>2, <1>3

-----------------------------------------------------------------------------

LEMMA InitOInv == ASSUME Init PROVE OInv
  <1>1. PICK t : t = NewTree(MainName) /\ t.peekCount = 0
    BY NewTreeFields
  <1>2. IsSeq(trees) /\ Len(trees) = 1 /\ trees[1] = t /\ IsSeq(pipes)
    BY <1>1, OneIsSeq, EmptyIsSeq DEF Init
  <1>3. T.peekCount = 0
    BY <1>1, <1>2, SeqBasics DEF T
  <1>4. Good(T, held, at, Len(pipes))
    BY <1>3, GoodPlain DEF Init, Plainest
  <1>5. Suspended
    BY <1>2 DEF Suspended
  <1> QED
    BY <1>2, <1>4, <1>5 DEF Init, LexInit, OInv, LexOK, Order

LEMMA NextOInv == ASSUME OInv, IInv, [Next]_vars PROVE OInv'
  <1>1. CASE UNCHANGED vars
    <2>1. UNCHANGED <<lexVars, lexState, parenDepth, atWord, sent, trees, pipes, at, held, received, result>>
      BY <1>1 DEF vars, lexVars, parseVars
    <2>2. T' = T
      BY <2>1 DEF T
    <2> QED
      BY <2>1, <2>2 DEF OInv, LexOK, Order, Good, Counted, Numbered, Lexed, Follows, Holds, Awaits,
                        Parens, Net, Weight, Suspended, Refused
  <1>2. CASE Lex
    BY <1>2, LexOInv
  <1>3. CASE Done
    BY <1>1, <1>3 DEF Done
  <1>4. CASE ParseNext
    <2>1. CASE Receive \/ SkipSpace \/ ParseEOF \/ Recover
      BY <2>1, ReceiveOrder, SkipSpaceOrder, EndOfParseOrder
    <2>2. CASE \/ UnexpectedEOF \/ BadName \/ BadPipeline \/ BadTerm \/ BadChain \/ BadCommand
      BY <2>2, OrderFails DEF UnexpectedEOF, BadName, BadPipeline, BadTerm, BadChain, BadCommand
    <2>3. CASE ParseLeftDelim \/ NotDefine \/ Define \/ DefineName \/ DefineDelim
      BY <2>3, ParseLeftDelimOrder, NotDefineOrder, DefineOrder, DefinitionOrder
    <2>4. CASE Text \/ LeftDelim \/ UnexpectedInput \/ Control \/ Clause \/ Command \/ Try
      BY <2>4, NodesOrder, KeywordsOrder
    <2>5. CASE BlockName \/ TemplateName \/ TemplatePipe \/ EndControl \/ ElseControl \/ CatchControl
      BY <2>5, NamesOrder, DelimitersOrder
    <2>6. CASE TopLevelEnd \/ TopLevelCatch \/ NoEndOfDefinition \/ NoEnd \/ MissingCatch \/ Catch
      BY <2>6, RestartOrder
    <2>7. CASE EndDefinition \/ EndIf \/ EndCatch \/ ElseIf \/ ElseIfIf \/ Else
      BY <2>7, EndDefinitionOrder, CloseOrder, ElseOrder
    <2>8. CASE Pipeline \/ AfterVariable \/ Declaration \/ TooManyDeclarations \/ NoDeclaration
      BY <2>8, PipelineOrder, AfterVariableOrder, DeclarationsOrder
    <2>9. CASE ParenPipeline \/ ActionNode \/ ControlNode \/ BlockTree
      BY <2>9, PipelineEndsOrder, BlockTreeOrder
    <2>10. CASE FirstOperand \/ Term \/ NoTerm \/ Paren \/ RightParen \/ Chain \/ NextOperand \/ CommandEnds
      BY <2>10, TermOrder, ParensOrder, OperandOrder
    <2> QED
      BY <1>4, <2>1, <2>2, <2>3, <2>4, <2>5, <2>6, <2>7, <2>8, <2>9, <2>10, Zenon DEF ParseNext
  <1> QED
    BY <1>1, <1>2, <1>3, <1>4 DEF Next

-----------------------------------------------------------------------------
(* What the invariant says of the tokens that are still unread.            *)

LEMMA PendingIs ==
    ASSUME OInv, IInv, result = "running"
    PROVE  /\ T.peekCount \in 0 .. 3
           /\ \E p : /\ IsSeq(p) /\ Len(p) = T.peekCount
                     /\ p = [j \in 1 .. T.peekCount |-> T.token[T.peekCount - j]]
                     /\ \A j \in 1 .. T.peekCount : p[j] = T.token[T.peekCount - j]
  <1>1. IsTree(T) /\ T.peekCount \in 0 .. 3
    BY CurrentTree, TreeFields DEF IInv
  <1>2. PICK k \in 0 .. 3 : k = T.peekCount
    BY <1>1
  <1>3. PICK B : T.token \in [0 .. 2 -> B]
    BY <1>1, TreeFields
  <1>4. PICK p : p = [j \in 1 .. k |-> T.token[k - j]]
    OBVIOUS
  <1>5. \A j \in 1 .. k : T.token[k - j] \in B
    BY <1>2, <1>3
  <1>6. p \in Seq(B) /\ Len(p) = k /\ \A j \in 1 .. k : p[j] = T.token[k - j]
    BY <1>4, <1>5
  <1> QED
    BY <1>1, <1>2, <1>4, <1>6, Zenon DEF IsSeq

\* Held tokens are followed by at most one that is pending.
LEMMA HeldIs ==
    ASSUME OInv, IInv, result = "running"
    PROVE  /\ IsSeq(held) /\ Len(held) \in 0 .. 2
           /\ Len(held) > 0 => T.peekCount <= 1
           /\ Len(held) = 1 /\ T.peekCount = 1 => Follows(held[1], T.token[0])
           /\ Len(held) = 2 => held[2].n = held[1].n + 1
           /\ Len(held) = 2 /\ T.peekCount = 1 => Follows(held[2], T.token[0])
  <1>1. /\ Counted(T, at) /\ Holds(T, held, at) /\ T.peekCount \in 0 .. 3
    BY PendingIs DEF OInv, Order, Good
  <1>2. CASE held = <<>>
    BY <1>2, EmptyIsSeq
  <1>3. CASE held = <<held[1]>>
    <2>1. IsSeq(held) /\ Len(held) = 1
      BY <1>3, OneIsSeq
    <2>2. at \in {"define?", "afterVariable", "declaration"} /\ T.peekCount <= 1
      <3>1. held # <<>>
        BY <2>1, EmptyIsSeq
      <3> QED
        BY <1>1, <3>1 DEF Holds, Counted
    <2>3. ASSUME T.peekCount = 1 PROVE Follows(held[1], T.token[0])
      BY <1>1, <2>1, <2>2, <2>3 DEF Holds, Awaits, Follows
    <2> QED
      BY <2>1, <2>2, <2>3
  <1>4. CASE held = <<held[1], held[2]>> /\ Len(held) = 2 /\ held # <<held[1]>>
    <2>1. IsSeq(held)
      <3>1. PICK x, y : x = held[1] /\ y = held[2]
        OBVIOUS
      <3>2. PICK S : S = {x, y}
        OBVIOUS
      <3>3. x \in S /\ y \in S
        BY <3>2
      <3>4. <<x, y>> \in Seq(S)
        BY <3>3
      <3> QED
        BY <1>4, <3>1, <3>4, Zenon DEF IsSeq
    <2>2. at = "declaration" /\ T.peekCount <= 1
      <3>1. held # <<>>
        BY <1>4, EmptyIsSeq
      <3>2. at \in {"define?", "afterVariable", "declaration"}
        BY <1>1, <3>1 DEF Holds
      <3>3. at # "define?" /\ at # "afterVariable"
        BY <1>1, <1>4 DEF Holds
      <3> QED
        BY <1>1, <3>2, <3>3 DEF Counted
    <2>3. held[2].n = held[1].n + 1 /\ Awaits(T, held[2].n, TRUE)
      BY <1>1, <1>4, <2>2 DEF Holds
    <2>4. T.peekCount = 1 => Follows(held[2], T.token[0])
      BY <2>3 DEF Awaits, Follows
    <2> QED
      BY <1>4, <2>1, <2>2, <2>3, <2>4
  <1> QED
    BY <1>1, <1>2, <1>3, <1>4 DEF Holds

LEMMA OrderGivesInOrder == ASSUME OInv, IInv PROVE InOrder
  <1> SUFFICES ASSUME result = "running"
               PROVE  /\ T.peekCount > 0 => Last(Unread).n = received
                      /\ \A j \in 1 .. Len(Unread) - 1 :
                            \/ Unread[j + 1].n = Unread[j].n + 1
                            \/ Unread[j + 1].n = Unread[j].n + 2 /\ Unread[j].typ = "LeftDelim"
                      /\ \A i \in 1 .. Len(trees) - 1 :
                            trees[i].peekCount > 0 => trees[i].token[0].typ = "RightParen"
                      /\ at = "End" => T.peekCount = 0
    BY DEF InOrder
  <1>1. Counted(T, at) /\ Numbered(T) /\ Suspended
    BY DEF OInv, Order, Good
  <1>2. PICK k \in 0 .. 3 : k = T.peekCount
    BY PendingIs
  <1>3. PICK p : /\ IsSeq(p) /\ Len(p) = k /\ p = [j \in 1 .. T.peekCount |-> T.token[T.peekCount - j]]
                 /\ \A j \in 1 .. k : p[j] = T.token[k - j]
    <2>1. PICK p : /\ IsSeq(p) /\ Len(p) = T.peekCount
                   /\ p = [j \in 1 .. T.peekCount |-> T.token[T.peekCount - j]]
                   /\ \A j \in 1 .. T.peekCount : p[j] = T.token[T.peekCount - j]
      BY PendingIs, Zenon
    <2> QED
      BY <1>2, <2>1, Zenon
  <1>4. PICK h \in 0 .. 2 :
           /\ h = Len(held) /\ IsSeq(held) /\ (h > 0 => k <= 1)
           /\ h = 1 /\ k = 1 => Follows(held[1], T.token[0])
           /\ h = 2 => held[2].n = held[1].n + 1
           /\ h = 2 /\ k = 1 => Follows(held[2], T.token[0])
    <2>1. PICK h \in 0 .. 2 : h = Len(held)
      BY HeldIs
    <2>2. /\ IsSeq(held) /\ (h > 0 => k <= 1)
          /\ h = 1 /\ k = 1 => Follows(held[1], T.token[0])
          /\ h = 2 => held[2].n = held[1].n + 1
          /\ h = 2 /\ k = 1 => Follows(held[2], T.token[0])
      BY <1>2, <2>1, HeldIs
    <2> QED
      BY <2>1, <2>2, Zenon
  <1>5. PICK u : u = Unread /\ u = held \o p
    BY <1>3, Zenon DEF Unread
  <1>6. /\ IsSeq(u) /\ Len(u) = h + k
        /\ \A i \in 1 .. h + k : u[i] = IF i <= h THEN held[i] ELSE p[i - h]
        /\ \A j \in 1 .. k : p[j] = T.token[k - j]
    <2>1. /\ IsSeq(u) /\ Len(u) = Len(held) + Len(p)
          /\ \A i \in 1 .. Len(held) + Len(p) :
                u[i] = IF i <= Len(held) THEN held[i] ELSE p[i - Len(held)]
      <3>1. IsSeq(held) /\ IsSeq(p)
        BY <1>3, <1>4, Zenon
      <3>2. u = held \o p
        BY <1>5, Zenon
      <3> QED
        BY <3>1, <3>2, Joining
    <2>2. Len(held) = h /\ Len(p) = k /\ \A j \in 1 .. k : p[j] = T.token[k - j]
      BY <1>3, <1>4, Zenon
    <2> QED
      BY <2>1, <2>2
  <1>7. T.peekCount > 0 => Last(u).n = received
    <2> SUFFICES ASSUME T.peekCount > 0 PROVE Last(u).n = received
      OBVIOUS
    <2>1. Last(u) = u[h + k]
      BY <1>6, SeqBasics
    <2>2. u[h + k] = p[k] /\ p[k] = T.token[0]
      <3>1. k \in 1 .. k /\ h + k \in 1 .. h + k /\ ~(h + k <= h) /\ (h + k) - h = k /\ k - k = 0
        BY <1>2
      <3> QED
        BY <1>6, <3>1
    <2> QED
      BY <1>1, <1>2, <2>1, <2>2 DEF Numbered
  <1>8. ASSUME NEW j \in 1 .. (h + k) - 1 PROVE Follows(u[j], u[j + 1])
    <2>1. CASE h = 0
      <3>1. u[j] = T.token[k - j] /\ u[j + 1] = T.token[k - (j + 1)]
        BY <1>6, <2>1
      <3> QED
        BY <1>1, <1>2, <2>1, <3>1 DEF Numbered
    <2>2. CASE h = 1
      <3>1. k = 1 /\ j = 1
        BY <1>4, <2>2
      <3>2. u[1] = held[1] /\ u[2] = p[1] /\ p[1] = T.token[0]
        BY <1>6, <2>2, <3>1
      <3> QED
        BY <1>4, <2>2, <3>1, <3>2
    <2>3. CASE h = 2
      <3>1. u[1] = held[1] /\ u[2] = held[2]
        BY <1>6, <2>3
      <3>2. CASE j = 1
        BY <1>4, <2>3, <3>1, <3>2 DEF Follows
      <3>3. CASE j = 2
        <4>1. k = 1
          BY <1>4, <2>3, <3>3
        <4>2. u[3] = p[1] /\ p[1] = T.token[0]
          BY <1>6, <2>3, <4>1
        <4> QED
          BY <1>4, <2>3, <3>1, <3>3, <4>1, <4>2
      <3> QED
        BY <1>4, <2>3, <3>2, <3>3
    <2> QED
      BY <2>1, <2>2, <2>3
  <1>9. \A i \in 1 .. Len(trees) - 1 :
           trees[i].peekCount > 0 => trees[i].token[0].typ = "RightParen"
    BY <1>1 DEF Suspended
  <1>10. at = "End" => T.peekCount = 0
    BY <1>1 DEF Counted
  <1> QED
    BY <1>5, <1>6, <1>7, <1>8, <1>9, <1>10 DEF Follows

\* InOrder: whatever the text, the look-ahead of the Trees (parse.go next,
\* peek, backup2, backup3, and parseDefinition and blockControl, which go on
\* in a new Tree) neither loses a token nor reads it twice or out of order.
THEOREM TokensInOrder == Spec => []InOrder
  <1>1. Init => IInv /\ OInv
    BY InitIInv, InitOInv
  <1>2. IInv /\ OInv /\ [Next]_vars => (IInv /\ OInv)'
    BY NextIInv, NextOInv
  <1>3. IInv /\ OInv => InOrder
    BY OrderGivesInOrder
  <1> QED
    BY <1>1, <1>2, <1>3, PTL DEF Spec

-----------------------------------------------------------------------------
(* Types.                                                                  *)

TokenOK(x) ==
    /\ x.typ \in ItemTypes
    /\ x.typ = "Variable" => x.val \in Variables
    /\ x.typ = "String" => x.val \in Strings
TreeOK(t) ==
    /\ t.name \in TreeNames /\ t.vars \in Seq({"$"} \cup Variables)
    /\ \A j \in 0 .. 2 : TokenOK(t.token[j])
TokensOK(h) == \A i \in 1 .. Len(h) : TokenOK(h[i])

PipeSet(A, B, C, D, E, F) ==
    [ctx : A, name : TreeNames, decls : B, cmds : C, first : D, last : E, bad : F]
PipeOK(p) == \E A, B, C, D, E, F : p \in PipeSet(A, B, C, D, E, F)
PipesOK(s) == IsSeq(s) /\ \A i \in 1 .. Len(s) : PipeOK(s[i])

\* The lists whose end undoes declarations.  Where one was opened no fewer
\* variables were known than where those around it in its Tree were, and no
\* more than are known now: so popVars never asks for more than there are.
Popped == {"if", "range", "with", "else"}
Kept(o, ts, d) ==
    /\ \A i \in 1 .. Len(o) :
          /\ o[i].class \in Classes
          /\ o[i].vars \in Nat /\ o[i].vars <= Len(ts[d[i]].vars)
    /\ \A i, j \in 1 .. Len(o) : i <= j => d[i] <= d[j]
    /\ \A i, j \in 1 .. Len(o) :
          i <= j /\ d[i] = d[j] /\ o[j].what \in Popped => o[i].vars <= o[j].vars
Fits(o, ts, n) == \E d : Nested(o, d) /\ d[Len(o)] = n /\ Kept(o, ts, d)

Typed ==
    /\ \A i \in 1 .. Len(trees) : TreeOK(trees[i])
    /\ TokensOK(held) /\ PipesOK(pipes)
    /\ Fits(open, trees, IF at \in Headers THEN Len(trees) - 1 ELSE Len(trees))
TInv ==
    /\ LexTypeOK
    /\ treeSet \in [TreeNames -> Classes \cup {"none"}]
    /\ result \in {"running", "failed", "panicking", "ok", "error", "panic", "runtime error"}
    /\ IF result = "running" THEN Typed ELSE trees = <<>>

-----------------------------------------------------------------------------
(* Lists and variables.                                                    *)

LEMMA FitsFacts ==
    ASSUME NEW o, NEW ts, NEW n, Fits(o, ts, n)
    PROVE  /\ Depth(o, n) /\ n \in Nat /\ n >= 1 /\ Len(o) \in Nat /\ Len(o) >= 1 /\ IsSeq(o)
           /\ IsList(o[Len(o)])
           /\ o[Len(o)].class \in Classes /\ o[Len(o)].vars \in Nat
  <1>1. PICK d : Nested(o, d) /\ d[Len(o)] = n /\ Kept(o, ts, d)
    BY DEF Fits
  <1>2. Depth(o, n)
    BY <1>1 DEF Depth
  <1>3. n \in Nat /\ n >= 1 /\ Len(o) \in Nat /\ Len(o) >= 1 /\ IsSeq(o) /\ IsList(o[Len(o)])
    BY <1>2, DepthFacts
  <1> QED
    BY <1>1, <1>2, <1>3 DEF Kept

LEMMA DepthsUpTo ==
    ASSUME NEW o, NEW ts, NEW d, Nested(o, d), Kept(o, ts, d), NEW i \in 1 .. Len(o)
    PROVE  d[i] \in 1 .. d[Len(o)]
  <1>1. PICK m \in Nat : m = Len(o)
    BY SeqBasics DEF Nested
  <1>2. d[i] \in Nat /\ d[i] >= 1 /\ d[m] \in Nat
    BY <1>1 DEF Nested
  <1>3. d[i] <= d[m]
    BY <1>1 DEF Kept
  <1> QED
    BY <1>1, <1>2, <1>3

\* More variables are known now.
LEMMA FitsGrows ==
    ASSUME NEW o, NEW ts, NEW us, NEW n, Fits(o, ts, n),
           \A i \in 1 .. n : /\ Len(ts[i].vars) \in Nat /\ Len(us[i].vars) \in Nat
                             /\ Len(ts[i].vars) <= Len(us[i].vars)
    PROVE  Fits(o, us, n)
  <1>1. PICK d : Nested(o, d) /\ d[Len(o)] = n /\ Kept(o, ts, d)
    BY DEF Fits
  <1>2. PICK m \in Nat : m = Len(o) /\ m >= 1
    BY FitsFacts
  <1>3. n \in Nat /\ \A i \in 1 .. m : d[i] \in 1 .. n
    BY <1>1, <1>2, DepthsUpTo, FitsFacts
  <1>4. ASSUME NEW i \in 1 .. m PROVE o[i].vars <= Len(us[d[i]].vars)
    <2>1. o[i].vars \in Nat /\ o[i].vars <= Len(ts[d[i]].vars)
      BY <1>1, <1>2 DEF Kept
    <2>2. PICK j \in 1 .. n : j = d[i]
      BY <1>3
    <2>3. Len(ts[j].vars) \in Nat /\ Len(us[j].vars) \in Nat /\ Len(ts[j].vars) <= Len(us[j].vars)
      OBVIOUS
    <2> QED
      BY <2>1, <2>2, <2>3
  <1>5. Kept(o, us, d)
    BY <1>1, <1>2, <1>4 DEF Kept
  <1> QED
    BY <1>1, <1>5 DEF Fits

\* A list is put on top, in the same Tree or in a new one.
LEMMA FitsAppend ==
    ASSUME NEW o, NEW ts, NEW n, Fits(o, ts, n), NEW l, IsList(l), l.class \in Classes,
           l.elseIf => l.what \in {"if", "else"} /\ o[Len(o)].what = "if",
           l.vars \in Nat, NEW k, k = IF l.what \in Own THEN n + 1 ELSE n,
           Len(ts[n].vars) \in Nat, Len(ts[k].vars) \in Nat,
           l.vars = IF l.what \in Popped THEN Len(ts[n].vars) ELSE 0
    PROVE  Fits(Append(o, l), ts, k)
  <1>1. PICK d : Nested(o, d) /\ d[Len(o)] = n /\ Kept(o, ts, d)
    BY DEF Fits
  <1>2. PICK m \in Nat : m = Len(o) /\ m >= 1 /\ IsSeq(o)
    BY FitsFacts
  <1>3. PICK p : p = Append(o, l)
    OBVIOUS
  <1>4. /\ IsSeq(p) /\ Len(p) = m + 1 /\ p[m + 1] = l
        /\ \A i \in 1 .. m : p[i] = o[i]
    BY <1>2, <1>3, Appending
  <1>5. PICK e : e = Deeper(o, d, l)
    OBVIOUS
  <1>6. Nested(p, e)
    BY <1>1, <1>3, <1>5, NestedAppend
  <1>7. n \in Nat /\ e[m + 1] = k /\ (\A i \in 1 .. m : e[i] = d[i] /\ d[i] \in Nat /\ d[i] <= n)
    <2>1. n \in Nat /\ \A i \in 1 .. m : d[i] \in 1 .. n
      BY <1>1, <1>2, DepthsUpTo, FitsFacts
    <2>2. e = [i \in 1 .. m + 1 |-> IF i <= m THEN d[i] ELSE k]
      BY <1>1, <1>2, <1>5 DEF Deeper
    <2> QED
      BY <1>2, <2>1, <2>2
  <1>8. l.what \in Popped => k = n
    BY DEF Own, Popped
  <1>9. ASSUME NEW i \in 1 .. m + 1
        PROVE  /\ p[i].class \in Classes
               /\ p[i].vars \in Nat /\ p[i].vars <= Len(ts[e[i]].vars)
    <2>1. CASE i = m + 1
      BY <1>4, <1>7, <1>8, <2>1
    <2>2. CASE i \in 1 .. m
      BY <1>1, <1>2, <1>4, <1>7, <2>2 DEF Kept
    <2> QED
      BY <2>1, <2>2
  <1>10. ASSUME NEW i \in 1 .. m + 1, NEW j \in 1 .. m + 1, i <= j
         PROVE  /\ e[i] <= e[j]
                /\ e[i] = e[j] /\ p[j].what \in Popped => p[i].vars <= p[j].vars
    <2>1. CASE i = m + 1
      <3>1. j = i
        BY <1>2, <1>10, <2>1
      <3> QED
        BY <1>4, <1>7, <2>1, <3>1
    <2>2. CASE i \in 1 .. m /\ j \in 1 .. m
      BY <1>1, <1>2, <1>4, <1>7, <1>10, <2>2 DEF Kept
    <2>3. CASE i \in 1 .. m /\ j = m + 1
      <3>1. e[i] <= e[j]
        BY <1>7, <2>3
      <3>2. ASSUME e[i] = e[j], p[j].what \in Popped PROVE p[i].vars <= p[j].vars
        <4>1. l.what \in Popped /\ k = n /\ d[i] = n
          BY <1>4, <1>7, <1>8, <2>3, <3>2
        <4>2. o[i].vars <= Len(ts[n].vars)
          BY <1>1, <1>2, <2>3, <4>1 DEF Kept
        <4> QED
          BY <1>4, <2>3, <4>1, <4>2
      <3> QED
        BY <3>1, <3>2
    <2> QED
      BY <2>1, <2>2, <2>3
  <1>11. Kept(p, ts, e)
    BY <1>4, <1>9, <1>10 DEF Kept
  <1> QED
    BY <1>3, <1>4, <1>6, <1>7, <1>11 DEF Fits

\* The list on top becomes another one.
LEMMA FitsReplace ==
    ASSUME NEW o, NEW ts, NEW n, Fits(o, ts, n), NEW l, IsList(l), l.class \in Classes,
           l.what \in Own <=> o[Len(o)].what \in Own, l.elseIf = o[Len(o)].elseIf,
           l.elseIf => l.what \in {"if", "else"},
           o[Len(o)].what = "parse" => l.what = "parse",
           l.vars = o[Len(o)].vars, l.what \in Popped => o[Len(o)].what \in Popped
    PROVE  Fits([o EXCEPT ![Len(o)] = l], ts, n)
  <1>1. PICK d : Nested(o, d) /\ d[Len(o)] = n /\ Kept(o, ts, d)
    BY DEF Fits
  <1>2. PICK m \in Nat : m = Len(o) /\ m >= 1 /\ IsSeq(o)
    BY FitsFacts
  <1>3. PICK p : p = [o EXCEPT ![Len(o)] = l]
    OBVIOUS
  <1>4. /\ IsSeq(p) /\ Len(p) = m /\ p[m] = l
        /\ \A i \in 1 .. m - 1 : p[i] = o[i]
    <2>1. /\ IsSeq(p) /\ Len(p) = Len(o)
          /\ \A i \in 1 .. Len(o) - 1 : p[i] = o[i]
          /\ Len(o) > 0 => p[Len(o)] = l
      BY <1>2, <1>3, Replacing, Zenon
    <2> QED
      BY <1>2, <2>1
  <1>5. Nested(p, d)
    BY <1>1, <1>3, NestedReplace
  <1>6. \A i \in 1 .. m : /\ p[i].class \in Classes /\ p[i].vars = o[i].vars
                          /\ p[i].what \in Popped => o[i].what \in Popped
    <2> SUFFICES ASSUME NEW i \in 1 .. m
                 PROVE  /\ p[i].class \in Classes /\ p[i].vars = o[i].vars
                        /\ p[i].what \in Popped => o[i].what \in Popped
      OBVIOUS
    <2>1. CASE i = m
      BY <1>2, <1>4, <2>1
    <2>2. CASE i \in 1 .. m - 1
      BY <1>1, <1>2, <1>4, <2>2 DEF Kept
    <2> QED
      BY <2>1, <2>2
  <1>7. Kept(p, ts, d)
    BY <1>1, <1>2, <1>4, <1>6 DEF Kept
  <1> QED
    BY <1>1, <1>2, <1>3, <1>4, <1>5, <1>7 DEF Fits

\* The lists after the m-th one end.
LEMMA FitsCut ==
    ASSUME NEW o, NEW d, NEW ts, NEW us, Nested(o, d), Kept(o, ts, d), NEW m \in 1 .. Len(o),
           \A i \in 1 .. m : o[i].vars <= Len(us[d[i]].vars)
    PROVE  Fits(SubSeq(o, 1, m), us, d[m])
  <1>1. PICK p : p = SubSeq(o, 1, m)
    OBVIOUS
  <1>2. Len(o) \in Nat /\ IsSeq(o)
    BY SeqBasics DEF Nested
  <1>3. Len(p) = m /\ \A i \in 1 .. m : p[i] = o[i] /\ i \in 1 .. Len(o)
    BY <1>1, <1>2, Cutting
  <1>4. PICK e : e = [i \in 1 .. m |-> d[i]]
    OBVIOUS
  <1>5. Nested(p, e)
    BY <1>1, <1>4, NestedCut
  <1>6. Kept(p, us, e)
    BY <1>3, <1>4 DEF Kept
  <1>7. e[m] = d[m] /\ m \in 1 .. m
    BY <1>4
  <1> QED
    BY <1>1, <1>3, <1>5, <1>6, <1>7 DEF Fits

\* A list ends, the variables declared in it with it, and the if before it,
\* too, where it is an "else if".
LEMMA FitsClose ==
    ASSUME NEW o, NEW ts, NEW n, Fits(o, ts, n), NEW m \in 2 .. Len(o),
           \A i \in m .. Len(o) : o[i].what \notin Own,
           m = Len(o) \/ o[m].what = "if", NEW us,
           \A i \in 1 .. n - 1 : us[i].vars = ts[i].vars,
           \/ us[n].vars = ts[n].vars
           \/ o[Len(o)].what \in Popped /\ Len(us[n].vars) = o[m].vars
    PROVE  /\ Fits(SubSeq(o, 1, m - 1), us, n)
           /\ o[m].vars \in Nat /\ o[m].vars <= Len(ts[n].vars)
  <1>1. PICK d : Nested(o, d) /\ d[Len(o)] = n /\ Kept(o, ts, d)
    BY DEF Fits
  <1>2. PICK k \in Nat : k = Len(o)
    BY FitsFacts
  <1>3. m \in 1 .. k /\ m - 1 \in 1 .. k /\ m >= 2
    BY <1>2
  <1>4. d[m] = n /\ d[m - 1] = n
    <2>1. \A i \in m + 1 .. k : o[i].what \notin Own
      BY <1>2, <1>3
    <2>2. d[k] = d[m]
      BY <1>1, <1>2, <1>3, <2>1 DEF Nested
    <2>3. \A i \in (m - 1) + 1 .. m : o[i].what \notin Own
      BY <1>2, <1>3
    <2>4. d[m] = d[m - 1]
      BY <1>1, <1>2, <1>3, <2>3 DEF Nested
    <2> QED
      BY <1>1, <1>2, <2>2, <2>4
  <1>5. o[m].vars \in Nat /\ o[m].vars <= Len(ts[n].vars)
    BY <1>1, <1>2, <1>3, <1>4 DEF Kept
  <1>6. PICK h \in 1 .. k : h = m - 1
    BY <1>3
  <1>7. n \in Nat /\ \A i \in 1 .. k : d[i] \in 1 .. n
    BY <1>1, <1>2, DepthsUpTo, FitsFacts
  <1>8. ASSUME NEW i \in 1 .. h PROVE o[i].vars <= Len(us[d[i]].vars)
    <2>1. i \in 1 .. k /\ m \in 1 .. k /\ i <= m
      BY <1>3, <1>6
    <2>2. o[i].vars <= Len(ts[d[i]].vars)
      BY <1>1, <1>2, <2>1 DEF Kept
    <2>3. CASE d[i] \in 1 .. n - 1
      BY <2>2, <2>3
    <2>4. CASE d[i] = n /\ us[n].vars = ts[n].vars
      BY <2>2, <2>4
    <2>5. CASE d[i] = n /\ o[k].what \in Popped /\ Len(us[n].vars) = o[m].vars
      <3>1. o[m].what \in Popped
        BY <1>2, <2>5 DEF Popped
      <3>2. o[i].vars <= o[m].vars
        BY <1>1, <1>2, <1>4, <2>1, <2>5, <3>1 DEF Kept
      <3> QED
        BY <2>5, <3>2
    <2>6. d[i] \in 1 .. n - 1 \/ d[i] = n
      BY <1>7, <2>1
    <2> QED
      BY <1>2, <2>3, <2>4, <2>5, <2>6
  <1>9. Fits(SubSeq(o, 1, h), us, d[h])
    BY <1>1, <1>2, <1>8, FitsCut
  <1> QED
    BY <1>2, <1>3, <1>4, <1>5, <1>6, <1>9

\* A define or a block ends, and its Tree is left.
LEMMA FitsCutOwn ==
    ASSUME NEW o, NEW ts, NEW n, Fits(o, ts, n), o[Len(o)].what \in Own,
           NEW us, \A i \in 1 .. n - 1 : us[i].vars = ts[i].vars
    PROVE  /\ Len(o) \in Nat /\ Len(o) >= 2 /\ n \in Nat /\ n >= 2
           /\ Fits(SubSeq(o, 1, Len(o) - 1), us, n - 1)
  <1>1. PICK d : Nested(o, d) /\ d[Len(o)] = n /\ Kept(o, ts, d)
    BY DEF Fits
  <1>2. PICK k \in Nat : k = Len(o)
    BY FitsFacts
  <1>3. k >= 2 /\ n >= 2 /\ n \in Nat
    BY <1>2, DepthCutOwn, FitsFacts
  <1>4. PICK h \in 1 .. k : h = k - 1
    BY <1>3
  <1>5. d[h] = n - 1
    <2>1. d[k] = d[k - 1] + 1
      BY <1>1, <1>2, <1>3 DEF Nested
    <2>2. d[h] \in Nat
      BY <1>1, <1>2 DEF Nested
    <2> QED
      BY <1>1, <1>2, <1>4, <2>1, <2>2
  <1>6. ASSUME NEW i \in 1 .. h PROVE o[i].vars <= Len(us[d[i]].vars)
    <2>1. i \in 1 .. k /\ i <= h
      BY <1>4
    <2>2. o[i].vars <= Len(ts[d[i]].vars)
      BY <1>1, <1>2, <2>1 DEF Kept
    <2>3. d[i] <= n - 1
      BY <1>1, <1>2, <1>5, <2>1 DEF Kept
    <2>4. d[i] \in 1 .. n
      BY <1>1, <1>2, <2>1, DepthsUpTo
    <2>5. d[i] \in 1 .. n - 1
      BY <1>3, <2>3, <2>4
    <2> QED
      BY <2>2, <2>5
  <1>7. Fits(SubSeq(o, 1, h), us, d[h])
    BY <1>1, <1>2, <1>6, FitsCut
  <1> QED
    BY <1>2, <1>3, <1>4, <1>5, <1>7

LEMMA ListFields ==
    ASSUME NEW w
    PROVE  /\ IsList(List(w)) /\ List(w).what = w /\ List(w).elseIf = FALSE
           /\ List(w).vars = 0 /\ List(w).class \in Classes
  BY ListIs DEF List, Classes

LEMMA ListVars ==
    ASSUME NEW l, IsList(l), NEW x
    PROVE  /\ IsList([l EXCEPT !.vars = x]) /\ [l EXCEPT !.vars = x].vars = x
           /\ [l EXCEPT !.vars = x].what = l.what /\ [l EXCEPT !.vars = x].class = l.class /\ [l EXCEPT !.vars = x].elseIf = l.elseIf
  <1>1. PICK A, B, C : l \in ListSet(A, B, C)
    BY DEF IsList
  <1>2. [l EXCEPT !.vars = x].vars = x /\ [l EXCEPT !.vars = x].what = l.what /\ [l EXCEPT !.vars = x].class = l.class
    BY <1>1 DEF ListSet
  <1> QED
    BY <1>2, ListExcept

LEMMA ListClass ==
    ASSUME NEW l, IsList(l), NEW x
    PROVE  /\ IsList([l EXCEPT !.class = x]) /\ [l EXCEPT !.class = x].class = x
           /\ [l EXCEPT !.class = x].what = l.what /\ [l EXCEPT !.class = x].vars = l.vars /\ [l EXCEPT !.class = x].elseIf = l.elseIf
  <1>1. PICK A, B, C : l \in ListSet(A, B, C)
    BY DEF IsList
  <1>2. [l EXCEPT !.class = x].class = x /\ [l EXCEPT !.class = x].what = l.what /\ [l EXCEPT !.class = x].vars = l.vars
    BY <1>1 DEF ListSet
  <1> QED
    BY <1>2, ListExcept

LEMMA ListWhat ==
    ASSUME NEW l, IsList(l), NEW x
    PROVE  /\ IsList([l EXCEPT !.what = x]) /\ [l EXCEPT !.what = x].what = x
           /\ [l EXCEPT !.what = x].class = l.class /\ [l EXCEPT !.what = x].vars = l.vars /\ [l EXCEPT !.what = x].elseIf = l.elseIf
  <1>1. PICK A, B, C : l \in ListSet(A, B, C)
    BY DEF IsList
  <1>2. [l EXCEPT !.what = x].what = x /\ [l EXCEPT !.what = x].class = l.class /\ [l EXCEPT !.what = x].vars = l.vars
    BY <1>1 DEF ListSet
  <1> QED
    BY <1>2, ListExcept

LEMMA ElseIfFields ==
    ASSUME NEW x
    PROVE  LET l == [List("if") EXCEPT !.elseIf = TRUE, !.vars = x] IN
           IsList(l) /\ l.what = "if" /\ l.class \in Classes /\ l.vars = x
  BY ElseIfList DEF List, Classes

\* A node is added to the list on top.
LEMMA FitsNode ==
    ASSUME NEW o, NEW ts, NEW n, Fits(o, ts, n), NEW c \in Classes
    PROVE  Fits(AppendNode(o, c), ts, n)
  <1>1. PICK t : t = o[Len(o)] /\ IsList(t) /\ t.class \in Classes
    BY FitsFacts
  <1>2. PICK x \in Classes : x = Joined(t.class, c)
    BY <1>1 DEF Joined
  <1>3. PICK l : l = [t EXCEPT !.class = x]
    OBVIOUS
  <1>4. IsList(l) /\ l.class = x /\ l.what = t.what /\ l.vars = t.vars /\ l.elseIf = t.elseIf
    <2>1. IsList(t)
      BY <1>1
    <2>2. IsList(l) /\ l.class = x
      BY <1>3, <2>1, ListClass, Zenon
    <2>3. l.what = t.what /\ l.vars = t.vars
      BY <1>3, <2>1, ListClass, Zenon
    <2>4. l.elseIf = t.elseIf
      BY <1>3, <2>1, ListClass, Zenon
    <2> QED
      BY <2>2, <2>3, <2>4
  <1>5. AppendNode(o, c) = [o EXCEPT ![Len(o)] = l]
    BY <1>1, <1>2, <1>3 DEF AppendNode
  <1>6. l.elseIf => l.what \in {"if", "else"}
    <2>1. Depth(o, n) /\ Len(o) \in 1 .. Len(o)
      BY FitsFacts
    <2> QED
      BY <1>1, <1>4, <2>1, DepthFacts
  <1>7. Fits([o EXCEPT ![Len(o)] = l], ts, n)
    BY <1>1, <1>2, <1>4, <1>6, FitsReplace
  <1> QED
    BY <1>5, <1>7

\* The second list of a control begins.
LEMMA FitsWhat ==
    ASSUME NEW o, NEW ts, NEW n, Fits(o, ts, n), o[Len(o)].what \notin Own \cup {"parse"},
           NEW w, w \notin Own, o[Len(o)].elseIf => w \in {"if", "else"},
           w \in Popped => o[Len(o)].what \in Popped
    PROVE  Fits([o EXCEPT ![Len(o)].what = w], ts, n)
  <1>1. PICK t : t = o[Len(o)] /\ IsList(t) /\ t.class \in Classes
    BY FitsFacts
  <1>2. PICK l : l = [t EXCEPT !.what = w]
    OBVIOUS
  <1>3. IsList(l) /\ l.class = t.class /\ l.what = w /\ l.vars = t.vars /\ l.elseIf = t.elseIf
    <2>1. IsList(t)
      BY <1>1
    <2>2. IsList(l) /\ l.what = w
      BY <1>2, <2>1, ListWhat, Zenon
    <2>3. l.class = t.class /\ l.vars = t.vars
      BY <1>2, <2>1, ListWhat, Zenon
    <2>4. l.elseIf = t.elseIf
      BY <1>2, <2>1, ListWhat, Zenon
    <2> QED
      BY <2>2, <2>3, <2>4
  <1>4. [o EXCEPT ![Len(o)].what = w] = [o EXCEPT ![Len(o)] = l]
    BY <1>1, <1>2
  <1>5. Fits([o EXCEPT ![Len(o)] = l], ts, n)
    BY <1>1, <1>3, FitsReplace
  <1> QED
    BY <1>4, <1>5

-----------------------------------------------------------------------------
(* Tokens and Trees.                                                       *)

LEMMA TokensSetKeeps ==
    ASSUME NEW t, IsTree(t), NEW B, NEW u \in [0 .. 2 -> B], NEW n \in 0 .. 3
    PROVE  /\ [t EXCEPT !.peekCount = n, !.token = u].name = t.name
           /\ [t EXCEPT !.peekCount = n, !.token = u].vars = t.vars
           /\ [t EXCEPT !.token = u, !.peekCount = n].name = t.name
           /\ [t EXCEPT !.token = u, !.peekCount = n].vars = t.vars
  <1>1. PICK A, D, C : t \in TreeSet(A, D, C)
    BY DEF IsTree
  <1> QED
    BY <1>1 DEF TreeSet

LEMMA ZeroItemOK == TokenOK(ZeroItem)
  BY DEF TokenOK, ZeroItem, ItemTypes

LEMMA NextTyped ==
    ASSUME NEW t, IsTree(t), TreeOK(t), t.peekCount > 0
    PROVE  /\ IsTree(next(t)) /\ TreeOK(next(t)) /\ next(t).vars = t.vars
           /\ TokenOK(t.token[t.peekCount - 1])
  <1>1. PICK B : t.token \in [0 .. 2 -> B]
    BY TreeFields
  <1>2. PICK n \in 0 .. 2 : n = t.peekCount - 1
    BY TreeFields
  <1>3. PICK u \in [0 .. 2 -> B \cup {ZeroItem}] : u = [t.token EXCEPT ![n] = ZeroItem]
    BY <1>1, <1>2
  <1>4. n \in 0 .. 3
    BY <1>2
  <1>5. PICK v : v = [t EXCEPT !.peekCount = n, !.token = u]
    OBVIOUS
  <1>6. v = next(t)
    BY <1>2, <1>3, <1>5 DEF next
  <1>7. v.token = u
    BY <1>4, <1>5, SetFields
  <1>8. v.name = t.name /\ v.vars = t.vars
    BY <1>4, <1>5, TokensSetKeeps
  <1>9. \A j \in 0 .. 2 : TokenOK(u[j])
    BY <1>1, <1>2, <1>3, ZeroItemOK DEF TreeOK
  <1>10. IsTree(next(t))
    BY NextDerived DEF Derived
  <1> QED
    BY <1>2, <1>6, <1>7, <1>8, <1>9, <1>10 DEF TreeOK

LEMMA Backup2Typed ==
    ASSUME NEW t, IsTree(t), TreeOK(t), NEW x, TokenOK(x)
    PROVE  TreeOK(backup2(t, x)) /\ backup2(t, x).vars = t.vars
  <1>1. PICK B : t.token \in [0 .. 2 -> B]
    BY TreeFields
  <1>2. PICK u \in [0 .. 2 -> B \cup {x}] : u = [t.token EXCEPT ![1] = x]
    BY <1>1
  <1>3. PICK n \in 0 .. 3 : n = 2
    OBVIOUS
  <1>4. PICK v : v = [t EXCEPT !.token = u, !.peekCount = n]
    OBVIOUS
  <1>5. v = backup2(t, x)
    BY <1>2, <1>3, <1>4 DEF backup2
  <1>6. v.token = u
    BY <1>4, SetFields
  <1>7. v.name = t.name /\ v.vars = t.vars
    BY <1>4, TokensSetKeeps
  <1>8. \A j \in 0 .. 2 : TokenOK(u[j])
    BY <1>1, <1>2 DEF TreeOK
  <1> QED
    BY <1>5, <1>6, <1>7, <1>8 DEF TreeOK

LEMMA Backup3Typed ==
    ASSUME NEW t, IsTree(t), TreeOK(t), NEW x, NEW y, TokenOK(x), TokenOK(y)
    PROVE  TreeOK(backup3(t, x, y)) /\ backup3(t, x, y).vars = t.vars
  <1>1. PICK B : t.token \in [0 .. 2 -> B]
    BY TreeFields
  <1>2. PICK u \in [0 .. 2 -> B \cup {x, y}] : u = [[t.token EXCEPT ![1] = y] EXCEPT ![2] = x]
    BY <1>1
  <1>3. PICK n \in 0 .. 3 : n = 3
    OBVIOUS
  <1>4. PICK v : v = [t EXCEPT !.token = u, !.peekCount = n]
    OBVIOUS
  <1>5. v = backup3(t, x, y)
    BY <1>2, <1>3, <1>4 DEF backup3
  <1>6. v.token = u
    BY <1>4, SetFields
  <1>7. v.name = t.name /\ v.vars = t.vars
    BY <1>4, TokensSetKeeps
  <1>8. \A j \in 0 .. 2 : u[j] = IF j = 2 THEN x ELSE IF j = 1 THEN y ELSE t.token[j]
    BY <1>1, <1>2
  <1>9. \A j \in 0 .. 2 : TokenOK(u[j])
    BY <1>8 DEF TreeOK
  <1> QED
    BY <1>5, <1>6, <1>7, <1>9 DEF TreeOK

LEMMA FetchedTyped ==
    ASSUME NEW t, IsTree(t), TreeOK(t), NEW x, TokenOK(x)
    PROVE  TreeOK(fetched(t, x)) /\ fetched(t, x).vars = t.vars
  <1>1. PICK B : t.token \in [0 .. 2 -> B]
    BY TreeFields
  <1>2. PICK u \in [0 .. 2 -> B \cup {x}] : u = [t.token EXCEPT ![0] = x]
    BY <1>1
  <1>3. PICK n \in 0 .. 3 : n = 1
    OBVIOUS
  <1>4. PICK v : v = [t EXCEPT !.token = u, !.peekCount = n]
    OBVIOUS
  <1>5. v = fetched(t, x)
    BY <1>2, <1>3, <1>4 DEF fetched
  <1>6. v.token = u
    BY <1>4, SetFields
  <1>7. v.name = t.name /\ v.vars = t.vars
    BY <1>4, TokensSetKeeps
  <1>8. \A j \in 0 .. 2 : TokenOK(u[j])
    BY <1>1, <1>2 DEF TreeOK
  <1> QED
    BY <1>5, <1>6, <1>7, <1>8 DEF TreeOK

LEMMA NameTyped ==
    ASSUME NEW t, IsTree(t), TreeOK(t), NEW x \in TreeNames
    PROVE  TreeOK([t EXCEPT !.name = x]) /\ [t EXCEPT !.name = x].vars = t.vars
  <1>1. PICK A, B, C : t \in TreeSet(A, B, C)
    BY DEF IsTree
  <1>2. /\ [t EXCEPT !.name = x].token = t.token /\ [t EXCEPT !.name = x].vars = t.vars
        /\ [t EXCEPT !.name = x].name = x
    BY <1>1 DEF TreeSet
  <1> QED
    BY <1>2 DEF TreeOK

LEMMA VarsTyped ==
    ASSUME NEW t, IsTree(t), TreeOK(t), NEW x \in Seq({"$"} \cup Variables)
    PROVE  TreeOK([t EXCEPT !.vars = x]) /\ [t EXCEPT !.vars = x].vars = x
  <1>1. PICK A, B, C : t \in TreeSet(A, B, C)
    BY DEF IsTree
  <1>2. /\ [t EXCEPT !.vars = x].token = t.token /\ [t EXCEPT !.vars = x].name = t.name
        /\ [t EXCEPT !.vars = x].vars = x
    BY <1>1 DEF TreeSet
  <1> QED
    BY <1>2 DEF TreeOK

LEMMA NewTreeTyped ==
    ASSUME NEW x \in TreeNames
    PROVE  TreeOK(NewTree(x)) /\ Len(NewTree(x).vars) \in Nat
  <1>1. NewTree(x).vars \in Seq({"$"} \cup Variables)
    BY DEF NewTree
  <1>2. \A j \in 0 .. 2 : NewTree(x).token[j] = ZeroItem
    BY DEF NewTree
  <1>3. NewTree(x).name = x
    BY DEF NewTree
  <1> QED
    BY <1>1, <1>2, <1>3, ZeroItemOK DEF TreeOK

LEMMA VarsLen == ASSUME NEW t, TreeOK(t) PROVE Len(t.vars) \in Nat
  BY DEF TreeOK

\* An item of the lexer.
LEMMA ItemTyped ==
    ASSUME NEW i \in Items, NEW n
    PROVE  TokenOK([typ |-> i.typ, val |-> i.val, n |-> n])
  <1>1. /\ i.typ \in ItemTypes
        /\ i.typ = "Variable" => i.val \in Variables
        /\ i.typ = "String" => i.val \in Strings
    <2>1. CASE i \in [typ : Plain, val : {""}]
      BY <2>1 DEF Plain, ItemTypes, Literals
    <2>2. CASE i \in Words
      BY <2>2, WordsType DEF Keywords, ItemTypes, Literals
    <2>3. CASE i \in Signs
      BY <2>3, SignsType DEF ItemTypes
    <2>4. CASE i \notin [typ : Plain, val : {""}] \cup Words \cup Signs
      BY <2>4 DEF Items, ItemTypes, Literals
    <2> QED
      BY <2>1, <2>2, <2>3, <2>4
  <1> QED
    BY <1>1 DEF TokenOK

-----------------------------------------------------------------------------
(* Pipelines and held tokens.                                              *)

LEMMA PipeTyped ==
    ASSUME NEW c, NEW x \in TreeNames
    PROVE  PipeOK(Pipe(c)) /\ PipeOK([Pipe(c) EXCEPT !.name = x])
  <1>1. MainName \in TreeNames
    BY DEF TreeNames
  <1>2. Pipe(c) \in PipeSet({c}, {0}, {FALSE}, {"none"}, {"none"}, {FALSE})
    BY <1>1 DEF Pipe, PipeSet
  <1>3. [Pipe(c) EXCEPT !.name = x] \in PipeSet({c}, {0}, {FALSE}, {"none"}, {"none"}, {FALSE})
    BY <1>2 DEF PipeSet
  <1> QED
    BY <1>2, <1>3, Zenon DEF PipeOK

LEMMA PlainPipe == ASSUME NEW c PROVE PipeOK(Pipe(c))
  <1>1. MainName \in TreeNames
    BY DEF TreeNames
  <1> QED
    BY <1>1, PipeTyped

LEMMA PipeChanges ==
    ASSUME NEW p, PipeOK(p), NEW x, NEW y, NEW z
    PROVE  /\ PipeOK([p EXCEPT !.decls = x])
           /\ PipeOK([p EXCEPT !.first = x, !.last = y])
           /\ PipeOK([p EXCEPT !.cmds = TRUE, !.bad = x, !.first = y, !.last = z])
           /\ p.name \in TreeNames
  <1>1. PICK A, B, C, D, E, F : p \in PipeSet(A, B, C, D, E, F)
    BY DEF PipeOK
  <1>2. [p EXCEPT !.decls = x] \in PipeSet(A, {x}, C, D, E, F)
    BY <1>1 DEF PipeSet
  <1>3. [p EXCEPT !.first = x, !.last = y] \in PipeSet(A, B, C, {x}, {y}, F)
    BY <1>1 DEF PipeSet
  <1>4. [p EXCEPT !.cmds = TRUE, !.bad = x, !.first = y, !.last = z]
           \in PipeSet(A, B, {TRUE}, {y}, {z}, {x})
    BY <1>1 DEF PipeSet
  <1>5. p.name \in TreeNames
    BY <1>1 DEF PipeSet
  <1> QED
    BY <1>2, <1>3, <1>4, <1>5, Zenon DEF PipeOK

LEMMA PipesOne == ASSUME NEW p, PipeOK(p) PROVE PipesOK(<<p>>)
  BY OneIsSeq DEF PipesOK

LEMMA PipesAppend == ASSUME NEW s, PipesOK(s), NEW p, PipeOK(p) PROVE PipesOK(Append(s, p))
  <1>1. PICK q : q = Append(s, p)
    OBVIOUS
  <1>2. PICK m \in Nat : m = Len(s)
    BY SeqBasics DEF PipesOK
  <1>3. IsSeq(q) /\ Len(q) = m + 1 /\ q[m + 1] = p /\ \A i \in 1 .. m : q[i] = s[i]
    BY <1>1, <1>2, Appending DEF PipesOK
  <1>4. \A i \in 1 .. m : PipeOK(s[i])
    BY <1>2 DEF PipesOK
  <1> QED
    BY <1>1, <1>2, <1>3, <1>4 DEF PipesOK

LEMMA PipesCut == ASSUME NEW s, PipesOK(s), Len(s) >= 1 PROVE PipesOK(Front(s))
  <1>1. PICK q : q = Front(s) /\ q = SubSeq(s, 1, Len(s) - 1)
    BY DEF Front
  <1>2. PICK m \in Nat : m = Len(s) - 1
    BY SeqBasics DEF PipesOK
  <1>3. IsSeq(q) /\ Len(q) = m /\ \A i \in 1 .. m : q[i] = s[i] /\ i \in 1 .. Len(s)
    BY <1>1, <1>2, Cutting, SeqBasics DEF PipesOK
  <1> QED
    BY <1>1, <1>3 DEF PipesOK

LEMMA PipesReplace ==
    ASSUME NEW s, PipesOK(s), Len(s) >= 1, NEW p, PipeOK(p)
    PROVE  PipesOK([s EXCEPT ![Len(s)] = p]) /\ PipeOK(Last(s))
  <1>1. PICK q : q = [s EXCEPT ![Len(s)] = p]
    OBVIOUS
  <1>2. PICK m \in Nat : m = Len(s) /\ m >= 1 /\ Last(s) = s[m] /\ IsSeq(s)
    BY SeqBasics DEF PipesOK
  <1>3. IsSeq(q) /\ Len(q) = m /\ q[m] = p /\ \A i \in 1 .. m - 1 : q[i] = s[i]
    <2>1. /\ IsSeq(q) /\ Len(q) = Len(s)
          /\ \A i \in 1 .. Len(s) - 1 : q[i] = s[i]
          /\ Len(s) > 0 => q[Len(s)] = p
      BY <1>1, <1>2, Replacing, Zenon
    <2> QED
      BY <1>2, <2>1
  <1>4. \A i \in 1 .. m : PipeOK(s[i])
    BY <1>2 DEF PipesOK
  <1>5. \A i \in 1 .. m : i = m \/ i \in 1 .. m - 1
    BY <1>2
  <1> QED
    BY <1>1, <1>2, <1>3, <1>4, <1>5 DEF PipesOK

LEMMA NoTokens == TokensOK(<<>>)
  BY EmptyIsSeq DEF TokensOK

LEMMA OneToken1 == ASSUME NEW x, TokenOK(x) PROVE TokensOK(<<x>>)
  BY OneIsSeq DEF TokensOK

LEMMA TwoTokens ==
    ASSUME NEW x, NEW y, TokenOK(x), TokenOK(y) PROVE TokensOK(Append(<<x>>, y))
  <1>1. PICK h : h = Append(<<x>>, y) /\ Len(h) = 2 /\ h[1] = x /\ h[2] = y
    BY TwoIsSeq
  <1>2. \A i \in 1 .. 2 : i = 1 \/ i = 2
    OBVIOUS
  <1> QED
    BY <1>1, <1>2 DEF TokensOK

-----------------------------------------------------------------------------
(* How the parser goes on.                                                 *)

LEMMA TypedStops ==
    ASSUME TInv, NEW how \in {"failed", "runtime error", "panicking"}, Stop(how) PROVE TInv'
  BY DEF TInv, Stop, LexTypeOK, lexVars

LEMMA TypedFails == ASSUME TInv, Fail PROVE TInv'
  BY TypedStops DEF Fail

LEMMA TypedAddStops == ASSUME TInv, NEW name, NEW class, AddStops(name, class) PROVE TInv'
  BY TypedStops, TypedFails DEF AddStops

LEMMA LexTypesStay == ASSUME LexTypeOK, UNCHANGED lexVars PROVE LexTypeOK'
  BY DEF LexTypeOK, lexVars

\* Outside of headers: what is true of the Trees and of the lists.
LEMMA Here ==
    ASSUME IInv, TInv, result = "running"
    PROVE  /\ Running /\ Typed /\ IsTree(T) /\ TreeOK(T) /\ Len(T.vars) \in Nat
           /\ Len(trees) \in Nat /\ Len(trees) >= 1 /\ T = trees[Len(trees)] /\ IsSeq(trees)
           /\ \A i \in 1 .. Len(trees) : TreeOK(trees[i]) /\ Len(trees[i].vars) \in Nat
           /\ at \notin Headers => Fits(open, trees, Len(trees))
           /\ Top = open[Len(open)]
  <1>1. Running /\ Typed
    BY DEF IInv, TInv
  <1>2. /\ IsSeq(trees) /\ Len(trees) \in Nat /\ Len(trees) >= 1 /\ T = trees[Len(trees)] /\ IsTree(T)
        /\ Top = open[Len(open)]
    BY <1>1, CurrentTree
  <1>3. TreeOK(T)
    BY <1>1, <1>2 DEF Typed
  <1> QED
    BY <1>1, <1>2, <1>3, VarsLen DEF Typed

LEMMA TypedMove ==
    ASSUME IInv, TInv, result = "running", NEW u, NEW label,
           trees' = [trees EXCEPT ![Len(trees)] = u], at' = label, LexTypeOK',
           result' = result, treeSet' = treeSet,
           label \in Headers <=> at \in Headers,
           TreeOK(u), Len(T.vars) <= Len(u.vars),
           \/ at \in Headers /\ open' = open
           \/ at \notin Headers /\ Fits(open', trees, Len(trees)),
           TokensOK(held'), PipesOK(pipes')
    PROVE  TInv'
  <1>1. trees' = [trees EXCEPT ![Len(trees)] = u] /\ at' = label /\ result' = "running"
    OBVIOUS
  <1>2. PICK m \in Nat : m = Len(trees) /\ m >= 1
    BY Here
  <1>3. PICK p : p = trees' /\ Len(p) = m /\ p[m] = u /\ \A i \in 1 .. m - 1 : p[i] = trees[i]
    <2>1. /\ IsSeq(trees') /\ Len(trees') = Len(trees) /\ T' = u
          /\ \A i \in 1 .. Len(trees) - 1 : trees'[i] = trees[i]
      BY <1>1, Here, CurrentBecomes
    <2>2. T' = trees'[Len(trees')]
      BY <2>1, SeqBasics DEF T
    <2> QED
      BY <1>2, <2>1, <2>2
  <1>4. \A i \in 1 .. m : i = m \/ i \in 1 .. m - 1
    BY <1>2
  <1>5. \A i \in 1 .. m : /\ TreeOK(p[i])
                          /\ Len(trees[i].vars) \in Nat /\ Len(p[i].vars) \in Nat
                          /\ Len(trees[i].vars) <= Len(p[i].vars)
    <2>1. \A i \in 1 .. m : TreeOK(trees[i]) /\ Len(trees[i].vars) \in Nat
      BY <1>2, Here
    <2>2. T = trees[m] /\ Len(u.vars) \in Nat
      BY <1>2, Here, VarsLen
    <2>3. ASSUME NEW i \in 1 .. m - 1
          PROVE  TreeOK(p[i]) /\ Len(p[i].vars) \in Nat /\ Len(trees[i].vars) <= Len(p[i].vars)
      <3>1. i \in 1 .. m
        OBVIOUS
      <3> QED
        BY <1>3, <2>1, <2>3, <3>1
    <2> QED
      BY <1>3, <1>4, <2>1, <2>2, <2>3
  <1>6. Fits(open', p, IF label \in Headers THEN m - 1 ELSE m)
    <2>1. CASE at \in Headers
      <3>1. Fits(open, trees, m - 1)
        BY <1>2, <2>1, Here DEF Typed
      <3>2. \A i \in 1 .. m - 1 : i \in 1 .. m
        BY <1>2
      <3>3. Fits(open, p, m - 1)
        BY <1>5, <3>1, <3>2, FitsGrows
      <3> QED
        BY <2>1, <3>3
    <2>2. CASE at \notin Headers
      BY <1>2, <1>5, <2>2, FitsGrows
    <2> QED
      BY <2>1, <2>2
  <1>7. Typed'
    BY <1>1, <1>3, <1>5, <1>6 DEF Typed
  <1> QED
    BY <1>1, <1>7 DEF TInv

LEMMA TypedGo ==
    ASSUME IInv, TInv, result = "running", NEW u, NEW label, Go(u, label), treeSet' = treeSet,
           label \in Headers <=> at \in Headers,
           TreeOK(u), Len(T.vars) <= Len(u.vars),
           \/ at \in Headers /\ open' = open
           \/ at \notin Headers /\ Fits(open', trees, Len(trees)),
           TokensOK(held'), PipesOK(pipes')
    PROVE  TInv'
  <1>1. LexTypeOK'
    BY LexTypesStay DEF TInv, Go
  <1> QED
    BY <1>1, TypedMove DEF Go

\* The parser looks at its next token, and may take it.
LEMMA AtTyped ==
    ASSUME IInv, TInv, NEW label, Parsing(label)
    PROVE  /\ result = "running" /\ at = label
           /\ TreeOK(T) /\ IsTree(T) /\ TreeOK(next(T)) /\ IsTree(next(T)) /\ next(T).vars = T.vars
           /\ Len(T.vars) \in Nat /\ TokenOK(Cur)
           /\ TokensOK(held) /\ PipesOK(pipes) /\ TokensOK(<<Cur>>)
           /\ at \notin Headers => Fits(open, trees, Len(trees))
  <1>1. result = "running" /\ at = label /\ T.peekCount > 0
    BY DEF Parsing
  <1>2. TreeOK(T) /\ IsTree(T) /\ Typed /\ Len(T.vars) \in Nat
    BY <1>1, Here
  <1> QED
    BY <1>1, <1>2, Here, NextTyped, OneToken1 DEF Cur, Typed

LEMMA TypedPlain ==
    ASSUME IInv, TInv, NEW k, Parsing(k), k \notin Headers, NEW label, label \notin Headers,
           Go(T, label) \/ Go(next(T), label), treeSet' = treeSet,
           Fits(open', trees, Len(trees)), TokensOK(held'), PipesOK(pipes')
    PROVE  TInv'
  <1>1. /\ result = "running" /\ at = k /\ Len(T.vars) \in Nat
        /\ TreeOK(T) /\ TreeOK(next(T)) /\ next(T).vars = T.vars
    BY AtTyped
  <1>2. PICK u : Go(u, label) /\ TreeOK(u) /\ u.vars = T.vars
    BY <1>1
  <1>3. Len(T.vars) <= Len(u.vars)
    BY <1>1, <1>2
  <1> QED
    BY <1>1, <1>2, <1>3, TypedGo

-----------------------------------------------------------------------------
(* The lexer's items, and the end of Parse.                                *)

LEMMA LexItemTyped == ASSUME LexTypeOK, NEW i, nextItem(i) PROVE LexTypeOK'
  <1>1. /\ lexState' \in {"lexText", "lexLeftDelim", "lexEOF", "lexInsideAction", "lexBadParen",
                          "nil", "ended"}
        /\ sending' = FALSE
    <2>1. CASE lexText(i)
      BY <2>1 DEF lexText, emit
    <2>2. CASE lexEOF(i)
      BY <2>2 DEF lexEOF, emit
    <2>3. CASE lexLeftDelim(i)
      BY <2>3 DEF lexLeftDelim, emit
    <2>4. CASE lexRightDelim(i)
      BY <2>4 DEF lexRightDelim, emit
    <2>5. CASE lexError(i)
      BY <2>5 DEF lexError, emit
    <2>6. CASE lexSpace(i)
      BY <2>6 DEF lexSpace, Inside, emit
    <2>7. CASE lexSign(i)
      BY <2>7 DEF lexSign, Inside, emit
    <2>8. CASE lexField(i)
      BY <2>8 DEF lexField, Inside, emit
    <2>9. CASE lexVariable(i)
      BY <2>9 DEF lexVariable, Inside, emit
    <2>10. CASE lexIdentifier(i)
      BY <2>10 DEF lexIdentifier, Inside, emit
    <2>11. CASE lexQuote(i)
      BY <2>11 DEF lexQuote, Inside, emit
    <2>12. CASE lexNumber(i)
      BY <2>12 DEF lexNumber, Inside, emit
    <2>13. CASE lexLeftParen(i)
      BY <2>13 DEF lexLeftParen, Inside, emit
    <2>14. CASE lexRightParen(i)
      BY <2>14 DEF lexRightParen, emit
    <2> QED
      BY <2>1, <2>2, <2>3, <2>4, <2>5, <2>6, <2>7, <2>8, <2>9, <2>10, <2>11, <2>12, <2>13, <2>14
         DEF nextItem
  <1>2. parenDepth' \in Int /\ sent' \in Nat /\ actions' \in Nat
    <2>1. parenDepth \in Int /\ sent \in Nat /\ actions \in Nat
      BY DEF LexTypeOK
    <2>2. CASE lexText(i)
      BY <2>2, <2>1 DEF lexText, emit
    <2>3. CASE lexEOF(i)
      BY <2>3, <2>1 DEF lexEOF, emit
    <2>4. CASE lexLeftDelim(i)
      BY <2>4, <2>1 DEF lexLeftDelim, emit
    <2>5. CASE lexRightDelim(i)
      BY <2>5, <2>1 DEF lexRightDelim, emit
    <2>6. CASE lexError(i)
      BY <2>6, <2>1 DEF lexError, emit
    <2>7. CASE lexSpace(i)
      BY <2>7, <2>1 DEF lexSpace, Inside, emit
    <2>8. CASE lexSign(i)
      BY <2>8, <2>1 DEF lexSign, Inside, emit
    <2>9. CASE lexField(i)
      BY <2>9, <2>1 DEF lexField, Inside, emit
    <2>10. CASE lexVariable(i)
      BY <2>10, <2>1 DEF lexVariable, Inside, emit
    <2>11. CASE lexIdentifier(i)
      BY <2>11, <2>1 DEF lexIdentifier, Inside, emit
    <2>12. CASE lexQuote(i)
      BY <2>12, <2>1 DEF lexQuote, Inside, emit
    <2>13. CASE lexNumber(i)
      BY <2>13, <2>1 DEF lexNumber, Inside, emit
    <2>14. CASE lexLeftParen(i)
      BY <2>14, <2>1 DEF lexLeftParen, Inside, emit
    <2>15. CASE lexRightParen(i)
      BY <2>15, <2>1 DEF lexRightParen, emit
    <2> QED
      BY <2>2, <2>3, <2>4, <2>5, <2>6, <2>7, <2>8, <2>9, <2>10, <2>11, <2>12, <2>13, <2>14, <2>15
         DEF nextItem
  <1>3. atWord' \in {"none", "space", "word", "number"}
    <2>1. atWord \in {"none", "space", "word", "number"}
      BY DEF LexTypeOK
    <2>2. CASE lexText(i)
      BY <2>2, <2>1 DEF lexText, emit
    <2>3. CASE lexEOF(i)
      BY <2>3, <2>1 DEF lexEOF, emit
    <2>4. CASE lexLeftDelim(i)
      BY <2>4, <2>1 DEF lexLeftDelim, emit
    <2>5. CASE lexRightDelim(i)
      BY <2>5, <2>1 DEF lexRightDelim, emit
    <2>6. CASE lexError(i)
      BY <2>6, <2>1 DEF lexError, emit
    <2>7. CASE lexSpace(i)
      BY <2>7, <2>1 DEF lexSpace, Inside, emit
    <2>8. CASE lexSign(i)
      BY <2>8, <2>1 DEF lexSign, Inside, emit
    <2>9. CASE lexField(i)
      BY <2>9, <2>1 DEF lexField, Inside, emit
    <2>10. CASE lexVariable(i)
      BY <2>10, <2>1 DEF lexVariable, Inside, emit
    <2>11. CASE lexIdentifier(i)
      BY <2>11, <2>1 DEF lexIdentifier, Inside, emit
    <2>12. CASE lexQuote(i)
      BY <2>12, <2>1 DEF lexQuote, Inside, emit
    <2>13. CASE lexNumber(i)
      BY <2>13, <2>1 DEF lexNumber, Inside, emit
    <2>14. CASE lexLeftParen(i)
      BY <2>14, <2>1 DEF lexLeftParen, Inside, emit
    <2>15. CASE lexRightParen(i)
      BY <2>15, <2>1 DEF lexRightParen, emit
    <2> QED
      BY <2>2, <2>3, <2>4, <2>5, <2>6, <2>7, <2>8, <2>9, <2>10, <2>11, <2>12, <2>13, <2>14, <2>15
         DEF nextItem
  <1> QED
    BY <1>1, <1>2, <1>3 DEF LexTypeOK

LEMMA LexTyped == ASSUME TInv, Lex PROVE TInv'
  <1>1. UNCHANGED <<trees, open, pipes, at, held, received, treeSet, result>> /\ LexStep
    BY DEF Lex, parseVars
  <1>2. LexTypeOK'
    <2>1. LexTypeOK
      BY DEF TInv
    <2>2. CASE scan
      BY <2>1, <2>2 DEF LexTypeOK, scan
    <2>3. CASE lexComment
      <3>1. UNCHANGED <<sending, parenDepth, atWord, sent>> /\ lexState' = "lexText" /\ actions' = actions + 1
        BY <2>3 DEF lexComment
      <3>2. actions' \in Nat
        BY <2>1, <3>1 DEF LexTypeOK
      <3> QED
        BY <2>1, <3>1, <3>2 DEF LexTypeOK
    <2>4. CASE closeItems
      BY <2>1, <2>4 DEF LexTypeOK, closeItems
    <2> QED
      BY <1>1, <2>2, <2>3, <2>4 DEF LexStep
  <1> QED
    BY <1>1, <1>2 DEF TInv, Typed

LEMMA ReceiveTyped == ASSUME IInv, TInv, Receive PROVE TInv'
  <1>1. /\ result = "running" /\ treeSet' = treeSet /\ result' = result
        /\ UNCHANGED <<open, pipes, at, held>>
    BY DEF Receive
  <1>2. /\ TreeOK(T) /\ IsTree(T) /\ Typed /\ Len(T.vars) \in Nat
        /\ at \notin Headers => Fits(open', trees, Len(trees))
        /\ TokensOK(held') /\ PipesOK(pipes')
    BY <1>1, Here DEF Typed
  <1>3. PICK x : /\ trees' = [trees EXCEPT ![Len(trees)] = fetched(T, x)]
                 /\ TokenOK(x) /\ LexTypeOK'
    <2>1. ASSUME NEW i \in Items, nextItem(i),
                 trees' = [trees EXCEPT
                              ![Len(trees)] = fetched(T, [typ |-> i.typ, val |-> i.val, n |-> sent'])]
          PROVE  \E x : /\ trees' = [trees EXCEPT ![Len(trees)] = fetched(T, x)]
                        /\ TokenOK(x) /\ LexTypeOK'
      <3>1. LexTypeOK'
        BY <2>1, LexItemTyped DEF TInv
      <3>2. PICK x : x = [typ |-> i.typ, val |-> i.val, n |-> sent']
        OBVIOUS
      <3>3. TokenOK(x)
        BY <3>2, ItemTyped
      <3> QED
        BY <2>1, <3>1, <3>2, <3>3
    <2>2. CASE trees' = [trees EXCEPT ![Len(trees)] = fetched(T, ZeroItem)] /\ UNCHANGED lexVars
      BY <2>2, ZeroItemOK, LexTypesStay DEF TInv
    <2> QED
      BY <2>1, <2>2 DEF Receive
  <1>4. PICK u : u = fetched(T, x) /\ TreeOK(u) /\ u.vars = T.vars
    BY <1>2, <1>3, FetchedTyped
  <1>5. trees' = [trees EXCEPT ![Len(trees)] = u]
    BY <1>3, <1>4
  <1>6. Len(T.vars) <= Len(u.vars)
    BY <1>2, <1>4
  <1> QED
    BY <1>1, <1>2, <1>3, <1>4, <1>5, <1>6, TypedMove

LEMMA SkipSpaceTyped == ASSUME IInv, TInv, SkipSpace PROVE TInv'
  <1>1. /\ result = "running" /\ treeSet' = treeSet /\ result' = result /\ T.peekCount > 0
        /\ UNCHANGED <<open, pipes, at, held>> /\ UNCHANGED lexVars
        /\ trees' = [trees EXCEPT ![Len(trees)] = next(T)]
    BY DEF SkipSpace
  <1>2. /\ TreeOK(T) /\ IsTree(T) /\ Typed /\ Len(T.vars) \in Nat
        /\ at \notin Headers => Fits(open', trees, Len(trees))
        /\ TokensOK(held') /\ PipesOK(pipes')
    BY <1>1, Here DEF Typed
  <1>3. TreeOK(next(T)) /\ Len(T.vars) <= Len(next(T).vars)
    BY <1>1, <1>2, NextTyped
  <1>4. LexTypeOK'
    BY <1>1, LexTypesStay DEF TInv
  <1> QED
    BY <1>1, <1>2, <1>3, <1>4, TypedMove

LEMMA RecoverTyped == ASSUME TInv, Recover PROVE TInv'
  <1>1. /\ result # "running" /\ result' \in {"failed", "panicking", "error", "panic"}
        /\ UNCHANGED <<trees, treeSet>>
    BY DEF Recover
  <1>2. LexTypeOK'
    BY LexItemTyped, LexTypesStay DEF Recover, TInv
  <1> QED
    BY <1>1, <1>2 DEF TInv

LEMMA AddTyped ==
    ASSUME treeSet \in [TreeNames -> Classes \cup {"none"}], NEW name, NEW class \in Classes,
           add(name, class)
    PROVE  treeSet' \in [TreeNames -> Classes \cup {"none"}]
  BY DEF add

LEMMA ParseEOFTyped == ASSUME IInv, TInv, ParseEOF PROVE TInv'
  <1>1. CASE AddStops(T.name, Top.class)
    BY <1>1, TypedAddStops
  <1>2. CASE add(T.name, Top.class) /\ trees' = <<>> /\ result' = "ok" /\ UNCHANGED lexVars
    <2>1. result = "running" /\ at = "loop"
      BY DEF ParseEOF, Parsing
    <2>2. Fits(open, trees, Len(trees)) /\ Top = open[Len(open)]
      BY <2>1, Here DEF Headers
    <2>3. Top.class \in Classes
      BY <2>2, FitsFacts
    <2> QED
      BY <1>2, <2>3, AddTyped, LexTypesStay DEF TInv
  <1> QED
    BY <1>1, <1>2 DEF ParseEOF

-----------------------------------------------------------------------------
(* The actions of the parser.                                              *)

LEMMA PushTyped ==
    ASSUME IInv, TInv, result = "running", at \notin Headers,
           NEW w, w \notin Own \cup Popped, open' = Append(open, List(w))
    PROVE  Fits(open', trees, Len(trees))
  <1>1. Fits(open, trees, Len(trees)) /\ Len(trees[Len(trees)].vars) \in Nat
    BY Here
  <1>2. PICK l : l = List(w)
    OBVIOUS
  <1>3. /\ IsList(l) /\ l.what = w /\ l.elseIf = FALSE /\ l.vars = 0 /\ l.class \in Classes
    BY <1>2, ListFields
  <1>4. l.what \notin Own /\ l.what \notin Popped
    BY <1>3
  <1>5. Fits(Append(open, l), trees, Len(trees))
    BY <1>1, <1>3, <1>4, FitsAppend
  <1> QED
    BY <1>2, <1>5

\* if, range and with
LEMMA ControlTyped ==
    ASSUME IInv, TInv, result = "running", at \notin Headers,
           NEW l, IsList(l), l.what \in {"if", "range", "with"}, l.class \in Classes,
           l.elseIf => l.what = "if" /\ Top.what = "if",
           l.vars = Len(T.vars), open' = Append(open, l)
    PROVE  Fits(open', trees, Len(trees))
  <1>1. /\ Fits(open, trees, Len(trees)) /\ Len(trees[Len(trees)].vars) \in Nat
        /\ T = trees[Len(trees)] /\ Top = open[Len(open)]
    BY Here
  <1>2. l.what \notin Own /\ l.what \in Popped
    BY DEF Own, Popped
  <1> QED
    BY <1>1, <1>2, FitsAppend

LEMMA NodeTyped ==
    ASSUME IInv, TInv, result = "running", at \notin Headers, NEW c \in Classes,
           open' = AppendNode(open, c)
    PROVE  Fits(open', trees, Len(trees))
  BY Here, FitsNode

LEMMA ParseLeftDelimTyped == ASSUME IInv, TInv, ParseLeftDelim PROVE TInv'
  <1>1. /\ Parsing("loop") /\ held' = <<Cur>> /\ Go(next(T), "define?")
        /\ UNCHANGED <<open, pipes, treeSet>>
    BY DEF ParseLeftDelim
  <1> QED
    BY <1>1, AtTyped, TypedPlain DEF Headers

LEMMA NotDefineTyped == ASSUME OInv, IInv, TInv, NotDefine PROVE TInv'
  <1>1. /\ Parsing("define?") /\ held' = <<>> /\ Go(backup2(T, held[1]), "node")
        /\ UNCHANGED <<open, pipes, treeSet>>
    BY DEF NotDefine
  <1>2. /\ result = "running" /\ at = "define?" /\ TreeOK(T) /\ IsTree(T)
        /\ Len(T.vars) \in Nat /\ TokensOK(held) /\ PipesOK(pipes)
        /\ Fits(open, trees, Len(trees))
    BY <1>1, AtTyped DEF Headers
  <1>3. held = <<held[1]>>
    BY <1>2 DEF OInv, Order, Good, Holds
  <1>4. TokenOK(held[1])
    <2>1. Len(held) = 1
      BY <1>3, OneIsSeq
    <2> QED
      BY <1>2, <2>1 DEF TokensOK
  <1>5. PICK u : u = backup2(T, held[1]) /\ TreeOK(u) /\ u.vars = T.vars
    BY <1>2, <1>4, Backup2Typed
  <1>6. Go(u, "node") /\ Len(T.vars) <= Len(u.vars)
    BY <1>1, <1>2, <1>5
  <1> QED
    BY <1>1, <1>2, <1>5, <1>6, NoTokens, TypedGo DEF Headers

\* A Tree of its own for a define or a block.
LEMMA TreesGrowTyped ==
    ASSUME IInv, TInv, result = "running", NEW u, TreeOK(u), u.vars = T.vars, NEW x \in TreeNames,
           trees' = Append([trees EXCEPT ![Len(trees)] = u], NewTree(x))
    PROVE  /\ Len(trees') = Len(trees) + 1
           /\ \A i \in 1 .. Len(trees) + 1 : TreeOK(trees'[i]) /\ Len(trees'[i].vars) \in Nat
           /\ \A i \in 1 .. Len(trees) : trees'[i].vars = trees[i].vars
  <1>1. PICK m \in Nat : m = Len(trees) /\ m >= 1 /\ IsSeq(trees) /\ T = trees[m]
    BY Here
  <1>2. PICK p : p = [trees EXCEPT ![Len(trees)] = u]
    OBVIOUS
  <1>3. IsSeq(p) /\ Len(p) = m /\ p[m] = u /\ \A i \in 1 .. m - 1 : p[i] = trees[i]
    <2>1. /\ IsSeq(p) /\ Len(p) = Len(trees)
          /\ \A i \in 1 .. Len(trees) - 1 : p[i] = trees[i]
          /\ Len(trees) > 0 => p[Len(trees)] = u
      BY <1>1, <1>2, Replacing, Zenon
    <2> QED
      BY <1>1, <2>1
  <1>4. PICK t : t = NewTree(x) /\ TreeOK(t)
    BY NewTreeTyped
  <1>5. PICK q : q = trees' /\ q = Append(p, t)
    BY <1>2, <1>4
  <1>6. Len(q) = m + 1 /\ q[m + 1] = t /\ \A i \in 1 .. m : q[i] = p[i]
    BY <1>3, <1>5, Appending
  <1>7. \A i \in 1 .. m : TreeOK(p[i]) /\ p[i].vars = trees[i].vars
    <2> SUFFICES ASSUME NEW i \in 1 .. m PROVE TreeOK(p[i]) /\ p[i].vars = trees[i].vars
      OBVIOUS
    <2>1. CASE i = m
      BY <1>1, <1>3, <2>1
    <2>2. CASE i \in 1 .. m - 1
      BY <1>1, <1>3, <2>2, Here
    <2> QED
      BY <2>1, <2>2
  <1>8. \A i \in 1 .. m + 1 : i = m + 1 \/ i \in 1 .. m
    OBVIOUS
  <1> QED
    BY <1>1, <1>4, <1>5, <1>6, <1>7, <1>8, VarsLen

LEMMA DefineTyped == ASSUME IInv, TInv, Define PROVE TInv'
  <1>1. /\ Parsing("define?") /\ held' = <<>> /\ at' = "defineName" /\ UNCHANGED lexVars
        /\ trees' = Append([trees EXCEPT ![Len(trees)] = next(T)], NewTree(MainName))
        /\ UNCHANGED <<result, open, pipes, treeSet>>
    BY DEF Define
  <1>2. /\ result = "running" /\ at = "define?" /\ TreeOK(next(T)) /\ next(T).vars = T.vars
        /\ PipesOK(pipes) /\ Fits(open, trees, Len(trees))
    BY <1>1, AtTyped DEF Headers
  <1>3. MainName \in TreeNames
    BY DEF TreeNames
  <1>4. PICK m \in Nat : m = Len(trees)
    BY <1>2, Here
  <1>5. /\ Len(trees') = m + 1
        /\ \A i \in 1 .. m + 1 : TreeOK(trees'[i]) /\ Len(trees'[i].vars) \in Nat
        /\ \A i \in 1 .. m : trees'[i].vars = trees[i].vars
    BY <1>1, <1>2, <1>3, <1>4, TreesGrowTyped
  <1>6. PICK p : p = trees'
    OBVIOUS
  <1>7. \A i \in 1 .. m : /\ Len(trees[i].vars) \in Nat /\ Len(p[i].vars) \in Nat
                          /\ Len(trees[i].vars) <= Len(p[i].vars)
    BY <1>2, <1>4, <1>5, <1>6, Here
  <1>8. Fits(open, p, m)
    BY <1>2, <1>4, <1>7, FitsGrows
  <1>9. Typed'
    BY <1>1, <1>2, <1>5, <1>6, <1>8, NoTokens DEF Typed, Headers
  <1> QED
    BY <1>1, <1>2, <1>9, LexTypesStay DEF TInv

LEMMA DefineNameTyped == ASSUME IInv, TInv, DefineName PROVE TInv'
  <1>1. CASE Fail
    BY <1>1, TypedFails
  <1>2. CASE /\ Cur.typ = "String" /\ Go([next(T) EXCEPT !.name = Cur.val], "defineDelim")
             /\ UNCHANGED <<open, pipes, held, treeSet>>
    <2>1. /\ result = "running" /\ at = "defineName" /\ TreeOK(next(T)) /\ IsTree(next(T))
          /\ next(T).vars = T.vars /\ Len(T.vars) \in Nat
          /\ TokensOK(held) /\ PipesOK(pipes) /\ TokenOK(Cur)
      BY AtTyped DEF DefineName
    <2>2. PICK x \in TreeNames : x = Cur.val
      BY <1>2, <2>1 DEF TokenOK, TreeNames
    <2>3. PICK t : t = next(T)
      OBVIOUS
    <2>4. PICK u : u = [t EXCEPT !.name = x]
      OBVIOUS
    <2>5. TreeOK(u) /\ u.vars = T.vars
      <3>1. IsTree(t) /\ TreeOK(t) /\ t.vars = T.vars
        BY <2>1, <2>3
      <3>2. TreeOK(u) /\ u.vars = t.vars
        BY <2>4, <3>1, NameTyped, Zenon
      <3> QED
        BY <3>1, <3>2
    <2>6. Go(u, "defineDelim") /\ Len(T.vars) <= Len(u.vars)
      BY <1>2, <2>1, <2>2, <2>3, <2>4, <2>5
    <2> QED
      BY <1>2, <2>1, <2>5, <2>6, TypedGo DEF Headers
  <1> QED
    BY <1>1, <1>2 DEF DefineName

LEMMA DefineDelimTyped == ASSUME IInv, TInv, DefineDelim PROVE TInv'
  <1>1. CASE Fail
    BY <1>1, TypedFails
  <1>2. CASE /\ open' = Append(open, List("define")) /\ Go(next(T), "loop")
             /\ UNCHANGED <<pipes, held, treeSet>>
    <2>1. /\ result = "running" /\ at = "defineDelim" /\ TreeOK(next(T))
          /\ next(T).vars = T.vars
          /\ TokensOK(held) /\ PipesOK(pipes)
      BY AtTyped DEF DefineDelim
    <2>2. PICK m \in Nat : /\ m = Len(trees) /\ m >= 1 /\ T = trees[m]
                           /\ \A i \in 1 .. m : TreeOK(trees[i]) /\ Len(trees[i].vars) \in Nat
      BY <2>1, Here
    <2>3. Fits(open, trees, m - 1)
      BY <2>1, <2>2, Here DEF Typed, Headers
    <2>4. PICK l : l = List("define")
      OBVIOUS
    <2>5. /\ IsList(l) /\ l.what = "define" /\ l.elseIf = FALSE /\ l.vars = 0 /\ l.class \in Classes
      BY <2>4, ListFields
    <2>6. l.what \in Own /\ l.what \notin Popped
      BY <2>5 DEF Own, Popped
    <2>7. m - 1 >= 1 /\ m - 1 \in 1 .. m
      BY <2>2, <2>3, FitsFacts
    <2>8. (m - 1) + 1 = m
      BY <2>2
    <2>9. PICK h \in 1 .. m : h = m - 1
      BY <2>7
    <2>10. Fits(Append(open, l), trees, m)
      <3>1. /\ m = IF l.what \in Own THEN h + 1 ELSE h
            /\ Len(trees[h].vars) \in Nat /\ Len(trees[m].vars) \in Nat
            /\ l.vars = IF l.what \in Popped THEN Len(trees[h].vars) ELSE 0
        BY <2>2, <2>5, <2>6, <2>8, <2>9
      <3> QED
        BY <2>3, <2>5, <2>9, <3>1, FitsAppend
    <2>11. /\ trees' = [trees EXCEPT ![Len(trees)] = next(T)] /\ at' = "loop"
           /\ UNCHANGED lexVars /\ result' = "running"
      BY <1>2, <2>1 DEF Go
    <2>12. PICK p : p = trees' /\ Len(p) = m /\ p[m] = next(T) /\ \A i \in 1 .. m - 1 : p[i] = trees[i]
      <3>1. /\ IsSeq(trees') /\ Len(trees') = Len(trees) /\ T' = next(T)
            /\ \A i \in 1 .. Len(trees) - 1 : trees'[i] = trees[i]
        BY <2>1, <2>11, Here, CurrentBecomes
      <3>2. T' = trees'[Len(trees')]
        BY <3>1, SeqBasics DEF T
      <3> QED
        BY <2>2, <3>1, <3>2
    <2>13. \A i \in 1 .. m : TreeOK(p[i]) /\ p[i].vars = trees[i].vars
      <3> SUFFICES ASSUME NEW i \in 1 .. m PROVE TreeOK(p[i]) /\ p[i].vars = trees[i].vars
        OBVIOUS
      <3>1. CASE i = m
        BY <2>1, <2>2, <2>12, <3>1
      <3>2. CASE i \in 1 .. m - 1
        BY <2>2, <2>12, <3>2
      <3> QED
        BY <3>1, <3>2
    <2>14. Fits(open', p, m)
      <3>1. \A i \in 1 .. m : /\ Len(trees[i].vars) \in Nat /\ Len(p[i].vars) \in Nat
                              /\ Len(trees[i].vars) <= Len(p[i].vars)
        BY <2>2, <2>13
      <3>2. Fits(open', trees, m)
        BY <1>2, <2>4, <2>10
      <3> QED
        BY <3>1, <3>2, FitsGrows
    <2>15. Typed'
      BY <1>2, <2>1, <2>11, <2>12, <2>13, <2>14 DEF Typed, Headers
    <2> QED
      BY <1>2, <2>11, <2>15, LexTypesStay DEF TInv
  <1> QED
    BY <1>1, <1>2 DEF DefineDelim

LEMMA NodesTyped == ASSUME IInv, TInv, Text \/ LeftDelim \/ UnexpectedInput PROVE TInv'
  <1>1. CASE UnexpectedInput
    BY <1>1, TypedFails DEF UnexpectedInput
  <1>2. CASE Text \/ LeftDelim
    <2>1. PICK k \in {"node", "loop"} : Parsing(k)
      BY <1>2 DEF Text, LeftDelim, TextOrAction
    <2>2. /\ result = "running" /\ at \notin Headers /\ k \notin Headers
          /\ TokensOK(held) /\ PipesOK(pipes) /\ Fits(open, trees, Len(trees))
      BY <2>1, AtTyped DEF Headers
    <2>3. PICK label \in {"loop", "action"} :
             Go(next(T), label) /\ UNCHANGED <<pipes, held, treeSet>>
      BY <1>2 DEF Text, LeftDelim
    <2>4. Fits(open', trees, Len(trees))
      <3>1. CASE Text
        <4>1. PICK c \in Classes : open' = AppendNode(open, c)
          BY <3>1 DEF Text, Classes
        <4> QED
          BY <2>2, <4>1, NodeTyped
      <3>2. CASE open' = open
        BY <2>2, <3>2
      <3> QED
        BY <1>2, <3>1, <3>2 DEF LeftDelim
    <2> QED
      BY <2>1, <2>2, <2>3, <2>4, TypedPlain DEF Headers
  <1> QED
    BY <1>1, <1>2

LEMMA KeywordsTyped == ASSUME IInv, TInv, Control \/ Clause \/ Command \/ Try PROVE TInv'
  <1>1. CASE Control
    <2>1. Parsing("action") /\ Cur.typ \in DOMAIN Controls
      BY <1>1 DEF Control
    <2>2. PICK w \in {"if", "range", "with"} : w = Controls[Cur.typ]
      BY <2>1, ControlsAre
    <2>3. PICK t : t = T
      OBVIOUS
    <2>4. PICK x : x = Len(t.vars)
      OBVIOUS
    <2>5. PICK k : k = List(w)
      OBVIOUS
    <2>6. PICK l : l = [k EXCEPT !.vars = x]
      OBVIOUS
    <2>7. /\ open' = Append(open, l) /\ pipes' = <<Pipe(w)>>
          /\ Go(next(T), "pipeline") /\ UNCHANGED <<held, treeSet>>
      BY <1>1, <2>2, <2>3, <2>4, <2>5, <2>6 DEF Control
    <2>8. /\ result = "running" /\ at \notin Headers /\ TokensOK(held)
      BY <2>1, AtTyped DEF Headers
    <2>9. IsList(k) /\ k.what = w /\ k.elseIf = FALSE /\ k.class \in Classes
      BY <2>5, ListFields
    <2>10. IsList(l) /\ l.vars = x
      BY <2>6, <2>9, ListVars, Zenon
    <2>11. l.what = k.what /\ l.class = k.class
      BY <2>6, <2>9, ListVars, Zenon
    <2>12. l.elseIf = k.elseIf
      BY <2>6, <2>9, ListVars, Zenon
    <2>13. Fits(open', trees, Len(trees))
      BY <2>3, <2>4, <2>7, <2>8, <2>9, <2>10, <2>11, <2>12, ControlTyped
    <2>14. PipesOK(pipes')
      BY <2>7, PlainPipe, PipesOne
    <2> QED
      BY <2>1, <2>7, <2>8, <2>13, <2>14, TypedPlain DEF Headers
  <1>2. CASE Clause
    <2>1. Parsing("action") /\ Cur.typ \in DOMAIN Clauses
      BY <1>2 DEF Clause
    <2>2. PICK label : label = Clauses[Cur.typ] /\ label \notin Headers
      BY <2>1, ClausesAre DEF Special
    <2>3. Go(next(T), label) /\ UNCHANGED <<open, pipes, held, treeSet>>
      BY <1>2, <2>2 DEF Clause
    <2>4. TokensOK(held) /\ PipesOK(pipes) /\ Fits(open, trees, Len(trees))
      BY <2>1, AtTyped DEF Headers
    <2> QED
      BY <2>1, <2>2, <2>3, <2>4, TypedPlain DEF Headers
  <1>3. CASE Command
    <2>1. /\ Parsing("action") /\ pipes' = <<Pipe("command")>> /\ Go(T, "pipeline")
          /\ UNCHANGED <<open, held, treeSet>>
      BY <1>3 DEF Command
    <2>2. TokensOK(held) /\ Fits(open, trees, Len(trees))
      BY <2>1, AtTyped DEF Headers
    <2>3. PipesOK(pipes')
      BY <2>1, PlainPipe, PipesOne
    <2> QED
      BY <2>1, <2>2, <2>3, TypedPlain DEF Headers
  <1>4. CASE Try
    <2>1. CASE Fail
      BY <2>1, TypedFails
    <2>2. CASE open' = Append(open, List("try")) /\ Go(next(T), "loop") /\ UNCHANGED <<pipes, held, treeSet>>
      <3>1. Parsing("try")
        BY <1>4 DEF Try
      <3>2. result = "running" /\ at \notin Headers /\ TokensOK(held) /\ PipesOK(pipes)
        BY <3>1, AtTyped DEF Headers
      <3>3. Fits(open', trees, Len(trees))
        BY <2>2, <3>2, PushTyped DEF Own, Popped
      <3> QED
        BY <2>2, <3>1, <3>2, <3>3, TypedPlain DEF Headers
    <2> QED
      BY <1>4, <2>1, <2>2 DEF Try
  <1> QED
    BY <1>1, <1>2, <1>3, <1>4

LEMMA NamesTyped == ASSUME IInv, TInv, BlockName \/ TemplateName \/ TemplatePipe PROVE TInv'
  <1>1. CASE BlockName
    <2>1. Parsing("blockName") /\ Cur.typ \in {"String", "Variable"}
      BY <1>1 DEF BlockName, Named
    <2>2. TokensOK(held) /\ Fits(open, trees, Len(trees)) /\ TokenOK(Cur)
      BY <2>1, AtTyped DEF Headers
    <2>3. PICK x \in TreeNames : x = Cur.val
      BY <2>1, <2>2 DEF TokenOK, TreeNames
    <2>4. pipes' = <<[Pipe("block clause") EXCEPT !.name = x]>>
      BY <1>1, <2>3 DEF BlockName
    <2>5. PipesOK(pipes')
      BY <2>4, PipeTyped, PipesOne
    <2>6. Go(next(T), "pipeline") /\ UNCHANGED <<open, held, treeSet>>
      BY <1>1 DEF BlockName
    <2> QED
      BY <2>1, <2>2, <2>5, <2>6, TypedPlain DEF Headers
  <1>2. CASE TemplateName
    <2>1. /\ Parsing("templateName") /\ Go(next(T), "templatePipe")
          /\ UNCHANGED <<open, pipes, held, treeSet>>
      BY <1>2 DEF TemplateName, Named
    <2>2. TokensOK(held) /\ PipesOK(pipes) /\ Fits(open, trees, Len(trees))
      BY <2>1, AtTyped DEF Headers
    <2> QED
      BY <2>1, <2>2, TypedPlain DEF Headers
  <1>3. CASE TemplatePipe
    <2>1. Parsing("templatePipe") /\ UNCHANGED <<held, treeSet>>
      BY <1>3 DEF TemplatePipe
    <2>2. /\ result = "running" /\ at \notin Headers
          /\ TokensOK(held) /\ PipesOK(pipes) /\ Fits(open, trees, Len(trees))
      BY <2>1, AtTyped DEF Headers
    <2>3. CASE open' = AppendNode(open, "full") /\ Go(next(T), "loop") /\ UNCHANGED pipes
      <3>1. Fits(open', trees, Len(trees))
        BY <2>2, <2>3, NodeTyped DEF Classes
      <3> QED
        BY <2>1, <2>2, <2>3, <3>1, TypedPlain DEF Headers
    <2>4. CASE pipes' = <<Pipe("template clause")>> /\ Go(T, "pipeline") /\ UNCHANGED open
      <3>1. PipesOK(pipes')
        BY <2>4, PlainPipe, PipesOne
      <3>2. Go(T, "pipeline") /\ UNCHANGED open
        BY <2>4
      <3> QED
        BY <2>1, <2>2, <3>1, <3>2, TypedPlain DEF Headers
    <2> QED
      BY <1>3, <2>3, <2>4 DEF TemplatePipe
  <1> QED
    BY <1>1, <1>2, <1>3

LEMMA DelimitersTyped == ASSUME IInv, TInv, EndControl \/ ElseControl \/ CatchControl PROVE TInv'
  <1>1. CASE Fail
    BY <1>1, TypedFails
  <1>2. CASE ~Fail
    <2>1. PICK k \in {"end", "else", "catch", "catchName"} : Parsing(k)
      BY DEF EndControl, ElseControl, CatchControl
    <2>2. PICK label : /\ label \in {"End", "Else", "Catch", "catchName"}
                       /\ Go(T, label) \/ Go(next(T), label)
                       /\ UNCHANGED <<open, pipes, held, treeSet>>
      <3>1. CASE CatchControl
        <4>1. PICK l \in {"Catch", "catchName"} :
                 l = IF at = "catch" /\ Cur.typ # "RightDelim" THEN "catchName" ELSE "Catch"
          OBVIOUS
        <4>2. Go(next(T), l) /\ UNCHANGED <<open, pipes, held, treeSet>>
          BY <3>1, <4>1 DEF CatchControl
        <4> QED
          BY <4>1, <4>2
      <3>2. CASE EndControl \/ ElseControl
        BY <1>2, <3>2 DEF EndControl, ElseControl, Delimiter
      <3> QED
        BY <3>1, <3>2
    <2>3. TokensOK(held) /\ PipesOK(pipes) /\ Fits(open, trees, Len(trees))
      BY <2>1, AtTyped DEF Headers
    <2> QED
      BY <2>1, <2>2, <2>3, TypedPlain DEF Headers
  <1> QED
    BY <1>1, <1>2

\* The list on top when the parser has come to its end.
LEMMA AtEndTyped ==
    ASSUME OInv, IInv, TInv, result = "running", at \in Nodes
    PROVE  /\ at \notin Headers /\ Fits(open, trees, Len(trees)) /\ Top = open[Len(open)]
           /\ TreeOK(T) /\ IsTree(T) /\ Len(T.vars) \in Nat /\ TokensOK(held) /\ PipesOK(pipes)
           /\ open[Len(open)].elseIf => Top.what \in {"if", "else"}
  <1>1. at \notin Headers
    BY DEF Nodes, Headers
  <1>2. /\ Fits(open, trees, Len(trees)) /\ Top = open[Len(open)] /\ Typed
        /\ TreeOK(T) /\ IsTree(T) /\ Len(T.vars) \in Nat
    BY <1>1, Here
  <1>3. Depth(open, Len(trees)) /\ Len(open) \in 1 .. Len(open)
    BY <1>2, FitsFacts
  <1>4. open[Len(open)].elseIf => Top.what \in {"if", "else"}
    BY <1>2, <1>3, DepthFacts
  <1> QED
    BY <1>1, <1>2, <1>4 DEF Typed

LEMMA LoopTyped ==
    ASSUME OInv, IInv, TInv, result = "running", at \in Nodes, NEW label \in {"loop", "elseIf"},
           Go(T, label), UNCHANGED <<pipes, held, treeSet>>, Fits(open', trees, Len(trees))
    PROVE  TInv'
  <1>1. /\ at \notin Headers /\ TreeOK(T) /\ Len(T.vars) \in Nat
        /\ TokensOK(held) /\ PipesOK(pipes)
    BY AtEndTyped
  <1> QED
    BY <1>1, TypedGo DEF Headers

LEMMA RestartTyped ==
    ASSUME OInv, IInv, TInv,
           TopLevelEnd \/ TopLevelCatch \/ NoEndOfDefinition \/ NoEnd \/ MissingCatch \/ Catch
    PROVE  TInv'
  <1>1. CASE TopLevelEnd \/ NoEndOfDefinition \/ NoEnd \/ MissingCatch
    BY <1>1, TypedFails, TypedStops DEF TopLevelEnd, NoEndOfDefinition, NoEnd, MissingCatch
  <1>2. CASE TopLevelCatch
    <2>1. /\ result = "running" /\ at \in Nodes /\ open' = AppendNode(open, "unknown")
          /\ Go(T, "loop") /\ UNCHANGED <<pipes, held, treeSet>>
      BY <1>2 DEF TopLevelCatch, Ends, Nodes
    <2>2. Fits(open', trees, Len(trees))
      BY <2>1, AtEndTyped, NodeTyped DEF Classes
    <2> QED
      BY <2>1, <2>2, LoopTyped
  <1>3. CASE Catch
    <2>1. /\ result = "running" /\ at \in Nodes /\ open' = [open EXCEPT ![Len(open)].what = "catch"]
          /\ Go(T, "loop") /\ UNCHANGED <<pipes, held, treeSet>> /\ Top.what = "try"
      BY <1>3 DEF Catch, Ends, Nodes
    <2>2. Fits(open, trees, Len(trees)) /\ open[Len(open)].what = "try" /\ ~open[Len(open)].elseIf
      BY <2>1, AtEndTyped
    <2>3. Fits(open', trees, Len(trees))
      BY <2>1, <2>2, FitsWhat DEF Own, Popped
    <2> QED
      BY <2>1, <2>3, LoopTyped
  <1> QED
    BY <1>1, <1>2, <1>3

LEMMA ElseTyped == ASSUME OInv, IInv, TInv, ElseIf \/ ElseIfIf \/ Else PROVE TInv'
  <1>1. CASE ElseIf
    <2>1. /\ result = "running" /\ at \in Nodes /\ Go(T, "elseIf")
          /\ UNCHANGED <<open, pipes, held, treeSet>>
      BY <1>1 DEF ElseIf, Ends, Nodes
    <2> QED
      BY <2>1, AtEndTyped, LoopTyped
  <1>2. CASE ElseIfIf
    <2>1. Parsing("elseIf")
      BY <1>2 DEF ElseIfIf
    <2>2. PICK t : t = T
      OBVIOUS
    <2>3. PICK x : x = Len(t.vars)
      OBVIOUS
    <2>4. PICK l : l = [List("if") EXCEPT !.elseIf = TRUE, !.vars = x]
      OBVIOUS
    <2>5. open' = Append(open, l)
      BY <1>2, <2>2, <2>3, <2>4 DEF ElseIfIf
    <2>6. pipes' = <<Pipe("if")>>
      BY <1>2 DEF ElseIfIf
    <2>7. Go(next(T), "pipeline") /\ UNCHANGED <<held, treeSet>>
      BY <1>2 DEF ElseIfIf
    <2>8. /\ result = "running" /\ at = "elseIf" /\ at \notin Headers /\ TokensOK(held)
      BY <2>1, AtTyped DEF Headers
    <2>9. IsList(l) /\ l.what = "if" /\ l.class \in Classes /\ l.vars = x
      BY <2>4, ElseIfFields
    <2>10. Top.what = "if"
      BY <2>8, Here DEF Running, ElseIfOK
    <2>11. Fits(open', trees, Len(trees))
      BY <2>2, <2>3, <2>5, <2>8, <2>9, <2>10, ControlTyped
    <2>12. PipesOK(pipes')
      BY <2>6, PlainPipe, PipesOne
    <2> QED
      BY <2>1, <2>7, <2>8, <2>11, <2>12, TypedPlain DEF Headers
  <1>3. CASE Else
    <2>1. open' = [open EXCEPT ![Len(open)].what = "else"]
      BY <1>3 DEF Else
    <2>2. /\ result = "running" /\ at \notin Headers /\ Fits(open, trees, Len(trees))
          /\ TreeOK(T) /\ Len(T.vars) \in Nat /\ TokensOK(held) /\ PipesOK(pipes)
          /\ open[Len(open)].what \in {"if", "range", "with"}
      <3>1. CASE Parsing("elseIf")
        <4>1. /\ result = "running" /\ at = "elseIf" /\ at \notin Headers
              /\ Fits(open, trees, Len(trees))
              /\ TreeOK(T) /\ Len(T.vars) \in Nat /\ TokensOK(held) /\ PipesOK(pipes)
          BY <3>1, AtTyped DEF Headers
        <4> QED
          BY <4>1, Here DEF Running, ElseIfOK
      <3>2. CASE Ends("Else") /\ Top.what \in {"range", "with"}
        <4>1. result = "running" /\ at \in Nodes
          BY <3>2 DEF Ends, Nodes
        <4> QED
          BY <3>2, <4>1, AtEndTyped
      <3> QED
        BY <1>3, <3>1, <3>2 DEF Else
    <2>3. Fits(open', trees, Len(trees))
      <3>1. open[Len(open)].what \notin Own \cup {"parse"} /\ open[Len(open)].what \in Popped
        BY <2>2 DEF Own, Popped
      <3> QED
        BY <2>1, <2>2, <3>1, FitsWhat DEF Own
    <2>4. Go(T, "loop") /\ UNCHANGED <<pipes, held, treeSet>>
      BY <1>3 DEF Else
    <2> QED
      BY <2>2, <2>3, <2>4, TypedGo DEF Headers
  <1> QED
    BY <1>1, <1>2, <1>3

\* popVars keeps the variables that were known where the list was opened.
LEMMA CloseTyped == ASSUME OInv, IInv, TInv, EndIf \/ EndCatch PROVE TInv'
  <1>1. /\ result = "running" /\ at \in Nodes
        /\ EndIf => Top.what \in Popped
        /\ EndCatch => Top.what = "catch"
        /\ Top.what \notin Own \cup {"parse"}
    BY DEF EndIf, EndCatch, Ends, Nodes, Popped, Own
  <1>2. /\ Fits(open, trees, Len(trees)) /\ Top = open[Len(open)]
        /\ TreeOK(T) /\ IsTree(T) /\ Len(T.vars) \in Nat /\ TokensOK(held) /\ PipesOK(pipes)
    BY <1>1, AtEndTyped
  <1>3. PICK m \in 2 .. Len(open) : /\ m = Outermost
                                    /\ \A i \in m .. Len(open) : open[i].what \notin Own
                                    /\ m = Len(open) \/ open[m].what = "if"
    BY <1>1, <1>2, OutermostIs, FitsFacts DEF Outermost
  <1>4. PICK n \in Nat : /\ n = Len(trees) /\ n >= 1 /\ T = trees[n] /\ IsSeq(trees)
                         /\ \A i \in 1 .. n : TreeOK(trees[i])
    BY <1>1, Here
  <1>5. PICK w : w = open[m].vars /\ w \in Nat /\ w <= Len(T.vars)
    BY <1>2, <1>3, <1>4, FitsClose
  <1>6. PICK c \in Classes : Close(c)
    BY DEF EndIf, EndCatch, Classes
  <1>7. PICK h : h = SubSeq(open, 1, m - 1)
    OBVIOUS
  <1>8. open' = AppendNode(h, c)
    BY <1>3, <1>6, <1>7 DEF Close
  <1>9. /\ at' = "loop" /\ UNCHANGED lexVars /\ UNCHANGED <<result, pipes, held, treeSet>>
    BY DEF EndIf, EndCatch, Continue
  <1>10. /\ Len(trees') = n /\ (\A i \in 1 .. n : TreeOK(trees'[i]))
         /\ Fits(h, trees', n)
    <2>1. CASE Top.what = "catch"
      <3>1. trees' = trees
        BY <1>6, <2>1 DEF Close
      <3>2. Fits(h, trees, n)
        BY <1>2, <1>3, <1>4, <1>7, FitsClose
      <3> QED
        BY <1>4, <3>1, <3>2
    <2>2. CASE Top.what \in Popped
      <3>1. PICK t : t = T
        OBVIOUS
      <3>2. PICK v : v = SubSeq(t.vars, 1, w)
        OBVIOUS
      <3>3. v \in Seq({"$"} \cup Variables) /\ Len(v) = w
        <4>1. t.vars \in Seq({"$"} \cup Variables)
          BY <1>2, <3>1 DEF TreeOK
        <4>2. \A i \in 1 .. w : t.vars[i] \in {"$"} \cup Variables
          BY <1>5, <3>1, <4>1
        <4> QED
          BY <1>5, <3>1, <3>2, <4>1, <4>2, SubSeqProperties
      <3>4. PICK u : u = [t EXCEPT !.vars = v]
        OBVIOUS
      <3>5. TreeOK(u) /\ u.vars = v
        BY <1>2, <3>1, <3>3, <3>4, VarsTyped, Zenon
      <3>6. trees' = [trees EXCEPT ![Len(trees)] = u]
        <4>1. Top.what # "catch"
          BY <2>2 DEF Popped
        <4>2. trees' = [trees EXCEPT
                          ![Len(trees)] = [T EXCEPT !.vars = SubSeq(@, 1, open[Outermost].vars)]]
          BY <1>6, <4>1 DEF Close
        <4>3. [T EXCEPT !.vars = SubSeq(@, 1, open[Outermost].vars)] = u
          BY <1>3, <1>5, <3>1, <3>2, <3>4
        <4> QED
          BY <4>2, <4>3
      <3>7. PICK p : p = trees'
        OBVIOUS
      <3>8. Len(p) = n /\ p[n] = u /\ \A i \in 1 .. n - 1 : p[i] = trees[i]
        <4>1. /\ IsSeq(p) /\ Len(p) = Len(trees)
              /\ \A i \in 1 .. Len(trees) - 1 : p[i] = trees[i]
              /\ Len(trees) > 0 => p[Len(trees)] = u
          BY <1>4, <3>6, <3>7, Replacing, Zenon
        <4> QED
          BY <1>4, <4>1
      <3>9. \A i \in 1 .. n : TreeOK(p[i])
        <4> SUFFICES ASSUME NEW i \in 1 .. n PROVE TreeOK(p[i])
          OBVIOUS
        <4>1. CASE i = n
          BY <3>5, <3>8, <4>1
        <4>2. CASE i \in 1 .. n - 1
          BY <1>4, <3>8, <4>2
        <4> QED
          BY <4>1, <4>2
      <3>10. Fits(h, p, n)
        <4>1. \A i \in 1 .. n - 1 : p[i].vars = trees[i].vars
          BY <3>8
        <4>2. open[Len(open)].what \in Popped /\ Len(p[n].vars) = open[m].vars
          BY <1>2, <1>5, <2>2, <3>3, <3>5, <3>8
        <4> QED
          BY <1>2, <1>3, <1>4, <1>7, <4>1, <4>2, FitsClose
      <3> QED
        BY <3>7, <3>8, <3>9, <3>10
    <2> QED
      BY <1>1, <2>1, <2>2
  <1>11. Fits(open', trees', n)
    BY <1>8, <1>10, FitsNode
  <1>12. Typed'
    BY <1>2, <1>9, <1>10, <1>11 DEF Typed, Headers
  <1> QED
    BY <1>1, <1>9, <1>12, LexTypesStay DEF TInv

LEMMA EndDefinitionTyped == ASSUME OInv, IInv, TInv, EndDefinition PROVE TInv'
  <1>1. /\ result = "running" /\ at \in Nodes /\ Top.what \in Own
    BY DEF EndDefinition, Ends, Nodes, Own
  <1>2. CASE AddStops(T.name, Top.class)
    BY <1>2, TypedAddStops
  <1>3. CASE ~AddStops(T.name, Top.class)
    <2>1. /\ Fits(open, trees, Len(trees)) /\ Top = open[Len(open)]
          /\ TokensOK(held) /\ PipesOK(pipes)
      BY <1>1, AtEndTyped
    <2>2. PICK n \in Nat : /\ n = Len(trees) /\ n >= 1 /\ IsSeq(trees)
                           /\ \A i \in 1 .. n : TreeOK(trees[i])
      BY <1>1, Here
    <2>3. PICK p : p = trees' /\ p = SubSeq(trees, 1, Len(trees) - 1)
      BY <1>3 DEF EndDefinition, Front
    <2>4. PICK k \in Nat : k = n - 1
      BY <2>2
    <2>5. Len(p) = k /\ \A i \in 1 .. k : p[i] = trees[i] /\ i \in 1 .. n
      BY <2>2, <2>3, <2>4, Cutting
    <2>6. PICK h : h = Front(open)
      OBVIOUS
    <2>7. Fits(h, p, k)
      <3>1. \A i \in 1 .. n - 1 : p[i].vars = trees[i].vars
        BY <2>4, <2>5
      <3>2. Fits(SubSeq(open, 1, Len(open) - 1), p, n - 1)
        BY <1>1, <2>1, <2>2, <3>1, FitsCutOwn
      <3> QED
        BY <2>4, <2>6, <3>2 DEF Front
    <2>8. Fits(open', p, k)
      <3>1. CASE open' = h
        BY <2>7, <3>1
      <3>2. CASE open' = AppendNode(h, "full")
        BY <2>7, <3>2, FitsNode DEF Classes
      <3> QED
        BY <1>3, <2>6, <3>1, <3>2 DEF EndDefinition
    <2>9. /\ at' = "loop" /\ UNCHANGED lexVars /\ UNCHANGED <<result, pipes, held>>
          /\ add(T.name, Top.class)
      BY <1>3 DEF EndDefinition
    <2>10. Typed'
      BY <2>1, <2>2, <2>3, <2>5, <2>8, <2>9 DEF Typed, Headers
    <2>11. Top.class \in Classes
      BY <2>1, FitsFacts
    <2> QED
      BY <1>1, <2>9, <2>10, <2>11, AddTyped, LexTypesStay DEF TInv
  <1> QED
    BY <1>2, <1>3

\* In a pipeline.
LEMMA InPipelineTyped ==
    ASSUME OInv, IInv, TInv, NEW k, Parsing(k), k \in InPipeline \cup {"rightParen"}
    PROVE  /\ result = "running" /\ at = k /\ k \notin Headers
           /\ Fits(open, trees, Len(trees))
           /\ TokensOK(held) /\ PipesOK(pipes) /\ Len(pipes) >= 1 /\ PipeOK(P)
  <1>1. /\ result = "running" /\ at = k /\ k \notin Headers /\ Fits(open, trees, Len(trees))
        /\ TokensOK(held) /\ PipesOK(pipes)
    BY AtTyped DEF InPipeline, Headers
  <1>2. Len(pipes) >= 1
    BY <1>1 DEF OInv, Order, Good, Parens
  <1>3. PipeOK(P)
    <2>1. PipeOK(Pipe("if"))
      BY PlainPipe
    <2> QED
      BY <1>1, <1>2, <2>1, PipesReplace DEF P
  <1> QED
    BY <1>1, <1>2, <1>3

LEMMA SetPipeTyped ==
    ASSUME PipesOK(pipes), Len(pipes) >= 1, NEW p, PipeOK(p), SetPipe(p) PROVE PipesOK(pipes')
  BY PipesReplace DEF SetPipe

LEMMA PipelineTyped == ASSUME OInv, IInv, TInv, Pipeline PROVE TInv'
  <1>1. Parsing("pipeline") /\ UNCHANGED <<open, pipes, treeSet>>
    BY DEF Pipeline
  <1>2. PICK label \in {"afterVariable", "commands"} :
           /\ Go(T, label) \/ Go(next(T), label)
           /\ held' = held \/ held' = <<Cur>>
    BY DEF Pipeline
  <1>3. /\ Fits(open, trees, Len(trees)) /\ PipesOK(pipes) /\ TokensOK(held')
        /\ "pipeline" \notin Headers
    BY <1>1, <1>2, AtTyped DEF Headers
  <1> QED
    BY <1>1, <1>2, <1>3, TypedPlain DEF Headers

LEMMA AfterVariableTyped == ASSUME OInv, IInv, TInv, AfterVariable PROVE TInv'
  <1>1. Parsing("afterVariable") /\ UNCHANGED <<open, pipes, treeSet>>
    BY DEF AfterVariable
  <1>2. /\ at = "afterVariable" /\ result = "running" /\ Fits(open, trees, Len(trees))
        /\ PipesOK(pipes) /\ TokensOK(held) /\ TokenOK(Cur)
    BY <1>1, AtTyped DEF Headers
  <1>3. PICK x : x = held[1] /\ held = <<x>>
    BY <1>2 DEF OInv, Order, Good, Holds
  <1>4. TokenOK(x)
    <2>1. Len(held) = 1
      BY <1>3, OneIsSeq
    <2> QED
      BY <1>2, <1>3, <2>1 DEF TokensOK
  <1>5. Go(T, "declaration") \/ Go(next(T), "declaration")
    BY DEF AfterVariable
  <1>6. TokensOK(held')
    <2>1. CASE held' = held
      BY <1>2, <2>1
    <2>2. CASE held' = Append(held, Cur)
      BY <1>2, <1>3, <1>4, <2>2, TwoTokens
    <2> QED
      BY <2>1, <2>2 DEF AfterVariable
  <1> QED
    BY <1>1, <1>2, <1>5, <1>6, TypedPlain DEF Headers

LEMMA AppendVars ==
    ASSUME NEW s \in Seq({"$"} \cup Variables), NEW x \in Variables
    PROVE  /\ Append(s, x) \in Seq({"$"} \cup Variables) /\ Len(s) <= Len(Append(s, x))
           /\ Used(s, x) \in Seq({"$"} \cup Variables) /\ Len(s) <= Len(Used(s, x))
  <1>1. PICK S : S = {"$"} \cup Variables /\ x \in S /\ s \in Seq(S)
    OBVIOUS
  <1>2. Append(s, x) \in Seq(S) /\ Len(Append(s, x)) = Len(s) + 1 /\ Len(s) \in Nat
    BY <1>1, AppendProperties
  <1>3. Used(s, x) = s \/ Used(s, x) = Append(s, x)
    BY DEF Used
  <1> QED
    BY <1>1, <1>2, <1>3

\* A variable is declared, or defined where it is used.
LEMMA VariableTyped ==
    ASSUME OInv, IInv, TInv, NEW k, Parsing(k), k \in {"declaration", "term"},
           NEW label \in {"pipeline", "commands", "chain"}, treeSet' = treeSet, open' = open,
           NEW x \in Variables, NEW v, v = Append(T.vars, x) \/ v = Used(T.vars, x),
           NEW t, t = next(T), Go([t EXCEPT !.vars = v], label),
           TokensOK(held'), PipesOK(pipes')
    PROVE  TInv'
  <1>1. /\ result = "running" /\ at = k /\ TreeOK(T) /\ TreeOK(t) /\ IsTree(t)
        /\ k \notin Headers /\ Fits(open, trees, Len(trees))
    BY AtTyped DEF Headers
  <1>2. v \in Seq({"$"} \cup Variables) /\ Len(T.vars) <= Len(v)
    BY <1>1, AppendVars DEF TreeOK
  <1>3. PICK u : u = [t EXCEPT !.vars = v]
    OBVIOUS
  <1>4. TreeOK(u) /\ u.vars = v
    BY <1>1, <1>2, <1>3, VarsTyped, Zenon
  <1>5. Go(u, label) /\ label \notin Headers
    BY <1>3 DEF Headers
  <1> QED
    BY <1>1, <1>2, <1>4, <1>5, TypedGo

LEMMA DeclarationsTyped ==
    ASSUME OInv, IInv, TInv, Declaration \/ TooManyDeclarations \/ NoDeclaration PROVE TInv'
  <1>1. CASE TooManyDeclarations
    BY <1>1, TypedFails DEF TooManyDeclarations
  <1>2. CASE Declaration \/ NoDeclaration
    <2>1. Parsing("declaration") /\ open' = open /\ held' = <<>> /\ treeSet' = treeSet
      BY <1>2 DEF Declaration, NoDeclaration
    <2>2. /\ result = "running" /\ at = "declaration" /\ TreeOK(T) /\ IsTree(T)
          /\ Len(T.vars) \in Nat /\ next(T).vars = T.vars
      BY <2>1, AtTyped
    <2>3. /\ TokensOK(held) /\ PipesOK(pipes) /\ Len(pipes) >= 1 /\ PipeOK(P)
          /\ Fits(open, trees, Len(trees)) /\ "declaration" \notin Headers
      BY <2>1, InPipelineTyped DEF InPipeline
    <2>4. /\ held[1].typ = "Variable"
          /\ held = <<held[1]>> \/ Len(held) = 2
      BY <2>2 DEF OInv, Order, Good, Holds
    <2>5. TokenOK(held[1]) /\ (Len(held) = 2 => TokenOK(held[2]))
      <3>1. Len(held) \in {1, 2}
        BY <2>4, OneIsSeq
      <3> QED
        BY <2>3, <3>1 DEF TokensOK
    <2>6. CASE Declaration
      <3>1. PICK x \in Variables : x = held[1].val
        BY <2>4, <2>5 DEF TokenOK
      <3>2. PICK t : t = next(T) /\ t.vars = T.vars
        BY <2>2
      <3>3. PICK v : v = Append(t.vars, x)
        OBVIOUS
      <3>4. PICK label \in {"pipeline", "commands"} : label = IF Comma THEN "pipeline" ELSE "commands"
        OBVIOUS
      <3>5. Go([t EXCEPT !.vars = v], label)
        BY <2>6, <3>1, <3>2, <3>3, <3>4 DEF Declaration
      <3>6. PipesOK(pipes')
        <4>1. PICK x1 : x1 = P.decls + 1
          OBVIOUS
        <4>2. PICK q : q = P /\ PipeOK(q)
          BY <2>3
        <4>3. PICK p : p = [q EXCEPT !.decls = x1]
          OBVIOUS
        <4>4. SetPipe(p)
          BY <2>6, <4>1, <4>2, <4>3 DEF Declaration
        <4>5. PipeOK(p)
          BY <4>2, <4>3, PipeChanges, Zenon
        <4> QED
          BY <2>3, <4>4, <4>5, SetPipeTyped
      <3>7. v = Append(T.vars, x)
        BY <3>2, <3>3
      <3> QED
        BY <2>1, <3>2, <3>5, <3>6, <3>7, NoTokens, VariableTyped
    <2>7. CASE NoDeclaration
      <3>1. PICK u : Go(u, "commands") /\ TreeOK(u) /\ u.vars = T.vars
        <4>1. CASE Len(held) = 2
          <5>1. Go(backup3(T, held[1], held[2]), "commands")
            BY <2>7, <4>1 DEF NoDeclaration
          <5> QED
            BY <2>2, <2>5, <4>1, <5>1, Backup3Typed
        <4>2. CASE Len(held) # 2
          <5>1. Go(backup2(T, held[1]), "commands")
            BY <2>7, <4>2 DEF NoDeclaration
          <5> QED
            BY <2>2, <2>5, <5>1, Backup2Typed
        <4> QED
          BY <4>1, <4>2
      <3>2. pipes' = pipes /\ Len(T.vars) <= Len(u.vars)
        BY <2>2, <2>7, <3>1 DEF NoDeclaration
      <3> QED
        BY <2>1, <2>2, <2>3, <3>1, <3>2, NoTokens, TypedGo DEF Headers
    <2> QED
      BY <1>2, <2>6, <2>7
  <1> QED
    BY <1>1, <1>2

LEMMA PipelineEndsTyped ==
    ASSUME OInv, IInv, TInv, ParenPipeline \/ ActionNode \/ ControlNode PROVE TInv'
  <1>1. PipelineEnds /\ Parsing("commands") /\ pipes' = Front(pipes) /\ UNCHANGED <<held, treeSet>>
    BY DEF ParenPipeline, ActionNode, ControlNode, PipelineEnds
  <1>2. /\ result = "running" /\ at = "commands" /\ "commands" \notin Headers
        /\ TokensOK(held) /\ PipesOK(pipes) /\ Len(pipes) >= 1 /\ Fits(open, trees, Len(trees))
    BY <1>1, InPipelineTyped DEF InPipeline
  <1>3. PICK label \in {"rightParen", "loop"} : Go(Rest, label)
    BY DEF ParenPipeline, ActionNode, ControlNode, PipelineEnds, SetRest, Go
  <1>4. Go(T, label) \/ Go(next(T), label)
    BY <1>3 DEF Rest
  <1>5. Fits(open', trees, Len(trees))
    <2>1. CASE open' = open
      BY <1>2, <2>1
    <2>2. CASE open' = AppendNode(open, "full")
      BY <1>2, <2>2, NodeTyped DEF Classes
    <2> QED
      BY <2>1, <2>2 DEF ParenPipeline, ActionNode, ControlNode
  <1>6. PipesOK(pipes')
    BY <1>1, <1>2, PipesCut
  <1> QED
    BY <1>1, <1>2, <1>4, <1>5, <1>6, TypedPlain DEF Headers

LEMMA BlockTreeTyped == ASSUME OInv, IInv, TInv, BlockTree PROVE TInv'
  <1>1. /\ Parsing("commands") /\ pipes' = Front(pipes) /\ UNCHANGED <<held, treeSet, result>>
        /\ UNCHANGED lexVars /\ at' = "loop"
        /\ trees' = Append([trees EXCEPT ![Len(trees)] = Rest], NewTree(P.name))
        /\ open' = Append(open, List("block"))
    BY DEF BlockTree, PipelineEnds
  <1>2. /\ result = "running" /\ at = "commands" /\ "commands" \notin Headers
        /\ TokensOK(held) /\ PipesOK(pipes) /\ Len(pipes) >= 1 /\ PipeOK(P)
        /\ Fits(open, trees, Len(trees))
    BY <1>1, InPipelineTyped DEF InPipeline
  <1>3. TreeOK(Rest) /\ Rest.vars = T.vars
    BY <1>1, AtTyped DEF Rest
  <1>4. P.name \in TreeNames
    BY <1>2, PipeChanges
  <1>5. PICK m \in Nat : m = Len(trees) /\ m >= 1
    BY <1>2, Here
  <1>6. PICK p : p = trees'
    OBVIOUS
  <1>7. /\ Len(p) = m + 1
        /\ \A i \in 1 .. m + 1 : TreeOK(p[i]) /\ Len(p[i].vars) \in Nat
        /\ \A i \in 1 .. m : p[i].vars = trees[i].vars
    BY <1>1, <1>2, <1>3, <1>4, <1>5, <1>6, TreesGrowTyped
  <1>8. Fits(open, p, m)
    <2>1. \A i \in 1 .. m : /\ Len(trees[i].vars) \in Nat /\ Len(p[i].vars) \in Nat
                            /\ Len(trees[i].vars) <= Len(p[i].vars)
      BY <1>2, <1>5, <1>7, Here
    <2> QED
      BY <1>2, <1>5, <2>1, FitsGrows
  <1>9. PICK l : l = List("block")
    OBVIOUS
  <1>10. /\ IsList(l) /\ l.what = "block" /\ l.elseIf = FALSE /\ l.vars = 0 /\ l.class \in Classes
    BY <1>9, ListFields
  <1>11. Fits(Append(open, l), p, m + 1)
    <2>1. l.what \in Own /\ l.what \notin Popped
      BY <1>10 DEF Own, Popped
    <2>2. Len(p[m].vars) \in Nat /\ Len(p[m + 1].vars) \in Nat
      BY <1>5, <1>7
    <2>3. PICK k : k = m + 1
      OBVIOUS
    <2>4. /\ k = IF l.what \in Own THEN m + 1 ELSE m
          /\ l.vars = IF l.what \in Popped THEN Len(p[m].vars) ELSE 0
      BY <1>10, <2>1, <2>3
    <2> QED
      BY <1>8, <1>10, <2>2, <2>3, <2>4, FitsAppend
  <1>12. PipesOK(pipes')
    BY <1>1, <1>2, PipesCut
  <1>13. Typed'
    <2>1. open' = Append(open, l) /\ held' = held /\ at' = "loop"
      BY <1>1, <1>9
    <2> QED
      BY <1>2, <1>6, <1>7, <1>11, <1>12, <2>1 DEF Typed, Headers
  <1>14. result' = result /\ treeSet' = treeSet /\ UNCHANGED lexVars
    BY <1>1
  <1> QED
    BY <1>2, <1>13, <1>14, LexTypesStay DEF TInv

LEMMA TermTyped == ASSUME OInv, IInv, TInv, FirstOperand \/ Term \/ NoTerm \/ Paren PROVE TInv'
  <1>1. PICK k \in {"commands", "term"} : Parsing(k) /\ UNCHANGED <<open, held, treeSet>>
    BY DEF FirstOperand, Term, NoTerm, Paren
  <1>2. /\ result = "running" /\ at = k /\ k \notin Headers
        /\ TokensOK(held) /\ PipesOK(pipes) /\ Len(pipes) >= 1 /\ PipeOK(P)
        /\ Fits(open, trees, Len(trees))
    BY <1>1, InPipelineTyped DEF InPipeline
  <1>3. CASE Term
    <2>1. PICK x : x = IF Cur.typ \in Literals THEN "literal" ELSE "call"
      OBVIOUS
    <2>2. SetPipe(Argument(P, x)) /\ Parsing("term")
      BY <1>3, <2>1 DEF Term
    <2>3. PipeOK(Argument(P, x))
      <3>1. PICK q : q = P /\ PipeOK(q)
        BY <1>2
      <3>2. PICK y : y = IF q.first = "none" THEN x ELSE q.first
        OBVIOUS
      <3>3. Argument(q, x) = [q EXCEPT !.first = y, !.last = x]
        BY <3>2 DEF Argument
      <3>4. PipeOK([q EXCEPT !.first = y, !.last = x])
        BY <3>1, PipeChanges
      <3> QED
        BY <3>1, <3>3, <3>4
    <2>4. PipesOK(pipes')
      BY <1>2, <2>2, <2>3, SetPipeTyped
    <2>5. CASE Cur.typ = "Variable"
      <3>1. TokenOK(Cur) /\ next(T).vars = T.vars
        BY <2>2, AtTyped
      <3>2. PICK y \in Variables : y = Cur.val
        BY <2>5, <3>1 DEF TokenOK
      <3>3. PICK t : t = next(T) /\ t.vars = T.vars
        BY <3>1
      <3>4. PICK v : v = Used(t.vars, y)
        OBVIOUS
      <3>5. Go([t EXCEPT !.vars = v], "chain")
        BY <1>3, <2>5, <3>2, <3>3, <3>4 DEF Term
      <3>6. v = Used(T.vars, y)
        BY <3>3, <3>4
      <3> QED
        BY <1>1, <1>2, <2>2, <2>4, <3>3, <3>5, <3>6, VariableTyped
    <2>6. CASE Cur.typ # "Variable"
      <3>1. Go(next(T), "chain")
        BY <1>3, <2>6 DEF Term
      <3> QED
        BY <1>1, <1>2, <2>4, <3>1, TypedPlain DEF Headers
    <2> QED
      BY <2>5, <2>6
  <1>4. CASE Paren
    <2>1. pipes' = Append(pipes, Pipe("parenthesized pipeline"))
      BY <1>4 DEF Paren
    <2>2. PipesOK(pipes')
      BY <1>2, <2>1, PlainPipe, PipesAppend
    <2>3. Go(next(T), "pipeline")
      BY <1>4 DEF Paren
    <2> QED
      BY <1>1, <1>2, <2>2, <2>3, TypedPlain DEF Headers
  <1>5. CASE FirstOperand \/ NoTerm
    <2>1. PICK label \in {"term", "afterOperand"} : Go(T, label) /\ pipes' = pipes
      BY <1>5 DEF FirstOperand, NoTerm
    <2> QED
      BY <1>1, <1>2, <2>1, TypedPlain DEF Headers
  <1> QED
    BY <1>3, <1>4, <1>5

LEMMA OperandTyped ==
    ASSUME OInv, IInv, TInv, RightParen \/ Chain \/ NextOperand \/ CommandEnds PROVE TInv'
  <1>1. CASE Fail
    BY <1>1, TypedFails
  <1>2. CASE ~Fail
    <2>1. PICK k \in {"rightParen", "chain", "afterOperand"} :
             Parsing(k) /\ UNCHANGED <<open, held, treeSet>>
      BY <1>2 DEF RightParen, Chain, NextOperand, CommandEnds
    <2>2. /\ result = "running" /\ at = k /\ k \notin Headers
          /\ TokensOK(held) /\ PipesOK(pipes) /\ Len(pipes) >= 1 /\ PipeOK(P)
          /\ Fits(open, trees, Len(trees))
      BY <2>1, InPipelineTyped DEF InPipeline
    <2>3. PICK label \in {"chain", "afterOperand", "term", "commands"} :
             Go(T, label) \/ Go(next(T), label)
      BY <1>2 DEF RightParen, Chain, NextOperand, CommandEnds
    <2>4. PICK q : q = P /\ PipeOK(q)
      BY <2>2
    <2>5. PipesOK(pipes')
      <3>1. CASE pipes' = pipes
        BY <2>2, <3>1
      <3>2. CASE RightParen
        <4>1. SetPipe(Argument(P, "call"))
          BY <1>2, <3>2 DEF RightParen
        <4>2. PICK y : y = IF q.first = "none" THEN "call" ELSE q.first
          OBVIOUS
        <4>3. Argument(q, "call") = [q EXCEPT !.first = y, !.last = "call"]
          BY <4>2 DEF Argument
        <4>4. PipeOK([q EXCEPT !.first = y, !.last = "call"])
          BY <2>4, PipeChanges
        <4>5. PipeOK(Argument(P, "call"))
          BY <2>4, <4>3, <4>4
        <4> QED
          BY <2>2, <4>1, <4>5, SetPipeTyped
      <3>3. CASE CommandEnds
        <4>1. PICK y : y = (q.bad \/ (q.cmds /\ q.first = "literal"))
          OBVIOUS
        <4>2. PICK p : p = [q EXCEPT !.cmds = TRUE, !.bad = y, !.first = "none", !.last = "none"]
          OBVIOUS
        <4>3. SetPipe(p)
          BY <2>4, <3>3, <4>1, <4>2 DEF CommandEnds
        <4>4. PipeOK(p)
          BY <2>4, <4>2, PipeChanges, Zenon
        <4> QED
          BY <2>2, <4>3, <4>4, SetPipeTyped
      <3> QED
        BY <3>1, <3>2, <3>3 DEF Chain, NextOperand
    <2> QED
      BY <2>1, <2>2, <2>3, <2>5, TypedPlain DEF Headers
  <1> QED
    BY <1>1, <1>2

-----------------------------------------------------------------------------

LEMMA InitTInv == ASSUME Init PROVE TInv
  <1>1. /\ lexState = "lexText" /\ sending = FALSE /\ parenDepth = 0 /\ atWord = "none"
        /\ sent = 0 /\ actions = 0
    BY DEF Init, LexInit
  <1>2. LexTypeOK
    <2>1. sending \in BOOLEAN
      BY Zenon DEF Init, LexInit
    <2>2. /\ lexState \in {"lexText", "lexLeftDelim", "lexEOF", "lexInsideAction", "lexBadParen",
                           "nil", "ended"}
          /\ parenDepth \in Int /\ sent \in Nat /\ actions \in Nat
          /\ atWord \in {"none", "space", "word", "number"}
      BY DEF Init, LexInit
    <2> QED
      BY <2>1, <2>2, Zenon DEF LexTypeOK
  <1>3. PICK t : t = NewTree(MainName) /\ TreeOK(t) /\ Len(t.vars) \in Nat
    <2>1. MainName \in TreeNames
      BY DEF TreeNames
    <2> QED
      BY <2>1, NewTreeTyped
  <1>4. Len(trees) = 1 /\ trees[1] = t /\ IsSeq(pipes) /\ Len(pipes) = 0
    BY <1>3, OneIsSeq, EmptyIsSeq DEF Init
  <1>5. PICK l : l = List("parse")
    OBVIOUS
  <1>6. IsList(l) /\ l.vars = 0 /\ l.what = "parse" /\ l.class \in Classes
    BY <1>5, ListFields
  <1>7. PICK o : o = open /\ o = <<l>> /\ Len(o) = 1 /\ o[1] = l
    BY <1>5, OneIsSeq DEF Init
  <1>8. PICK d : Nested(o, d) /\ d[1] = 1
    <2>1. Depth(o, 1)
      BY <1>5, <1>7, DepthAtFirst
    <2> QED
      BY <1>7, <2>1 DEF Depth
  <1>9. Kept(o, trees, d)
    <2>1. \A i \in 1 .. 1 : i = 1
      OBVIOUS
    <2> QED
      BY <1>3, <1>4, <1>6, <1>7, <1>8, <2>1 DEF Kept
  <1>10. Fits(open, trees, 1)
    BY <1>7, <1>8, <1>9 DEF Fits
  <1>11. Typed
    <2>1. at = "loop" /\ held = <<>>
      BY DEF Init
    <2>2. PipesOK(pipes)
      BY <1>4 DEF PipesOK
    <2>3. \A i \in 1 .. 1 : i = 1
      OBVIOUS
    <2> QED
      BY <1>3, <1>4, <1>10, <2>1, <2>2, <2>3, NoTokens DEF Typed, Headers
  <1>12. result = "running" /\ treeSet \in [TreeNames -> Classes \cup {"none"}]
    BY DEF Init
  <1> QED
    BY <1>2, <1>11, <1>12 DEF TInv

LEMMA NextTInv == ASSUME OInv, IInv, TInv, [Next]_vars PROVE TInv'
  <1>1. CASE UNCHANGED vars
    BY <1>1 DEF vars, lexVars, parseVars, TInv, Typed, LexTypeOK
  <1>2. CASE Lex
    BY <1>2, LexTyped
  <1>3. CASE Done
    BY <1>1, <1>3 DEF Done
  <1>4. CASE ParseNext
    <2>1. CASE Receive \/ SkipSpace \/ ParseEOF \/ Recover
      BY <2>1, ReceiveTyped, SkipSpaceTyped, ParseEOFTyped, RecoverTyped
    <2>2. CASE \/ UnexpectedEOF \/ BadName \/ BadPipeline \/ BadTerm \/ BadChain \/ BadCommand
      BY <2>2, TypedFails DEF UnexpectedEOF, BadName, BadPipeline, BadTerm, BadChain, BadCommand
    <2>3. CASE ParseLeftDelim \/ NotDefine \/ Define \/ DefineName \/ DefineDelim
      BY <2>3, ParseLeftDelimTyped, NotDefineTyped, DefineTyped, DefineNameTyped, DefineDelimTyped
    <2>4. CASE Text \/ LeftDelim \/ UnexpectedInput \/ Control \/ Clause \/ Command \/ Try
      BY <2>4, NodesTyped, KeywordsTyped
    <2>5. CASE BlockName \/ TemplateName \/ TemplatePipe \/ EndControl \/ ElseControl \/ CatchControl
      BY <2>5, NamesTyped, DelimitersTyped
    <2>6. CASE TopLevelEnd \/ TopLevelCatch \/ NoEndOfDefinition \/ NoEnd \/ MissingCatch \/ Catch
      BY <2>6, RestartTyped
    <2>7. CASE EndDefinition \/ EndIf \/ EndCatch \/ ElseIf \/ ElseIfIf \/ Else
      BY <2>7, EndDefinitionTyped, CloseTyped, ElseTyped
    <2>8. CASE Pipeline \/ AfterVariable \/ Declaration \/ TooManyDeclarations \/ NoDeclaration
      BY <2>8, PipelineTyped, AfterVariableTyped, DeclarationsTyped
    <2>9. CASE ParenPipeline \/ ActionNode \/ ControlNode \/ BlockTree
      BY <2>9, PipelineEndsTyped, BlockTreeTyped
    <2>10. CASE FirstOperand \/ Term \/ NoTerm \/ Paren \/ RightParen \/ Chain \/ NextOperand \/ CommandEnds
      BY <2>10, TermTyped, OperandTyped
    <2> QED
      BY <1>4, <2>1, <2>2, <2>3, <2>4, <2>5, <2>6, <2>7, <2>8, <2>9, <2>10, Zenon DEF ParseNext
  <1> QED
    BY <1>1, <1>2, <1>3, <1>4 DEF Next

\* TypeOK: names, look-ahead and variables have the values their types allow,
\* whatever the text; above all, popVars (parse.go) never cuts t.vars at more
\* variables than it has, however controls, else-ifs, blocks and definitions
\* are nested and wherever useVar adds a variable.
THEOREM TypeCorrect == Spec => []TypeOK
  <1>1. Init => IInv /\ OInv /\ TInv
    BY InitIInv, InitOInv, InitTInv
  <1>2. IInv /\ OInv /\ TInv /\ [Next]_vars => (IInv /\ OInv /\ TInv)'
    BY NextIInv, NextOInv, NextTInv
  <1>3. IInv /\ OInv /\ TInv => TypeOK
    <2> SUFFICES ASSUME IInv, OInv, TInv PROVE TypeOK
      OBVIOUS
    <2>1. ASSUME NEW i \in DOMAIN trees
          PROVE  /\ trees[i].name \in TreeNames /\ trees[i].peekCount \in 0 .. 3
                 /\ \A j \in 0 .. 2 : trees[i].token[j].typ \in ItemTypes
                 /\ trees[i].vars \in Seq({"$"} \cup Variables)
      <3>1. CASE result = "running"
        <4>1. Running /\ Typed
          BY <3>1 DEF IInv, TInv
        <4>2. i \in 1 .. Len(trees)
          BY <2>1, <4>1, SeqBasics DEF Running, TreesOK
        <4>3. IsTree(trees[i]) /\ TreeOK(trees[i])
          BY <4>1, <4>2 DEF Running, TreesOK, Typed
        <4> QED
          BY <4>3, TreeFields DEF TreeOK, TokenOK
      <3>2. CASE result # "running"
        <4>1. trees = <<>>
          BY <3>2 DEF TInv
        <4> QED
          BY <2>1, <4>1
      <3> QED
        BY <3>1, <3>2
    <2> QED
      BY <2>1 DEF TypeOK, TInv
  <1> QED
    BY <1>1, <1>2, <1>3, PTL DEF Spec
=============================================================================
