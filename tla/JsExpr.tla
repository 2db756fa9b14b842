------------------------------- MODULE JsExpr -------------------------------
(***************************************************************************)
(* JavaScript to template text: pugjs/transform_js_.go.                    *)
(*                                                                         *)
(* A rendered text is a sequence of words, where a parenthesis is one word *)
(* with the words in it; fields are the names that follow after a dot.  A  *)
(* statement becomes a sequence of chunks: an action between braces or     *)
(* text.  Interpolation in strings and writeTranslations are left out.     *)
(***************************************************************************)
EXTENDS JsParser

CONSTANT Funcs    \* identifiers that are template functions

Word(form, val) == [form |-> form, val |-> val, fields |-> <<>>, args |-> <<>>]
Group(words) == [Word("group", "") EXCEPT !.args = words]
Call(name, words) == Group(<<Word("name", name)>> \o words)
Null == <<Word("null", "")>>

\* template functions of the operators
ops ==
    "+" :> "__op__add" @@ "-" :> "__op__sub" @@ "*" :> "__op__mul" @@ "/" :> "__op__slash" @@
    "%" :> "__op__mod" @@ "&" :> "__op__b_and" @@ "|" :> "__op__b_or" @@ "^" :> "__op__b_xor" @@
    "<<" :> "__op__b_sleft" @@ ">>" :> "__op__b_sright" @@ ">>>" :> "__op__b_usright" @@
    "&^" :> "__op__b_andnot" @@ "&&" :> "__op__and" @@ "||" :> "__op__or" @@ "++" :> "__op__inc" @@
    "--" :> "__op__dec" @@ "==" :> "__op__eql" @@ "===" :> "__op__eql" @@ "<" :> "__op__lt" @@
    ">" :> "__op__gt" @@ "!" :> "__op__not" @@ "~" :> "__op__bitnot" @@ "!=" :> "__op__neq" @@
    "!==" :> "__op__neq" @@ "<=" :> "__op__lte" @@ ">=" :> "__op__gte" @@ "delete" :> "__op__delete"

\* an operator without a function leaves nothing in its place
Op(op) == IF op \in DOMAIN ops THEN <<Word("name", ops[op])>> ELSE <<>>

-----------------------------------------------------------------------------
(* Expressions.                                                            *)

RECURSIVE renderExpression(_, _)

\* faulty: the words of the last one come first
WordsBackwards(nodes) == FlattenSeq([i \in DOMAIN nodes |-> renderExpression(nodes[Len(nodes) + 1 - i], TRUE)])
\* the words of all, one after the other
Words(nodes) == FlattenSeq([i \in DOMAIN nodes |-> renderExpression(nodes[i], TRUE)])

\* faulty: what is null is left out
NothingForNull(node) == renderExpression(node, TRUE)
\* null renders as nothing: where the code looks at it, the word is put back
OrNull(node) == IF renderExpression(node, TRUE) = <<>> THEN Null ELSE renderExpression(node, TRUE)
WordsOrNull(nodes) == FlattenSeq([i \in DOMAIN nodes |-> OrNull(nodes[i])])

Name(identifier) == IF identifier = "range" THEN "__Range" ELSE identifier
Variable(name) == <<Word("var", name)>>

\* left.name, after the last word of left
Member(left, name) ==
    IF left = <<>> THEN <<[Word("field", "") EXCEPT !.fields = <<name>>]>>
    ELSE [left EXCEPT ![Len(left)].fields = Append(@, name)]

\* the text "$" before a rendered word
Dollar(word) ==
    CASE word.form \in {"var", "name"} -> [word EXCEPT !.form = "var"]
      [] word.form = "group" /\ word.args # <<>> /\ word.args[1] = Word("name", "__pug__index") -> word
      [] OTHER -> [word EXCEPT !.form = "malformed"]

\* a[b] = c and a.b = c call a function; what is assigned to an element, and
\* the array it is in, are rendered without "$"
AssignElement(array, index, right) ==
    LET a == renderExpression(array, FALSE)
        twice == Len(a) # 1 \/ a[1].form # "name" \/ a[1].fields # <<>>
        target == IF twice THEN Word("malformed", "") ELSE Word("var", a[1].val)
    IN  <<Group(<<[target EXCEPT !.fields = <<"__assign">>]>>
                \o renderExpression(index, TRUE) \o renderExpression(right, FALSE))>>

AssignField(object, name, right) ==
    LET left == Member(renderExpression(object, TRUE), "__assign")
    IN  <<Group([left EXCEPT ![1] = Dollar(@)] \o <<Word("string", name)>> \o right)>>

AssignVariable(name, op, right) ==
    Variable(name) \o <<Word("sign", ":=")>>
        \o (IF op = "=" THEN <<>> ELSE Variable(name) \o Op(op)) \o right

renderAssign(node) ==
    LET left == node.sub[1]
    IN  CASE left.kind = "Bracket" -> AssignElement(left.sub[1], left.sub[2], node.sub[2])
          [] left.kind = "Dot" -> AssignField(left.sub[1], Name(left.op), OrNull(node.sub[2]))
          [] OTHER -> AssignVariable(Name(left.op), node.op, OrNull(node.sub[2]))

\* the words of "++" and of the other operators with one operand
renderUnary(node) ==
    LET operand == renderExpression(node.sub[1], TRUE)
    IN  IF node.op = "++" THEN operand \o <<Word("sign", ":=")>> \o Op("++") \o operand
        ELSE Op(node.op) \o operand

\* without wrap; dot puts "$" before a name that is not a function
renderExpression(node, dot) ==
    CASE node.kind = "Identifier" ->
            <<Word(IF dot /\ node.op \notin Funcs THEN "var" ELSE "name", Name(node.op))>>
      [] node.kind = "String" -> <<Word("string", node.op)>>
      [] node.kind = "Number" -> <<Word("number", node.op)>>
      [] node.kind = "Boolean" -> <<Word("bool", node.op)>>
      [] node.kind = "Null" -> <<>>
      [] node.kind \in {"Array", "Sequence"} -> <<Call("__op__array", WordsOrNull(node.sub))>>
      [] node.kind = "New" -> <<Call("__op__array", WordsOrNull(Tail(node.sub)))>>
      [] node.kind = "Object" ->
            <<Call("__op__map", FlattenSeq([i \in DOMAIN node.sub |->
                  <<Word("string", node.sub[i].op)>> \o renderExpression(node.sub[i].sub[1], TRUE)]))>>
      [] node.kind = "Dot" -> Member(renderExpression(node.sub[1], TRUE), Name(node.op))
      [] node.kind = "Conditional" ->
            <<Call("__if", <<Group(renderExpression(node.sub[1], TRUE)),
                             Group(OrNull(node.sub[2])), Group(OrNull(node.sub[3]))>>)>>
      [] node.kind = "Binary" -> <<Group(Op(node.op) \o Words(node.sub))>>
      [] node.kind = "Call" -> <<Group(renderExpression(node.sub[1], FALSE) \o Words(Tail(node.sub)))>>
      [] node.kind = "Assign" -> renderAssign(node)
      [] node.kind = "Variable" ->
            Variable(node.op) \o <<Word("sign", ":=")>> \o (IF node.sub = <<>> THEN Null ELSE OrNull(node.sub[1]))
      [] node.kind = "Bracket" -> <<Call("__pug__index", Words(node.sub))>>
      [] node.kind \in {"Unary", "Postfix"} -> <<Group(renderUnary(node))>>

-----------------------------------------------------------------------------
(* Statements.                                                             *)

Chunk(kind, words) == [kind |-> kind, words |-> words]

\* wrap: the text of an expression statement; a literal is printed as it is,
\* and so is a sequence
Wrapped(node) ==
    CASE node.kind \in {"String", "Number", "Boolean", "Sequence"} -> Chunk("text", renderExpression(node, TRUE))
      [] node.kind = "Null" -> Chunk("action", Null)
      [] node.kind \in {"Unary", "Postfix"} -> Chunk("action", renderUnary(node))
      [] OTHER -> Chunk("action", renderExpression(node, TRUE))

Expression(node, wrap) ==
    <<IF wrap THEN Wrapped(node) ELSE Chunk("operand", renderExpression(node, TRUE))>>

RECURSIVE renderStatement(_, _)
renderStatement(node, wrap) ==
    CASE node.kind \in {"Expression", "Throw"} -> Expression(node.sub[1], wrap)
      [] node.kind = "VariableStatement" ->
            FlattenSeq([i \in DOMAIN node.sub |-> Expression(node.sub[i], wrap)])
      [] node.kind = "Return" -> IF node.sub = <<>> THEN <<>> ELSE Expression(node.sub[1], wrap)
      [] node.kind = "Block" ->
            FlattenSeq([i \in DOMAIN node.sub |-> renderStatement(node.sub[i], wrap)])
      [] node.kind = "If" ->
            LET alternate == IF Len(node.sub) = 3 THEN renderStatement(node.sub[3], TRUE) ELSE <<>>
            IN  <<Chunk("if", renderExpression(node.sub[1], TRUE))>> \o renderStatement(node.sub[2], TRUE)
                \o (IF alternate \in {<<>>, <<Chunk("action", Null)>>} THEN <<>>
                    ELSE <<Chunk("else", <<>>)>> \o alternate)
                \o <<Chunk("end", <<>>)>>
      [] node.kind = "ForIn" ->
            <<Chunk("range", renderExpression(node.sub[1], TRUE) \o <<Word("sign", ":=")>>
                    \o <<Call("__range_helper_keys__", renderExpression(node.sub[2], TRUE))>>)>>
            \o renderStatement(node.sub[3], TRUE) \o <<Chunk("end", <<>>)>>
      [] node.kind = "Try" ->
            <<Chunk("try", <<>>)>> \o renderStatement(node.sub[1], wrap) \o <<Chunk("catch", <<>>)>>
            \o renderStatement(node.sub[2].sub[1], wrap) \o <<Chunk("end", <<>>)>>

\* What the rendering of a node looks at: the callee of new and the block
\* after finally are not.
Rendered(node) ==
    CASE node.kind = "New" -> Tail(node.sub)
      [] node.kind = "Try" -> SubSeq(node.sub, 1, 2)
      [] OTHER -> node.sub

Known ==
    {"Identifier", "String", "Number", "Boolean", "Null", "Array", "Sequence", "New", "Object",
     "Property", "Dot", "Conditional", "Binary", "Call", "Assign", "Variable", "Bracket", "Unary",
     "Postfix", "Expression", "Throw", "VariableStatement", "Return", "Block", "If", "ForIn",
     "Try", "Catch"}

\* everything else panics: "unknown expression", and a try without a catch
RECURSIVE CanRender(_)
CanRender(node) ==
    /\ node.kind \in Known
    /\ node.kind = "Try" => node.sub[2].kind = "Catch"
    /\ \A i \in DOMAIN Rendered(node) : CanRender(Rendered(node)[i])

-----------------------------------------------------------------------------
(* What the compiler calls.  "panic" is an error of the template.          *)

\* p is what parse made of the source, and of "return" and the source
\* within a function
StrToStatements(p) == IF p.error = 0 THEN p.val ELSE <<Bad>>

\* faulty: the first function in the program is taken
AnyFunction(p) ==
    LET first == p.val[1].sub[1]
        f == IF first.kind = "Sequence" THEN first.sub[1] ELSE first
    IN  IF p.error = 0 /\ f.kind = "Function" THEN Last(f.sub).sub ELSE <<Bad>>
\* the first statement has to be the function
FuncToStatements(p) ==
    IF p.error = 0 /\ p.val[1].kind = "Expression" /\ p.val[1].sub[1].kind = "Function"
    THEN Last(p.val[1].sub[1].sub).sub
    ELSE <<Bad>>

JsExpr(statements, wrap) ==
    IF \A i \in DOMAIN statements : CanRender(statements[i])
    THEN FlattenSeq([i \in DOMAIN statements |-> renderStatement(statements[i], wrap)])
    ELSE <<Chunk("panic", <<>>)>>
=============================================================================
