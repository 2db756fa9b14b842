------------------------------ MODULE JsParser ------------------------------
(***************************************************************************)
(* The JavaScript parser that reads the code of the pug templates:         *)
(* otto/parser (lexer.go, expression.go, statement.go, scope.go).          *)
(*                                                                         *)
(* A source is a sequence of lexemes with blanks between: words,           *)
(* punctuation and "NL".  Each function of the parser is an operator from  *)
(* parser to parser, that leaves the node it returns in val.  Comments,    *)
(* what is inside of a string or a number, and escapes in a regular        *)
(* expression are left out.                                                *)
(***************************************************************************)
EXTENDS Integers, Sequences, SequencesExt, FiniteSetsExt, TLC

CONSTANTS Identifiers, Numbers, Strings    \* lexemes

Keywords ==
    {"if", "in", "do", "var", "for", "new", "try", "this", "else", "case", "void", "with",
     "while", "break", "catch", "throw", "return", "typeof", "delete", "switch", "default",
     "finally", "function", "continue", "debugger", "instanceof"}
Reserved == {"class", "enum"}

Token(lexeme) ==
    CASE lexeme \in Identifiers -> "IDENTIFIER"
      [] lexeme \in Numbers -> "NUMBER"
      [] lexeme \in Strings -> "STRING"
      [] lexeme \in {"true", "false"} -> "BOOLEAN"
      [] lexeme = "null" -> "NULL"
      [] lexeme \in Reserved -> "KEYWORD"
      [] OTHER -> lexeme

\* The tokens that a line may end after.
Inserting ==
    {"IDENTIFIER", "NUMBER", "STRING", "BOOLEAN", "NULL", "this", "break", "throw", "return",
     "continue", "debugger", ")", "]", "}", "++", "--", "/", "/="}
\* scan returns for these without an assignment to insertSemicolon.
Unassigned == {"KEYWORD"} \cup (Keywords \ Inserting)

-----------------------------------------------------------------------------
(* The state of the parser.                                                *)

Node(kind, op, sub) == [kind |-> kind, op |-> op, sub |-> sub]
Leaf(kind, op) == Node(kind, op, <<>>)
None == Leaf("None", "")
Bad == Leaf("Bad", "")

Scope == [allowIn |-> TRUE, inIteration |-> FALSE, inSwitch |-> FALSE, inFunction |-> FALSE,
          labels |-> <<>>]

newParser(source) ==
    [src |-> Append(source, "EOF"), pos |-> 0, tok |-> "", insert |-> FALSE, implicit |-> FALSE,
     scopes |-> <<>>, recover |-> [idx |-> 0, count |-> 0], error |-> 0, val |-> None]

literal(p) == p.src[p.pos]
scope(p) == Last(p.scopes)
SetScope(p, field, value) == [p EXCEPT !.scopes[Len(p.scopes)][field] = value]
Return(p, node) == [p EXCEPT !.val = node]

\* Only how far the parser had read at the first error is kept.
error(p) == [p EXCEPT !.error = IF @ = 0 THEN p.pos ELSE @]

\* scan: a line end counts only after a token that can end a statement
next(p) ==
    LET i == Min({j \in p.pos + 1 .. Len(p.src) : p.src[j] # "NL"} \cup {Len(p.src)})
        newline == i > p.pos + 1
        t == Token(p.src[i])
    IN  [p EXCEPT !.pos = i, !.tok = t,
                  !.implicit = p.insert /\ (newline \/ t = "EOF"),
                  !.insert = IF t \in Unassigned THEN p.insert /\ ~newline ELSE t \in Inserting]

\* faulty: another token is taken as well
ExpectAny(p, t) == next(p)
expect(p, t) == next(IF p.tok = t THEN p ELSE error(p))

optionalSemicolon(p) ==
    CASE p.tok = ";" -> next(p)
      [] p.tok # ";" /\ p.implicit -> [p EXCEPT !.implicit = FALSE]
      [] OTHER -> IF p.tok \in {"EOF", "}"} THEN p ELSE expect(p, ";")

semicolon(p) ==
    CASE p.tok \in {")", "}"} -> p
      [] p.tok \notin {")", "}"} /\ p.implicit -> [p EXCEPT !.implicit = FALSE]
      [] OTHER -> expect(p, ";")

Sync == {"break", "continue", "for", "if", "return", "switch", "var", "do", "try", "with",
         "while", "throw", "catch", "finally"}

RECURSIVE nextStatement(_)
nextStatement(p) ==
    CASE p.tok = "EOF" -> p
      [] p.tok \in Sync /\ p.pos = p.recover.idx /\ p.recover.count < 10 ->
            [p EXCEPT !.recover.count = @ + 1]
      [] p.tok \in Sync /\ p.pos > p.recover.idx ->
            [p EXCEPT !.recover = [idx |-> p.pos, count |-> 0]]
      [] OTHER -> nextStatement(next(p))

Recovered(p) == Return(nextStatement(p), Bad)
Illegal(p) == Recovered(error(p))

openScope(p) == [p EXCEPT !.scopes = Append(@, Scope)]
closeScope(p) == [p EXCEPT !.scopes = Front(@)]

\* labels are not looked up across a function
hasLabel(p, label) ==
    \E i \in DOMAIN p.scopes :
        /\ label \in Range(p.scopes[i].labels)
        /\ \A j \in i + 1 .. Len(p.scopes) : ~p.scopes[j].inFunction

-----------------------------------------------------------------------------
(* Expressions.                                                            *)

\* The rules of the grammar.  One operator calls all of those that lead back
\* to themselves.
RECURSIVE Rule(_, _, _), parseMembers(_, _), parseUnaryExpression(_),
          parseBinaryExpression(_, _), parseOperators(_, _)
parseAssignmentExpression(p) == Rule("AssignmentExpression", p, None)
parseLeftHandSideExpression(p) == Rule("LeftHandSideExpression", p, None)
parseStatements(p, list) == Rule("Statements", p, list)
parseExpressions(p, list) == Rule("Expressions", p, list)
parseProperties(p, list) == Rule("Properties", p, list)
parseElements(p, list) == Rule("Elements", p, list)
parseParameters(p, list) == Rule("Parameters", p, list)
parseClauses(p, list) == Rule("Clauses", p, list)
parseConsequent(p, list) == Rule("Consequent", p, list)
parseDeclarations(p, list) == Rule("Declarations", p, list)
parseSourceElements(p, list) == Rule("SourceElements", p, list)
parseCallee(p) == Rule("Callee", p, None)
parseForOrForInStatement(p) == Rule("ForOrForInStatement", p, None)
parseBlockStatement(p) == Rule("BlockStatement", p, None)
parseSignatureAndBlock(p, name) == Rule("SignatureAndBlock", p, name)
parseStatement(p) == Rule("Statement", p, None)

\* what stands between commas, after list
Expressions(p, list) ==
    LET e == parseAssignmentExpression(p)
    IN  IF e.tok = "," THEN parseExpressions(next(e), Append(list, e.val))
        ELSE Return(e, Append(list, e.val))

parseExpression(p) ==
    LET e == parseExpressions(p, <<>>)
    IN  IF Len(e.val) = 1 THEN Return(e, e.val[1]) ELSE Return(e, Node("Sequence", "", e.val))

parseArgumentList(p) ==
    LET q == expect(p, "(")
    IN  expect(IF q.tok = ")" THEN Return(q, <<>>) ELSE parseExpressions(q, <<>>), ")")

BlockStatement(p) ==
    expect(LET list == parseStatements(expect(p, "{"), <<>>)
           IN  Return(list, Node("Block", "", list.val)), "}")

parseFunctionBlock(p) ==
    closeScope(parseBlockStatement(SetScope(openScope(p), "inFunction", TRUE)))

\* parseFunctionParameterList; a comma may follow the last name
Parameters(p, list) ==
    IF p.tok \in {")", "EOF"} THEN Return(p, list)
    ELSE LET q == expect(p, "IDENTIFIER")
             names == IF p.tok = "IDENTIFIER" THEN Append(list, Leaf("Identifier", literal(p))) ELSE list
         IN  parseParameters(IF q.tok = ")" THEN q ELSE expect(q, ","), names)

SignatureAndBlock(p, name) ==
    LET parameters == expect(parseParameters(expect(p, "("), <<>>), ")")
        body == parseFunctionBlock(parameters)
    IN  Return(body, Node("Function", name, Append(parameters.val, body.val)))

parseFunction(p, declaration) ==
    LET q == expect(p, "function")
    IN  IF q.tok = "IDENTIFIER" THEN parseSignatureAndBlock(next(q), literal(q))
        ELSE parseSignatureAndBlock(IF declaration THEN expect(q, "IDENTIFIER") ELSE q, "")

\* a slash within brackets is part of a pattern
InBrackets(p, i) ==
    \E j \in p.pos + 1 .. i - 1 : p.src[j] = "[" /\ \A k \in j + 1 .. i - 1 : p.src[k] # "]"

\* TransformRegExp and regexp.Compile, for lexemes with blanks between: the
\* groups are closed and nothing is repeated twice
ValidPattern(p, end) ==
    LET free == {i \in p.pos + 1 .. end - 1 : ~InBrackets(p, i)}
        Count(paren, i) == Cardinality({j \in free : j <= i /\ p.src[j] = paren})
    IN  /\ \A i \in free : Count(")", i) <= Count("(", i) /\ p.src[i] # "++"
        /\ Count(")", end) = Count("(", end)

\* scanString: the slash is missing where the line ends; within brackets this
\* is an error at the end of the source only
ScanRegExp(p, end) ==
    IF CASE p.src[end] = "NL" -> InBrackets(p, end)
         [] p.src[end] = "EOF" -> FALSE
         [] OTHER -> ValidPattern(p, end)
    THEN p ELSE error([p EXCEPT !.pos = end])

\* The lexemes up to the slash are no tokens.  A "/=" ends a pattern as well,
\* and leaves "=".  The name that follows, on any line, has the flags.
parseRegExpLiteral(p) ==
    LET end == Min({i \in p.pos + 1 .. Len(p.src) :
                       p.src[i] \in {"NL", "EOF"} \/ (p.src[i] \in {"/", "/="} /\ ~InBrackets(p, i))})
        closed == p.src[end] \in {"/", "/="}
        scanned == ScanRegExp(p, end)
        q == IF p.src[end] = "/=" THEN [scanned EXCEPT !.pos = end, !.tok = "=", !.implicit = FALSE, !.insert = FALSE]
             ELSE next([scanned EXCEPT !.pos = IF p.src[end] = "EOF" THEN end - 1 ELSE end])
        pattern == SubSeq(p.src, p.pos, IF closed THEN end ELSE end - 1)
        parts == [i \in DOMAIN pattern |-> Leaf("Pattern", pattern[i])]
    IN  IF q.tok = "IDENTIFIER" THEN Return(next(q), Node("RegExp", literal(q), parts))
        ELSE Return(q, Node("RegExp", "", parts))

\* anything can be a key: what is neither a word nor a literal is the key ""
IsWord(t) == t \in {"IDENTIFIER", "BOOLEAN", "NULL", "KEYWORD"} \cup Keywords
Key(p) == IF IsWord(p.tok) \/ p.tok \in {"STRING", "NUMBER"} THEN literal(p) ELSE ""

parseObjectProperty(p) ==
    LET q == next(p)
    IN  IF literal(p) \in {"get", "set"} /\ q.tok # ":"
        THEN LET f == parseSignatureAndBlock(next(q), "")
             IN  Return(f, Node(literal(p), Key(q), <<f.val>>))
        ELSE LET e == parseAssignmentExpression(expect(q, ":"))
             IN  Return(e, Node("Property", Key(p), <<e.val>>))

\* parseObjectLiteral; the commas may be missing
Properties(p, list) ==
    IF p.tok \in {"}", "EOF"} THEN Return(expect(p, "}"), Node("Object", "", list))
    ELSE LET q == parseObjectProperty(p)
         IN  parseProperties(IF q.tok = "," THEN next(q) ELSE q, Append(list, q.val))

\* parseArrayLiteral
Elements(p, list) ==
    CASE p.tok \in {"]", "EOF"} -> Return(expect(p, "]"), Node("Array", "", list))
      [] p.tok = "," -> parseElements(next(p), Append(list, Leaf("EmptyExpression", "")))
      [] OTHER ->
            LET e == parseAssignmentExpression(p)
            IN  parseElements(IF e.tok = "]" THEN e ELSE expect(e, ","), Append(list, e.val))

Literals ==
    [IDENTIFIER |-> "Identifier", NULL |-> "Null", BOOLEAN |-> "Boolean", STRING |-> "String",
     NUMBER |-> "Number", this |-> "This"]

parsePrimaryExpression(p) ==
    CASE p.tok \in DOMAIN Literals -> Return(next(p), Leaf(Literals[p.tok], literal(p)))
      [] p.tok \in {"/", "/="} -> parseRegExpLiteral(p)
      [] p.tok = "{" -> parseProperties(next(p), <<>>)
      [] p.tok = "[" -> parseElements(next(p), <<>>)
      [] p.tok = "(" -> expect(parseExpression(next(p)), ")")
      [] p.tok = "function" -> parseFunction(p, FALSE)
      [] OTHER -> Illegal(p)

parseNewExpression(p) ==
    LET callee == parseLeftHandSideExpression(next(p))
        list == IF callee.tok = "(" THEN parseArgumentList(callee) ELSE Return(callee, <<>>)
    IN  Return(list, Node("New", "", <<callee.val>> \o list.val))

\* parseDotMember, parseBracketMember, and parseCallExpression where calls
\* are allowed
parseMembers(p, calls) ==
    CASE p.tok = "." ->
            LET q == next(p)
            IN  parseMembers(IF IsWord(q.tok) THEN Return(next(q), Node("Dot", literal(q), <<p.val>>))
                             ELSE Recovered(expect(q, "IDENTIFIER")), calls)
      [] p.tok = "[" ->
            LET e == parseExpression(next(p))
            IN  parseMembers(Return(expect(e, "]"), Node("Bracket", "", <<p.val, e.val>>)), calls)
      [] p.tok = "(" /\ calls ->
            LET list == parseArgumentList(p)
            IN  parseMembers(Return(list, Node("Call", "", <<p.val>> \o list.val)), calls)
      [] OTHER -> p

Callee(p) == IF p.tok = "new" THEN parseNewExpression(p) ELSE parsePrimaryExpression(p)
LeftHandSideExpression(p) == parseMembers(parseCallee(p), FALSE)
parseLeftHandSideExpressionAllowCall(p) ==
    LET e == parseMembers(parseCallee(SetScope(p, "allowIn", TRUE)), TRUE)
    IN  SetScope(e, "allowIn", scope(p).allowIn)

Assignable(node) == node.kind \in {"Identifier", "Dot", "Bracket"}

\* no line end before the operator
AfterOperand(e) ==
    IF e.tok \notin {"++", "--"} \/ e.implicit THEN e
    ELSE IF Assignable(e.val) THEN Return(next(e), Node("Postfix", e.tok, <<e.val>>))
    ELSE Recovered(next(error(e)))
parsePostfixExpression(p) == AfterOperand(parseLeftHandSideExpressionAllowCall(p))

parseUnaryExpression(p) ==
    IF p.tok \notin {"+", "-", "!", "~", "delete", "void", "typeof", "++", "--"}
    THEN parsePostfixExpression(p)
    ELSE LET e == parseUnaryExpression(next(p))
         IN  IF p.tok \in {"++", "--"} /\ ~Assignable(e.val) THEN Illegal(e)
             ELSE Return(e, Node("Unary", p.tok, <<e.val>>))

\* From parseLogicalOrExpression to parseMultiplicativeExpression.
Levels ==
    << {"||"}, {"&&"}, {"|"}, {"^"}, {"&"}, {"==", "!=", "===", "!=="},
       {"<", "<=", ">", ">=", "instanceof", "in"}, {"<<", ">>", ">>>"}, {"+", "-"}, {"*", "/", "%"} >>
Relational == 7

\* faulty: what is on the right may have operators of the same level
OperatorsFromTheRight(p, level) ==
    LET own == {l \in level .. Len(Levels) : p.tok \in Levels[l]}
        right == parseBinaryExpression(next(p), Min(own))
    IN  IF own = {} \/ (p.tok = "in" /\ ~scope(p).allowIn) THEN p
        ELSE parseOperators(Return(right, Node("Binary", p.tok, <<p.val, right.val>>)), level)
\* The functions of the levels call one another, the loosest first.  After an
\* operand this comes to: its operators from level on, each with what binds
\* tighter on its right.  The relational ones group from the right.
parseOperators(p, level) ==
    LET own == {l \in level .. Len(Levels) : p.tok \in Levels[l]}
        relational == own = {Relational}
        right == IF relational
                 THEN SetScope(parseBinaryExpression(next(SetScope(p, "allowIn", TRUE)), Relational),
                               "allowIn", scope(p).allowIn)
                 ELSE parseBinaryExpression(next(p), Min(own) + 1)
    IN  IF own = {} \/ (p.tok = "in" /\ ~scope(p).allowIn) THEN p
        ELSE parseOperators(Return(right, Node("Binary", p.tok, <<p.val, right.val>>)), level)

parseBinaryExpression(p, level) == parseOperators(parseUnaryExpression(p), level)

AfterTest(test) ==
    IF test.tok # "?" THEN test
    ELSE LET consequent == parseAssignmentExpression(next(test))
             alternate == parseAssignmentExpression(expect(consequent, ":"))
         IN  Return(alternate, Node("Conditional", "", <<test.val, consequent.val, alternate.val>>))
parseConditionalExpression(p) == AfterTest(parseBinaryExpression(p, 1))

\* the assignments, with the operator they apply
Assigning ==
    "=" :> "=" @@ "+=" :> "+" @@ "-=" :> "-" @@ "*=" :> "*" @@ "/=" :> "/" @@ "%=" :> "%" @@
    "&=" :> "&" @@ "&^=" :> "&^" @@ "|=" :> "|" @@ "^=" :> "^" @@ "<<=" :> "<<" @@
    ">>=" :> ">>" @@ ">>>=" :> ">>>"

AfterLeft(left) ==
    IF left.tok \notin DOMAIN Assigning THEN left
    ELSE IF ~Assignable(left.val) THEN Recovered(next(error(left)))
    ELSE LET right == parseAssignmentExpression(next(left))
         IN  Return(right, Node("Assign", Assigning[left.tok], <<left.val, right.val>>))
AssignmentExpression(p) == AfterLeft(parseConditionalExpression(p))

-----------------------------------------------------------------------------
(* Statements.                                                             *)

\* parseVariableDeclarationList
Declarations(p, list) ==
    LET name == expect(p, "IDENTIFIER")
        d == IF p.tok # "IDENTIFIER" THEN Recovered(name)
             ELSE IF name.tok # "=" THEN Return(name, Leaf("Variable", literal(p)))
             ELSE LET e == parseAssignmentExpression(next(name))
                  IN  Return(e, Node("Variable", literal(p), <<e.val>>))
        declared == Append(list, d.val)
    IN  IF d.tok = "," THEN parseDeclarations(next(d), declared) ELSE Return(d, declared)

parseVariableStatement(p) ==
    LET list == parseDeclarations(next(p), <<>>)
    IN  semicolon(Return(list, Node("VariableStatement", "", list.val)))

parseIterationStatement(p) ==
    LET body == parseStatement(SetScope(p, "inIteration", TRUE))
    IN  SetScope(body, "inIteration", scope(p).inIteration)

\* an expression in parentheses
parseHead(p) == expect(parseExpression(expect(p, "(")), ")")

parseIfStatement(p) ==
    LET test == parseHead(next(p))
        consequent == parseStatement(test)
        parts == <<test.val, consequent.val>>
    IN  IF consequent.tok # "else" THEN Return(consequent, Node("If", "", parts))
        ELSE LET alternate == parseStatement(next(consequent))
             IN  Return(alternate, Node("If", "", Append(parts, alternate.val)))

\* while and with
parseWhileStatement(p) ==
    LET test == parseHead(next(p))
        body == IF p.tok = "while" THEN parseIterationStatement(test) ELSE parseStatement(test)
    IN  Return(body, Node("Head", p.tok, <<test.val, body.val>>))

parseDoWhileStatement(p) ==
    LET body == parseStatement(next(SetScope(p, "inIteration", TRUE)))
        test == parseHead(expect(body, "while"))
    IN  SetScope(Return(test, Node("DoWhile", "", <<body.val, test.val>>)),
                 "inIteration", scope(p).inIteration)

parseForIn(p, into) ==
    LET source == expect(parseExpression(p), ")")
        body == parseIterationStatement(source)
    IN  Return(body, Node("ForIn", "", <<into, source.val, body.val>>))

parseFor(p, initializer) ==
    LET test == IF p.tok = ";" THEN Return(p, None) ELSE parseExpression(p)
        q == expect(test, ";")
        update == expect(IF q.tok = ")" THEN Return(q, None) ELSE parseExpression(q), ")")
        body == parseIterationStatement(update)
    IN  Return(body, Node("For", "", <<initializer, test.val, update.val, body.val>>))

\* allowIn: the "in" of a for-in statement is not an operator
ForOrForInStatement(p) ==
    LET q == expect(next(p), "(")
        noIn == SetScope(q, "allowIn", FALSE)
        left == CASE q.tok = ";" -> Return(q, <<>>)
                  [] q.tok = "var" -> parseDeclarations(next(noIn), <<>>)
                  [] OTHER -> LET e == parseExpression(noIn) IN Return(e, <<e.val>>)
        forIn == Len(left.val) = 1 /\ left.tok = "in"
        r == SetScope(IF forIn THEN next(left) ELSE left, "allowIn", scope(q).allowIn)
    IN  IF ~forIn THEN parseFor(expect(r, ";"), Node("Sequence", "", left.val))
        ELSE IF Assignable(left.val[1]) \/ left.val[1].kind = "Variable" THEN parseForIn(r, left.val[1])
        ELSE Illegal(r)

Consequent(p, list) ==
    IF p.tok \in {"EOF", "}", "case", "default"} THEN Return(p, list)
    ELSE LET s == parseStatement(p) IN parseConsequent(s, Append(list, s.val))

parseCaseStatement(p) ==
    LET test == IF p.tok = "default" THEN Return(next(p), None) ELSE parseExpression(expect(p, "case"))
        body == parseConsequent(expect(test, ":"), <<>>)
    IN  Return(body, Node("Case", "", <<test.val>> \o body.val))

IsDefault(clause) == clause.sub[1] = None
Clauses(p, list) ==
    IF p.tok \in {"}", "EOF"} THEN Return(IF p.tok = "}" THEN next(p) ELSE p, list)
    ELSE LET clause == parseCaseStatement(p)
             twice == IsDefault(clause.val) /\ \E i \in DOMAIN list : IsDefault(list[i])
         IN  parseClauses(IF twice THEN error(clause) ELSE clause, Append(list, clause.val))

parseSwitchStatement(p) ==
    LET discriminant == parseHead(next(p))
        clauses == parseClauses(SetScope(expect(discriminant, "{"), "inSwitch", TRUE), <<>>)
    IN  SetScope(Return(clauses, Node("Switch", "", <<discriminant.val>> \o clauses.val)),
                 "inSwitch", scope(p).inSwitch)

\* parseBreakStatement and parseContinueStatement
parseBranchStatement(p) ==
    LET q == next(p)
        s == [(IF q.tok = ";" THEN next(q) ELSE q) EXCEPT !.implicit = FALSE]
        legal == scope(p).inIteration \/ (p.tok = "break" /\ scope(p).inSwitch)
    IN  CASE q.implicit \/ q.tok \in {";", "}"} ->
                IF legal THEN Return(s, Leaf("Branch", p.tok)) ELSE Illegal(s)
          [] ~q.implicit /\ q.tok = "IDENTIFIER" ->
                IF ~hasLabel(q, literal(q)) THEN Return(error(next(q)), Bad)
                ELSE IF p.tok = "continue" /\ ~legal THEN Illegal(next(q))
                ELSE semicolon(Return(next(q), Node("Branch", p.tok, <<Leaf("Identifier", literal(q))>>)))
          [] OTHER -> Illegal(expect(q, "IDENTIFIER"))

parseReturnStatement(p) ==
    LET q == next(p)
    IN  IF ~scope(p).inFunction THEN Illegal(q)
        ELSE IF q.implicit \/ q.tok \in {";", "}", "EOF"} THEN semicolon(Return(q, Leaf("Return", "")))
        ELSE LET e == parseExpression(q) IN semicolon(Return(e, Node("Return", "", <<e.val>>)))

\* no line end after throw
parseThrowStatement(p) ==
    LET q == next(p)
    IN  IF q.implicit THEN Illegal(q)
        ELSE LET e == parseExpression(q) IN semicolon(Return(e, Node("Throw", "", <<e.val>>)))

parseFinally(p, parts) ==
    IF p.tok = "finally"
    THEN LET finally == parseBlockStatement(next(p))
         IN  Return(finally, Node("Try", "finally", Append(parts, finally.val)))
    ELSE IF Len(parts) = 1 THEN Return(error(p), Bad)
    ELSE Return(p, Node("Try", "", parts))

parseTryStatement(p) ==
    LET body == parseBlockStatement(next(p))
        name == expect(next(body), "(")
        catch == parseBlockStatement(expect(next(name), ")"))
    IN  IF body.tok # "catch" THEN parseFinally(body, <<body.val>>)
        ELSE IF name.tok # "IDENTIFIER" THEN Recovered(expect(name, "IDENTIFIER"))
        ELSE parseFinally(catch, <<body.val, Node("Catch", literal(name), <<catch.val>>)>>)

\* faulty: the label stays
LabelKept(p, label) ==
    LET labels == scope(p).labels
        s == parseStatement(SetScope(IF label \in Range(labels) THEN error(p) ELSE p,
                                     "labels", Append(labels, label)))
    IN  Return(s, Node("Labelled", label, <<s.val>>))
parseLabelledStatement(p, label) ==
    LET labels == scope(p).labels
        s == parseStatement(SetScope(IF label \in Range(labels) THEN error(p) ELSE p,
                                     "labels", Append(labels, label)))
    IN  SetScope(Return(s, Node("Labelled", label, <<s.val>>)), "labels", labels)

parseExpressionStatement(p) ==
    LET e == parseExpression(p)
    IN  IF e.val.kind = "Identifier" /\ e.tok = ":" THEN parseLabelledStatement(next(e), e.val.op)
        ELSE optionalSemicolon(Return(e, Node("Expression", "", <<e.val>>)))

Statement(p) ==
    CASE p.tok = "EOF" -> Return(error(p), Bad)
      [] p.tok = ";" -> Return(next(p), Leaf("Empty", ""))
      [] p.tok = "{" -> parseBlockStatement(p)
      [] p.tok = "if" -> parseIfStatement(p)
      [] p.tok = "do" -> parseDoWhileStatement(p)
      [] p.tok \in {"while", "with"} -> parseWhileStatement(p)
      [] p.tok = "for" -> parseForOrForInStatement(p)
      [] p.tok \in {"break", "continue"} -> parseBranchStatement(p)
      [] p.tok = "debugger" -> semicolon(Return(next(p), Leaf("Debugger", "")))
      [] p.tok = "var" -> parseVariableStatement(p)
      [] p.tok = "function" -> parseFunction(p, TRUE)
      [] p.tok = "switch" -> parseSwitchStatement(p)
      [] p.tok = "return" -> parseReturnStatement(p)
      [] p.tok = "throw" -> parseThrowStatement(p)
      [] p.tok = "try" -> parseTryStatement(p)
      [] OTHER -> parseExpressionStatement(p)

\* parseStatementList
Statements(p, list) ==
    IF p.tok \in {"}", "EOF"} THEN Return(p, list)
    ELSE LET s == parseStatement(p) IN parseStatements(s, Append(list, s.val))

SourceElements(p, list) ==
    IF p.tok = "EOF" THEN Return(p, list)
    ELSE LET s == parseStatement(p) IN parseSourceElements(s, Append(list, s.val))

Rule(rule, p, arg) ==
    CASE rule = "AssignmentExpression" -> AssignmentExpression(p)
      [] rule = "LeftHandSideExpression" -> LeftHandSideExpression(p)
      [] rule = "Statements" -> Statements(p, arg)
      [] rule = "Expressions" -> Expressions(p, arg)
      [] rule = "Properties" -> Properties(p, arg)
      [] rule = "Elements" -> Elements(p, arg)
      [] rule = "Parameters" -> Parameters(p, arg)
      [] rule = "Clauses" -> Clauses(p, arg)
      [] rule = "Consequent" -> Consequent(p, arg)
      [] rule = "Declarations" -> Declarations(p, arg)
      [] rule = "SourceElements" -> SourceElements(p, arg)
      [] rule = "Callee" -> Callee(p)
      [] rule = "ForOrForInStatement" -> ForOrForInStatement(p)
      [] rule = "BlockStatement" -> BlockStatement(p)
      [] rule = "SignatureAndBlock" -> SignatureAndBlock(p, arg)
      [] rule = "Statement" -> Statement(p)

\* parse, parseProgram
parse(source) == closeScope(parseSourceElements(next(openScope(newParser(source))), <<>>))

\* ParseFunction, for an empty parameter list
ParseFunction(body) ==
    parse(<<"(", "function", "(", ")", "{", "NL">> \o body \o <<"NL", "}", ")">>)
=============================================================================
