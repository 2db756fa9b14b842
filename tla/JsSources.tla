----------------------------- MODULE JsSources -----------------------------
(***************************************************************************)
(* The JavaScript of the templates, from source to template text.  A       *)
(* source is written lexeme by lexeme; each is read as a script            *)
(* (StrToStatements) and as a value (FuncToStatements).                    *)
(***************************************************************************)
EXTENDS JsExpr

CONSTANT Families    \* of sources: their prefix, lexemes and largest length

VARIABLES
    family, source,
    script, value,    \* statements: of the script and of the function
    open              \* a longer source can begin with this one

vars == <<family, source, script, value, open>>

\* Where the source begins in the text ParseFunction parses.
Before == Len(<<"(", "function", "(", ")", "{", "NL", "return">>)

Init ==
    /\ family \in Families
    /\ source = family.prefix
    /\ script = <<Bad>>
    /\ value = <<Bad>>
    /\ open = TRUE

\* s is read as the script p and as the function f
Read(s, p, f) ==
    /\ source' = s
    /\ script' = StrToStatements(p)
    /\ value' = FuncToStatements(f)
    /\ open' = (p.error \in {0, Len(s) + 1} \/ f.error = 0 \/ f.error > Len(s) + Before)
    /\ UNCHANGED family

Write(lexeme) ==
    LET s == Append(source, lexeme)
    IN  /\ open /\ Len(source) < family.length
        /\ Read(s, parse(s), ParseFunction(<<"return">> \o s))

Next == \E lexeme \in family.lexemes : Write(lexeme)

Spec == Init /\ [][Next]_vars

Accepted(statements) == statements # <<Bad>>

-----------------------------------------------------------------------------
(* The tree has every lexeme of the source.                                *)

RECURSIVE Yield(_)
Yields(nodes) == FlattenSeq([i \in DOMAIN nodes |-> Yield(nodes[i])])
Sign(node) == CHOOSE t \in DOMAIN Assigning : Assigning[t] = node.op
Yield(node) ==
    LET y == [i \in DOMAIN node.sub |-> Yield(node.sub[i])]
        word == IF node.op = "" THEN <<>> ELSE <<node.op>>
    IN  CASE node.kind \in {"Binary"} -> y[1] \o word \o y[2]
          [] node.kind = "Assign" -> y[1] \o <<Sign(node)>> \o y[2]
          [] node.kind = "Variable" -> word \o (IF y = <<>> THEN <<>> ELSE <<"=">> \o y[1])
          [] node.kind = "Postfix" -> y[1] \o word
          [] node.kind = "Dot" -> y[1] \o <<".">> \o word
          [] node.kind = "Bracket" -> y[1] \o <<"[">> \o y[2] \o <<"]">>
          [] node.kind = "Array" -> <<"[">> \o FlattenSeq(y) \o <<"]">>
          [] node.kind \in {"Object", "Block"} -> <<"{">> \o FlattenSeq(y) \o <<"}">>
          [] node.kind \in {"Property", "Labelled"} -> word \o <<":">> \o y[1]
          [] node.kind \in {"get", "set"} -> <<node.kind>> \o word \o Tail(y[1])
          [] node.kind = "Conditional" -> y[1] \o <<"?">> \o y[2] \o <<":">> \o y[3]
          [] node.kind = "New" -> <<"new">> \o FlattenSeq(y)
          [] node.kind = "Function" -> <<"function">> \o word \o FlattenSeq(y)
          [] node.kind = "Return" -> <<"return">> \o FlattenSeq(y)
          [] node.kind = "Throw" -> <<"throw">> \o y[1]
          [] node.kind = "Debugger" -> <<"debugger">>
          [] node.kind = "If" -> <<"if">> \o y[1] \o y[2] \o (IF Len(y) = 3 THEN <<"else">> \o y[3] ELSE <<>>)
          [] node.kind = "DoWhile" -> <<"do">> \o y[1] \o <<"while">> \o y[2]
          [] node.kind = "ForIn" -> <<"for">> \o y[1] \o <<"in">> \o y[2] \o y[3]
          [] node.kind = "For" -> <<"for">> \o FlattenSeq(y)
          [] node.kind = "Switch" -> <<"switch">> \o y[1] \o <<"{">> \o FlattenSeq(Tail(y)) \o <<"}">>
          [] node.kind = "Case" ->
                (IF IsDefault(node) THEN <<"default">> ELSE <<"case">>) \o y[1] \o <<":">> \o FlattenSeq(Tail(y))
          [] node.kind = "Try" ->
                <<"try">> \o (IF node.op = "finally" THEN FlattenSeq(Front(y)) \o <<"finally">> \o Last(y)
                              ELSE FlattenSeq(y))
          [] node.kind = "Catch" -> <<"catch">> \o word \o y[1]
          [] node.kind = "RegExp" -> FlattenSeq(y) \o word
          [] OTHER -> word \o FlattenSeq(y)

\* The tree keeps neither grouping nor separators.
Separators == {"(", ")", ",", ";", "NL", "var"}
Substance(s) == SelectSeq(s, LAMBDA lexeme : lexeme \notin Separators)

\* A punctuation mark is a key as well, and read as "".
RECURSIVE Keyed(_)
Keyed(node) ==
    /\ node.kind \in {"Property", "get", "set"} => node.op # ""
    /\ \A i \in DOMAIN node.sub : Keyed(node.sub[i])

\* An accepted source is all in its tree, in its order: no lexeme is skipped
\* by an error that is forgotten, by a semicolon that is inserted, or by the
\* search for the next statement.  (A switch at the end may lack its brace.)
NothingLost ==
    Accepted(script) /\ (\A i \in DOMAIN script : Keyed(script[i])) =>
        LET read == Substance(Yields(script))
            written == Substance(source)
        IN  /\ IsPrefix(written, read)
            /\ Range(read) \ Range(written) \subseteq {"}"}
            /\ Len(read) > Len(written) => "switch" \in Range(source)

-----------------------------------------------------------------------------
(* Jumps.                                                                  *)

Outside == [loop |-> FALSE, switch |-> FALSE, function |-> FALSE, labels |-> {}]

Within(node, c) ==
    CASE node.kind \in {"For", "ForIn", "DoWhile"} \/ (node.kind = "Head" /\ node.op = "while") ->
            [c EXCEPT !.loop = TRUE]
      [] node.kind = "Switch" -> [c EXCEPT !.switch = TRUE]
      [] node.kind = "Function" -> [Outside EXCEPT !.function = TRUE]
      [] node.kind = "Labelled" -> [c EXCEPT !.labels = @ \cup {node.op}]
      [] OTHER -> c

RECURSIVE JumpsLand(_, _)
JumpsLand(node, c) ==
    /\ node.kind = "Return" => c.function
    /\ node.kind = "Branch" =>
          IF node.sub = <<>> THEN c.loop \/ (node.op = "break" /\ c.switch)
          ELSE node.sub[1].op \in c.labels /\ (node.op = "continue" => c.loop)
    /\ \A i \in DOMAIN node.sub : JumpsLand(node.sub[i], Within(node, c))

\* In an accepted source every break and continue has the loop, the switch or
\* the label it goes to around it in the same function, and every return a
\* function: the flags and labels of a scope are right after each construct
\* that is closed, nested ones included.
JumpsLegal == \A i \in DOMAIN script : JumpsLand(script[i], Outside)

-----------------------------------------------------------------------------
(* Precedence.                                                             *)

Level(node) ==
    CASE node.kind = "Binary" -> CHOOSE l \in DOMAIN Levels : node.op \in Levels[l]
      [] node.kind = "Unary" -> 11
      [] node.kind = "Postfix" -> 12
      [] node.kind \in {"Conditional", "Assign", "Sequence"} -> 0
      [] OTHER -> 13

RECURSIVE Binds(_)
Binds(node) ==
    /\ LET level == Level(node)
           left == Level(node.sub[1])
           right == Level(node.sub[2])
       IN  CASE node.kind = "Binary" /\ level # Relational -> left >= level /\ right > level
             [] node.kind = "Binary" /\ level = Relational -> left > level /\ right >= level
             [] node.kind \in {"Unary"} -> left >= 11
             [] node.kind \in {"Postfix", "Dot", "Bracket", "Call"} -> left > 12
             [] node.kind = "Conditional" -> left > 0
             [] OTHER -> TRUE
    /\ \A i \in DOMAIN node.sub : Binds(node.sub[i])

\* Without parentheses the operators bind as in JavaScript, but for the
\* relational ones, which the parser groups from the right.
Precedence == Accepted(script) /\ "(" \notin Range(source) => \A i \in DOMAIN script : Binds(script[i])

-----------------------------------------------------------------------------
(* Values.                                                                 *)

\* FuncToStatements "evaluates them as the return of a function"
\* (transform_js_.go:65).  A value on one line and without a semicolon is one
\* return statement of all of it: one that ends the function put around it
\* before its own end is refused.  With a semicolon it is not: "a }); ({" is
\* accepted, and all that follows the function is dropped.
OneValue ==
    Accepted(value) /\ Range(source) \cap {";", "NL"} = {} =>
        /\ Len(value) = 1
        /\ Keyed(value[1]) => Substance(Yield(value[1])) = <<"return">> \o Substance(source)

-----------------------------------------------------------------------------
(* Template text.                                                          *)

\* What the template parser accepts: a pipeline, where a literal has no field
\* and an operator all of its operands.
RECURSIVE Pipeline(_)
Operand(word) ==
    CASE word.form = "group" -> Pipeline(word.args)
      [] word.form \in {"string", "number", "bool", "null"} -> word.fields = <<>>
      [] word.form \in {"sign", "malformed"} -> FALSE
      [] word.form = "name" -> word.val \in Funcs \/ word.val \notin Identifiers
      [] OTHER -> TRUE
Operators == {ops[op] : op \in (UNION Range(Levels)) \cap DOMAIN ops} \ {ops["+"], ops["-"]}
Pipeline(words) ==
    LET declares == Len(words) > 2 /\ words[1].form = "var" /\ words[1].fields = <<>>
                    /\ words[2] = Word("sign", ":=")
        command == IF declares THEN SubSeq(words, 3, Len(words)) ELSE words
    IN  /\ command # <<>>
        /\ \A i \in DOMAIN command : Operand(command[i])
        /\ command[1].form = "name" /\ command[1].val \in Operators /\ ~declares => Len(command) = 3
        /\ command[1] = Word("name", "__if") => Len(command) = 4

Reads(chunk) ==
    CASE chunk.kind = "text" -> \A i \in DOMAIN chunk.words : chunk.words[i].form \in {"string", "number", "bool"}
      [] chunk.kind \in {"action", "if", "range"} -> Pipeline(chunk.words)
      [] chunk.kind = "operand" -> chunk.words = <<>> \/ Pipeline(chunk.words)
      [] OTHER -> chunk.kind # "panic"

Assigns(node) == node.kind = "Assign"
IsNull(node) == node.kind = "Null"
IsLiteral(node) == node.kind \in {"String", "Number", "Boolean", "Null"}
IsVariable(node) == node.kind = "Identifier" /\ node.op \notin Funcs

RECURSIVE Root(_)
Root(node) == IF node.kind = "Dot" THEN Root(node.sub[1]) ELSE node

\* The operands whose place is lost when they are null.
NotNull(node) ==
    CASE node.kind \in {"Binary", "Call", "Property", "Bracket", "Unary", "Postfix"} -> node.sub
      [] node.kind \in {"If", "Conditional"} -> <<node.sub[1]>>
      [] node.kind = "ForIn" -> <<node.sub[2]>>
      [] OTHER -> <<>>

\* The JavaScript the compiler translates.  The rest of what it renders is
\* refused by the template parser, fails when it is executed, or means
\* something else: a null operand, a member of a literal, an assignment inside
\* of an expression, an operator without a function, a call of what is no
\* function, "++" of a member, the assignment of a variable to an element,
\* "for (var x in y)", "a, b" as a statement, and the assignments with an
\* operator ("$a := $a __op__add 1" calls $a).
RECURSIVE Supported(_)
Supported(node) ==
    /\ \A i \in DOMAIN NotNull(node) : ~IsNull(NotNull(node)[i])
    /\ node.kind = "Dot" => ~IsLiteral(node.sub[1])
    /\ node.kind \in {"Binary", "Unary", "Postfix"} => node.op \in DOMAIN ops
    /\ node.kind \in {"Unary", "Postfix"} /\ node.op = "++" => IsVariable(node.sub[1])
    /\ node.kind = "Call" => ~IsVariable(node.sub[1])
    /\ node.kind \notin {"Expression", "Return", "Throw", "If", "Conditional"} =>
          \A i \in DOMAIN Rendered(node) : ~Assigns(Rendered(node)[i])
    /\ node.kind = "ForIn" => IsVariable(node.sub[1])
    /\ node.kind = "Expression" => node.sub[1].kind # "Sequence"
    /\ Assigns(node) =>
          LET left == node.sub[1] IN
          CASE node.op # "=" -> FALSE
            [] node.op = "=" /\ left.kind = "Bracket" ->
                  IsVariable(left.sub[1]) /\ ~IsVariable(node.sub[2]) /\ ~IsNull(node.sub[2])
            [] node.op = "=" /\ left.kind = "Dot" -> Root(left).kind \in {"Identifier", "Bracket"}
            [] OTHER -> TRUE
    /\ \A i \in DOMAIN Rendered(node) : Supported(Rendered(node)[i])

AllSupported(statements) == \A i \in DOMAIN statements : CanRender(statements[i]) /\ Supported(statements[i])

\* What the parser accepts and the compiler supports is text the template
\* parser reads: no operand of a JavaScript expression gets lost on the way.
Compiles ==
    /\ AllSupported(script) =>
          LET text == JsExpr(script, TRUE) IN \A i \in DOMAIN text : Reads(text[i])
    /\ AllSupported(value) =>
          LET text == JsExpr(value, FALSE) IN \A i \in DOMAIN text : Reads(text[i])

\* The variables of a template text, and the ones a tree reads.
RECURSIVE Variables(_), Identified(_)
Variables(words) ==
    FlattenSeq([i \in DOMAIN words |->
        IF words[i].form = "var" THEN <<words[i].val>> ELSE Variables(words[i].args)])
Identified(node) ==
    IF IsVariable(node) THEN <<node.op>>
    ELSE FlattenSeq([i \in DOMAIN Rendered(node) |-> Identified(Rendered(node)[i])])

\* A value reads the variables its source names, in the same order.
SameNames ==
    Accepted(value) /\ Range(source) \cap (DOMAIN Assigning \cup {"++", "catch", "var"}) = {} /\ AllSupported(value) =>
        LET text == JsExpr(value, FALSE) IN
        Variables(FlattenSeq([i \in DOMAIN text |-> text[i].words]))
            = FlattenSeq([i \in DOMAIN value |-> Identified(value[i])])
=============================================================================
