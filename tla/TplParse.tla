------------------------------ MODULE TplParse ------------------------------
(***************************************************************************)
(* The parser of the template texts, pugjs/parse/parse.go, together with   *)
(* the lexer goroutine it reads from.                                      *)
(*                                                                         *)
(* The recursive descent is unfolded: open is the stack of lists that wait *)
(* for their {{end}}, pipes the pipelines that parentheses nest, at the    *)
(* place in the code that looks at the next token.  Every Tree has its own *)
(* look-ahead, while all of them read the one lexer.  Of the nodes only    *)
(* what later decisions of the parser depend on is kept.                   *)
(***************************************************************************)
EXTENDS TplLex, SequencesExt, FiniteSetsExt

CONSTANT MainName    \* the name Parse is called with

VARIABLES
    trees,      \* the Trees being parsed: the file's, then those of define and block
    open,       \* the lists being parsed
    pipes,      \* the pipelines being parsed
    at,         \* where the parser is
    held,       \* tokens taken from the look-ahead that may be put back
    received,   \* number of the item taken last from the lexer
    treeSet,    \* what each template name stands for
    result      \* of Parse

parseVars == <<trees, open, pipes, at, held, received, treeSet, result>>
vars == <<lexVars, parseVars>>

TreeNames == {MainName} \cup Strings \cup Variables
ZeroItem == [typ |-> "Error", val |-> "", n |-> 0]

\* IsEmptyTree goes by the first node that is not blank text: it knows most
\* node types, and panics for "unknown" ones (try, catch).
Classes == {"empty", "full", "unknown"}
Joined(class, node) == IF class = "empty" THEN node ELSE class

NewTree(name) ==
    [name |-> name, token |-> [i \in 0 .. 2 |-> ZeroItem], peekCount |-> 0, vars |-> <<"$">>]
List(what) == [what |-> what, vars |-> 0, class |-> "empty", elseIf |-> FALSE]
Pipe(ctx) ==
    [ctx |-> ctx, name |-> MainName, decls |-> 0, cmds |-> FALSE,
     first |-> "none", last |-> "none", bad |-> FALSE]

Init ==
    /\ LexInit
    /\ trees = <<NewTree(MainName)>>
    /\ open = <<List("parse")>>
    /\ pipes = <<>>
    /\ at = "loop"
    /\ held = <<>>
    /\ received = 0
    /\ treeSet = [name \in TreeNames |-> "none"]
    /\ result = "running"

-----------------------------------------------------------------------------
(* The look-ahead of a Tree.                                               *)

T == Last(trees)
Cur == T.token[T.peekCount - 1]

\* a token taken is forgotten; where it may be put back it is in held
next(t) == [t EXCEPT !.peekCount = @ - 1, !.token[t.peekCount - 1] = ZeroItem]
\* faulty: the token is put behind the one that is there
Backup2Behind(t, t1) == [t EXCEPT !.token[1] = t.token[0], !.token[0] = t1, !.peekCount = 2]
backup2(t, t1) == [t EXCEPT !.token[1] = t1, !.peekCount = 2]
\* faulty: one place too far
Backup3TooFar(t, t2, t1) == [t EXCEPT !.token[1] = t1, !.token[2] = t2, !.peekCount = 4]
backup3(t, t2, t1) == [t EXCEPT !.token[1] = t1, !.token[2] = t2, !.peekCount = 3]
\* what next and peek do with nothing pending
fetched(t, item) == [t EXCEPT !.token[0] = item, !.peekCount = 1]

\* Where the code calls next and peek; everywhere else it skips spaces.
Exact == {"loop", "node", "afterVariable", "chain", "afterOperand", "rightParen", "elseIf"}
\* A list has ended, and no token is looked at.
Nodes == {"End", "Else", "Catch"}

\* nextItem, for next or peek with nothing pending; a closed channel gives
\* the zero item
Receive ==
    /\ result = "running" /\ at \notin Nodes
    /\ T.peekCount = 0
    /\ \/ \E i \in Items :
             /\ nextItem(i)
             /\ trees' = [trees EXCEPT
                              ![Len(trees)] = fetched(T, [typ |-> i.typ, val |-> i.val, n |-> sent'])]
             /\ received' = sent'
       \/ /\ lexState = "ended"
          /\ trees' = [trees EXCEPT ![Len(trees)] = fetched(T, ZeroItem)]
          /\ received' = 0
          /\ UNCHANGED lexVars
    /\ UNCHANGED <<open, pipes, at, held, treeSet, result>>

SkipSpace ==
    /\ result = "running" /\ T.peekCount > 0
    /\ at \notin Exact \cup Nodes /\ Cur.typ = "Space"
    /\ trees' = [trees EXCEPT ![Len(trees)] = next(T)]
    /\ UNCHANGED <<lexVars, open, pipes, at, held, received, treeSet, result>>

Parsing(label) ==
    /\ result = "running" /\ at = label /\ T.peekCount > 0
    /\ at \notin Exact => Cur.typ # "Space"

\* The parser goes on in tree t at label.
Go(t, label) ==
    /\ trees' = [trees EXCEPT ![Len(trees)] = t]
    /\ at' = label
    /\ UNCHANGED <<lexVars, received, result>>

-----------------------------------------------------------------------------
(* Ways to stop.                                                           *)

\* The lexer is in a state function and moves pos.
PosMoves == ~sending /\ lexState \in {"lexText", "lexLeftDelim", "lexInsideAction"}

Stop(how) ==
    /\ trees' = <<>> /\ open' = <<>> /\ pipes' = <<>> /\ held' = <<>>
    /\ at' = "stopped"
    /\ result' = how
    /\ UNCHANGED <<lexVars, received, treeSet>>

\* errorf cuts the place of the error out of l.input with three reads of
\* l.pos: when the lexer moves pos in between, the slice bounds are wrong and
\* recover re-panics at once
Fail == Stop("failed") \/ (PosMoves /\ Stop("runtime error"))

\* faulty: recover returns without a drain
RecoverAtOnce ==
    /\ result \in {"failed", "panicking"}
    /\ result' = IF result = "failed" THEN "error" ELSE "panic"
    /\ UNCHANGED <<lexVars, trees, open, pipes, at, held, received, treeSet>>
\* recover: drain until the channel is closed; a panic with a string is no
\* error, and the type assertion panics again
Recover ==
    /\ result \in {"failed", "panicking"}
    /\ \/ (\E i \in Items : nextItem(i)) /\ UNCHANGED result
       \/ /\ lexState = "ended"
          /\ result' = IF result = "failed" THEN "error" ELSE "panic"
          /\ UNCHANGED lexVars
    /\ UNCHANGED <<trees, open, pipes, at, held, received, treeSet>>

\* What add does with a tree: a definition replaces only an empty one.
AddOutcome(name, class) ==
    IF treeSet[name] \in {"none", "empty"} THEN "set"
    ELSE IF "unknown" \in {treeSet[name], class} THEN "panic"
    ELSE IF class = "empty" THEN "kept" ELSE "error"

\* faulty: the last definition wins
AddAlways(name, class) == treeSet' = [treeSet EXCEPT ![name] = class]
add(name, class) ==
    treeSet' = IF AddOutcome(name, class) = "set" THEN [treeSet EXCEPT ![name] = class] ELSE treeSet
AddPasses(name, class) == AddOutcome(name, class) \in {"set", "kept"}
AddStops(name, class) ==
    \/ AddOutcome(name, class) = "error" /\ Fail
    \/ AddOutcome(name, class) = "panic" /\ Stop("panicking")

-----------------------------------------------------------------------------
(* parse and itemList                                                      *)

Top == Last(open)
AppendNode(lists, class) == [lists EXCEPT ![Len(lists)].class = Joined(@, class)]

ParseEOF ==
    /\ Parsing("loop") /\ Top.what = "parse" /\ Cur.typ = "EOF"
    /\ \/ AddStops(T.name, Top.class)
       \/ /\ AddPasses(T.name, Top.class)
          /\ add(T.name, Top.class)
          /\ trees' = <<>> /\ open' = <<>>
          /\ at' = "stopped" /\ result' = "ok"
          /\ UNCHANGED <<lexVars, pipes, held, received>>

UnexpectedEOF == Parsing("loop") /\ Top.what # "parse" /\ Cur.typ = "EOF" /\ Fail

\* only parse looks for {{define}}
ParseLeftDelim ==
    /\ Parsing("loop") /\ Top.what = "parse" /\ Cur.typ = "LeftDelim"
    /\ held' = <<Cur>>
    /\ Go(next(T), "define?")
    /\ UNCHANGED <<open, pipes, treeSet>>

NotDefine ==
    /\ Parsing("define?") /\ Cur.typ # "Define"
    /\ held' = <<>>
    /\ Go(backup2(T, held[1]), "node")
    /\ UNCHANGED <<open, pipes, treeSet>>

\* newT shares the lexer of t
Define ==
    /\ Parsing("define?") /\ Cur.typ = "Define"
    /\ trees' = Append([trees EXCEPT ![Len(trees)] = next(T)], NewTree(MainName))
    /\ held' = <<>>
    /\ at' = "defineName"
    /\ UNCHANGED <<lexVars, received, result, open, pipes, treeSet>>

\* parseDefinition; Unquote may refuse the string
DefineName ==
    /\ Parsing("defineName")
    /\ \/ /\ Cur.typ = "String"
          /\ Go([next(T) EXCEPT !.name = Cur.val], "defineDelim")
          /\ UNCHANGED <<open, pipes, held, treeSet>>
       \/ Fail

DefineDelim ==
    /\ Parsing("defineDelim")
    /\ \/ /\ Cur.typ = "RightDelim"
          /\ open' = Append(open, List("define"))
          /\ Go(next(T), "loop")
          /\ UNCHANGED <<pipes, held, treeSet>>
       \/ Cur.typ # "RightDelim" /\ Fail

\* textOrAction
TextOrAction ==
    \/ Parsing("node")
    \/ /\ Parsing("loop") /\ Cur.typ # "EOF"
       /\ Top.what = "parse" => Cur.typ # "LeftDelim"

Text ==
    /\ TextOrAction /\ Cur.typ = "Text"
    /\ open' = AppendNode(open, IF Cur.val = "blank" THEN "empty" ELSE "full")
    /\ Go(next(T), "loop")
    /\ UNCHANGED <<pipes, held, treeSet>>

LeftDelim ==
    /\ TextOrAction /\ Cur.typ = "LeftDelim"
    /\ Go(next(T), "action")
    /\ UNCHANGED <<open, pipes, held, treeSet>>

UnexpectedInput == TextOrAction /\ Cur.typ \notin {"Text", "LeftDelim"} /\ Fail

-----------------------------------------------------------------------------
(* action: the keywords                                                    *)

Controls == [If |-> "if", Range |-> "range", With |-> "with"]
Clauses == [End |-> "end", Else |-> "else", Catch |-> "catch", Try |-> "try",
            Block |-> "blockName", Template |-> "templateName"]

\* if, range and with: the length of vars is kept for popVars
Control ==
    /\ Parsing("action") /\ Cur.typ \in DOMAIN Controls
    /\ open' = Append(open, [List(Controls[Cur.typ]) EXCEPT !.vars = Len(T.vars)])
    /\ pipes' = <<Pipe(Controls[Cur.typ])>>
    /\ Go(next(T), "pipeline")
    /\ UNCHANGED <<held, treeSet>>

Clause ==
    /\ Parsing("action") /\ Cur.typ \in DOMAIN Clauses
    /\ Go(next(T), Clauses[Cur.typ])
    /\ UNCHANGED <<open, pipes, held, treeSet>>

\* anything else is a pipeline
Command ==
    /\ Parsing("action") /\ Cur.typ \notin DOMAIN Controls \cup DOMAIN Clauses
    /\ pipes' = <<Pipe("command")>>
    /\ Go(T, "pipeline")
    /\ UNCHANGED <<open, held, treeSet>>

Try ==
    /\ Parsing("try")
    /\ \/ /\ Cur.typ = "RightDelim"
          /\ open' = Append(open, List("try"))
          /\ Go(next(T), "loop")
          /\ UNCHANGED <<pipes, held, treeSet>>
       \/ Cur.typ # "RightDelim" /\ Fail

\* parseTemplateName, for block and template
Named(label) ==
    /\ Parsing(label)
    /\ Cur.typ \in {"String", "Variable"}

BlockName ==
    /\ Named("blockName")
    /\ pipes' = <<[Pipe("block clause") EXCEPT !.name = Cur.val]>>
    /\ Go(next(T), "pipeline")
    /\ UNCHANGED <<open, held, treeSet>>

TemplateName ==
    /\ Named("templateName")
    /\ Go(next(T), "templatePipe")
    /\ UNCHANGED <<open, pipes, held, treeSet>>

BadName ==
    /\ (Parsing("blockName") \/ Parsing("templateName"))
    /\ Cur.typ # "Variable"
    /\ Fail

TemplatePipe ==
    /\ Parsing("templatePipe")
    /\ IF Cur.typ = "RightDelim"
       THEN /\ open' = AppendNode(open, "full")
            /\ Go(next(T), "loop")
            /\ UNCHANGED pipes
       ELSE /\ pipes' = <<Pipe("template clause")>>
            /\ Go(T, "pipeline")
            /\ UNCHANGED open
    /\ UNCHANGED <<held, treeSet>>

-----------------------------------------------------------------------------
(* Ends of lists: endControl, elseControl, catchControl, and what the      *)
(* function that called itemList makes of them.                            *)

Delimiter(node) ==
    IF Cur.typ = "RightDelim"
    THEN Go(next(T), node) /\ UNCHANGED <<open, pipes, held, treeSet>>
    ELSE Fail

EndControl == Parsing("end") /\ Delimiter("End")

\* "else if" leaves the "if" pending
ElseControl ==
    /\ Parsing("else")
    /\ IF Cur.typ = "If"
       THEN Go(T, "Else") /\ UNCHANGED <<open, pipes, held, treeSet>>
       ELSE Delimiter("Else")

\* without a right delimiter two tokens are taken, whatever they are
CatchControl ==
    /\ (Parsing("catch") \/ Parsing("catchName"))
    /\ Go(next(T), IF at = "catch" /\ Cur.typ # "RightDelim" THEN "catchName" ELSE "Catch")
    /\ UNCHANGED <<open, pipes, held, treeSet>>

Ends(node) == result = "running" /\ at = node

\* parse: only catch is a node like any other
TopLevelEnd == at \in {"End", "Else"} /\ Ends(at) /\ Top.what = "parse" /\ Fail
TopLevelCatch ==
    /\ Ends("Catch") /\ Top.what = "parse"
    /\ open' = AppendNode(open, "unknown")
    /\ Go(T, "loop")
    /\ UNCHANGED <<pipes, held, treeSet>>

\* parseDefinition and blockControl
EndDefinition ==
    /\ Ends("End") /\ Top.what \in {"define", "block"}
    /\ \/ AddStops(T.name, Top.class)
       \/ /\ AddPasses(T.name, Top.class)
          /\ add(T.name, Top.class)
          /\ trees' = Front(trees)
          /\ open' = IF Top.what = "block" THEN AppendNode(Front(open), "full") ELSE Front(open)
          /\ at' = "loop"
          /\ UNCHANGED <<lexVars, received, result, pipes, held>>

NoEndOfDefinition ==
    /\ at \in {"Else", "Catch"} /\ Ends(at) /\ Top.what \in {"define", "block"}
    /\ Fail

\* An if that follows an else ends with the if before it.
Outermost == Max({i \in DOMAIN open : ~open[i].elseIf})

\* the node is made, and popVars undoes the declarations of its lists
Close(class) ==
    /\ open' = AppendNode(SubSeq(open, 1, Outermost - 1), class)
    /\ trees' = IF Top.what = "catch" THEN trees
                ELSE [trees EXCEPT
                         ![Len(trees)] = [T EXCEPT !.vars = SubSeq(@, 1, open[Outermost].vars)]]

Continue ==
    /\ at' = "loop"
    /\ UNCHANGED <<lexVars, received, result, pipes, held, treeSet>>

\* parseControl; the first list of an if, range or with may end at a catch
EndIf ==
    /\ \/ Ends("End") /\ Top.what \in {"if", "range", "with", "else"}
       \/ Ends("Catch") /\ Top.what \in {"if", "range", "with"}
    /\ Close("full") /\ Continue

ElseIf ==
    /\ Ends("Else") /\ Top.what = "if"
    /\ Go(T, "elseIf")
    /\ UNCHANGED <<open, pipes, held, treeSet>>

ElseIfIf ==
    /\ Parsing("elseIf") /\ Cur.typ = "If"
    /\ open' = Append(open, [List("if") EXCEPT !.elseIf = TRUE, !.vars = Len(T.vars)])
    /\ pipes' = <<Pipe("if")>>
    /\ Go(next(T), "pipeline")
    /\ UNCHANGED <<held, treeSet>>

Else ==
    /\ \/ Parsing("elseIf") /\ Cur.typ # "If"
       \/ Ends("Else") /\ Top.what \in {"range", "with"}
    /\ open' = [open EXCEPT ![Len(open)].what = "else"]
    /\ Go(T, "loop")
    /\ UNCHANGED <<pipes, held, treeSet>>

NoEnd == at \in {"Else", "Catch"} /\ Ends(at) /\ Top.what = "else" /\ Fail

\* tryControl: its second list ends at whatever ends it
Catch ==
    /\ Ends("Catch") /\ Top.what = "try"
    /\ open' = [open EXCEPT ![Len(open)].what = "catch"]
    /\ Go(T, "loop")
    /\ UNCHANGED <<pipes, held, treeSet>>

MissingCatch == at \in {"End", "Else"} /\ Ends(at) /\ Top.what = "try" /\ Stop("panicking")

EndCatch ==
    /\ at \in Nodes /\ Ends(at) /\ Top.what = "catch"
    /\ Close("unknown") /\ Continue

-----------------------------------------------------------------------------
(* pipeline                                                                *)

P == Last(pipes)
SetPipe(p) == pipes' = [pipes EXCEPT ![Len(pipes)] = p]

Pipeline ==
    /\ Parsing("pipeline")
    /\ IF Cur.typ = "Variable"
       THEN held' = <<Cur>> /\ Go(next(T), "afterVariable")
       ELSE Go(T, "commands") /\ UNCHANGED held
    /\ UNCHANGED <<open, pipes, treeSet>>

\* the token after the variable is remembered: a space would be skipped
AfterVariable ==
    /\ Parsing("afterVariable")
    /\ IF Cur.typ = "Space"
       THEN held' = Append(held, Cur) /\ Go(next(T), "declaration")
       ELSE Go(T, "declaration") /\ UNCHANGED held
    /\ UNCHANGED <<open, pipes, treeSet>>

Comma == Cur.typ = "Char" /\ Cur.val = ","

Declaration ==
    /\ Parsing("declaration")
    /\ (Cur.typ = "ColonEquals" \/ (Comma /\ P.ctx = "range" /\ P.decls = 0))
    /\ SetPipe([P EXCEPT !.decls = @ + 1])
    /\ held' = <<>>
    /\ Go([next(T) EXCEPT !.vars = Append(@, held[1].val)], IF Comma THEN "pipeline" ELSE "commands")
    /\ UNCHANGED <<open, treeSet>>

TooManyDeclarations ==
    Parsing("declaration") /\ Comma /\ ~(P.ctx = "range" /\ P.decls = 0) /\ Fail

NoDeclaration ==
    /\ Parsing("declaration") /\ Cur.typ # "ColonEquals" /\ ~Comma
    /\ Go(IF Len(held) = 2 THEN backup3(T, held[1], held[2]) ELSE backup2(T, held[1]), "commands")
    /\ held' = <<>>
    /\ UNCHANGED <<open, pipes, treeSet>>

Operands == Literals \cup {"Field", "Identifier", "Variable", "LeftParen"}

FirstOperand ==
    /\ Parsing("commands") /\ Cur.typ \in Operands
    /\ Go(T, "term")
    /\ UNCHANGED <<open, pipes, held, treeSet>>

\* the right delimiter is taken, a right parenthesis put back
PipelineEnds ==
    /\ Parsing("commands") /\ Cur.typ \in {"RightDelim", "RightParen"}
    /\ P.cmds /\ ~P.bad
    /\ pipes' = Front(pipes)
    /\ UNCHANGED <<lexVars, received, result, held, treeSet>>

Rest == IF Cur.typ = "RightDelim" THEN next(T) ELSE T
SetRest == trees' = [trees EXCEPT ![Len(trees)] = Rest]

ParenPipeline ==
    /\ PipelineEnds /\ Len(pipes) > 1
    /\ SetRest /\ at' = "rightParen" /\ UNCHANGED open

ActionNode ==
    /\ PipelineEnds /\ Len(pipes) = 1 /\ P.ctx \in {"command", "template clause"}
    /\ SetRest /\ at' = "loop" /\ open' = AppendNode(open, "full")

ControlNode ==
    /\ PipelineEnds /\ Len(pipes) = 1 /\ P.ctx \in {"if", "range", "with"}
    /\ SetRest /\ at' = "loop" /\ UNCHANGED open

BlockTree ==
    /\ PipelineEnds /\ Len(pipes) = 1 /\ P.ctx = "block clause"
    /\ trees' = Append([trees EXCEPT ![Len(trees)] = Rest], NewTree(P.name))
    /\ at' = "loop"
    /\ open' = Append(open, List("block"))

BadPipeline ==
    /\ Parsing("commands")
    /\ IF Cur.typ \in {"RightDelim", "RightParen"} THEN ~P.cmds \/ P.bad ELSE Cur.typ \notin Operands
    /\ Fail

-----------------------------------------------------------------------------
(* command, operand and term                                               *)

\* An argument is a "literal" or can be a "call".
Argument(p, arg) ==
    [p EXCEPT !.first = IF @ = "none" THEN arg ELSE @, !.last = arg]

\* useVar: a variable that is not defined is defined from here on
Used(names, name) == IF name \in Range(names) THEN names ELSE Append(names, name)

Term ==
    /\ Parsing("term") /\ Cur.typ \in Operands \ {"LeftParen"}
    /\ Cur.val \notin {"unknown", "malformed"}
    /\ SetPipe(Argument(P, IF Cur.typ \in Literals THEN "literal" ELSE "call"))
    /\ Go(IF Cur.typ = "Variable" THEN [next(T) EXCEPT !.vars = Used(@, Cur.val)] ELSE next(T), "chain")
    /\ UNCHANGED <<open, held, treeSet>>

\* no such function, bad number, bad string
BadTerm ==
    /\ Parsing("term")
    /\ (Cur.typ \in {"Error", "String"} \/ Cur.val \in {"unknown", "malformed"})
    /\ Fail

Paren ==
    /\ Parsing("term") /\ Cur.typ = "LeftParen"
    /\ pipes' = Append(pipes, Pipe("parenthesized pipeline"))
    /\ Go(next(T), "pipeline")
    /\ UNCHANGED <<open, held, treeSet>>

NoTerm ==
    /\ Parsing("term") /\ Cur.typ \notin Operands \cup {"Error"}
    /\ Go(T, "afterOperand")
    /\ UNCHANGED <<open, pipes, held, treeSet>>

RightParen ==
    /\ Parsing("rightParen")
    /\ \/ /\ Cur.typ = "RightParen"
          /\ SetPipe(Argument(P, "call"))
          /\ Go(next(T), "chain")
          /\ UNCHANGED <<open, held, treeSet>>
       \/ Cur.typ # "RightParen" /\ Fail

\* operand: a literal has no fields
Chain ==
    /\ Parsing("chain")
    /\ IF Cur.typ = "Field"
       THEN P.last # "literal" /\ Go(next(T), "chain")
       ELSE Go(T, "afterOperand")
    /\ UNCHANGED <<open, pipes, held, treeSet>>

BadChain == Parsing("chain") /\ Cur.typ = "Field" /\ P.last = "literal" /\ Fail

NextOperand ==
    /\ Parsing("afterOperand") /\ Cur.typ = "Space"
    /\ Go(next(T), "term")
    /\ UNCHANGED <<open, pipes, held, treeSet>>

\* the pipe is taken, a right delimiter or parenthesis put back
CommandEnds ==
    /\ Parsing("afterOperand") /\ Cur.typ \in {"Pipe", "RightDelim", "RightParen"}
    /\ P.first # "none"
    /\ SetPipe([P EXCEPT !.cmds = TRUE, !.bad = @ \/ (P.cmds /\ P.first = "literal"),
                         !.first = "none", !.last = "none"])
    /\ Go(IF Cur.typ = "Pipe" THEN next(T) ELSE T, "commands")
    /\ UNCHANGED <<open, held, treeSet>>

BadCommand ==
    /\ Parsing("afterOperand")
    /\ IF Cur.typ \in {"Pipe", "RightDelim", "RightParen"} THEN P.first = "none" ELSE Cur.typ # "Space"
    /\ Fail

-----------------------------------------------------------------------------
ParseNext ==
    \/ Receive \/ SkipSpace
    \/ ParseEOF \/ UnexpectedEOF \/ ParseLeftDelim \/ NotDefine
    \/ Define \/ DefineName \/ DefineDelim
    \/ Text \/ LeftDelim \/ UnexpectedInput
    \/ Control \/ Clause \/ Command \/ Try
    \/ BlockName \/ TemplateName \/ BadName \/ TemplatePipe
    \/ EndControl \/ ElseControl \/ CatchControl
    \/ TopLevelEnd \/ TopLevelCatch \/ EndDefinition \/ NoEndOfDefinition
    \/ EndIf \/ ElseIf \/ ElseIfIf \/ Else \/ NoEnd
    \/ Catch \/ MissingCatch \/ EndCatch
    \/ Pipeline \/ AfterVariable \/ Declaration \/ TooManyDeclarations \/ NoDeclaration
    \/ FirstOperand \/ ParenPipeline \/ ActionNode \/ ControlNode \/ BlockTree \/ BadPipeline
    \/ Term \/ BadTerm \/ Paren \/ NoTerm \/ RightParen \/ Chain \/ BadChain
    \/ NextOperand \/ CommandEnds \/ BadCommand
    \/ Recover

\* Parse has returned; after a runtime error the lexer may wait for good.
Done ==
    /\ result \in {"ok", "error", "panic", "runtime error"}
    /\ lexState = "ended" \/ result = "runtime error"
    /\ UNCHANGED vars

Lex == LexStep /\ UNCHANGED parseVars

Next == Lex \/ ParseNext \/ Done

Spec == Init /\ [][Next]_vars

-----------------------------------------------------------------------------
(* Properties.  Deadlock is checked as well: the parser and the lexer never *)
(* wait for each other, and every Parse returns.                           *)

\* Names, look-ahead and results have the values their types allow.
TypeOK ==
    /\ LexTypeOK
    /\ \A i \in DOMAIN trees : LET t == trees[i] IN
          /\ t.name \in TreeNames /\ t.peekCount \in 0 .. 3
          /\ \A j \in 0 .. 2 : t.token[j].typ \in ItemTypes
          /\ t.vars \in Seq({"$"} \cup Variables)
    /\ treeSet \in [TreeNames -> Classes \cup {"none"}]
    /\ result \in {"running", "failed", "panicking", "ok", "error", "panic", "runtime error"}

\* The tokens the current Tree has pending or may still put back, in the
\* order they will be read in.
Unread == held \o [j \in 1 .. T.peekCount |-> T.token[T.peekCount - j]]

\* The four kinds of look-ahead together (peek, backup2, backup3, and a new
\* Tree in the middle of the text) neither lose a token nor read it twice or
\* out of order: what is pending are the last items of the lexer, in order,
\* but for the space after a "{{"; and a Tree that is left for another one
\* has nothing pending, unless the text is refused at its next item; a Tree
\* that is finished has nothing pending at all.
InOrder ==
    result = "running" =>
        /\ T.peekCount > 0 => Last(Unread).n = received
        /\ \A j \in 1 .. Len(Unread) - 1 :
              \/ Unread[j + 1].n = Unread[j].n + 1
              \/ Unread[j + 1].n = Unread[j].n + 2 /\ Unread[j].typ = "LeftDelim"
        /\ \A i \in 1 .. Len(trees) - 1 :
              trees[i].peekCount > 0 => trees[i].token[0].typ = "RightParen"
        /\ at = "End" => T.peekCount = 0

\* lex.go, drain: "drains the output so the lexing goroutine will exit".  When
\* Parse has returned a tree or an error, or panics because try has no catch,
\* the lexer has nothing left to send and ends.
LexerDone == result \in {"ok", "error", "panic"} => lexState \in {"nil", "ended"}

\* A definition that is not blank is never replaced by another one.
DefinedOnce ==
    [][\A name \in TreeNames :
          treeSet[name] \in {"full", "unknown"} => treeSet'[name] = treeSet[name]]_vars
=============================================================================
