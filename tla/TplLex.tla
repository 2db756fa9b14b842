------------------------------- MODULE TplLex -------------------------------
(***************************************************************************)
(* The lexer of the template texts, pugjs/parse/lex.go: a goroutine that   *)
(* runs one state function after the other and sends what it finds over a  *)
(* channel without a buffer, so that it waits in every emit until the      *)
(* parser takes the item.                                                  *)
(*                                                                         *)
(* The text is not a value: it is chosen while it is read.  scan is a      *)
(* state function on its way to its next emit; which element of the text   *)
(* it has found there is chosen when the item is handed over, by one       *)
(* action for each kind of element a state function can find.              *)
(***************************************************************************)
EXTENDS Integers, Sequences

CONSTANTS
    Strings,     \* the names that occur in quotes
    Numbers,     \* "1" and "malformed"
    Variables,   \* the variables of the text
    Words,       \* keywords, functions and booleans, [typ, val]
    Signs,       \* ":=", "|" and other characters, [typ, val]
    MaxItems     \* bound: the items of each "{{" a text may have

Keywords == {"Block", "Define", "Else", "End", "If", "Range", "Nil", "Template", "With",
             "Try", "Catch", "Finally"}
Literals == {"Bool", "CharConstant", "Complex", "Dot", "Nil", "Number", "String", "RawString"}
ItemTypes ==
    Keywords \cup Literals \cup
    {"Error", "Char", "ColonEquals", "EOF", "Field", "Identifier", "LeftDelim", "LeftParen",
     "Pipe", "RightDelim", "RightParen", "Space", "Text", "Variable"}

ASSUME BoundsType == MaxItems \in Seq(Nat)
ASSUME WordsType == \A w \in Words : w.typ \in Keywords \cup {"Identifier", "Bool"}
ASSUME SignsType == \A s \in Signs : s.typ \in {"ColonEquals", "Pipe", "Char"}

Plain == {"Error", "EOF", "Field", "Dot", "LeftDelim", "RightDelim", "LeftParen", "RightParen",
          "Space"}
Items ==
    [typ : Plain, val : {""}] \cup [typ : {"Text"}, val : {"blank", "text"}] \cup Words \cup Signs
    \cup [typ : {"Variable"}, val : Variables] \cup [typ : {"String"}, val : Strings]
    \cup [typ : {"Number"}, val : Numbers]

VARIABLES
    lexState,    \* the state function that runs; "ended": the channel is closed
    sending,     \* it waits in emit
    parenDepth,
    atWord,      \* what the last item was: the start of the next one depends on it
    sent,        \* number of items sent since the last "{{" or "}}"
    actions      \* number of "{{" scanned

lexVars == <<lexState, sending, parenDepth, atWord, sent, actions>>

LexInit ==
    /\ lexState = "lexText"
    /\ sending = FALSE
    /\ parenDepth = 0
    /\ atWord = "none"
    /\ sent = 0
    /\ actions = 0

scan ==
    /\ ~sending
    /\ lexState \notin {"nil", "ended"}
    /\ sending' = TRUE
    /\ UNCHANGED <<lexState, parenDepth, atWord, sent, actions>>

\* In state the item i of type typ is found; next is the state function after it.
emit(state, i, typ, next) ==
    /\ sending
    /\ lexState = state
    /\ i.typ = typ
    /\ sending' = FALSE
    /\ lexState' = next

MoreText == actions < Len(MaxItems)

-----------------------------------------------------------------------------
(* lexText: text up to the next "{{", which trim markers may leave empty,  *)
(* or up to the end.                                                       *)

lexText(i) ==
    /\ \/ emit("lexText", i, "Text", "lexLeftDelim") /\ MoreText
       \/ emit("lexText", i, "Text", "lexEOF")
    /\ sent' = 1
    /\ UNCHANGED <<parenDepth, atWord, actions>>

lexEOF(i) ==
    /\ \E state \in {"lexText", "lexEOF"} : emit(state, i, "EOF", "nil")
    /\ sent' = 2
    /\ UNCHANGED <<parenDepth, atWord, actions>>

\* a delimiter with text in front of it, or with none
lexLeftDelim(i) ==
    /\ \/ emit("lexText", i, "LeftDelim", "lexInsideAction") /\ MoreText
       \/ emit("lexLeftDelim", i, "LeftDelim", "lexInsideAction")
    /\ sent' = 1
    /\ parenDepth' = 0
    /\ atWord' = "none"
    /\ actions' = actions + 1

\* a comment sends nothing, or ends the scan
lexComment ==
    /\ ~sending
    /\ lexState = "lexLeftDelim"
    /\ lexState' = "lexText"
    /\ actions' = actions + 1
    /\ UNCHANGED <<sending, parenDepth, atWord, sent>>

-----------------------------------------------------------------------------
(* lexInsideAction                                                         *)

Inside(i, typ) ==
    /\ emit("lexInsideAction", i, typ, "lexInsideAction")
    /\ sent < MaxItems[actions]
    /\ sent' = sent + 1
    /\ UNCHANGED actions

lexRightDelim(i) ==
    /\ parenDepth = 0
    /\ emit("lexInsideAction", i, "RightDelim", "lexText")
    /\ sent' = sent + 1
    /\ atWord' = "none"
    /\ UNCHANGED <<parenDepth, actions>>

\* errorf, after which the state is nil: an unclosed action, paren, comment
\* or element, or a character no element starts with
lexError(i) ==
    /\ \/ \E state \in {"lexLeftDelim", "lexInsideAction", "lexBadParen"} :
              emit(state, i, "Error", "nil")
       \/ emit("lexText", i, "Error", "nil") /\ MoreText
    /\ sent' = sent + 1
    /\ UNCHANGED <<parenDepth, atWord, actions>>

\* a run of spaces is one item
lexSpace(i) ==
    /\ atWord # "space"
    /\ Inside(i, "Space")
    /\ atWord' = "space"
    /\ UNCHANGED parenDepth

\* ":=", "|" and characters; atTerminator: most of them may follow a word
lexSign(i) ==
    /\ i \in Signs
    /\ atWord = "word" => i.val # "other"
    /\ Inside(i, i.typ)
    /\ atWord' = "none"
    /\ UNCHANGED parenDepth

lexField(i) ==
    /\ Inside(i, "Field") \/ Inside(i, "Dot")
    /\ atWord' = "word"
    /\ UNCHANGED parenDepth

lexVariable(i) ==
    /\ atWord # "word"
    /\ Inside(i, "Variable")
    /\ atWord' = "word"
    /\ UNCHANGED parenDepth

\* keywords, functions, booleans
lexIdentifier(i) ==
    /\ atWord \notin {"word", "number"}
    /\ i \in Words
    /\ Inside(i, i.typ)
    /\ atWord' = "word"
    /\ UNCHANGED parenDepth

\* strings and characters
lexQuote(i) ==
    /\ atWord # "word"
    /\ Inside(i, "String")
    /\ atWord' = "none"
    /\ UNCHANGED parenDepth

\* ".5" may follow a word; strconv may refuse what scanNumber accepts
lexNumber(i) ==
    /\ Inside(i, "Number")
    /\ atWord' = "number"
    /\ UNCHANGED parenDepth

lexLeftParen(i) ==
    /\ Inside(i, "LeftParen")
    /\ parenDepth' = parenDepth + 1
    /\ atWord' = "none"

\* the item is sent before its depth is looked at
lexRightParen(i) ==
    /\ emit("lexInsideAction", i, "RightParen",
            IF parenDepth = 0 THEN "lexBadParen" ELSE "lexInsideAction")
    /\ sent < MaxItems[actions]
    /\ sent' = sent + 1
    /\ parenDepth' = parenDepth - 1
    /\ atWord' = "none"
    /\ UNCHANGED actions

\* run: the loop ends with the state nil
closeItems ==
    /\ ~sending
    /\ lexState = "nil"
    /\ lexState' = "ended"
    /\ UNCHANGED <<sending, parenDepth, atWord, sent, actions>>

\* What the goroutine does by itself, and what it does with the item i when
\* the parser takes one.
LexStep == scan \/ lexComment \/ closeItems
nextItem(i) ==
    \/ lexText(i) \/ lexEOF(i) \/ lexLeftDelim(i) \/ lexRightDelim(i) \/ lexError(i)
    \/ lexSpace(i) \/ lexSign(i) \/ lexField(i) \/ lexVariable(i) \/ lexIdentifier(i)
    \/ lexQuote(i) \/ lexNumber(i) \/ lexLeftParen(i) \/ lexRightParen(i)

LexTypeOK ==
    /\ lexState \in {"lexText", "lexLeftDelim", "lexEOF", "lexInsideAction", "lexBadParen",
                     "nil", "ended"}
    /\ sending \in BOOLEAN
    /\ parenDepth \in Int
    /\ atWord \in {"none", "space", "word", "number"}
    /\ sent \in Nat /\ actions \in Nat
=============================================================================
