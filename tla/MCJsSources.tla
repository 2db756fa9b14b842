---------------------------- MODULE MCJsSources ----------------------------
(* Each family has what one part of the grammar is about, and lengths for   *)
(* which its longest construct fits.                                        *)
EXTENDS JsSources

Family(prefix, more, lexemes) ==
    [prefix |-> prefix, lexemes |-> lexemes, length |-> Len(prefix) + more]

MCFamilies ==
    { Family(<<>>, 5, {"a", "+", "*", "<", "in", "==", "&&", "=", "+=", "?", ":", "++", "!"}),
      Family(<<>>, 6, {"a", "b", "null", "(", ")", "?", ":", "=", "-"}),
      Family(<<>>, 5, {"a", "b", "1", "s", "null", "f", "(", ")", ".", "[", "]", ",", "new", "="}),
      Family(<<"{">>, 5, {"a", "1", "}", ":", ",", "function", "(", ")", "return", "get", ";"}),
      Family(<<"for", "(">>, 6, {"(", ")", "var", "a", "in", ";", "=", "break"}),
      Family(<<"for", "(", "a", "in", "b", ")">>, 5, {"a", ":", "if", "(", ")", "break", "continue", "NL"}),
      Family(<<"switch", "(", "a", ")", "{">>, 6, {"a", "}", "case", "default", ":", "break", "continue", ";"}),
      Family(<<"a", ":", "while", "(", "1", ")">>, 5, {"break", "continue", "a", "b", ";", "{", "}"}),
      Family(<<"a", ":", "while", "(", "1", ")", "function", "b", "(", ")", "{">>, 4,
             {"break", "continue", "return", "a", ";", "{", "}"}),
      Family(<<"a", ":">>, 5, {"break", "a", "b", ":", ";", "do", "while", "(", ")"}),
      Family(<<"try", "{">>, 6, {"a", "{", "}", "catch", "finally", "(", ")", "throw"}),
      Family(<<"if", "(", "a", ")">>, 5, {"if", "else", "a", "++", "NL", ";", "debugger", "with", "(", ")", "class"}),
      Family(<<"function", "a">>, 5, {"a", "(", ")", ",", "{", "}", "return", "NL"}),
      Family(<<"a">>, 5, {"a", "}", ")", "(", "{", "function", ",", "NL"}),
      Family(<<>>, 5, {"a", "/", "/=", "NL", "(", ")", ".", "typeof"}),
      Family(<<"/">>, 5, {"a", "/", "/=", "[", "]", "(", ")", "++", "NL"}) }
=============================================================================
