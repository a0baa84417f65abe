----------------------------- MODULE MCKeyLine -------------------------------
(* Small instances of KeyLine: the first source holds one line of any shape   *)
(* up to a length, the second a short list of a few kinds of line.            *)
EXTENDS KeyLine

CONSTANT MaxPrefix

Q == "quote"
B == "backslash"

\* Every beginning of a line, alone and before a key, one that follows its type
\* after two spaces, one whose type has a quote in it, and one behind a quoted
\* value that goes on.
Beginnings == UNION {[1 .. n -> {"x", " ", Q, B, "="}] : n \in 0 .. MaxPrefix}
Ends == {<<>>, <<"k", " ", "x">>, <<" ", "k", " ", "x", " ", "=">>,
         <<" ", "k", " ", " ", "x">>, <<"k", Q, " ", "x">>,
         <<" ", Q, " ", "k", " ", "x">>}
AnyLine == {<<b \o e>> : b \in Beginnings, e \in Ends}

FewLines ==
  {<<>>,
   <<<<"x">>, <<"k", " ", "x">>, <<"k", " ", "x", " ", "x">>>>,
   <<<<"#">>, <<"=", Q, " ", Q, " ", "k", " ", "x">>, <<"k", " ", "x">>>>}

Both == <<AnyLine, FewLines>>

TwoSpaces == {<<<<"k", " ", " ", "x">>>>, <<<<"k", " ", " ", "=">>, <<"k", " ", "x">>>>}
DoubleSpaces == <<TwoSpaces, TwoSpaces>>
=============================================================================
