----------------------------- MODULE NebulaParser -----------------------------
(***************************************************************************)
(* The query language of nebula_graph (query/parser.py): from the tokens   *)
(* of a text to its syntax tree.  The text is tokenised as a whole before  *)
(* it is parsed, and a character that no pattern takes ends it there.      *)
(***************************************************************************)
EXTENDS Naturals, Sequences, SequencesExt

CONSTANTS
    Variable, Label, Value,
    None,  \* no label, or no WHERE clause
    Texts  \* what is asked: sequences of tokens

Token(type, value) == [type |-> type, value |-> value]

\* One property has an index; of the texts only that one is of interest.
Property == "name"

Illegal == Token("ILLEGAL", "<")

\* PATTERNS, and what tokenize raises at.
Tokens ==
    [type : {"KEYWORD"}, value : {"MATCH", "WHERE", "RETURN", "AND", "OR"}]
    \cup [type : {"SYMBOL"},
          value : {"(", ")", ":", ".", "=", "-", ">", "[", "]", "{", "}"}]
    \cup [type : {"ID"}, value : Variable \cup Label \cup {Property}]
    \cup [type : {"LITERAL"}, value : Value]
    \cup {Illegal}

ASSUME TokensOK ==
    /\ None \notin Variable \cup Label \cup Value \cup {Property}
    /\ Texts \subseteq Seq(Tokens)

\* _peek with a value, and without.
Is(s, i, type, value) == i <= Len(s) /\ s[i] = Token(type, value)
IsA(s, i, type) == i <= Len(s) /\ s[i].type = type

Labelled(s) == Is(s, 4, "SYMBOL", ":")

\* _parse_pattern, after MATCH, and the position that follows.
Pattern(s) ==
    /\ Is(s, 2, "SYMBOL", "(")
    /\ IsA(s, 3, "ID")
    /\ Labelled(s) => IsA(s, 5, "ID")
    /\ Is(s, IF Labelled(s) THEN 6 ELSE 4, "SYMBOL", ")")

AfterPattern(s) == IF Labelled(s) THEN 7 ELSE 5

\* _parse_where, after a WHERE at i.
Where(s, i) ==
    /\ IsA(s, i + 1, "ID")
    /\ Is(s, i + 2, "SYMBOL", ".")
    /\ IsA(s, i + 3, "ID")
    /\ Is(s, i + 4, "SYMBOL", "=")
    /\ IsA(s, i + 5, "LITERAL")

\* (An operator that precedes another and is not used is a plausible bug of the
\* next one, put in its place to test the properties.)
AnyKeyword(s, i) == IsA(s, i, "KEYWORD")
IsFiltered(s, i) == Is(s, i, "KEYWORD", "WHERE")

\* tokenize and parse: the trees are one, or none if either raises SyntaxError.
\* Nothing looks at the tokens that follow the variable of RETURN.
Parsed(s) ==
    LET i == AfterPattern(s)
        filtered == IsFiltered(s, i)
        j == IF filtered THEN i + 6 ELSE i
    IN  IF /\ Illegal \notin ToSet(s)
           /\ Is(s, 1, "KEYWORD", "MATCH") /\ Pattern(s)
           /\ filtered => Where(s, i)
           /\ Is(s, j, "KEYWORD", "RETURN") /\ IsA(s, j + 1, "ID")
        THEN {[variable |-> s[3].value,
               label    |-> IF Labelled(s) THEN s[5].value ELSE None,
               of       |-> IF filtered THEN s[i + 1].value ELSE None,
               property |-> IF filtered THEN s[i + 3].value ELSE None,
               value    |-> IF filtered THEN s[i + 5].value ELSE None,
               returned |-> s[j + 1].value]}
        ELSE {}

\* What the texts that are accepted mean, and whether any is not.
Understood == UNION {Parsed(s) : s \in Texts}
SomeRefused == \E s \in Texts : Parsed(s) = {}

-----------------------------------------------------------------------------

\* The sentence of the supported syntax that a tree stands for.
Sentence(t) ==
    <<Token("KEYWORD", "MATCH"), Token("SYMBOL", "("), Token("ID", t.variable)>>
    \o (IF t.label = None THEN << >>
        ELSE <<Token("SYMBOL", ":"), Token("ID", t.label)>>)
    \o <<Token("SYMBOL", ")")>>
    \o (IF t.value = None THEN << >>
        ELSE <<Token("KEYWORD", "WHERE"), Token("ID", t.of), Token("SYMBOL", "."),
               Token("ID", t.property), Token("SYMBOL", "="), Token("LITERAL", t.value)>>)
    \o <<Token("KEYWORD", "RETURN"), Token("ID", t.returned)>>

Trees ==
    {t \in [variable : Variable, label : Label \cup {None}, of : Variable \cup {None},
            property : {Property, None}, value : Value \cup {None}, returned : Variable] :
        (t.of = None) = (t.value = None) /\ (t.property = None) = (t.value = None)}

\* Whether s is accepted exactly when it begins with a sentence of the supported
\* syntax and has no illegal character, with the tree of that sentence.
ReadAsWritten(s) ==
    Parsed(s) = IF Illegal \in ToSet(s) THEN {}
                ELSE {t \in Trees : IsPrefix(Sentence(t), s)}

=============================================================================
