---------------------------- MODULE MCNebulaQuery ----------------------------
(***************************************************************************)
(* An instance of NebulaQuery for TLC.  The texts are all sentences of the *)
(* supported syntax; with one token missing, doubled, illegal or an AND;   *)
(* with the tokens around a place changed over; and with more after them.  *)
(***************************************************************************)
EXTENDS NebulaQuery, TLC

Symmetry == Permutations(Value) \cup Permutations(Label)

Sentences == {Sentence(t) : t \in Trees}

Places == UNION {{<<s, i>> : i \in DOMAIN s} : s \in Sentences}

Odd == {Illegal, Token("KEYWORD", "AND")}

SomeTexts ==
    {<< >>} \cup Sentences
        \cup {RemoveAt(p[1], p[2]) : p \in Places}
        \cup {InsertAt(p[1], p[2], p[1][p[2]]) : p \in Places}
        \cup {ReplaceAt(p[1], p[2], t) : p \in Places, t \in Odd}
        \cup {[p[1] EXCEPT ![p[2]] = p[1][p[2] - 1], ![p[2] - 1] = p[1][p[2]]] :
                 p \in {q \in Places : q[2] > 1}}
        \cup {Append(s, t) : s \in Sentences, t \in Odd}
        \cup {s \o s : s \in Sentences}

=============================================================================
