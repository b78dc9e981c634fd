---------------------------- MODULE MCImContext ----------------------------
(* One or two contexts, one accent and one letter.                         *)
EXTENDS ImContext

CONSTANTS c1, c2

MCContexts == {c1, c2}

MCSelections   == {<<1, 1>>, <<1, 2>>}
MCLiterals     == {39}
MCSymbols      == {101}
MCCompositions == {<<39, 101, 233>>}
=============================================================================
