---------------------------- MODULE SilentCompose ----------------------------
(***************************************************************************)
(* What the product promises, whatever backend runs it: "The pending       *)
(* accent stays private.  Applications only receive the final committed    *)
(* text" (README.md:16).  Each input context holds back at most one accent *)
(* until it is finished or abandoned; text appears in a context only when  *)
(* its own accent is finished, spelled from that accent, or when it holds  *)
(* none.                                                                   *)
(***************************************************************************)
EXTENDS Integers, Sequences

CONSTANTS
  Contexts,     \* the input contexts
  Literals,     \* the characters of the accents: ' " ` ^ ~
  Compositions  \* triples <<accent literal, character, composed character>>

VARIABLES
  held,  \* of each context, the literal of the accent held back, or Nothing
  text   \* of each context, the text its application received in the last step

vars == <<held, text>>

Nothing == 0

\* The accent alone, the accent followed by one character, or the accent
\* composed with one.
SpelledFrom(accent, t) ==
  \/ Len(t) \in {1, 2} /\ t[1] = accent
  \/ Len(t) = 1 /\ \E c \in Compositions : c[1] = accent /\ c[3] = t[1]

\* Only the application of context c receives anything.
OnlyIn(c, t) == text' = [x \in Contexts |-> IF x = c THEN t ELSE <<>>]

Init ==
  /\ held = [c \in Contexts |-> Nothing]
  /\ text = [c \in Contexts |-> <<>>]

\* An accent key is taken; no application sees anything of it.
Hold(c, accent) ==
  /\ held[c] = Nothing
  /\ held' = [held EXCEPT ![c] = accent]
  /\ OnlyIn(c, <<>>)

\* The accent and what completes it appear at once.
Finish(c) ==
  /\ held[c] # Nothing
  /\ held' = [held EXCEPT ![c] = Nothing]
  /\ SpelledFrom(held[c], text'[c])
  /\ OnlyIn(c, text'[c])

\* Escape, Backspace, reset or the loss of the context: nothing appears.
Abandon(c) ==
  /\ held[c] # Nothing
  /\ held' = [held EXCEPT ![c] = Nothing]
  /\ OnlyIn(c, <<>>)

\* One symbol committed as it is typed, never ahead of a held accent.
Symbol(c) ==
  /\ held[c] = Nothing
  /\ Len(text'[c]) = 1
  /\ OnlyIn(c, text'[c])
  /\ UNCHANGED held

\* A key that is none of the input method's business.
Rest(c) ==
  /\ OnlyIn(c, <<>>)
  /\ UNCHANGED held

Next ==
  \E c \in Contexts :
    \/ \E accent \in Literals : Hold(c, accent)
    \/ Finish(c)
    \/ Abandon(c)
    \/ Symbol(c)
    \/ Rest(c)

Spec == Init /\ [][Next]_vars
=============================================================================
