------------------------- MODULE PassthroughLemmas -------------------------
(***************************************************************************)
(* Lemmas about the operators of Passthrough: when an event is committed   *)
(* directly, and what the committed text can be.                           *)
(***************************************************************************)
EXTENDS Passthrough, ComposeLemmas

\* No row has code 0, the keysyms of the rows are ASCII, and a symbol is a Unicode
\* scalar value beyond ASCII and the C1 controls, or 0 where there is none.
LEMMA TableFacts ==
  ASSUME NEW s \in win_intl_symbols
  PROVE  /\ s[1] # 0
         /\ s[2] \in 32..126 /\ s[3] \in 32..126
         /\ s[4] \in Nat /\ s[4] >= 160 /\ s[4] < 55296
         /\ s[5] \in Nat /\ (s[5] = 0 \/ (s[5] >= 160 /\ s[5] < 55296))
BY SMTT(60) DEF win_intl_symbols

\* A keycode names one row, and a keysym stands in one row, in whichever of its
\* two columns.
LEMMA OneRowPerKey ==
  ASSUME NEW s \in win_intl_symbols, NEW t \in win_intl_symbols,
         s[1] = t[1] \/ {s[2], s[3]} \cap {t[2], t[3]} # {}
  PROVE  s = t
BY SMTT(60) DEF win_intl_symbols

\* The order of the rows does not matter: the loop of win_intl_lookup() could
\* stop at one row only, and the character of an AltGr event is unique.
THEOREM OneWindowsCharacter ==
  ASSUME NEW key, NEW code, NEW state, NEW altgr,
         NEW c \in win_intl_lookup(key, code, state, altgr),
         NEW d \in win_intl_lookup(key, code, state, altgr)
  PROVE  c = d
<1> DEFINE column == IF "SHIFT" \in state THEN 5 ELSE 4
<1>1. \A s, t \in symbol_of(key, code) : s = t
  BY OneRowPerKey DEF symbol_of
<1>2. CASE symbol_of(key, code) # {}
  <2>1. PICK s \in symbol_of(key, code) : c = s[column]
    BY <1>2 DEF win_intl_lookup
  <2>2. PICK t \in symbol_of(key, code) : d = t[column]
    BY <1>2 DEF win_intl_lookup
  <2> QED
    BY <1>1, <2>1, <2>2
<1>3. CASE symbol_of(key, code) = {}
  BY <1>3 DEF win_intl_lookup
<1> QED
  BY <1>2, <1>3

LEMMA KeyvalFacts ==
  ASSUME NEW key \in Nat
  PROVE  ibus_keyval_to_unicode(key) \in Nat
BY SMT, LegacyAssumption DEF ibus_keyval_to_unicode

\* A looked-up character is a number, and only an AltGr chord has one.
LEMMA LookupSymbolFacts ==
  ASSUME NEW key \in Nat, NEW code \in Nat, NEW state, NEW altgr \in BOOLEAN,
         NEW c \in win_intl_lookup(key, code, state, altgr)
  PROVE  level3(state, altgr) /\ c \in Nat
<1> DEFINE column == IF "SHIFT" \in state THEN 5 ELSE 4
<1>1. level3(state, altgr)
  BY DEF win_intl_lookup
<1>2. \E s \in win_intl_symbols : c \in {s[4], s[5]}
  <2>1. CASE symbol_of(key, code) # {}
    <3>1. PICK s \in symbol_of(key, code) : c = s[column]
      BY <1>1, <2>1 DEF win_intl_lookup
    <3> QED
      BY <3>1 DEF symbol_of
  <2>2. CASE symbol_of(key, code) = {}
    BY <1>1, <2>2 DEF win_intl_lookup
  <2> QED
    BY <2>1, <2>2
<1> QED
  BY <1>1, <1>2, TableFacts

\* Text committed directly is one character; no release, no Ctrl or Super chord
\* and no plain Alt chord has any.
LEMMA PassthroughFacts ==
  ASSUME NEW key \in Nat, NEW code \in Nat, NEW state, NEW altgr \in BOOLEAN,
         sc_engine_passthrough_text(key, code, state, altgr) # <<>>
  PROVE  /\ "RELEASE" \notin state
         /\ ~blocked(state)
         /\ "MOD1" \in state => level3(state, altgr)
         /\ \E c \in Nat : sc_engine_passthrough_text(key, code, state, altgr) = <<c>>
<1> DEFINE symbol == win_intl_lookup(key, code, state, altgr)
           text   == sc_engine_passthrough_text(key, code, state, altgr)
<1>1. "RELEASE" \notin state /\ ~blocked(state) /\ ("MOD1" \in state => level3(state, altgr))
  BY DEF sc_engine_passthrough_text
<1>2. \A ch : write_passthrough_char(ch) \in {<<>>, <<ch>>}
  BY Zenon DEF write_passthrough_char
<1>3. CASE symbol # {}
  <2>1. PICK c \in symbol : c = (CHOOSE x \in symbol : TRUE)
    BY <1>3
  <2>2. text = write_passthrough_char(c)
    BY <1>1, <1>3, <2>1, Zenon DEF sc_engine_passthrough_text
  <2>3. c \in Nat
    BY LookupSymbolFacts
  <2> QED
    BY <1>1, <1>2, <2>2, <2>3
<1>4. CASE symbol = {}
  <2>1. ~level3(state, altgr)
    BY <1>1, <1>4, Zenon DEF sc_engine_passthrough_text
  <2>2. text = write_passthrough_char(ibus_keyval_to_unicode(key))
    BY <1>1, <1>4, <2>1, Zenon DEF sc_engine_passthrough_text
  <2> QED
    BY <1>1, <1>2, <2>2, KeyvalFacts
<1> QED
  BY <1>3, <1>4
=============================================================================
