--------------------------- MODULE ComposeLemmas ---------------------------
(***************************************************************************)
(* Lemmas about the operators of ComposeState, for every key and every set *)
(* of modifiers: what one call of compose_state_process_key() can return.  *)
(***************************************************************************)
EXTENDS ComposeState, SequenceTheorems, TLAPS

\* What an accent may turn into when it is finished.
Spelled(literal, t) ==
  /\ t \in Seq(Nat)
  /\ \/ Len(t) \in {1, 2} /\ t[1] = literal
     \/ Len(t) = 1 /\ \E c \in Compositions : c[1] = literal /\ c[3] = t[1]

\* Two texts of one character make a text of two.
LEMMA PairOfCharacters ==
  ASSUME NEW x \in Nat, NEW y \in Nat
  PROVE  <<x>> \o <<y>> = <<x, y>>
<1> DEFINE s == <<x>> \o <<y>>
           t == <<x, y>>
<1>1. s \in Seq(Nat) /\ Len(s) = 2 /\ s[1] = x /\ s[2] = y
  OBVIOUS
<1>2. t \in Seq(Nat) /\ Len(t) = 2 /\ t[1] = x /\ t[2] = y
  OBVIOUS
<1>3. \A i \in 1..Len(s) : s[i] = t[i]
  BY <1>1, <1>2
<1> HIDE DEF s, t
<1>4. s = t
  BY <1>1, <1>2, <1>3, SeqEqual
<1> QED
  BY <1>4 DEF s, t

\* Such a text is never empty.
LEMMA SpelledFacts ==
  ASSUME NEW literal, NEW t, Spelled(literal, t)
  PROVE  t \in Seq(Nat) /\ t # <<>>
BY DEF Spelled

\* The accents are finitely many; their literals are ASCII characters, so they
\* are numbers, not 0, and valid.
LEMMA AccentFacts ==
  ASSUME NEW a \in PendingAccents
  PROVE  /\ accent_literal[a] \in 1..127
         /\ a # PENDING_NONE
         /\ Holding(a).pending = a
         /\ Holding(a).pending_literal = accent_literal[a]
         /\ Holding(a) # Idle
BY DEF PendingAccents, accent_literal, PENDING_NONE, Holding, Idle

\* Every rule of the table relates two characters.
LEMMA RuleFacts ==
  ASSUME NEW a \in PendingAccents, NEW r \in compose_rules[a]
  PROVE  r[1] \in Nat /\ r[2] \in Nat
<1>1. CASE a = "ACUTE"
  BY <1>1 DEF compose_rules, BothCases
<1>2. CASE a = "DIAERESIS"
  BY <1>2 DEF compose_rules, BothCases
<1>3. CASE a = "GRAVE"
  BY <1>3 DEF compose_rules, BothCases
<1>4. CASE a = "CIRCUMFLEX"
  BY <1>4 DEF compose_rules, BothCases
<1>5. CASE a = "TILDE"
  BY <1>5 DEF compose_rules, BothCases
<1> QED
  BY <1>1, <1>2, <1>3, <1>4, <1>5 DEF PendingAccents

\* The table has one rule for an accent and a character, so that it does not matter
\* in which order lookup_composition() goes through it.
LEMMA OneRulePerCharacter ==
  ASSUME NEW a \in PendingAccents, NEW r \in compose_rules[a], NEW s \in compose_rules[a],
         r[1] = s[1]
  PROVE  r[2] = s[2]
<1>1. CASE a = "ACUTE"
  BY <1>1 DEF compose_rules, BothCases
<1>2. CASE a = "DIAERESIS"
  BY <1>2 DEF compose_rules, BothCases
<1>3. CASE a = "GRAVE"
  BY <1>3 DEF compose_rules, BothCases
<1>4. CASE a = "CIRCUMFLEX"
  BY <1>4 DEF compose_rules, BothCases
<1>5. CASE a = "TILDE"
  BY <1>5 DEF compose_rules, BothCases
<1> QED
  BY <1>1, <1>2, <1>3, <1>4, <1>5 DEF PendingAccents

\* Each accent has a literal of its own, so that the triples of a literal are the
\* rules of its accent.
LEMMA LiteralsApart ==
  ASSUME NEW a \in PendingAccents, NEW b \in PendingAccents,
         accent_literal[a] = accent_literal[b]
  PROVE  a = b
BY DEF PendingAccents, accent_literal

\* The table as SilentCompose has it, by literal, is the one the code looks in.
LEMMA LookupIsTheTable ==
  ASSUME NEW a \in PendingAccents, NEW input
  PROVE  lookup_composition(a, input)
           = {c[3] : c \in {d \in Compositions : d[1] = accent_literal[a] /\ d[2] = input}}
<1> DEFINE promised ==
      {c[3] : c \in {d \in Compositions : d[1] = accent_literal[a] /\ d[2] = input}}
<1>1. ASSUME NEW out \in lookup_composition(a, input)
      PROVE  out \in promised
  <2>1. PICK r \in compose_rules[a] : r[1] = input /\ out = r[2]
    BY DEF lookup_composition
  <2> DEFINE c == <<accent_literal[a], r[1], r[2]>>
  <2>2. c \in Compositions /\ c[1] = accent_literal[a] /\ c[2] = input /\ c[3] = out
    BY <2>1 DEF Compositions
  <2> QED
    BY <2>2
<1>2. ASSUME NEW out \in promised
      PROVE  out \in lookup_composition(a, input)
  <2>1. PICK c \in Compositions : c[1] = accent_literal[a] /\ c[2] = input /\ out = c[3]
    OBVIOUS
  <2>2. PICK b \in PendingAccents :
          \E r \in compose_rules[b] : c = <<accent_literal[b], r[1], r[2]>>
    BY DEF Compositions
  <2>3. PICK r \in compose_rules[b] : c = <<accent_literal[b], r[1], r[2]>>
    BY <2>2
  <2>4. accent_literal[b] = accent_literal[a] /\ r[1] = input /\ r[2] = out
    BY <2>1, <2>3
  <2>5. b = a
    BY <2>4, LiteralsApart
  <2> QED
    BY <2>4, <2>5 DEF lookup_composition
<1> QED
  BY <1>1, <1>2

\* A character found in the table is a composition of the accent.
LEMMA LookupFacts ==
  ASSUME NEW a \in PendingAccents, NEW input, NEW c \in lookup_composition(a, input)
  PROVE  c \in Nat /\ Spelled(accent_literal[a], <<c>>)
<1>1. PICK r \in compose_rules[a] : r[1] = input /\ c = r[2]
  BY DEF lookup_composition
<1>2. c \in Nat
  BY <1>1, RuleFacts
<1>3. <<accent_literal[a], r[1], r[2]>> \in Compositions
  BY <1>1 DEF Compositions
<1>4. Spelled(accent_literal[a], <<c>>)
  BY <1>1, <1>2, <1>3 DEF Spelled
<1> QED
  BY <1>2, <1>4

\* A printable key stands for a valid character.
LEMMA PrintableFacts ==
  ASSUME NEW key \in Nat, is_printable(key)
  PROVE  key_to_unicode(key) \in Nat /\ g_unichar_validate(key_to_unicode(key))
<1>1. g_unichar_validate(key_to_unicode(key))
  BY DEF is_printable
<1>2. key_to_unicode(key) \in Nat
  BY SMT DEF key_to_unicode, encodes_unicode
<1> QED
  BY <1>1, <1>2

\* The literal of an accent is always written in full.
LEMMA LiteralFacts ==
  ASSUME NEW a \in PendingAccents
  PROVE  /\ g_unichar_validate(accent_literal[a])
         /\ utf8_from_unichar(accent_literal[a]) = <<accent_literal[a]>>
<1>1. accent_literal[a] \in 1..127
  BY AccentFacts
<1>2. g_unichar_validate(accent_literal[a])
  BY <1>1, SMT DEF g_unichar_validate
<1>3. accent_literal[a] # 0
  BY <1>1
<1> QED
  BY <1>2, <1>3, Zenon DEF utf8_from_unichar

\* A character that follows an accent always finishes it, and the text returned
\* is spelled from the accent: the fallback for invalid characters is never taken.
LEMMA FinishFacts ==
  ASSUME NEW a \in PendingAccents, NEW input \in Nat, g_unichar_validate(input)
  PROVE  LET out == finish_sequence(Holding(a), input)
         IN  /\ out.state = Idle /\ out.handled = TRUE
             /\ Spelled(accent_literal[a], out.commit)
<1> DEFINE literal == accent_literal[a]
           found   == lookup_composition(a, input)
           out     == finish_sequence(Holding(a), input)
<1>1. Holding(a).pending = a /\ Holding(a).pending_literal = literal /\ literal \in Nat
  BY AccentFacts
<1>2. g_unichar_validate(literal) /\ utf8_from_unichar(literal) = <<literal>>
  BY LiteralFacts
<1>3. CASE input = SPACE
  <2>1. out = result_handled(Idle, <<literal>>)
    BY <1>1, <1>2, <1>3 DEF finish_sequence
  <2> QED
    BY <1>1, <2>1 DEF result_handled, Spelled
<1>4. CASE input # SPACE /\ found # {}
  <2>1. PICK c \in found : c = (CHOOSE x \in found : TRUE)
    BY <1>4
  <2>2. out = result_handled(Idle, <<c>>)
    BY <1>1, <1>4, <2>1 DEF finish_sequence
  <2>3. c \in Nat /\ Spelled(literal, <<c>>)
    BY LookupFacts
  <2> QED
    BY <2>2, <2>3 DEF result_handled
<1>5. CASE input # SPACE /\ found = {}
  <2>1. out = result_handled(Idle, <<literal>> \o utf8_from_unichar(input))
    BY <1>1, <1>2, <1>5 DEF finish_sequence, concat_unichars
  <2>2. CASE input = 0
    <3>1. utf8_from_unichar(input) = <<>>
      BY <2>2 DEF utf8_from_unichar
    <3>2. out = result_handled(Idle, <<literal>>)
      BY <1>1, <2>1, <3>1
    <3> QED
      BY <1>1, <3>2 DEF result_handled, Spelled
  <2>3. CASE input # 0
    <3>1. utf8_from_unichar(input) = <<input>>
      BY <2>3 DEF utf8_from_unichar
    <3> DEFINE t == <<literal>> \o <<input>>
    <3>2. out = result_handled(Idle, t)
      BY <2>1, <3>1
    <3>3. t \in Seq(Nat) /\ Len(t) = 2 /\ t[1] = literal
      BY <1>1
    <3> QED
      BY <3>2, <3>3 DEF result_handled, Spelled
  <2> QED
    BY <2>2, <2>3
<1> QED
  BY <1>3, <1>4, <1>5

\* A call with nothing pending returns no text; it takes the key exactly when it
\* starts a sequence, and no release or shortcut does.
LEMMA IdleFacts ==
  ASSUME NEW key \in Nat, NEW mods
  PROVE  LET out == compose_state_process_key(Idle, key, mods)
         IN  /\ out.commit = <<>>
             /\ \/ out.state = Idle /\ out.handled = FALSE
                \/ /\ out.handled = TRUE
                   /\ \E a \in PendingAccents : out.state = Holding(a)
                   /\ ~is_modifier_shortcut(mods) /\ "RELEASE" \notin mods
<1> DEFINE out == compose_state_process_key(Idle, key, mods)
<1>1. ~compose_state_is_pending(Idle)
  BY DEF compose_state_is_pending, Idle
<1>2. CASE "RELEASE" \in mods
  BY <1>2 DEF compose_state_process_key, result_unhandled
<1>3. CASE "RELEASE" \notin mods /\ ~is_modifier_shortcut(mods) /\ pending_from_key(key) # {}
  <2>1. PICK a \in pending_from_key(key) : a = (CHOOSE x \in pending_from_key(key) : TRUE)
    BY <1>3
  <2>2. out = result_handled(Holding(a), <<>>)
    BY <1>1, <1>3, <2>1 DEF compose_state_process_key, process_idle
  <2> QED
    BY <1>3, <2>2 DEF result_handled, pending_from_key
<1>4. CASE "RELEASE" \notin mods /\ (is_modifier_shortcut(mods) \/ pending_from_key(key) = {})
  <2>1. out = result_unhandled(Idle)
    BY <1>1, <1>4 DEF compose_state_process_key, process_idle
  <2> QED
    BY <2>1 DEF result_unhandled
<1> QED
  BY <1>2, <1>3, <1>4

\* A call with an accent pending leaves it alone, without a word and to the
\* caller; or cancels it on Escape or Backspace; or finishes it, spelling it out.
\* Only a key that types nothing is then left to the caller as well.
LEMMA PendingFacts ==
  ASSUME NEW a \in PendingAccents, NEW key \in Nat, NEW mods
  PROVE  LET out == compose_state_process_key(Holding(a), key, mods)
         IN  \/ out.state = Holding(a) /\ out.commit = <<>> /\ out.handled = FALSE
             \/ /\ "RELEASE" \notin mods
                /\ out.state = Idle
                /\ \/ /\ key \in {SC_KEY_ESCAPE, SC_KEY_BACKSPACE}
                      /\ out.commit = <<>> /\ out.handled = TRUE
                   \/ /\ ~is_modifier_shortcut(mods)
                      /\ Spelled(accent_literal[a], out.commit)
                      /\ \/ out.handled = TRUE
                         \/ /\ out.handled = FALSE
                            /\ is_non_printable_navigation_key(key)
                            /\ out.commit = <<accent_literal[a]>>
<1> DEFINE out == compose_state_process_key(Holding(a), key, mods)
           literal == accent_literal[a]
<1>1. compose_state_is_pending(Holding(a)) /\ Holding(a).pending_literal = literal
  BY AccentFacts DEF compose_state_is_pending
<1>2. CASE "RELEASE" \in mods
  BY <1>2 DEF compose_state_process_key, result_unhandled
<1>3. CASE "RELEASE" \notin mods
  <2>1. out = process_pending(Holding(a), key, mods)
    BY <1>1, <1>3 DEF compose_state_process_key
  <2>2. CASE key \in {SC_KEY_ESCAPE, SC_KEY_BACKSPACE}
    BY <1>3, <2>1, <2>2 DEF process_pending, result_handled
  <2>3. CASE key \notin {SC_KEY_ESCAPE, SC_KEY_BACKSPACE} /\ is_modifier_shortcut(mods)
    BY <2>1, <2>3 DEF process_pending, result_unhandled
  <2>4. CASE /\ key \notin {SC_KEY_ESCAPE, SC_KEY_BACKSPACE} /\ ~is_modifier_shortcut(mods)
             /\ is_printable(key)
    <3>1. out = finish_sequence(Holding(a), key_to_unicode(key))
      BY <2>1, <2>4 DEF process_pending
    <3>2. key_to_unicode(key) \in Nat /\ g_unichar_validate(key_to_unicode(key))
      BY <2>4, PrintableFacts
    <3> QED
      BY <1>3, <2>4, <3>1, <3>2, FinishFacts
  <2>5. CASE /\ key \notin {SC_KEY_ESCAPE, SC_KEY_BACKSPACE} /\ ~is_modifier_shortcut(mods)
             /\ ~is_printable(key) /\ is_non_printable_navigation_key(key)
    <3>1. utf8_from_unichar(literal) = <<literal>> /\ literal \in Nat
      BY LiteralFacts, AccentFacts
    <3>2. out = [state |-> Idle, handled |-> FALSE, commit |-> <<literal>>]
      BY <1>1, <2>1, <2>5, <3>1 DEF process_pending
    <3> QED
      BY <1>3, <2>5, <3>1, <3>2 DEF Spelled
  <2>6. CASE /\ key \notin {SC_KEY_ESCAPE, SC_KEY_BACKSPACE} /\ ~is_modifier_shortcut(mods)
             /\ ~is_printable(key) /\ ~is_non_printable_navigation_key(key)
    BY <2>1, <2>6 DEF process_pending, result_unhandled
  <2> QED
    BY <2>2, <2>3, <2>4, <2>5, <2>6
<1> QED
  BY <1>2, <1>3
=============================================================================
