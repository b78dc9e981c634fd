--------------------------- MODULE Compose_proofs ---------------------------
(***************************************************************************)
(* Theorems about Compose, for every set of keys and of modifier sets.     *)
(* PendingHasItsLiteral is inductive by itself; every other property is a  *)
(* consequence of it and of the lemmas about one call.                     *)
(***************************************************************************)
EXTENDS Compose, ComposeLemmas

\* What one call of process_key() does to a state that has its literal.
LEMMA KeyStep ==
  ASSUME PendingHasItsLiteral, NEW key \in Keys, NEW mods \in ModSets, process_key(key, mods)
  PROVE  /\ last' \in [call : {"key"}, key : {key}, mods : {mods}, handled : BOOLEAN,
                       commit : Seq(Nat)]
         /\ \/ /\ state = Idle /\ last'.commit = <<>>
               /\ \/ state' = Idle /\ last'.handled = FALSE
                  \/ /\ last'.handled = TRUE
                     /\ "RELEASE" \notin mods /\ ~is_modifier_shortcut(mods)
                     /\ \E a \in PendingAccents : state' = Holding(a)
            \/ \E a \in PendingAccents :
                 /\ state = Holding(a)
                 /\ \/ state' = state /\ last'.commit = <<>> /\ last'.handled = FALSE
                    \/ /\ state' = Idle /\ "RELEASE" \notin mods
                       /\ \/ /\ key \in {SC_KEY_ESCAPE, SC_KEY_BACKSPACE}
                             /\ last'.commit = <<>> /\ last'.handled = TRUE
                          \/ /\ ~is_modifier_shortcut(mods)
                             /\ Spelled(accent_literal[a], last'.commit)
<1> DEFINE out == compose_state_process_key(state, key, mods)
<1>1. /\ state' = out.state
      /\ last' = [call |-> "key", key |-> key, mods |-> mods,
                  handled |-> out.handled, commit |-> out.commit]
  BY DEF process_key
<1>2. key \in Nat
  BY ComposeAssumption
<1>3. <<>> \in Seq(Nat)
  OBVIOUS
<1>4. CASE state = Idle
  <2>1. /\ out.commit = <<>>
        /\ \/ out.state = Idle /\ out.handled = FALSE
           \/ /\ out.handled = TRUE
              /\ \E a \in PendingAccents : out.state = Holding(a)
              /\ "RELEASE" \notin mods /\ ~is_modifier_shortcut(mods)
    BY <1>2, <1>4, IdleFacts
  <2>2. out.handled \in BOOLEAN /\ out.commit \in Seq(Nat)
    BY <1>3, <2>1, Zenon
  <2> QED
    BY <1>1, <1>4, <2>1, <2>2
<1>5. ASSUME NEW a \in PendingAccents, state = Holding(a)
      PROVE  /\ out.commit \in Seq(Nat) /\ out.handled \in BOOLEAN
             /\ \/ out.state = state /\ out.commit = <<>> /\ out.handled = FALSE
                \/ /\ out.state = Idle /\ "RELEASE" \notin mods
                   /\ \/ /\ key \in {SC_KEY_ESCAPE, SC_KEY_BACKSPACE}
                         /\ out.commit = <<>> /\ out.handled = TRUE
                      \/ /\ ~is_modifier_shortcut(mods)
                         /\ Spelled(accent_literal[a], out.commit)
  <2>1. \/ out.state = state /\ out.commit = <<>> /\ out.handled = FALSE
        \/ /\ out.state = Idle /\ "RELEASE" \notin mods
           /\ \/ /\ key \in {SC_KEY_ESCAPE, SC_KEY_BACKSPACE}
                 /\ out.commit = <<>> /\ out.handled = TRUE
              \/ /\ ~is_modifier_shortcut(mods)
                 /\ Spelled(accent_literal[a], out.commit) /\ out.handled \in BOOLEAN
    BY <1>2, <1>5, PendingFacts
  <2>2. out.commit \in Seq(Nat)
    BY <1>3, <2>1, SpelledFacts, Zenon
  <2> QED
    BY <2>1, <2>2
<1>6. CASE \E a \in PendingAccents : state = Holding(a)
  <2>1. PICK a \in PendingAccents : state = Holding(a)
    BY <1>6
  <2> QED
    BY <1>1, <1>5, <2>1
<1> QED
  BY <1>4, <1>6 DEF PendingHasItsLiteral, ComposeStates

-----------------------------------------------------------------------------
\* A pending accent always has its own literal, and none is left over from an
\* abandoned sequence (compose_state_reset).
THEOREM PendingLiteral == Spec => []PendingHasItsLiteral
<1>1. Init => PendingHasItsLiteral
  BY DEF Init, PendingHasItsLiteral, ComposeStates
<1>2. PendingHasItsLiteral /\ [Next]_vars => PendingHasItsLiteral'
  <2> SUFFICES ASSUME PendingHasItsLiteral, [Next]_vars
               PROVE  PendingHasItsLiteral'
    OBVIOUS
  <2>1. ASSUME NEW key \in Keys, NEW mods \in ModSets, process_key(key, mods)
        PROVE  PendingHasItsLiteral'
    BY <2>1, KeyStep DEF PendingHasItsLiteral, ComposeStates
  <2>2. CASE compose_state_reset
    BY <2>2 DEF compose_state_reset, PendingHasItsLiteral, ComposeStates
  <2>3. CASE UNCHANGED vars
    BY <2>3 DEF vars, PendingHasItsLiteral
  <2> QED
    BY <2>1, <2>2, <2>3 DEF Next
<1> QED
  BY <1>1, <1>2, PTL DEF Spec

\* The fields and results have their types; the type of the state follows from
\* the invariant above.
THEOREM TypeCorrect == Spec => []TypeOK
<1>1. Init => TypeOK
  BY DEF Init, TypeOK, Quiet, Calls, Idle
<1>2. TypeOK /\ PendingHasItsLiteral /\ PendingHasItsLiteral' /\ [Next]_vars => TypeOK'
  <2> SUFFICES ASSUME TypeOK, PendingHasItsLiteral, PendingHasItsLiteral', [Next]_vars
               PROVE  TypeOK'
    OBVIOUS
  <2>1. state' \in [pending : PendingAccents \cup {PENDING_NONE}, pending_literal : Nat]
    <3>1. CASE state' = Idle
      BY <3>1 DEF Idle
    <3>2. ASSUME NEW a \in PendingAccents, state' = Holding(a)
          PROVE  state' \in [pending : PendingAccents \cup {PENDING_NONE},
                             pending_literal : Nat]
      <4>1. accent_literal[a] \in Nat
        BY AccentFacts
      <4> QED
        BY <3>2, <4>1 DEF Holding
    <3> QED
      BY <3>1, <3>2 DEF PendingHasItsLiteral, ComposeStates
  <2>2. last' \in Calls
    <3>1. ASSUME NEW key \in Keys, NEW mods \in ModSets, process_key(key, mods)
          PROVE  last' \in Calls
      BY <3>1, KeyStep DEF Calls
    <3>2. CASE compose_state_reset
      BY <3>2 DEF compose_state_reset, Quiet, Calls
    <3>3. CASE UNCHANGED vars
      BY <3>3 DEF vars, TypeOK
    <3> QED
      BY <3>1, <3>2, <3>3 DEF Next
  <2> QED
    BY <2>1, <2>2 DEF TypeOK
<1> QED
  BY <1>1, <1>2, PendingLiteral, PTL DEF Spec

\* An accent stays pending until a key commits text, Escape or Backspace cancels
\* it, or the state is reset: no key drops it silently.
THEOREM NoAccentLost == Spec => AccentNeverLost
<1> DEFINE Kept ==
      state # Idle /\ state' # state =>
        /\ state' = Idle
        /\ \/ last'.commit # <<>>
           \/ last'.call = "reset"
           \/ last'.key \in {SC_KEY_ESCAPE, SC_KEY_BACKSPACE} /\ last'.handled
<1>1. PendingHasItsLiteral /\ [Next]_vars => [Kept]_vars
  <2> SUFFICES ASSUME PendingHasItsLiteral, [Next]_vars
               PROVE  Kept \/ UNCHANGED vars
    OBVIOUS
  <2>1. ASSUME NEW key \in Keys, NEW mods \in ModSets, process_key(key, mods)
        PROVE  Kept
    <3>1. last'.key = key
      BY <2>1, KeyStep
    <3>2. \/ state = Idle
          \/ state' = state
          \/ /\ state' = Idle
             /\ \/ key \in {SC_KEY_ESCAPE, SC_KEY_BACKSPACE} /\ last'.handled = TRUE
                \/ last'.commit # <<>>
      BY <2>1, KeyStep, SpelledFacts
    <3> QED
      BY <3>1, <3>2
  <2>2. CASE compose_state_reset
    BY <2>2 DEF compose_state_reset, Quiet
  <2> QED
    BY <2>1, <2>2 DEF Next
<1> QED
  BY <1>1, PendingLiteral, PTL DEF Spec, AccentNeverLost

\* A key is swallowed only if it moved a sequence on, and never on its release.
THEOREM NothingElseSwallowed == Spec => SwallowedOnlyForASequence
<1> DEFINE Moved == last'.handled => state' # state /\ "RELEASE" \notin last'.mods
<1>1. PendingHasItsLiteral /\ [Next]_vars => [Moved]_vars
  <2> SUFFICES ASSUME PendingHasItsLiteral, [Next]_vars
               PROVE  Moved \/ UNCHANGED vars
    OBVIOUS
  <2>1. ASSUME NEW key \in Keys, NEW mods \in ModSets, process_key(key, mods)
        PROVE  Moved
    <3>1. last'.mods = mods
      BY <2>1, KeyStep
    <3>2. \A a \in PendingAccents : Holding(a) # Idle
      BY AccentFacts
    <3> QED
      BY <2>1, <3>1, <3>2, KeyStep
  <2>2. CASE compose_state_reset
    BY <2>2 DEF compose_state_reset, Quiet
  <2> QED
    BY <2>1, <2>2 DEF Next
<1> QED
  BY <1>1, PendingLiteral, PTL DEF Spec, SwallowedOnlyForASequence

\* The comment of is_modifier_shortcut() (compose.c:207-213) is wrong about two
\* keys only, and about those only while an accent is pending: any other shortcut
\* passes through and leaves the sequence alone.
THEOREM OtherShortcutsPassThrough ==
  Spec => [][last'.call = "key" /\ is_modifier_shortcut(last'.mods) =>
               \/ ~last'.handled /\ last'.commit = <<>> /\ state' = state
               \/ state # Idle /\ last'.key \in {SC_KEY_ESCAPE, SC_KEY_BACKSPACE}]_vars
<1> DEFINE Through ==
      last'.call = "key" /\ is_modifier_shortcut(last'.mods) =>
        \/ ~last'.handled /\ last'.commit = <<>> /\ state' = state
        \/ state # Idle /\ last'.key \in {SC_KEY_ESCAPE, SC_KEY_BACKSPACE}
<1>1. PendingHasItsLiteral /\ [Next]_vars => [Through]_vars
  <2> SUFFICES ASSUME PendingHasItsLiteral, [Next]_vars
               PROVE  Through \/ UNCHANGED vars
    OBVIOUS
  <2>1. ASSUME NEW key \in Keys, NEW mods \in ModSets, process_key(key, mods)
        PROVE  Through
    <3>1. last'.key = key /\ last'.mods = mods
      BY <2>1, KeyStep
    <3>2. \A a \in PendingAccents : Holding(a) # Idle
      BY AccentFacts
    <3> QED
      BY <2>1, <3>1, <3>2, KeyStep
  <2>2. CASE compose_state_reset
    BY <2>2 DEF compose_state_reset, Quiet
  <2> QED
    BY <2>1, <2>2 DEF Next
<1> QED
  BY <1>1, PendingLiteral, PTL DEF Spec

\* A printable key that ends a sequence is in the text it returns.
LEMMA FinishPreserves ==
  ASSUME NEW a \in PendingAccents, NEW ch \in Nat, g_unichar_validate(ch)
  PROVE  LET text == finish_sequence(Holding(a), ch).commit
         IN  \/ text = <<accent_literal[a]>> /\ ch \in {SPACE, 0}
             \/ /\ text = <<accent_literal[a], ch>>
                /\ ~\E c \in Compositions : c[1] = accent_literal[a] /\ c[2] = ch
             \/ Len(text) = 1 /\ <<accent_literal[a], ch, text[1]>> \in Compositions
<1> DEFINE literal == accent_literal[a]
           found   == lookup_composition(a, ch)
           out     == finish_sequence(Holding(a), ch)
<1>1. Holding(a).pending = a /\ Holding(a).pending_literal = literal /\ literal \in Nat
  BY AccentFacts
<1>2. g_unichar_validate(literal) /\ utf8_from_unichar(literal) = <<literal>>
  BY LiteralFacts
<1>3. CASE ch = SPACE
  BY <1>1, <1>2, <1>3 DEF finish_sequence, result_handled
<1>4. CASE ch # SPACE /\ found # {}
  <2>1. PICK c \in found : c = (CHOOSE x \in found : TRUE)
    BY <1>4
  <2>2. out = result_handled(Idle, <<c>>)
    BY <1>1, <1>4, <2>1 DEF finish_sequence
  <2>3. PICK r \in compose_rules[a] : r[1] = ch /\ c = r[2]
    BY DEF lookup_composition
  <2>4. <<literal, ch, c>> \in Compositions
    BY <2>3 DEF Compositions
  <2> QED
    BY <2>2, <2>4 DEF result_handled
<1>5. CASE ch # SPACE /\ found = {}
  <2>0. ~\E c \in Compositions : c[1] = literal /\ c[2] = ch
    BY <1>5, LookupIsTheTable
  <2>1. out = result_handled(Idle, <<literal>> \o utf8_from_unichar(ch))
    BY <1>1, <1>2, <1>5 DEF finish_sequence, concat_unichars
  <2>2. CASE ch = 0
    <3>1. utf8_from_unichar(ch) = <<>>
      BY <2>2 DEF utf8_from_unichar
    <3>2. out = result_handled(Idle, <<literal>>)
      BY <1>1, <2>1, <3>1
    <3> QED
      BY <2>2, <3>2 DEF result_handled
  <2>3. CASE ch # 0
    <3>1. utf8_from_unichar(ch) = <<ch>>
      BY <2>3 DEF utf8_from_unichar
    <3>2. out.commit = <<literal>> \o <<ch>>
      BY <2>1, <3>1 DEF result_handled
    <3> QED
      BY <2>0, <3>2, <1>1, PairOfCharacters
  <2> QED
    BY <2>2, <2>3
<1> QED
  BY <1>3, <1>4, <1>5

\* No printable key that follows an accent is lost (README.md:65).
THEOREM NoCharacterLost == Spec => CharacterPreserved
<1> DEFINE ch == key_to_unicode(last'.key)
           literal == state.pending_literal
           Ends == /\ last'.call = "key" /\ is_printable(last'.key)
                   /\ state # Idle /\ state' = Idle
           Kept == \/ last'.commit = <<literal>> /\ ch \in {SPACE, 0}
                   \/ last'.commit = <<literal, ch>>
                        /\ ~\E c \in Compositions : c[1] = literal /\ c[2] = ch
                   \/ Len(last'.commit) = 1 /\ <<literal, ch, last'.commit[1]>> \in Compositions
<1>1. PendingHasItsLiteral /\ [Next]_vars => [Ends => Kept]_vars
  <2> SUFFICES ASSUME PendingHasItsLiteral, [Next]_vars, ~UNCHANGED vars, Ends
               PROVE  Kept
    OBVIOUS
  <2>1. PICK key \in Keys, mods \in ModSets : process_key(key, mods)
    BY DEF Next, compose_state_reset, Quiet
  <2>2. PICK a \in PendingAccents : state = Holding(a)
    BY DEF PendingHasItsLiteral, ComposeStates
  <2>3. literal = accent_literal[a] /\ Holding(a) # Idle /\ compose_state_is_pending(Holding(a))
    BY <2>2, AccentFacts DEF compose_state_is_pending
  <2> DEFINE out == compose_state_process_key(Holding(a), key, mods)
  <2>4. last'.key = key /\ last'.commit = out.commit /\ out.state = Idle
    BY <2>1, <2>2 DEF process_key
  <2>5. key \in Nat /\ is_printable(key)
    BY <2>4, ComposeAssumption
  <2>6. key \notin {SC_KEY_ESCAPE, SC_KEY_BACKSPACE}
    BY <2>5, SMT DEF is_printable, encodes_unicode, SC_KEY_ESCAPE, SC_KEY_BACKSPACE
  <2>7. out = process_pending(Holding(a), key, mods)
    BY <2>3, <2>4 DEF compose_state_process_key, result_unhandled
  <2>8. out = finish_sequence(Holding(a), key_to_unicode(key))
    BY <2>3, <2>4, <2>5, <2>6, <2>7 DEF process_pending, result_unhandled
  <2> HIDE DEF out
  <2>9. key_to_unicode(key) \in Nat /\ g_unichar_validate(key_to_unicode(key))
    BY <2>5, PrintableFacts
  <2> QED
    BY <2>3, <2>4, <2>8, <2>9, FinishPreserves
<1> QED
  BY <1>1, PendingLiteral, PTL DEF Spec, CharacterPreserved

-----------------------------------------------------------------------------
\* The state machine implements the product's promise.
THEOREM Refinement == Spec => KeepsThePromise
<1> DEFINE h == [c \in {"state"} |-> state.pending_literal]
           t == [c \in {"state"} |-> last.commit]
<1> USE DEF Promise!Nothing
<1>1. Init => Promise!Init
  BY DEF Init, Promise!Init, Idle, Quiet
<1>2. PendingHasItsLiteral /\ PendingHasItsLiteral' /\ [Next]_vars
        => [Promise!Next]_(Promise!vars)
  <2> SUFFICES ASSUME PendingHasItsLiteral, [Next]_vars
               PROVE  Promise!Next \/ UNCHANGED Promise!vars
    OBVIOUS
  <2>1. ASSUME NEW key \in Keys, NEW mods \in ModSets, process_key(key, mods)
        PROVE  Promise!Next
    <3>1. CASE state' = state /\ last'.commit = <<>>
      <4>1. Promise!Rest("state")
        BY <3>1 DEF Promise!Rest, Promise!OnlyIn
      <4> QED
        BY <4>1 DEF Promise!Next
    <3>2. ASSUME NEW a \in PendingAccents, state = Idle, state' = Holding(a),
                 last'.commit = <<>>
          PROVE  Promise!Next
      <4>1. state.pending_literal = 0 /\ state'.pending_literal = accent_literal[a]
        BY <3>2, AccentFacts DEF Idle
      <4>2. h' = [h EXCEPT !["state"] = accent_literal[a]]
        BY <4>1
      <4>3. Promise!Hold("state", accent_literal[a])
        BY <3>2, <4>1, <4>2 DEF Promise!Hold, Promise!OnlyIn
      <4> QED
        BY <4>3 DEF Promise!Next, Literals
    <3>3. ASSUME NEW a \in PendingAccents, state = Holding(a), state' = Idle
          PROVE  /\ state.pending_literal = accent_literal[a] /\ accent_literal[a] # 0
                 /\ h' = [h EXCEPT !["state"] = 0]
      <4>1. state.pending_literal = accent_literal[a] /\ accent_literal[a] # 0
        BY <3>3, AccentFacts
      <4>2. state'.pending_literal = 0
        BY <3>3 DEF Idle
      <4> QED
        BY <4>1, <4>2
    <3>4. ASSUME NEW a \in PendingAccents, state = Holding(a), state' = Idle,
                 last'.commit = <<>>
          PROVE  Promise!Next
      <4>1. Promise!Abandon("state")
        BY <3>3, <3>4 DEF Promise!Abandon, Promise!OnlyIn
      <4> QED
        BY <4>1 DEF Promise!Next
    <3>5. ASSUME NEW a \in PendingAccents, state = Holding(a), state' = Idle,
                 Spelled(accent_literal[a], last'.commit)
          PROVE  Promise!Next
      <4>1. Promise!SpelledFrom(h["state"], t'["state"])
        BY <3>3, <3>5 DEF Spelled, Promise!SpelledFrom
      <4>2. Promise!Finish("state")
        BY <3>3, <3>5, <4>1 DEF Promise!Finish, Promise!OnlyIn
      <4> QED
        BY <4>2 DEF Promise!Next
    <3> QED
      BY <2>1, <3>1, <3>2, <3>4, <3>5, KeyStep
  <2>2. CASE compose_state_reset
    <3>1. state'.pending_literal = 0 /\ last'.commit = <<>>
      BY <2>2 DEF compose_state_reset, Idle, Quiet
    <3>2. CASE h["state"] = 0
      BY <3>1, <3>2 DEF Promise!Rest, Promise!OnlyIn, Promise!Next
    <3>3. CASE h["state"] # 0
      <4>1. Promise!Abandon("state")
        BY <3>1, <3>3 DEF Promise!Abandon, Promise!OnlyIn
      <4> QED
        BY <4>1 DEF Promise!Next
    <3> QED
      BY <3>2, <3>3
  <2>3. CASE UNCHANGED vars
    BY <2>3 DEF vars, Promise!vars
  <2> QED
    BY <2>1, <2>2, <2>3 DEF Next
<1> QED
  BY <1>1, <1>2, PendingLiteral, PTL DEF Spec, KeepsThePromise, Promise!Spec
=============================================================================
