---------------------------- MODULE ComposeState ----------------------------
(***************************************************************************)
(* The operators of src/src/compose/compose.c: the keysyms the composition *)
(* recognises, the built-in table, and compose_state_process_key() as the  *)
(* function it is, from (state, key, modifiers) to (state, result).        *)
(*                                                                         *)
(* Keysyms and characters are their numbers, because the code classifies   *)
(* them by range.  Text is a sequence of code points.  A commit of <<>> is *)
(* both of the C values NULL and "": commit_string() treats them alike.    *)
(***************************************************************************)
EXTENDS Integers, Sequences

SC_KEY_BACKSPACE == 65288   \* 0xff08
SC_KEY_ESCAPE    == 65307   \* 0xff1b
SPACE            == 32

ComposeModifiers == {"SHIFT", "CONTROL", "ALT", "SUPER", "RELEASE"}

-----------------------------------------------------------------------------
(* Accents, and the state that holds one back.                             *)

PendingAccents == {"ACUTE", "DIAERESIS", "GRAVE", "CIRCUMFLEX", "TILDE"}
PENDING_NONE   == "NONE"

\* The printable key and the XKB dead key that start each accent.
accent_keys ==
  [ACUTE      |-> {39, 65105}, DIAERESIS |-> {34, 65111}, GRAVE |-> {96, 65104},
   CIRCUMFLEX |-> {94, 65106}, TILDE     |-> {126, 65107}]

\* The character committed for an accent that does not compose: ' " ` ^ ~
accent_literal ==
  [ACUTE |-> 39, DIAERESIS |-> 34, GRAVE |-> 96, CIRCUMFLEX |-> 94, TILDE |-> 126]

\* compose_state_new() and compose_state_reset() both leave this value.
Idle == [pending |-> PENDING_NONE, pending_literal |-> 0]

Holding(accent) == [pending |-> accent, pending_literal |-> accent_literal[accent]]

\* pending_from_key(): the accents a key starts, of which there is at most one.
pending_from_key(key) == {a \in PendingAccents : key \in accent_keys[a]}

\* The states the functions below leave behind: an accent and its own literal.
ComposeStates == {Idle} \cup {Holding(a) : a \in PendingAccents}

compose_state_is_pending(state) == state.pending # PENDING_NONE

-----------------------------------------------------------------------------
(* The compose table.  In every row but one (diaeresis y) the upper-case   *)
(* rule is the lower-case rule with both characters 32 lower.              *)

BothCases(rules) == rules \cup {<<r[1] - 32, r[2] - 32>> : r \in rules}

compose_rules ==
  [ACUTE      |-> BothCases({<<97, 225>>, <<99, 231>>, <<101, 233>>, <<105, 237>>,
                             <<111, 243>>, <<117, 250>>, <<121, 253>>}),
   DIAERESIS  |-> BothCases({<<97, 228>>, <<101, 235>>, <<105, 239>>, <<111, 246>>,
                             <<117, 252>>}) \cup {<<121, 255>>},
   GRAVE      |-> BothCases({<<97, 224>>, <<101, 232>>, <<105, 236>>, <<111, 242>>,
                             <<117, 249>>}),
   CIRCUMFLEX |-> BothCases({<<97, 226>>, <<101, 234>>, <<105, 238>>, <<111, 244>>,
                             <<117, 251>>}),
   TILDE      |-> BothCases({<<97, 227>>, <<110, 241>>, <<111, 245>>})]

\* The outputs of the rules for an accent and a character: {} is the C NULL.
lookup_composition(accent, input) ==
  {r[2] : r \in {rule \in compose_rules[accent] : rule[1] = input}}

\* The table as the product promises it: literal, character, composed character.
Literals     == {accent_literal[a] : a \in PendingAccents}
Compositions == UNION {{<<accent_literal[a], r[1], r[2]>> : r \in compose_rules[a]}
                       : a \in PendingAccents}

-----------------------------------------------------------------------------
(* Characters and key classes.                                             *)

\* GLib: a Unicode scalar value, NUL included.
g_unichar_validate(ch) == ch < 55296 \/ (ch > 57343 /\ ch < 1114112)

\* With a defect: every keysym up to the last one is taken for a code point.
encodes_unbounded(key) == key <= 17891327

\* The keysyms 0x01000100..0x0110ffff encode a code point.
encodes_unicode(key) == key >= 16777472 /\ key <= 17891327

\* The character a key stands for: ASCII, Latin-1, and code points.
key_to_unicode(key) == IF encodes_unicode(key) THEN key - 16777216 ELSE key

is_printable(key) ==
  /\ key < 128 \/ encodes_unicode(key) \/ key \in 160..255
  /\ g_unichar_validate(key_to_unicode(key))

\* With a defect: ASCII is refused, as write_passthrough_char() rightly does.
utf8_beyond_ascii(ch) == IF ch >= 128 /\ g_unichar_validate(ch) THEN <<ch>> ELSE <<>>

\* A NUL character ends the C string before it starts.
utf8_from_unichar(ch) == IF ch # 0 /\ g_unichar_validate(ch) THEN <<ch>> ELSE <<>>

\* With a defect: the operands are swapped.
concat_swapped(first, second) == utf8_from_unichar(second) \o utf8_from_unichar(first)

\* With a defect: the character is forgotten.
concat_first_only(first, second) == utf8_from_unichar(first)

concat_unichars(first, second) == utf8_from_unichar(first) \o utf8_from_unichar(second)

\* With a defect: Super is forgotten.
is_ctrl_or_alt(mods) == mods \cap {"CONTROL", "ALT"} # {}

is_modifier_shortcut(mods) == mods \cap {"CONTROL", "ALT", "SUPER"} # {}

\* Delete, Insert, Home..End (0xff50..0xff57) and 0xffbe..0xffe0.
is_non_printable_navigation_key(key) ==
  \/ key \in {65535, 65379} \cup 65360..65367
  \/ key >= 65470 /\ key <= 65504

-----------------------------------------------------------------------------
(* compose_state_process_key().  An outcome pairs the state the call leaves *)
(* behind with the ComposeResult it returns.                                *)

result_unhandled(state) == [state |-> state, handled |-> FALSE, commit |-> <<>>]

\* With a defect: the handled flag is not set.
result_without_flag(state, commit) == [state |-> state, handled |-> FALSE, commit |-> commit]

result_handled(state, commit) == [state |-> state, handled |-> TRUE, commit |-> commit]

\* With a defect: the accent is taken but not stored.
process_idle_unstored(state, key, mods) ==
  IF ~is_modifier_shortcut(mods) /\ pending_from_key(key) # {}
  THEN result_handled(state, <<>>)
  ELSE result_unhandled(state)

\* Nothing pending: only an unmodified accent key is taken, and kept silent.
process_idle(state, key, mods) ==
  IF ~is_modifier_shortcut(mods) /\ pending_from_key(key) # {}
  THEN result_handled(Holding(CHOOSE a \in pending_from_key(key) : TRUE), <<>>)
  ELSE result_unhandled(state)

\* A character after an accent: the literal alone, the composed character, or
\* the literal and the character.  The state is reset in every case.
finish_sequence(state, input) ==
  LET composed == lookup_composition(state.pending, input)
  IN  IF input = SPACE
      THEN result_handled(Idle, utf8_from_unichar(state.pending_literal))
      ELSE IF composed # {}
      THEN result_handled(Idle, <<CHOOSE c \in composed : TRUE>>)
      ELSE IF g_unichar_validate(state.pending_literal) /\ g_unichar_validate(input)
      THEN result_handled(Idle, concat_unichars(state.pending_literal, input))
      ELSE result_unhandled(Idle)

process_pending(state, key, mods) ==
  IF key \in {SC_KEY_ESCAPE, SC_KEY_BACKSPACE} THEN result_handled(Idle, <<>>)
  ELSE IF is_modifier_shortcut(mods) THEN result_unhandled(state)
  ELSE IF is_printable(key) THEN finish_sequence(state, key_to_unicode(key))
  ELSE IF is_non_printable_navigation_key(key)
  THEN [state |-> Idle, handled |-> FALSE,
        commit |-> utf8_from_unichar(state.pending_literal)]
  ELSE result_unhandled(state)

\* With a defect: release events are processed like presses.
process_press_and_release(state, key, mods) ==
  IF compose_state_is_pending(state) THEN process_pending(state, key, mods)
  ELSE process_idle(state, key, mods)

compose_state_process_key(state, key, mods) ==
  IF "RELEASE" \in mods THEN result_unhandled(state)
  ELSE IF compose_state_is_pending(state) THEN process_pending(state, key, mods)
  ELSE process_idle(state, key, mods)
=============================================================================
