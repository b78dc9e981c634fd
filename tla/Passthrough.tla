---------------------------- MODULE Passthrough ----------------------------
(***************************************************************************)
(* The operators of src/src/ibus/engine.c that decide about an event from  *)
(* the event and the AltGr flag alone: the Windows US-International table, *)
(* the text committed directly for an AltGr symbol, and the chords kept    *)
(* from the client.  "No text" is <<>>, for the C functions' FALSE.        *)
(***************************************************************************)
EXTENDS ComposeState

CONSTANT LegacyUnicode  \* libibus: the character of each legacy keysym, a function

ASSUME LegacyAssumption == LegacyUnicode \in [DOMAIN LegacyUnicode -> Nat]

\* The bits of an IBus event state that the engine reads.
IBusState == {"SHIFT", "CONTROL", "MOD1", "MOD4", "MOD5", "SUPER", "RELEASE"}

\* With a defect: the release bit is not translated.
translate_without_release(state) ==
  (state \cap {"SHIFT", "CONTROL"})
    \cup (IF "MOD1" \in state THEN {"ALT"} ELSE {})
    \cup (IF state \cap {"SUPER", "MOD4"} # {} THEN {"SUPER"} ELSE {})

translate_mods(state) ==
  (state \cap {"SHIFT", "CONTROL", "RELEASE"})
    \cup (IF "MOD1" \in state THEN {"ALT"} ELSE {})
    \cup (IF state \cap {"SUPER", "MOD4"} # {} THEN {"SUPER"} ELSE {})

AltGrKeys == {65514, 65027, 65406}  \* Alt_R, ISO_Level3_Shift, Mode_switch

is_altgr_modifier_key(key) == key \in AltGrKeys

\* libibus: Latin-1 one to one, then 24 bits of code point, then the table.
ibus_keyval_to_unicode(key) ==
  IF key \in 32..126 \cup 160..255 THEN key
  ELSE IF key >= 16777216 /\ key <= 33554431 THEN key - 16777216
  ELSE IF key \in DOMAIN LegacyUnicode THEN LegacyUnicode[key]
  ELSE 0

-----------------------------------------------------------------------------
\* A row is <<code, key, shifted, altgr, altgr_shift>>, 0 for no symbol.
win_intl_symbols == {
  <<2, 49, 33, 161, 185>>, <<3, 50, 64, 178, 0>>, <<4, 51, 35, 179, 0>>,
  <<5, 52, 36, 164, 163>>, <<6, 53, 37, 8364, 0>>, <<7, 54, 94, 188, 0>>,
  <<8, 55, 38, 189, 0>>, <<9, 56, 42, 190, 0>>, <<10, 57, 40, 8216, 0>>,
  <<11, 48, 41, 8217, 0>>, <<12, 45, 95, 165, 0>>, <<13, 61, 43, 215, 247>>,
  <<16, 113, 81, 228, 196>>, <<17, 119, 87, 229, 197>>, <<18, 101, 69, 233, 201>>,
  <<19, 114, 82, 174, 0>>, <<20, 116, 84, 254, 222>>, <<21, 121, 89, 252, 220>>,
  <<22, 117, 85, 250, 218>>, <<23, 105, 73, 237, 205>>, <<24, 111, 79, 243, 211>>,
  <<25, 112, 80, 246, 214>>, <<26, 91, 123, 171, 0>>, <<27, 93, 125, 187, 0>>,
  <<30, 97, 65, 225, 193>>, <<31, 115, 83, 223, 167>>, <<32, 100, 68, 240, 208>>,
  <<38, 108, 76, 248, 216>>, <<39, 59, 58, 182, 176>>, <<40, 39, 34, 180, 168>>,
  <<43, 92, 124, 172, 166>>, <<44, 122, 90, 230, 198>>, <<46, 99, 67, 169, 162>>,
  <<49, 110, 78, 241, 209>>, <<50, 109, 77, 181, 0>>, <<51, 44, 60, 231, 199>>,
  <<53, 47, 63, 191, 0>>}

level3(state, altgr) == "MOD5" \in state \/ altgr

\* The row the first loop stops at, if any.  Codes and keysyms are unique.
symbol_of(key, code) ==
  {s \in win_intl_symbols : IF code # 0 THEN s[1] = code ELSE key \in {s[2], s[3]}}

\* With a defect: a row with no shifted symbol answers with its plain one.
win_intl_lookup_first(key, code, state, altgr) ==
  LET ch == ibus_keyval_to_unicode(key)
  IN  IF ~level3(state, altgr) THEN {}
      ELSE IF symbol_of(key, code) # {}
      THEN {IF "SHIFT" \in state /\ s[5] # 0 THEN s[5] ELSE s[4] : s \in symbol_of(key, code)}
      ELSE {c \in {ch} : code = 0 /\ \E s \in win_intl_symbols : c \in {s[4], s[5]}}

\* The Windows character of an AltGr event: {} for FALSE.  Without a keycode, a
\* key that already is a symbol of the table stands for itself.
win_intl_lookup(key, code, state, altgr) ==
  LET column == IF "SHIFT" \in state THEN 5 ELSE 4
      ch     == ibus_keyval_to_unicode(key)
  IN  IF ~level3(state, altgr) THEN {}
      ELSE IF symbol_of(key, code) # {}
      THEN {s[column] : s \in symbol_of(key, code)} \ {0}
      ELSE {c \in {ch} : code = 0 /\ \E s \in win_intl_symbols : c \in {s[4], s[5]}}

\* Non-ASCII, a Unicode scalar value, and no C1 control character.
write_passthrough_char(ch) ==
  IF ch >= 160 /\ g_unichar_validate(ch) THEN <<ch>> ELSE <<>>

\* Ctrl, Super and their like: the masks the C code calls "blocked".
blocked(state) == state \cap {"CONTROL", "SUPER", "MOD4"} # {}

sc_engine_passthrough_text(key, code, state, altgr) ==
  LET symbol == win_intl_lookup(key, code, state, altgr)
  IN  IF \/ "RELEASE" \in state
         \/ blocked(state)
         \/ "MOD1" \in state /\ ~level3(state, altgr)
      THEN <<>>
      ELSE IF symbol # {} THEN write_passthrough_char(CHOOSE c \in symbol : TRUE)
      ELSE IF level3(state, altgr) THEN <<>>
      ELSE write_passthrough_char(ibus_keyval_to_unicode(key))

consume_altgr_chord(altgr, state) == altgr /\ ~blocked(state)
=============================================================================
