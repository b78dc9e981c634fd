------------------------------ MODULE MCEngine ------------------------------
(* Two engine instances and the keys on which the branches of the engine   *)
(* differ, as the layouts of the sessions it supports deliver them: with   *)
(* an evdev keycode or without, translated by the layout or not.           *)
EXTENDS Engine

CONSTANTS e1, e2

MCEngines == {e1, e2}
MCLegacyUnicode == [k \in {8364, 5053, 65457} |->
                      CASE k = 8364 -> 8364 [] k = 5053 -> 339 [] OTHER -> 49]

Plain    == {{}}
Level3   == {{"MOD5"}, {"SHIFT", "MOD5"}}     \* a session that sets Mod5
RightAlt == {{"MOD1"}, {"SHIFT", "MOD1"}}     \* one that does not, or Left Alt
Shortcut == {{"CONTROL"}, {"MOD4"}}
Release  == {{"RELEASE"}}

Events(key, code, states) == {<<key, code, s>> : s \in states}

MCKeyEvents == UNION {
  Events(39, 40, Plain \cup Level3 \cup {{"MOD1"}}),          \* apostrophe
  Events(65111, 40, Plain \cup Shortcut),                     \* dead diaeresis
  Events(101, 18, Plain \cup Level3 \cup RightAlt \cup Shortcut \cup Release),  \* e
  Events(101, 0, Plain \cup RightAlt),
  Events(233, 18, Level3), Events(233, 0, Plain \cup Level3), \* the layout's eacute
  Events(50, 3, RightAlt), Events(50, 0, Level3),   \* 2 has no shifted AltGr symbol
  Events(32, 57, Plain \cup {{"MOD5"}}),                      \* space
  Events(116, 20, Plain),                                     \* t
  Events(5053, 86, Plain \cup Level3),                        \* oe, on a key of its own
  Events(8364, 6, Plain),                                     \* EuroSign
  Events(16777449, 0, Plain),                                 \* U+00E9 as a keysym
  Events(65361, 105, Plain \cup {{"MOD1"}, {"CONTROL"}}),     \* Left
  Events(65361, 18, {{"MOD5"}}),                              \* Left on the key of e
  Events(65361, 0, {{"MOD5"}}),         \* no keycode, no character: 0 twice
  Events(65288, 14, Plain \cup {{"CONTROL"}}),                \* BackSpace
  Events(65293, 28, Plain),                                   \* Return
  Events(65514, 100, {{}, {"RELEASE", "MOD1"}})}              \* Alt_R
=============================================================================
