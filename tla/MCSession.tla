----------------------------- MODULE MCSession -----------------------------
(* Two widgets that share an engine instance, as those of one client do, a *)
(* third with an instance of its own, and two AltGr keys in a session that  *)
(* reports them as Mod1.                                                   *)
EXTENDS Session

CONSTANTS e1, e2, w1, w2, w3, ralt, menu

MCEngines  == {e1, e2}
MCWidgets  == {w1, w2, w3}
MCServing  == [w \in MCWidgets |-> IF w = w3 THEN e2 ELSE e1]
MCKeys     == {ralt, menu}
MCMod1     == {"MOD1"}
MCLegacyUnicode == [k \in {8364} |-> 8364]

\* Right Alt with lv3:ralt_switch, the option of the component file, has one
\* keysym on every level; without the option it has Alt_R, and Meta_R with Shift.
MCSwitch    == [k \in MCKeys |-> {65027}]
MCTwoLevels == [k \in MCKeys |-> {65514, 65512}]

\* Apostrophe, e, and the shortcut of Left Alt and e.
MCStrokes == {<<39, 40, {}>>, <<101, 18, {}>>, <<101, 18, MCMod1>>}

MCKeyEvents ==
  {<<s[1], s[2], s[3] \cup bits>> : s \in MCStrokes, bits \in {{}, MCMod1}}
  \cup {AltGrEvent(sym, state) : sym \in {65027, 65514, 65512}, state \in {{}, {"RELEASE"}}}
=============================================================================
