----------------------------- MODULE MCCompose -----------------------------
(* Compose with a keysym of every class the code tells apart, both sides of *)
(* each numeric boundary included, and the modifier bits one by one.         *)
EXTENDS Compose

MCKeys ==
  {39, 34, 96, 94, 126}                         \* the accents' printable keys
  \cup {65104, 65105, 65106, 65107, 65111}      \* their dead keys
  \cup {32, 97, 99, 101, 110, 116, 121, 65, 89} \* space, letters with and without rules
  \cup {0, 1, 127, 128, 159, 160, 233, 255, 256}      \* ends of ASCII and Latin-1
  \cup {16777471, 16777472, 17891327, 17891328}       \* ends of the Unicode keysyms
  \cup {16832511, 16832512, 16834559, 16834560}       \* round the surrogates
  \cup {65288, 65307, 65293, 65289}                   \* BackSpace, Escape, Return, Tab
  \cup {65359, 65360, 65367, 65368, 65379, 65535}     \* Home..End, Insert, Delete
  \cup {65469, 65470, 65504, 65505, 8364}             \* F1..F35, Shift_L, EuroSign

MCModSets == {{}} \cup {{m} : m \in ComposeModifiers}
             \cup {{"SHIFT", "ALT"}, {"CONTROL", "RELEASE"}}
=============================================================================
