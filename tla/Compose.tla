------------------------------ MODULE Compose ------------------------------
(***************************************************************************)
(* One ComposeState and the calls compose.h offers on it, in any order and *)
(* with any key: what tests/test-compose.c and the IBus engine drive.      *)
(***************************************************************************)
EXTENDS ComposeState

CONSTANTS
  Keys,     \* keysyms the caller may pass
  ModSets   \* sets of modifier bits the caller may pass

ASSUME ComposeAssumption ==
  /\ Keys \subseteq Nat
  /\ ModSets \subseteq SUBSET ComposeModifiers

VARIABLES
  state,    \* the ComposeState
  last      \* the last call, its arguments and the ComposeResult it returned

vars == <<state, last>>

Calls == [call : {"new", "key", "reset"}, key : Keys \cup {0}, mods : ModSets \cup {{}},
          handled : BOOLEAN, commit : Seq(Nat)]

Quiet(call) == [call |-> call, key |-> 0, mods |-> {}, handled |-> FALSE, commit |-> <<>>]

-----------------------------------------------------------------------------
\* compose_state_new()
Init ==
  /\ state = Idle
  /\ last = Quiet("new")

process_key(key, mods) ==
  LET out == compose_state_process_key(state, key, mods)
  IN  /\ state' = out.state
      /\ last' = [call |-> "key", key |-> key, mods |-> mods,
                  handled |-> out.handled, commit |-> out.commit]

\* With a defect: the literal of the abandoned sequence is left over.
reset_accent_only ==
  /\ state' = [state EXCEPT !.pending = PENDING_NONE]
  /\ last' = Quiet("reset")

compose_state_reset ==
  /\ state' = Idle
  /\ last' = Quiet("reset")

Next ==
  \/ \E key \in Keys, mods \in ModSets : process_key(key, mods)
  \/ compose_state_reset

Spec == Init /\ [][Next]_vars

-----------------------------------------------------------------------------
(* Properties                                                              *)

\* The values the fields and results may take.
TypeOK ==
  /\ state \in [pending : PendingAccents \cup {PENDING_NONE}, pending_literal : Nat]
  /\ last \in Calls

\* The two fields move together: a pending accent always has its own literal,
\* and none is left over when nothing is pending, "so a later fallback can never
\* commit a character left over from an abandoned sequence" (compose.c:353-358).
PendingHasItsLiteral == state \in ComposeStates

\* An accent the user typed is never dropped by what follows it: it stays
\* pending until a key commits text, Escape or Backspace cancels it without any,
\* or the caller resets the state; and no accent replaces it silently.
AccentNeverLost ==
  [][state # Idle /\ state' # state =>
       /\ state' = Idle
       /\ \/ last'.commit # <<>>
          \/ last'.call = "reset"
          \/ last'.key \in {SC_KEY_ESCAPE, SC_KEY_BACKSPACE} /\ last'.handled]_vars

\* A key the caller is told to swallow did something: it started, finished or
\* cancelled a sequence.  Nothing else the user types may vanish, and a release
\* event is never swallowed.
SwallowedOnlyForASequence ==
  [][last'.handled => state' # state /\ "RELEASE" \notin last'.mods]_vars

\* "Unsupported printable sequences preserve input" (README.md:65), and supported
\* ones do: a printable key that ends a sequence is in the text it returns, composed
\* with the accent if the table has a rule for the two, else after the accent.  Only
\* Space, and NUL, which no text can hold, leave the accent alone.
CharacterPreserved ==
  [][LET ch      == key_to_unicode(last'.key)
         literal == state.pending_literal
     IN  /\ last'.call = "key" /\ is_printable(last'.key)
         /\ state # Idle /\ state' = Idle
         => \/ last'.commit = <<literal>> /\ ch \in {SPACE, 0}
            \/ last'.commit = <<literal, ch>>
                 /\ ~\E c \in Compositions : c[1] = literal /\ c[2] = ch
            \/ Len(last'.commit) = 1 /\ <<literal, ch, last'.commit[1]>> \in Compositions]_vars

\* The state is the only context there is.
Promise == INSTANCE SilentCompose WITH
  Contexts <- {"state"},
  held <- [c \in {"state"} |-> state.pending_literal],
  text <- [c \in {"state"} |-> last.commit]

\* The state machine keeps the product's promise: no call returns text that is
\* not spelled, in full, from the accent typed before it.
KeepsThePromise == Promise!Spec

-----------------------------------------------------------------------------
\* What the comment of is_modifier_shortcut() says (compose.c:207-213): Control,
\* Alt and Super shortcuts "are not swallowed by the input method, even if an
\* accent is currently pending".  Escape and Backspace are tested first.
ShortcutsPassThrough ==
  [][is_modifier_shortcut(last'.mods) => ~last'.handled]_vars
=============================================================================
