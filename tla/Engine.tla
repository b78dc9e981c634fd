------------------------------- MODULE Engine -------------------------------
(***************************************************************************)
(* The IBus engine process: its ScEngine instances, one per input context, *)
(* and the virtual methods of src/src/ibus/engine.c that ibus-daemon calls *)
(* on them.  Calls are delivered one at a time by the GLib main loop, in   *)
(* any order and for any instance that exists.                             *)
(***************************************************************************)
EXTENDS Passthrough

CONSTANTS
  Engines,   \* identities of ScEngine instances
  KeyEvents  \* events <<keyval, keycode, state>> the daemon may deliver

ASSUME EngineAssumption ==
  /\ Engines # {}
  /\ KeyEvents \subseteq Nat \X Nat \X SUBSET IBusState

VARIABLES
  live,     \* the instances that exist
  compose,  \* self->compose of each: the sequence held in private
  altgr,    \* self->altgr of each: an AltGr key is thought to be down
  event     \* the last call: to whom, which, its event, its answer and the
            \* text committed to that client while it ran

vars == <<live, compose, altgr, event>>

Called(e, call) ==
  [engine |-> e, call |-> call, key |-> <<0, 0, {}>>, handled |-> FALSE, text |-> <<>>]

Answer(e, ev, handled, text) ==
  [engine |-> e, call |-> "key", key |-> ev, handled |-> handled, text |-> text]

passthrough(e, ev) == sc_engine_passthrough_text(ev[1], ev[2], ev[3], altgr[e])

-----------------------------------------------------------------------------
Init ==
  /\ live = {}
  /\ compose = [e \in Engines |-> Idle]
  /\ altgr = [e \in Engines |-> FALSE]
  /\ event = Called(CHOOSE e \in Engines : TRUE, "none")

sc_engine_init(e) ==
  /\ e \notin live
  /\ live' = live \cup {e}
  /\ compose' = [compose EXCEPT ![e] = Idle]
  /\ altgr' = [altgr EXCEPT ![e] = FALSE]
  /\ event' = Called(e, "init")

\* With a defect: a press in the middle of a sequence starts no session.
altgr_key_outside_sequence(e, ev) ==
  /\ is_altgr_modifier_key(ev[1])
  /\ altgr' = [altgr EXCEPT ![e] =
                 "RELEASE" \notin ev[3] /\ ~compose_state_is_pending(compose[e])]
  /\ event' = Answer(e, ev, TRUE, <<>>)
  /\ UNCHANGED compose

\* The AltGr key itself: always taken, and only the session is updated.
altgr_key(e, ev) ==
  /\ is_altgr_modifier_key(ev[1])
  /\ altgr' = [altgr EXCEPT ![e] = "RELEASE" \notin ev[3]]
  /\ event' = Answer(e, ev, TRUE, <<>>)
  /\ UNCHANGED compose

\* With a defect: a symbol does not wait for a pending accent.
direct_symbol_at_once(e, ev) ==
  /\ ~is_altgr_modifier_key(ev[1])
  /\ passthrough(e, ev) # <<>>
  /\ event' = Answer(e, ev, TRUE, passthrough(e, ev))
  /\ UNCHANGED <<compose, altgr>>

\* Nothing is pending and the event is an AltGr symbol: commit it.
direct_symbol(e, ev) ==
  /\ ~is_altgr_modifier_key(ev[1])
  /\ ~compose_state_is_pending(compose[e])
  /\ passthrough(e, ev) # <<>>
  /\ event' = Answer(e, ev, TRUE, passthrough(e, ev))
  /\ UNCHANGED <<compose, altgr>>

\* Everything else goes to the composition.  An event it leaves alone, with
\* nothing pending afterwards, gets a second chance as a symbol, after what the
\* composition committed; an AltGr chord is then kept from the client.
composed_key(e, ev) ==
  LET result   == compose_state_process_key(compose[e], ev[1], translate_mods(ev[3]))
      released == ~result.handled /\ ~compose_state_is_pending(result.state)
      symbol   == IF released THEN passthrough(e, ev) ELSE <<>>
      consumed == released /\ consume_altgr_chord(altgr[e], ev[3])
  IN  /\ ~is_altgr_modifier_key(ev[1])
      /\ compose_state_is_pending(compose[e]) \/ passthrough(e, ev) = <<>>
      /\ compose' = [compose EXCEPT ![e] = result.state]
      /\ event' = Answer(e, ev, result.handled \/ symbol # <<>> \/ consumed,
                         result.commit \o symbol)
      /\ UNCHANGED altgr

process_key_event(e, ev) ==
  /\ e \in live
  /\ altgr_key(e, ev) \/ direct_symbol(e, ev) \/ composed_key(e, ev)
  /\ UNCHANGED live

\* With a defect: the AltGr session survives.
abandon_accent_only(e, call) ==
  /\ e \in live
  /\ compose' = [compose EXCEPT ![e] = Idle]
  /\ event' = Called(e, call)
  /\ UNCHANGED <<live, altgr>>

\* reset, focus_out and disable do the same to the instance.
abandon(e, call) ==
  /\ e \in live
  /\ compose' = [compose EXCEPT ![e] = Idle]
  /\ altgr' = [altgr EXCEPT ![e] = FALSE]
  /\ event' = Called(e, call)
  /\ UNCHANGED live

\* With a defect: the accent waits for the focus to return.
focus_out_keeps_accent(e) ==
  /\ e \in live
  /\ altgr' = [altgr EXCEPT ![e] = FALSE]
  /\ event' = Called(e, "focus_out")
  /\ UNCHANGED <<live, compose>>

reset(e)     == abandon(e, "reset")
focus_out(e) == abandon(e, "focus_out")
disable(e)   == abandon(e, "disable")

\* With a defect: the composition outlives its instance.
finalize_without_free(e) ==
  /\ e \in live
  /\ live' = live \ {e}
  /\ event' = Called(e, "finalize")
  /\ UNCHANGED <<compose, altgr>>

\* The composition is freed with the instance; Idle stands for no object.
finalize(e) ==
  /\ e \in live
  /\ live' = live \ {e}
  /\ compose' = [compose EXCEPT ![e] = Idle]
  /\ event' = Called(e, "finalize")
  /\ UNCHANGED altgr

Next ==
  \E e \in Engines :
    \/ sc_engine_init(e)
    \/ \E ev \in KeyEvents : process_key_event(e, ev)
    \/ reset(e)
    \/ focus_out(e)
    \/ disable(e)
    \/ finalize(e)

Spec == Init /\ [][Next]_vars

-----------------------------------------------------------------------------
(* Safety                                                                  *)

TypeOK ==
  /\ live \subseteq Engines
  /\ compose \in [Engines -> [pending : PendingAccents \cup {PENDING_NONE},
                              pending_literal : Nat]]
  /\ altgr \in [Engines -> BOOLEAN]
  /\ event \in [engine : Engines,
                call : {"none", "init", "key", "reset", "focus_out", "disable", "finalize"},
                key : KeyEvents \cup {<<0, 0, {}>>}, handled : BOOLEAN, text : Seq(Nat)]

\* In every instance a held accent and its fallback character agree, whatever
\* methods were called on it, and an instance that does not exist holds none.
WholeSequences ==
  \A e \in Engines : /\ compose[e] \in ComposeStates
                     /\ e \notin live => compose[e] = Idle

Promise == INSTANCE SilentCompose WITH
  Contexts <- Engines,
  held <- [e \in Engines |-> compose[e].pending_literal],
  text <- [e \in Engines |-> IF e = event.engine THEN event.text ELSE <<>>]

\* Every context gets what the product promises, from the engine as a whole: its
\* client receives nothing of an accent until it is finished, no direct AltGr
\* symbol overtakes a pending accent, and "a pending accent in one window can
\* never complete in another" (engine.c:10-11).
EveryContextKeepsThePromise == Promise!Spec

-----------------------------------------------------------------------------
(* What one event may do.  Key events are those whose call is "key".       *)

KeyEvent == event'.call = "key"
OldCompose == compose[event'.engine]
OldAltGr   == altgr[event'.engine]

\* The character the Windows table has for an AltGr event, if it has one: the
\* symbol, shifted or not, of the row its keycode names or, without a keycode, its
\* keysym; without a keycode, also a symbol of the table that is the keysym itself.
WindowsCharacters(ev) ==
  LET column == IF "SHIFT" \in ev[3] THEN 5 ELSE 4
  IN  {c \in (UNION {{s[4], s[5]} : s \in win_intl_symbols}) \ {0} :
         \/ \E s \in win_intl_symbols :
              (s[1] = ev[2] \/ (ev[2] = 0 /\ ev[1] \in {s[2], s[3]})) /\ c = s[column]
         \/ ev[2] = 0 /\ c = ibus_keyval_to_unicode(ev[1])}

\* No keystroke vanishes.  An event kept from the client put text on its screen
\* or moved the sequence on, but for the AltGr key itself and, while it is down
\* and neither Ctrl nor Super is, for a release and for a press the Windows table
\* has no character for: a letter it leaves empty, and Return or an arrow as well,
\* because consume_altgr_chord() asks nothing of the key.
KeystrokeNeverLost ==
  [][KeyEvent /\ event'.handled =>
       \/ event'.text # <<>>
       \/ compose' # compose
       \/ is_altgr_modifier_key(event'.key[1])
       \/ /\ consume_altgr_chord(OldAltGr, event'.key[3])
          /\ "RELEASE" \in event'.key[3] \/ WindowsCharacters(event'.key) = {}]_vars

\* No keystroke counts twice.  If the client is left to handle an event, the
\* engine committed at most the accent that was waiting, and that only ahead of
\* a key that types nothing (write_passthrough_char: passthrough "can never
\* duplicate text the client would already receive").
KeystrokeNeverDoubled ==
  [][KeyEvent /\ ~event'.handled /\ event'.text # <<>> =>
       /\ event'.text = <<OldCompose.pending_literal>>
       /\ is_non_printable_navigation_key(event'.key[1])]_vars

\* A shortcut reaches the application untouched and disturbs nothing: Ctrl and
\* Super always, Alt unless an AltGr session or level 3 makes it AltGr.  Escape
\* and Backspace still cancel a pending accent (see ShortcutsPassThrough of
\* Compose), and Mode_switch and the like are never shortcuts.
ShortcutUntouched ==
  [][/\ KeyEvent
     /\ \/ blocked(event'.key[3])
        \/ "MOD1" \in event'.key[3] /\ ~level3(event'.key[3], OldAltGr)
     /\ ~is_altgr_modifier_key(event'.key[1])
     /\ event'.key[1] \in {SC_KEY_ESCAPE, SC_KEY_BACKSPACE} => OldCompose = Idle
     => ~event'.handled /\ event'.text = <<>> /\ UNCHANGED <<compose, altgr>>]_vars

\* Outside a sequence a chord with AltGr types exactly the Windows character of its
\* key and Shift: not that of another row or column, not what the host's layout has
\* there and not the 0 of an empty column; without a Windows character, nothing.
AltGrTypesWindowsCharacter ==
  [][/\ KeyEvent /\ OldCompose = Idle /\ ~is_altgr_modifier_key(event'.key[1])
     /\ level3(event'.key[3], OldAltGr)
     /\ ~blocked(event'.key[3]) /\ "RELEASE" \notin event'.key[3]
     => \/ \E c \in WindowsCharacters(event'.key) : event'.text = <<c>>
        \/ WindowsCharacters(event'.key) = {} /\ event'.text = <<>>]_vars

\* A key release types nothing and leaves the sequence as it is.
ReleaseTypesNothing ==
  [][KeyEvent /\ "RELEASE" \in event'.key[3] => event'.text = <<>> /\ UNCHANGED compose]_vars

-----------------------------------------------------------------------------
(* What comments and the README say, and the code does not do.             *)

\* "Return TRUE when an engine-local AltGr chord should not reach the client.
\* While Right Alt is held and no Ctrl or Super is involved, the event would
\* otherwise arrive at the application as a plain Alt shortcut" (engine.c:357).
\* process_key_event() asks only when nothing is pending.
AltGrChordKeptFromClient ==
  [][/\ KeyEvent
     /\ consume_altgr_chord(OldAltGr, event'.key[3])
     /\ "MOD1" \in event'.key[3] /\ "RELEASE" \notin event'.key[3]
     => event'.handled]_vars

\* "Unsupported printable sequences preserve input" (README.md:65): a printable
\* key that follows an accent does not reach the client ahead of that accent.
\* key_to_unicode() knows no legacy keysyms such as EuroSign.
PrintableNeverOvertakesAccent ==
  [][/\ KeyEvent /\ ~event'.handled
     /\ translate_mods(event'.key[3]) \subseteq {"SHIFT"}
     /\ ibus_keyval_to_unicode(event'.key[1]) >= 32
     => compose'[event'.engine] = Idle]_vars
=============================================================================
