--------------------------- MODULE Engine_proofs ---------------------------
(***************************************************************************)
(* Theorems about Engine, for every set of instances, every set of events  *)
(* and every table of legacy keysyms.  WholeSequences is inductive; under  *)
(* it a key event has one of five effects on the instance it is for, and   *)
(* the refinement and the action properties follow from those.             *)
(***************************************************************************)
EXTENDS Engine, PassthroughLemmas

-----------------------------------------------------------------------------
(* The effects of process_key_event(e, ev).                                *)

\* Nothing is typed and nothing changes in private.  If the client does not get
\* the event either, it is the AltGr key or, with nothing pending, an AltGr chord.
Rested(e, ev) ==
  /\ compose' = compose
  /\ event'.text = <<>>
  /\ event'.handled =>
       \/ is_altgr_modifier_key(ev[1])
       \/ compose[e] = Idle /\ consume_altgr_chord(altgr[e], ev[3])

\* One symbol is typed with nothing pending.
Typed(e, ev) ==
  /\ compose[e] = Idle
  /\ compose' = compose
  /\ event'.handled = TRUE
  /\ "RELEASE" \notin ev[3] /\ ~blocked(ev[3])
  /\ "MOD1" \in ev[3] => level3(ev[3], altgr[e])
  /\ \E c \in Nat : event'.text = <<c>>

\* An accent is taken into private.
Held(e, ev) ==
  /\ compose[e] = Idle
  /\ \E a \in PendingAccents : compose' = [compose EXCEPT ![e] = Holding(a)]
  /\ event'.text = <<>>
  /\ event'.handled = TRUE
  /\ "RELEASE" \notin ev[3] /\ ~blocked(ev[3]) /\ "MOD1" \notin ev[3]

\* Escape or Backspace cancels the pending accent.
Cancelled(e, ev) ==
  /\ compose[e] # Idle
  /\ compose' = [compose EXCEPT ![e] = Idle]
  /\ event'.text = <<>>
  /\ event'.handled = TRUE
  /\ "RELEASE" \notin ev[3] /\ ev[1] \in {SC_KEY_ESCAPE, SC_KEY_BACKSPACE}

\* The pending accent is finished; if the client gets the event too, it is a key
\* that types nothing and the accent alone went ahead of it.
Finished(e, ev) ==
  /\ \E a \in PendingAccents :
       /\ compose[e] = Holding(a)
       /\ Spelled(accent_literal[a], event'.text)
       /\ ~event'.handled => event'.text = <<accent_literal[a]>>
  /\ compose' = [compose EXCEPT ![e] = Idle]
  /\ ~event'.handled => is_non_printable_navigation_key(ev[1])
  /\ "RELEASE" \notin ev[3] /\ ~blocked(ev[3]) /\ "MOD1" \notin ev[3]

-----------------------------------------------------------------------------
LEMMA EventFacts ==
  ASSUME NEW ev \in KeyEvents
  PROVE  ev[1] \in Nat /\ ev[2] \in Nat /\ ev[3] \in SUBSET IBusState
BY EngineAssumption

\* The bits the composition tests are the bits the engine blocks on, and Alt.
LEMMA ModsFacts ==
  ASSUME NEW st \in SUBSET IBusState
  PROVE  /\ "RELEASE" \in translate_mods(st) <=> "RELEASE" \in st
         /\ ~is_modifier_shortcut(translate_mods(st)) => ~blocked(st) /\ "MOD1" \notin st
<1>1. "RELEASE" \in translate_mods(st) <=> "RELEASE" \in st
  BY DEF translate_mods
<1>2. blocked(st) => is_modifier_shortcut(translate_mods(st))
  BY DEF blocked, translate_mods, is_modifier_shortcut
<1>3. "MOD1" \in st => is_modifier_shortcut(translate_mods(st))
  BY DEF translate_mods, is_modifier_shortcut
<1> QED
  BY <1>1, <1>2, <1>3

LEMMA IsPending ==
  /\ ~compose_state_is_pending(Idle)
  /\ \A a \in PendingAccents : compose_state_is_pending(Holding(a))
<1>1. ~compose_state_is_pending(Idle)
  BY DEF compose_state_is_pending, Idle
<1>2. ASSUME NEW a \in PendingAccents
      PROVE  compose_state_is_pending(Holding(a))
  BY AccentFacts DEF compose_state_is_pending
<1> QED
  BY <1>1, <1>2

\* With nothing pending, the composition holds an accent or rests, and the
\* second chance as a symbol finds what the first one found: nothing.
LEMMA ComposedIdle ==
  ASSUME WholeSequences, TypeOK, NEW e \in Engines, NEW ev \in KeyEvents,
         composed_key(e, ev), compose[e] = Idle
  PROVE  Rested(e, ev) \/ Held(e, ev)
<1> DEFINE mods   == translate_mods(ev[3])
           result == compose_state_process_key(Idle, ev[1], mods)
<1>1. passthrough(e, ev) = <<>>
  BY IsPending DEF composed_key
<1>2. /\ compose' = [compose EXCEPT ![e] = result.state]
      /\ event'.text = result.commit \o <<>>
      /\ event'.handled = (result.handled \/
                           /\ ~result.handled /\ ~compose_state_is_pending(result.state)
                           /\ consume_altgr_chord(altgr[e], ev[3]))
  BY <1>1 DEF composed_key, Answer
<1>3. /\ result.commit = <<>>
      /\ \/ result.state = Idle /\ result.handled = FALSE
         \/ /\ result.handled = TRUE
            /\ \E a \in PendingAccents : result.state = Holding(a)
            /\ ~is_modifier_shortcut(mods) /\ "RELEASE" \notin mods
  BY IdleFacts, EventFacts
<1>4. event'.text = <<>>
  BY <1>2, <1>3
<1>5. CASE result.state = Idle /\ result.handled = FALSE
  <2>1. compose' = compose
    BY <1>2, <1>5 DEF TypeOK
  <2>2. event'.handled = consume_altgr_chord(altgr[e], ev[3])
    BY <1>2, <1>5, IsPending, Zenon DEF consume_altgr_chord
  <2> QED
    BY <1>4, <2>1, <2>2 DEF Rested
<1>6. CASE /\ result.handled = TRUE
           /\ \E a \in PendingAccents : result.state = Holding(a)
           /\ ~is_modifier_shortcut(mods) /\ "RELEASE" \notin mods
  <2>1. event'.handled = TRUE
    BY <1>2, <1>6
  <2>2. "RELEASE" \notin ev[3] /\ ~blocked(ev[3]) /\ "MOD1" \notin ev[3]
    BY <1>6, ModsFacts, EventFacts
  <2> QED
    BY <1>2, <1>4, <1>6, <2>1, <2>2 DEF Held
<1> QED
  BY <1>3, <1>5, <1>6

\* With an accent pending, the composition keeps, cancels or finishes it.  A
\* symbol is committed as well only after the accent's literal.
LEMMA ComposedPending ==
  ASSUME WholeSequences, TypeOK, NEW e \in Engines, NEW ev \in KeyEvents,
         composed_key(e, ev), NEW a \in PendingAccents, compose[e] = Holding(a)
  PROVE  Rested(e, ev) \/ Cancelled(e, ev) \/ Finished(e, ev)
<1> DEFINE mods    == translate_mods(ev[3])
           literal == accent_literal[a]
           result  == compose_state_process_key(Holding(a), ev[1], mods)
           passed  == ~result.handled /\ ~compose_state_is_pending(result.state)
           symbol  == IF passed THEN passthrough(e, ev) ELSE <<>>
<1>1. /\ compose' = [compose EXCEPT ![e] = result.state]
      /\ event'.text = result.commit \o symbol
      /\ event'.handled = (\/ result.handled \/ symbol # <<>>
                           \/ passed /\ consume_altgr_chord(altgr[e], ev[3]))
  BY DEF composed_key, Answer
<1>2. CASE result.state = Holding(a) /\ result.commit = <<>> /\ result.handled = FALSE
  <2>1. compose' = compose
    BY <1>1, <1>2 DEF TypeOK
  <2>2. ~passed /\ symbol = <<>>
    BY <1>2, IsPending
  <2>3. event'.text = <<>>
    BY <1>1, <1>2, <2>2
  <2>4. ~event'.handled
    BY <1>1, <1>2, <2>2
  <2> QED
    BY <2>1, <2>3, <2>4 DEF Rested
<1>3. CASE /\ "RELEASE" \notin mods
           /\ result.state = Idle
           /\ ev[1] \in {SC_KEY_ESCAPE, SC_KEY_BACKSPACE}
           /\ result.commit = <<>> /\ result.handled = TRUE
  <2>1. symbol = <<>>
    BY <1>3
  <2>2. event'.text = <<>> /\ event'.handled = TRUE
    BY <1>1, <1>3, <2>1
  <2>3. compose[e] # Idle
    BY AccentFacts
  <2>4. "RELEASE" \notin ev[3]
    BY <1>3, ModsFacts, EventFacts
  <2> QED
    BY <1>1, <1>3, <2>2, <2>3, <2>4 DEF Cancelled
<1>4. CASE /\ "RELEASE" \notin mods /\ ~is_modifier_shortcut(mods)
           /\ result.state = Idle
           /\ Spelled(literal, result.commit)
           /\ \/ result.handled = TRUE
              \/ /\ result.handled = FALSE
                 /\ is_non_printable_navigation_key(ev[1])
                 /\ result.commit = <<literal>>
  <2>1. "RELEASE" \notin ev[3] /\ ~blocked(ev[3]) /\ "MOD1" \notin ev[3]
    BY <1>4, ModsFacts, EventFacts
  <2>2. result.commit \in Seq(Nat)
    BY <1>4, SpelledFacts
  <2>3. CASE result.handled = TRUE
    <3>1. symbol = <<>>
      BY <2>3
    <3>2. event'.text = result.commit
      BY <1>1, <2>2, <3>1, ConcatEmptySeq
    <3>3. event'.handled = TRUE
      BY <1>1, <2>3
    <3> QED
      BY <1>1, <1>4, <2>1, <3>2, <3>3 DEF Finished
  <2>4. CASE result.handled = FALSE /\ symbol = <<>>
    <3>1. event'.text = <<literal>>
      BY <1>1, <1>4, <2>2, <2>4, ConcatEmptySeq
    <3> QED
      BY <1>1, <1>4, <2>1, <2>4, <3>1 DEF Finished
  <2>5. CASE result.handled = FALSE /\ symbol # <<>>
    <3>0. altgr[e] \in BOOLEAN /\ symbol = passthrough(e, ev) /\ passthrough(e, ev) # <<>>
      BY <2>5 DEF TypeOK
    <3>1. PICK c \in Nat : symbol = <<c>>
      BY <3>0, PassthroughFacts, EventFacts DEF passthrough
    <3>2. literal \in Nat
      BY AccentFacts
    <3>3. Spelled(literal, <<literal>> \o <<c>>)
      BY <3>2 DEF Spelled
    <3>4. Spelled(literal, event'.text)
      BY <1>1, <1>4, <2>5, <3>1, <3>3
    <3>5. event'.handled = TRUE
      BY <1>1, <2>5
    <3> QED
      BY <1>1, <1>4, <2>1, <3>4, <3>5 DEF Finished
  <2> QED
    BY <1>4, <2>3, <2>4, <2>5
<1>5. ev[1] \in Nat
  BY EventFacts
<1> HIDE DEF mods, result
<1> QED
  BY <1>2, <1>3, <1>4, <1>5, PendingFacts DEF result

\* One of the five effects, whatever the event.
LEMMA KeyStep ==
  ASSUME WholeSequences, TypeOK, NEW e \in Engines, NEW ev \in KeyEvents,
         process_key_event(e, ev)
  PROVE  \/ Rested(e, ev)
         \/ Typed(e, ev)
         \/ Held(e, ev)
         \/ Cancelled(e, ev)
         \/ Finished(e, ev)
<1>1. CASE altgr_key(e, ev)
  BY <1>1 DEF altgr_key, Answer, Rested
<1>2. CASE direct_symbol(e, ev)
  <2>1. compose[e] = Idle
    BY <1>2, IsPending DEF direct_symbol, WholeSequences, ComposeStates
  <2>2. altgr[e] \in BOOLEAN
    BY DEF TypeOK
  <2>3. passthrough(e, ev) # <<>>
    BY <1>2 DEF direct_symbol
  <2>4. compose' = compose /\ event'.handled = TRUE /\ event'.text = passthrough(e, ev)
    BY <1>2 DEF direct_symbol, Answer
  <2>5. /\ "RELEASE" \notin ev[3] /\ ~blocked(ev[3])
        /\ "MOD1" \in ev[3] => level3(ev[3], altgr[e])
        /\ \E c \in Nat : passthrough(e, ev) = <<c>>
    BY <2>2, <2>3, PassthroughFacts, EventFacts DEF passthrough
  <2> QED
    BY <2>1, <2>4, <2>5 DEF Typed
<1>3. CASE composed_key(e, ev)
  BY <1>3, ComposedIdle, ComposedPending DEF WholeSequences, ComposeStates
<1> QED
  BY <1>1, <1>2, <1>3 DEF process_key_event

\* With nothing pending, what a key types is what passthrough answers for it.
LEMMA IdleText ==
  ASSUME WholeSequences, TypeOK, NEW e \in Engines, NEW ev \in KeyEvents,
         process_key_event(e, ev), compose[e] = Idle, ~is_altgr_modifier_key(ev[1])
  PROVE  event'.text = passthrough(e, ev)
<1>1. CASE direct_symbol(e, ev)
  BY <1>1 DEF direct_symbol, Answer
<1>2. CASE composed_key(e, ev)
  <2>1. passthrough(e, ev) = <<>>
    BY <1>2, IsPending DEF composed_key
  <2> QED
    BY <1>2, <2>1, ComposedIdle DEF Rested, Held
<1> QED
  BY <1>1, <1>2 DEF process_key_event, altgr_key

\* Of an AltGr chord passthrough answers the Windows character, and nothing else.
LEMMA ChordText ==
  ASSUME NEW ev, ev[1] \in Nat, ev[2] \in Nat, NEW held \in BOOLEAN,
         level3(ev[3], held), "RELEASE" \notin ev[3], ~blocked(ev[3])
  PROVE  LET text == sc_engine_passthrough_text(ev[1], ev[2], ev[3], held)
         IN  \/ \E c \in WindowsCharacters(ev) : text = <<c>>
             \/ WindowsCharacters(ev) = {} /\ text = <<>>
<1> DEFINE text   == sc_engine_passthrough_text(ev[1], ev[2], ev[3], held)
           symbol == win_intl_lookup(ev[1], ev[2], ev[3], held)
           rows   == symbol_of(ev[1], ev[2])
           column == IF "SHIFT" \in ev[3] THEN 5 ELSE 4
           ch     == ibus_keyval_to_unicode(ev[1])
           table  == UNION {{s[4], s[5]} : s \in win_intl_symbols}
           InRow(c) == \E s \in win_intl_symbols :
                         /\ s[1] = ev[2] \/ (ev[2] = 0 /\ ev[1] \in {s[2], s[3]})
                         /\ c = s[column]
<1>1. rows = {s \in win_intl_symbols : s[1] = ev[2] \/ (ev[2] = 0 /\ ev[1] \in {s[2], s[3]})}
  BY TableFacts DEF symbol_of
<1>2. \A c : InRow(c) <=> c \in {s[column] : s \in rows}
  BY <1>1
<1>3. \A c : InRow(c) => c \in table
  OBVIOUS
<1>4. \A c : c \in WindowsCharacters(ev) <=>
               /\ c \in table /\ c # 0
               /\ InRow(c) \/ (ev[2] = 0 /\ c = ch)
  BY DEF WindowsCharacters
<1>5. \A c \in table : c \in Nat /\ (c # 0 => c >= 160 /\ c < 55296)
  BY TableFacts
<1>6. \A c : c \in symbol /\ c # 0 <=> c \in WindowsCharacters(ev)
  <2>1. CASE rows # {}
    <3>1. symbol = {s[column] : s \in rows} \ {0}
      BY <2>1 DEF win_intl_lookup
    <3>2. ev[2] = 0 => ch < 160
      <4> SUFFICES ASSUME ev[2] = 0 PROVE ch < 160
        OBVIOUS
      <4>1. PICK s \in win_intl_symbols : ev[1] \in {s[2], s[3]}
        BY <1>1, <2>1, TableFacts
      <4>2. ev[1] \in 32..126
        BY <4>1, TableFacts
      <4> QED
        BY <4>2 DEF ibus_keyval_to_unicode
    <3>3. \A c \in table : c # 0 => ~(ev[2] = 0 /\ c = ch)
      BY <1>5, <3>2
    <3> HIDE DEF rows, symbol, table, InRow, ch
    <3> QED
      BY <1>2, <1>3, <1>4, <3>1, <3>3
  <2>2. CASE rows = {}
    <3>1. \A c : c \in symbol <=> ev[2] = 0 /\ c = ch /\ c \in table
      BY <2>2 DEF win_intl_lookup
    <3>2. \A c : ~InRow(c)
      BY <1>2, <2>2
    <3> HIDE DEF rows, symbol, table, InRow, ch
    <3> QED
      BY <1>4, <3>1, <3>2
  <2> QED
    BY <2>1, <2>2
<1>7. \A c \in WindowsCharacters(ev) : write_passthrough_char(c) = <<c>>
  BY <1>4, <1>5 DEF write_passthrough_char, g_unichar_validate
<1>8. CASE symbol # {}
  <2>1. PICK c \in symbol : c = (CHOOSE x \in symbol : TRUE)
    BY <1>8
  <2>2. text = write_passthrough_char(c)
    BY <1>8, <2>1, Zenon DEF sc_engine_passthrough_text
  <2>3. \A d \in symbol : d = c
    BY OneWindowsCharacter
  <2>4. CASE c = 0
    <3>1. text = <<>>
      BY <2>2, <2>4 DEF write_passthrough_char
    <3>2. \A d \in symbol : d = 0
      BY <2>3, <2>4
    <3> HIDE DEF symbol, text
    <3>3. WindowsCharacters(ev) = {}
      BY <1>6, <3>2
    <3> QED
      BY <3>1, <3>3 DEF text
  <2>5. CASE c # 0
    <3> HIDE DEF symbol, text
    <3>1. c \in WindowsCharacters(ev)
      BY <1>6, <2>1, <2>5
    <3> QED
      BY <1>7, <2>2, <3>1 DEF text
  <2> QED
    BY <2>4, <2>5
<1>9. CASE symbol = {}
  <2>1. text = <<>>
    BY <1>9, Zenon DEF sc_engine_passthrough_text
  <2>2. WindowsCharacters(ev) = {}
    <3> HIDE DEF symbol
    <3> QED
      BY <1>6, <1>9
  <2> QED
    BY <2>1, <2>2
<1> QED
  BY <1>8, <1>9

\* What the handler says of the call, whatever its effect.
LEMMA KeyReply ==
  ASSUME WholeSequences, TypeOK, NEW e \in Engines, NEW ev \in KeyEvents,
         process_key_event(e, ev)
  PROVE  /\ e \in live /\ live' = live
         /\ altgr' \in [Engines -> BOOLEAN]
         /\ event' \in [engine : {e}, call : {"key"}, key : {ev}, handled : BOOLEAN,
                        text : Seq(Nat)]
<1>1. e \in live /\ live' = live
  BY DEF process_key_event
<1>2. altgr' \in [Engines -> BOOLEAN]
  BY DEF process_key_event, altgr_key, direct_symbol, composed_key, TypeOK
<1>3. event'.text \in Seq(Nat)
  <2>1. <<>> \in Seq(Nat)
    OBVIOUS
  <2>2. Rested(e, ev) \/ Held(e, ev) \/ Cancelled(e, ev) => event'.text = <<>>
    BY DEF Rested, Held, Cancelled
  <2>3. Typed(e, ev) => event'.text \in Seq(Nat)
    BY DEF Typed
  <2>4. Finished(e, ev) => event'.text \in Seq(Nat)
    BY SpelledFacts DEF Finished
  <2> QED
    BY <2>1, <2>2, <2>3, <2>4, KeyStep
<1>4. \E handled \in BOOLEAN : \E text : event' = Answer(e, ev, handled, text)
  <2>1. CASE altgr_key(e, ev)
    BY <2>1 DEF altgr_key
  <2>2. CASE direct_symbol(e, ev)
    BY <2>2 DEF direct_symbol
  <2>3. CASE composed_key(e, ev)
    BY <2>3 DEF composed_key
  <2> QED
    BY <2>1, <2>2, <2>3 DEF process_key_event
<1>5. event' \in [engine : {e}, call : {"key"}, key : {ev}, handled : BOOLEAN,
                  text : Seq(Nat)]
  BY <1>3, <1>4 DEF Answer
<1> QED
  BY <1>1, <1>2, <1>5

-----------------------------------------------------------------------------
(* Invariants.                                                             *)

\* The accents held in private and their literals agree, and only instances that
\* exist hold any, after any calls of any instances.
LEMMA WholeSequencesStep ==
  ASSUME TypeOK, WholeSequences, [Next]_vars
  PROVE  WholeSequences'
<1>1. Idle \in ComposeStates /\ \A a \in PendingAccents : Holding(a) \in ComposeStates
  BY DEF ComposeStates
<1>2. ASSUME NEW e \in Engines, NEW ev \in KeyEvents, process_key_event(e, ev)
      PROVE  WholeSequences'
  <2>1. \/ compose' = compose
        \/ \E s \in ComposeStates : compose' = [compose EXCEPT ![e] = s]
    BY <1>1, <1>2, KeyStep DEF Rested, Typed, Held, Cancelled, Finished
  <2>2. e \in live /\ live' = live
    BY <1>2, KeyReply
  <2> QED
    BY <2>1, <2>2 DEF WholeSequences, TypeOK
<1>3. ASSUME NEW e \in Engines, sc_engine_init(e)
      PROVE  WholeSequences'
  BY <1>1, <1>3 DEF sc_engine_init, WholeSequences, TypeOK
<1>4. ASSUME NEW e \in Engines, NEW call, abandon(e, call)
      PROVE  WholeSequences'
  BY <1>1, <1>4 DEF abandon, WholeSequences, TypeOK
<1>5. ASSUME NEW e \in Engines, finalize(e)
      PROVE  WholeSequences'
  BY <1>1, <1>5 DEF finalize, WholeSequences, TypeOK
<1>6. CASE UNCHANGED vars
  BY <1>6 DEF vars, WholeSequences
<1> QED
  BY <1>2, <1>3, <1>4, <1>5, <1>6 DEF Next, reset, focus_out, disable

LEMMA ComposeStatesTyped ==
  ComposeStates \subseteq [pending : PendingAccents \cup {PENDING_NONE}, pending_literal : Nat]
<1>1. Idle \in [pending : PendingAccents \cup {PENDING_NONE}, pending_literal : Nat]
  BY DEF Idle
<1>2. ASSUME NEW a \in PendingAccents
      PROVE  Holding(a) \in [pending : PendingAccents \cup {PENDING_NONE},
                             pending_literal : Nat]
  <2>1. accent_literal[a] \in Nat
    BY AccentFacts
  <2> QED
    BY <2>1 DEF Holding
<1> QED
  BY <1>1, <1>2 DEF ComposeStates

LEMMA TypeStep ==
  ASSUME TypeOK, WholeSequences, [Next]_vars
  PROVE  TypeOK'
<1> DEFINE Replies == [engine : Engines,
                call : {"none", "init", "key", "reset", "focus_out", "disable", "finalize"},
                key : KeyEvents \cup {<<0, 0, {}>>}, handled : BOOLEAN, text : Seq(Nat)]
           Types == [pending : PendingAccents \cup {PENDING_NONE}, pending_literal : Nat]
<1>1. \A e \in Engines, call \in {"init", "reset", "focus_out", "disable", "finalize"} :
        Called(e, call) \in Replies
  BY DEF Called
<1>2. Idle \in Types /\ \A a \in PendingAccents : Holding(a) \in Types
  BY ComposeStatesTyped DEF ComposeStates
<1>3. ASSUME NEW e \in Engines, NEW ev \in KeyEvents, process_key_event(e, ev)
      PROVE  TypeOK'
  <2>1. \/ compose' = compose
        \/ \E s \in Types : compose' = [compose EXCEPT ![e] = s]
    BY <1>2, <1>3, KeyStep DEF Rested, Typed, Held, Cancelled, Finished
  <2>2. compose' \in [Engines -> Types]
    BY <2>1 DEF TypeOK
  <2>3. event' \in Replies
    BY <1>3, KeyReply
  <2> QED
    BY <1>3, <2>2, <2>3, KeyReply DEF TypeOK
<1>4. ASSUME NEW e \in Engines, sc_engine_init(e)
      PROVE  TypeOK'
  BY <1>1, <1>2, <1>4 DEF sc_engine_init, TypeOK
<1>5. ASSUME NEW e \in Engines, NEW call \in {"reset", "focus_out", "disable"},
             abandon(e, call)
      PROVE  TypeOK'
  BY <1>1, <1>2, <1>5 DEF abandon, TypeOK
<1>6. ASSUME NEW e \in Engines, finalize(e)
      PROVE  TypeOK'
  BY <1>1, <1>2, <1>6 DEF finalize, TypeOK
<1>7. CASE UNCHANGED vars
  BY <1>7 DEF vars, TypeOK
<1> QED
  BY <1>3, <1>4, <1>5, <1>6, <1>7 DEF Next, reset, focus_out, disable

\* Both hold initially and are preserved together.
LEMMA Invariants == Spec => [](TypeOK /\ WholeSequences)
<1>1. Init => TypeOK /\ WholeSequences
  <2> SUFFICES ASSUME Init PROVE TypeOK /\ WholeSequences
    OBVIOUS
  <2>1. (CHOOSE e \in Engines : TRUE) \in Engines
    BY EngineAssumption
  <2>2. TypeOK
    BY <2>1 DEF Init, TypeOK, Called, Idle
  <2> QED
    BY <2>2 DEF Init, WholeSequences, ComposeStates
<1>2. TypeOK /\ WholeSequences /\ [Next]_vars => (TypeOK /\ WholeSequences)'
  BY TypeStep, WholeSequencesStep
<1> QED
  BY <1>1, <1>2, PTL DEF Spec

\* Every variable keeps its type.
THEOREM TypeCorrect == Spec => []TypeOK
BY Invariants, PTL

\* In every instance a held accent and its literal agree, and an instance that
\* does not exist holds none.
THEOREM WholeSequencesHold == Spec => []WholeSequences
BY Invariants, PTL

-----------------------------------------------------------------------------
(* What one event may do, wherever an engine runs: the properties below    *)
(* follow from the invariants and from the steps, not from how a behaviour *)
(* starts or who calls the engine.                                         *)

EngineRuns == [](TypeOK /\ WholeSequences) /\ [][Next]_vars

LEMMA SpecRuns == Spec => EngineRuns
BY Invariants, PTL DEF Spec, EngineRuns

\* A step that answers a key event is the handler's.
LEMMA OnlyKeyEvents ==
  ASSUME [Next]_vars, ~UNCHANGED vars, KeyEvent
  PROVE  \E e \in Engines : \E ev \in KeyEvents : process_key_event(e, ev)
BY DEF Next, KeyEvent, sc_engine_init, reset, focus_out, disable, abandon, finalize, Called

LEMMA HandledForAReason == EngineRuns => KeystrokeNeverLost
<1> DEFINE Kept ==
      KeyEvent /\ event'.handled =>
        \/ event'.text # <<>>
        \/ compose' # compose
        \/ is_altgr_modifier_key(event'.key[1])
        \/ /\ consume_altgr_chord(OldAltGr, event'.key[3])
           /\ "RELEASE" \in event'.key[3] \/ WindowsCharacters(event'.key) = {}
<1>1. TypeOK /\ WholeSequences /\ [Next]_vars => [Kept]_vars
  <2> SUFFICES ASSUME TypeOK, WholeSequences, [Next]_vars, ~UNCHANGED vars, KeyEvent
               PROVE  Kept
    OBVIOUS
  <2>1. PICK e \in Engines, ev \in KeyEvents : process_key_event(e, ev)
    BY OnlyKeyEvents
  <2>2. event'.engine = e /\ event'.key = ev
    BY <2>1, KeyReply
  <2>3. CASE Rested(e, ev)
    <3> SUFFICES ASSUME event'.handled
                 PROVE  \/ is_altgr_modifier_key(ev[1])
                        \/ /\ consume_altgr_chord(altgr[e], ev[3])
                           /\ "RELEASE" \in ev[3] \/ WindowsCharacters(ev) = {}
      BY <2>2 DEF OldAltGr
    <3> SUFFICES ASSUME ~is_altgr_modifier_key(ev[1]), "RELEASE" \notin ev[3]
                 PROVE  consume_altgr_chord(altgr[e], ev[3]) /\ WindowsCharacters(ev) = {}
      BY <2>3 DEF Rested
    <3>1. /\ compose[e] = Idle /\ event'.text = <<>>
          /\ consume_altgr_chord(altgr[e], ev[3])
      BY <2>3 DEF Rested
    <3>2. altgr[e] \in BOOLEAN /\ level3(ev[3], altgr[e]) /\ ~blocked(ev[3])
      BY <3>1 DEF TypeOK, consume_altgr_chord, level3
    <3>3. passthrough(e, ev) = <<>>
      BY <2>1, <3>1, IdleText
    <3> QED
      BY <3>1, <3>2, <3>3, ChordText, EventFacts DEF passthrough
  <2>4. CASE Typed(e, ev)
    BY <2>4 DEF Typed
  <2>5. CASE Held(e, ev)
    BY <2>5, AccentFacts DEF Held, TypeOK
  <2>6. CASE Cancelled(e, ev)
    BY <2>6 DEF Cancelled, TypeOK
  <2>7. CASE Finished(e, ev)
    BY <2>7, SpelledFacts DEF Finished
  <2> QED
    BY <2>1, <2>3, <2>4, <2>5, <2>6, <2>7, KeyStep
<1> QED
  BY <1>1, PTL DEF EngineRuns, KeystrokeNeverLost

\* No keystroke vanishes: an event kept from the client typed something, moved the
\* sequence on, or was the AltGr key or, while it was down, a release or a press
\* without a Windows character.
THEOREM NoKeystrokeLost == Spec => KeystrokeNeverLost
BY HandledForAReason, SpecRuns, PTL

LEMMA TypedOnce == EngineRuns => KeystrokeNeverDoubled
<1> DEFINE Once ==
      KeyEvent /\ ~event'.handled /\ event'.text # <<>> =>
        /\ event'.text = <<OldCompose.pending_literal>>
        /\ is_non_printable_navigation_key(event'.key[1])
<1>1. TypeOK /\ WholeSequences /\ [Next]_vars => [Once]_vars
  <2> SUFFICES ASSUME TypeOK, WholeSequences, [Next]_vars, ~UNCHANGED vars, KeyEvent
               PROVE  Once
    OBVIOUS
  <2>1. PICK e \in Engines, ev \in KeyEvents : process_key_event(e, ev)
    BY OnlyKeyEvents
  <2>2. event'.engine = e /\ event'.key = ev
    BY <2>1, KeyReply
  <2>3. CASE Rested(e, ev)
    BY <2>3 DEF Rested
  <2>4. CASE Typed(e, ev) \/ Held(e, ev) \/ Cancelled(e, ev)
    BY <2>4 DEF Typed, Held, Cancelled
  <2>5. CASE Finished(e, ev)
    BY <2>2, <2>5, AccentFacts DEF Finished, OldCompose
  <2> QED
    BY <2>1, <2>3, <2>4, <2>5, KeyStep
<1> QED
  BY <1>1, PTL DEF EngineRuns, KeystrokeNeverDoubled

\* No keystroke counts twice: with an event the client handles itself, the engine
\* commits at most the waiting accent, ahead of a key that types nothing.
THEOREM NoKeystrokeDoubled == Spec => KeystrokeNeverDoubled
BY TypedOnce, SpecRuns, PTL

LEMMA ReleaseRests == EngineRuns => ReleaseTypesNothing
<1> DEFINE Silent ==
      KeyEvent /\ "RELEASE" \in event'.key[3] => event'.text = <<>> /\ UNCHANGED compose
<1>1. TypeOK /\ WholeSequences /\ [Next]_vars => [Silent]_vars
  <2> SUFFICES ASSUME TypeOK, WholeSequences, [Next]_vars, ~UNCHANGED vars, KeyEvent,
                      "RELEASE" \in event'.key[3]
               PROVE  event'.text = <<>> /\ UNCHANGED compose
    OBVIOUS
  <2>1. PICK e \in Engines, ev \in KeyEvents : process_key_event(e, ev)
    BY OnlyKeyEvents
  <2>2. event'.key = ev
    BY <2>1, KeyReply
  <2>3. Rested(e, ev)
    BY <2>1, <2>2, KeyStep DEF Typed, Held, Cancelled, Finished
  <2> QED
    BY <2>3 DEF Rested
<1> QED
  BY <1>1, PTL DEF EngineRuns, ReleaseTypesNothing

\* A release types nothing and leaves the sequence as it is.
THEOREM ReleasesAreSilent == Spec => ReleaseTypesNothing
BY ReleaseRests, SpecRuns, PTL

LEMMA ChordTypesWindows == EngineRuns => AltGrTypesWindowsCharacter
<1> DEFINE Windows ==
      /\ KeyEvent /\ OldCompose = Idle /\ ~is_altgr_modifier_key(event'.key[1])
      /\ level3(event'.key[3], OldAltGr)
      /\ ~blocked(event'.key[3]) /\ "RELEASE" \notin event'.key[3]
      => \/ \E c \in WindowsCharacters(event'.key) : event'.text = <<c>>
         \/ WindowsCharacters(event'.key) = {} /\ event'.text = <<>>
<1>1. TypeOK /\ WholeSequences /\ [Next]_vars => [Windows]_vars
  <2> SUFFICES ASSUME TypeOK, WholeSequences, [Next]_vars, ~UNCHANGED vars, KeyEvent,
                      OldCompose = Idle, ~is_altgr_modifier_key(event'.key[1]),
                      level3(event'.key[3], OldAltGr),
                      ~blocked(event'.key[3]), "RELEASE" \notin event'.key[3]
               PROVE  \/ \E c \in WindowsCharacters(event'.key) : event'.text = <<c>>
                      \/ WindowsCharacters(event'.key) = {} /\ event'.text = <<>>
    OBVIOUS
  <2>1. PICK e \in Engines, ev \in KeyEvents : process_key_event(e, ev)
    BY OnlyKeyEvents
  <2>2. event'.engine = e /\ event'.key = ev
    BY <2>1, KeyReply
  <2>3. event'.text = passthrough(e, ev)
    BY <2>1, <2>2, IdleText DEF OldCompose
  <2>4. altgr[e] \in BOOLEAN /\ level3(ev[3], altgr[e])
    BY <2>2 DEF TypeOK, OldAltGr
  <2> QED
    BY <2>2, <2>3, <2>4, ChordText, EventFacts DEF passthrough
<1> QED
  BY <1>1, PTL DEF EngineRuns, AltGrTypesWindowsCharacter

\* Outside a sequence, an AltGr chord types the Windows character of its key and
\* Shift, and nothing where Windows has none.
THEOREM AltGrTypesTheWindowsCharacter == Spec => AltGrTypesWindowsCharacter
BY ChordTypesWindows, SpecRuns, PTL

LEMMA ShortcutRests == EngineRuns => ShortcutUntouched
<1> DEFINE Shortcut ==
      /\ \/ blocked(event'.key[3])
         \/ "MOD1" \in event'.key[3] /\ ~level3(event'.key[3], OldAltGr)
      /\ ~is_altgr_modifier_key(event'.key[1])
      /\ event'.key[1] \in {SC_KEY_ESCAPE, SC_KEY_BACKSPACE} => OldCompose = Idle
    Untouched == ~event'.handled /\ event'.text = <<>> /\ UNCHANGED <<compose, altgr>>
<1>1. TypeOK /\ WholeSequences /\ [Next]_vars => [KeyEvent /\ Shortcut => Untouched]_vars
  <2> SUFFICES ASSUME TypeOK, WholeSequences, [Next]_vars, ~UNCHANGED vars, KeyEvent, Shortcut
               PROVE  Untouched
    OBVIOUS
  <2>1. PICK e \in Engines, ev \in KeyEvents : process_key_event(e, ev)
    BY OnlyKeyEvents
  <2>2. event'.engine = e /\ event'.key = ev
    BY <2>1, KeyReply
  <2>3. ~Typed(e, ev) /\ ~Held(e, ev) /\ ~Finished(e, ev)
    BY <2>2 DEF Typed, Held, Finished, OldAltGr
  <2>4. ~Cancelled(e, ev)
    BY <2>2 DEF Cancelled, OldCompose
  <2>5. Rested(e, ev)
    BY <2>1, <2>3, <2>4, KeyStep
  <2>6. ~consume_altgr_chord(altgr[e], ev[3])
    BY <2>2 DEF consume_altgr_chord, level3, OldAltGr
  <2>7. ~event'.handled
    BY <2>2, <2>5, <2>6 DEF Rested
  <2>8. altgr' = altgr
    BY <2>1, <2>2 DEF process_key_event, altgr_key, direct_symbol, composed_key
  <2> QED
    BY <2>5, <2>7, <2>8 DEF Rested
<1> QED
  BY <1>1, PTL DEF EngineRuns, ShortcutUntouched

\* A shortcut reaches the client and changes nothing, except that Escape and
\* Backspace cancel a pending accent.
THEOREM ShortcutsReachTheClient == Spec => ShortcutUntouched
BY ShortcutRests, SpecRuns, PTL

\* With nothing pending, a chord of a held AltGr key is handled.
LEMMA IdleChordTaken ==
  ASSUME WholeSequences, TypeOK, NEW e \in Engines, NEW ev \in KeyEvents,
         process_key_event(e, ev), compose[e] = Idle, consume_altgr_chord(altgr[e], ev[3])
  PROVE  event'.handled
<1>1. CASE altgr_key(e, ev)
  BY <1>1 DEF altgr_key, Answer
<1>2. CASE direct_symbol(e, ev)
  BY <1>2 DEF direct_symbol, Answer
<1>3. CASE composed_key(e, ev)
  <2> DEFINE result   == compose_state_process_key(compose[e], ev[1], translate_mods(ev[3]))
             released == ~result.handled /\ ~compose_state_is_pending(result.state)
             symbol   == IF released THEN passthrough(e, ev) ELSE <<>>
  <2>1. result.handled = TRUE \/ (result.handled = FALSE /\ result.state = Idle)
    BY IdleFacts, EventFacts
  <2>2. event'.handled = (\/ result.handled \/ symbol # <<>>
                          \/ released /\ consume_altgr_chord(altgr[e], ev[3]))
    BY <1>3 DEF composed_key, Answer
  <2>3. CASE result.handled = TRUE
    BY <2>2, <2>3
  <2>4. CASE result.handled = FALSE /\ result.state = Idle
    BY <2>2, <2>4, IsPending
  <2> QED
    BY <2>1, <2>3, <2>4
<1> QED
  BY <1>1, <1>2, <1>3 DEF process_key_event

\* The comment of consume_altgr_chord() (engine.c:357) is right while nothing is
\* pending: then every chord of a held AltGr key without Ctrl or Super is kept
\* from the client, whatever it would type.
THEOREM IdleChordKeptFromClient ==
  Spec => [][KeyEvent /\ consume_altgr_chord(OldAltGr, event'.key[3]) /\ OldCompose = Idle
               => event'.handled]_vars
<1> DEFINE Kept ==
      KeyEvent /\ consume_altgr_chord(OldAltGr, event'.key[3]) /\ OldCompose = Idle
        => event'.handled
<1>1. TypeOK /\ WholeSequences /\ [Next]_vars => [Kept]_vars
  <2> SUFFICES ASSUME TypeOK, WholeSequences, [Next]_vars, ~UNCHANGED vars, KeyEvent,
                      consume_altgr_chord(OldAltGr, event'.key[3]), OldCompose = Idle
               PROVE  event'.handled
    OBVIOUS
  <2>1. PICK e \in Engines, ev \in KeyEvents : process_key_event(e, ev)
    BY OnlyKeyEvents
  <2>2. /\ event'.engine = e /\ event'.key = ev
        /\ compose[e] = Idle /\ consume_altgr_chord(altgr[e], ev[3])
    BY <2>1, KeyReply DEF OldAltGr, OldCompose
  <2> QED
    BY <2>1, <2>2, IdleChordTaken
<1> QED
  BY <1>1, Invariants, PTL DEF Spec

\* A chord with plain Alt is the client's.
LEMMA IdleShortcutLeft ==
  ASSUME WholeSequences, TypeOK, NEW e \in Engines, NEW ev \in KeyEvents,
         process_key_event(e, ev), compose[e] = Idle, ~is_altgr_modifier_key(ev[1]),
         "MOD1" \in ev[3], ~level3(ev[3], altgr[e])
  PROVE  ~event'.handled
<1>1. ~Typed(e, ev) /\ ~Held(e, ev) /\ ~Finished(e, ev) /\ ~Cancelled(e, ev)
  BY DEF Typed, Held, Finished, Cancelled
<1> QED
  BY <1>1, KeyStep DEF Rested, consume_altgr_chord, level3

\* A printable key, by the composition's own measure, ends the sequence.
LEMMA PrintableEnds ==
  ASSUME NEW a \in PendingAccents, NEW key \in Nat, is_printable(key), NEW mods,
         "RELEASE" \notin mods, ~is_modifier_shortcut(mods)
  PROVE  compose_state_process_key(Holding(a), key, mods).state = Idle
<1> DEFINE out == compose_state_process_key(Holding(a), key, mods)
<1>1. key \notin {SC_KEY_ESCAPE, SC_KEY_BACKSPACE}
  BY SMT DEF is_printable, encodes_unicode, SC_KEY_ESCAPE, SC_KEY_BACKSPACE
<1>2. compose_state_is_pending(Holding(a))
  BY IsPending
<1>3. out = finish_sequence(Holding(a), key_to_unicode(key))
  BY <1>1, <1>2 DEF compose_state_process_key, process_pending
<1> QED
  BY <1>3 DEF finish_sequence, result_handled, result_unhandled

\* README.md:65 is right about the keys that key_to_unicode() knows, ASCII,
\* Latin-1 and the keysyms that encode a character: none of them reaches the
\* client ahead of a pending accent.
THEOREM KnownPrintableNeverOvertakes ==
  Spec => [][/\ KeyEvent /\ ~event'.handled
             /\ translate_mods(event'.key[3]) \subseteq {"SHIFT"}
             /\ is_printable(event'.key[1])
             => compose'[event'.engine] = Idle]_vars
<1> DEFINE Overtaking == /\ KeyEvent /\ ~event'.handled
                         /\ translate_mods(event'.key[3]) \subseteq {"SHIFT"}
                         /\ is_printable(event'.key[1])
           Settled    == compose'[event'.engine] = Idle
<1>1. TypeOK /\ WholeSequences /\ [Next]_vars => [Overtaking => Settled]_vars
  <2> SUFFICES ASSUME TypeOK, WholeSequences, [Next]_vars, ~UNCHANGED vars, Overtaking
               PROVE  Settled
    OBVIOUS
  <2>1. PICK e \in Engines, ev \in KeyEvents : process_key_event(e, ev)
    BY OnlyKeyEvents
  <2> DEFINE mods == translate_mods(ev[3])
  <2>2. event'.engine = e /\ event'.key = ev
    BY <2>1, KeyReply
  <2>3. "RELEASE" \notin mods /\ ~is_modifier_shortcut(mods) /\ is_printable(ev[1])
    BY <2>2 DEF is_modifier_shortcut
  <2>4. CASE compose[e] = Idle
    BY <2>1, <2>2, <2>4, KeyStep, AccentFacts
    DEF Rested, Typed, Held, Cancelled, Finished
  <2>5. ASSUME NEW a \in PendingAccents, compose[e] = Holding(a)
        PROVE  Settled
    <3>1. composed_key(e, ev)
      BY <2>1, <2>2, <2>5, IsPending
      DEF process_key_event, altgr_key, direct_symbol, Answer
    <3>2. compose' = [compose EXCEPT ![e] = Idle]
      BY <2>3, <2>5, <3>1, PrintableEnds, EventFacts DEF composed_key
    <3> QED
      BY <2>2, <3>2 DEF TypeOK
  <2> QED
    BY <2>4, <2>5 DEF WholeSequences, ComposeStates
<1> QED
  BY <1>1, Invariants, PTL DEF Spec
-----------------------------------------------------------------------------
(* The product's promise.                                                  *)

\* A key event maps to one step of the abstract specification in the context of
\* the instance it is for.
LEMMA KeyEventRefines ==
  ASSUME TypeOK, WholeSequences, NEW e \in Engines, NEW ev \in KeyEvents,
         process_key_event(e, ev)
  PROVE  Promise!Next
<1> DEFINE h == [x \in Engines |-> compose[x].pending_literal]
           t == [x \in Engines |-> IF x = event.engine THEN event.text ELSE <<>>]
<1>1. event'.engine = e
  BY KeyReply
<1>2. /\ t' = [x \in Engines |-> IF x = e THEN event'.text ELSE <<>>]
      /\ t'[e] = event'.text
  BY <1>1
<1>3. ASSUME NEW s \in ComposeStates, compose' = [compose EXCEPT ![e] = s]
      PROVE  h' = [h EXCEPT ![e] = s.pending_literal]
  BY <1>3 DEF TypeOK
<1>4. Idle.pending_literal = 0 /\ Idle \in ComposeStates
  BY DEF Idle, ComposeStates
<1>5. CASE Rested(e, ev)
  <2>1. Promise!Rest(e)
    BY <1>2, <1>5 DEF Rested, Promise!Rest, Promise!OnlyIn
  <2> QED
    BY <2>1 DEF Promise!Next
<1>6. CASE Typed(e, ev)
  <2>1. h[e] = 0 /\ h' = h
    BY <1>4, <1>6 DEF Typed
  <2>2. Len(t'[e]) = 1
    BY <1>2, <1>6 DEF Typed
  <2>3. Promise!Symbol(e)
    BY <1>2, <2>1, <2>2 DEF Promise!Symbol, Promise!OnlyIn, Promise!Nothing
  <2> QED
    BY <2>3 DEF Promise!Next
<1>7. CASE Held(e, ev)
  <2>1. PICK a \in PendingAccents : compose' = [compose EXCEPT ![e] = Holding(a)]
    BY <1>7 DEF Held
  <2>2. h[e] = 0
    BY <1>4, <1>7 DEF Held
  <2>3. h' = [h EXCEPT ![e] = accent_literal[a]]
    BY <1>3, <2>1, AccentFacts DEF ComposeStates
  <2>4. Promise!Hold(e, accent_literal[a])
    BY <1>2, <1>7, <2>2, <2>3 DEF Held, Promise!Hold, Promise!OnlyIn, Promise!Nothing
  <2> QED
    BY <2>4 DEF Promise!Next, Literals
<1>8. CASE Cancelled(e, ev)
  <2>1. PICK a \in PendingAccents : compose[e] = Holding(a)
    BY <1>8 DEF Cancelled, WholeSequences, ComposeStates
  <2>2. h[e] # 0
    BY <2>1, AccentFacts
  <2>3. h' = [h EXCEPT ![e] = 0]
    BY <1>3, <1>4, <1>8 DEF Cancelled
  <2>4. Promise!Abandon(e)
    BY <1>2, <1>8, <2>2, <2>3 DEF Cancelled, Promise!Abandon, Promise!OnlyIn, Promise!Nothing
  <2> QED
    BY <2>4 DEF Promise!Next
<1>9. CASE Finished(e, ev)
  <2>1. PICK a \in PendingAccents : /\ compose[e] = Holding(a)
                                    /\ Spelled(accent_literal[a], event'.text)
    BY <1>9 DEF Finished
  <2>2. h[e] = accent_literal[a] /\ h[e] # 0
    BY <2>1, AccentFacts
  <2>3. h' = [h EXCEPT ![e] = 0]
    BY <1>3, <1>4, <1>9 DEF Finished
  <2>4. Promise!SpelledFrom(h[e], t'[e])
    BY <1>2, <2>1, <2>2 DEF Spelled, Promise!SpelledFrom
  <2>5. Promise!Finish(e)
    BY <1>2, <2>2, <2>3, <2>4 DEF Promise!Finish, Promise!OnlyIn, Promise!Nothing
  <2> QED
    BY <2>5 DEF Promise!Next
<1> QED
  BY <1>5, <1>6, <1>7, <1>8, <1>9, KeyStep

\* A call that leaves the instance idle and commits nothing abandons its accent,
\* or is no business of the product.
LEMMA QuietRefines ==
  ASSUME TypeOK, WholeSequences, NEW e \in Engines, NEW call,
         compose' = [compose EXCEPT ![e] = Idle], event' = Called(e, call)
  PROVE  Promise!Next
<1> DEFINE h == [x \in Engines |-> compose[x].pending_literal]
<1>1. Promise!OnlyIn(e, <<>>)
  BY DEF Called, Promise!OnlyIn
<1>2. h' = [h EXCEPT ![e] = 0]
  BY DEF TypeOK, Idle
<1>3. CASE h[e] = 0
  <2>1. Promise!Rest(e)
    BY <1>1, <1>2, <1>3 DEF Promise!Rest
  <2> QED
    BY <2>1 DEF Promise!Next
<1>4. CASE h[e] # 0
  <2>1. Promise!Abandon(e)
    BY <1>1, <1>2, <1>4 DEF Promise!Abandon, Promise!Nothing, Promise!OnlyIn
  <2> QED
    BY <2>1 DEF Promise!Next
<1> QED
  BY <1>3, <1>4

\* The engine keeps the product's promise in every context: no client sees
\* anything of an accent before it is finished, no symbol overtakes a pending one,
\* and no accent completes in another context than its own.
THEOREM Refinement == Spec => EveryContextKeepsThePromise
<1>1. Init => Promise!Init
  BY DEF Init, Promise!Init, Promise!Nothing, Idle, Called
<1>2. TypeOK /\ WholeSequences /\ [Next]_vars => [Promise!Next]_(Promise!vars)
  <2> SUFFICES ASSUME TypeOK, WholeSequences, [Next]_vars
               PROVE  Promise!Next \/ UNCHANGED Promise!vars
    OBVIOUS
  <2>1. ASSUME NEW e \in Engines, NEW ev \in KeyEvents, process_key_event(e, ev)
        PROVE  Promise!Next
    BY <2>1, KeyEventRefines
  <2>2. ASSUME NEW e \in Engines, sc_engine_init(e)
        PROVE  Promise!Next
    BY <2>2, QuietRefines DEF sc_engine_init
  <2>3. ASSUME NEW e \in Engines, NEW call, abandon(e, call)
        PROVE  Promise!Next
    BY <2>3, QuietRefines DEF abandon
  <2>4. ASSUME NEW e \in Engines, finalize(e)
        PROVE  Promise!Next
    BY <2>4, QuietRefines DEF finalize
  <2>5. CASE UNCHANGED vars
    BY <2>5 DEF vars, Promise!vars
  <2> QED
    BY <2>1, <2>2, <2>3, <2>4, <2>5 DEF Next, reset, focus_out, disable
<1> QED
  BY <1>1, <1>2, Invariants, PTL DEF Spec, EveryContextKeepsThePromise, Promise!Spec
=============================================================================
