--------------------------- MODULE Session_proofs ---------------------------
(***************************************************************************)
(* Theorems about Session, for any widgets, any assignment of engine       *)
(* instances to them, any keyboard and a queue of any length.  What makes  *)
(* them true is the order of the queue: between two calls that must not    *)
(* meet there is always one that clears the instance.                      *)
(***************************************************************************)
EXTENDS Session, Engine_proofs

-----------------------------------------------------------------------------
(* The inductive invariants.                                               *)

StartsAltGr(c) ==
  c.call = "key" /\ is_altgr_modifier_key(c.key[1]) /\ "RELEASE" \notin c.key[3]

EndsAltGr(c) ==
  c.call = "key" => is_altgr_modifier_key(c.key[1]) /\ "RELEASE" \in c.key[3]

\* A call after the i-th one will end the AltGr session of e.
EndsAfter(i, e) ==
  \E j \in DOMAIN calls : j > i /\ calls[j].engine = e /\ EndsAltGr(calls[j])

\* Whoever believes in a held key, now or once it has seen a press that waits,
\* either is right or will be told.
AltGrAccounted ==
  \A e \in Engines :
    /\ altgr[e] => AltGrHeld(e) \/ EndsAfter(0, e)
    /\ \A i \in DOMAIN calls :
         calls[i].engine = e /\ StartsAltGr(calls[i]) => AltGrHeld(e) \/ EndsAfter(i, e)

\* A call between the i-th and the k-th ends the AltGr session of e.
EndsBetween(i, k, e) ==
  \E j \in DOMAIN calls : i < j /\ j < k /\ calls[j].engine = e /\ EndsAltGr(calls[j])

\* What e will believe when it comes to the k-th call: the last call before it that
\* starts or ends the session decides, or else what e believes now.
BeliefAt(k, e) ==
  \/ altgr[e] /\ ~EndsBetween(0, k, e)
  \/ \E i \in DOMAIN calls : /\ i < k /\ calls[i].engine = e /\ StartsAltGr(calls[i])
                           /\ ~EndsBetween(i, k, e)

\* Every key that waits will be read as it was typed, and so will the next one.
ReadingAccounted ==
  \A e \in Engines :
    /\ \A next \in {Len(calls) + 1} :
         BeliefAt(next, e) <=> steady /\ focus # NoWidget /\ scengine[focus] = e
    /\ \A k \in DOMAIN calls :
         calls[k].call = "key" /\ calls[k].engine = e => (BeliefAt(k, e) <=> calls[k].steady)

\* A call between the i-th and the k-th, or after the i-th, abandons what e holds.
AbandonsAfter(i, e) ==
  \E j \in DOMAIN calls : j > i /\ calls[j].engine = e /\ calls[j].call # "key"

AbandonsBetween(i, k, e) ==
  \E j \in DOMAIN calls : i < j /\ j < k /\ calls[j].engine = e /\ calls[j].call # "key"

\* The observer is right about who holds an accent, and for whom.
OriginsRight ==
  /\ \A e \in Engines : origin[e] = NoWidget <=> compose[e] = Idle
  /\ \A e \in Engines : origin[e] # NoWidget => scengine[origin[e]] = e
  /\ \A i \in DOMAIN calls : calls[i].engine = scengine[calls[i].widget]

\* What belongs to a widget that has lost the focus will be abandoned.
FocusAccounted ==
  \A e \in Engines :
    /\ origin[e] \notin {NoWidget, focus} => AbandonsAfter(0, e)
    /\ \A i \in DOMAIN calls :
         /\ calls[i].call = "key" /\ calls[i].engine = e /\ calls[i].widget # focus
         => AbandonsAfter(i, e)

\* Keys of two widgets, or a key and the accent of another widget, do not meet.
WidgetsApart ==
  \A e \in Engines :
    \A k \in DOMAIN calls : calls[k].call = "key" /\ calls[k].engine = e =>
      /\ origin[e] \notin {NoWidget, calls[k].widget} => AbandonsBetween(0, k, e)
      /\ \A i \in DOMAIN calls :
           /\ i < k /\ calls[i].call = "key" /\ calls[i].engine = e
           /\ calls[i].widget # calls[k].widget
           => AbandonsBetween(i, k, e)

-----------------------------------------------------------------------------
(* The queue.                                                              *)

LEMMA Appended ==
  ASSUME SessionTypeOK, NEW c, calls' = Append(calls, c)
  PROVE  /\ DOMAIN calls' = DOMAIN calls \cup {Len(calls) + 1}
         /\ \A i \in DOMAIN calls : calls'[i] = calls[i]
         /\ calls'[Len(calls) + 1] = c
         /\ \A i \in DOMAIN calls : i \in Nat /\ i > 0 /\ i < Len(calls) + 1
         /\ Len(calls) + 1 \in Nat /\ Len(calls) + 1 > 0
BY DEF SessionTypeOK

LEMMA Taken ==
  ASSUME SessionTypeOK, calls # <<>>, calls' = Tail(calls)
  PROVE  /\ 1 \in DOMAIN calls /\ Head(calls) = calls[1] /\ Head(calls) \in PendingCalls
         /\ \A i \in DOMAIN calls : i \in Nat /\ i > 0
         /\ \A i \in DOMAIN calls' :
              i \in Nat /\ i > 0 /\ i + 1 \in DOMAIN calls /\ calls'[i] = calls[i + 1]
         /\ \A i \in DOMAIN calls :
              i > 1 => i - 1 \in DOMAIN calls' /\ calls'[i - 1] = calls[i]
BY DEF SessionTypeOK

\* What send() does: nothing without a focused widget, and one call with it.
LEMMA Sent ==
  ASSUME SessionTypeOK, NEW name, NEW ev, send(name, ev)
  PROVE  \/ focus = NoWidget /\ calls' = calls
         \/ focus \in Widgets /\ calls' = Append(calls, Call(focus, name, ev))
BY DEF send, SessionTypeOK

LEMMA KeyCallTyped ==
  ASSUME SessionTypeOK, NEW w \in Widgets, NEW ev \in KeyEvents
  PROVE  Call(w, "key", ev) \in PendingCalls
BY SessionAssumption DEF Call, PendingCalls, SessionTypeOK

LEMMA OtherCallTyped ==
  ASSUME SessionTypeOK, NEW w \in Widgets, NEW name \in {"reset", "focus_out", "disable"}
  PROVE  Call(w, name, NoEvent) \in PendingCalls
BY SessionAssumption DEF Call, PendingCalls, SessionTypeOK

LEMMA SentTyped ==
  ASSUME SessionTypeOK, NEW name, NEW ev, send(name, ev),
         \/ name = "key" /\ ev \in KeyEvents
         \/ name \in {"reset", "focus_out", "disable"} /\ ev = NoEvent
  PROVE  calls' \in Seq(PendingCalls)
<1>1. CASE calls' = calls
  BY <1>1 DEF SessionTypeOK
<1>2. CASE focus \in Widgets /\ calls' = Append(calls, Call(focus, name, ev))
  <2>1. Call(focus, name, ev) \in PendingCalls
    BY <1>2, KeyCallTyped, OtherCallTyped
  <2> QED
    BY <1>2, <2>1, AppendProperties DEF SessionTypeOK
<1> QED
  BY <1>1, <1>2, Sent

\* The events the keyboard sends.
LEMMA KeyboardEvents ==
  /\ \A k \in Level3Keys : \A sym \in keysyms[k] :
       AltGrEvent(sym, {}) \in KeyEvents /\ AltGrEvent(sym, {"RELEASE"}) \in KeyEvents
  /\ \A s \in Strokes :
       <<s[1], s[2], s[3] \cup (IF down = {} THEN {} ELSE LevelBits)>> \in KeyEvents
BY SessionAssumption

\* The steps of the user: one call is sent, and nothing moves in the engine.
LEMMA UserStep ==
  ASSUME SessionTypeOK, SessionNext, ~handle
  PROVE  /\ UNCHANGED <<vars, observer>>
         /\ focus' \in Widgets \cup {NoWidget} /\ down' \subseteq Level3Keys
         /\ steady' \in BOOLEAN
         /\ \/ /\ focus' = focus
               /\ \E ev \in KeyEvents : send("key", ev)
            \/ /\ focus' = focus
               /\ \E name \in {"reset", "disable"} : send(name, NoEvent)
            \/ send("focus_out", NoEvent)
<1>1. ASSUME NEW k \in Level3Keys, NEW sym \in keysyms[k], press_altgr(k, sym)
      PROVE  /\ UNCHANGED <<vars, observer>>
             /\ focus' = focus /\ down' \subseteq Level3Keys /\ steady' \in BOOLEAN
             /\ \E ev \in KeyEvents : send("key", ev)
  BY <1>1, KeyboardEvents DEF press_altgr, SessionTypeOK
<1>2. ASSUME NEW k \in Level3Keys, NEW sym \in keysyms[k], release_altgr(k, sym)
      PROVE  /\ UNCHANGED <<vars, observer>>
             /\ focus' = focus /\ down' \subseteq Level3Keys /\ steady' \in BOOLEAN
             /\ \E ev \in KeyEvents : send("key", ev)
  BY <1>2, KeyboardEvents DEF release_altgr, SessionTypeOK
<1>3. ASSUME NEW s \in Strokes, type(s)
      PROVE  /\ UNCHANGED <<vars, observer>>
             /\ focus' = focus /\ down' = down /\ steady' \in BOOLEAN
             /\ \E ev \in KeyEvents : send("key", ev)
  BY <1>3, KeyboardEvents DEF type, SessionTypeOK
<1>4. ASSUME NEW w \in Widgets \cup {NoWidget}, move_focus(w)
      PROVE  /\ UNCHANGED <<vars, observer>>
             /\ focus' \in Widgets \cup {NoWidget} /\ down' = down /\ steady' \in BOOLEAN
             /\ send("focus_out", NoEvent)
  BY <1>4 DEF move_focus
<1>5. ASSUME NEW name \in {"reset", "disable"}, interrupt(name)
      PROVE  /\ UNCHANGED <<vars, observer>>
             /\ focus' = focus /\ down' = down /\ steady' \in BOOLEAN
             /\ send(name, NoEvent)
  BY <1>5 DEF interrupt
<1> QED
  BY <1>1, <1>2, <1>3, <1>4, <1>5 DEF SessionNext, SessionTypeOK

\* What the engine's step does with the oldest call, c.
Serves(c) ==
  /\ c = Head(calls) /\ calls # <<>> /\ calls' = Tail(calls)
  /\ c.engine \in Engines /\ c.widget \in Widgets
  /\ client' = c.widget /\ focus' = focus /\ down' = down /\ steady' = steady
  /\ origin' = [origin EXCEPT ![c.engine] =
                  IF compose'[c.engine] = Idle THEN NoWidget
                  ELSE IF compose[c.engine] = Idle THEN c.widget
                  ELSE @]
  /\ \/ c.call = "key" /\ c.key \in KeyEvents /\ process_key_event(c.engine, c.key)
     \/ c.call # "key" /\ \E call \in {"reset", "focus_out", "disable"} :
                            abandon(c.engine, call)
  /\ Next

\* The step of the engine: it serves the oldest call.
LEMMA HandleStep ==
  ASSUME SessionTypeOK, handle
  PROVE  \E c \in PendingCalls : Serves(c)
<1> DEFINE c == Head(calls)
<1>1. c \in PendingCalls
  BY Taken DEF handle
<1>2. /\ c.engine \in Engines /\ c.widget \in Widgets
      /\ c.call = "key" => c.key \in KeyEvents
  BY <1>1 DEF PendingCalls
<1>3. \/ c.call = "key" /\ process_key_event(c.engine, c.key)
      \/ c.call # "key" /\ \E call \in {"reset", "focus_out", "disable"} :
                              abandon(c.engine, call)
  BY DEF handle, reset, focus_out, disable
<1>4. Next
  <2>1. \/ c.call = "key" /\ process_key_event(c.engine, c.key)
        \/ reset(c.engine) \/ focus_out(c.engine) \/ disable(c.engine)
    BY DEF handle
  <2> QED
    BY <1>2, <2>1 DEF Next
<1> QED
  BY <1>1, <1>2, <1>3, <1>4 DEF handle, Serves

-----------------------------------------------------------------------------
(* Types.                                                                  *)

LEMMA SessionTypeStep ==
  ASSUME SessionTypeOK, WholeSequences, [SessionNext]_sessionVars
  PROVE  SessionTypeOK' /\ WholeSequences'
<1>1. CASE handle
  <2>1. PICK c \in PendingCalls : Serves(c)
    BY <1>1, HandleStep
  <2>2. TypeOK' /\ WholeSequences'
    BY <2>1, TypeStep, WholeSequencesStep DEF Serves, SessionTypeOK
  <2>3. live' = live
    BY <2>1 DEF Serves, process_key_event, abandon
  <2>4. calls' \in Seq(PendingCalls)
    BY <2>1 DEF Serves, SessionTypeOK
  <2>5. origin' \in [Engines -> Widgets \cup {NoWidget}]
    BY <2>1 DEF Serves, SessionTypeOK
  <2> QED
    BY <2>1, <2>2, <2>3, <2>4, <2>5 DEF Serves, SessionTypeOK
<1>2. CASE SessionNext /\ ~handle
  <2>1. TypeOK' /\ WholeSequences' /\ live' = live
    BY <1>2, UserStep DEF vars, SessionTypeOK, TypeOK, WholeSequences
  <2>2. calls' \in Seq(PendingCalls)
    BY <1>2, UserStep, SentTyped
  <2> QED
    BY <1>2, <2>1, <2>2, UserStep DEF SessionTypeOK, observer
<1>3. CASE UNCHANGED sessionVars
  BY <1>3 DEF sessionVars, environment, observer, vars, SessionTypeOK, TypeOK, WholeSequences
<1> QED
  BY <1>1, <1>2, <1>3

LEMMA SessionInvariants == SessionSpec => [](SessionTypeOK /\ WholeSequences)
<1>1. SessionInit => SessionTypeOK /\ WholeSequences
  <2> SUFFICES ASSUME SessionInit PROVE SessionTypeOK /\ WholeSequences
    OBVIOUS
  <2>1. (CHOOSE e \in Engines : TRUE) \in Engines
    BY EngineAssumption
  <2>2. TypeOK
    BY <2>1 DEF SessionInit, TypeOK, Called, Idle
  <2>3. SessionTypeOK
    <3>1. steady \in BOOLEAN
      BY DEF SessionInit
    <3> QED
      BY <2>2, <3>1 DEF SessionInit, SessionTypeOK
  <2>4. WholeSequences
    BY DEF SessionInit, WholeSequences, ComposeStates
  <2> QED
    BY <2>3, <2>4
<1>2. SessionTypeOK /\ WholeSequences /\ [SessionNext]_sessionVars
        => (SessionTypeOK /\ WholeSequences)'
  BY SessionTypeStep
<1> QED
  BY <1>1, <1>2, PTL DEF SessionSpec

\* Every variable of the session keeps its type.
THEOREM SessionTypeCorrect == SessionSpec => []SessionTypeOK
BY SessionInvariants, PTL

\* A session takes the engine through its own steps: what the user and the daemon
\* do besides calling it leaves its variables alone.
LEMMA SessionRunsTheEngine == SessionSpec => EngineRuns
<1>1. SessionTypeOK /\ [SessionNext]_sessionVars => [Next]_vars
  <2> SUFFICES ASSUME SessionTypeOK, [SessionNext]_sessionVars
               PROVE  Next \/ UNCHANGED vars
    OBVIOUS
  <2>1. CASE handle
    BY <2>1, HandleStep DEF Serves
  <2>2. CASE SessionNext /\ ~handle
    BY <2>2, UserStep
  <2>3. CASE UNCHANGED sessionVars
    BY <2>3 DEF sessionVars
  <2> QED
    BY <2>1, <2>2, <2>3
<1>2. SessionTypeOK => TypeOK
  BY DEF SessionTypeOK
<1> QED
  BY <1>1, <1>2, SessionInvariants, PTL DEF SessionSpec, EngineRuns

\* So what the engine promises of every key event holds in every session, late
\* calls, shared instances and all: nothing typed is lost or counted twice,
\* shortcuts and releases are left alone, AltGr types the Windows characters.
THEOREM KeystrokesOfASession ==
  SessionSpec => /\ KeystrokeNeverLost
                 /\ KeystrokeNeverDoubled
                 /\ ShortcutUntouched
                 /\ AltGrTypesWindowsCharacter
                 /\ ReleaseTypesNothing
BY SessionRunsTheEngine, HandledForAReason, TypedOnce, ShortcutRests, ChordTypesWindows,
   ReleaseRests, PTL

-----------------------------------------------------------------------------
(* The AltGr session.                                                      *)

\* A call that ends what is not held any more, or starts what is, is safe to add.
LEMMA AltGrSent ==
  ASSUME SessionTypeOK, AltGrAccounted, altgr' = altgr,
         NEW c, calls' = Append(calls, c),
         \A e \in Engines : AltGrHeld(e) => AltGrHeld(e)' \/ (c.engine = e /\ EndsAltGr(c)),
         StartsAltGr(c) => AltGrHeld(c.engine)'
  PROVE  AltGrAccounted'
<1> SUFFICES ASSUME NEW e \in Engines
             PROVE  /\ altgr[e] => AltGrHeld(e)' \/ EndsAfter(0, e)'
                    /\ \A i \in DOMAIN calls' :
                         calls'[i].engine = e /\ StartsAltGr(calls'[i]) =>
                           AltGrHeld(e)' \/ EndsAfter(i, e)'
  BY DEF AltGrAccounted, StartsAltGr
<1> DEFINE last == Len(calls) + 1
<1>1. /\ DOMAIN calls' = DOMAIN calls \cup {last}
      /\ \A i \in DOMAIN calls : calls'[i] = calls[i] /\ i \in Nat /\ i < last
      /\ calls'[last] = c /\ last \in Nat /\ last > 0
  BY Appended
<1>2. ASSUME NEW i, EndsAfter(i, e)
      PROVE  EndsAfter(i, e)'
  BY <1>1, <1>2 DEF EndsAfter, EndsAltGr
<1>3. ASSUME NEW i \in Nat, i < last, c.engine = e, EndsAltGr(c)
      PROVE  EndsAfter(i, e)'
  BY <1>1, <1>3 DEF EndsAfter, EndsAltGr
<1>4. altgr[e] => AltGrHeld(e)' \/ EndsAfter(0, e)'
  BY <1>1, <1>2, <1>3 DEF AltGrAccounted
<1>5. ASSUME NEW i \in DOMAIN calls', calls'[i].engine = e, StartsAltGr(calls'[i])
      PROVE  AltGrHeld(e)' \/ EndsAfter(i, e)'
  <2>1. CASE i = last
    BY <1>1, <1>5, <2>1
  <2>2. CASE i \in DOMAIN calls
    <3>1. AltGrHeld(e) \/ EndsAfter(i, e)
      BY <1>1, <1>5, <2>2 DEF AltGrAccounted
    <3> QED
      BY <1>1, <1>2, <1>3, <2>2, <3>1
  <2> QED
    BY <1>1, <2>1, <2>2
<1> QED
  BY <1>4, <1>5

\* Nothing is sent without a focused widget, and no key is held in one either.
LEMMA AltGrUnsent ==
  ASSUME AltGrAccounted, altgr' = altgr, calls' = calls,
         \A e \in Engines : AltGrHeld(e) => AltGrHeld(e)'
  PROVE  AltGrAccounted'
BY DEF AltGrAccounted, EndsAfter

LEMMA AltGrUserStep ==
  ASSUME LayoutKnown, SessionTypeOK, AltGrAccounted, SessionNext, ~handle
  PROVE  AltGrAccounted'
<1>0. altgr' = altgr
  BY UserStep DEF vars
<1>1. ASSUME NEW k \in Level3Keys, NEW sym \in keysyms[k], press_altgr(k, sym)
      PROVE  AltGrAccounted'
  <2> DEFINE c == Call(focus, "key", AltGrEvent(sym, {}))
  <2>1. /\ focus' = focus /\ down' = down \cup {k}
        /\ send("key", AltGrEvent(sym, {}))
    BY <1>1 DEF press_altgr
  <2>2. \A e : AltGrHeld(e) => AltGrHeld(e)'
    BY <2>1 DEF AltGrHeld
  <2>3. CASE calls' = calls
    BY <1>0, <2>2, <2>3, AltGrUnsent
  <2>4. CASE focus \in Widgets /\ calls' = Append(calls, c)
    <3>1. \A e : e = c.engine => AltGrHeld(e)'
      BY <2>1, <2>4, SessionAssumption DEF AltGrHeld, Call
    <3> QED
      BY <1>0, <2>2, <2>4, <3>1, AltGrSent
  <2> QED
    BY <2>1, <2>3, <2>4, Sent
<1>2. ASSUME NEW k \in Level3Keys, NEW sym \in keysyms[k], release_altgr(k, sym)
      PROVE  AltGrAccounted'
  <2> DEFINE c == Call(focus, "key", AltGrEvent(sym, {"RELEASE"}))
  <2>1. focus' = focus /\ send("key", AltGrEvent(sym, {"RELEASE"}))
    BY <1>2 DEF release_altgr
  <2>2. EndsAltGr(c) /\ ~StartsAltGr(c) /\ c.engine = scengine[focus]
    BY DEF LayoutKnown, EndsAltGr, StartsAltGr, Call, AltGrEvent, is_altgr_modifier_key
  <2>3. CASE focus = NoWidget /\ calls' = calls
    BY <1>0, <2>3, AltGrUnsent DEF AltGrHeld
  <2>4. CASE focus \in Widgets /\ calls' = Append(calls, c)
    <3>1. \A e : AltGrHeld(e) => c.engine = e
      BY <2>2 DEF AltGrHeld
    <3> QED
      BY <1>0, <2>2, <2>4, <3>1, AltGrSent
  <2> QED
    BY <2>1, <2>3, <2>4, Sent
<1>3. ASSUME NEW s \in Strokes, type(s)
      PROVE  AltGrAccounted'
  <2> DEFINE ev == <<s[1], s[2], s[3] \cup (IF down = {} THEN {} ELSE LevelBits)>>
             c  == Call(focus, "key", ev)
  <2>1. focus' = focus /\ down' = down /\ focus # NoWidget /\ send("key", ev)
    BY <1>3 DEF type
  <2>2. ~StartsAltGr(c)
    BY SessionAssumption DEF StartsAltGr, Call
  <2>3. \A e : AltGrHeld(e) => AltGrHeld(e)'
    BY <2>1 DEF AltGrHeld
  <2>4. calls' = Append(calls, c)
    BY <2>1, Sent
  <2> QED
    BY <1>0, <2>2, <2>3, <2>4, AltGrSent
<1>4. ASSUME NEW w \in Widgets \cup {NoWidget}, move_focus(w)
      PROVE  AltGrAccounted'
  <2> DEFINE c == Call(focus, "focus_out", NoEvent)
  <2>1. send("focus_out", NoEvent)
    BY <1>4 DEF move_focus
  <2>2. EndsAltGr(c) /\ ~StartsAltGr(c) /\ c.engine = scengine[focus]
    BY DEF EndsAltGr, StartsAltGr, Call
  <2>3. CASE focus = NoWidget /\ calls' = calls
    BY <1>0, <2>3, AltGrUnsent DEF AltGrHeld
  <2>4. CASE focus \in Widgets /\ calls' = Append(calls, c)
    <3>1. \A e : AltGrHeld(e) => c.engine = e
      BY <2>2 DEF AltGrHeld
    <3> QED
      BY <1>0, <2>2, <2>4, <3>1, AltGrSent
  <2> QED
    BY <2>1, <2>3, <2>4, Sent
<1>5. ASSUME NEW name \in {"reset", "disable"}, interrupt(name)
      PROVE  AltGrAccounted'
  <2> DEFINE c == Call(focus, name, NoEvent)
  <2>1. focus' = focus /\ down' = down /\ focus # NoWidget /\ send(name, NoEvent)
    BY <1>5 DEF interrupt
  <2>2. ~StartsAltGr(c)
    BY DEF StartsAltGr, Call
  <2>3. \A e : AltGrHeld(e) => AltGrHeld(e)'
    BY <2>1 DEF AltGrHeld
  <2>4. calls' = Append(calls, c)
    BY <2>1, Sent
  <2> QED
    BY <1>0, <2>2, <2>3, <2>4, AltGrSent
<1> QED
  BY <1>1, <1>2, <1>3, <1>4, <1>5 DEF SessionNext

\* A served call sets the flag if it starts a session, clears it if it ends one,
\* and leaves it otherwise.
LEMMA AltGrServed ==
  ASSUME SessionTypeOK, NEW c \in PendingCalls, Serves(c)
  PROVE  /\ \A e \in Engines : e # c.engine => altgr'[e] = altgr[e]
         /\ altgr'[c.engine] <=> StartsAltGr(c) \/ (altgr[c.engine] /\ ~EndsAltGr(c))
<1>1. CASE c.call = "key"
  <2>1. process_key_event(c.engine, c.key) /\ c.engine \in Engines
    BY <1>1 DEF Serves
  <2>2. CASE altgr_key(c.engine, c.key)
    BY <1>1, <2>1, <2>2
    DEF altgr_key, StartsAltGr, EndsAltGr, SessionTypeOK, TypeOK
  <2>3. CASE direct_symbol(c.engine, c.key) \/ composed_key(c.engine, c.key)
    BY <1>1, <2>3 DEF direct_symbol, composed_key, EndsAltGr, StartsAltGr
  <2> QED
    BY <2>1, <2>2, <2>3 DEF process_key_event
<1>2. CASE c.call # "key"
  <2>1. altgr' = [altgr EXCEPT ![c.engine] = FALSE] /\ c.engine \in Engines
    BY <1>2 DEF Serves, abandon
  <2> QED
    BY <1>2, <2>1 DEF SessionTypeOK, TypeOK, StartsAltGr, EndsAltGr
<1> QED
  BY <1>1, <1>2

LEMMA AltGrHandleStep ==
  ASSUME SessionTypeOK, AltGrAccounted, handle
  PROVE  AltGrAccounted'
<1>1. PICK c \in PendingCalls : Serves(c)
  BY HandleStep
<1> SUFFICES ASSUME NEW e \in Engines
             PROVE  /\ altgr'[e] => AltGrHeld(e)' \/ EndsAfter(0, e)'
                    /\ \A i \in DOMAIN calls' :
                         calls'[i].engine = e /\ StartsAltGr(calls'[i]) =>
                           AltGrHeld(e)' \/ EndsAfter(i, e)'
  BY DEF AltGrAccounted, StartsAltGr
<1>2. calls # <<>> /\ calls' = Tail(calls) /\ AltGrHeld(e)' = AltGrHeld(e)
  BY <1>1 DEF Serves, AltGrHeld
<1>3. /\ 1 \in DOMAIN calls /\ c = calls[1]
      /\ \A i \in DOMAIN calls' :
           i \in Nat /\ i > 0 /\ i + 1 \in DOMAIN calls /\ calls'[i] = calls[i + 1]
      /\ \A i \in DOMAIN calls : i \in Nat /\ i > 0
      /\ \A i \in DOMAIN calls :
           i > 1 => i - 1 \in DOMAIN calls' /\ calls'[i - 1] = calls[i]
  BY <1>1, <1>2, Taken DEF Serves
<1>4. ASSUME NEW i \in Nat, EndsAfter(i + 1, e)
      PROVE  EndsAfter(i, e)'
  <2>1. PICK j \in DOMAIN calls : j > i + 1 /\ calls[j].engine = e /\ EndsAltGr(calls[j])
    BY <1>4 DEF EndsAfter
  <2>2. j \in Nat /\ j > 1 /\ j - 1 > i
    BY <1>3, <2>1
  <2> QED
    BY <1>3, <2>1, <2>2 DEF EndsAfter, EndsAltGr
<1>5. ASSUME EndsAfter(0, e), ~(c.engine = e /\ EndsAltGr(c))
      PROVE  EndsAfter(1, e)
  BY <1>3, <1>5 DEF EndsAfter
<1>6. ASSUME altgr'[e]
      PROVE  AltGrHeld(e)' \/ EndsAfter(0, e)'
  <2>1. CASE c.engine = e /\ StartsAltGr(c)
    BY <1>2, <1>3, <1>4, <2>1 DEF AltGrAccounted
  <2>2. CASE altgr[e] /\ ~(c.engine = e /\ EndsAltGr(c))
    BY <1>2, <1>4, <1>5, <2>2 DEF AltGrAccounted
  <2> QED
    BY <1>1, <1>6, <2>1, <2>2, AltGrServed
<1>7. ASSUME NEW i \in DOMAIN calls', calls'[i].engine = e, StartsAltGr(calls'[i])
      PROVE  AltGrHeld(e)' \/ EndsAfter(i, e)'
  <2>1. i \in Nat /\ i + 1 \in DOMAIN calls /\ calls'[i] = calls[i + 1]
    BY <1>3
  <2>2. AltGrHeld(e) \/ EndsAfter(i + 1, e)
    BY <1>7, <2>1 DEF AltGrAccounted
  <2> QED
    BY <1>2, <1>4, <2>1, <2>2
<1> QED
  BY <1>6, <1>7

LEMMA AltGrInvariant ==
  ASSUME LayoutKnown
  PROVE  SessionSpec => [](SessionTypeOK /\ AltGrAccounted)
<1>1. SessionInit => AltGrAccounted
  BY DEF SessionInit, AltGrAccounted
<1>2. SessionTypeOK /\ AltGrAccounted /\ [SessionNext]_sessionVars => AltGrAccounted'
  <2> SUFFICES ASSUME SessionTypeOK, AltGrAccounted, [SessionNext]_sessionVars
               PROVE  AltGrAccounted'
    OBVIOUS
  <2>1. CASE UNCHANGED sessionVars
    BY <2>1 DEF sessionVars, vars, environment, AltGrAccounted, EndsAfter, AltGrHeld
  <2> QED
    BY <2>1, AltGrUserStep, AltGrHandleStep
<1> QED
  BY <1>1, <1>2, SessionInvariants, PTL DEF SessionSpec

\* If the engine knows the AltGr keys of the layout, an instance that has seen all
\* its calls is right whenever it believes that AltGr is held: no release is
\* missed for good, wherever the focus was when it came.
THEOREM AltGrFollowsTheKeyboard ==
  ASSUME LayoutKnown
  PROVE  SessionSpec => []AltGrOnlyWhileHeld
<1>1. SessionTypeOK /\ AltGrAccounted => AltGrOnlyWhileHeld
  BY DEF AltGrAccounted, AltGrOnlyWhileHeld, EndsAfter
<1> QED
  BY <1>1, AltGrInvariant, PTL

-----------------------------------------------------------------------------
(* The AltGr session, from the user's side.                                *)

\* Only the calls before the k-th count for it, so a call that is added changes
\* nothing, except for what comes behind it.
LEMMA BeliefSent ==
  ASSUME SessionTypeOK, altgr' = altgr, NEW c, calls' = Append(calls, c), NEW e \in Engines,
         NEW last, last = Len(calls) + 1
  PROVE  /\ \A k \in DOMAIN calls \cup {last} : BeliefAt(k, e)' <=> BeliefAt(k, e)
         /\ BeliefAt(last + 1, e)'
              <=> \/ c.engine = e /\ StartsAltGr(c)
                  \/ BeliefAt(last, e) /\ ~(c.engine = e /\ EndsAltGr(c))
<1>1. /\ DOMAIN calls' = DOMAIN calls \cup {last}
      /\ \A i \in DOMAIN calls : calls'[i] = calls[i] /\ i \in Nat /\ i > 0 /\ i < last
      /\ calls'[last] = c /\ last \in Nat /\ last > 0
  BY Appended
<1>2. \A i, k : k \in DOMAIN calls \cup {last} => (EndsBetween(i, k, e)' <=> EndsBetween(i, k, e))
  BY <1>1 DEF EndsBetween, EndsAltGr
<1>3. ASSUME NEW k \in DOMAIN calls \cup {last}
      PROVE  BeliefAt(k, e)' <=> BeliefAt(k, e)
  <2>1. \A i \in DOMAIN calls' : i < k => i \in DOMAIN calls
    BY <1>1
  <2>2. (\E i \in DOMAIN calls' : /\ i < k /\ calls'[i].engine = e /\ StartsAltGr(calls'[i])
                                 /\ ~EndsBetween(i, k, e)')
        <=> \E i \in DOMAIN calls : /\ i < k /\ calls[i].engine = e /\ StartsAltGr(calls[i])
                                   /\ ~EndsBetween(i, k, e)
    BY <1>1, <1>2, <2>1
  <2>3. (altgr'[e] /\ ~EndsBetween(0, k, e)') <=> (altgr[e] /\ ~EndsBetween(0, k, e))
    BY <1>2
  <2> QED
    BY <2>2, <2>3 DEF BeliefAt, StartsAltGr, EndsBetween, EndsAltGr
<1>4. ASSUME NEW i \in Nat, i < last
      PROVE  EndsBetween(i, last + 1, e)'
               <=> EndsBetween(i, last, e) \/ (c.engine = e /\ EndsAltGr(c))
  BY <1>1, <1>4 DEF EndsBetween, EndsAltGr
<1>5. ~EndsBetween(last, last + 1, e)'
  <2> SUFFICES ASSUME EndsBetween(last, last + 1, e)' PROVE FALSE
    OBVIOUS
  <2>1. PICK j \in DOMAIN calls' : last < j
    BY DEF EndsBetween, EndsAltGr
  <2> QED
    BY <1>1, <2>1
<1>6. StartsAltGr(c) => ~EndsAltGr(c)
  BY DEF StartsAltGr, EndsAltGr
<1>7. BeliefAt(last + 1, e)'
        <=> \/ c.engine = e /\ StartsAltGr(c)
            \/ BeliefAt(last, e) /\ ~(c.engine = e /\ EndsAltGr(c))
  <2>1. (\E i \in DOMAIN calls' : /\ i < last + 1 /\ calls'[i].engine = e
                                 /\ StartsAltGr(calls'[i]) /\ ~EndsBetween(i, last + 1, e)')
        <=> \/ c.engine = e /\ StartsAltGr(c)
            \/ /\ ~(c.engine = e /\ EndsAltGr(c))
               /\ \E i \in DOMAIN calls : /\ i < last /\ calls[i].engine = e
                                          /\ StartsAltGr(calls[i]) /\ ~EndsBetween(i, last, e)
    BY <1>1, <1>4, <1>5, <1>6
  <2>2. (altgr'[e] /\ ~EndsBetween(0, last + 1, e)')
        <=> (altgr[e] /\ ~EndsBetween(0, last, e) /\ ~(c.engine = e /\ EndsAltGr(c)))
    BY <1>1, <1>4
  <2> QED
    BY <1>6, <2>1, <2>2 DEF BeliefAt, StartsAltGr, EndsBetween, EndsAltGr
<1> QED
  BY <1>3, <1>7

\* Serving a call moves what was believed at the others one place up.
LEMMA BeliefServed ==
  ASSUME SessionTypeOK, NEW c \in PendingCalls, Serves(c), NEW e \in Engines,
         NEW k \in Nat, k > 0
  PROVE  BeliefAt(k, e)' <=> BeliefAt(k + 1, e)
<1>1. calls # <<>> /\ calls' = Tail(calls)
  BY DEF Serves
<1>2. /\ 1 \in DOMAIN calls /\ c = calls[1]
      /\ \A i \in DOMAIN calls' :
           i \in Nat /\ i > 0 /\ i + 1 \in DOMAIN calls /\ calls'[i] = calls[i + 1]
      /\ \A i \in DOMAIN calls : i \in Nat /\ i > 0
      /\ \A i \in DOMAIN calls :
           i > 1 => i - 1 \in DOMAIN calls' /\ calls'[i - 1] = calls[i]
  BY <1>1, Taken DEF Serves
<1>3. ASSUME NEW i \in Nat
      PROVE  EndsBetween(i, k, e)' <=> EndsBetween(i + 1, k + 1, e)
  <2>1. ASSUME EndsBetween(i, k, e)'
        PROVE  EndsBetween(i + 1, k + 1, e)
    <3>1. PICK j \in DOMAIN calls' : /\ i < j /\ j < k
                                    /\ calls'[j].engine = e /\ EndsAltGr(calls'[j])
      BY <2>1 DEF EndsBetween, EndsAltGr
    <3>2. j + 1 \in DOMAIN calls /\ i + 1 < j + 1 /\ j + 1 < k + 1 /\ calls[j + 1] = calls'[j]
      BY <1>2, <3>1
    <3> QED
      BY <3>1, <3>2 DEF EndsBetween
  <2>2. ASSUME EndsBetween(i + 1, k + 1, e)
        PROVE  EndsBetween(i, k, e)'
    <3>1. PICK j \in DOMAIN calls : /\ i + 1 < j /\ j < k + 1
                                   /\ calls[j].engine = e /\ EndsAltGr(calls[j])
      BY <2>2 DEF EndsBetween
    <3>2. j - 1 \in DOMAIN calls' /\ i < j - 1 /\ j - 1 < k /\ calls'[j - 1] = calls[j]
      BY <1>2, <3>1
    <3> QED
      BY <3>1, <3>2 DEF EndsBetween, EndsAltGr
  <2> QED
    BY <2>1, <2>2
<1>4. EndsBetween(0, k + 1, e) <=> (c.engine = e /\ EndsAltGr(c)) \/ EndsBetween(1, k + 1, e)
  <2>1. \A j \in DOMAIN calls : j = 1 \/ 1 < j
    BY <1>2
  <2> QED
    BY <1>2, <2>1 DEF EndsBetween
<1>5. altgr'[e] <=> \/ c.engine = e /\ StartsAltGr(c)
                    \/ altgr[e] /\ ~(c.engine = e /\ EndsAltGr(c))
  BY AltGrServed
<1>6. EndsBetween(0, k, e)' <=> EndsBetween(1, k + 1, e)
  BY <1>3
<1>7. ASSUME BeliefAt(k, e)'
      PROVE  BeliefAt(k + 1, e)
  <2>1. CASE altgr'[e] /\ ~EndsBetween(0, k, e)'
    BY <1>2, <1>4, <1>5, <1>6, <2>1 DEF BeliefAt
  <2>2. CASE \E i \in DOMAIN calls' : /\ i < k /\ calls'[i].engine = e
                                      /\ StartsAltGr(calls'[i]) /\ ~EndsBetween(i, k, e)'
    <3>1. PICK i \in DOMAIN calls' : /\ i < k /\ calls'[i].engine = e
                                    /\ StartsAltGr(calls'[i]) /\ ~EndsBetween(i, k, e)'
      BY <2>2
    <3>2. /\ i + 1 \in DOMAIN calls /\ i + 1 < k + 1 /\ calls[i + 1] = calls'[i]
          /\ ~EndsBetween(i + 1, k + 1, e)
      BY <1>2, <1>3, <3>1
    <3> QED
      BY <3>1, <3>2 DEF BeliefAt
  <2> QED
    BY <1>7, <2>1, <2>2 DEF BeliefAt, StartsAltGr, EndsBetween, EndsAltGr
<1>8. ASSUME BeliefAt(k + 1, e)
      PROVE  BeliefAt(k, e)'
  <2>1. CASE altgr[e] /\ ~EndsBetween(0, k + 1, e)
    BY <1>4, <1>5, <1>6, <2>1 DEF BeliefAt, EndsBetween, EndsAltGr
  <2>2. CASE \E i \in DOMAIN calls : /\ i < k + 1 /\ calls[i].engine = e
                                     /\ StartsAltGr(calls[i]) /\ ~EndsBetween(i, k + 1, e)
    <3>1. PICK i \in DOMAIN calls : /\ i < k + 1 /\ calls[i].engine = e
                                   /\ StartsAltGr(calls[i]) /\ ~EndsBetween(i, k + 1, e)
      BY <2>2
    <3>2. CASE i = 1
      <4>1. altgr'[e] /\ ~EndsBetween(0, k, e)'
        BY <1>2, <1>5, <1>6, <3>1, <3>2
      <4> QED
        BY <4>1 DEF BeliefAt, EndsBetween, EndsAltGr
    <3>3. CASE i > 1
      <4>1. /\ i - 1 \in DOMAIN calls' /\ i - 1 < k /\ calls'[i - 1] = calls[i]
            /\ i - 1 \in Nat /\ (i - 1) + 1 = i
        BY <1>2, <3>1, <3>3
      <4>2. ~EndsBetween(i - 1, k, e)'
        BY <1>3, <3>1, <4>1
      <4> QED
        BY <3>1, <4>1, <4>2 DEF BeliefAt, StartsAltGr, EndsBetween, EndsAltGr
    <3> QED
      BY <1>2, <3>2, <3>3
  <2> QED
    BY <1>8, <2>1, <2>2 DEF BeliefAt
<1> QED
  BY <1>7, <1>8

\* A call on its way notes what its instance will believe: a call sent in a
\* session belongs to the focused widget, like the session.
LEMMA ReadingSent ==
  ASSUME SessionTypeOK, ReadingAccounted, altgr' = altgr, focus \in Widgets,
         NEW name, NEW ev, calls' = Append(calls, Call(focus, name, ev)),
         \/ steady' = TRUE /\ focus' = focus /\ StartsAltGr(Call(focus, name, ev))
         \/ steady' = FALSE /\ EndsAltGr(Call(focus, name, ev))
         \/ /\ steady' = steady /\ focus' = focus
            /\ ~StartsAltGr(Call(focus, name, ev)) /\ ~EndsAltGr(Call(focus, name, ev))
  PROVE  ReadingAccounted'
<1> DEFINE c == Call(focus, name, ev)
<1>1. PICK last : last = Len(calls) + 1
  OBVIOUS
<1>2. /\ DOMAIN calls' = DOMAIN calls \cup {last}
      /\ \A i \in DOMAIN calls : calls'[i] = calls[i]
      /\ calls'[last] = c /\ last \in Nat
  BY <1>1, Appended
<1>3. Len(calls') = last
  BY <1>1 DEF SessionTypeOK
<1>4. c.engine = scengine[focus] /\ c.steady = steady /\ focus # NoWidget
  BY SessionAssumption DEF Call
<1>5. StartsAltGr(c) => ~EndsAltGr(c)
  BY DEF StartsAltGr, EndsAltGr
<1> SUFFICES ASSUME NEW e \in Engines
             PROVE  /\ BeliefAt(last + 1, e)'
                         <=> steady' /\ focus' # NoWidget /\ scengine[focus'] = e
                    /\ \A k \in DOMAIN calls' :
                         calls'[k].call = "key" /\ calls'[k].engine = e =>
                           (BeliefAt(k, e)' <=> calls'[k].steady)
  BY <1>3 DEF ReadingAccounted
<1>6. BeliefAt(last, e) <=> steady /\ c.engine = e
  BY <1>1, <1>4 DEF ReadingAccounted
<1>7. BeliefAt(last + 1, e)'
        <=> \/ c.engine = e /\ StartsAltGr(c)
            \/ BeliefAt(last, e) /\ ~(c.engine = e /\ EndsAltGr(c))
  BY <1>1, BeliefSent
<1>8. ASSUME NEW k \in DOMAIN calls', calls'[k].call = "key", calls'[k].engine = e
      PROVE  BeliefAt(k, e)' <=> calls'[k].steady
  <2>1. CASE k = last
    <3>1. BeliefAt(last, e)' <=> BeliefAt(last, e)
      BY <1>1, BeliefSent
    <3> QED
      BY <1>2, <1>6, <1>8, <2>1, <3>1, <1>4
  <2>2. CASE k \in DOMAIN calls
    <3>1. BeliefAt(k, e)' <=> BeliefAt(k, e)
      BY <1>1, <2>2, BeliefSent
    <3> QED
      BY <1>2, <1>8, <2>2, <3>1 DEF ReadingAccounted
  <2> QED
    BY <1>2, <2>1, <2>2
<1> QED
  BY <1>4, <1>5, <1>6, <1>7, <1>8

LEMMA ReadingUnsent ==
  ASSUME ReadingAccounted, altgr' = altgr, calls' = calls,
         focus = NoWidget, ~steady'
  PROVE  ReadingAccounted'
<1> SUFFICES ASSUME NEW e \in Engines, NEW next, next = Len(calls)
             PROVE  /\ ~BeliefAt(next + 1, e)'
                    /\ \A k \in DOMAIN calls :
                         calls[k].call = "key" /\ calls[k].engine = e =>
                           (BeliefAt(k, e)' <=> calls[k].steady)
  BY DEF ReadingAccounted
<1>1. \A k : BeliefAt(k, e)' <=> BeliefAt(k, e)
  BY DEF BeliefAt, EndsBetween, StartsAltGr, EndsAltGr
<1> QED
  BY <1>1 DEF ReadingAccounted

\* What the user does in an AltGr session, or to it, is sent to the instance it
\* concerns.
LEMMA ReadingUserStep ==
  ASSUME LayoutKnown, SessionTypeOK, ReadingAccounted, SessionNext, ~handle
  PROVE  ReadingAccounted'
<1>0. altgr' = altgr
  BY UserStep DEF vars
<1>1. ASSUME NEW k \in Level3Keys, NEW sym \in keysyms[k], press_altgr(k, sym)
      PROVE  ReadingAccounted'
  <2> DEFINE ev == AltGrEvent(sym, {})
  <2>1. focus' = focus /\ steady' = (focus # NoWidget) /\ send("key", ev)
    BY <1>1 DEF press_altgr
  <2>2. StartsAltGr(Call(focus, "key", ev))
    BY DEF LayoutKnown, StartsAltGr, Call, AltGrEvent, is_altgr_modifier_key
  <2>3. CASE focus = NoWidget /\ calls' = calls
    BY <1>0, <2>1, <2>3, ReadingUnsent
  <2>4. CASE focus \in Widgets /\ calls' = Append(calls, Call(focus, "key", ev))
    <3>1. steady' = TRUE
      BY <2>1, <2>4, SessionAssumption
    <3> QED
      BY <1>0, <2>1, <2>2, <2>4, <3>1, ReadingSent
  <2> QED
    BY <2>1, <2>3, <2>4, Sent
<1>2. ASSUME NEW s \in Strokes, type(s)
      PROVE  ReadingAccounted'
  <2> DEFINE ev == <<s[1], s[2], s[3] \cup (IF down = {} THEN {} ELSE LevelBits)>>
  <2>1. focus' = focus /\ steady' = steady /\ focus # NoWidget /\ send("key", ev)
    BY <1>2 DEF type
  <2>2. ~StartsAltGr(Call(focus, "key", ev)) /\ ~EndsAltGr(Call(focus, "key", ev))
    BY SessionAssumption DEF StartsAltGr, EndsAltGr, Call
  <2> HIDE DEF ev
  <2>3. focus \in Widgets /\ calls' = Append(calls, Call(focus, "key", ev))
    BY <2>1, Sent
  <2> QED
    BY <1>0, <2>1, <2>2, <2>3, ReadingSent
<1>3. ASSUME \/ \E k \in Level3Keys : \E sym \in keysyms[k] : release_altgr(k, sym)
             \/ \E w \in Widgets \cup {NoWidget} : move_focus(w)
             \/ \E name \in {"reset", "disable"} : interrupt(name)
      PROVE  ReadingAccounted'
  <2>1. /\ steady' = FALSE
        /\ \E name, ev : send(name, ev) /\ EndsAltGr(Call(focus, name, ev))
    <3>1. ASSUME NEW k \in Level3Keys, NEW sym \in keysyms[k], release_altgr(k, sym)
          PROVE  EndsAltGr(Call(focus, "key", AltGrEvent(sym, {"RELEASE"})))
      BY DEF LayoutKnown, EndsAltGr, Call, AltGrEvent, is_altgr_modifier_key
    <3>2. \A name \in {"reset", "disable", "focus_out"} : EndsAltGr(Call(focus, name, NoEvent))
      BY DEF EndsAltGr, Call
    <3> QED
      BY <1>3, <3>1, <3>2 DEF release_altgr, move_focus, interrupt
  <2>2. PICK name, ev : send(name, ev) /\ EndsAltGr(Call(focus, name, ev))
    BY <2>1
  <2>3. CASE focus = NoWidget /\ calls' = calls
    BY <1>0, <2>1, <2>3, ReadingUnsent
  <2>4. CASE focus \in Widgets /\ calls' = Append(calls, Call(focus, name, ev))
    BY <1>0, <2>1, <2>2, <2>4, ReadingSent
  <2> QED
    BY <2>2, <2>3, <2>4, Sent
<1> QED
  BY <1>1, <1>2, <1>3 DEF SessionNext

\* Serving a call changes what is left of the queue, and not what is noted there.
LEMMA ReadingHandleStep ==
  ASSUME SessionTypeOK, ReadingAccounted, handle
  PROVE  ReadingAccounted'
<1>1. PICK c \in PendingCalls : Serves(c)
  BY HandleStep
<1>2. /\ calls # <<>> /\ calls' = Tail(calls)
      /\ focus' = focus /\ steady' = steady
  BY <1>1 DEF Serves
<1>3. \A i \in DOMAIN calls' :
        i \in Nat /\ i > 0 /\ i + 1 \in DOMAIN calls /\ calls'[i] = calls[i + 1]
  BY <1>2, Taken
<1>4. PICK last : last = Len(calls)
  OBVIOUS
<1>5. Len(calls') + 1 = last /\ last \in Nat /\ last > 0
  BY <1>2, <1>4 DEF SessionTypeOK
<1> SUFFICES ASSUME NEW e \in Engines
             PROVE  /\ BeliefAt(last, e)' <=> steady /\ focus # NoWidget /\ scengine[focus] = e
                    /\ \A k \in DOMAIN calls' :
                         calls'[k].call = "key" /\ calls'[k].engine = e =>
                           (BeliefAt(k, e)' <=> calls'[k].steady)
  BY <1>2, <1>5 DEF ReadingAccounted
<1>6. BeliefAt(last, e)' <=> BeliefAt(last + 1, e)
  BY <1>1, <1>5, BeliefServed
<1>7. ASSUME NEW k \in DOMAIN calls', calls'[k].call = "key", calls'[k].engine = e
      PROVE  BeliefAt(k, e)' <=> calls'[k].steady
  <2>1. BeliefAt(k, e)' <=> BeliefAt(k + 1, e)
    BY <1>1, <1>3, BeliefServed
  <2> QED
    BY <1>3, <1>7, <2>1 DEF ReadingAccounted
<1> QED
  BY <1>4, <1>6, <1>7 DEF ReadingAccounted

LEMMA ReadingInvariant ==
  ASSUME LayoutKnown
  PROVE  SessionSpec => [](SessionTypeOK /\ ReadingAccounted)
<1>1. SessionInit => ReadingAccounted
  BY DEF SessionInit, ReadingAccounted, BeliefAt
<1>2. SessionTypeOK /\ ReadingAccounted /\ [SessionNext]_sessionVars => ReadingAccounted'
  <2> SUFFICES ASSUME SessionTypeOK, ReadingAccounted, [SessionNext]_sessionVars
               PROVE  ReadingAccounted'
    OBVIOUS
  <2>1. CASE UNCHANGED sessionVars
    BY <2>1 DEF sessionVars, vars, environment, ReadingAccounted, BeliefAt, EndsBetween,
                StartsAltGr, EndsAltGr
  <2> QED
    BY <2>1, ReadingUserStep, ReadingHandleStep
<1> QED
  BY <1>1, <1>2, SessionInvariants, PTL DEF SessionSpec

\* What an instance believes when it comes to the first call is what it believes now.
LEMMA BeliefNow ==
  ASSUME SessionTypeOK, NEW e \in Engines
  PROVE  BeliefAt(1, e) <=> altgr[e]
<1>1. \A i \in DOMAIN calls : i > 0 /\ ~(i < 1)
  BY DEF SessionTypeOK
<1> QED
  BY <1>1 DEF BeliefAt, EndsBetween

\* If the engine knows the AltGr keys of the layout, every key is read as it was
\* typed: as a chord if an undisturbed AltGr session was on at that moment, and
\* only then, however many calls of however many widgets were waiting before it.
THEOREM EveryKeyReadAsTyped ==
  ASSUME LayoutKnown
  PROVE  SessionSpec => []ReadAsTyped
<1>1. SessionTypeOK /\ ReadingAccounted => ReadAsTyped
  <2> SUFFICES ASSUME SessionTypeOK, ReadingAccounted, calls # <<>>, Head(calls).call = "key"
               PROVE  altgr[Head(calls).engine] <=> Head(calls).steady
    BY DEF ReadAsTyped
  <2>1. 1 \in DOMAIN calls /\ Head(calls) = calls[1] /\ calls[1].engine \in Engines
    BY DEF SessionTypeOK, PendingCalls
  <2> QED
    BY <2>1, BeliefNow DEF ReadingAccounted
<1> QED
  BY <1>1, ReadingInvariant, PTL

\* A user's step takes nothing from the queue.
LEMMA OnlyHandleTakes ==
  ASSUME SessionTypeOK, [SessionNext]_sessionVars, calls # <<>>, calls' = Tail(calls)
  PROVE  handle
<1>1. calls' # calls /\ \A c : calls' # Append(calls, c)
  BY DEF SessionTypeOK
<1>2. ASSUME SessionNext, ~handle
      PROVE  calls' = calls \/ \E c : calls' = Append(calls, c)
  <2>1. PICK name, ev : send(name, ev)
    BY <1>2, UserStep
  <2> QED
    BY <2>1, Sent
<1> QED
  BY <1>1, <1>2 DEF sessionVars, environment

\* What that means to the application, in a session that reports AltGr as plain
\* Alt: with nothing pending, an Alt event without Ctrl and Super is kept from
\* it exactly if the user typed it as an AltGr chord, and is its shortcut
\* otherwise.
THEOREM ChordsToldFromShortcuts ==
  ASSUME LayoutKnown
  PROVE  SessionSpec =>
           [][LET c == Head(calls)
              IN  /\ calls # <<>> /\ calls' = Tail(calls) /\ c.call = "key"
                  /\ "MOD1" \in c.key[3] /\ "MOD5" \notin c.key[3] /\ ~blocked(c.key[3])
                  /\ ~is_altgr_modifier_key(c.key[1])
                  /\ compose[c.engine] = Idle
                  => (event'.handled <=> c.steady)]_sessionVars
<1> DEFINE c == Head(calls)
           AltEvent == /\ calls # <<>> /\ calls' = Tail(calls) /\ c.call = "key"
                       /\ "MOD1" \in c.key[3] /\ "MOD5" \notin c.key[3] /\ ~blocked(c.key[3])
                       /\ ~is_altgr_modifier_key(c.key[1])
                       /\ compose[c.engine] = Idle
           Told == event'.handled <=> c.steady
<1>1. SessionTypeOK /\ WholeSequences /\ ReadAsTyped /\ [SessionNext]_sessionVars
        => [AltEvent => Told]_sessionVars
  <2> SUFFICES ASSUME SessionTypeOK, WholeSequences, ReadAsTyped, [SessionNext]_sessionVars,
                      AltEvent
               PROVE  Told
    OBVIOUS
  <2>1. PICK d \in PendingCalls : Serves(d)
    BY OnlyHandleTakes, HandleStep
  <2>2. /\ d = c /\ c.engine \in Engines /\ c.key \in KeyEvents
        /\ process_key_event(c.engine, c.key)
    BY <2>1 DEF Serves
  <2>3. TypeOK /\ (altgr[c.engine] <=> c.steady)
    BY DEF ReadAsTyped, SessionTypeOK
  <2> HIDE DEF c
  <2>4. CASE c.steady
    <3>1. consume_altgr_chord(altgr[c.engine], c.key[3])
      BY <2>3, <2>4 DEF consume_altgr_chord
    <3> QED
      BY <2>2, <2>3, <2>4, <3>1, IdleChordTaken
  <2>5. CASE ~c.steady
    <3>1. ~level3(c.key[3], altgr[c.engine])
      BY <2>3, <2>5 DEF level3
    <3> QED
      BY <2>2, <2>3, <2>5, <3>1, IdleShortcutLeft
  <2> QED
    BY <2>4, <2>5
<1>2. SessionSpec => []ReadAsTyped
  BY EveryKeyReadAsTyped
<1> QED
  BY <1>1, <1>2, SessionInvariants, PTL DEF SessionSpec

-----------------------------------------------------------------------------
(* Who an accent belongs to.                                               *)

\* A served call leaves the other instances alone; one that is not a key leaves
\* its own idle.
LEMMA ComposeServed ==
  ASSUME SessionTypeOK, WholeSequences, NEW c \in PendingCalls, Serves(c)
  PROVE  /\ \A e \in Engines : e # c.engine => compose'[e] = compose[e] /\ origin'[e] = origin[e]
         /\ c.call # "key" => compose'[c.engine] = Idle
         /\ origin'[c.engine] = IF compose'[c.engine] = Idle THEN NoWidget
                                ELSE IF compose[c.engine] = Idle THEN c.widget
                                ELSE origin[c.engine]
<1>1. /\ \A e \in Engines : e # c.engine => compose'[e] = compose[e]
      /\ c.call # "key" => compose'[c.engine] = Idle
  <2>1. CASE c.call = "key"
    <3>1. process_key_event(c.engine, c.key) /\ c.engine \in Engines /\ c.key \in KeyEvents
      BY <2>1 DEF Serves
    <3>2. compose' = compose \/ \E s : compose' = [compose EXCEPT ![c.engine] = s]
      BY <3>1, KeyStep DEF Rested, Typed, Held, Cancelled, Finished, SessionTypeOK
    <3> QED
      BY <2>1, <3>2 DEF SessionTypeOK, TypeOK
  <2>2. CASE c.call # "key"
    BY <2>2 DEF Serves, abandon, SessionTypeOK, TypeOK
  <2> QED
    BY <2>1, <2>2
<1> QED
  BY <1>1 DEF Serves, SessionTypeOK

LEMMA OriginsStep ==
  ASSUME SessionTypeOK, WholeSequences, OriginsRight, SessionNext
  PROVE  OriginsRight'
<1>1. CASE handle
  <2>1. PICK c \in PendingCalls : Serves(c)
    BY <1>1, HandleStep
  <2>2. c.engine \in Engines /\ c.widget \in Widgets /\ calls # <<>> /\ calls' = Tail(calls)
    BY <2>1 DEF Serves
  <2>3. c.engine = scengine[c.widget]
    BY <2>1, <2>2, Taken DEF Serves, OriginsRight
  <2>4. \A e \in Engines : origin'[e] = NoWidget <=> compose'[e] = Idle
    BY <2>1, <2>2, ComposeServed, SessionAssumption DEF OriginsRight
  <2>5. \A e \in Engines : origin'[e] # NoWidget => scengine[origin'[e]] = e
    BY <2>1, <2>2, <2>3, ComposeServed DEF OriginsRight
  <2>6. \A i \in DOMAIN calls' : calls'[i].engine = scengine[calls'[i].widget]
    BY <2>2, Taken DEF OriginsRight
  <2> QED
    BY <2>4, <2>5, <2>6 DEF OriginsRight
<1>2. CASE ~handle
  <2>1. compose' = compose /\ origin' = origin
    BY <1>2, UserStep DEF vars, observer
  <2>2. PICK name, ev : send(name, ev)
    BY <1>2, UserStep
  <2>3. CASE calls' = calls
    BY <2>1, <2>3 DEF OriginsRight
  <2>4. CASE calls' = Append(calls, Call(focus, name, ev))
    BY <2>1, <2>4, Appended DEF OriginsRight, Call
  <2> QED
    BY <2>2, <2>3, <2>4, Sent
<1> QED
  BY <1>1, <1>2

-----------------------------------------------------------------------------
(* The calls in between.                                                   *)

\* A call that is added takes nothing away.
LEMMA BetweenSent ==
  ASSUME SessionTypeOK, NEW c, calls' = Append(calls, c)
  PROVE  /\ \A i, e : AbandonsAfter(i, e) => AbandonsAfter(i, e)'
         /\ \A i, k, e : AbandonsBetween(i, k, e) => AbandonsBetween(i, k, e)'
         /\ \A i, k, e : k = Len(calls) + 1 /\ AbandonsAfter(i, e) => AbandonsBetween(i, k, e)'
<1>1. /\ DOMAIN calls \subseteq DOMAIN calls'
      /\ \A i \in DOMAIN calls : calls'[i] = calls[i] /\ i < Len(calls) + 1
  BY Appended
<1> QED
  BY <1>1 DEF AbandonsAfter, AbandonsBetween

\* When the oldest call is served, the others move up; it was no abandoning call
\* for e, if it was for another instance or a key.
LEMMA BetweenServed ==
  ASSUME SessionTypeOK, NEW c \in PendingCalls, Serves(c)
  PROVE  /\ \A i \in Nat : \A e : AbandonsAfter(i + 1, e) => AbandonsAfter(i, e)'
         /\ \A i \in Nat, k \in Nat : \A e :
              AbandonsBetween(i + 1, k + 1, e) => AbandonsBetween(i, k, e)'
         /\ \A e : c.engine # e \/ c.call = "key" =>
              /\ AbandonsAfter(0, e) => AbandonsAfter(1, e)
              /\ \A k : AbandonsBetween(0, k, e) => AbandonsBetween(1, k, e)
<1>1. /\ c = calls[1]
      /\ \A i \in DOMAIN calls : i \in Nat /\ i > 0
      /\ \A i \in DOMAIN calls :
           i > 1 => i - 1 \in DOMAIN calls' /\ calls'[i - 1] = calls[i]
  BY Taken DEF Serves
<1>2. ASSUME NEW i \in Nat, NEW e, AbandonsAfter(i + 1, e)
      PROVE  AbandonsAfter(i, e)'
  <2>1. PICK j \in DOMAIN calls : j > i + 1 /\ calls[j].engine = e /\ calls[j].call # "key"
    BY <1>2 DEF AbandonsAfter
  <2>2. j \in Nat /\ j > 1 /\ j - 1 > i
    BY <1>1, <2>1
  <2> QED
    BY <1>1, <2>1, <2>2 DEF AbandonsAfter
<1>3. ASSUME NEW i \in Nat, NEW k \in Nat, NEW e, AbandonsBetween(i + 1, k + 1, e)
      PROVE  AbandonsBetween(i, k, e)'
  <2>1. PICK j \in DOMAIN calls : /\ i + 1 < j /\ j < k + 1
                                  /\ calls[j].engine = e /\ calls[j].call # "key"
    BY <1>3 DEF AbandonsBetween
  <2>2. j \in Nat /\ j > 1 /\ i < j - 1 /\ j - 1 < k
    BY <1>1, <2>1
  <2> QED
    BY <1>1, <2>1, <2>2 DEF AbandonsBetween
<1>4. ASSUME NEW e, c.engine # e \/ c.call = "key"
      PROVE  /\ AbandonsAfter(0, e) => AbandonsAfter(1, e)
             /\ \A k : AbandonsBetween(0, k, e) => AbandonsBetween(1, k, e)
  BY <1>1, <1>4 DEF AbandonsAfter, AbandonsBetween
<1> QED
  BY <1>2, <1>3, <1>4

LEMMA FocusStep ==
  ASSUME SessionTypeOK, WholeSequences, OriginsRight, FocusAccounted, SessionNext
  PROVE  FocusAccounted'
<1> SUFFICES ASSUME NEW e \in Engines
             PROVE  /\ origin'[e] \notin {NoWidget, focus'} => AbandonsAfter(0, e)'
                    /\ \A i \in DOMAIN calls' :
                         /\ calls'[i].call = "key" /\ calls'[i].engine = e
                         /\ calls'[i].widget # focus'
                         => AbandonsAfter(i, e)'
  BY DEF FocusAccounted
<1>1. CASE handle
  <2>1. PICK c \in PendingCalls : Serves(c)
    BY <1>1, HandleStep
  <2>2. /\ c.engine \in Engines /\ c.widget \in Widgets /\ focus' = focus
        /\ calls # <<>> /\ calls' = Tail(calls) /\ c = Head(calls)
    BY <2>1 DEF Serves
  <2>3. ASSUME origin'[e] \notin {NoWidget, focus'}
        PROVE  AbandonsAfter(0, e)'
    <3>1. e # c.engine \/ c.call = "key"
      BY <2>1, <2>3, ComposeServed
    <3>2. origin'[e] = origin[e] \/ (e = c.engine /\ origin'[e] = c.widget)
      BY <2>1, <2>3, ComposeServed
    <3>3. CASE origin'[e] = origin[e]
      BY <2>1, <2>2, <2>3, <3>1, <3>3, BetweenServed DEF FocusAccounted
    <3>4. CASE e = c.engine /\ origin'[e] = c.widget
      <4>1. AbandonsAfter(1, e)
        BY <2>2, <2>3, <3>1, <3>4, Taken DEF FocusAccounted
      <4> QED
        BY <2>1, <4>1, BetweenServed
    <3> QED
      BY <3>2, <3>3, <3>4
  <2>4. ASSUME NEW i \in DOMAIN calls',
               calls'[i].call = "key", calls'[i].engine = e, calls'[i].widget # focus'
        PROVE  AbandonsAfter(i, e)'
    <3>1. i \in Nat /\ i + 1 \in DOMAIN calls /\ calls'[i] = calls[i + 1]
      BY <2>2, Taken
    <3>2. AbandonsAfter(i + 1, e)
      BY <2>2, <2>4, <3>1 DEF FocusAccounted
    <3> QED
      BY <2>1, <3>1, <3>2, BetweenServed
  <2> QED
    BY <2>3, <2>4
<1>2. CASE ~handle
  <2>1. origin' = origin
    BY <1>2, UserStep DEF observer
  <2>2. PICK name, ev : send(name, ev) /\ (focus' = focus \/ name = "focus_out")
    BY <1>2, UserStep
  <2>3. CASE focus = NoWidget /\ calls' = calls
    <3>1. \A i \in DOMAIN calls : calls[i].widget # NoWidget
      BY SessionAssumption DEF SessionTypeOK, PendingCalls
    <3> QED
      BY <2>1, <2>3, <3>1 DEF FocusAccounted, AbandonsAfter
  <2>4. CASE focus \in Widgets /\ calls' = Append(calls, Call(focus, name, ev))
    <3> DEFINE last == Len(calls) + 1
    <3>1. /\ DOMAIN calls' = DOMAIN calls \cup {last}
          /\ \A i \in DOMAIN calls : calls'[i] = calls[i] /\ i < last
          /\ last > 0
          /\ calls'[last].engine = scengine[focus] /\ calls'[last].widget = focus
          /\ calls'[last].call = name
      BY <2>4, Appended DEF Call
    <3>2. \A i : AbandonsAfter(i, e) => AbandonsAfter(i, e)'
      BY <2>4, BetweenSent
    <3>3. ASSUME name = "focus_out", e = scengine[focus], NEW i, i < last
          PROVE  AbandonsAfter(i, e)'
      BY <3>1, <3>3 DEF AbandonsAfter
    <3>4. ASSUME origin'[e] \notin {NoWidget, focus'}
          PROVE  AbandonsAfter(0, e)'
      BY <2>1, <2>2, <3>1, <3>2, <3>3, <3>4 DEF FocusAccounted, OriginsRight
    <3>5. ASSUME NEW i \in DOMAIN calls',
                 calls'[i].call = "key", calls'[i].engine = e, calls'[i].widget # focus'
          PROVE  AbandonsAfter(i, e)'
      <4>1. i # last
        BY <2>2, <3>1, <3>5
      <4>2. CASE calls[i].widget # focus
        BY <3>1, <3>2, <3>5, <4>1, <4>2 DEF FocusAccounted
      <4>3. CASE calls[i].widget = focus
        BY <2>2, <3>1, <3>3, <3>5, <4>1, <4>3 DEF OriginsRight
      <4> QED
        BY <4>2, <4>3
    <3> QED
      BY <3>4, <3>5
  <2> QED
    BY <2>2, <2>3, <2>4, Sent
<1> QED
  BY <1>1, <1>2

LEMMA ApartStep ==
  ASSUME SessionTypeOK, WholeSequences, FocusAccounted, WidgetsApart, SessionNext
  PROVE  WidgetsApart'
<1> SUFFICES ASSUME NEW e \in Engines, NEW k \in DOMAIN calls',
                    calls'[k].call = "key", calls'[k].engine = e
             PROVE  /\ origin'[e] \notin {NoWidget, calls'[k].widget} =>
                         AbandonsBetween(0, k, e)'
                    /\ \A i \in DOMAIN calls' :
                         /\ i < k /\ calls'[i].call = "key" /\ calls'[i].engine = e
                         /\ calls'[i].widget # calls'[k].widget
                         => AbandonsBetween(i, k, e)'
  BY DEF WidgetsApart
<1>1. CASE handle
  <2>1. PICK c \in PendingCalls : Serves(c)
    BY <1>1, HandleStep
  <2>2. /\ 1 \in DOMAIN calls /\ c = calls[1]
        /\ \A i \in DOMAIN calls' :
             i \in Nat /\ i > 0 /\ i + 1 \in DOMAIN calls /\ calls'[i] = calls[i + 1]
    BY <2>1, Taken DEF Serves
  <2>3. ASSUME origin'[e] \notin {NoWidget, calls'[k].widget}
        PROVE  AbandonsBetween(0, k, e)'
    <3>1. e # c.engine \/ c.call = "key"
      BY <2>1, <2>3, ComposeServed
    <3>2. origin'[e] = origin[e] \/ (e = c.engine /\ origin'[e] = c.widget)
      BY <2>1, <2>3, ComposeServed
    <3>3. CASE origin'[e] = origin[e]
      <4>1. AbandonsBetween(0, k + 1, e)
        BY <2>2, <2>3, <3>3 DEF WidgetsApart
      <4> QED
        BY <2>1, <2>2, <3>1, <4>1, BetweenServed
    <3>4. CASE e = c.engine /\ origin'[e] = c.widget
      <4>1. AbandonsBetween(1, k + 1, e)
        BY <2>2, <2>3, <3>1, <3>4 DEF WidgetsApart
      <4> QED
        BY <2>1, <2>2, <4>1, BetweenServed
    <3> QED
      BY <3>2, <3>3, <3>4
  <2>4. ASSUME NEW i \in DOMAIN calls', i < k, calls'[i].call = "key",
               calls'[i].engine = e, calls'[i].widget # calls'[k].widget
        PROVE  AbandonsBetween(i, k, e)'
    <3>1. AbandonsBetween(i + 1, k + 1, e)
      BY <2>2, <2>4 DEF WidgetsApart
    <3> QED
      BY <2>1, <2>2, <3>1, BetweenServed
  <2> QED
    BY <2>3, <2>4
<1>2. CASE ~handle
  <2>1. origin' = origin
    BY <1>2, UserStep DEF observer
  <2>2. PICK name, ev : send(name, ev)
    BY <1>2, UserStep
  <2>3. CASE calls' = calls
    BY <2>1, <2>3 DEF WidgetsApart, AbandonsBetween
  <2>4. CASE focus \in Widgets /\ calls' = Append(calls, Call(focus, name, ev))
    <3> DEFINE last == Len(calls) + 1
    <3>1. /\ DOMAIN calls' = DOMAIN calls \cup {last}
          /\ \A i \in DOMAIN calls : calls'[i] = calls[i] /\ i < last
          /\ calls'[last].widget = focus
          /\ \A i \in DOMAIN calls' : i \in Nat
      BY <2>4, Appended DEF Call
    <3>2. /\ \A i, m : AbandonsBetween(i, m, e) => AbandonsBetween(i, m, e)'
          /\ \A i, m : m = last /\ AbandonsAfter(i, e) => AbandonsBetween(i, m, e)'
      BY <2>4, BetweenSent
    <3>3. CASE k \in DOMAIN calls
      BY <2>1, <3>1, <3>2, <3>3 DEF WidgetsApart
    <3>4. CASE k = last
      BY <2>1, <3>1, <3>2, <3>4 DEF FocusAccounted
    <3> QED
      BY <3>1, <3>3, <3>4
  <2> QED
    BY <2>2, <2>3, <2>4, Sent
<1> QED
  BY <1>1, <1>2

-----------------------------------------------------------------------------
(* The product's promise, widget by widget.                                *)

\* A key is only ever served while its instance holds nothing of another widget.
LEMMA ServedForItsWidget ==
  ASSUME SessionTypeOK, OriginsRight, WidgetsApart,
         NEW c \in PendingCalls, Serves(c), c.call = "key"
  PROVE  /\ c.engine = scengine[c.widget]
         /\ origin[c.engine] \in {NoWidget, c.widget}
<1>1. /\ 1 \in DOMAIN calls /\ c = calls[1]
      /\ \A i \in DOMAIN calls : i \in Nat /\ i > 0
  BY Taken DEF Serves
<1>2. c.engine \in Engines
  BY DEF Serves
<1>3. ~AbandonsBetween(0, 1, c.engine)
  BY <1>1 DEF AbandonsBetween
<1> QED
  BY <1>1, <1>2, <1>3 DEF OriginsRight, WidgetsApart

\* A key that is served maps to one step of the promise in its widget.
LEMMA WidgetKey ==
  ASSUME SessionTypeOK, WholeSequences, OriginsRight, OriginsRight', WidgetsApart,
         NEW c \in PendingCalls, Serves(c), c.call = "key"
  PROVE  WidgetPromise!Next
<1> DEFINE w == c.widget
           e == c.engine
           h == [x \in Widgets |-> HeldIn(x)]
           t == [x \in Widgets |-> TextIn(x)]
<1>1. /\ w \in Widgets /\ e \in Engines /\ e = scengine[w] /\ origin[e] \in {NoWidget, w}
      /\ c.key \in KeyEvents /\ process_key_event(e, c.key) /\ client' = w
  BY ServedForItsWidget DEF Serves
<1>2. /\ \A x \in Engines : x # e => compose'[x] = compose[x] /\ origin'[x] = origin[x]
      /\ origin'[e] \in {NoWidget, w}
  BY <1>1, ComposeServed
<1>3. /\ \A x \in Widgets : x # w => HeldIn(x)' = HeldIn(x)
      /\ HeldIn(w) = compose[e].pending_literal
      /\ \A x : x = w => HeldIn(x)' = compose'[e].pending_literal
  <2>1. /\ scengine \in [Widgets -> Engines] /\ NoWidget \notin Widgets
        /\ Idle.pending_literal = 0
    BY SessionAssumption DEF Idle
  <2>2. ASSUME NEW x \in Widgets, x # w
        PROVE  HeldIn(x)' = HeldIn(x)
    BY <1>1, <1>2, <2>1, <2>2 DEF HeldIn
  <2>3. HeldIn(w) = compose[e].pending_literal
    BY <1>1, <2>1 DEF HeldIn, OriginsRight
  <2>4. ASSUME NEW x, x = w
        PROVE  HeldIn(x)' = compose'[e].pending_literal
    BY <1>1, <1>2, <2>1, <2>4 DEF HeldIn, OriginsRight
  <2> QED
    BY <2>2, <2>3, <2>4
<1>4. /\ h \in [Widgets -> {HeldIn(x) : x \in Widgets}] /\ h[w] = compose[e].pending_literal
      /\ h' = [h EXCEPT ![w] = compose'[e].pending_literal]
  BY <1>1, <1>3
<1>5. /\ t' = [x \in Widgets |-> IF x = w THEN event'.text ELSE <<>>]
      /\ t'[w] = event'.text
  BY <1>1 DEF TextIn
<1>6. ASSUME NEW s, compose' = [compose EXCEPT ![e] = s]
      PROVE  h' = [h EXCEPT ![w] = s.pending_literal]
  BY <1>1, <1>4, <1>6 DEF SessionTypeOK, TypeOK
<1>7. Idle.pending_literal = 0
  BY DEF Idle
<1> HIDE DEF w, e, h, t
<1>8. CASE Rested(e, c.key)
  <2>1. h' = h
    BY <1>4, <1>8 DEF Rested
  <2>2. WidgetPromise!Rest(w)
    BY <1>5, <1>8, <2>1 DEF h, t, Rested, WidgetPromise!Rest, WidgetPromise!OnlyIn
  <2> QED
    BY <1>1, <2>2 DEF WidgetPromise!Next
<1>9. CASE Typed(e, c.key)
  <2>1. h[w] = 0 /\ h' = h
    BY <1>4, <1>7, <1>9 DEF Typed
  <2>2. Len(t'[w]) = 1
    BY <1>5, <1>9 DEF Typed
  <2>3. WidgetPromise!Symbol(w)
    BY <1>5, <2>1, <2>2
    DEF h, t, WidgetPromise!Symbol, WidgetPromise!OnlyIn, WidgetPromise!Nothing
  <2> QED
    BY <1>1, <2>3 DEF WidgetPromise!Next
<1>10. CASE Held(e, c.key)
  <2>1. PICK a \in PendingAccents : compose' = [compose EXCEPT ![e] = Holding(a)]
    BY <1>10 DEF Held
  <2>2. h[w] = 0 /\ h' = [h EXCEPT ![w] = accent_literal[a]]
    <3>1. h[w] = 0
      BY <1>4, <1>7, <1>10 DEF Held
    <3>2. h' = [h EXCEPT ![w] = Holding(a).pending_literal]
      BY <1>6, <2>1
    <3> QED
      BY <3>1, <3>2, AccentFacts
  <2>3. WidgetPromise!Hold(w, accent_literal[a])
    BY <1>5, <1>10, <2>2
    DEF h, t, Held, WidgetPromise!Hold, WidgetPromise!OnlyIn, WidgetPromise!Nothing
  <2> QED
    BY <1>1, <2>3 DEF WidgetPromise!Next, Literals
<1>11. CASE Cancelled(e, c.key)
  <2>1. PICK a \in PendingAccents : compose[e] = Holding(a)
    BY <1>1, <1>11 DEF Cancelled, WholeSequences, ComposeStates
  <2>2. h[w] # 0 /\ h' = [h EXCEPT ![w] = 0]
    <3>1. h[w] # 0
      BY <1>4, <2>1, AccentFacts
    <3>2. h' = [h EXCEPT ![w] = Idle.pending_literal]
      BY <1>6, <1>11 DEF Cancelled
    <3> QED
      BY <1>7, <3>1, <3>2
  <2>3. WidgetPromise!Abandon(w)
    BY <1>5, <1>11, <2>2
    DEF h, t, Cancelled, WidgetPromise!Abandon, WidgetPromise!OnlyIn, WidgetPromise!Nothing
  <2> QED
    BY <1>1, <2>3 DEF WidgetPromise!Next
<1>12. CASE Finished(e, c.key)
  <2>1. PICK a \in PendingAccents : /\ compose[e] = Holding(a)
                                    /\ Spelled(accent_literal[a], event'.text)
    BY <1>12 DEF Finished
  <2>2. h[w] = accent_literal[a] /\ h[w] # 0 /\ h' = [h EXCEPT ![w] = 0]
    <3>1. h[w] = accent_literal[a] /\ h[w] # 0
      BY <1>4, <2>1, AccentFacts
    <3>2. h' = [h EXCEPT ![w] = Idle.pending_literal]
      BY <1>6, <1>12 DEF Finished
    <3> QED
      BY <1>7, <3>1, <3>2
  <2>3. WidgetPromise!SpelledFrom(h[w], t'[w])
    BY <1>5, <2>1, <2>2 DEF Spelled, WidgetPromise!SpelledFrom
  <2>4. WidgetPromise!Finish(w)
    BY <1>5, <2>2, <2>3
    DEF h, t, WidgetPromise!Finish, WidgetPromise!OnlyIn, WidgetPromise!Nothing
  <2> QED
    BY <1>1, <2>4 DEF WidgetPromise!Next
<1> QED
  BY <1>1, <1>8, <1>9, <1>10, <1>11, <1>12, KeyStep DEF SessionTypeOK

\* Any other call abandons the accent of the widget it belongs to, which need not
\* be the widget that called, or finds none.
LEMMA WidgetInterrupted ==
  ASSUME SessionTypeOK, WholeSequences, OriginsRight,
         NEW c \in PendingCalls, Serves(c), c.call # "key"
  PROVE  WidgetPromise!Next
<1> DEFINE e == c.engine
           o == origin[e]
           h == [x \in Widgets |-> HeldIn(x)]
           t == [x \in Widgets |-> TextIn(x)]
<1>1. e \in Engines /\ c.widget \in Widgets /\ event'.text = <<>>
  BY DEF Serves, abandon, Called
<1>2. /\ \A x \in Engines : x # e => compose'[x] = compose[x] /\ origin'[x] = origin[x]
      /\ compose'[e] = Idle /\ origin'[e] = NoWidget
  BY <1>1, ComposeServed
<1>3. t' = [x \in Widgets |-> <<>>]
  BY <1>1 DEF TextIn
<1>4. \A x \in Widgets : x # o => HeldIn(x)' = HeldIn(x)
  <2>1. scengine \in [Widgets -> Engines] /\ NoWidget \notin Widgets
    BY SessionAssumption
  <2> SUFFICES ASSUME NEW x \in Widgets, x # o
               PROVE  HeldIn(x)' = HeldIn(x)
    OBVIOUS
  <2> QED
    BY <1>2, <2>1 DEF HeldIn
<1>5. CASE o = NoWidget
  <2>1. h' = h
    BY <1>4, <1>5, SessionAssumption
  <2>2. WidgetPromise!Rest(c.widget)
    BY <1>3, <2>1 DEF WidgetPromise!Rest, WidgetPromise!OnlyIn
  <2> QED
    BY <1>1, <2>2 DEF WidgetPromise!Next
<1>6. ASSUME NEW w \in Widgets, o = w
      PROVE  WidgetPromise!Next
  <2>1. scengine[w] = e /\ compose[e] # Idle /\ w # NoWidget
    BY <1>1, <1>6, SessionAssumption DEF OriginsRight
  <2>2. PICK a \in PendingAccents : compose[e] = Holding(a)
    BY <1>1, <2>1 DEF WholeSequences, ComposeStates
  <2>3. HeldIn(w) # 0
    BY <1>6, <2>1, <2>2, AccentFacts DEF HeldIn
  <2>4. HeldIn(w)' = 0
    BY <1>2, <2>1 DEF HeldIn
  <2>5. h[w] # 0 /\ h' = [h EXCEPT ![w] = 0]
    BY <1>4, <1>6, <2>3, <2>4
  <2>6. WidgetPromise!Abandon(w)
    BY <1>3, <2>5
    DEF WidgetPromise!Abandon, WidgetPromise!OnlyIn, WidgetPromise!Nothing
  <2> QED
    BY <2>6 DEF WidgetPromise!Next
<1> QED
  BY <1>1, <1>5, <1>6 DEF SessionTypeOK

LEMMA WidgetInvariants ==
  SessionSpec => [](SessionTypeOK /\ WholeSequences /\ OriginsRight /\ FocusAccounted
                    /\ WidgetsApart)
<1> DEFINE IInv == OriginsRight /\ FocusAccounted /\ WidgetsApart
<1>1. SessionInit => IInv
  BY DEF SessionInit, OriginsRight, FocusAccounted, WidgetsApart
<1>2. SessionTypeOK /\ WholeSequences /\ IInv /\ [SessionNext]_sessionVars => IInv'
  <2> SUFFICES ASSUME SessionTypeOK, WholeSequences, IInv, [SessionNext]_sessionVars
               PROVE  IInv'
    OBVIOUS
  <2>1. CASE SessionNext
    BY <2>1, OriginsStep, FocusStep, ApartStep
  <2>2. CASE UNCHANGED sessionVars
    BY <2>2 DEF sessionVars, vars, environment, observer, OriginsRight, FocusAccounted,
                WidgetsApart, AbandonsAfter, AbandonsBetween
  <2> QED
    BY <2>1, <2>2
<1> QED
  BY <1>1, <1>2, SessionInvariants, PTL DEF SessionSpec

\* Every widget gets what the product promises, though widgets share instances
\* and calls arrive late: no accent completes in another widget than its own.
THEOREM WidgetRefinement == SessionSpec => EveryWidgetKeepsThePromise
<1>1. SessionInit => WidgetPromise!Init
  <2> SUFFICES ASSUME SessionInit PROVE WidgetPromise!Init
    OBVIOUS
  <2>1. \A w \in Widgets : HeldIn(w) = 0 /\ TextIn(w) = <<>>
    BY SessionAssumption DEF SessionInit, HeldIn, TextIn
  <2> QED
    BY <2>1 DEF WidgetPromise!Init, WidgetPromise!Nothing
<1>2. /\ SessionTypeOK /\ WholeSequences /\ OriginsRight /\ FocusAccounted /\ WidgetsApart
      /\ OriginsRight' /\ [SessionNext]_sessionVars
      => [WidgetPromise!Next]_(WidgetPromise!vars)
  <2> SUFFICES ASSUME SessionTypeOK, WholeSequences, OriginsRight, WidgetsApart,
                      OriginsRight', [SessionNext]_sessionVars
               PROVE  WidgetPromise!Next \/ UNCHANGED WidgetPromise!vars
    OBVIOUS
  <2>1. CASE handle
    <3>1. PICK c \in PendingCalls : Serves(c)
      BY <2>1, HandleStep
    <3> QED
      BY <3>1, WidgetKey, WidgetInterrupted
  <2>2. ASSUME UNCHANGED <<compose, event, origin, client>>
        PROVE  UNCHANGED WidgetPromise!vars
    BY <2>2 DEF WidgetPromise!vars, HeldIn, TextIn
  <2>3. CASE SessionNext /\ ~handle
    BY <2>2, <2>3, UserStep DEF vars, observer
  <2>4. CASE UNCHANGED sessionVars
    BY <2>2, <2>4 DEF sessionVars, vars, observer
  <2> QED
    BY <2>1, <2>3, <2>4
<1> QED
  BY <1>1, <1>2, WidgetInvariants, PTL DEF SessionSpec, EveryWidgetKeepsThePromise,
     WidgetPromise!Spec

-----------------------------------------------------------------------------
(* What was left behind.                                                   *)

\* An instance that has seen all its calls holds nothing that was left behind.
LEMMA CaughtUp ==
  ASSUME SessionTypeOK, OriginsRight, FocusAccounted, AltGrAccounted, calls = <<>>,
         NEW e \in Engines
  PROVE  ~LeftBehind(e)
BY DEF OriginsRight, FocusAccounted, AltGrAccounted, AbandonsAfter, EndsAfter, LeftBehind

\* engine.c:10-11, 486-528: an engine that catches up with its calls again and
\* again, however many wait in between, leaves nothing behind.
THEOREM CatchingUpIsEnough ==
  ASSUME LayoutKnown
  PROVE  SessionSpec /\ []<>(calls = <<>>) => NothingStaysBehind
<1>1. ASSUME NEW e \in Engines
      PROVE  SessionSpec /\ []<>(calls = <<>>) => (LeftBehind(e) ~> ~LeftBehind(e))
  <2>1. SessionTypeOK /\ OriginsRight /\ FocusAccounted /\ AltGrAccounted /\ calls = <<>>
          => ~LeftBehind(e)
    BY CaughtUp
  <2> QED
    BY <2>1, AltGrInvariant, WidgetInvariants, PTL
<1>2. SessionSpec /\ []<>(calls = <<>>) => \A e \in Engines : (LeftBehind(e) ~> ~LeftBehind(e))
  BY <1>1
<1> QED
  BY <1>2 DEF NothingStaysBehind

\* A call among the first i abandons what e holds, or ends its AltGr session.
AbandonedBy(i, e) ==
  /\ LeftBehind(e)
  /\ \E j \in DOMAIN calls : j <= i /\ calls[j].engine = e /\ calls[j].call # "key"

EndedBy(i, e) ==
  /\ LeftBehind(e)
  /\ \E j \in DOMAIN calls : j <= i /\ calls[j].engine = e /\ EndsAltGr(calls[j])

AllAccounted ==
  /\ SessionTypeOK /\ OriginsRight /\ FocusAccounted /\ AltGrAccounted
  /\ Len(calls) <= MaxCalls

LEMMA AccountedInvariant ==
  ASSUME LayoutKnown
  PROVE  SessionSpec => []AllAccounted
<1>1. SessionInit => Len(calls) <= MaxCalls
  BY SessionAssumption DEF SessionInit
<1>2. SessionTypeOK /\ Len(calls) <= MaxCalls /\ [SessionNext]_sessionVars
        => (Len(calls) <= MaxCalls)'
  <2> SUFFICES ASSUME SessionTypeOK, Len(calls) <= MaxCalls, [SessionNext]_sessionVars
               PROVE  Len(calls') <= MaxCalls
    OBVIOUS
  <2>1. CASE handle
    BY <2>1, SessionAssumption DEF handle, SessionTypeOK
  <2>2. CASE SessionNext /\ ~handle
    <3>1. PICK name, ev : send(name, ev)
      BY <2>2, UserStep
    <3> QED
      BY <3>1, SessionAssumption DEF send, SessionTypeOK
  <2>3. CASE UNCHANGED sessionVars
    BY <2>3 DEF sessionVars, environment
  <2> QED
    BY <2>1, <2>2, <2>3
<1> QED
  BY <1>1, <1>2, AltGrInvariant, WidgetInvariants, PTL DEF SessionSpec, AllAccounted

\* Whatever was left behind has a call that is to clear it.
LEMMA LeftBehindAccounted ==
  ASSUME AllAccounted, NEW e \in Engines, LeftBehind(e)
  PROVE  AbandonedBy(MaxCalls, e) \/ EndedBy(MaxCalls, e)
<1>1. \A j \in DOMAIN calls : j <= MaxCalls
  BY SessionAssumption DEF AllAccounted, SessionTypeOK
<1>2. CASE compose[e] # Idle /\ origin[e] # focus
  BY <1>1, <1>2
  DEF AllAccounted, OriginsRight, FocusAccounted, AbandonsAfter, AbandonedBy
<1>3. CASE altgr[e] /\ ~AltGrHeld(e)
  BY <1>1, <1>3 DEF AllAccounted, AltGrAccounted, EndsAfter, EndedBy
<1> QED
  BY <1>2, <1>3 DEF LeftBehind

\* The calls that wait stay in their order, and the user adds to their end.
LEMMA QueueKept ==
  ASSUME SessionTypeOK, SessionNext, ~handle
  PROVE  \A j \in DOMAIN calls : j \in DOMAIN calls' /\ calls'[j] = calls[j]
<1>1. PICK name, ev : send(name, ev)
  BY UserStep
<1> QED
  BY <1>1, Sent, Appended

\* Serving the oldest call brings the clearing call to the front, or clears.
LEMMA AbandonServed ==
  ASSUME AllAccounted, NEW e \in Engines, NEW i \in Nat, AbandonedBy(i + 1, e), handle,
         LeftBehind(e)'
  PROVE  AbandonedBy(i, e)'
<1>1. PICK c \in PendingCalls : Serves(c)
  BY HandleStep DEF AllAccounted
<1>2. PICK j \in DOMAIN calls : j <= i + 1 /\ calls[j].engine = e /\ calls[j].call # "key"
  BY DEF AbandonedBy
<1>3. /\ 1 \in DOMAIN calls /\ Head(calls) = calls[1] /\ j \in Nat /\ j > 0
      /\ j > 1 => j - 1 \in DOMAIN calls' /\ calls'[j - 1] = calls[j]
  BY <1>1, <1>2, Taken DEF Serves, AllAccounted
<1>4. CASE j = 1
  <2>1. e = c.engine /\ c.call # "key"
    BY <1>1, <1>2, <1>3, <1>4 DEF Serves
  <2>2. compose'[e] = Idle /\ ~altgr'[e]
    BY <1>1, <2>1 DEF Serves, abandon, AllAccounted, SessionTypeOK, TypeOK
  <2> QED
    BY <2>2 DEF LeftBehind
<1>5. CASE j > 1
  BY <1>2, <1>3, <1>5 DEF AbandonedBy
<1> QED
  BY <1>3, <1>4, <1>5

LEMMA EndServed ==
  ASSUME AllAccounted, AllAccounted', NEW e \in Engines, NEW i \in Nat,
         EndedBy(i + 1, e), handle, LeftBehind(e)'
  PROVE  EndedBy(i, e)' \/ AbandonedBy(MaxCalls, e)'
<1>1. PICK c \in PendingCalls : Serves(c)
  BY HandleStep DEF AllAccounted
<1>2. PICK j \in DOMAIN calls : j <= i + 1 /\ calls[j].engine = e /\ EndsAltGr(calls[j])
  BY DEF EndedBy
<1>3. /\ 1 \in DOMAIN calls /\ Head(calls) = calls[1] /\ j \in Nat /\ j > 0
      /\ j > 1 => j - 1 \in DOMAIN calls' /\ calls'[j - 1] = calls[j]
  BY <1>1, <1>2, Taken DEF Serves, AllAccounted
<1>4. CASE j = 1
  <2>1. e = c.engine /\ EndsAltGr(c)
    BY <1>1, <1>2, <1>3, <1>4 DEF Serves
  <2>2. ~altgr'[e]
    BY <1>1, <2>1, AltGrServed DEF AllAccounted, StartsAltGr, EndsAltGr
  <2>3. compose'[e] # Idle /\ origin'[e] # focus'
    BY <2>2 DEF LeftBehind
  <2>4. \A k \in DOMAIN calls' : k <= MaxCalls
    BY SessionAssumption DEF AllAccounted, SessionTypeOK
  <2> QED
    BY <2>3, <2>4 DEF AllAccounted, OriginsRight, FocusAccounted, AbandonsAfter, AbandonedBy
<1>5. CASE j > 1
  BY <1>2, <1>3, <1>5 DEF EndedBy, EndsAltGr
<1> QED
  BY <1>3, <1>4, <1>5

\* The call that clears e, the n-th or an earlier one, stays where it is until the
\* engine serves a call, and is then the m-th or an earlier one.
AbandonRule(m, n, e) ==
  /\ AllAccounted /\ AllAccounted' /\ AbandonedBy(n, e) /\ [SessionNext]_sessionVars
       => AbandonedBy(n, e)' \/ ~LeftBehind(e)'
  /\ AllAccounted /\ AllAccounted' /\ AbandonedBy(n, e) /\ <<handle>>_sessionVars
       => AbandonedBy(m, e)' \/ ~LeftBehind(e)'

EndRule(m, n, e) ==
  /\ AllAccounted /\ AllAccounted' /\ EndedBy(n, e) /\ [SessionNext]_sessionVars
       => EndedBy(n, e)' \/ AbandonedBy(MaxCalls, e)' \/ ~LeftBehind(e)'
  /\ AllAccounted /\ AllAccounted' /\ EndedBy(n, e) /\ <<handle>>_sessionVars
       => EndedBy(m, e)' \/ AbandonedBy(MaxCalls, e)' \/ ~LeftBehind(e)'

\* Nothing but serving a call moves the calls that wait.
LEMMA WaitingCalls ==
  ASSUME SessionTypeOK, [SessionNext]_sessionVars, ~handle
  PROVE  \A j \in DOMAIN calls : j \in DOMAIN calls' /\ calls'[j] = calls[j]
<1>1. CASE SessionNext
  BY <1>1, QueueKept
<1>2. CASE UNCHANGED sessionVars
  BY <1>2 DEF sessionVars, environment
<1> QED
  BY <1>1, <1>2

LEMMA AbandonMoves ==
  ASSUME NEW m \in Nat, NEW e \in Engines
  PROVE  AbandonRule(m, m + 1, e)
<1>1. ASSUME AllAccounted, AllAccounted', AbandonedBy(m + 1, e), handle, LeftBehind(e)'
      PROVE  AbandonedBy(m, e)' /\ AbandonedBy(m + 1, e)'
  <2>1. AbandonedBy(m, e)'
    BY <1>1, AbandonServed
  <2>2. \A j \in DOMAIN calls' : j <= m => j <= m + 1
    BY <1>1 DEF AllAccounted, SessionTypeOK
  <2> QED
    BY <2>1, <2>2 DEF AbandonedBy
<1>2. ASSUME AllAccounted, AbandonedBy(m + 1, e), [SessionNext]_sessionVars, ~handle,
             LeftBehind(e)'
      PROVE  AbandonedBy(m + 1, e)'
  BY <1>2, WaitingCalls DEF AllAccounted, AbandonedBy
<1> QED
  BY <1>1, <1>2 DEF AbandonRule

LEMMA EndMoves ==
  ASSUME NEW m \in Nat, NEW e \in Engines
  PROVE  EndRule(m, m + 1, e)
<1>1. ASSUME AllAccounted, AllAccounted', EndedBy(m + 1, e), handle, LeftBehind(e)'
      PROVE  \/ EndedBy(m, e)' /\ EndedBy(m + 1, e)'
             \/ AbandonedBy(MaxCalls, e)'
  <2>1. EndedBy(m, e)' \/ AbandonedBy(MaxCalls, e)'
    BY <1>1, EndServed
  <2>2. \A j \in DOMAIN calls' : j <= m => j <= m + 1
    BY <1>1 DEF AllAccounted, SessionTypeOK
  <2> QED
    BY <2>1, <2>2 DEF EndedBy
<1>2. ASSUME AllAccounted, EndedBy(m + 1, e), [SessionNext]_sessionVars, ~handle,
             LeftBehind(e)'
      PROVE  EndedBy(m + 1, e)'
  BY <1>2, WaitingCalls DEF AllAccounted, EndedBy, EndsAltGr
<1> QED
  BY <1>1, <1>2 DEF EndRule

\* The clearing call is a call that waits, and not the zeroth.
LEMMA ClearingCallWaits ==
  ASSUME NEW n \in Nat, NEW e \in Engines, AllAccounted
  PROVE  /\ AbandonedBy(n, e) \/ EndedBy(n, e) => calls # <<>>
         /\ ~AbandonedBy(0, e) /\ ~EndedBy(0, e)
<1>1. \A j \in DOMAIN calls : j > 0 /\ calls # <<>>
  BY DEF AllAccounted, SessionTypeOK
<1> QED
  BY <1>1 DEF AbandonedBy, EndedBy

\* engine.c:10-11, 486-528: an engine that keeps serving calls leaves nothing
\* behind, though its queue may never be empty again.  <<>> is where a call can be
\* served, so the hypothesis is weak fairness of the main loop.  The proof counts
\* the calls before the one that clears, which takes an induction on the length
\* of the queue; it is spelled out here for queues of up to six calls.
THEOREM ServingIsEnough ==
  ASSUME LayoutKnown, MaxCalls <= 6
  PROVE  SessionSpec /\ ([]<>(calls = <<>>) \/ []<><<handle>>_sessionVars)
           => NothingStaysBehind
<1>1. ASSUME NEW e \in Engines
      PROVE  SessionSpec /\ ([]<>(calls = <<>>) \/ []<><<handle>>_sessionVars)
               => (LeftBehind(e) ~> ~LeftBehind(e))
  <2>1. /\ AbandonRule(0, 1, e) /\ AbandonRule(1, 2, e) /\ AbandonRule(2, 3, e)
        /\ AbandonRule(3, 4, e) /\ AbandonRule(4, 5, e) /\ AbandonRule(5, 6, e)
    <3>1. 1 = 0 + 1 /\ 2 = 1 + 1 /\ 3 = 2 + 1 /\ 4 = 3 + 1 /\ 5 = 4 + 1 /\ 6 = 5 + 1
      OBVIOUS
    <3> QED
      BY <3>1, AbandonMoves
  <2>2. /\ EndRule(0, 1, e) /\ EndRule(1, 2, e) /\ EndRule(2, 3, e)
        /\ EndRule(3, 4, e) /\ EndRule(4, 5, e) /\ EndRule(5, 6, e)
    <3>1. 1 = 0 + 1 /\ 2 = 1 + 1 /\ 3 = 2 + 1 /\ 4 = 3 + 1 /\ 5 = 4 + 1 /\ 6 = 5 + 1
      OBVIOUS
    <3> QED
      BY <3>1, EndMoves
  <2>3. /\ AllAccounted /\ AbandonedBy(MaxCalls, e) => AbandonedBy(6, e)
        /\ AllAccounted /\ EndedBy(MaxCalls, e) => EndedBy(6, e)
    BY SessionAssumption DEF AllAccounted, SessionTypeOK, AbandonedBy, EndedBy
  <2>4. AllAccounted /\ LeftBehind(e) => AbandonedBy(MaxCalls, e) \/ EndedBy(MaxCalls, e)
    BY LeftBehindAccounted
  <2>5. AllAccounted => ~AbandonedBy(0, e) /\ ~EndedBy(0, e)
    BY ClearingCallWaits
  <2>6. AllAccounted /\ calls = <<>> => ~LeftBehind(e)
    BY CaughtUp DEF AllAccounted
  <2>7. SessionSpec => [][SessionNext]_sessionVars
    BY DEF SessionSpec
  <2>8. SessionSpec /\ ([]<>(calls = <<>>) \/ []<><<handle>>_sessionVars)
          => (AbandonedBy(MaxCalls, e) ~> ~LeftBehind(e))
    BY <2>1, <2>3, <2>5, <2>6, <2>7, AccountedInvariant, PTL DEF AbandonRule
  <2>9. SessionSpec /\ ([]<>(calls = <<>>) \/ []<><<handle>>_sessionVars)
          => (EndedBy(MaxCalls, e) ~> ~LeftBehind(e) \/ AbandonedBy(MaxCalls, e))
    BY <2>2, <2>3, <2>5, <2>6, <2>7, AccountedInvariant, PTL DEF EndRule
  <2> QED
    BY <2>4, <2>8, <2>9, AccountedInvariant, PTL
<1>2. SessionSpec /\ ([]<>(calls = <<>>) \/ []<><<handle>>_sessionVars)
        => \A e \in Engines : (LeftBehind(e) ~> ~LeftBehind(e))
  BY <1>1
<1> QED
  BY <1>2 DEF NothingStaysBehind
=============================================================================
