------------------------------ MODULE Session ------------------------------
(***************************************************************************)
(* The engine process in a desktop session: a keyboard with AltGr keys,    *)
(* widgets of which one may have the focus, and ibus-daemon, which queues  *)
(* calls for the engine in the order things happen.  Several widgets of    *)
(* one client may share an engine instance.  By the time the engine        *)
(* handles a call, keys and focus may have moved on.                       *)
(*                                                                         *)
(* The keyboard, the widgets and the daemon are not in the repository.     *)
(* They are modelled from the calls engine.c serves, and from the order    *)
(* in which its comments expect them.                                      *)
(***************************************************************************)
EXTENDS Engine

CONSTANTS
  Widgets,      \* places where text is entered
  NoWidget,     \* the focus when it is on none of them
  scengine,     \* the engine instance that serves each widget
  Level3Keys,   \* the AltGr keys of the keyboard
  keysyms,      \* the keysyms the layout gives each of them, on any level
  LevelBits,    \* what a held AltGr key adds to the state of an event
  Strokes,      \* what the other keys send when no AltGr key is held
  MaxCalls      \* bound on the calls that wait for the engine

\* An event of an AltGr key; the engine does not read its keycode.
AltGrEvent(keysym, state) == <<keysym, 0, state>>

ASSUME SessionAssumption ==
  /\ NoWidget \notin Widgets
  /\ scengine \in [Widgets -> Engines]
  /\ keysyms \in [Level3Keys -> SUBSET Nat]
  /\ LevelBits \in SUBSET {"MOD1", "MOD5"}
  /\ MaxCalls \in Nat
  /\ \A s \in Strokes, bits \in {{}, LevelBits} : <<s[1], s[2], s[3] \cup bits>> \in KeyEvents
  /\ \A k \in Level3Keys, state \in {{}, {"RELEASE"}} :
       \A sym \in keysyms[k] : AltGrEvent(sym, state) \in KeyEvents
  /\ \A s \in Strokes : ~is_altgr_modifier_key(s[1])

\* The engine knows the AltGr keys of this layout.
LayoutKnown == \A k \in Level3Keys : keysyms[k] \subseteq AltGrKeys

VARIABLES
  focus,    \* the widget with the keyboard focus, or NoWidget
  down,     \* the AltGr keys that are held
  steady,   \* an AltGr key went down in the focused widget, and since then no
            \* AltGr key has come up, the focus is there, and nothing interrupted
  calls,    \* what the engine has yet to handle, oldest first
  origin,   \* of each engine, the widget its pending accent was typed in
  client    \* the widget the last handled call was made for

environment == <<focus, down, steady, calls>>
observer    == <<origin, client>>
sessionVars == <<vars, environment, observer>>

\* The observer notes of each call whether it was sent in an AltGr session.
Call(w, name, ev) ==
  [engine |-> scengine[w], call |-> name, key |-> ev, widget |-> w, steady |-> steady]

NoEvent == <<0, 0, {}>>

PendingCalls ==
  [engine : Engines, call : {"key"}, key : KeyEvents, widget : Widgets, steady : BOOLEAN]
  \cup [engine : Engines, call : {"reset", "focus_out", "disable"}, key : {NoEvent},
        widget : Widgets, steady : BOOLEAN]

-----------------------------------------------------------------------------
(* The session                                                             *)

SessionInit ==
  /\ live = Engines
  /\ compose = [e \in Engines |-> Idle]
  /\ altgr = [e \in Engines |-> FALSE]
  /\ event = Called(CHOOSE e \in Engines : TRUE, "init")
  /\ focus = NoWidget
  /\ down = {}
  /\ steady = FALSE
  /\ calls = <<>>
  /\ origin = [e \in Engines |-> NoWidget]
  /\ client = NoWidget

\* What happens in the focused widget is queued for its engine; without a
\* focused widget, it is lost.
send(name, ev) ==
  IF focus = NoWidget THEN UNCHANGED calls
  ELSE /\ Len(calls) < MaxCalls
       /\ calls' = Append(calls, Call(focus, name, ev))

press_altgr(k, sym) ==
  /\ k \notin down
  /\ down' = down \cup {k}
  /\ steady' = (focus # NoWidget)
  /\ send("key", AltGrEvent(sym, {}))
  /\ UNCHANGED <<vars, focus, observer>>

release_altgr(k, sym) ==
  /\ k \in down
  /\ down' = down \ {k}
  /\ steady' = FALSE
  /\ send("key", AltGrEvent(sym, {"RELEASE"}))
  /\ UNCHANGED <<vars, focus, observer>>

type(s) ==
  /\ focus # NoWidget
  /\ send("key", <<s[1], s[2], s[3] \cup (IF down = {} THEN {} ELSE LevelBits)>>)
  /\ UNCHANGED <<vars, focus, down, steady, observer>>

\* The widget that loses the focus tells its engine; the one that gains it
\* calls focus_in, which the engine leaves to its parent class.
move_focus(w) ==
  /\ w # focus
  /\ focus' = w
  /\ steady' = FALSE
  /\ send("focus_out", NoEvent)
  /\ UNCHANGED <<vars, down, observer>>

\* The client resets its context (a click in the text, say), or the user
\* switches the input source away and back.
interrupt(name) ==
  /\ focus # NoWidget
  /\ send(name, NoEvent)
  /\ steady' = FALSE
  /\ UNCHANGED <<vars, focus, down, observer>>

\* The engine's main loop takes the oldest call.
handle ==
  /\ calls # <<>>
  /\ calls' = Tail(calls)
  /\ LET c == Head(calls)
     IN  /\ \/ c.call = "key" /\ process_key_event(c.engine, c.key)
            \/ c.call = "reset" /\ reset(c.engine)
            \/ c.call = "focus_out" /\ focus_out(c.engine)
            \/ c.call = "disable" /\ disable(c.engine)
         /\ client' = c.widget
         /\ origin' = [origin EXCEPT ![c.engine] =
                         IF compose'[c.engine] = Idle THEN NoWidget
                         ELSE IF compose[c.engine] = Idle THEN c.widget
                         ELSE @]
  /\ UNCHANGED <<focus, down, steady>>

SessionNext ==
  \/ \E k \in Level3Keys : \E sym \in keysyms[k] : press_altgr(k, sym)
  \/ \E k \in Level3Keys : \E sym \in keysyms[k] : release_altgr(k, sym)
  \/ \E s \in Strokes : type(s)
  \/ \E w \in Widgets \cup {NoWidget} : move_focus(w)
  \/ \E name \in {"reset", "disable"} : interrupt(name)
  \/ handle

SessionSpec == SessionInit /\ [][SessionNext]_sessionVars

\* The main loop never stops serving a call that is there; nothing is assumed
\* of the user.
FairSessionSpec == SessionSpec /\ WF_sessionVars(handle)

-----------------------------------------------------------------------------
(* Properties                                                              *)

SessionTypeOK ==
  /\ TypeOK
  /\ live = Engines
  /\ focus \in Widgets \cup {NoWidget}
  /\ down \subseteq Level3Keys
  /\ steady \in BOOLEAN
  /\ calls \in Seq(PendingCalls)
  /\ origin \in [Engines -> Widgets \cup {NoWidget}]
  /\ client \in Widgets \cup {NoWidget}

\* An AltGr key is held down in a widget that engine e serves.
AltGrHeld(e) == down # {} /\ focus # NoWidget /\ scengine[focus] = e

\* "altgr tracks a held Right Alt" (engine.c:11): an instance that has seen all
\* its calls never believes in a key that is not held in one of its widgets,
\* whichever widget got the release.
AltGrOnlyWhileHeld == \A e \in Engines : calls = <<>> /\ altgr[e] => AltGrHeld(e)

\* "The engine tracks press and release itself to tell AltGr chords apart from
\* Left Alt shortcuts" (engine.c:203): however late it reads a key, and whatever
\* the widgets of the same instance sent before, it reads the key as a chord if
\* and only if it was typed as one, in an AltGr session that nothing disturbed.
ReadAsTyped ==
  calls # <<>> /\ Head(calls).call = "key" =>
    (altgr[Head(calls).engine] <=> Head(calls).steady)

\* What the engine holds back from a widget, and what the widget received last.
HeldIn(w) == IF origin[scengine[w]] = w THEN compose[scengine[w]].pending_literal ELSE 0
TextIn(w) == IF w = client THEN event.text ELSE <<>>

WidgetPromise == INSTANCE SilentCompose WITH
  Contexts <- Widgets,
  held <- [w \in Widgets |-> HeldIn(w)],
  text <- [w \in Widgets |-> TextIn(w)]

\* Every widget, not only every engine, gets what the product promises: "Focus
\* changes must not carry a half-finished accent into another widget"
\* (engine.c:502), though widgets share instances and calls arrive late.
EveryWidgetKeepsThePromise == WidgetPromise!Spec

\* State the user has left behind: an accent of a widget without the focus, or
\* an AltGr session of a key that is not held there.
LeftBehind(e) ==
  \/ compose[e] # Idle /\ origin[e] # focus
  \/ altgr[e] /\ ~AltGrHeld(e)

\* What was left behind goes away, if only the engine runs.
NothingStaysBehind == \A e \in Engines : LeftBehind(e) ~> ~LeftBehind(e)
=============================================================================
