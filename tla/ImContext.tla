----------------------------- MODULE ImContext -----------------------------
(***************************************************************************)
(* The GTK 4 input context (im/context.c): a wrapper around a delegate     *)
(* GtkIMContextSimple.  Everything runs on one thread, but calls nest: the  *)
(* application calls the wrapper, which calls the delegate, which emits     *)
(* signals, which the wrapper emits again, and the application's handlers   *)
(* may call any context, give up references or have a context disposed.     *)
(*                                                                         *)
(* The delegate and GObject are not in the repository.  The delegate is     *)
(* taken to compose as tests/test-silent-compose.c expects, and to emit     *)
(* its signals, preedit signals included, at any point of any call.  GObject *)
(* keeps an object while somebody holds a reference or a signal of it is     *)
(* being emitted, and disposes it when neither is so.                        *)
(***************************************************************************)
EXTENDS Integers, Sequences

CONSTANTS
  Contexts,      \* the contexts the application may create
  Purposes, FREE_FORM,  \* values of input-purpose, and the first one
  Hints, NONE,          \* values of input-hints, and the first one
  Selections,    \* pairs <<cursor, anchor>>: surrounding text, as it is told
  NoAnswer,      \* no surrounding text
  HasInvalidComposition, \* this GTK has the invalid-composition signal
  Literals,      \* the accents the delegate composes
  Compositions,  \* its rules: <<accent, character, composed character>>
  Symbols,       \* characters it commits as they are typed
  MaxDepth       \* bound on calls and handlers nested in one another

ASSUME ContextAssumption ==
  /\ Contexts # {}
  /\ FREE_FORM \in Purposes /\ NONE \in Hints
  /\ NoAnswer \notin Selections \cup {<<s[1], s[1]>> : s \in Selections}
  /\ HasInvalidComposition \in BOOLEAN
  /\ Literals \subseteq Nat \ {0} /\ Symbols \subseteq Nat
  /\ Compositions \subseteq Literals \X Symbols \X Nat
  /\ MaxDepth \in Nat

VARIABLES
  owned,    \* the contexts the application holds a reference to
  self,     \* the fields of each ScIMContext; delegate says whether it has one
  simple,   \* the delegate of each, and whether its signals are connected
  stack,    \* the calls that delegates run and the application's handlers, innermost first
  supplied, \* of each, the surrounding text the application last supplied
  client    \* what the application got to see in the last step, and of which context

vars == <<owned, self, simple, stack, supplied, client>>

PreeditSignals == {"preedit-start", "preedit-changed", "preedit-end"}
Requests       == {"retrieve-surrounding", "delete-surrounding"}
Signals        == {"commit", "invalid-composition"} \cup Requests \cup PreeditSignals

\* What a call has to bring back: surrounding text, with the anchor or without.
Wants == {"nothing", "surrounding", "selection"}

\* A call that the delegate of c runs; told is the answer to its last request
\* for surrounding text.  And a handler of the application for a signal of c.
Running(c, wants)  == [ctx |-> c, at |-> "delegate", name |-> wants, told |-> FALSE]
Handling(c, sig)   == [ctx |-> c, at |-> "client", name |-> sig, told |-> FALSE]

In(c, at, s) == \E i \in 1 .. Len(s) : s[i].ctx = c /\ s[i].at = at

\* Signals keep the wrapper and its delegate while they are emitted.
Emitting(c)      == In(c, "client", stack)
Allocated(c)     == c \in owned \/ Emitting(c)
DelegateAlive(c) == self[c].delegate \/ Emitting(c)

ClientsTurn == stack # <<>> => Head(stack).at = "client"
DelegatesTurn(c) ==
  /\ stack # <<>> /\ Head(stack).at = "delegate" /\ Head(stack).ctx = c
  /\ DelegateAlive(c)

Sees(c, t, got) == client' = [ctx |-> c, text |-> t, got |-> got]
SeesNothing     == Sees(CHOOSE c \in Contexts : TRUE, <<>>, NoAnswer)

-----------------------------------------------------------------------------
(* The life of a wrapper                                                   *)

Fresh == [connected |-> FALSE, input_purpose |-> FREE_FORM, input_hints |-> NONE,
          use_preedit |-> TRUE, pending |-> 0, surrounding |-> NoAnswer]

NoSelf == [delegate |-> FALSE, input_purpose |-> FREE_FORM, input_hints |-> NONE]

sc_im_context_init(c) ==
  /\ ClientsTurn
  /\ ~Allocated(c) /\ ~In(c, "delegate", stack)
  /\ owned' = owned \cup {c}
  /\ self' = [self EXCEPT ![c] = [NoSelf EXCEPT !.delegate = TRUE]]
  /\ simple' = [simple EXCEPT ![c] =
                  [Fresh EXCEPT !.use_preedit = FALSE, !.connected = TRUE]]
  /\ supplied' = [supplied EXCEPT ![c] = NoAnswer]
  /\ SeesNothing
  /\ UNCHANGED stack

\* With a defect: the delegate's signals stay connected.
dispose_without_disconnect(c) ==
  /\ self' = [self EXCEPT ![c].delegate = FALSE]
  /\ UNCHANGED simple

\* Handlers are disconnected and the reference to the delegate is given up.
\* Disposing again changes nothing.
dispose(c) ==
  /\ self' = [self EXCEPT ![c].delegate = FALSE]
  /\ simple' = [simple EXCEPT ![c].connected = @ /\ ~self[c].delegate]

\* The wrapper goes when nothing keeps it any more.
finalize_unless_kept(c, holders, s) ==
  IF c \in holders \/ In(c, "client", s) THEN UNCHANGED <<self, simple>>
  ELSE dispose(c)

\* Nothing in context.c keeps a context during a call: the application may drop or
\* dispose it in a handler that runs under that very call.
unref(c) ==
  /\ ClientsTurn
  /\ c \in owned
  /\ owned' = owned \ {c}
  /\ finalize_unless_kept(c, owned \ {c}, stack)
  /\ SeesNothing
  /\ UNCHANGED <<stack, supplied>>

\* g_object_run_dispose(): the wrapper is disposed while references remain.
run_dispose(c) ==
  /\ ClientsTurn
  /\ Allocated(c)
  /\ dispose(c)
  /\ SeesNothing
  /\ UNCHANGED <<owned, stack, supplied>>

-----------------------------------------------------------------------------
(* Calls of the application.  A wrapper without a delegate forwards to     *)
(* NULL, which GTK refuses without doing anything.                         *)

Caller(c) ==
  /\ ClientsTurn
  /\ Allocated(c)

forward(c, wants) ==
  /\ Caller(c)
  /\ IF self[c].delegate
     THEN Len(stack) < MaxDepth /\ stack' = <<Running(c, wants)>> \o stack
     ELSE UNCHANGED stack
  /\ SeesNothing
  /\ UNCHANGED <<owned, self, simple, supplied>>

filter_keypress(c)                == forward(c, "nothing")
focus_in(c)                       == forward(c, "nothing")
focus_out(c)                      == forward(c, "nothing")
reset(c)                          == forward(c, "nothing")
set_client_widget(c)              == forward(c, "nothing")
set_cursor_location(c)            == forward(c, "nothing")
activate_osk(c)                   == forward(c, "nothing")
activate_osk_with_event(c)        == forward(c, "nothing")
get_surrounding(c)                == forward(c, "surrounding")
get_surrounding_with_selection(c) == forward(c, "selection")

set_use_preedit(c, use) ==
  /\ Caller(c)
  /\ simple' = IF self[c].delegate
               THEN [simple EXCEPT ![c].use_preedit = FALSE] ELSE simple
  /\ SeesNothing
  /\ UNCHANGED <<owned, self, stack, supplied>>

\* With a defect: the anchor is lost on the way.
set_surrounding_collapsed(c, selection) ==
  /\ Caller(c)
  /\ IF self[c].delegate
     THEN /\ simple' = [simple EXCEPT ![c].surrounding = <<selection[1], selection[1]>>]
          /\ supplied' = [supplied EXCEPT ![c] = selection]
     ELSE UNCHANGED <<simple, supplied>>
  /\ SeesNothing
  /\ UNCHANGED <<owned, self, stack>>

set_surrounding_with_selection(c, selection) ==
  /\ Caller(c)
  /\ IF self[c].delegate
     THEN /\ simple' = [simple EXCEPT ![c].surrounding = selection]
          /\ supplied' = [supplied EXCEPT ![c] = selection]
     ELSE UNCHANGED <<simple, supplied>>
  /\ SeesNothing
  /\ UNCHANGED <<owned, self, stack>>

\* The deprecated call has a cursor and no anchor.
set_surrounding(c, cursor) == set_surrounding_with_selection(c, <<cursor, cursor>>)

\* With a defect: only the wrapper keeps the value.
set_property_cached(c, property, value) ==
  /\ Caller(c)
  /\ self' = [self EXCEPT ![c][property] = value]
  /\ SeesNothing
  /\ UNCHANGED <<owned, simple, stack, supplied>>

\* With a defect: the value of either property is kept as the hints.
set_property_mixed_up(c, property, value) ==
  /\ Caller(c)
  /\ self' = [self EXCEPT ![c].input_hints = value]
  /\ simple' = IF self[c].delegate
               THEN [simple EXCEPT ![c].input_hints = value] ELSE simple
  /\ SeesNothing
  /\ UNCHANGED <<owned, stack, supplied>>

set_property(c, property, value) ==
  /\ Caller(c)
  /\ self' = [self EXCEPT ![c][property] = value]
  /\ simple' = IF self[c].delegate
               THEN [simple EXCEPT ![c][property] = value] ELSE simple
  /\ SeesNothing
  /\ UNCHANGED <<owned, stack, supplied>>

get_property(c, property) == self[c][property]

\* With a defect: the delegate is asked.
preedit_string_of_delegate(c) ==
  IF simple[c].pending = 0 THEN <<>> ELSE <<simple[c].pending>>

get_preedit_string(c) == <<>>

\* The application draws the preedit text, on preedit-changed or of its own accord.
draw_preedit(c) ==
  /\ Caller(c)
  /\ Sees(c, get_preedit_string(c), NoAnswer)
  /\ UNCHANGED <<owned, self, simple, stack, supplied>>

-----------------------------------------------------------------------------
(* The delegate at work, and its signals                                   *)

\* The wrapper emits the signal itself, and the application's handler runs.
emit_to_client(c, sig, t) ==
  /\ Len(stack) < MaxDepth
  /\ stack' = <<Handling(c, sig)>> \o stack
  /\ Sees(c, t, NoAnswer)

dropped == SeesNothing /\ UNCHANGED stack

delegate_commit_cb(c, t)               == emit_to_client(c, "commit", t)
delegate_retrieve_surrounding_cb(c)    == emit_to_client(c, "retrieve-surrounding", <<>>)
delegate_delete_surrounding_cb(c)      == emit_to_client(c, "delete-surrounding", <<>>)
delegate_invalid_composition_cb(c, t)  ==
  IF HasInvalidComposition THEN emit_to_client(c, "invalid-composition", <<>>) ELSE dropped

\* With a defect: preedit signals pass.
delegate_preedit_forwarded_cb(c, sig)  == emit_to_client(c, sig, <<>>)

delegate_preedit_ignored_cb(c, sig)    == dropped

\* What runs when the delegate emits a signal: the handlers that were connected.
connect_delegate(c, sig, t) ==
  IF ~simple[c].connected THEN dropped
  ELSE \/ sig = "commit" /\ delegate_commit_cb(c, t)
       \/ sig = "retrieve-surrounding" /\ delegate_retrieve_surrounding_cb(c)
       \/ sig = "delete-surrounding" /\ delegate_delete_surrounding_cb(c)
       \/ sig = "invalid-composition" /\ delegate_invalid_composition_cb(c, t)
       \/ sig \in PreeditSignals /\ delegate_preedit_ignored_cb(c, sig)

TextIn(c) == IF client.ctx = c THEN client.text ELSE <<>>
HeldIn(c) == IF DelegateAlive(c) THEN simple[c].pending ELSE 0

Promise == INSTANCE SilentCompose WITH
  held <- [c \in Contexts |-> HeldIn(c)],
  text <- [c \in Contexts |-> TextIn(c)]

Spellings(accent) ==
  {<<accent>>} \cup {<<accent, s>> : s \in Symbols}
  \cup {<<r[3]>> : r \in {q \in Compositions : q[1] = accent}}

hold(c) ==
  /\ DelegatesTurn(c) /\ simple[c].pending = 0
  /\ \E accent \in Literals : simple' = [simple EXCEPT ![c].pending = accent]
  /\ SeesNothing
  /\ UNCHANGED <<owned, self, stack, supplied>>

finish(c) ==
  /\ DelegatesTurn(c) /\ simple[c].pending # 0
  /\ \E t \in Spellings(simple[c].pending) : connect_delegate(c, "commit", t)
  /\ simple' = [simple EXCEPT ![c].pending = 0]
  /\ UNCHANGED <<owned, self, supplied>>

abandon(c) ==
  /\ DelegatesTurn(c) /\ simple[c].pending # 0
  /\ simple' = [simple EXCEPT ![c].pending = 0]
  /\ SeesNothing
  /\ UNCHANGED <<owned, self, stack, supplied>>

symbol(c) ==
  /\ DelegatesTurn(c) /\ simple[c].pending = 0
  /\ \E s \in Symbols : connect_delegate(c, "commit", <<s>>)
  /\ UNCHANGED <<owned, self, simple, supplied>>

signal(c, sig) ==
  /\ DelegatesTurn(c)
  /\ connect_delegate(c, sig, <<>>)
  /\ UNCHANGED <<owned, self, simple, supplied>>

\* The application's handler is done; the delegate gets its reply.
handler_returns(reply) ==
  /\ stack # <<>> /\ Head(stack).at = "client"
  /\ LET f == Head(stack)
         rest == Tail(stack)
     IN  /\ stack' = IF f.name = "retrieve-surrounding" /\ rest # <<>>
                     THEN [rest EXCEPT ![1].told = reply] ELSE rest
         /\ finalize_unless_kept(f.ctx, owned, rest)
  /\ SeesNothing
  /\ UNCHANGED <<owned, supplied>>

\* The delegate's call is over, and with it the wrapper's; one whose delegate
\* went away meanwhile brings nothing.
call_returns ==
  /\ stack # <<>> /\ Head(stack).at = "delegate"
  /\ LET f == Head(stack)
         answered == f.told /\ DelegateAlive(f.ctx) /\ simple[f.ctx].surrounding # NoAnswer
     IN  /\ stack' = Tail(stack)
         /\ IF f.name = "selection" /\ answered
            THEN Sees(f.ctx, <<>>, simple[f.ctx].surrounding)
            ELSE IF f.name = "surrounding" /\ answered
            THEN Sees(f.ctx, <<>>, <<simple[f.ctx].surrounding[1]>>)
            ELSE SeesNothing
  /\ UNCHANGED <<owned, self, simple, supplied>>

-----------------------------------------------------------------------------
Init ==
  /\ owned = {}
  /\ self = [c \in Contexts |-> NoSelf]
  /\ simple = [c \in Contexts |-> Fresh]
  /\ stack = <<>>
  /\ supplied = [c \in Contexts |-> NoAnswer]
  /\ client = [ctx |-> CHOOSE c \in Contexts : TRUE, text |-> <<>>, got |-> NoAnswer]

Next ==
  \/ \E c \in Contexts :
       \/ sc_im_context_init(c) \/ unref(c) \/ run_dispose(c)
       \/ filter_keypress(c) \/ focus_in(c) \/ focus_out(c) \/ reset(c)
       \/ set_client_widget(c) \/ set_cursor_location(c)
       \/ activate_osk(c) \/ activate_osk_with_event(c)
       \/ get_surrounding(c) \/ get_surrounding_with_selection(c)
       \/ \E use \in BOOLEAN : set_use_preedit(c, use)
       \/ \E s \in Selections : set_surrounding_with_selection(c, s) \/ set_surrounding(c, s[1])
       \/ \E p \in Purposes : set_property(c, "input_purpose", p)
       \/ \E h \in Hints : set_property(c, "input_hints", h)
       \/ draw_preedit(c)
       \/ hold(c) \/ finish(c) \/ abandon(c) \/ symbol(c)
       \/ \E sig \in Signals \ {"commit"} : signal(c, sig)
  \/ \E reply \in BOOLEAN : handler_returns(reply)
  \/ call_returns

Spec == Init /\ [][Next]_vars

-----------------------------------------------------------------------------
(* Properties                                                              *)

Frames ==
  [ctx : Contexts, at : {"delegate"}, name : Wants, told : BOOLEAN]
  \cup [ctx : Contexts, at : {"client"}, name : Signals, told : BOOLEAN]

Surroundings == Selections \cup {<<s[1], s[1]>> : s \in Selections} \cup {NoAnswer}

ScIMContext == [delegate : BOOLEAN, input_purpose : Purposes, input_hints : Hints]

GtkIMContextSimple ==
  [connected : BOOLEAN, input_purpose : Purposes, input_hints : Hints,
   use_preedit : BOOLEAN, pending : Literals \cup {0}, surrounding : Surroundings]

TypeOK ==
  /\ owned \subseteq Contexts
  /\ self \in [Contexts -> ScIMContext]
  /\ simple \in [Contexts -> GtkIMContextSimple]
  /\ stack \in Seq(Frames)
  /\ supplied \in [Contexts -> Surroundings]
  /\ client.ctx \in Contexts

\* "Applications must never see a pending dead key, underline, highlighted
\* range, popup, or other temporary preedit UI" (context.c:198): no handler of
\* the application ever runs for a preedit signal.
NoPreeditSignal ==
  \A i \in 1 .. Len(stack) : stack[i].at = "client" => stack[i].name \notin PreeditSignals

\* The delegate has what the client last set on its wrapper, and is in
\* no-preedit mode whatever the client asked for.
DelegateFollows ==
  \A c \in Contexts : self[c].delegate =>
    /\ simple[c].input_purpose = get_property(c, "input_purpose")
    /\ simple[c].input_hints = get_property(c, "input_hints")
    /\ ~simple[c].use_preedit

\* "A late signal can never reach a wrapper that is already being torn down"
\* (context.c:292): a delegate that outlives its wrapper's dispose, because an
\* outer signal of it is still being emitted, reaches no handler.
SilentAfterDispose ==
  [][Len(stack') > Len(stack) /\ Head(stack').at = "client"
       => self[Head(stack').ctx].delegate]_vars

\* Whoever asks a context for the surrounding text gets what the application
\* last supplied to that very context, or nothing.
AnswersAreTheClients ==
  [][client'.got # NoAnswer =>
       LET s == supplied[client'.ctx] IN s # NoAnswer /\ client'.got \in {s, <<s[1]>>}]_vars

\* The GTK path keeps the promise of the IBus path: text appears in a context
\* only when its own accent is finished, or when it holds none, and what the
\* application draws as preedit never shows the accent.
EveryContextKeepsThePromise == Promise!Spec
=============================================================================
