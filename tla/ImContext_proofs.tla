-------------------------- MODULE ImContext_proofs --------------------------
(***************************************************************************)
(* Theorems about ImContext, for any number of contexts, calls and          *)
(* handlers nested to any depth, and any delegate that composes.            *)
(***************************************************************************)
EXTENDS ImContext, TLAPS

-----------------------------------------------------------------------------
(* The inductive invariant.                                                *)

\* Only the delegate of an undisposed wrapper has handlers.
ConnectedHasWrapper == \A c \in Contexts : simple[c].connected => self[c].delegate

\* The delegate has the surrounding text that the application last supplied.
SuppliedReached == \A c \in Contexts : simple[c].surrounding = supplied[c]

ContextInvariant ==
  TypeOK /\ NoPreeditSignal /\ DelegateFollows
  /\ ConnectedHasWrapper /\ SuppliedReached

-----------------------------------------------------------------------------
(* The stack.                                                              *)

LEMMA Pushed ==
  ASSUME NEW s \in Seq(Frames), NEW f \in Frames
  PROVE  /\ <<f>> \o s \in Seq(Frames)
         /\ Len(<<f>> \o s) = Len(s) + 1
         /\ Head(<<f>> \o s) = f
         /\ (<<f>> \o s)[1] = f
         /\ \A i \in 1 .. Len(s) : (<<f>> \o s)[i + 1] = s[i]
         /\ \A i \in 1 .. Len(s) + 1 : i # 1 => i - 1 \in 1 .. Len(s) /\ (<<f>> \o s)[i] = s[i - 1]
<1>1. <<f>> \in Seq(Frames) /\ Len(<<f>>) = 1
  OBVIOUS
<1>2. /\ <<f>> \o s \in Seq(Frames)
      /\ Len(<<f>> \o s) = Len(s) + 1
  BY <1>1
<1>3. /\ (<<f>> \o s)[1] = f
      /\ \A i \in 1 .. Len(s) + 1 : i # 1 => i - 1 \in 1 .. Len(s) /\ (<<f>> \o s)[i] = s[i - 1]
  BY <1>1
<1>4. \A i \in 1 .. Len(s) : (<<f>> \o s)[i + 1] = s[i]
  BY <1>1
<1>. QED  BY <1>2, <1>3, <1>4

LEMMA InPushed ==
  ASSUME NEW s \in Seq(Frames), NEW f \in Frames, NEW c, NEW at
  PROVE  In(c, at, <<f>> \o s) <=> (f.ctx = c /\ f.at = at) \/ In(c, at, s)
<1>. DEFINE p == <<f>> \o s
<1>1. /\ Len(p) = Len(s) + 1 /\ p[1] = f /\ Len(s) \in Nat
      /\ \A i \in 1 .. Len(s) : p[i + 1] = s[i]
      /\ \A i \in 1 .. Len(s) + 1 : i # 1 => i - 1 \in 1 .. Len(s) /\ p[i] = s[i - 1]
  BY Pushed
<1>. HIDE DEF p
<1>2. ASSUME In(c, at, p), ~(f.ctx = c /\ f.at = at)  PROVE In(c, at, s)
  BY <1>1, <1>2 DEF In
<1>3. ASSUME f.ctx = c, f.at = at  PROVE In(c, at, p)
  BY <1>1, <1>3 DEF In
<1>4. ASSUME In(c, at, s)  PROVE In(c, at, p)
  <2>1. PICK i \in 1 .. Len(s) : s[i].ctx = c /\ s[i].at = at
    BY <1>4 DEF In
  <2>2. i + 1 \in 1 .. Len(p) /\ p[i + 1] = s[i]
    BY <1>1, <2>1
  <2>. QED  BY <2>1, <2>2 DEF In
<1>. QED  BY <1>2, <1>3, <1>4 DEF p

LEMMA Popped ==
  ASSUME NEW s \in Seq(Frames), s # <<>>
  PROVE  /\ Head(s) \in Frames /\ Head(s) = s[1] /\ 1 \in 1 .. Len(s)
         /\ Tail(s) \in Seq(Frames) /\ Len(Tail(s)) = Len(s) - 1
         /\ \A i \in 1 .. Len(Tail(s)) : i + 1 \in 1 .. Len(s) /\ Tail(s)[i] = s[i + 1]
OBVIOUS

LEMMA InPopped ==
  ASSUME NEW s \in Seq(Frames), s # <<>>, NEW c, NEW at
  PROVE  In(c, at, s) <=> (Head(s).ctx = c /\ Head(s).at = at) \/ In(c, at, Tail(s))
<1>1. /\ Head(s) = s[1] /\ 1 \in 1 .. Len(s) /\ Len(s) \in Nat
      /\ Len(Tail(s)) = Len(s) - 1
      /\ \A i \in 1 .. Len(Tail(s)) : i + 1 \in 1 .. Len(s) /\ Tail(s)[i] = s[i + 1]
  BY Popped
<1>2. ASSUME In(c, at, s), ~(Head(s).ctx = c /\ Head(s).at = at)  PROVE In(c, at, Tail(s))
  <2>1. PICK i \in 1 .. Len(s) : s[i].ctx = c /\ s[i].at = at
    BY <1>2 DEF In
  <2>2. i # 1
    BY <1>1, <1>2, <2>1
  <2>3. i - 1 \in 1 .. Len(Tail(s)) /\ (i - 1) + 1 = i
    BY <1>1, <2>1, <2>2
  <2>. QED  BY <1>1, <2>1, <2>3 DEF In
<1>3. ASSUME Head(s).ctx = c, Head(s).at = at  PROVE In(c, at, s)
  BY <1>1, <1>3 DEF In
<1>4. ASSUME In(c, at, Tail(s))  PROVE In(c, at, s)
  BY <1>1, <1>4 DEF In
<1>. QED  BY <1>2, <1>3, <1>4

\* A reply changes nothing of who runs what.
LEMMA Replied ==
  ASSUME NEW s \in Seq(Frames), s # <<>>, NEW r \in BOOLEAN
  PROVE  LET q == [s EXCEPT ![1].told = r] IN
         /\ q \in Seq(Frames) /\ Len(q) = Len(s)
         /\ \A i \in 1 .. Len(s) : q[i].ctx = s[i].ctx /\ q[i].at = s[i].at /\ q[i].name = s[i].name
         /\ \A c, at : In(c, at, q) <=> In(c, at, s)
<1>. DEFINE q == [s EXCEPT ![1].told = r]
<1>1. s[1] \in Frames /\ 1 \in 1 .. Len(s)
  BY Popped
<1>2. /\ [s[1] EXCEPT !.told = r] \in Frames
      /\ [s[1] EXCEPT !.told = r].ctx = s[1].ctx
      /\ [s[1] EXCEPT !.told = r].at = s[1].at
      /\ [s[1] EXCEPT !.told = r].name = s[1].name
  BY <1>1 DEF Frames
<1>3. q = [s EXCEPT ![1] = [s[1] EXCEPT !.told = r]]
  OBVIOUS
<1>4. q \in Seq(Frames) /\ Len(q) = Len(s)
  BY <1>1, <1>2, <1>3
<1>5. \A i \in 1 .. Len(s) : q[i].ctx = s[i].ctx /\ q[i].at = s[i].at /\ q[i].name = s[i].name
  BY <1>1, <1>2, <1>3
<1>. QED  BY <1>4, <1>5 DEF In

-----------------------------------------------------------------------------
(* What the actions do.                                                    *)

NothingSeen == [ctx |-> CHOOSE c \in Contexts : TRUE, text |-> <<>>, got |-> NoAnswer]

LEMMA Blank ==
  /\ (CHOOSE c \in Contexts : TRUE) \in Contexts
  /\ SeesNothing <=> client' = NothingSeen
BY ContextAssumption DEF SeesNothing, Sees, NothingSeen

\* A forwarded call gets under way, or is refused.
LEMMA ForwardStep ==
  ASSUME NEW c \in Contexts, NEW w \in Wants, forward(c, w)
  PROVE  /\ Caller(c) /\ client' = NothingSeen
         /\ UNCHANGED <<owned, self, simple, supplied>>
         /\ \/ stack' = stack
            \/ self[c].delegate /\ stack' = <<Running(c, w)>> \o stack
BY Blank DEF forward

\* A signal of the delegate reaches a handler of the application, or nobody.
LEMMA SignalStep ==
  ASSUME NEW c \in Contexts, NEW sig, NEW t, sig = "commit" \/ t = <<>>,
         connect_delegate(c, sig, t)
  PROVE  \/ stack' = stack /\ client' = NothingSeen
         \/ /\ simple[c].connected /\ sig \in Signals \ PreeditSignals
            /\ stack' = <<Handling(c, sig)>> \o stack
            /\ client' = [ctx |-> c, text |-> t, got |-> NoAnswer]
<1>1. CASE dropped
  BY <1>1, Blank DEF dropped
<1>2. CASE simple[c].connected /\ emit_to_client(c, sig, t) /\ sig \in Signals \ PreeditSignals
  BY <1>2 DEF emit_to_client, Sees
<1>3. dropped \/ (simple[c].connected /\ emit_to_client(c, sig, t) /\ sig \in Signals \ PreeditSignals)
  BY DEF connect_delegate, delegate_commit_cb, delegate_retrieve_surrounding_cb,
     delegate_delete_surrounding_cb, delegate_invalid_composition_cb,
     delegate_preedit_ignored_cb, Signals, Requests, PreeditSignals
<1>. QED  BY <1>1, <1>2, <1>3

\* Disposal takes the delegate and its handlers from one wrapper.
LEMMA DisposeStep ==
  ASSUME TypeOK, ConnectedHasWrapper, NEW c \in Contexts, dispose(c)
  PROVE  /\ self' \in [Contexts -> ScIMContext]
         /\ simple' \in [Contexts -> GtkIMContextSimple]
         /\ ~self'[c].delegate /\ ~simple'[c].connected
         /\ \A x \in Contexts : x # c => self'[x] = self[x] /\ simple'[x] = simple[x]
         /\ \A x \in Contexts : /\ simple'[x].pending = simple[x].pending
                                /\ simple'[x].surrounding = simple[x].surrounding
<1>1. self' = [self EXCEPT ![c].delegate = FALSE]
  BY DEF dispose
<1>2. simple' = [simple EXCEPT ![c].connected = FALSE]
  BY DEF dispose, ConnectedHasWrapper, TypeOK, GtkIMContextSimple
<1>3. /\ [self[c] EXCEPT !.delegate = FALSE] \in ScIMContext
      /\ ~[self[c] EXCEPT !.delegate = FALSE].delegate
  BY DEF TypeOK, ScIMContext
<1>4. /\ [simple[c] EXCEPT !.connected = FALSE] \in GtkIMContextSimple
      /\ ~[simple[c] EXCEPT !.connected = FALSE].connected
      /\ [simple[c] EXCEPT !.connected = FALSE].pending = simple[c].pending
      /\ [simple[c] EXCEPT !.connected = FALSE].surrounding = simple[c].surrounding
  BY DEF TypeOK, GtkIMContextSimple
<1>5. self' = [self EXCEPT ![c] = [self[c] EXCEPT !.delegate = FALSE]]
  BY <1>1
<1>6. simple' = [simple EXCEPT ![c] = [simple[c] EXCEPT !.connected = FALSE]]
  BY <1>2
<1>7. self \in [Contexts -> ScIMContext] /\ simple \in [Contexts -> GtkIMContextSimple]
  BY DEF TypeOK
<1>. QED  BY <1>3, <1>4, <1>5, <1>6, <1>7

LEMMA FinalizeStep ==
  ASSUME NEW c \in Contexts, NEW holders, NEW s, finalize_unless_kept(c, holders, s)
  PROVE  \/ UNCHANGED <<self, simple>> /\ (c \in holders \/ In(c, "client", s))
         \/ dispose(c) /\ c \notin holders /\ ~In(c, "client", s)
BY DEF finalize_unless_kept

\* The actions by what they do; the forwarding ones are alike.
LEMMA Steps ==
  ASSUME Next
  PROVE  \/ \E c \in Contexts : sc_im_context_init(c)
         \/ \E c \in Contexts : unref(c)
         \/ \E c \in Contexts : run_dispose(c)
         \/ \E c \in Contexts : \E w \in Wants : forward(c, w)
         \/ \E c \in Contexts : \E use \in BOOLEAN : set_use_preedit(c, use)
         \/ \E c \in Contexts : \E s \in Surroundings \ {NoAnswer} :
              set_surrounding_with_selection(c, s)
         \/ \E c \in Contexts : \E p \in Purposes : set_property(c, "input_purpose", p)
         \/ \E c \in Contexts : \E h \in Hints : set_property(c, "input_hints", h)
         \/ \E c \in Contexts : draw_preedit(c)
         \/ \E c \in Contexts : hold(c)
         \/ \E c \in Contexts : finish(c)
         \/ \E c \in Contexts : abandon(c)
         \/ \E c \in Contexts : symbol(c)
         \/ \E c \in Contexts : \E sig \in Signals \ {"commit"} : signal(c, sig)
         \/ \E reply \in BOOLEAN : handler_returns(reply)
         \/ call_returns
<1>1. \A c \in Contexts :
        /\ filter_keypress(c) \/ focus_in(c) \/ focus_out(c) \/ reset(c)
           \/ set_client_widget(c) \/ set_cursor_location(c)
           \/ activate_osk(c) \/ activate_osk_with_event(c)
           \/ get_surrounding(c) \/ get_surrounding_with_selection(c)
           => \E w \in Wants : forward(c, w)
  BY DEF filter_keypress, focus_in, focus_out, reset, set_client_widget,
     set_cursor_location, activate_osk, activate_osk_with_event, get_surrounding,
     get_surrounding_with_selection, Wants
<1>2. \A c \in Contexts : \A s \in Selections :
        /\ set_surrounding(c, s[1]) => set_surrounding_with_selection(c, <<s[1], s[1]>>)
        /\ s \in Surroundings \ {NoAnswer} /\ <<s[1], s[1]>> \in Surroundings \ {NoAnswer}
  BY ContextAssumption DEF set_surrounding, Surroundings
<1>3. CASE (\E reply \in BOOLEAN : handler_returns(reply)) \/ call_returns
  BY <1>3
<1>4. ASSUME NEW c \in Contexts,
             \/ filter_keypress(c) \/ focus_in(c) \/ focus_out(c) \/ reset(c)
             \/ set_client_widget(c) \/ set_cursor_location(c)
             \/ activate_osk(c) \/ activate_osk_with_event(c)
             \/ get_surrounding(c) \/ get_surrounding_with_selection(c)
      PROVE  \E x \in Contexts : \E w \in Wants : forward(x, w)
  BY <1>1, <1>4
<1>5. ASSUME NEW c \in Contexts, NEW s \in Selections,
             set_surrounding_with_selection(c, s) \/ set_surrounding(c, s[1])
      PROVE  \E x \in Contexts : \E y \in Surroundings \ {NoAnswer} :
               set_surrounding_with_selection(x, y)
  BY <1>2, <1>5
<1>6. CASE \E c \in Contexts :
             \/ filter_keypress(c) \/ focus_in(c) \/ focus_out(c) \/ reset(c)
             \/ set_client_widget(c) \/ set_cursor_location(c)
             \/ activate_osk(c) \/ activate_osk_with_event(c)
             \/ get_surrounding(c) \/ get_surrounding_with_selection(c)
  BY <1>4, <1>6
<1>7. CASE \E c \in Contexts : \E s \in Selections :
             set_surrounding_with_selection(c, s) \/ set_surrounding(c, s[1])
  BY <1>5, <1>7
<1>. QED  BY <1>3, <1>6, <1>7, Zenon DEF Next

-----------------------------------------------------------------------------
(* The invariant is inductive.                                             *)

LEMMA InitialInvariant == Init => ContextInvariant
<1>. SUFFICES ASSUME Init PROVE ContextInvariant
  OBVIOUS
<1>1. stack = <<>> /\ stack \in Seq(Frames) /\ Len(stack) = 0
  BY DEF Init
<1>2. NoSelf \in ScIMContext /\ ~NoSelf.delegate
  BY ContextAssumption DEF NoSelf, ScIMContext
<1>3. /\ Fresh \in GtkIMContextSimple /\ ~Fresh.connected /\ Fresh.surrounding = NoAnswer
  BY ContextAssumption DEF Fresh, GtkIMContextSimple, Surroundings
<1>4. TypeOK
  <2>1. client.ctx \in Contexts
    BY Blank DEF Init
  <2>2. supplied \in [Contexts -> Surroundings]
    BY DEF Init, Surroundings
  <2>. QED  BY <1>1, <1>2, <1>3, <2>1, <2>2 DEF Init, TypeOK
<1>5. NoPreeditSignal
  BY <1>1 DEF NoPreeditSignal
<1>6. DelegateFollows /\ ConnectedHasWrapper /\ SuppliedReached
  BY <1>2, <1>3 DEF Init, DelegateFollows, ConnectedHasWrapper, SuppliedReached
<1>. QED  BY <1>4, <1>5, <1>6 DEF ContextInvariant

\* What is left of the invariant when one context changes and the stack stays.
LEMMA OneContext ==
  ASSUME ContextInvariant, NEW c \in Contexts,
         owned' \subseteq Contexts, self'[c] \in ScIMContext, simple'[c] \in GtkIMContextSimple,
         supplied'[c] \in Surroundings,
         self' = [self EXCEPT ![c] = self'[c]], simple' = [simple EXCEPT ![c] = simple'[c]],
         supplied' = [supplied EXCEPT ![c] = supplied'[c]],
         UNCHANGED stack, client'.ctx \in Contexts,
         self'[c].delegate => /\ simple'[c].input_purpose = self'[c].input_purpose
                              /\ simple'[c].input_hints = self'[c].input_hints
                              /\ ~simple'[c].use_preedit,
         simple'[c].connected => self'[c].delegate,
         simple'[c].surrounding = supplied'[c]
  PROVE  ContextInvariant'
<1>1. \A x \in Contexts : x # c =>
        self'[x] = self[x] /\ simple'[x] = simple[x] /\ supplied'[x] = supplied[x]
  BY DEF ContextInvariant, TypeOK
<1>2. TypeOK'
  BY DEF ContextInvariant, TypeOK
<1>3. NoPreeditSignal'
  BY DEF ContextInvariant, NoPreeditSignal
<1>4. DelegateFollows'
  BY <1>1 DEF ContextInvariant, DelegateFollows, get_property
<1>5. ConnectedHasWrapper' /\ SuppliedReached'
  BY <1>1 DEF ContextInvariant, ConnectedHasWrapper, SuppliedReached
<1>. QED  BY <1>2, <1>3, <1>4, <1>5 DEF ContextInvariant

\* The delegates change at most what they hold back.
OnlyPending ==
  /\ simple' \in [Contexts -> GtkIMContextSimple]
  /\ \A x \in Contexts :
       /\ simple'[x].connected = simple[x].connected
       /\ simple'[x].input_purpose = simple[x].input_purpose
       /\ simple'[x].input_hints = simple[x].input_hints
       /\ simple'[x].use_preedit = simple[x].use_preedit
       /\ simple'[x].surrounding = simple[x].surrounding

LEMMA PendingSame == TypeOK /\ simple' = simple => OnlyPending
BY DEF OnlyPending, TypeOK

LEMMA PendingSet ==
  ASSUME TypeOK, NEW c \in Contexts, NEW p \in Literals \cup {0},
         simple' = [simple EXCEPT ![c].pending = p]
  PROVE  /\ OnlyPending /\ simple'[c].pending = p
         /\ \A x \in Contexts : x # c => simple'[x] = simple[x]
<1>. DEFINE d == [simple[c] EXCEPT !.pending = p]
<1>1. /\ d \in GtkIMContextSimple /\ d.surrounding = simple[c].surrounding
      /\ d.use_preedit = simple[c].use_preedit /\ d.pending = p
      /\ d.input_purpose = simple[c].input_purpose
      /\ d.input_hints = simple[c].input_hints /\ d.connected = simple[c].connected
  BY DEF TypeOK, GtkIMContextSimple
<1>2. simple \in [Contexts -> GtkIMContextSimple]
  BY DEF TypeOK
<1>3. simple' = [simple EXCEPT ![c] = d]
  OBVIOUS
<1>. HIDE DEF d
<1>. QED  BY <1>1, <1>2, <1>3 DEF OnlyPending

\* Or when the stack changes and contexts do not: what is pushed is fit to run.
LEMMA OnlyStack ==
  ASSUME ContextInvariant, UNCHANGED <<owned, self, supplied>>, OnlyPending,
         stack' \in Seq(Frames), NoPreeditSignal', client'.ctx \in Contexts
  PROVE  ContextInvariant'
<1>1. TypeOK'
  BY DEF ContextInvariant, TypeOK, OnlyPending
<1>2. DelegateFollows' /\ ConnectedHasWrapper' /\ SuppliedReached'
  BY DEF ContextInvariant, DelegateFollows, ConnectedHasWrapper, SuppliedReached, get_property,
     OnlyPending
<1>. QED  BY <1>1, <1>2 DEF ContextInvariant

LEMMA InvariantUnchanged == ContextInvariant /\ UNCHANGED vars => ContextInvariant'
BY DEF ContextInvariant, vars, TypeOK, NoPreeditSignal, DelegateFollows, ConnectedHasWrapper,
   SuppliedReached, get_property

\* Pushing a call or a handler.
LEMMA PushKeeps ==
  ASSUME ContextInvariant, UNCHANGED <<owned, self, supplied>>, OnlyPending,
         client'.ctx \in Contexts, NEW f \in Frames, stack' = <<f>> \o stack,
         f.at = "client" => f.name \notin PreeditSignals
  PROVE  ContextInvariant'
<1>1. stack \in Seq(Frames)
  BY DEF ContextInvariant, TypeOK
<1>2. NoPreeditSignal'
  <2>1. /\ Len(stack') = Len(stack) + 1 /\ stack'[1] = f
        /\ \A i \in 1 .. Len(stack) + 1 :
             i # 1 => i - 1 \in 1 .. Len(stack) /\ stack'[i] = stack[i - 1]
    BY <1>1, Pushed
  <2>2. ASSUME NEW i \in 1 .. Len(stack'), stack'[i].at = "client"
        PROVE  stack'[i].name \notin PreeditSignals
    BY <2>1, <2>2 DEF ContextInvariant, NoPreeditSignal
  <2>. QED  BY <2>2 DEF NoPreeditSignal
<1>3. stack' \in Seq(Frames)
  BY <1>1, Pushed
<1>. QED  BY <1>2, <1>3, OnlyStack

\* Popping the innermost one, with or without a reply to the next.
LEMMA PopFacts ==
  ASSUME TypeOK, NoPreeditSignal, stack # <<>>, NEW r \in BOOLEAN,
         \/ stack' = Tail(stack)
         \/ Tail(stack) # <<>> /\ stack' = [Tail(stack) EXCEPT ![1].told = r]
  PROVE  /\ stack' \in Seq(Frames) /\ Head(stack) \in Frames
         /\ NoPreeditSignal'
         /\ Len(stack') < Len(stack)
         /\ \A c, at : In(c, at, stack') <=> In(c, at, Tail(stack))
         /\ \A c, at : In(c, at, stack)
                         <=> (Head(stack).ctx = c /\ Head(stack).at = at) \/ In(c, at, stack')
<1>. DEFINE s == Tail(stack)
<1>1. /\ stack \in Seq(Frames) /\ Head(stack) \in Frames /\ s \in Seq(Frames)
      /\ Len(s) = Len(stack) - 1 /\ Len(s) \in Nat
      /\ \A i \in 1 .. Len(s) : i + 1 \in 1 .. Len(stack) /\ s[i] = stack[i + 1]
  BY Popped DEF TypeOK
<1>2. \A c, at : In(c, at, stack)
        <=> (Head(stack).ctx = c /\ Head(stack).at = at) \/ In(c, at, s)
  BY InPopped, <1>1
<1>. HIDE DEF s
<1>3. /\ stack' \in Seq(Frames) /\ Len(stack') = Len(s)
      /\ \A i \in 1 .. Len(s) : stack'[i].at = s[i].at /\ stack'[i].name = s[i].name
      /\ \A c, at : In(c, at, stack') <=> In(c, at, s)
  <2>1. CASE stack' = s
    BY <1>1, <2>1
  <2>2. CASE s # <<>> /\ stack' = [s EXCEPT ![1].told = r]
    <3>. DEFINE q == [s EXCEPT ![1].told = r]
    <3>1. /\ q \in Seq(Frames) /\ Len(q) = Len(s)
          /\ \A i \in 1 .. Len(s) : q[i].ctx = s[i].ctx /\ q[i].at = s[i].at /\ q[i].name = s[i].name
          /\ \A c, at : In(c, at, q) <=> In(c, at, s)
      BY <1>1, <2>2, Replied
    <3>. HIDE DEF q
    <3>2. stack' = q
      BY <2>2 DEF q
    <3>. QED  BY <3>1, <3>2
  <2>. QED  BY <2>1, <2>2 DEF s
<1>4. NoPreeditSignal'
  BY <1>1, <1>3 DEF NoPreeditSignal
<1>. QED  BY <1>1, <1>2, <1>3, <1>4 DEF s

LEMMA SetField ==
  ASSUME NEW f \in [Contexts -> ScIMContext], NEW c \in Contexts,
         NEW field \in {"input_purpose", "input_hints"}, NEW v,
         field = "input_purpose" => v \in Purposes, field = "input_hints" => v \in Hints
  PROVE  LET r == [f[c] EXCEPT ![field] = v] IN
         /\ r \in ScIMContext /\ r.delegate = f[c].delegate
         /\ [f EXCEPT ![c][field] = v] = [f EXCEPT ![c] = r]
         /\ field = "input_purpose" => r.input_purpose = v /\ r.input_hints = f[c].input_hints
         /\ field = "input_hints" => r.input_hints = v /\ r.input_purpose = f[c].input_purpose
BY DEF ScIMContext

LEMMA SetDelegateField ==
  ASSUME NEW f \in [Contexts -> GtkIMContextSimple], NEW c \in Contexts,
         NEW field \in {"input_purpose", "input_hints"}, NEW v,
         field = "input_purpose" => v \in Purposes, field = "input_hints" => v \in Hints
  PROVE  LET r == [f[c] EXCEPT ![field] = v] IN
         /\ r \in GtkIMContextSimple /\ r.use_preedit = f[c].use_preedit
         /\ r.connected = f[c].connected /\ r.surrounding = f[c].surrounding
         /\ r.pending = f[c].pending
         /\ [f EXCEPT ![c][field] = v] = [f EXCEPT ![c] = r]
         /\ field = "input_purpose" => r.input_purpose = v /\ r.input_hints = f[c].input_hints
         /\ field = "input_hints" => r.input_hints = v /\ r.input_purpose = f[c].input_purpose
BY DEF GtkIMContextSimple

\* What the invariant says of one context.
LEMMA OfContext ==
  ASSUME ContextInvariant, NEW c \in Contexts
  PROVE  /\ self[c] \in ScIMContext /\ simple[c] \in GtkIMContextSimple
         /\ supplied[c] \in Surroundings /\ owned \subseteq Contexts
         /\ self = [self EXCEPT ![c] = self[c]] /\ simple = [simple EXCEPT ![c] = simple[c]]
         /\ supplied = [supplied EXCEPT ![c] = supplied[c]]
         /\ self[c].delegate => /\ simple[c].input_purpose = self[c].input_purpose
                                /\ simple[c].input_hints = self[c].input_hints
                                /\ ~simple[c].use_preedit
         /\ simple[c].connected => self[c].delegate
         /\ simple[c].surrounding = supplied[c]
         /\ self \in [Contexts -> ScIMContext] /\ simple \in [Contexts -> GtkIMContextSimple]
         /\ supplied \in [Contexts -> Surroundings]
BY DEF ContextInvariant, TypeOK, DelegateFollows, ConnectedHasWrapper, SuppliedReached,
   get_property

\* Disposal of a context, whatever calls of it run.
LEMMA DisposeKeeps ==
  ASSUME ContextInvariant, NEW c \in Contexts, dispose(c),
         owned' \subseteq Contexts,
         UNCHANGED <<stack, supplied>>, client'.ctx \in Contexts
  PROVE  ContextInvariant'
<1>1. /\ self' \in [Contexts -> ScIMContext] /\ simple' \in [Contexts -> GtkIMContextSimple]
      /\ ~self'[c].delegate /\ ~simple'[c].connected
      /\ \A x \in Contexts : x # c => self'[x] = self[x] /\ simple'[x] = simple[x]
      /\ simple'[c].surrounding = simple[c].surrounding
  BY DisposeStep DEF ContextInvariant
<1>2. self' = [self EXCEPT ![c] = self'[c]] /\ simple' = [simple EXCEPT ![c] = simple'[c]]
  BY <1>1 DEF ContextInvariant, TypeOK
<1>. QED  BY <1>1, <1>2, OfContext, OneContext

-----------------------------------------------------------------------------
(* One step per action.                                                    *)

LEMMA InvariantKept == ContextInvariant /\ Next => ContextInvariant'
<1>. SUFFICES ASSUME ContextInvariant, Next PROVE ContextInvariant'
  OBVIOUS
<1>. USE Blank
<1>seen. NothingSeen.ctx \in Contexts
  BY DEF NothingSeen
<1>stack. stack \in Seq(Frames)
  BY DEF ContextInvariant, TypeOK
<1>1. ASSUME NEW c \in Contexts, sc_im_context_init(c)  PROVE ContextInvariant'
  <2>. DEFINE s == [NoSelf EXCEPT !.delegate = TRUE]
              d == [Fresh EXCEPT !.use_preedit = FALSE, !.connected = TRUE]
  <2>1. s \in ScIMContext /\ s.delegate /\ s.input_purpose = FREE_FORM /\ s.input_hints = NONE
    BY ContextAssumption DEF NoSelf, ScIMContext
  <2>2. /\ d \in GtkIMContextSimple /\ d.input_purpose = FREE_FORM /\ d.input_hints = NONE
        /\ ~d.use_preedit /\ d.surrounding = NoAnswer
    BY ContextAssumption DEF Fresh, GtkIMContextSimple, Surroundings
  <2>3. /\ self' = [self EXCEPT ![c] = s] /\ simple' = [simple EXCEPT ![c] = d]
        /\ supplied' = [supplied EXCEPT ![c] = NoAnswer] /\ UNCHANGED stack
        /\ owned' = owned \cup {c} /\ client' = NothingSeen
    BY <1>1 DEF sc_im_context_init
  <2>. HIDE DEF s, d
  <2>4. self'[c] = s /\ simple'[c] = d /\ supplied'[c] = NoAnswer
    BY <2>3, OfContext
  <2>5. NoAnswer \in Surroundings
    BY DEF Surroundings
  <2>6. owned' \subseteq Contexts /\ client'.ctx \in Contexts
    BY <2>3, OfContext, <1>seen
  <2>. QED  BY <2>1, <2>2, <2>3, <2>4, <2>5, <2>6, OneContext
<1>2. ASSUME NEW c \in Contexts, unref(c)  PROVE ContextInvariant'
  <2>1. /\ owned' = owned \ {c} /\ client' = NothingSeen /\ UNCHANGED <<stack, supplied>>
        /\ finalize_unless_kept(c, owned \ {c}, stack)
    BY <1>2 DEF unref
  <2>2. owned' \subseteq Contexts /\ client'.ctx \in Contexts
    BY <2>1, <1>seen, OfContext
  <2>3. CASE dispose(c)
    BY <2>1, <2>2, <2>3, DisposeKeeps
  <2>4. CASE UNCHANGED <<self, simple>>
    BY <2>1, <2>2, <2>4, OfContext, OneContext
  <2>. QED  BY <2>1, <2>3, <2>4, FinalizeStep
<1>3. ASSUME NEW c \in Contexts, run_dispose(c)  PROVE ContextInvariant'
  <2>1. /\ dispose(c) /\ client' = NothingSeen /\ UNCHANGED <<owned, stack, supplied>>
    BY <1>3 DEF run_dispose
  <2>. QED  BY <2>1, <1>seen, OfContext, DisposeKeeps
<1>4. ASSUME NEW c \in Contexts, NEW w \in Wants, forward(c, w)  PROVE ContextInvariant'
  <2>1. /\ Caller(c) /\ client' = NothingSeen /\ UNCHANGED <<owned, self, simple, supplied>>
        /\ \/ stack' = stack
           \/ self[c].delegate /\ stack' = <<Running(c, w)>> \o stack
    BY <1>4, ForwardStep
  <2>p. OnlyPending
    BY <2>1, PendingSame DEF ContextInvariant
  <2>2. CASE stack' = stack
    BY <2>1, <2>2, <2>p, <1>seen, <1>stack, OnlyStack DEF NoPreeditSignal, ContextInvariant
  <2>3. CASE self[c].delegate /\ stack' = <<Running(c, w)>> \o stack
    <3>1. /\ Running(c, w) \in Frames /\ Running(c, w).at = "delegate"
          /\ Running(c, w).ctx = c
      BY DEF Running, Frames
    <3>. QED  BY <2>1, <2>3, <2>p, <3>1, <1>seen, PushKeeps
  <2>. QED  BY <2>1, <2>2, <2>3
<1>5. ASSUME NEW c \in Contexts, NEW use \in BOOLEAN, set_use_preedit(c, use)
      PROVE  ContextInvariant'
  <2>1. /\ client' = NothingSeen /\ UNCHANGED <<owned, self, stack, supplied>>
        /\ simple' = simple \/ simple' = [simple EXCEPT ![c].use_preedit = FALSE]
    BY <1>5 DEF set_use_preedit
  <2>2. CASE simple' = simple
    BY <2>1, <2>2, <1>seen, OfContext, OneContext
  <2>3. CASE simple' = [simple EXCEPT ![c].use_preedit = FALSE]
    <3>. DEFINE d == [simple[c] EXCEPT !.use_preedit = FALSE]
    <3>1. /\ d \in GtkIMContextSimple /\ ~d.use_preedit /\ d.surrounding = simple[c].surrounding
          /\ d.input_purpose = simple[c].input_purpose
          /\ d.input_hints = simple[c].input_hints /\ d.connected = simple[c].connected
      <4>1. simple[c] \in GtkIMContextSimple
        BY OfContext
      <4>. QED  BY <4>1 DEF GtkIMContextSimple
    <3>2. simple' = [simple EXCEPT ![c] = d] /\ simple'[c] = d
      BY <2>3, OfContext
    <3>. HIDE DEF d
    <3>3. /\ self'[c] = self[c] /\ self' = [self EXCEPT ![c] = self'[c]]
          /\ self'[c] \in ScIMContext /\ supplied'[c] = supplied[c]
          /\ supplied' = [supplied EXCEPT ![c] = supplied'[c]]
          /\ supplied'[c] \in Surroundings
          /\ owned' \subseteq Contexts /\ client'.ctx \in Contexts
      BY <2>1, <1>seen, OfContext
    <3>4. /\ self'[c].delegate => /\ simple'[c].input_purpose = self'[c].input_purpose
                                  /\ simple'[c].input_hints = self'[c].input_hints
                                  /\ ~simple'[c].use_preedit
          /\ simple'[c].connected => self'[c].delegate
          /\ simple'[c].surrounding = supplied'[c]
      BY <3>1, <3>2, <3>3, OfContext
    <3>. QED  BY <2>1, <3>1, <3>2, <3>3, <3>4, OneContext
  <2>. QED  BY <2>1, <2>2, <2>3
<1>6. ASSUME NEW c \in Contexts, NEW s \in Surroundings, set_surrounding_with_selection(c, s)
      PROVE  ContextInvariant'
  <2>1. /\ client' = NothingSeen /\ UNCHANGED <<owned, self, stack>>
        /\ \/ UNCHANGED <<simple, supplied>>
           \/ /\ simple' = [simple EXCEPT ![c].surrounding = s]
              /\ supplied' = [supplied EXCEPT ![c] = s]
    BY <1>6 DEF set_surrounding_with_selection
  <2>2. CASE UNCHANGED <<simple, supplied>>
    BY <2>1, <2>2, <1>seen, OfContext, OneContext
  <2>3. CASE /\ simple' = [simple EXCEPT ![c].surrounding = s]
             /\ supplied' = [supplied EXCEPT ![c] = s]
    <3>. DEFINE d == [simple[c] EXCEPT !.surrounding = s]
    <3>1. /\ d \in GtkIMContextSimple /\ d.surrounding = s
          /\ d.use_preedit = simple[c].use_preedit
          /\ d.input_purpose = simple[c].input_purpose
          /\ d.input_hints = simple[c].input_hints /\ d.connected = simple[c].connected
      BY OfContext DEF GtkIMContextSimple
    <3>2. simple' = [simple EXCEPT ![c] = d] /\ simple'[c] = d /\ supplied'[c] = s
      BY <2>3, OfContext
    <3>. HIDE DEF d
    <3>3. /\ supplied' = [supplied EXCEPT ![c] = supplied'[c]] /\ supplied'[c] \in Surroundings
          /\ simple' = [simple EXCEPT ![c] = simple'[c]]
          /\ simple'[c] \in GtkIMContextSimple
      BY <2>3, <3>1, <3>2
    <3>4. /\ self'[c] = self[c] /\ self' = [self EXCEPT ![c] = self'[c]]
          /\ self'[c] \in ScIMContext /\ owned' = owned /\ owned' \subseteq Contexts
          /\ client'.ctx \in Contexts /\ stack' = stack
      BY <2>1, <1>seen, OfContext
    <3>5. /\ self'[c].delegate => /\ simple'[c].input_purpose = self'[c].input_purpose
                                  /\ simple'[c].input_hints = self'[c].input_hints
                                  /\ ~simple'[c].use_preedit
          /\ simple'[c].connected => self'[c].delegate
          /\ simple'[c].surrounding = supplied'[c]
      BY <3>1, <3>2, <3>4, OfContext
    <3>. QED  BY <3>3, <3>4, <3>5, OneContext
  <2>. QED  BY <2>1, <2>2, <2>3
<1>7. ASSUME NEW c \in Contexts, NEW field \in {"input_purpose", "input_hints"}, NEW v,
             field = "input_purpose" => v \in Purposes, field = "input_hints" => v \in Hints,
             set_property(c, field, v)
      PROVE  ContextInvariant'
  <2>. DEFINE s == [self[c] EXCEPT ![field] = v]
              d == [simple[c] EXCEPT ![field] = v]
  <2>1. /\ client' = NothingSeen /\ UNCHANGED <<owned, stack, supplied>>
        /\ self' = [self EXCEPT ![c][field] = v]
        /\ simple' = IF self[c].delegate
                     THEN [simple EXCEPT ![c][field] = v] ELSE simple
    BY <1>7 DEF set_property
  <2>2. /\ s \in ScIMContext /\ s.delegate = self[c].delegate
        /\ [self EXCEPT ![c][field] = v] = [self EXCEPT ![c] = s]
        /\ field = "input_purpose" => s.input_purpose = v /\ s.input_hints = self[c].input_hints
        /\ field = "input_hints" => s.input_hints = v /\ s.input_purpose = self[c].input_purpose
    BY <1>7, SetField, OfContext
  <2>3. /\ d \in GtkIMContextSimple /\ d.use_preedit = simple[c].use_preedit
        /\ d.connected = simple[c].connected /\ d.surrounding = simple[c].surrounding
        /\ [simple EXCEPT ![c][field] = v] = [simple EXCEPT ![c] = d]
        /\ field = "input_purpose" => d.input_purpose = v /\ d.input_hints = simple[c].input_hints
        /\ field = "input_hints" => d.input_hints = v /\ d.input_purpose = simple[c].input_purpose
    BY <1>7, SetDelegateField, OfContext
  <2>. HIDE DEF s, d
  <2>4. self' = [self EXCEPT ![c] = s] /\ self'[c] = s
    BY <2>1, <2>2, OfContext
  <2>5. CASE self[c].delegate
    <3>1. simple' = [simple EXCEPT ![c] = d] /\ simple'[c] = d
      BY <2>1, <2>3, <2>5, OfContext
    <3>2. d.input_purpose = s.input_purpose /\ d.input_hints = s.input_hints /\ ~d.use_preedit
      BY <2>2, <2>3, <2>5, OfContext
    <3>. QED  BY <2>1, <2>2, <2>3, <2>4, <3>1, <3>2, <1>seen, OfContext, OneContext
  <2>6. CASE ~self[c].delegate
    <3>1. simple' = simple
      BY <2>1, <2>6
    <3>. QED  BY <2>1, <2>2, <2>4, <2>6, <3>1, <1>seen, OfContext, OneContext
  <2>. QED  BY <2>5, <2>6
<1>8. ASSUME NEW c \in Contexts, draw_preedit(c)  PROVE ContextInvariant'
  <2>1. client'.ctx = c /\ UNCHANGED <<owned, self, simple, stack, supplied>>
    BY <1>8 DEF draw_preedit, Sees
  <2>. QED  BY <2>1, OfContext, OneContext
<1>9. ASSUME NEW c \in Contexts, hold(c)  PROVE ContextInvariant'
  <2>1. PICK accent \in Literals : simple' = [simple EXCEPT ![c].pending = accent]
    BY <1>9 DEF hold
  <2>2. OnlyPending
    BY <2>1, PendingSet DEF ContextInvariant
  <2>3. client' = NothingSeen /\ UNCHANGED <<owned, self, stack, supplied>>
    BY <1>9 DEF hold
  <2>. QED  BY <2>2, <2>3, <1>seen, <1>stack, OnlyStack DEF NoPreeditSignal, ContextInvariant
<1>10. ASSUME NEW c \in Contexts, abandon(c)  PROVE ContextInvariant'
  <2>1. client' = NothingSeen /\ UNCHANGED <<owned, self, stack, supplied>>
    BY <1>10 DEF abandon
  <2>2. OnlyPending
    BY <1>10, PendingSet DEF abandon, ContextInvariant
  <2>. QED  BY <2>1, <2>2, <1>seen, <1>stack, OnlyStack DEF NoPreeditSignal, ContextInvariant
\* Whatever signal the delegate emits.
<1>11. ASSUME NEW c \in Contexts, NEW sig, NEW t, sig = "commit" \/ t = <<>>,
              connect_delegate(c, sig, t), OnlyPending, UNCHANGED <<owned, self, supplied>>
       PROVE  ContextInvariant'
  <2>1. CASE stack' = stack /\ client' = NothingSeen
    BY <1>11, <2>1, <1>seen, <1>stack, OnlyStack DEF NoPreeditSignal, ContextInvariant
  <2>2. CASE /\ simple[c].connected /\ sig \in Signals \ PreeditSignals
             /\ stack' = <<Handling(c, sig)>> \o stack
             /\ client' = [ctx |-> c, text |-> t, got |-> NoAnswer]
    <3>1. /\ Handling(c, sig) \in Frames /\ Handling(c, sig).at = "client"
          /\ Handling(c, sig).name \notin PreeditSignals
      BY <2>2 DEF Handling, Frames
    <3>2. client'.ctx \in Contexts
      BY <2>2
    <3>. QED  BY <1>11, <2>2, <3>1, <3>2, PushKeeps
  <2>. QED  BY <1>11, <2>1, <2>2, SignalStep
<1>12. ASSUME NEW c \in Contexts, finish(c)  PROVE ContextInvariant'
  <2>1. OnlyPending /\ UNCHANGED <<owned, self, supplied>>
    BY <1>12, PendingSet DEF finish, ContextInvariant
  <2>2. PICK t \in Spellings(simple[c].pending) : connect_delegate(c, "commit", t)
    BY <1>12 DEF finish
  <2>. QED  BY <2>1, <2>2, <1>11
<1>13. ASSUME NEW c \in Contexts, symbol(c)  PROVE ContextInvariant'
  <2>1. OnlyPending /\ UNCHANGED <<owned, self, supplied>>
    BY <1>13, PendingSame DEF symbol, ContextInvariant
  <2>2. PICK s \in Symbols : connect_delegate(c, "commit", <<s>>)
    BY <1>13 DEF symbol
  <2>. QED  BY <2>1, <2>2, <1>11
<1>14. ASSUME NEW c \in Contexts, NEW sig \in Signals, signal(c, sig)  PROVE ContextInvariant'
  <2>1. OnlyPending /\ UNCHANGED <<owned, self, supplied>>
    BY <1>14, PendingSame DEF signal, ContextInvariant
  <2>2. connect_delegate(c, sig, <<>>)
    BY <1>14 DEF signal
  <2>. QED  BY <2>1, <2>2, <1>11
<1>15. ASSUME NEW r \in BOOLEAN, handler_returns(r)  PROVE ContextInvariant'
  <2>1. /\ stack # <<>> /\ Head(stack).at = "client"
        /\ client' = NothingSeen /\ UNCHANGED <<owned, supplied>>
        /\ \/ stack' = Tail(stack)
           \/ Tail(stack) # <<>> /\ stack' = [Tail(stack) EXCEPT ![1].told = r]
        /\ finalize_unless_kept(Head(stack).ctx, owned, Tail(stack))
    BY <1>15 DEF handler_returns
  <2>2. /\ stack' \in Seq(Frames) /\ Head(stack) \in Frames /\ NoPreeditSignal'
        /\ \A x : In(x, "delegate", stack') => In(x, "delegate", stack)
    BY <2>1, PopFacts DEF ContextInvariant
  <2>3. PICK c \in Contexts : c = Head(stack).ctx
    BY <2>2 DEF Frames
  <2>4. CASE UNCHANGED <<self, simple>>
    BY <2>1, <2>2, <2>4, <1>seen, OnlyStack, PendingSame DEF ContextInvariant
  <2>5. CASE dispose(c) /\ c \notin owned
    <3>1. /\ self' \in [Contexts -> ScIMContext]
          /\ simple' \in [Contexts -> GtkIMContextSimple]
          /\ ~self'[c].delegate /\ ~simple'[c].connected
          /\ \A x \in Contexts : x # c => self'[x] = self[x] /\ simple'[x] = simple[x]
          /\ \A x \in Contexts : simple'[x].surrounding = simple[x].surrounding
      BY <2>5, DisposeStep DEF ContextInvariant
    <3>2. TypeOK'
      BY <2>1, <2>2, <3>1, <1>seen DEF TypeOK, ContextInvariant
    <3>3. DelegateFollows'
      BY <3>1 DEF DelegateFollows, ContextInvariant, get_property
    <3>4. ConnectedHasWrapper' /\ SuppliedReached'
      BY <2>1, <3>1 DEF ConnectedHasWrapper, SuppliedReached, ContextInvariant
    <3>. QED  BY <2>2, <3>2, <3>3, <3>4 DEF ContextInvariant
  <2>. QED  BY <2>1, <2>3, <2>4, <2>5, FinalizeStep
<1>16. ASSUME call_returns  PROVE ContextInvariant'
  <2>1. /\ stack # <<>> /\ stack' = Tail(stack)
        /\ UNCHANGED <<owned, self, simple, supplied>>
        /\ client' = NothingSeen \/ client'.ctx = Head(stack).ctx
    BY <1>16 DEF call_returns, Sees
  <2>2. /\ stack' \in Seq(Frames) /\ Head(stack) \in Frames /\ NoPreeditSignal'
        /\ \A x : In(x, "delegate", stack') => In(x, "delegate", stack)
    BY <2>1, PopFacts DEF ContextInvariant
  <2>3. client'.ctx \in Contexts
    BY <2>1, <2>2, <1>seen DEF Frames
  <2>. QED  BY <2>1, <2>2, <2>3, OnlyStack, PendingSame DEF ContextInvariant
<1>17. /\ \A c \in Contexts : \A p \in Purposes :
            set_property(c, "input_purpose", p) => ContextInvariant'
       /\ \A c \in Contexts : \A h \in Hints :
            set_property(c, "input_hints", h) => ContextInvariant'
  BY <1>7
<1>. QED  BY <1>1, <1>2, <1>3, <1>4, <1>5, <1>6, <1>8, <1>9, <1>10, <1>12, <1>13, <1>14,
             <1>15, <1>16, <1>17, Steps

-----------------------------------------------------------------------------
(* Theorems.                                                               *)

LEMMA InvariantAlways == Spec => []ContextInvariant
<1>. QED  BY InitialInvariant, InvariantKept, InvariantUnchanged, PTL DEF Spec

\* The state has its types.
THEOREM TypeCorrect == Spec => []TypeOK
BY InvariantAlways, PTL DEF ContextInvariant

\* The module's "critical invariant" (context.c:198): no handler of an
\* application ever runs for a preedit signal.
THEOREM PreeditNeverReachesClient == Spec => []NoPreeditSignal
BY InvariantAlways, PTL DEF ContextInvariant

\* Purpose and hints on the delegate are those of its wrapper, and it never
\* leaves no-preedit mode.
THEOREM DelegateAlwaysFollows == Spec => []DelegateFollows
BY InvariantAlways, PTL DEF ContextInvariant

\* What a step may push on the stack.
LEMMA PushesSignalOfConnected ==
  ASSUME ContextInvariant, Next, Len(stack') > Len(stack), Head(stack').at = "client"
  PROVE  self[Head(stack').ctx].delegate
<1>stack. stack \in Seq(Frames) /\ Len(stack) \in Nat
  BY DEF ContextInvariant, TypeOK
<1>1. ASSUME NEW c \in Contexts, NEW sig, NEW t, sig = "commit" \/ t = <<>>,
             connect_delegate(c, sig, t)
      PROVE  self[Head(stack').ctx].delegate
  <2>1. stack' # stack
    BY <1>stack
  <2>2. simple[c].connected /\ stack' = <<Handling(c, sig)>> \o stack /\ sig \in Signals
    BY <1>1, <2>1, SignalStep
  <2>3. Handling(c, sig) \in Frames /\ Handling(c, sig).ctx = c
    BY <2>2 DEF Handling, Frames
  <2>4. Head(stack') = Handling(c, sig)
    BY <1>stack, <2>2, <2>3, Pushed
  <2>. QED  BY <2>2, <2>3, <2>4 DEF ContextInvariant, ConnectedHasWrapper
<1>2. ASSUME NEW c \in Contexts, NEW w \in Wants, forward(c, w)  PROVE FALSE
  <2>1. stack' = <<Running(c, w)>> \o stack
    BY <1>2, <1>stack, ForwardStep
  <2>2. Running(c, w) \in Frames /\ Running(c, w).at = "delegate"
    BY DEF Running, Frames
  <2>3. Head(stack') = Running(c, w)
    BY <1>stack, <2>1, <2>2, Pushed
  <2>. QED  BY <2>2, <2>3
<1>3. ASSUME NEW r \in BOOLEAN, handler_returns(r)  PROVE FALSE
  <2>1. /\ stack # <<>>
        /\ \/ stack' = Tail(stack)
           \/ Tail(stack) # <<>> /\ stack' = [Tail(stack) EXCEPT ![1].told = r]
    BY <1>3 DEF handler_returns
  <2>2. stack' \in Seq(Frames) /\ Len(stack') < Len(stack)
    BY <2>1, PopFacts DEF ContextInvariant
  <2>. QED  BY <2>2, <1>stack
<1>4. ~call_returns
  BY <1>stack, Popped DEF call_returns
<1>5. \A c \in Contexts :
        /\ ~sc_im_context_init(c) /\ ~unref(c) /\ ~run_dispose(c) /\ ~draw_preedit(c)
        /\ \A use \in BOOLEAN : ~set_use_preedit(c, use)
        /\ \A s \in Surroundings : ~set_surrounding_with_selection(c, s)
        /\ \A p \in Purposes : ~set_property(c, "input_purpose", p)
        /\ \A h \in Hints : ~set_property(c, "input_hints", h)
        /\ ~hold(c) /\ ~abandon(c)
  <2>1. stack' # stack
    BY <1>stack
  <2>. QED  BY <2>1 DEF sc_im_context_init, unref, run_dispose, draw_preedit, set_use_preedit,
            set_surrounding_with_selection, set_property, hold, abandon
<1>6. ASSUME NEW c \in Contexts, finish(c) \/ symbol(c)
                                 \/ \E sig \in Signals \ {"commit"} : signal(c, sig)
      PROVE  self[Head(stack').ctx].delegate
  BY <1>1, <1>6 DEF finish, symbol, signal
<1>. QED  BY <1>2, <1>3, <1>4, <1>5, <1>6, Steps

\* A delegate that outlives the disposal of its wrapper reaches no handler.
THEOREM SilenceAfterDispose == Spec => SilentAfterDispose
<1>1. ContextInvariant /\ [Next]_vars
        => [Len(stack') > Len(stack) /\ Head(stack').at = "client"
              => self[Head(stack').ctx].delegate]_vars
  BY PushesSignalOfConnected
<1>. QED  BY <1>1, InvariantAlways, PTL DEF Spec, SilentAfterDispose

\* An answer comes out of a call that was about the same context.
LEMMA AnswerSupplied ==
  ASSUME ContextInvariant, Next, client'.got # NoAnswer
  PROVE  LET s == supplied[client'.ctx] IN s # NoAnswer /\ client'.got \in {s, <<s[1]>>}
<1>blank. client' # NothingSeen
  BY DEF NothingSeen
<1>1. ASSUME call_returns
      PROVE  LET s == supplied[client'.ctx] IN s # NoAnswer /\ client'.got \in {s, <<s[1]>>}
  <2>. DEFINE c == Head(stack).ctx
              s == simple[c].surrounding
  <2>1. /\ s # NoAnswer
        /\ client' = [ctx |-> c, text |-> <<>>, got |-> s]
           \/ client' = [ctx |-> c, text |-> <<>>, got |-> <<s[1]>>]
    BY <1>1, <1>blank, Blank DEF call_returns, Sees
  <2>2. c \in Contexts
    <3>1. stack # <<>> /\ stack \in Seq(Frames)
      BY <1>1 DEF call_returns, ContextInvariant, TypeOK
    <3>. QED  BY <3>1, Popped DEF Frames
  <2>3. s = supplied[c]
    BY <2>2 DEF ContextInvariant, SuppliedReached
  <2>. HIDE DEF s, c
  <2>. QED  BY <2>1, <2>3
<1>2. ASSUME NEW c \in Contexts, NEW sig, NEW t, sig = "commit" \/ t = <<>>,
             connect_delegate(c, sig, t)
      PROVE  FALSE
  <2>1. NothingSeen.got = NoAnswer
    BY DEF NothingSeen
  <2>2. client' = NothingSeen \/ client' = [ctx |-> c, text |-> t, got |-> NoAnswer]
    BY <1>2, SignalStep
  <2>3. client'.got = NoAnswer
    BY <2>1, <2>2
  <2>. QED  BY <2>3
<1>3. ASSUME NEW c \in Contexts, finish(c) \/ symbol(c)
                                 \/ \E sig \in Signals \ {"commit"} : signal(c, sig)
      PROVE  FALSE
  BY <1>2, <1>3 DEF finish, symbol, signal
<1>4. ASSUME NEW c \in Contexts  PROVE ~draw_preedit(c)
  BY DEF draw_preedit, Sees
<1>5. \A c \in Contexts :
        /\ ~sc_im_context_init(c) /\ ~unref(c) /\ ~run_dispose(c)
        /\ \A w \in Wants : ~forward(c, w)
        /\ \A use \in BOOLEAN : ~set_use_preedit(c, use)
        /\ \A s \in Surroundings : ~set_surrounding_with_selection(c, s)
        /\ \A p \in Purposes : ~set_property(c, "input_purpose", p)
        /\ \A h \in Hints : ~set_property(c, "input_hints", h)
        /\ ~hold(c) /\ ~abandon(c)
  BY <1>blank, Blank DEF sc_im_context_init, unref, run_dispose, forward, set_use_preedit,
     set_surrounding_with_selection, set_property, hold, abandon
<1>6. \A r \in BOOLEAN : ~handler_returns(r)
  BY <1>blank, Blank DEF handler_returns
<1>. QED  BY <1>1, <1>3, <1>4, <1>5, <1>6, Steps

\* The surrounding text a call brings back is what the application last
\* supplied to the same context.
THEOREM AnswersCorrect == Spec => AnswersAreTheClients
<1>1. ContextInvariant /\ [Next]_vars
        => [client'.got # NoAnswer =>
              LET s == supplied[client'.ctx]
              IN  s # NoAnswer /\ client'.got \in {s, <<s[1]>>}]_vars
  BY AnswerSupplied
<1>. QED  BY <1>1, InvariantAlways, PTL DEF Spec, AnswersAreTheClients

-----------------------------------------------------------------------------
(* The refinement.                                                         *)

LEMMA MappedView ==
  /\ \A c \in Contexts : TextIn(c) = IF client.ctx = c THEN client.text ELSE <<>>
  /\ \A c \in Contexts : TextIn(c)' = IF client'.ctx = c THEN client'.text ELSE <<>>
  /\ \A c \in Contexts : HeldIn(c) = IF DelegateAlive(c) THEN simple[c].pending ELSE 0
  /\ \A c \in Contexts :
       HeldIn(c)' = IF self'[c].delegate \/ In(c, "client", stack')
                    THEN simple'[c].pending ELSE 0
BY DEF TextIn, HeldIn, DelegateAlive, Emitting

\* A step that shows no text, and in which at most one context lets go of an accent.
LEMMA QuietStep ==
  ASSUME NEW c \in Contexts, client'.text = <<>>,
         \A x \in Contexts : x # c => HeldIn(x)' = HeldIn(x),
         HeldIn(c)' \in {HeldIn(c), 0}
  PROVE  Promise!Next
<1>. DEFINE h == [x \in Contexts |-> HeldIn(x)]
            t == [x \in Contexts |-> TextIn(x)]
<1>1. \A x \in Contexts : TextIn(x)' = <<>>
  BY MappedView
<1>2. t' = [x \in Contexts |-> <<>>]
  BY <1>1
<1>3. t' = [x \in Contexts |-> IF x = c THEN <<>> ELSE <<>>]
  BY <1>2
<1>4. CASE HeldIn(c)' = HeldIn(c)
  <2>1. h' = h
    BY <1>4
  <2>2. Promise!Rest(c)
    BY <1>3, <2>1 DEF Promise!Rest, Promise!OnlyIn
  <2>. QED  BY <2>2 DEF Promise!Next
<1>5. CASE HeldIn(c)' = 0 /\ HeldIn(c) # 0
  <2>1. h' = [h EXCEPT ![c] = 0] /\ h[c] # 0
    BY <1>5
  <2>2. Promise!Abandon(c)
    BY <1>3, <2>1 DEF Promise!Abandon, Promise!OnlyIn, Promise!Nothing
  <2>. QED  BY <2>2 DEF Promise!Next
<1>. QED  BY <1>4, <1>5

\* A step that shows text t in context c, of which the accent is done or which has none.
LEMMA TextStep ==
  ASSUME NEW c \in Contexts, NEW t, client' = [ctx |-> c, text |-> t, got |-> NoAnswer],
         \A x \in Contexts : x # c => HeldIn(x)' = HeldIn(x),
         HeldIn(c)' = 0,
         HeldIn(c) = 0 => Len(t) = 1,
         HeldIn(c) # 0 => Promise!SpelledFrom(HeldIn(c), t)
  PROVE  Promise!Next
<1>. DEFINE h == [x \in Contexts |-> HeldIn(x)]
            v == [x \in Contexts |-> TextIn(x)]
<1>1. \A x \in Contexts : TextIn(x)' = IF x = c THEN t ELSE <<>>
  BY MappedView
<1>2. v' = [x \in Contexts |-> IF x = c THEN t ELSE <<>>] /\ v'[c] = t
  BY <1>1
<1>3. CASE HeldIn(c) = 0
  <2>1. h' = h /\ h[c] = 0
    BY <1>3
  <2>2. Promise!Symbol(c)
    BY <1>2, <1>3, <2>1 DEF Promise!Symbol, Promise!OnlyIn, Promise!Nothing
  <2>. QED  BY <2>2 DEF Promise!Next
<1>4. CASE HeldIn(c) # 0
  <2>1. h' = [h EXCEPT ![c] = 0] /\ h[c] = HeldIn(c)
    OBVIOUS
  <2>2. Promise!Finish(c)
    BY <1>2, <1>4, <2>1 DEF Promise!Finish, Promise!OnlyIn, Promise!Nothing
  <2>. QED  BY <2>2 DEF Promise!Next
<1>. QED  BY <1>3, <1>4

LEMMA SpellingsSpell ==
  ASSUME NEW accent, NEW t \in Spellings(accent)
  PROVE  Promise!SpelledFrom(accent, t)
<1>1. CASE t = <<accent>>
  BY <1>1 DEF Promise!SpelledFrom
<1>2. CASE \E s \in Symbols : t = <<accent, s>>
  BY <1>2 DEF Promise!SpelledFrom
<1>3. CASE \E r \in Compositions : r[1] = accent /\ t = <<r[3]>>
  <2>1. PICK r \in Compositions : r[1] = accent /\ t = <<r[3]>>
    BY <1>3
  <2>2. Len(t) = 1 /\ t[1] = r[3]
    BY <2>1
  <2>. QED  BY <2>1, <2>2 DEF Promise!SpelledFrom
<1>. QED  BY <1>1, <1>2, <1>3 DEF Spellings

LEMMA HeldSame ==
  ASSUME NEW x \in Contexts, self'[x].delegate = self[x].delegate,
         simple'[x].pending = simple[x].pending,
         In(x, "client", stack') <=> In(x, "client", stack)
  PROVE  HeldIn(x)' = HeldIn(x)
BY MappedView DEF DelegateAlive, Emitting

\* Steps in which nothing happens to what the delegates hold back.
LEMMA RestStep ==
  ASSUME client'.text = <<>>,
         \A x \in Contexts : /\ self'[x].delegate = self[x].delegate
                             /\ simple'[x].pending = simple[x].pending
                             /\ In(x, "client", stack') <=> In(x, "client", stack)
  PROVE  Promise!Next
<1>1. \A x \in Contexts : HeldIn(x)' = HeldIn(x)
  BY HeldSame
<1>2. PICK c \in Contexts : TRUE
  BY ContextAssumption
<1>. QED  BY <1>1, <1>2, QuietStep

\* Steps in which one context is disposed.
LEMMA DisposeMapped ==
  ASSUME ContextInvariant, NEW c \in Contexts, dispose(c), client'.text = <<>>,
         \A x \in Contexts : x # c => (In(x, "client", stack') <=> In(x, "client", stack)),
         In(c, "client", stack') => In(c, "client", stack)
  PROVE  Promise!Next
<1>1. /\ ~self'[c].delegate
      /\ \A x \in Contexts : x # c => self'[x] = self[x] /\ simple'[x] = simple[x]
      /\ simple'[c].pending = simple[c].pending
  BY DisposeStep DEF ContextInvariant
<1>2. \A x \in Contexts : x # c => HeldIn(x)' = HeldIn(x)
  BY <1>1, HeldSame
<1>3. HeldIn(c)' \in {HeldIn(c), 0}
  BY <1>1, MappedView DEF DelegateAlive, Emitting
<1>. QED  BY <1>2, <1>3, QuietStep

LEMMA StepMaps == ContextInvariant /\ Next => Promise!Next
<1>. SUFFICES ASSUME ContextInvariant, Next PROVE Promise!Next
  OBVIOUS
<1>. USE Blank
<1>seen. NothingSeen.text = <<>>
  BY DEF NothingSeen
<1>stack. stack \in Seq(Frames)
  BY DEF ContextInvariant, TypeOK
<1>1. ASSUME NEW c \in Contexts, sc_im_context_init(c)  PROVE Promise!Next
  <2>. DEFINE s == [NoSelf EXCEPT !.delegate = TRUE]
              d == [Fresh EXCEPT !.use_preedit = FALSE, !.connected = TRUE]
  <2>1. /\ self' = [self EXCEPT ![c] = s] /\ simple' = [simple EXCEPT ![c] = d]
        /\ UNCHANGED stack /\ client' = NothingSeen
    BY <1>1 DEF sc_im_context_init
  <2>2. d.pending = 0
    BY DEF Fresh
  <2>. HIDE DEF s, d
  <2>3. simple'[c] = d /\ \A x \in Contexts : x # c => self'[x] = self[x] /\ simple'[x] = simple[x]
    BY <2>1, OfContext
  <2>4. HeldIn(c)' = 0
    BY <2>2, <2>3, MappedView
  <2>5. \A x \in Contexts : x # c => HeldIn(x)' = HeldIn(x)
    BY <2>1, <2>3, HeldSame
  <2>. QED  BY <2>1, <2>4, <2>5, <1>seen, QuietStep
<1>2. ASSUME NEW c \in Contexts, unref(c)  PROVE Promise!Next
  <2>1. /\ client' = NothingSeen /\ stack' = stack
        /\ finalize_unless_kept(c, owned \ {c}, stack)
    BY <1>2 DEF unref
  <2>2. CASE dispose(c)
    BY <2>1, <2>2, <1>seen, DisposeMapped
  <2>3. CASE UNCHANGED <<self, simple>>
    BY <2>1, <2>3, <1>seen, RestStep
  <2>. QED  BY <2>1, <2>2, <2>3, FinalizeStep
<1>3. ASSUME NEW c \in Contexts, run_dispose(c)  PROVE Promise!Next
  BY <1>3, <1>seen, DisposeMapped DEF run_dispose
<1>4. ASSUME NEW c \in Contexts, NEW w \in Wants, forward(c, w)  PROVE Promise!Next
  <2>1. /\ client' = NothingSeen /\ UNCHANGED <<self, simple>>
        /\ stack' = stack \/ stack' = <<Running(c, w)>> \o stack
    BY <1>4, ForwardStep
  <2>2. Running(c, w) \in Frames /\ Running(c, w).at = "delegate"
    BY DEF Running, Frames
  <2>3. \A x \in Contexts :
          In(x, "client", <<Running(c, w)>> \o stack) <=> In(x, "client", stack)
    BY <2>2, <1>stack, InPushed
  <2>4. CASE stack' = stack
    BY <2>1, <2>4, <1>seen, RestStep
  <2>5. CASE stack' = <<Running(c, w)>> \o stack
    BY <2>1, <2>3, <2>5, <1>seen, RestStep
  <2>. QED  BY <2>1, <2>4, <2>5
<1>5. ASSUME NEW c \in Contexts, NEW use \in BOOLEAN, set_use_preedit(c, use)
      PROVE  Promise!Next
  <2>1. /\ client' = NothingSeen /\ UNCHANGED <<self, stack>>
        /\ simple' = simple \/ simple' = [simple EXCEPT ![c].use_preedit = FALSE]
    BY <1>5 DEF set_use_preedit
  <2>2. \A x \in Contexts : simple'[x].pending = simple[x].pending
    BY <2>1, OfContext DEF GtkIMContextSimple
  <2>. QED  BY <2>1, <2>2, <1>seen, RestStep
<1>6. ASSUME NEW c \in Contexts, NEW s \in Surroundings, set_surrounding_with_selection(c, s)
      PROVE  Promise!Next
  <2>1. /\ client' = NothingSeen /\ UNCHANGED <<self, stack>>
        /\ simple' = simple \/ simple' = [simple EXCEPT ![c].surrounding = s]
    BY <1>6 DEF set_surrounding_with_selection
  <2>2. \A x \in Contexts : simple'[x].pending = simple[x].pending
    BY <2>1, OfContext DEF GtkIMContextSimple
  <2>. QED  BY <2>1, <2>2, <1>seen, RestStep
<1>7. ASSUME NEW c \in Contexts, NEW field \in {"input_purpose", "input_hints"}, NEW v,
             field = "input_purpose" => v \in Purposes, field = "input_hints" => v \in Hints,
             set_property(c, field, v)
      PROVE  Promise!Next
  <2>1. /\ client' = NothingSeen /\ UNCHANGED stack
        /\ self' = [self EXCEPT ![c][field] = v]
        /\ simple' = simple \/ simple' = [simple EXCEPT ![c][field] = v]
    BY <1>7 DEF set_property
  <2>. DEFINE s == [self[c] EXCEPT ![field] = v]
              d == [simple[c] EXCEPT ![field] = v]
  <2>2. s.delegate = self[c].delegate /\ self' = [self EXCEPT ![c] = s]
    BY <1>7, <2>1, SetField, OfContext
  <2>3. d.pending = simple[c].pending /\ (simple' = simple \/ simple' = [simple EXCEPT ![c] = d])
    BY <1>7, <2>1, SetDelegateField, OfContext
  <2>. HIDE DEF s, d
  <2>4. \A x \in Contexts : self'[x].delegate = self[x].delegate
    BY <2>2, OfContext
  <2>5. \A x \in Contexts : simple'[x].pending = simple[x].pending
    BY <2>3, OfContext
  <2>. QED  BY <2>1, <2>4, <2>5, <1>seen, RestStep
<1>8. ASSUME NEW c \in Contexts, draw_preedit(c)  PROVE Promise!Next
  <2>1. client'.text = <<>> /\ UNCHANGED <<self, simple, stack>>
    BY <1>8 DEF draw_preedit, Sees, get_preedit_string
  <2>. QED  BY <2>1, RestStep
<1>9. ASSUME NEW c \in Contexts, hold(c)  PROVE Promise!Next
  <2>1. PICK accent \in Literals : simple' = [simple EXCEPT ![c].pending = accent]
    BY <1>9 DEF hold
  <2>2. /\ client' = NothingSeen /\ UNCHANGED <<self, stack>> /\ simple[c].pending = 0
        /\ DelegateAlive(c)
    BY <1>9 DEF hold, DelegatesTurn
  <2>3. simple'[c].pending = accent /\ \A x \in Contexts : x # c => simple'[x] = simple[x]
    BY <2>1, PendingSet DEF ContextInvariant
  <2>4. HeldIn(c) = 0 /\ HeldIn(c)' = accent
    BY <2>2, <2>3, MappedView DEF DelegateAlive, Emitting
  <2>5. \A x \in Contexts : x # c => HeldIn(x)' = HeldIn(x)
    BY <2>2, <2>3, HeldSame
  <2>. DEFINE h == [x \in Contexts |-> HeldIn(x)]
              v == [x \in Contexts |-> TextIn(x)]
  <2>6. h' = [h EXCEPT ![c] = accent] /\ h[c] = 0
    BY <2>4, <2>5
  <2>7. \A x \in Contexts : TextIn(x)' = <<>>
    BY <2>2, <1>seen, MappedView
  <2>8. v' = [x \in Contexts |-> IF x = c THEN <<>> ELSE <<>>]
    BY <2>7
  <2>9. Promise!Hold(c, accent)
    BY <2>6, <2>8 DEF Promise!Hold, Promise!OnlyIn, Promise!Nothing
  <2>. QED  BY <2>9 DEF Promise!Next
<1>10. ASSUME NEW c \in Contexts, abandon(c)  PROVE Promise!Next
  <2>1. client' = NothingSeen /\ UNCHANGED <<self, stack>>
        /\ simple' = [simple EXCEPT ![c].pending = 0]
    BY <1>10 DEF abandon
  <2>2. simple'[c].pending = 0 /\ \A x \in Contexts : x # c => simple'[x] = simple[x]
    BY <2>1, PendingSet DEF ContextInvariant
  <2>3. HeldIn(c)' = 0
    BY <2>2, MappedView
  <2>4. \A x \in Contexts : x # c => HeldIn(x)' = HeldIn(x)
    BY <2>1, <2>2, HeldSame
  <2>. QED  BY <2>1, <2>3, <2>4, <1>seen, QuietStep
\* A handler that starts keeps a delegate that was alive anyway.
<1>11. ASSUME NEW c \in Contexts, NEW sig, stack' = <<Handling(c, sig)>> \o stack, sig \in Signals
       PROVE  /\ \A x \in Contexts : x # c => (In(x, "client", stack') <=> In(x, "client", stack))
              /\ In(c, "client", stack')
  <2>1. Handling(c, sig) \in Frames /\ Handling(c, sig).ctx = c /\ Handling(c, sig).at = "client"
    BY <1>11 DEF Handling, Frames
  <2>. QED  BY <1>11, <2>1, <1>stack, InPushed
<1>12. ASSUME NEW c \in Contexts, finish(c)  PROVE Promise!Next
  <2>1. /\ UNCHANGED self /\ simple[c].pending # 0 /\ DelegateAlive(c)
        /\ simple' = [simple EXCEPT ![c].pending = 0]
    BY <1>12 DEF finish, DelegatesTurn
  <2>2. PICK t \in Spellings(simple[c].pending) : connect_delegate(c, "commit", t)
    BY <1>12 DEF finish
  <2>3. simple'[c].pending = 0 /\ \A x \in Contexts : x # c => simple'[x] = simple[x]
    BY <2>1, PendingSet DEF ContextInvariant
  <2>4. HeldIn(c)' = 0 /\ HeldIn(c) = simple[c].pending
    BY <2>1, <2>3, MappedView
  <2>5. CASE stack' = stack /\ client' = NothingSeen
    <3>1. \A x \in Contexts : x # c => HeldIn(x)' = HeldIn(x)
      BY <2>1, <2>3, <2>5, HeldSame
    <3>. QED  BY <2>4, <2>5, <3>1, <1>seen, QuietStep
  <2>6. CASE /\ stack' = <<Handling(c, "commit")>> \o stack /\ "commit" \in Signals
             /\ client' = [ctx |-> c, text |-> t, got |-> NoAnswer]
    <3>1. \A x \in Contexts : x # c => HeldIn(x)' = HeldIn(x)
      BY <2>1, <2>3, <2>6, <1>11, HeldSame
    <3>2. Promise!SpelledFrom(HeldIn(c), t)
      BY <2>2, <2>4, SpellingsSpell
    <3>. QED  BY <2>1, <2>4, <2>6, <3>1, <3>2, TextStep
  <2>. QED  BY <2>2, <2>5, <2>6, SignalStep
<1>13. ASSUME NEW c \in Contexts, symbol(c)  PROVE Promise!Next
  <2>1. UNCHANGED <<self, simple>> /\ simple[c].pending = 0 /\ DelegateAlive(c)
    BY <1>13 DEF symbol, DelegatesTurn
  <2>2. PICK s \in Symbols : connect_delegate(c, "commit", <<s>>)
    BY <1>13 DEF symbol
  <2>3. HeldIn(c)' = 0 /\ HeldIn(c) = 0
    BY <2>1, MappedView
  <2>4. CASE stack' = stack /\ client' = NothingSeen
    BY <2>1, <2>4, <1>seen, RestStep
  <2>5. CASE /\ stack' = <<Handling(c, "commit")>> \o stack /\ "commit" \in Signals
             /\ client' = [ctx |-> c, text |-> <<s>>, got |-> NoAnswer]
    <3>1. \A x \in Contexts : x # c => HeldIn(x)' = HeldIn(x)
      BY <2>1, <2>5, <1>11, HeldSame
    <3>2. Len(<<s>>) = 1
      OBVIOUS
    <3>. QED  BY <2>3, <2>5, <3>1, <3>2, TextStep
  <2>. QED  BY <2>2, <2>4, <2>5, SignalStep
<1>14. ASSUME NEW c \in Contexts, NEW sig \in Signals, signal(c, sig)  PROVE Promise!Next
  <2>1. UNCHANGED <<self, simple>> /\ DelegateAlive(c) /\ connect_delegate(c, sig, <<>>)
    BY <1>14 DEF signal, DelegatesTurn
  <2>2. CASE stack' = stack /\ client' = NothingSeen
    BY <2>1, <2>2, <1>seen, RestStep
  <2>3. CASE /\ stack' = <<Handling(c, sig)>> \o stack
             /\ client' = [ctx |-> c, text |-> <<>>, got |-> NoAnswer]
    <3>1. \A x \in Contexts : x # c => HeldIn(x)' = HeldIn(x)
      BY <2>1, <2>3, <1>11, HeldSame
    <3>2. HeldIn(c)' = HeldIn(c)
      BY <2>1, <2>3, <1>11, MappedView DEF DelegateAlive, Emitting
    <3>. QED  BY <2>3, <3>1, <3>2, QuietStep
  <2>. QED  BY <2>1, <2>2, <2>3, SignalStep
<1>15. ASSUME NEW r \in BOOLEAN, handler_returns(r)  PROVE Promise!Next
  <2>1. /\ stack # <<>> /\ Head(stack).at = "client" /\ client' = NothingSeen
        /\ \/ stack' = Tail(stack)
           \/ Tail(stack) # <<>> /\ stack' = [Tail(stack) EXCEPT ![1].told = r]
        /\ finalize_unless_kept(Head(stack).ctx, owned, Tail(stack))
    BY <1>15 DEF handler_returns
  <2>2. /\ Head(stack) \in Frames
        /\ \A x, at : In(x, at, stack)
                         <=> (Head(stack).ctx = x /\ Head(stack).at = at) \/ In(x, at, stack')
    BY <2>1, PopFacts DEF ContextInvariant
  <2>3. PICK c \in Contexts : c = Head(stack).ctx
    BY <2>2 DEF Frames
  <2>4. /\ In(c, "client", stack)
        /\ \A x \in Contexts : x # c => (In(x, "client", stack') <=> In(x, "client", stack))
    BY <2>1, <2>2, <2>3
  <2>5. finalize_unless_kept(c, owned, Tail(stack))
    BY <2>1, <2>3
  <2>6. CASE dispose(c)
    BY <2>1, <2>4, <2>6, <1>seen, DisposeMapped
  <2>7. CASE UNCHANGED <<self, simple>>
    <3>1. \A x \in Contexts : x # c => HeldIn(x)' = HeldIn(x)
      BY <2>4, <2>7, HeldSame
    <3>2. HeldIn(c) = simple[c].pending
      BY <2>4, MappedView DEF DelegateAlive, Emitting
    <3>3. HeldIn(c)' \in {HeldIn(c), 0}
      BY <2>7, <3>2, MappedView
    <3>. QED  BY <2>1, <3>1, <3>3, <1>seen, QuietStep
  <2>. QED  BY <2>5, <2>6, <2>7, FinalizeStep
<1>16. ASSUME call_returns  PROVE Promise!Next
  <2>1. /\ stack # <<>> /\ stack' = Tail(stack) /\ Head(stack).at = "delegate"
        /\ UNCHANGED <<self, simple>>
        /\ client'.text = <<>>
    BY <1>16, <1>seen DEF call_returns, Sees
  <2>2. \A x, at : In(x, at, stack)
          <=> (Head(stack).ctx = x /\ Head(stack).at = at) \/ In(x, at, stack')
    BY <2>1, PopFacts DEF ContextInvariant
  <2>. QED  BY <2>1, <2>2, RestStep
<1>17. /\ \A c \in Contexts : \A p \in Purposes :
            set_property(c, "input_purpose", p) => Promise!Next
       /\ \A c \in Contexts : \A h \in Hints :
            set_property(c, "input_hints", h) => Promise!Next
  BY <1>7
<1>. QED  BY <1>1, <1>2, <1>3, <1>4, <1>5, <1>6, <1>8, <1>9, <1>10, <1>12, <1>13, <1>14,
             <1>15, <1>16, <1>17, Steps

LEMMA InitMaps == Init => Promise!Init
<1>. SUFFICES ASSUME Init PROVE Promise!Init
  OBVIOUS
<1>1. Len(stack) = 0 /\ client.text = <<>>
  BY DEF Init
<1>2. \A c \in Contexts : TextIn(c) = <<>>
  BY <1>1, MappedView
<1>3. \A c \in Contexts : ~DelegateAlive(c)
  <2>1. \A c \in Contexts : ~In(c, "client", stack)
    BY <1>1 DEF In
  <2>2. \A c \in Contexts : ~self[c].delegate
    BY DEF Init, NoSelf
  <2>. QED  BY <2>1, <2>2 DEF DelegateAlive, Emitting
<1>4. \A c \in Contexts : HeldIn(c) = 0
  BY <1>3, MappedView
<1>. QED  BY <1>2, <1>4 DEF Promise!Init, Promise!Nothing

LEMMA StutterMaps == UNCHANGED vars => UNCHANGED Promise!vars
<1>. SUFFICES ASSUME UNCHANGED vars PROVE UNCHANGED Promise!vars
  OBVIOUS
<1>1. \A c \in Contexts : HeldIn(c)' = HeldIn(c) /\ TextIn(c)' = TextIn(c)
  BY MappedView DEF vars, DelegateAlive, Emitting
<1>. QED  BY <1>1 DEF Promise!vars

\* The GTK path keeps the promise of the product, however calls and handlers
\* nest and whenever contexts are given up.
THEOREM KeepsThePromise == Spec => EveryContextKeepsThePromise
<1>1. ContextInvariant /\ [Next]_vars => [Promise!Next]_Promise!vars
  BY StepMaps, StutterMaps
<1>. QED  BY <1>1, InitMaps, InvariantAlways, PTL DEF Spec, EveryContextKeepsThePromise, Promise!Spec
=============================================================================
