# Silent Compose in TLA+

Silent Compose is an input method that composes accented characters without
ever showing a half-typed accent. This directory holds a TLA+ description of
its C code, the TLC configurations that check it on small instances, and proofs
of its main properties that TLAPS checks for every value of the constants.
Paths below are relative to the repository.

## 1. The system

| Part | Source | State it keeps | Operations |
| --- | --- | --- | --- |
| Compose state machine | `src/compose/compose.c` | the pending accent and its literal character | `compose_state_new`, `_free`, `_reset`, `_is_pending`, `_process_key` |
| IBus engine | `src/ibus/engine.c` | per instance: one `ComposeState` and the flag `altgr` | `process_key_event`, `reset`, `focus_out`, `disable`, `sc_engine_init`, `finalize` |
| IBus component process | `src/ibus/main.c` | bus connection, factory, main loop | start, request the bus name, run, quit on disconnection |
| GTK 4 input context | `src/im/context.c` | a delegate `GtkIMContextSimple`, purpose, hints, debug flag | the `GtkIMContext` virtual methods, the delegate's signals, `dispose` |
| GIO module | `src/module.c` | none | load, query, unload |
| Generic installer | `packaging/run/install.sh` | the files under `/usr`, the caches | install, uninstall, refresh |
| Self-extracting archive | `packaging/run/self-extract-header.sh` | the unpacked payload | unpack, run the installer, clean up |

The first two are the program's own logic. The engine calls the state machine
synchronously and both run on the GLib main loop of one process; ibus-daemon
creates an engine instance per input context and delivers, one call at a time,
the key events and focus changes of all of them. The GTK module shares no code
with the engine: it leaves composition to GTK's own delegate and filters what
the delegate exposes. `main.c` starts the process and ends it when the daemon
goes away, so that the daemon can start it again. The archive unpacks a release
and runs the installer, which puts three files in place and refreshes two caches.

What is hard here, and what correctness means:

* **State machine.** Any key may follow an accent: one that composes, one that
  does not, Space, Escape, Backspace, a navigation key, a shortcut, a release, a
  keysym nobody thought of. In every case the accent must be finished,
  cancelled or still pending, and the second character must survive. The
  classification is by numeric ranges with many edges.
* **Engine.** Two sources of text (the composition and the direct AltGr
  symbols) share one output, and one event can reach both. Order, loss and
  duplication all depend on a flag, `altgr`, that only approximates the
  keyboard. Calls for several contexts interleave, and a context can lose focus,
  be reset or be destroyed in mid-sequence.
* **GTK context.** Calls nest: the application calls the wrapper, the delegate
  emits signals during the call, and the application's handlers call this or
  another context, drop the last reference, or have a context disposed. Nothing
  of the preedit may get out, and no answer may come from the wrong context.
* **Component process.** The daemon may disappear at any moment of the start,
  answer late, or have another process hold the name. A process must never have
  the name without the engine, nor survive the daemon it was started by.
* **Installer.** Any command may fail or be interrupted, a later run finds what an
  earlier one left, and where the module goes is decided anew each time. Success
  must mean that everything was done.

`PROJECT.json` lists these hazards line by line, with the property that covers
each one.

## 2. The modules

| Module | Models | Proofs |
| --- | --- | --- |
| `SilentCompose` | the promise of the product, for any set of input contexts | |
| `ComposeState` | the operators of `compose.c`: key classes, compose table, `compose_state_process_key` as a function | `ComposeLemmas` |
| `Compose` | one `ComposeState` and every call on it | `Compose_proofs` |
| `Passthrough` | the operators of `engine.c` that depend on one event and the flag: modifier translation, Windows table, passthrough text, consumed chords | `PassthroughLemmas` |
| `Engine` | all `ScEngine` instances of the process and the virtual methods on them | `Engine_proofs` |
| `Session` | `Engine` behind a queue of calls, with a keyboard, widgets and ibus-daemon (external) | `Session_proofs` |
| `ImContext` | the GTK wrappers of an application, their delegates (external) and every order of nested calls and handlers | `ImContext_proofs` |
| `Component` | `main()` of several processes, with ibus-daemon, the bus and users (external) | `Component_proofs` |
| `Installer` | the archive and `install.sh`, run after run, on a host that may change between runs | `Installer_proofs` |
| `MCCompose`, `MCEngine`, `MCSession`, `MCImContext`, `MCComponent`, `MCInstaller` | constants for TLC | |

`ComposeState` and `Passthrough` are separate from the state machines because
both the machines and the proofs use them; `Engine` extends `Passthrough`, which
extends `ComposeState`, so the engine runs the very composition `Compose` checks;
and `Session` extends `Engine` and takes its steps from it, one per served call.
The last three share no state with these, as the code does not either; only
`SilentCompose` is common to the GTK and the IBus path.

**Data.** Keysyms, keycodes and characters are their numbers, because the code
compares them with ranges. Modifier masks are sets of names. Text is a sequence
of code points; `<<>>` stands for both `NULL` and `""`, which `commit_string()`
does not distinguish. UTF-8 encoding, `g_malloc` and logging are left out.

**State.** `Compose` keeps `state`, the two fields of the C structure, and
`last`, the arguments and result of the last call. `Engine` keeps the set of
`live` instances, `compose` and `altgr` for each, and `event`, the last call with
its return value and everything committed to the client while it ran. In both
modules the last variable is the observation that properties speak of; no action
reads it.

**Actions.** One per C function. `process_key_event` has three disjuncts with
exclusive guards that follow its returns: the AltGr key itself, a direct symbol
when nothing is pending, and everything else, which includes the call to the
composition, the second chance as a symbol, and the consumed chord. `reset`,
`focus_out` and `disable` have equal bodies in C and share one operator here.

`Session` adds what surrounds the engine. `focus` and `down` are the widget with
the focus and the AltGr keys that are held *now*; `calls` is what the daemon has
queued, so it speaks of the focus and the keys as they were; `compose` and
`altgr` are what the engine has made of the calls it has seen. The distance
between the three is the subject of the module. The rest serves the properties, and
nothing else reads it: `origin` and `client` record for which widget an accent was
typed and a call was made; `steady` is whether the user is in an AltGr session that
nothing has disturbed, and each call carries a note of what it was when the call was
sent. Such a session starts when an AltGr key goes down in a focused widget, and
ends when one comes up, the focus moves, or the widget is reset or disabled. Every
widget has an instance (`scengine`), and widgets may share one.

**The session's actions.** `press_altgr`, `release_altgr`, `type`, `move_focus`
and `interrupt` are the user's: each changes the keyboard or the focus and sends
one call for the focused widget, or none when no widget has the focus, which is
how a release gets lost. A keystroke and a focus change are queued in the order
they happen. `handle` is the process: `main()` runs the GLib main loop, which
takes one call at a time and runs the virtual method for it to its end. What
keysym an AltGr key sends is chosen anew for its press and its release, because
Shift may have changed between them.

**`ImContext`.** `self` is the structure of each wrapper, `simple` its delegate,
and `stack` the calls that are running: a call that a delegate executes, or a
handler of the application for a signal, innermost first. Only the innermost one
moves. A wrapper's method that forwards is one action, which pushes a call of the
delegate; the delegate then takes any steps it likes (it holds, finishes or
abandons a sequence, commits a symbol, emits any of its signals), and each signal
goes to the callback `connect_delegate` gave it, which emits it again and so
pushes a handler of the application, or drops it. While a handler is innermost
the application may do anything, calls of the same context included. An emission
keeps the wrapper and its delegate (`DelegateAlive`), as GObject does; when
nothing does, the wrapper is disposed. A method of a wrapper without a delegate
forwards to `NULL`, which GTK refuses with a warning and no effect. GObject's
conventions ask a caller to hold a reference until its call is over, and nothing in
`context.c` enforces that; so a context may be dropped or disposed in any handler,
one that runs under its own call included. A method that returns text of its delegate
shows it to the application in `client`, which also receives committed text and
preedit.

**`Component`.** One action per call of `main()` between which another party can
act; `RequestName` is two, the request and its end. `factory` and `bus` are the
two static pointers, `link` the state of the connection as seen from the process.
The daemon serves requests when it likes: the name goes to the first, the others
wait for it, in no particular order, and a process that gave up by timeout may be
served after all. The end of a connection is heard of in the main loop, however
long before it happened, since libibus learns of it from a GLib source.

**`Installer`.** One action per command. A command that fails ends `install.sh`
(`set -e`), leaving a copy old, absent or truncated. `run` is the script's
variables and how it was started, by root or not, with which options and which
release. The options are read one by one, because `--print-immodules-dir`,
`--help` and a mistake end the run in the middle of the command line. `disk` has
the content of the engine, the component file and the module in each directory;
`listed` and `registry` are what the caches say, and `run.unrefreshed` which of them
this run could not refresh, as its command was missing or failed: the script goes on
in silence but where gio-querymodules is missing (install.sh:128-137). `origin` and
`made` serve the properties only: which `--immodules-dir` the module of each directory
was installed with, or "elsewhere" once the host's packages have moved what is
detected; and which directories exist because an installation was given them with
`--immodules-dir`. What the installer itself does leaves `origin` alone. `trap` may come
while the payload is unpacked; it removes the directory, and the script goes on
without.

**External code.** `g_unichar_validate` (GLib) and `ibus_keyval_to_unicode`
(libibus) are not in the repository. The first is written out; the second is
written out for the ranges and takes its table of legacy keysyms from the
constant `LegacyUnicode`, of which nothing is assumed but its type.
`GtkIMContextSimple` composes as `tests/test-silent-compose.c` expects and emits
any signal at any point of any of its calls, which is more than it does. GObject,
ibus-daemon, the bus and the host's tools are modelled by what the code relies on.

**Operators "with a defect".** Next to some definitions stands a variant with a
plausible mistake in it. Nothing uses them; `PROJECT.json` pairs each with the
property that no longer holds when it takes the place of the correct definition.

### The abstract specification

`SilentCompose` states README.md:16, "The pending accent stays private.
Applications only receive the final committed text". Each context holds at most
one accent. Text appears in a context when its own accent is finished, spelled
from that accent (alone, followed by a character, or composed with one), or when
it holds none; never in another context, and never ahead of a held accent.
`Compose` implements it with one context (`KeepsThePromise`), `Engine` with one
per instance (`EveryContextKeepsThePromise`), `Session` with one per widget
(`EveryWidgetKeepsThePromise`), which is more, since widgets share instances: an
accent typed in one must not be finished in another. The mapping takes
`pending_literal` for what is held and the committed text for what appears.

## 3. The runs

| Run | Instance | Shows |
| --- | --- | --- |
| `Compose` | 45 keysyms, 8 modifier sets | all six properties of one state machine |
| `ComposeShortcuts` | the same | a comment the code does not keep (section 6) |
| `Engine` | 2 instances, about 40 key events | all eight properties of the engine process |
| `EngineChord`, `EngineOvertake` | the same | two more (section 6) |
| `Session` | 2 instances, 3 widgets, 2 AltGr keys, queue of 3 | all five properties of the session |
| `SessionLayout` | the same, another keyboard layout | one more (section 6) |
| `ImContext` | 2 contexts that may go at any time, 3 nested calls, GTK without `invalid-composition` | five properties of the wrapper |
| `ImContextDispose` | 1 such context, 4 nested calls, GTK with that signal | that its delegate is silent after dispose |
| `Component` | 3 processes, 3 disturbances | all six properties of the process |
| `Installer` | 2 directories, 3 hosts, 2 releases, 7 command lines, 3 runs, 2 faults | all seven properties of the installer |
| `InstallerUninstall` | a steady host, no faults | one more (section 6) |

*Bounds of `Compose`.* None on the depth: the state graph is explored to its
end. The keysyms hold one or more of every class the code tells apart (the ten
accent keys, letters with a rule, with a rule in one case only, without one,
Space, cancel keys, navigation keys, unknown keys) and both neighbours of every
numeric limit: 0x7f/0x80, 0x9f/0xa0, 0xff/0x100, 0x010000ff/0x01000100,
0x0110ffff and its successor, both ends of the surrogates, 0xff50 and 0xff57,
0xffbe and 0xffe0. The modifier sets hold each bit alone and two pairs.

*Bounds of `Engine`.* Two instances, because the interesting interference is
between the one that is called and another one. The events take each branch of
`process_key_event` and of the lookup: with a keycode and without, with the
keysym of the base layout or of its AltGr level, with level 3 reported as Mod5,
as Mod1, or not at all, a row without a shifted symbol, keys outside the table,
shortcuts, releases, cancel and navigation keys, and the AltGr key.

*Bounds of `Session`.* Two of the three widgets share an instance and the third
has its own, so focus moves both within an instance and between two. Two AltGr
keys, because the flag is one bit for both. The session reports a held AltGr key
as Mod1, the case `altgr` exists for. The other strokes are an accent key and a
letter, enough to hold, complete and misplace an accent, and the letter with Left
Alt, whose event is the same as that of the AltGr chord. `MaxCalls = 3` calls may
wait: a key, the focus change that must undo it, and a key of the next widget.
The user cannot act when the queue is full, which only leaves out longer delays;
the safety theorems of section 4 have no such bound. The run visits about 234,000
states, in about a minute.

*Bounds of `ImContext`.* `MaxDepth` bounds the nesting. Three is a call, a
handler in it, and a call from that handler, of the same context or the other: two
contexts interfere there. Four adds a handler in the inner call, which can dispose
the context of the outer one while two emissions of it are running; one context is
enough for that. One accent, one letter and two selections, with and without
extent, since the wrapper never looks at text. 605,000 and 58,000 states.

*Bounds of `Component`.* `MaxDisturbances = 3` stops of the daemon, kills, starts
by hand and timeouts in all. Three processes are an owner, one that waits for the
name, and one the daemon starts afresh; three disturbances start a process by hand,
let its request time out and stop the daemon behind it. Daemon starts, and the
starts of the component by the daemon, are unbounded. 131,000 states.

*Bounds of `Installer`.* `MaxRuns = 3` runs are an installation, one that changes
or breaks it, and an uninstall; `MaxFaults = 2` is a failure in two of them. Both
directories are in the detection list, and the hosts are one where no tool knows a
directory, one where only ldconfig does, the last resort, and one where pkg-config
does, so that the first installation may change what the second run detects. The
command lines hold each option, alone and combined, a mistake, and a question
after an option that matters. 4.8 million states, in about two minutes.

*Fairness.* `Session`: weak fairness of `handle`, because the main loop of the
process serves a call that is there and no handler blocks. Nothing is assumed of
the user, who may stop typing at any time or never stop. `Component`: weak
fairness of `main()` in each process, none of whose calls blocks for ever
(`RequestName` has a timeout, and a closed connection ends it); of the bus serving
a request; of the session starting ibus-daemon again; and of the daemon starting
the component when the one it started has ended, which is what main.c:33 counts
on. Stops, kills, timeouts and starts by hand are not fair, and bounded: after the
last of them service must return.

The run of `Component` assumes this as `FairSpec`, with `WF_vars`. The proofs of
section 4 cannot reason about `ENABLED`; they assume `LiveSpec`, where the condition
that enables each action is spelled out, `[]<>~G \/ []<><<A>>_vars` in the place of
`WF_vars(A)`. `LiveSpec` asks for no more than `FairSpec`: where `G` holds, `A` is
enabled, by the guards of the model. It asks for less in one place, the wait for the
reply of `RequestName`, which it does not end by a timeout. That `G` enables `A` is read
off the guards, and not proved.

No run has a state constraint or symmetry. Deadlock is checked, as no state of the
models is without a next step, but in `Component`: once the disturbances are used
up, a process that serves is at rest for good.

### What each property says

`Compose`: `TypeOK`; `PendingHasItsLiteral` (no literal survives its sequence);
`AccentNeverLost`; `SwallowedOnlyForASequence`; `CharacterPreserved`;
`KeepsThePromise`. `CharacterPreserved` also says which text it is: composed if the
table has a rule for accent and character, both in full if it has none.

`Engine`: `TypeOK`; `WholeSequences` (the same for every instance, and none
outlives its instance); `EveryContextKeepsThePromise`; `KeystrokeNeverLost` and
`KeystrokeNeverDoubled`, which relate the answer of the engine to the text it
committed (an event is either the client's or the engine's; what is kept from the
client without text, a sequence or the AltGr key is, in an AltGr session without Ctrl
or Super, a release or a key the Windows table has no character for);
`ShortcutUntouched`; `AltGrTypesWindowsCharacter` (outside a sequence a chord types the
character of its row and column, and nothing where that is empty);
`ReleaseTypesNothing`. `WindowsCharacters` states the meaning of the table apart from
the search in `win_intl_lookup`.

`Session`: `SessionTypeOK`; `AltGrOnlyWhileHeld` (an instance that has seen all its
calls believes in a held AltGr key only if one is held in a widget it serves);
`ReadAsTyped` (when a key reaches the engine, the flag is what the user meant by it:
a chord of an undisturbed AltGr session, or not, whatever was sent before it and
however late it is read); `EveryWidgetKeepsThePromise`; `NothingStaysBehind` (an
accent of a widget without the focus, or a session of a key that is not held there,
goes away if only the engine runs).

`ImContext`: `TypeOK`; `NoPreeditSignal` and, for the text of the preedit,
`EveryContextKeepsThePromise`, the refinement of `SilentCompose` with what a
delegate holds and what its context's client sees; `DelegateFollows` (purpose,
hints and the no-preedit mode never diverge); `AnswersAreTheClients` (surrounding
text is what was last supplied to the context that was asked, however the request
was interleaved with others); `SilentAfterDispose` (a delegate that survives
dispose in an outer emission reaches nobody).

`Component`: `TypeOK`, which includes that no static pointer dangles; `OwnerCanServe`
(the daemon calls whoever gets the name, and the engine is there, unless the process has
failed and is on its way out); `RunningHasItsClaim` (no connected process idles without
the name or a place in its queue); `EndsAfterDisconnection`; `StartsSettle` (once nobody
interferes any more, every process ends or stays in its main loop with its claim, so
that neither a start hangs nor the daemon starts failing processes for ever);
`ServiceReturns`.

`Installer`: `TypeOK`; `SuccessIsComplete` (a run that reports success left all
three files of its release, or none of them, whatever earlier runs left behind);
`UninstallUndoes` (what an uninstall leaves of the installations with its own options
it leaves in one case: it had no `--immodules-dir`, and its detection stops at a directory
that exists because of some `--immodules-dir`; section 6); `CachesFollow` (each cache
agrees with the files, unless its very command was missing or failed in this run, of
which the output may say nothing); `PayloadRemoved`; `RefusalsTouchNothing`;
`EngineBeforeComponent` (no installation, whatever fails in it, writes the component
file while the engine it names is missing, truncated or of another release).

## 4. What is proved

Every property of the passing runs is also stated by a theorem, for every set of
keysyms, modifier sets, instances, widgets and events, contexts, processes, directories,
hosts and command lines within the types the `ASSUME`s state, and for every value of the
bounds but where the table below says otherwise. The assumptions are only those: keysyms
and keycodes are natural numbers, modifiers are those of the enumerations, there is at
least one engine identity, `LegacyUnicode` yields natural numbers, every widget has an
instance, no key but the AltGr keys sends an AltGr keysym, the first purpose and hints
are among the purposes and hints, the values for "none" are not values.

What the theorems about a property assume beyond the specification:

| Theorem | States | Assumes |
| --- | --- | --- |
| `AltGrFollowsTheKeyboard` | `AltGrOnlyWhileHeld` | `LayoutKnown`: the engine knows the AltGr keysyms of the layout; false without it (section 6) |
| `EveryKeyReadAsTyped` | `ReadAsTyped` | `LayoutKnown` |
| `ChordsToldFromShortcuts` | what the client sees of it | `LayoutKnown` |
| `CatchingUpIsEnough` | `NothingStaysBehind` | `LayoutKnown`; the queue is empty again and again |
| `ServingIsEnough` | `NothingStaysBehind` | `LayoutKnown`; fairness of `handle`; a queue of at most six calls |
| `DisconnectedEnd` | `EndsAfterDisconnection` | `LiveSpec`, the fairness of `Component` spelled out |
| `AllSettle` | `StartsSettle` | the same; disturbances stop, however many there were |
| `SettledServe` | `ServiceReturns` | the same; there is a process; from some point on, all processes have settled |

*`Compose_proofs`.* `PendingHasItsLiteral` is inductive: every branch leaves
`Idle` or an accent with the literal `pending_from_key` gave it. The lemma
`KeyStep` in `ComposeLemmas` sorts the outcomes of `compose_state_process_key`
into a few effects (the state rests, an accent is held, cancelled, or finished
with a given text); each action property then follows from those effects rather
than from the code, and so does the step simulation of the refinement. The
invariant is needed because the text of a finished sequence is computed from
`pending_literal` while the table is searched by `pending`. `OneRulePerCharacter`
shows that the table has one rule at most for an accent and a character, so that
the order of the search in `lookup_composition` does not matter, and
`LookupIsTheTable` that it finds what `Compositions` promises and nothing else.
`OtherShortcutsPassThrough` says how far the comment goes that `ComposeShortcuts`
refutes: it is wrong about Escape and Backspace with an accent pending, and right
about every other shortcut.

*`Engine_proofs`.* The inductive invariant is `TypeOK /\ WholeSequences`. The
lemmas `ComposedIdle` and `ComposedPending` show that a second chance can yield
text only when the composition was idle or has just been flushed by a navigation
key, and that in the second case there is no symbol for that key unless level 3
or AltGr makes one. `KeyStep` and `KeyReply` then give the effect of an event
on the instance and its answer. The refinement needs the invariant for the same
reason, once per instance. Two more theorems say where the words of `EngineChord`
and `EngineOvertake` hold: `IdleChordKeptFromClient`, with nothing pending;
`KnownPrintableNeverOvertakes`, for the keys `key_to_unicode` knows. In
`PassthroughLemmas`, `OneWindowsCharacter` shows that the rows of the Windows table do
not overlap in any key and level, so that the search stops at the only match. With it,
`ChordText` shows that the search finds what `WindowsCharacters` states, for
`AltGrTypesWindowsCharacter` and for what `KeystrokeNeverLost` says of empty columns.

The five action properties are proved from `EngineRuns`: that every step is one of
`Next` or none, and that the invariant holds. `Spec` gives that, and so does
`SessionSpec`, though its initial states are others (`SessionRunsTheEngine`).
`KeystrokesOfASession` therefore has all five for any widgets, layout and delay,
without a step of their proofs repeated.

*`Session_proofs`.* The properties of `Session` are not inductive, as they say
nothing of calls that wait. The invariants do. `AltGrAccounted`: whoever believes
in a held key, now or once it has handled a press that waits, is right or has a
call waiting that ends the session (a release, or any call but a key). It holds
because the keyboard sends a release, and the focus a `focus_out`, to the very
instance that would otherwise be wrong. `OriginsRight`, `FocusAccounted` and
`WidgetsApart`: what belongs to a widget without the focus has an abandoning call
behind it, and between two keys of different widgets for one instance, or an
accent and a key of another widget, there is such a call. So a key is served only
when its instance holds nothing, or an accent of the same widget
(`ServedForItsWidget`), and each served call is one step of `SilentCompose` in
one widget (`WidgetKey`, `WidgetInterrupted`). These proofs use the effects of an
event from `Engine_proofs`, not the code again.

`ReadAsTyped` speaks of the first call only; the invariant `ReadingAccounted` speaks of
each. `BeliefAt(i, e)` is what the flag of instance `e` will be when call `i` is
reached: up if the last press before it, or the flag as it is now, has no call behind it
that ends the session. The invariant says that this is the note of every key in
the queue, and that beyond the last call it is `steady` for the instance with the focus
and false for the others. The second part is what a new call is noted with
(`ReadingSent`), and serving a call leaves the beliefs as they were, counted one
place further on (`BeliefServed`). Here `LayoutKnown` is needed in both directions:
an unknown press would leave the flag down, an unknown release up.
`ChordsToldFromShortcuts` adds what the engine then does: with nothing pending, an Alt
event without Ctrl or Super is kept from the application exactly when it was typed
as an AltGr chord, and goes to it as a shortcut otherwise.

`NothingStaysBehind` uses the same invariants as `AltGrOnlyWhileHeld`: what was left
behind has a call in the queue that clears it. When the queue is empty there is no
such call, so nothing is left (`CaughtUp`), and an engine that catches up with its
calls again and again needs no more. One that merely keeps serving may never catch
up; then one follows the clearing call. It keeps its place while the user acts
(`WaitingCalls`) and moves one place to the front when a call is served
(`AbandonMoves`, `EndMoves`). A release at the front may leave an accent behind, for
which the invariant has another call, one that clears both. Counting the places down
is an induction over temporal formulas, which the provers lack; `ServingIsEnough`
writes out six rounds of it.

*`ImContext_proofs`.* The stack is a sequence of unbounded length, so the lemmas at
its start say what pushing, popping and answering do to `In`, without induction.
`ContextInvariant` adds to the properties what they rest on: only the delegate of
an undisposed wrapper has its signals connected (`ConnectedHasWrapper`, for
`SilentAfterDispose`); a delegate has the surrounding text that was last supplied
(`SuppliedReached`, for `AnswersAreTheClients`). Neither says anything of who holds
the context, so nothing is assumed of callers. The refinement maps a step of one
delegate to one of `SilentCompose` in its context and all else to stutters.

*`Component_proofs`.* The invariant describes one process at a time: `OwnState` says
what `main()` has done at each of its calls, and `BusState` what the bus may then
know of it (no claim before the request is sent; an answer is a claim; a process
without a live connection has none). `QueueState` says that nobody waits while the
name is free, and `OwnState` also that from `g_signal_connect` on the process hears
of the end of its connection. Since a name passes from one process to any that
waits, `BusState` of all processes is needed to keep that of one.

The liveness theorems sort the running processes into two. A process is `Troubled`
when its connection is gone or it has decided to leave: from each call the only
way is on towards the end, and no call there waits for anybody (`TroubleEnds`).
That is `DisconnectedEnd`. A process is `Sound` when its daemon is the one that
runs now; as long as nobody interferes it stays so (`SoundLasts`), and each call
leads to the next one, up to the main loop (`SoundEndsInLoop`), the reply included,
for which the bus is needed (`AnswerComes`). Since a daemon comes back and then
stays (`DaemonReturns`), every process is in the end one or the other, which is
`AllSettle`. For `ServiceReturns`, one shows that where all have settled the owner
of the name serves it (`SettledOwner`), and that the daemon would start a process
where none runs, which would then not have settled (`SpawnUnsettles`). What stays
open is the step from "each of them settles" to "all of them have settled", which
for finitely many processes is an induction on their number; the run makes it for
three.

*`Installer_proofs`.* `Progress` says which files are done at each command,
`Parsed` and `Admitted` what the options and checks have established, `Directed`
that the directory of the run is what detection says. `UninstallUndoes` rests on the
lemmas `DetectStable`, that creating the directory that was detected does not change
what is detected, and `DetectMoves`, that creating any other directory changes it to that
one or not at all. They are true because a candidate is taken only if it exists, and
`ldconfig`'s answer only if no candidate does; that there is a first candidate where
there is any is the least-number principle, from the library's `WellFoundedInduction`.
So a module that a plain installation left in a directory which is no longer detected
is behind one that `--immodules-dir` made, and the invariant says that of every module at
every step. `CachesFollow` needs that nothing touches the files between the command of
a cache and the end (`ModulesCached`, `RegistryCached`). `EngineBeforeComponent` needs
`Progress`: at the command that copies the component, the engine is the one of this
release, and no earlier command of the run has touched it since.

`ComposeLemmas` and `PassthroughLemmas` hold the facts about the operators:
which texts are sequences of characters, that the accents' keys are disjoint,
that a release or a shortcut never composes, what passthrough can return.

Only model-checked: `NothingStaysBehind` from `WF_sessionVars(handle)` itself, which
ENABLED defines, in the place of its meaning (the queue is empty, or `handle` happens,
again and again) and for longer queues; the liveness of `Component` from `WF_vars`, in
the place of `LiveSpec`; and `ServiceReturns` without the hypothesis that all processes
have settled. The five statements of section 6 do not hold. ENABLED, RECURSIVE operators
and induction over data or over temporal formulas are outside what TLAPS can prove here.

## 5. What is not modelled

* Memory and encoding: the C strings are code points. Debug output reads state and
  changes none, and is left out everywhere, context.c:351 included, which reads the
  debug flag of a wrapper that a handler may have dropped.
* The GIO entry points of `module.c` register one type and one extension point and
  keep no state. `invalid_composition` in `context.c` only chains up to GTK.
* `check_runtime` of the installer only prints warnings. The payload is always
  complete when the installer is reached (install.sh:109 and 110 fail otherwise
  like a first copy that fails). What the host's tools say changes between runs,
  not during one.
* The order in which waiting processes get the bus name, which no property needs.
* What a wrapper or delegate does in C after it was freed under its own call, by a
  caller that let go of it in a handler: that is undefined. The runs have such callers,
  and the properties say what becomes of signals and answers until then; that nothing
  freed is used depends on the callers alone and is not claimed.
* Distribution packaging and the release workflow run once, in an order given by
  the package manager or the build, with no state of their own.

What could follow: the weak fairness of `Component` refined to ibus-daemon's own
retry policy, which is outside this repository; and a `Session` for GTK, with focus
changes between widgets, if `context.c` ever composes by itself.

## 6. Where code and words differ

Five runs show a statement of a comment, a help text or the README that the code
does not keep. They are kept as runs so that a change of either is noticed. Where
each does hold is a theorem, named with it.

* `ComposeShortcuts`: with an accent pending, Ctrl+BackSpace (or Escape with any
  modifier) is swallowed as a cancellation, because compose.c:423 tests these
  keys before the modifiers. The comment of `is_modifier_shortcut` says
  shortcuts are not swallowed "even if an accent is currently pending". All others
  are not (`OtherShortcutsPassThrough`).
* `EngineChord`: with an accent pending, an AltGr chord in a session that reports
  Right Alt as Mod1 is left to the client: `consume_altgr_chord` is asked only
  when nothing is pending (engine.c:459). Then none is left (`IdleChordKeptFromClient`).
* `EngineOvertake`: keysyms such as EuroSign, which `key_to_unicode` does not
  know, reach the client at once while the accent before them stays pending. Those
  it knows do not (`KnownPrintableNeverOvertakes`).
* `SessionLayout`: engine.c:11 says that `altgr` tracks a held Right Alt. With
  the layout option the component file asks for, Right Alt is ISO_Level3_Shift
  on every level and the flag never outlasts the key. On a layout where it is
  Alt_R, and Meta_R together with Shift, a release as Meta_R is not recognised
  and the flag stays set. With the keysyms it knows, it follows the keyboard
  (`AltGrFollowsTheKeyboard`) and each key is read as it was typed (`EveryKeyReadAsTyped`).
* `InstallerUninstall`: "--uninstall  Remove installed files" (install.sh:21), used
  alone as in README.md:178, removes the module from the detected directory only. One
  that was installed with `--immodules-dir` stays, and the run reports success. So does
  the module of a plain installation after one with `--immodules-dir`, if that made a
  directory which detection takes first. With the options of the installation, on the
  same host, that is all that can stay (`UninstallComplete`).

## 7. Running

    tlc -config Compose.cfg MCCompose.tla
    tlc -config Engine.cfg MCEngine.tla
    tlc -config Session.cfg MCSession.tla
    tlc -config ImContext.cfg MCImContext.tla
    tlc -config ImContextDispose.cfg MCImContext.tla
    tlc -config Component.cfg MCComponent.tla
    tlc -config Installer.cfg MCInstaller.tla
    tlapm ComposeLemmas.tla
    tlapm PassthroughLemmas.tla
    tlapm Compose_proofs.tla
    tlapm Engine_proofs.tla
    tlapm Session_proofs.tla
    tlapm ImContext_proofs.tla
    tlapm Component_proofs.tla
    tlapm Installer_proofs.tla
