-------------------------- MODULE Component_proofs --------------------------
(***************************************************************************)
(* Theorems about Component, for any number of processes and disturbances. *)
(***************************************************************************)
EXTENDS Component, TLAPS

-----------------------------------------------------------------------------
(* The inductive invariant: how far main() has come decides what its process *)
(* has, and what the bus may think of it.                                    *)

Wired   == {"factory_new", "add_engine", "request_name", "reply", "main_loop"}
Asking  == {"reply", "main_loop", "clear_factory", "clear_bus"}
Built   == {"request_name", "reply", "main_loop", "clear_factory"}
Leaving == {"clear_factory", "clear_bus"}

\* What the process has: a connection only with an IBusBus, an ear for its end
\* from then on, the engine from its registration to its end, and a reason to
\* leave.
OwnState(p) ==
  /\ link[p] # "none" => pc[p] \notin {"ended", "bus_new"}
  /\ at(p, "connect") \/ pc[p] \in Wired => link[p] # "none"
  /\ pc[p] \in Wired => watched[p]
  /\ pc[p] \in Built => factory[p] = "ready"
  /\ at(p, "main_loop") => answer[p] # 0
  /\ pc[p] \in Leaving => failed(p) \/ link[p] # "up"

\* What the bus thinks: only a connected process that has asked is known to it,
\* in one place, and a process that was answered still has its claim.
BusState(p) ==
  /\ claims(p) \/ p \in requested => link[p] = "up" /\ pc[p] \in Asking
  /\ answer[p] # 0 => pc[p] \in Asking /\ (link[p] = "up" => claims(p))
  /\ p \in requested => ~claims(p) /\ answer[p] = 0
  /\ at(p, "reply") /\ link[p] = "up" => answer[p] # 0 \/ p \in requested
  /\ claims(p) => answer[p] # 0
  /\ ~(owner = p /\ p \in waiting)

\* The queue for the name is one behind an owner.
QueueState == owner = NoProcess => waiting = {}

ComponentInvariant ==
  TypeOK /\ QueueState /\ \A p \in Processes : OwnState(p) /\ BusState(p)

LEMMA InvariantImplies ==
  ComponentInvariant => OwnerCanServe /\ RunningHasItsClaim
<1>. SUFFICES ASSUME ComponentInvariant, NEW p \in Processes
              PROVE  /\ claims(p) => factory[p] = "ready" \/ failed(p)
                     /\ at(p, "main_loop") /\ link[p] = "up" => claims(p)
  BY DEF OwnerCanServe, RunningHasItsClaim
<1>. QED  BY DEF ComponentInvariant, OwnState, BusState, Asking, Built, Leaving, at

-----------------------------------------------------------------------------
(* The steps.                                                              *)

LEMMA InvariantInit ==
  Init => ComponentInvariant
<1>1. Init => TypeOK
  <2>. SUFFICES ASSUME Init  PROVE TypeOK
    OBVIOUS
  <2>1. pc \in [Processes -> Calls] /\ status \in [Processes -> {"none", "0", "1", "killed"}]
    BY DEF Init, Calls
  <2>2. link \in [Processes -> {"none", "up", "closed"}]
    BY DEF Init
  <2>3. bus \in [Processes -> BOOLEAN] /\ watched \in [Processes -> BOOLEAN]
    BY DEF Init
  <2>4. factory \in [Processes -> {"none", "empty", "ready"}] /\ answer \in [Processes -> Replies]
    BY DEF Init, Replies
  <2>5. /\ daemon \in BOOLEAN /\ owner \in Processes \cup {NoProcess}
        /\ child \in Processes \cup {NoProcess}
    BY DEF Init
  <2>6. waiting \in SUBSET Processes /\ requested \in SUBSET Processes
    BY DEF Init
  <2>7. disturbances \in 0..MaxDisturbances
    BY ComponentAssumption DEF Init
  <2>. QED  BY <2>1, <2>2, <2>3, <2>4, <2>5, <2>6, <2>7 DEF TypeOK
<1>2. ASSUME Init, NEW p \in Processes  PROVE OwnState(p) /\ BusState(p)
  BY <1>2, ComponentAssumption
  DEF Init, OwnState, BusState, Wired, Built, Leaving, at, claims
<1>3. Init => QueueState
  BY DEF Init, QueueState
<1>. QED  BY <1>1, <1>2, <1>3 DEF ComponentInvariant

\* What a call of main() leaves alone in the other processes.
LEMMA StartKeeps ==
  ASSUME ComponentInvariant, NEW p \in Processes, start(p),
         UNCHANGED <<link, answer, daemon, owner, waiting, requested>>,
         child' \in Processes \cup {NoProcess}, disturbances' \in 0..MaxDisturbances
  PROVE  ComponentInvariant'
<1>1. TypeOK'
  BY DEF ComponentInvariant, TypeOK, start, goto, at, Calls
<1>2. ASSUME NEW q \in Processes  PROVE OwnState(q)' /\ BusState(q)'
  BY DEF ComponentInvariant, TypeOK, OwnState, BusState, Calls, Asking, Built, Leaving,
         Wired, start, goto, at, claims, failed
<1>3. QueueState'
  BY DEF ComponentInvariant, QueueState
<1>. QED  BY <1>1, <1>2, <1>3 DEF ComponentInvariant

\* A process that ends takes its name and its request with it.
LEMMA Forgets ==
  ASSUME ComponentInvariant, NEW p \in Processes, forget(p)
  PROVE  /\ owner' \in Processes \cup {NoProcess}
         /\ waiting' \in SUBSET Processes
         /\ requested' = requested \ {p}
         /\ answer' \in [Processes -> Replies] /\ answer'[p] = 0
         /\ ~claims(p)'
         /\ \A q \in Processes : q # p => /\ claims(q)' <=> claims(q)
                                          /\ answer'[q] = answer[q]
         /\ \A q \in Processes : ~(owner' = q /\ q \in waiting')
         /\ QueueState'
BY ComponentAssumption
DEF ComponentInvariant, TypeOK, BusState, QueueState, forget, claims, Replies

LEMMA ClearBusKeeps ==
  ASSUME ComponentInvariant, NEW p \in Processes, clear_bus(p)
  PROVE  ComponentInvariant'
<1>1. TypeOK'
  BY Forgets DEF ComponentInvariant, TypeOK, clear_bus, goto, at, Calls
<1>2. ASSUME NEW q \in Processes  PROVE OwnState(q)' /\ BusState(q)'
  <2>1. CASE q = p
    BY <2>1, Forgets
    DEF ComponentInvariant, TypeOK, OwnState, BusState, Calls, Wired, Asking, Built, Leaving,
        clear_bus, goto, at
  <2>2. CASE q # p
    BY <2>2, Forgets
    DEF ComponentInvariant, TypeOK, OwnState, BusState, Calls, Wired, Asking, Built, Leaving,
        clear_bus, goto, at, failed
  <2>. QED  BY <2>1, <2>2
<1>. QED  BY <1>1, <1>2, Forgets DEF ComponentInvariant, clear_bus

LEMMA KillKeeps ==
  ASSUME ComponentInvariant, NEW p \in Processes, kill(p)
  PROVE  ComponentInvariant'
<1>1. TypeOK'
  BY ComponentAssumption, Forgets
  DEF ComponentInvariant, TypeOK, kill, disturb, goto, Calls
<1>2. ASSUME NEW q \in Processes  PROVE OwnState(q)' /\ BusState(q)'
  <2>1. CASE q = p
    BY <2>1, Forgets
    DEF ComponentInvariant, TypeOK, OwnState, BusState, Calls, Wired, Asking, Built, Leaving,
        kill, goto, at
  <2>2. CASE q # p
    BY <2>2, Forgets
    DEF ComponentInvariant, TypeOK, OwnState, BusState, Calls, Wired, Asking, Built, Leaving,
        kill, goto, at, failed
  <2>. QED  BY <2>1, <2>2
<1>. QED  BY <1>1, <1>2, Forgets DEF ComponentInvariant, kill

\* A call of main() but for the last changes nothing that is of another process.
LEMMA MainFrame ==
  ASSUME ComponentInvariant, NEW p \in Processes, main(p), ~clear_bus(p)
  PROVE  /\ TypeOK' /\ UNCHANGED <<answer, owner, waiting>>
         /\ \A q \in Processes \ {p} :
              /\ pc'[q] = pc[q] /\ link'[q] = link[q] /\ watched'[q] = watched[q]
              /\ factory'[q] = factory[q] /\ status'[q] = status[q]
              /\ q \in requested' <=> q \in requested
<1>. USE DEF ComponentInvariant, TypeOK, Calls, peers, goto
<1>1. CASE ibus_bus_new(p)              BY <1>1 DEF ibus_bus_new
<1>2. CASE is_connected(p)              BY <1>2 DEF is_connected
<1>3. CASE connect_disconnected(p)      BY <1>3 DEF connect_disconnected
<1>4. CASE ibus_factory_new(p)          BY <1>4 DEF ibus_factory_new
<1>5. CASE ibus_factory_add_engine(p)   BY <1>5 DEF ibus_factory_add_engine
<1>6. CASE ibus_bus_request_name(p)     BY <1>6 DEF ibus_bus_request_name
<1>7. CASE request_name_reply(p)
  BY <1>7, ComponentAssumption DEF request_name_reply, call_ended
<1>8. CASE bus_disconnected_cb(p)       BY <1>8 DEF bus_disconnected_cb
<1>9. CASE clear_factory(p)             BY <1>9 DEF clear_factory
<1>. QED
  BY <1>1, <1>2, <1>3, <1>4, <1>5, <1>6, <1>7, <1>8, <1>9 DEF main

LEMMA MainKeeps ==
  ASSUME ComponentInvariant, NEW p \in Processes, main(p)
  PROVE  ComponentInvariant'
<1>1. CASE clear_bus(p)
  BY <1>1, ClearBusKeeps
<1>2. CASE ~clear_bus(p)
  <2>1. OwnState(p)' /\ BusState(p)'
    <3>. USE DEF ComponentInvariant, TypeOK, OwnState, BusState, Calls, Replies,
                 Wired, Asking, Built, Leaving, peers, at, goto, claims, failed
    <3>1. CASE ibus_bus_new(p)              BY <3>1 DEF ibus_bus_new
    <3>2. CASE is_connected(p)              BY <3>2 DEF is_connected
    <3>3. CASE connect_disconnected(p)      BY <3>3 DEF connect_disconnected
    <3>4. CASE ibus_factory_new(p)          BY <3>4 DEF ibus_factory_new
    <3>5. CASE ibus_factory_add_engine(p)   BY <3>5 DEF ibus_factory_add_engine
    <3>6. CASE ibus_bus_request_name(p)     BY <3>6 DEF ibus_bus_request_name
    <3>7. CASE request_name_reply(p)
      BY <3>7 DEF request_name_reply, call_ended
    <3>8. CASE bus_disconnected_cb(p)       BY <3>8 DEF bus_disconnected_cb
    <3>9. CASE clear_factory(p)             BY <3>9 DEF clear_factory
    <3>. QED
      BY <1>2, <3>1, <3>2, <3>3, <3>4, <3>5, <3>6, <3>7, <3>8, <3>9 DEF main
  <2>2. ASSUME NEW q \in Processes \ {p}  PROVE OwnState(q)' /\ BusState(q)'
    BY <1>2, MainFrame
    DEF ComponentInvariant, OwnState, BusState, at, claims, failed
  <2>3. TypeOK' /\ QueueState'
    BY <1>2, MainFrame DEF ComponentInvariant, QueueState
  <2>. QED  BY <2>1, <2>2, <2>3 DEF ComponentInvariant
<1>. QED  BY <1>1, <1>2

LEMMA InvariantStep ==
  ComponentInvariant /\ [Next]_vars => ComponentInvariant'
<1>. SUFFICES ASSUME ComponentInvariant, [Next]_vars  PROVE ComponentInvariant'
  OBVIOUS
<1>1. CASE daemon_start
  BY <1>1
  DEF daemon_start, mains, ComponentInvariant, TypeOK, OwnState, BusState, QueueState, at, claims, failed
<1>2. CASE daemon_stop
  <2>1. TypeOK'
    <3>1. link' \in [Processes -> {"none", "up", "closed"}]
      BY <1>2 DEF daemon_stop, ComponentInvariant, TypeOK
    <3>2. disturbances' \in 0..MaxDisturbances
      BY <1>2, ComponentAssumption DEF daemon_stop, disturb, ComponentInvariant, TypeOK
    <3>3. /\ daemon' \in BOOLEAN /\ owner' = NoProcess /\ child' = NoProcess
          /\ waiting' = {} /\ requested' = {} /\ UNCHANGED <<mains, answer>>
      BY <1>2 DEF daemon_stop
    <3>. QED  BY <3>1, <3>2, <3>3 DEF mains, ComponentInvariant, TypeOK
  <2>2. ASSUME NEW p \in Processes  PROVE OwnState(p)' /\ BusState(p)'
    <3>1. /\ link'[p] = IF link[p] = "up" THEN "closed" ELSE link[p]
          /\ UNCHANGED <<pc, watched, factory, status, answer>>
          /\ requested' = {} /\ ~claims(p)'
      BY <1>2, ComponentAssumption DEF daemon_stop, mains, claims
    <3>2. OwnState(p) /\ BusState(p)
      BY DEF ComponentInvariant
    <3>3. OwnState(p)'
      BY <3>1, <3>2 DEF OwnState, at, failed
    <3>4. owner' = NoProcess
      BY <1>2 DEF daemon_stop
    <3>. QED  BY <3>1, <3>2, <3>3, <3>4, ComponentAssumption DEF BusState
  <2>3. QueueState'
    BY <1>2 DEF daemon_stop, QueueState
  <2>. QED  BY <2>1, <2>2, <2>3 DEF ComponentInvariant
<1>3. ASSUME NEW p \in Processes, main(p)  PROVE ComponentInvariant'
  BY <1>3, MainKeeps
<1>4. ASSUME NEW p \in Processes, spawn(p)  PROVE ComponentInvariant'
  BY <1>4, StartKeeps DEF spawn, ComponentInvariant, TypeOK
<1>5. ASSUME NEW p \in Processes, launch(p)  PROVE ComponentInvariant'
  BY <1>5, ComponentAssumption, StartKeeps DEF launch, disturb, ComponentInvariant, TypeOK
<1>6. ASSUME NEW p \in Processes, argument_is_version(p)  PROVE ComponentInvariant'
  BY <1>6, ComponentAssumption
  DEF argument_is_version, disturb, ComponentInvariant, TypeOK, OwnState, BusState,
      QueueState, Leaving, at, claims, failed
<1>7. ASSUME NEW p \in Processes, grant(p)  PROVE ComponentInvariant'
  BY <1>7, ComponentAssumption
  DEF grant, mains, ComponentInvariant, TypeOK, OwnState, BusState, QueueState, Replies,
      Asking, at, claims, failed
<1>8. ASSUME NEW p \in Processes, kill(p)  PROVE ComponentInvariant'
  BY <1>8, KillKeeps
<1>9. CASE UNCHANGED vars
  BY <1>9
  DEF vars, mains, peers, ComponentInvariant, TypeOK, OwnState, BusState, QueueState, at, claims, failed
<1>. QED  BY <1>1, <1>2, <1>3, <1>4, <1>5, <1>6, <1>7, <1>8, <1>9 DEF Next

-----------------------------------------------------------------------------
(* The theorems.                                                           *)

THEOREM InvariantHolds == Spec => []ComponentInvariant
BY InvariantInit, InvariantStep, PTL DEF Spec

\* Type correctness of every process, the bus and the daemon: in particular no
\* pointer of main() outlives its object.
THEOREM TypeCorrect == Spec => []TypeOK
<1>1. ComponentInvariant => TypeOK
  BY DEF ComponentInvariant
<1>. QED  BY <1>1, InvariantHolds, PTL

\* main.c:75-81: the factory is complete before the name is asked for, and is
\* taken down only by a process that has failed or has lost the bus.
THEOREM OwnersServe == Spec => []OwnerCanServe
BY InvariantImplies, InvariantHolds, PTL

\* main.c:79-94: no process enters or stays in the main loop of a working
\* connection without the bus name or a place in its queue.
THEOREM RunnersClaim == Spec => []RunningHasItsClaim
BY InvariantImplies, InvariantHolds, PTL

-----------------------------------------------------------------------------
(* Progress: which call of main() comes after which, and that it comes.     *)

After(c) ==
  CASE c = "bus_new"       -> {"is_connected"}
    [] c = "is_connected"  -> {"connect", "clear_bus"}
    [] c = "connect"       -> {"factory_new"}
    [] c = "factory_new"   -> {"add_engine"}
    [] c = "add_engine"    -> {"request_name"}
    [] c = "request_name"  -> {"reply"}
    [] c = "reply"         -> {"main_loop", "clear_factory"}
    [] c = "main_loop"     -> {"clear_factory"}
    [] c = "clear_factory" -> {"clear_bus"}
    [] c = "clear_bus"     -> {"ended"}
    [] c = "ended"         -> {"bus_new"}

LEMMA MainMoves ==
  ASSUME ComponentInvariant, NEW p \in Processes, main(p)
  PROVE  pc'[p] \in After(pc[p])
BY DEF ComponentInvariant, TypeOK, main, at, goto, After, ibus_bus_new, is_connected,
   connect_disconnected, ibus_factory_new, ibus_factory_add_engine, ibus_bus_request_name,
   request_name_reply, bus_disconnected_cb, clear_factory, clear_bus

\* What moves a process: its own calls, a kill, and a start.
LEMMA Moves ==
  ASSUME ComponentInvariant, NEW p \in Processes, [Next]_vars
  PROVE  \/ pc'[p] = pc[p]
         \/ pc'[p] \in After(pc[p])
         \/ pc'[p] = "ended"
<1>1. CASE main(p)
  BY <1>1, MainMoves
<1>2. ASSUME NEW q \in Processes, q # p, main(q)  PROVE pc'[p] = pc[p]
  BY <1>2 DEF ComponentInvariant, TypeOK, main, goto, ibus_bus_new, is_connected,
   connect_disconnected, ibus_factory_new, ibus_factory_add_engine, ibus_bus_request_name,
   request_name_reply, bus_disconnected_cb, clear_factory, clear_bus
<1>3. ASSUME NEW q \in Processes, start(q)  PROVE pc'[p] = pc[p] \/ pc'[p] \in After(pc[p])
  BY <1>3 DEF ComponentInvariant, TypeOK, start, at, goto, After
<1>4. ASSUME NEW q \in Processes, kill(q)  PROVE pc'[p] = pc[p] \/ pc'[p] = "ended"
  BY <1>4 DEF ComponentInvariant, TypeOK, kill, goto
<1>. QED
  BY <1>1, <1>2, <1>3, <1>4
  DEF Next, vars, mains, daemon_start, daemon_stop, spawn, launch, argument_is_version, grant

\* Until it is made, a call that can be made remains one.
LEMMA CallStays ==
  ASSUME ComponentInvariant, NEW p \in Processes, HasCall(p), [Next]_vars, pc'[p] = pc[p]
  PROVE  HasCall(p)'
<1>1. CASE main(p)
  BY <1>1, MainMoves DEF After, ComponentInvariant, TypeOK, Calls
<1>2. ASSUME NEW q \in Processes, q # p, main(q)
      PROVE  answer'[p] = answer[p] /\ link'[p] = link[p] /\ watched'[p] = watched[p]
  <2>1. CASE clear_bus(q)
    BY <1>2, <2>1, Forgets DEF clear_bus, ComponentInvariant, TypeOK
  <2>2. CASE ~clear_bus(q)
    BY <1>2, <2>2, MainFrame
  <2>. QED  BY <2>1, <2>2
<1>3. ASSUME NEW q \in Processes, start(q), UNCHANGED <<answer, link>>
      PROVE  HasCall(p)'
  BY <1>3 DEF start, HasCall, at, running
<1>4. ASSUME NEW q \in Processes, q # p, kill(q)  PROVE HasCall(p)'
  BY <1>4, Forgets DEF kill, ComponentInvariant, TypeOK, HasCall, at, running
<1>5. ASSUME kill(p)  PROVE FALSE
  BY <1>5 DEF kill, goto, running, ComponentInvariant, TypeOK
<1>6. ASSUME NEW q \in Processes, grant(q)  PROVE HasCall(p)'
  BY <1>6 DEF grant, mains, HasCall, at, running, ComponentInvariant, TypeOK, Replies
<1>7. CASE daemon_stop
  BY <1>7 DEF daemon_stop, mains, HasCall, at, running, ComponentInvariant, TypeOK
<1>. QED
  BY <1>1, <1>2, <1>3, <1>4, <1>5, <1>6, <1>7
  DEF Next, vars, mains, peers, daemon_start, spawn, launch, argument_is_version, HasCall,
      at, running

LEMMA FairCall ==
  ASSUME NEW p \in Processes
  PROVE  LiveSpec => Spec /\ ([]<>~HasCall(p) \/ []<><<main(p)>>_vars)
BY DEF LiveSpec, CallsAreMade

LEMMA CallEnds ==
  ASSUME NEW p \in Processes, NEW c \in Calls
  PROVE  LiveSpec => (at(p, c) /\ HasCall(p) ~> ~running(p) \/ pc[p] \in After(c))
<1>. DEFINE Before == at(p, c) /\ HasCall(p)
            Past   == ~running(p) \/ pc[p] \in After(c)
<1>1. ComponentInvariant /\ Before /\ [Next]_vars => Before' \/ Past'
  BY Moves, CallStays DEF at, running
<1>2. ComponentInvariant /\ Before /\ <<main(p)>>_vars => Past'
  BY MainMoves DEF at
<1>3. Before => HasCall(p)
  OBVIOUS
<1>. HIDE DEF Before, Past
<1>4. LiveSpec => (Before ~> Past)
  BY <1>1, <1>2, <1>3, InvariantHolds, FairCall, PTL DEF Spec
<1>. QED  BY <1>4 DEF Before, Past

-----------------------------------------------------------------------------
(* A process in trouble, without a connection or on its way out, is lost: it *)
(* cannot get a connection again, and nothing holds it up.                   *)

Troubled(p) ==
  /\ running(p) /\ ~at(p, "bus_new")
  /\ link[p] # "up" \/ pc[p] \in Leaving

LEMMA TroubleLasts ==
  ASSUME ComponentInvariant, NEW p \in Processes, Troubled(p), [Next]_vars
  PROVE  Troubled(p)' \/ ~running(p)'
<1>1. CASE main(p)
  <2>. USE DEF ComponentInvariant, TypeOK, OwnState, Troubled, Wired, Asking, Built, Leaving,
               peers, at, goto, running, main
  <2>1. CASE clear_bus(p)  BY <2>1 DEF clear_bus
  <2>2. CASE pc[p] \in Leaving /\ ~clear_bus(p)
    BY <1>1, <2>2, MainMoves DEF After
  <2>3. CASE pc[p] \notin Leaving /\ ~clear_bus(p)
    BY <1>1, <2>3
    DEF ibus_bus_new, is_connected, connect_disconnected, ibus_factory_new,
        ibus_factory_add_engine, ibus_bus_request_name, request_name_reply,
        bus_disconnected_cb, clear_factory
  <2>. QED  BY <2>1, <2>2, <2>3
<1>2. ASSUME NEW q \in Processes, q # p, main(q)
      PROVE  pc'[p] = pc[p] /\ link'[p] = link[p]
  <2>1. CASE clear_bus(q)
    BY <1>2, <2>1 DEF clear_bus, goto, ComponentInvariant, TypeOK
  <2>2. CASE ~clear_bus(q)
    BY <1>2, <2>2, MainFrame
  <2>. QED  BY <2>1, <2>2
<1>3. ASSUME NEW q \in Processes, start(q), UNCHANGED link  PROVE Troubled(p)'
  BY <1>3 DEF start, goto, Troubled, at, running, Leaving, ComponentInvariant, TypeOK
<1>4. ASSUME NEW q \in Processes, kill(q)  PROVE Troubled(p)' \/ ~running(p)'
  BY <1>4 DEF kill, goto, Troubled, at, running, Leaving, ComponentInvariant, TypeOK
<1>5. CASE daemon_stop
  BY <1>5 DEF daemon_stop, mains, Troubled, at, running, ComponentInvariant, TypeOK
<1>. QED
  BY <1>1, <1>2, <1>3, <1>4, <1>5
  DEF Next, vars, mains, peers, daemon_start, spawn, launch, argument_is_version, grant,
      Troubled, at, running

InTrouble(p, c)   == at(p, c) /\ Troubled(p)
PastTrouble(p, c) == ~running(p) \/ (pc[p] \in After(c) /\ Troubled(p))

TroubleRule(p, c) ==
  /\ ComponentInvariant /\ InTrouble(p, c) => HasCall(p)
  /\ ComponentInvariant /\ InTrouble(p, c) /\ [Next]_vars
       => InTrouble(p, c)' \/ PastTrouble(p, c)'
  /\ ComponentInvariant /\ InTrouble(p, c) /\ <<main(p)>>_vars
       => PastTrouble(p, c)'

LEMMA TroubleMoves ==
  ASSUME NEW p \in Processes, NEW c \in Calls
  PROVE  TroubleRule(p, c)
<1>1. ASSUME ComponentInvariant, InTrouble(p, c)  PROVE HasCall(p)
  BY <1>1 DEF ComponentInvariant, TypeOK, OwnState, InTrouble, Troubled, HasCall, Wired,
     Leaving, at, running
<1>2. ASSUME ComponentInvariant, InTrouble(p, c), [Next]_vars
      PROVE  InTrouble(p, c)' \/ PastTrouble(p, c)'
  BY <1>2, TroubleLasts, Moves DEF InTrouble, PastTrouble, at, running
<1>3. ASSUME ComponentInvariant, InTrouble(p, c), <<main(p)>>_vars
      PROVE  PastTrouble(p, c)'
  BY <1>3, TroubleLasts, MainMoves DEF InTrouble, PastTrouble, at, Next
<1>. QED  BY <1>1, <1>2, <1>3 DEF TroubleRule

LEMMA TroubleEnds ==
  ASSUME NEW p \in Processes
  PROVE  LiveSpec => (Troubled(p) ~> ~running(p))
<1>1. LiveSpec => (InTrouble(p, "is_connected") ~> PastTrouble(p, "is_connected"))
  <2>1. TroubleRule(p, "is_connected")
    BY TroubleMoves DEF Calls
  <2>. QED  BY <2>1, InvariantHolds, FairCall, PTL DEF Spec, TroubleRule
<1>2. LiveSpec => (InTrouble(p, "connect") ~> PastTrouble(p, "connect"))
  <2>1. TroubleRule(p, "connect")
    BY TroubleMoves DEF Calls
  <2>. QED  BY <2>1, InvariantHolds, FairCall, PTL DEF Spec, TroubleRule
<1>3. LiveSpec => (InTrouble(p, "factory_new") ~> PastTrouble(p, "factory_new"))
  <2>1. TroubleRule(p, "factory_new")
    BY TroubleMoves DEF Calls
  <2>. QED  BY <2>1, InvariantHolds, FairCall, PTL DEF Spec, TroubleRule
<1>4. LiveSpec => (InTrouble(p, "add_engine") ~> PastTrouble(p, "add_engine"))
  <2>1. TroubleRule(p, "add_engine")
    BY TroubleMoves DEF Calls
  <2>. QED  BY <2>1, InvariantHolds, FairCall, PTL DEF Spec, TroubleRule
<1>5. LiveSpec => (InTrouble(p, "request_name") ~> PastTrouble(p, "request_name"))
  <2>1. TroubleRule(p, "request_name")
    BY TroubleMoves DEF Calls
  <2>. QED  BY <2>1, InvariantHolds, FairCall, PTL DEF Spec, TroubleRule
<1>6. LiveSpec => (InTrouble(p, "reply") ~> PastTrouble(p, "reply"))
  <2>1. TroubleRule(p, "reply")
    BY TroubleMoves DEF Calls
  <2>. QED  BY <2>1, InvariantHolds, FairCall, PTL DEF Spec, TroubleRule
<1>7. LiveSpec => (InTrouble(p, "main_loop") ~> PastTrouble(p, "main_loop"))
  <2>1. TroubleRule(p, "main_loop")
    BY TroubleMoves DEF Calls
  <2>. QED  BY <2>1, InvariantHolds, FairCall, PTL DEF Spec, TroubleRule
<1>8. LiveSpec => (InTrouble(p, "clear_factory") ~> PastTrouble(p, "clear_factory"))
  <2>1. TroubleRule(p, "clear_factory")
    BY TroubleMoves DEF Calls
  <2>. QED  BY <2>1, InvariantHolds, FairCall, PTL DEF Spec, TroubleRule
<1>9. LiveSpec => (InTrouble(p, "clear_bus") ~> PastTrouble(p, "clear_bus"))
  <2>1. TroubleRule(p, "clear_bus")
    BY TroubleMoves DEF Calls
  <2>. QED  BY <2>1, InvariantHolds, FairCall, PTL DEF Spec, TroubleRule
<1>10. /\ PastTrouble(p, "is_connected") => ~running(p) \/ InTrouble(p, "connect") \/ InTrouble(p, "clear_bus")
       /\ PastTrouble(p, "connect") => ~running(p) \/ InTrouble(p, "factory_new")
       /\ PastTrouble(p, "factory_new") => ~running(p) \/ InTrouble(p, "add_engine")
       /\ PastTrouble(p, "add_engine") => ~running(p) \/ InTrouble(p, "request_name")
       /\ PastTrouble(p, "request_name") => ~running(p) \/ InTrouble(p, "reply")
       /\ PastTrouble(p, "reply") => ~running(p) \/ InTrouble(p, "main_loop") \/ InTrouble(p, "clear_factory")
       /\ PastTrouble(p, "main_loop") => ~running(p) \/ InTrouble(p, "clear_factory")
       /\ PastTrouble(p, "clear_factory") => ~running(p) \/ InTrouble(p, "clear_bus")
       /\ PastTrouble(p, "clear_bus") => ~running(p)
  BY DEF InTrouble, PastTrouble, After, at, running
<1>11. ComponentInvariant /\ Troubled(p) =>
         \E c \in Calls \ {"ended", "bus_new"} : InTrouble(p, c)
  BY DEF ComponentInvariant, TypeOK, Calls, Troubled, InTrouble, at, running
<1>12. (\E c \in Calls \ {"ended", "bus_new"} : InTrouble(p, c)) =>
         \/ InTrouble(p, "is_connected")
         \/ InTrouble(p, "connect")
         \/ InTrouble(p, "factory_new")
         \/ InTrouble(p, "add_engine")
         \/ InTrouble(p, "request_name")
         \/ InTrouble(p, "reply")
         \/ InTrouble(p, "main_loop")
         \/ InTrouble(p, "clear_factory")
         \/ InTrouble(p, "clear_bus")
  BY DEF Calls
<1>. QED
  BY <1>1, <1>2, <1>3, <1>4, <1>5, <1>6, <1>7, <1>8, <1>9, <1>10, <1>11, <1>12,
     InvariantHolds, FairCall, PTL

-----------------------------------------------------------------------------
(* While the daemon runs and nothing disturbs, a sound start stays sound:    *)
(* its connection is up, its request is answered, and it reaches the loop.   *)

Sound(p) ==
  /\ daemon
  /\ pc[p] \notin Leaving
  /\ running(p) /\ ~at(p, "bus_new") => link[p] = "up"

\* A step that disturbs nobody, and a behaviour of such steps.
Quiet      == [Next /\ UNCHANGED disturbances]_vars
StaysQuiet == [][Next /\ UNCHANGED disturbances]_vars

LEMMA QuietIs ==
  ASSUME ComponentInvariant, Quiet
  PROVE  /\ \/ daemon_start \/ UNCHANGED vars
            \/ \E p \in Processes : main(p) \/ spawn(p) \/ grant(p)
         /\ disturbances' = disturbances
BY DEF Quiet, Next, vars, peers, daemon_stop, launch, argument_is_version, kill, disturb,
   ComponentInvariant, TypeOK

LEMMA SoundOrTroubled ==
  ASSUME ComponentInvariant, daemon, NEW p \in Processes
  PROVE  Sound(p) \/ Troubled(p)
BY DEF ComponentInvariant, TypeOK, OwnState, Sound, Troubled, Leaving, running, at

LEMMA DaemonStays ==
  ASSUME ComponentInvariant, daemon, Quiet
  PROVE  daemon'
<1>1. ASSUME NEW q \in Processes, main(q)  PROVE daemon'
  BY <1>1
  DEF main, peers, ibus_bus_new, is_connected, connect_disconnected, ibus_factory_new,
      ibus_factory_add_engine, ibus_bus_request_name, request_name_reply, bus_disconnected_cb,
      clear_factory, clear_bus
<1>. QED
  BY <1>1, QuietIs DEF daemon_start, spawn, grant, vars, peers

\* Its own calls, and what the others do, leave a sound start sound and running.
LEMMA SoundLasts ==
  ASSUME ComponentInvariant, NEW p \in Processes, Sound(p), Quiet
  PROVE  Sound(p)' /\ (running(p) => running(p)')
<1>1. CASE main(p)
  <2>. USE DEF ComponentInvariant, TypeOK, OwnState, Sound, Wired, Leaving, peers, at, goto,
               running, Calls
  <2>1. disturbances' = disturbances
    BY QuietIs
  <2>2. CASE ibus_bus_new(p)              BY <2>1, <2>2 DEF ibus_bus_new
  <2>3. CASE is_connected(p)              BY <2>1, <2>3 DEF is_connected
  <2>4. CASE connect_disconnected(p)      BY <2>1, <2>4 DEF connect_disconnected
  <2>5. CASE ibus_factory_new(p)          BY <2>1, <2>5 DEF ibus_factory_new
  <2>6. CASE ibus_factory_add_engine(p)   BY <2>1, <2>6 DEF ibus_factory_add_engine
  <2>7. CASE ibus_bus_request_name(p)     BY <2>1, <2>7 DEF ibus_bus_request_name
  <2>8. CASE request_name_reply(p)        BY <2>1, <2>8 DEF request_name_reply, call_ended
  <2>9. CASE bus_disconnected_cb(p)       BY <2>1, <2>9 DEF bus_disconnected_cb
  <2>10. CASE clear_factory(p)            BY <2>1, <2>10 DEF clear_factory
  <2>11. CASE clear_bus(p)                BY <2>1, <2>11 DEF clear_bus
  <2>. QED
    BY <1>1, <2>2, <2>3, <2>4, <2>5, <2>6, <2>7, <2>8, <2>9, <2>10, <2>11 DEF main
<1>2. ASSUME NEW q \in Processes, q # p, main(q)
      PROVE  pc'[p] = pc[p] /\ link'[p] = link[p]
  <2>1. CASE clear_bus(q)
    BY <1>2, <2>1 DEF clear_bus, goto, ComponentInvariant, TypeOK
  <2>2. CASE ~clear_bus(q)
    BY <1>2, <2>2, MainFrame
  <2>. QED  BY <2>1, <2>2
<1>3. daemon'
  BY DaemonStays DEF Sound
<1>4. ASSUME NEW q \in Processes, spawn(q)  PROVE Sound(p)' /\ (running(p) => running(p)')
  BY <1>3, <1>4
  DEF spawn, start, goto, Sound, at, running, Leaving, ComponentInvariant, TypeOK, Calls
<1>. QED
  BY <1>1, <1>2, <1>3, <1>4, QuietIs
  DEF daemon_start, grant, vars, mains, peers, Sound, at, running

SoundAt(p, c)   == Sound(p) /\ at(p, c) /\ (c = "reply" => answer[p] # 0)
PastSound(p, c) == Sound(p) /\ pc[p] \in After(c)

\* A sound start at a call that can be made stays there until it is past it.
SoundRule(p, c) ==
  /\ ComponentInvariant /\ SoundAt(p, c) => HasCall(p)
  /\ ComponentInvariant /\ SoundAt(p, c) /\ Quiet => SoundAt(p, c)' \/ PastSound(p, c)'
  /\ ComponentInvariant /\ SoundAt(p, c) /\ Quiet /\ <<main(p)>>_vars => PastSound(p, c)'

LEMMA SoundMoves ==
  ASSUME NEW p \in Processes, NEW c \in Calls \ {"ended", "main_loop"}
  PROVE  SoundRule(p, c)
<1>1. ASSUME ComponentInvariant, SoundAt(p, c)  PROVE HasCall(p)
  BY <1>1 DEF SoundAt, HasCall, at, running
<1>2. ASSUME ComponentInvariant, SoundAt(p, c), Quiet
      PROVE  SoundAt(p, c)' \/ PastSound(p, c)'
  <2>1. Sound(p)' /\ running(p)'
    BY <1>2, SoundLasts DEF SoundAt, at, running
  <2>2. pc'[p] = pc[p] \/ pc'[p] \in After(c)
    BY <1>2, <2>1, Moves DEF SoundAt, at, Quiet, running
  <2>3. ASSUME pc'[p] = pc[p], c = "reply"  PROVE answer'[p] # 0
    BY <1>2, <2>1, <2>3, CallStays
    DEF SoundAt, Sound, HasCall, at, running, Quiet
  <2>. QED  BY <1>2, <2>1, <2>2, <2>3 DEF SoundAt, PastSound, at
<1>3. ASSUME ComponentInvariant, SoundAt(p, c), Quiet, <<main(p)>>_vars
      PROVE  PastSound(p, c)'
  BY <1>3, SoundLasts, MainMoves DEF SoundAt, PastSound, at
<1>. QED  BY <1>1, <1>2, <1>3 DEF SoundRule

\* A sound start that waits for its answer has asked, so the daemon answers it.
Unanswered(p) == Sound(p) /\ at(p, "reply") /\ answer[p] = 0

LEMMA AnswerComes ==
  ASSUME NEW p \in Processes
  PROVE  /\ ComponentInvariant /\ Unanswered(p) => p \in requested
         /\ ComponentInvariant /\ Unanswered(p) /\ Quiet
              => Unanswered(p)' \/ SoundAt(p, "reply")' \/ PastSound(p, "reply")'
         /\ ComponentInvariant /\ Unanswered(p) /\ Quiet /\ <<grant(p)>>_vars
              => SoundAt(p, "reply")'
<1>1. ASSUME ComponentInvariant, Unanswered(p)  PROVE p \in requested
  BY <1>1 DEF Unanswered, Sound, ComponentInvariant, BusState, at, running
<1>2. ASSUME ComponentInvariant, Unanswered(p), Quiet
      PROVE  Unanswered(p)' \/ SoundAt(p, "reply")' \/ PastSound(p, "reply")'
  <2>1. Sound(p)' /\ running(p)'
    BY <1>2, SoundLasts DEF Unanswered, at, running
  <2>2. pc'[p] = pc[p] \/ pc'[p] \in After("reply")
    BY <1>2, <2>1, Moves DEF Unanswered, at, Quiet, running
  <2>. QED  BY <1>2, <2>1, <2>2 DEF Unanswered, SoundAt, PastSound, at
<1>3. ASSUME ComponentInvariant, Unanswered(p), Quiet, <<grant(p)>>_vars
      PROVE  SoundAt(p, "reply")'
  <2>1. Sound(p)'
    BY <1>3, SoundLasts DEF Unanswered
  <2>. QED
    BY <1>3, <2>1 DEF grant, mains, Unanswered, SoundAt, at, ComponentInvariant, TypeOK, Replies
<1>. QED  BY <1>1, <1>2, <1>3

LEMMA FairGrant ==
  ASSUME NEW p \in Processes
  PROVE  LiveSpec => ([]<>(p \notin requested) \/ []<><<grant(p)>>_vars)
BY DEF LiveSpec, DaemonWorks

Looping(p) == Sound(p) /\ at(p, "main_loop")

LEMMA SoundEndsInLoop ==
  ASSUME NEW p \in Processes
  PROVE  LiveSpec => [](StaysQuiet => (Sound(p) /\ running(p) ~> Looping(p)))
<1>1. LiveSpec => [](StaysQuiet => (SoundAt(p, "bus_new") ~> PastSound(p, "bus_new")))
  <2>1. SoundRule(p, "bus_new")
    BY SoundMoves DEF Calls
  <2>. QED  BY <2>1, InvariantHolds, FairCall, PTL DEF SoundRule, Quiet, StaysQuiet
<1>2. LiveSpec => [](StaysQuiet => (SoundAt(p, "is_connected") ~> PastSound(p, "is_connected")))
  <2>1. SoundRule(p, "is_connected")
    BY SoundMoves DEF Calls
  <2>. QED  BY <2>1, InvariantHolds, FairCall, PTL DEF SoundRule, Quiet, StaysQuiet
<1>3. LiveSpec => [](StaysQuiet => (SoundAt(p, "connect") ~> PastSound(p, "connect")))
  <2>1. SoundRule(p, "connect")
    BY SoundMoves DEF Calls
  <2>. QED  BY <2>1, InvariantHolds, FairCall, PTL DEF SoundRule, Quiet, StaysQuiet
<1>4. LiveSpec => [](StaysQuiet => (SoundAt(p, "factory_new") ~> PastSound(p, "factory_new")))
  <2>1. SoundRule(p, "factory_new")
    BY SoundMoves DEF Calls
  <2>. QED  BY <2>1, InvariantHolds, FairCall, PTL DEF SoundRule, Quiet, StaysQuiet
<1>5. LiveSpec => [](StaysQuiet => (SoundAt(p, "add_engine") ~> PastSound(p, "add_engine")))
  <2>1. SoundRule(p, "add_engine")
    BY SoundMoves DEF Calls
  <2>. QED  BY <2>1, InvariantHolds, FairCall, PTL DEF SoundRule, Quiet, StaysQuiet
<1>6. LiveSpec => [](StaysQuiet => (SoundAt(p, "request_name") ~> PastSound(p, "request_name")))
  <2>1. SoundRule(p, "request_name")
    BY SoundMoves DEF Calls
  <2>. QED  BY <2>1, InvariantHolds, FairCall, PTL DEF SoundRule, Quiet, StaysQuiet
<1>7. LiveSpec => [](StaysQuiet => (SoundAt(p, "reply") ~> PastSound(p, "reply")))
  <2>1. SoundRule(p, "reply")
    BY SoundMoves DEF Calls
  <2>. QED  BY <2>1, InvariantHolds, FairCall, PTL DEF SoundRule, Quiet, StaysQuiet
<1>8. LiveSpec => [](StaysQuiet => (Unanswered(p)
                             ~> SoundAt(p, "reply") \/ PastSound(p, "reply")))
  <2>1. p \in requested => ~(p \notin requested)
    OBVIOUS
  <2>. QED  BY <2>1, AnswerComes, InvariantHolds, FairCall, FairGrant, PTL DEF Quiet, StaysQuiet
<1>9. /\ PastSound(p, "bus_new") => SoundAt(p, "is_connected")
      /\ PastSound(p, "is_connected") => SoundAt(p, "connect")
      /\ PastSound(p, "connect") => SoundAt(p, "factory_new")
      /\ PastSound(p, "factory_new") => SoundAt(p, "add_engine")
      /\ PastSound(p, "add_engine") => SoundAt(p, "request_name")
      /\ PastSound(p, "request_name") => Unanswered(p) \/ SoundAt(p, "reply")
      /\ PastSound(p, "reply") => Looping(p)
  BY DEF PastSound, SoundAt, Unanswered, Looping, Sound, Leaving, After, at
<1>10. ComponentInvariant /\ Sound(p) /\ running(p) =>
         \/ SoundAt(p, "bus_new")
         \/ SoundAt(p, "is_connected")
         \/ SoundAt(p, "connect")
         \/ SoundAt(p, "factory_new")
         \/ SoundAt(p, "add_engine")
         \/ SoundAt(p, "request_name")
         \/ SoundAt(p, "reply")
         \/ Unanswered(p) \/ Looping(p)
  BY DEF ComponentInvariant, TypeOK, Calls, SoundAt, Unanswered, Looping, Sound, Leaving,
     at, running
<1>. QED
  BY <1>1, <1>2, <1>3, <1>4, <1>5, <1>6, <1>7, <1>8, <1>9, <1>10,
     InvariantHolds, FairCall, PTL

LEMMA LoopLasts ==
  ASSUME ComponentInvariant, NEW p \in Processes, Looping(p), Quiet
  PROVE  Looping(p)'
BY SoundLasts, Moves DEF Looping, Sound, Leaving, After, at, running, Quiet

LEMMA DaemonReturns ==
  LiveSpec /\ DisturbancesStop => <>([]daemon /\ StaysQuiet)
<1>1. <<daemon_start>>_vars => daemon'
  BY DEF daemon_start
<1>2. LiveSpec => ([]<>daemon \/ []<><<daemon_start>>_vars)
  BY DEF LiveSpec, DaemonWorks
<1>3. ComponentInvariant /\ daemon /\ Quiet => daemon'
  BY DaemonStays
<1>4. LiveSpec => Spec
  BY DEF LiveSpec
<1>5. [Next]_vars /\ [UNCHANGED disturbances]_vars => [Next /\ UNCHANGED disturbances]_vars
  OBVIOUS
<1>. QED
  BY <1>1, <1>2, <1>3, <1>4, <1>5, InvariantHolds, PTL
  DEF Spec, DisturbancesStop, Quiet, StaysQuiet

LEMMA Settles ==
  ASSUME NEW p \in Processes
  PROVE  LiveSpec /\ DisturbancesStop => <>[]Settled(p)
<1>1. /\ ComponentInvariant /\ daemon => Sound(p) \/ Troubled(p)
      /\ daemon /\ ~running(p) => Sound(p)
  BY SoundOrTroubled DEF Sound, running, Leaving
<1>2. /\ ComponentInvariant /\ Sound(p) /\ Quiet => Sound(p)' /\ (running(p) => running(p)')
      /\ ComponentInvariant /\ Looping(p) /\ Quiet => Looping(p)'
  BY SoundLasts, LoopLasts
<1>3. /\ ComponentInvariant /\ Looping(p) => Settled(p)
      /\ ~running(p) => Settled(p)
  BY InvariantImplies DEF RunningHasItsClaim, Looping, Sound, Settled, at, running
<1>. QED
  BY <1>1, <1>2, <1>3, TroubleEnds, SoundEndsInLoop, DaemonReturns, InvariantHolds,
     FairCall, PTL DEF Quiet, StaysQuiet

-----------------------------------------------------------------------------
(* The liveness theorems.                                                  *)

\* main.c:30-39, 94-99: the disconnection ends the process whatever call it finds
\* it in, as long as calls that can end do end.
THEOREM DisconnectedEnd == LiveSpec => EndsAfterDisconnection
<1>1. ASSUME NEW p \in Processes
      PROVE  LiveSpec => ((link[p] = "closed") ~> ~running(p))
  <2>1. ComponentInvariant /\ link[p] = "closed" => Troubled(p)
    BY DEF ComponentInvariant, OwnState, Troubled, at, running
  <2>. QED  BY <2>1, TroubleEnds, InvariantHolds, FairCall, PTL
<1>2. LiveSpec => \A p \in Processes : ((link[p] = "closed") ~> ~running(p))
  BY <1>1
<1>. QED  BY <1>2 DEF EndsAfterDisconnection

\* main.c:45, 63-94: when the disturbances stop, however many there were, every
\* start comes to the main loop with a claim, or the process has ended for good.
THEOREM AllSettle == LiveSpec /\ DisturbancesStop => StartsSettle
<1>1. LiveSpec /\ DisturbancesStop => \A p \in Processes : <>[]Settled(p)
  BY Settles
<1>. QED  BY <1>1 DEF StartsSettle

AllSettled == \A p \in Processes : Settled(p)
Idle       == \A p \in Processes : ~running(p)

\* Where everything has settled, the owner of the name serves it.
LEMMA SettledOwner ==
  ASSUME ComponentInvariant, AllSettled, ~Idle
  PROVE  Served
<1>1. PICK p \in Processes : running(p) /\ claims(p)
  BY DEF AllSettled, Settled, Idle
<1>2. owner \in Processes
  BY <1>1 DEF ComponentInvariant, TypeOK, QueueState, claims
<1>3. link[owner] = "up" /\ pc[owner] \in Asking
  BY <1>2 DEF ComponentInvariant, BusState, claims
<1>4. at(owner, "main_loop")
  BY <1>2, <1>3 DEF AllSettled, Settled, running, Asking
<1>5. factory[owner] = "ready"
  BY <1>2, <1>4 DEF ComponentInvariant, OwnState, Built, at
<1>. QED  BY <1>2, <1>3, <1>4, <1>5 DEF Served

\* What the daemon starts where nobody runs has not settled yet.
LEMMA SpawnUnsettles ==
  ASSUME ComponentInvariant, \E p \in Processes : spawn(p)
  PROVE  ~AllSettled'
BY DEF spawn, start, goto, at, running, AllSettled, Settled, ComponentInvariant, TypeOK

\* main.c:33-34: in a behaviour that settles, for which AllSettle has every
\* process settle, the name has an owner that serves it for good.
THEOREM SettledServe ==
  ASSUME Processes # {}
  PROVE  LiveSpec /\ DisturbancesStop /\ <>[]AllSettled => ServiceReturns
<1>1. ComponentInvariant /\ AllSettled /\ ~Idle => Served
  BY SettledOwner
<1>2. ComponentInvariant /\ daemon /\ Idle => HasToSpawn
  BY DEF ComponentInvariant, TypeOK, Idle, HasToSpawn, running, at
<1>3. ComponentInvariant /\ <<\E p \in Processes : spawn(p)>>_vars => ~AllSettled'
  BY SpawnUnsettles
<1>4. ComponentInvariant /\ AllSettled /\ ~Idle /\ daemon /\ Quiet => ~Idle'
  <2>. SUFFICES ASSUME ComponentInvariant, AllSettled, daemon, Quiet,
                       NEW p \in Processes, running(p)
                PROVE  running(p)'
    BY DEF Idle
  <2>. QED
    BY SoundLasts DEF AllSettled, Settled, Sound, at, Leaving
<1>5. LiveSpec => ([]<>~HasToSpawn \/ []<><<\E p \in Processes : spawn(p)>>_vars)
  BY DEF LiveSpec, DaemonWorks
<1>6. LiveSpec => Spec
  BY DEF LiveSpec
<1>. QED
  BY <1>1, <1>2, <1>3, <1>4, <1>5, <1>6, DaemonReturns, InvariantHolds, PTL
  DEF ServiceReturns, Quiet, StaysQuiet

=============================================================================
