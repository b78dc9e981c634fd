------------------------------ MODULE Component ------------------------------
(***************************************************************************)
(* The component executable, main() of src/src/ibus/main.c, run by several *)
(* processes: ibus-daemon starts and supervises one, and a user may start  *)
(* others by hand.  Between any two calls of main() the daemon may answer  *)
(* late, stop, or start again.  ibus-daemon, its bus and the main loop are *)
(* external, and modelled from what main() asks of them.                   *)
(***************************************************************************)
EXTENDS Naturals

CONSTANTS
  Processes,        \* identities of processes, reused when they have ended
  NoProcess,        \* no process
  MaxDisturbances   \* bound: stops of the daemon, kills, hand starts, timeouts

ASSUME ComponentAssumption ==
  /\ NoProcess \notin Processes
  /\ MaxDisturbances \in Nat

VARIABLES
  pc,        \* the call main() is about to make in each process
  bus,       \* the process holds an IBusBus
  link,      \* the bus connection of that IBusBus
  watched,   \* bus_disconnected_cb is connected
  factory,   \* the IBusFactory: none, without an engine, or ready
  answer,    \* what the bus has answered to RequestName, 0 for nothing
  status,    \* the exit status, once main() has decided on it
  daemon,    \* ibus-daemon runs
  owner,     \* the process that owns the bus name
  waiting,   \* the processes queued for it
  requested, \* RequestName calls the daemon has not served yet
  child,     \* the process this daemon has started
  disturbances

mains == <<pc, bus, watched, factory, status>>
peers == <<link, answer, daemon, owner, waiting, requested, child, disturbances>>
vars  == <<mains, peers>>

Calls == {"bus_new", "is_connected", "connect", "factory_new", "add_engine",
          "request_name", "reply", "main_loop", "clear_factory", "clear_bus", "ended"}
Replies == {0, 1, 2}  \* an error, now the owner, queued behind the owner

at(p, call)   == pc[p] = call
goto(p, call) == pc' = [pc EXCEPT ![p] = call]
running(p)    == pc[p] # "ended"

\* A process without a connection has no name and no call in the daemon; its name
\* passes to one that waits for it.
forget(p) ==
  /\ \/ owner # p /\ owner' = owner /\ waiting' = waiting \ {p}
     \/ owner = p /\ waiting = {} /\ owner' = NoProcess /\ waiting' = {}
     \/ /\ owner = p
        /\ \E q \in waiting : owner' = q /\ waiting' = waiting \ {q}
  /\ requested' = requested \ {p}
  /\ answer' = [answer EXCEPT ![p] = 0]

Init ==
  /\ pc = [p \in Processes |-> "ended"]
  /\ bus = [p \in Processes |-> FALSE]
  /\ link = [p \in Processes |-> "none"]
  /\ watched = [p \in Processes |-> FALSE]
  /\ factory = [p \in Processes |-> "none"]
  /\ answer = [p \in Processes |-> 0]
  /\ status = [p \in Processes |-> "none"]
  /\ daemon = FALSE
  /\ owner = NoProcess
  /\ waiting = {}
  /\ requested = {}
  /\ child = NoProcess
  /\ disturbances = 0

-----------------------------------------------------------------------------
\* main(), one action per call that another party can come between.
start(p) ==
  /\ at(p, "ended")
  /\ goto(p, "bus_new")
  /\ status' = [status EXCEPT ![p] = "none"]
  /\ UNCHANGED <<bus, watched, factory>>

ibus_bus_new(p) ==
  /\ at(p, "bus_new")
  /\ goto(p, "is_connected")
  /\ bus' = [bus EXCEPT ![p] = TRUE]
  /\ link' = [link EXCEPT ![p] = IF daemon THEN "up" ELSE "none"]
  /\ UNCHANGED <<watched, factory, status, answer, daemon, owner, waiting, requested, child, disturbances>>

\* Without a connection main() gives up before it has a factory.
is_connected(p) ==
  /\ at(p, "is_connected")
  /\ IF link[p] = "up"
     THEN goto(p, "connect") /\ UNCHANGED status
     ELSE goto(p, "clear_bus") /\ status' = [status EXCEPT ![p] = "1"]
  /\ UNCHANGED <<bus, watched, factory, peers>>

\* With a defect: nobody listens for the disconnection.
connect_nothing(p) ==
  /\ at(p, "connect")
  /\ goto(p, "factory_new")
  /\ UNCHANGED <<bus, watched, factory, status, peers>>

connect_disconnected(p) ==
  /\ at(p, "connect")
  /\ goto(p, "factory_new")
  /\ watched' = [watched EXCEPT ![p] = TRUE]
  /\ UNCHANGED <<bus, factory, status, peers>>

ibus_factory_new(p) ==
  /\ at(p, "factory_new")
  /\ goto(p, "add_engine")
  /\ factory' = [factory EXCEPT ![p] = "empty"]
  /\ UNCHANGED <<bus, watched, status, peers>>

\* With a defect: the engine is registered under a name nobody asks for.
add_engine_misnamed(p) ==
  /\ at(p, "add_engine")
  /\ goto(p, "request_name")
  /\ UNCHANGED <<bus, watched, factory, status, peers>>

ibus_factory_add_engine(p) ==
  /\ at(p, "add_engine")
  /\ goto(p, "request_name")
  /\ factory' = [factory EXCEPT ![p] = "ready"]
  /\ UNCHANGED <<bus, watched, status, peers>>

\* RequestName is a call to the daemon: it is sent here and awaited in "reply".
ibus_bus_request_name(p) ==
  /\ at(p, "request_name")
  /\ goto(p, "reply")
  /\ requested' = IF link[p] = "up" THEN requested \cup {p} ELSE requested
  /\ UNCHANGED <<bus, watched, factory, status, link, answer, daemon, owner, waiting, child, disturbances>>

\* The call ends with the answer of the bus, or with 0 if the connection is
\* closed or the answer is too long in coming.  Too late an answer counts for
\* nothing, but the daemon may still serve the request.
call_ended(p) ==
  \/ /\ answer[p] # 0 \/ link[p] # "up"
     /\ UNCHANGED disturbances
  \/ /\ answer[p] = 0 /\ link[p] = "up"
     /\ disturbances < MaxDisturbances
     /\ disturbances' = disturbances + 1

\* With a defect: the reply is not looked at.
request_name_unchecked(p) ==
  /\ at(p, "reply")
  /\ call_ended(p)
  /\ goto(p, "main_loop")
  /\ UNCHANGED <<bus, watched, factory, status, link, answer, daemon, owner, waiting, requested, child>>

\* With a defect: only the owner's reply counts as a success.
request_name_or_leave(p) ==
  /\ at(p, "reply")
  /\ call_ended(p)
  /\ IF answer[p] # 1
     THEN goto(p, "clear_factory") /\ status' = [status EXCEPT ![p] = "1"]
     ELSE goto(p, "main_loop") /\ UNCHANGED status
  /\ UNCHANGED <<bus, watched, factory, link, answer, daemon, owner, waiting, requested, child>>

request_name_reply(p) ==
  /\ at(p, "reply")
  /\ call_ended(p)
  /\ IF answer[p] = 0
     THEN goto(p, "clear_factory") /\ status' = [status EXCEPT ![p] = "1"]
     ELSE goto(p, "main_loop") /\ UNCHANGED status
  /\ UNCHANGED <<bus, watched, factory, link, answer, daemon, owner, waiting, requested, child>>

\* ibus_main() runs until ibus_quit().  The connection reports its end to the
\* main loop, so a disconnection from before the loop is heard of in it as well.
bus_disconnected_cb(p) ==
  /\ at(p, "main_loop")
  /\ watched[p] /\ link[p] = "closed"
  /\ goto(p, "clear_factory")
  /\ status' = [status EXCEPT ![p] = "0"]
  /\ UNCHANGED <<bus, watched, factory, peers>>

\* With a defect: the pointer survives the object.
unref_factory(p) ==
  /\ at(p, "clear_factory")
  /\ goto(p, "clear_bus")
  /\ factory' = [factory EXCEPT ![p] = "freed"]
  /\ UNCHANGED <<bus, watched, status, peers>>

clear_factory(p) ==
  /\ at(p, "clear_factory")
  /\ goto(p, "clear_bus")
  /\ factory' = [factory EXCEPT ![p] = "none"]
  /\ UNCHANGED <<bus, watched, status, peers>>

\* The connection goes with the bus object, and the name with the connection.
clear_bus(p) ==
  /\ at(p, "clear_bus")
  /\ goto(p, "ended")
  /\ bus' = [bus EXCEPT ![p] = FALSE]
  /\ watched' = [watched EXCEPT ![p] = FALSE]
  /\ link' = [link EXCEPT ![p] = "none"]
  /\ forget(p)
  /\ UNCHANGED <<factory, status, daemon, child, disturbances>>

main(p) ==
  \/ ibus_bus_new(p) \/ is_connected(p) \/ connect_disconnected(p)
  \/ ibus_factory_new(p) \/ ibus_factory_add_engine(p)
  \/ ibus_bus_request_name(p) \/ request_name_reply(p)
  \/ bus_disconnected_cb(p) \/ clear_factory(p) \/ clear_bus(p)

-----------------------------------------------------------------------------
\* ibus-daemon, the bus, and the user.
disturb ==
  /\ disturbances < MaxDisturbances
  /\ disturbances' = disturbances + 1

daemon_start ==
  /\ ~daemon
  /\ daemon' = TRUE
  /\ UNCHANGED <<mains, link, answer, owner, waiting, requested, child, disturbances>>

\* Whoever is connected is no longer, and finds out from the connection.
daemon_stop ==
  /\ daemon /\ disturb
  /\ daemon' = FALSE
  /\ link' = [p \in Processes |-> IF link[p] = "up" THEN "closed" ELSE link[p]]
  /\ owner' = NoProcess
  /\ waiting' = {}
  /\ requested' = {}
  /\ child' = NoProcess
  /\ UNCHANGED <<mains, answer>>

\* The daemon starts the executable when the one it started has ended.
spawn(p) ==
  /\ daemon
  /\ child \in Processes => ~running(child)
  /\ start(p)
  /\ child' = p
  /\ UNCHANGED <<link, answer, daemon, owner, waiting, requested, disturbances>>

\* Started by hand, with or without --version, which only prints.
launch(p) == disturb /\ start(p) /\ UNCHANGED <<link, answer, daemon, owner, waiting, requested, child>>

argument_is_version(p) ==
  /\ at(p, "ended")
  /\ disturb
  /\ status' = [status EXCEPT ![p] = "0"]
  /\ UNCHANGED <<pc, bus, watched, factory, link, answer, daemon, owner, waiting, requested, child>>

\* The name goes to the first who asks; the others wait for it.
grant(p) ==
  /\ p \in requested
  /\ requested' = requested \ {p}
  /\ IF owner = NoProcess
     THEN owner' = p /\ answer' = [answer EXCEPT ![p] = 1] /\ UNCHANGED waiting
     ELSE waiting' = waiting \cup {p} /\ answer' = [answer EXCEPT ![p] = 2] /\ UNCHANGED owner
  /\ UNCHANGED <<mains, link, daemon, child, disturbances>>

kill(p) ==
  /\ running(p) /\ disturb
  /\ goto(p, "ended")
  /\ status' = [status EXCEPT ![p] = "killed"]
  /\ bus' = [bus EXCEPT ![p] = FALSE]
  /\ watched' = [watched EXCEPT ![p] = FALSE]
  /\ factory' = [factory EXCEPT ![p] = "none"]
  /\ link' = [link EXCEPT ![p] = "none"]
  /\ forget(p)
  /\ UNCHANGED <<daemon, child>>

Next ==
  \/ daemon_start \/ daemon_stop
  \/ \E p \in Processes :
       main(p) \/ spawn(p) \/ launch(p) \/ argument_is_version(p) \/ grant(p) \/ kill(p)

Spec == Init /\ [][Next]_vars

\* No call of main() blocks for ever.  The daemon serves its bus, is started again
\* when it has stopped, and starts the component again when that has ended.
\* Nothing makes anybody stop or kill, and no request has to time out.
FairSpec ==
  /\ Spec
  /\ WF_vars(daemon_start)
  /\ WF_vars(\E p \in Processes : spawn(p))
  /\ \A p \in Processes : WF_vars(main(p)) /\ WF_vars(grant(p))

\* The same with the conditions that enable these actions spelled out.  It asks for
\* no more than FairSpec: where one of the conditions holds, the action is enabled.
\* For a RequestName in its wait it asks for less, for the end of the call only when
\* there is an answer or no connection, and not for a timeout.
HasCall(p) ==
  /\ running(p)
  /\ at(p, "reply") => answer[p] # 0 \/ link[p] # "up"
  /\ at(p, "main_loop") => watched[p] /\ link[p] = "closed"

HasToSpawn ==
  /\ daemon
  /\ child \in Processes => ~running(child)
  /\ \E p \in Processes : at(p, "ended")

CallsAreMade ==
  \A p \in Processes : []<>~HasCall(p) \/ []<><<main(p)>>_vars

DaemonWorks ==
  /\ []<>daemon \/ []<><<daemon_start>>_vars
  /\ []<>~HasToSpawn \/ []<><<\E p \in Processes : spawn(p)>>_vars
  /\ \A p \in Processes : []<>(p \notin requested) \/ []<><<grant(p)>>_vars

LiveSpec == Spec /\ CallsAreMade /\ DaemonWorks

-----------------------------------------------------------------------------
\* Every variable has its type: the pointers are NULL or point to an object.
TypeOK ==
  /\ pc \in [Processes -> Calls]
  /\ bus \in [Processes -> BOOLEAN]
  /\ link \in [Processes -> {"none", "up", "closed"}]
  /\ watched \in [Processes -> BOOLEAN]
  /\ factory \in [Processes -> {"none", "empty", "ready"}]
  /\ answer \in [Processes -> Replies]
  /\ status \in [Processes -> {"none", "0", "1", "killed"}]
  /\ daemon \in BOOLEAN
  /\ owner \in Processes \cup {NoProcess}
  /\ waiting \in SUBSET Processes
  /\ requested \in SUBSET Processes
  /\ child \in Processes \cup {NoProcess}
  /\ disturbances \in 0..MaxDisturbances

claims(p) == p = owner \/ p \in waiting
failed(p) == status[p] = "1"

\* Whoever owns or awaits the bus name can be asked for an engine at that very
\* moment: its factory has the engine, or its start has failed and it is leaving.
\* The daemon asks as soon as the name has an owner, before ibus_main() runs.
OwnerCanServe ==
  \A p \in Processes : claims(p) => factory[p] = "ready" \/ failed(p)

\* A process in the main loop with a working connection owns the name or is in
\* the queue for it: the zero of a lost request is never taken for a claim, and
\* the queue is a claim, so no process runs that nobody will ever call.
RunningHasItsClaim ==
  \A p \in Processes :
    at(p, "main_loop") /\ link[p] = "up" => claims(p)

\* A process whose daemon has gone away ends, wherever in its start it was then.
EndsAfterDisconnection ==
  \A p \in Processes : (link[p] = "closed") ~> ~running(p)

\* When the disturbances stop, every process comes to an end of its moves: it has
\* ended, or it is for good in the main loop of a working connection with a claim
\* to the name.  No start hangs, and the restarts of the daemon are no endless
\* series of starts that fail.
DisturbancesStop == <>[][UNCHANGED disturbances]_vars

Settled(p) ==
  ~running(p) \/ (at(p, "main_loop") /\ link[p] = "up" /\ claims(p))

StartsSettle == \A p \in Processes : <>[]Settled(p)

Served ==
  \E p \in Processes :
    owner = p /\ at(p, "main_loop") /\ factory[p] = "ready" /\ link[p] = "up"

\* When the disturbances stop, some process owns the name, has the engine and
\* serves calls, for good: quitting instead of reconnecting is enough for the
\* daemon to bring the component back.
ServiceReturns == <>[]Served
=============================================================================
