---------------------------- MODULE ClientSocket ----------------------------
(***************************************************************************)
(* The one WebSocket a browser tab or an app process shares between its    *)
(* screens: shared/hooks/useWebSocket.ts.  The module-level manager opens  *)
(* a socket when the first screen subscribes, reconnects with exponential  *)
(* backoff, and tears it down when the last screen leaves.  Opening takes  *)
(* an HTTP call for a single-use ticket; everything asynchronous carries   *)
(* the generation it was started under and abstains once a start or a stop *)
(* has moved the counter on.                                               *)
(*                                                                         *)
(* A ticket request is sent "as" the credential the API client holds at    *)
(* that instant; the module that composes the session says which one, and  *)
(* assumes what the constants must satisfy.                                *)
(***************************************************************************)
EXTENDS Naturals, FiniteSets

CONSTANTS
    Subscribers,    \* hook instances: the layout, the chat page, ...
    Credentials,    \* what a ticket can be asked with
    SocketIds,      \* WebSocket objects alive at once (bound)
    MinDelay,       \* MIN_DELAY_MS, in seconds
    MaxDelay,       \* MAX_DELAY_MS, in seconds
    None

VARIABLES
    subscribers,      \* listeners registered by enabled hooks
    generation,       \* bumped by every start and every stop
    tickets,          \* connect() calls awaiting issueWsTicket()
    timer,            \* generation of the armed reconnect timer, or None
    sockets,          \* the WebSocket objects the runtime still knows
    socket,           \* the one the manager holds, or None
    connectionState,  \* what every hook instance renders
    retryDelay        \* delay of the next reconnect

socketVars == <<subscribers, generation, tickets, timer, sockets, socket,
                connectionState, retryDelay>>

States == {"idle", "connecting", "connected", "disconnected", "reconnecting"}

\* An id whose object is gone: closed, and referenced by nobody.
Gone == [ready |-> "closed", generation |-> 0, as |-> None, heard |-> FALSE]

SocketTypeOK ==
    /\ subscribers \subseteq Subscribers
    /\ generation \in Nat
    /\ tickets \subseteq [generation : Nat, as : Credentials]
    /\ timer \in Nat \cup {None}
    /\ sockets \in [SocketIds -> [ready : {"connecting", "open", "closing", "closed"},
                                  generation : Nat,
                                  as : Credentials \cup {None},
                                  heard : BOOLEAN]]
    /\ socket \in SocketIds \cup {None}
    /\ connectionState \in States
    /\ retryDelay \in MinDelay .. MaxDelay

SocketInit ==
    /\ subscribers = {}
    /\ generation = 0
    /\ tickets = {}
    /\ timer = None
    /\ sockets = [i \in SocketIds |-> Gone]
    /\ socket = None
    /\ connectionState = "idle"
    /\ retryDelay = MinDelay

-----------------------------------------------------------------------------
(* The manager's own functions *)

\* A handler or an awaited connect() of generation g acts only while it is
\* the current one; connect() also wants somebody to be listening.
WantedWhileMounted(g) == subscribers # {}
Wanted(g) == g = generation /\ subscribers # {}

DoubledUncapped == 2 * retryDelay
Doubled == IF 2 * retryDelay < MaxDelay THEN 2 * retryDelay ELSE MaxDelay

ScheduleReconnectUnarmed(g) ==
    IF Wanted(g)
    THEN /\ connectionState' = "reconnecting"
         /\ retryDelay' = Doubled
         /\ UNCHANGED timer
    ELSE UNCHANGED <<connectionState, retryDelay, timer>>

ScheduleReconnect(g) ==
    IF Wanted(g)
    THEN /\ connectionState' = "reconnecting"
         /\ retryDelay' = Doubled
         /\ timer' = g
    ELSE UNCHANGED <<connectionState, retryDelay, timer>>

StopAttached ==
    /\ generation' = generation + 1
    /\ timer' = None
    /\ sockets' = [i \in SocketIds |->
                     IF i = socket THEN [sockets[i] EXCEPT !.ready = "closing"]
                     ELSE sockets[i]]
    /\ socket' = None
    /\ connectionState' = "disconnected"
    /\ UNCHANGED <<tickets, retryDelay>>

StopTimerLeft ==
    /\ generation' = generation + 1
    /\ sockets' = [i \in SocketIds |->
                     IF i = socket
                     THEN [sockets[i] EXCEPT !.heard = FALSE, !.ready = "closing"]
                     ELSE sockets[i]]
    /\ socket' = None
    /\ connectionState' = "disconnected"
    /\ UNCHANGED <<tickets, retryDelay, timer>>

\* stop(): handlers are detached before close(), so the close event of the
\* abandoned socket reaches nobody.
Stop ==
    /\ generation' = generation + 1
    /\ timer' = None
    /\ sockets' = [i \in SocketIds |->
                     IF i = socket
                     THEN [sockets[i] EXCEPT !.heard = FALSE, !.ready = "closing"]
                     ELSE sockets[i]]
    /\ socket' = None
    /\ connectionState' = "disconnected"
    /\ UNCHANGED <<tickets, retryDelay>>

-----------------------------------------------------------------------------
(* Screens *)

\* subscribe(): the 0 -> 1 subscriber starts a connection.
Join(c, cred) ==
    /\ c \notin subscribers
    /\ subscribers' = subscribers \cup {c}
    /\ IF subscribers = {}
       THEN /\ generation' = generation + 1
            /\ retryDelay' = MinDelay
            /\ connectionState' = "connecting"
            /\ tickets' = tickets \cup {[generation |-> generation + 1, as |-> cred]}
            /\ UNCHANGED <<timer, sockets, socket>>
       ELSE UNCHANGED <<generation, retryDelay, connectionState, tickets,
                        timer, sockets, socket>>

\* The cleanups one commit runs: every subscriber in C leaves, the last one
\* stops the connection.
Leave(C) ==
    /\ C # {}
    /\ C \subseteq subscribers
    /\ subscribers' = subscribers \ C
    /\ IF C = subscribers
       THEN Stop
       ELSE UNCHANGED <<generation, tickets, timer, sockets, socket,
                        connectionState, retryDelay>>

-----------------------------------------------------------------------------
(* Answers, timers and socket events *)

Free == {i \in SocketIds : sockets[i].ready = "closed"}

\* The ticket arrives.  A superseded attempt drops it without a socket.
TicketArrives(k) ==
    /\ k \in tickets
    /\ tickets' = tickets \ {k}
    /\ IF Wanted(k.generation)
       THEN /\ Free # {}
            /\ LET i == CHOOSE h \in Free : TRUE
               IN  /\ sockets' = [sockets EXCEPT ![i] =
                                    [ready |-> "connecting", generation |-> k.generation,
                                     as |-> k.as, heard |-> TRUE]]
                   /\ socket' = i
       ELSE UNCHANGED <<sockets, socket>>
    /\ UNCHANGED <<subscribers, generation, timer, connectionState, retryDelay>>

\* issueWsTicket() rejects: a 401, a timeout, no network.
TicketFails(k) ==
    /\ k \in tickets
    /\ tickets' = tickets \ {k}
    /\ ScheduleReconnect(k.generation)
    /\ UNCHANGED <<subscribers, generation, sockets, socket>>

\* The backoff elapses: connect() again, as whoever is signed in by now.
TimerFires(cred) ==
    /\ timer # None
    /\ timer' = None
    /\ IF Wanted(timer)
       THEN /\ connectionState' = "connecting"
            /\ tickets' = tickets \cup {[generation |-> timer, as |-> cred]}
       ELSE UNCHANGED <<connectionState, tickets>>
    /\ UNCHANGED <<subscribers, generation, sockets, socket, retryDelay>>

OpensKeepingBackoff(i) ==
    /\ sockets[i].ready = "connecting"
    /\ sockets' = [sockets EXCEPT ![i].ready = "open"]
    /\ connectionState' = "connected"
    /\ UNCHANGED <<subscribers, generation, tickets, timer, socket, retryDelay>>

\* onopen, with the branch of a socket that opened superseded.  (A detached
\* socket is already closing: it never opens.)
Opens(i) ==
    /\ sockets[i].ready = "connecting"
    /\ IF sockets[i].generation = generation
       THEN /\ sockets' = [sockets EXCEPT ![i].ready = "open"]
            /\ connectionState' = "connected"
            /\ retryDelay' = MinDelay
       ELSE /\ sockets' = [sockets EXCEPT ![i].ready = "closing", ![i].heard = FALSE]
            /\ UNCHANGED <<connectionState, retryDelay>>
    /\ UNCHANGED <<subscribers, generation, tickets, timer, socket>>

\* onerror: close, and let onclose reconnect.
Errs(i) ==
    /\ sockets[i].ready \in {"connecting", "open"}
    /\ sockets[i].heard
    /\ sockets' = [sockets EXCEPT ![i].ready = "closing"]
    /\ UNCHANGED <<subscribers, generation, tickets, timer, socket,
                   connectionState, retryDelay>>

\* onclose: the network, the server or close() ended the socket.
Closes(i) ==
    /\ sockets[i].ready # "closed"
    /\ sockets' = [sockets EXCEPT ![i] = Gone]
    /\ IF sockets[i].heard
       THEN /\ socket' = IF socket = i THEN None ELSE socket
            /\ ScheduleReconnect(sockets[i].generation)
       ELSE UNCHANGED <<socket, connectionState, retryDelay, timer>>
    /\ UNCHANGED <<subscribers, generation, tickets>>

-----------------------------------------------------------------------------
(* What the manager promises *)

Attempts == {k \in tickets : k.generation = generation}
Heard == {i \in SocketIds : sockets[i].heard}

\* While somebody listens exactly one thing drives the connection: one ticket
\* request, or one socket, or one armed timer.  None of them would leave the
\* screens offline for good, two would open a second socket for one person.
\* While nobody listens nothing does (start, stop, connect, onclose).
OneDriver ==
    \/ /\ subscribers = {}
       /\ Attempts = {} /\ Heard = {} /\ timer = None
    \/ /\ subscribers # {}
       /\ \/ \E k \in tickets : Attempts = {k} /\ Heard = {} /\ timer = None
          \/ Attempts = {} /\ socket # None /\ Heard = {socket} /\ timer = None
          \/ Attempts = {} /\ Heard = {} /\ timer = generation

\* No socket is left open that the manager does not hold: every other one is
\* already closing.  An orphan would keep the person "online" in the hub for
\* ever (the generation check after the awaited ticket, stop()).
NoOrphan ==
    \A i \in SocketIds :
        sockets[i].ready \in {"connecting", "open"} => i = socket /\ subscribers # {}

\* The state the screens render is the state of the thing that drives the
\* connection, and the backoff starts over only once connected.
StateTellsTruth ==
    /\ subscribers = {} <=> connectionState \in {"idle", "disconnected"}
    /\ connectionState = "reconnecting" <=> timer # None
    /\ connectionState = "connected" =>
          /\ socket # None
          /\ sockets[socket].ready \in {"open", "closing"}
          /\ retryDelay = MinDelay
    /\ socket # None /\ sockets[socket].ready = "open" => connectionState = "connected"

=============================================================================
