---------------------------- MODULE WebSocketHub ----------------------------
(***************************************************************************)
(* The WebSocket hub of the backend: tickets, connections, the goroutine   *)
(* Run that owns the registry, and everything that sends through it.       *)
(*                                                                         *)
(* A connection is three goroutines' business: the HTTP handler, which     *)
(* becomes the reader, the writer, and Run.  Run learns of connections     *)
(* through two bounded channels, register and unregister, and of messages  *)
(* through a third, inbound; when several are ready its select picks any.  *)
(* Messages reach a connection through its own bounded channel, filled by  *)
(* SendToUser from Run, from badge timers and from event-bus goroutines.   *)
(* One statement that touches shared state is one step.                    *)
(*                                                                         *)
(* All of this state is in memory: a restart of the process is Init.       *)
(***************************************************************************)
EXTENDS Integers, Sequences, FiniteSets

CONSTANTS
  User,          \* users with an account
  Ticket,        \* ticket ids; a bound on the tickets ever issued
  Conn,          \* connections; a bound on the upgrades ever attempted
  Worker,        \* goroutines, other than Run, that can be sending at once
  RegisterCap,   \* capacity of Hub.register
  UnregisterCap, \* capacity of Hub.unregister
  InboundCap,    \* capacity of Hub.inbound
  SendBufSize,   \* capacity of Client.send
  MaxInbound,    \* bound on the messages clients send
  MaxEvents,     \* bound on the chat messages announced on the event bus
  MaxBans,       \* bound on the users banned
  Run,           \* the goroutine Run, as a sender
  Nil

ASSUME CapAssumption == {RegisterCap, UnregisterCap, InboundCap, SendBufSize} \subseteq Nat \ {0}
ASSUME MaxAssumption == {MaxInbound, MaxEvents, MaxBans} \subseteq Nat
ASSUME NilAssumption == Nil \notin User \cup Ticket \cup Conn /\ Run \notin Worker

VARIABLES
  alive,       \* FALSE once a panic nobody recovers has ended the process
  tickets,     \* tickets[t]: the entry of t in the TicketStore
  issuing,     \* users with a ticket request past the middleware
  conn,        \* conn[c]: the client c and the two goroutines that serve it
  clients,     \* clients[u]: the registry of the hub
  register, unregister, inbound,  \* the three channels of the hub
  badge,       \* users with an armed badge timer
  sender,      \* sender[s]: how far the SendToUser of goroutine s has come
  ending,      \* ending[u]: how far the end of u's sessions has come
  budget       \* messages, events and bans that may still come

vars == <<alive, tickets, issuing, conn, clients, register, unregister, inbound,
          badge, sender, ending, budget>>

-----------------------------------------------------------------------------
Sender  == Worker \cup {Run}
\* What a client may send: typing_start or typing_stop to a user, a read
\* receipt of a user, or anything else, which is answered with an error.
Message == [type : {"typing", "read_receipt"}, user : User]
             \cup [type : {"other"}, user : {Nil}]

\* Client, with the HTTP handler that serves it: the handler has consumed the
\* ticket and is "accepting" the upgrade, then it is the reader, then "gone".
\* buf and closed are the channel send; sock says that the socket is open at
\* both ends.
ClientRow == [user   : User \cup {Nil},
              ticket : Ticket \cup {Nil},
              reader : {"none", "accepting", "reading", "gone"},
              buf    : 0 .. SendBufSize,
              closed : BOOLEAN,
              sock   : BOOLEAN]

NoClient == [user |-> Nil, ticket |-> Nil, reader |-> "none",
             buf |-> 0, closed |-> FALSE, sock |-> FALSE]

NewClient(u, t) == [user |-> u, ticket |-> t, reader |-> "accepting",
                    buf |-> 0, closed |-> FALSE, sock |-> FALSE]

\* A SendToUser in progress: the users still to be served, the clients of the
\* snapshot still to be served, and the one being force-closed.
SenderRow == [users : SUBSET User, conns : SUBSET Conn, pc : {"send", "close", "unregister"},
              cur : Conn \cup {Nil}, bus : BOOLEAN]
Idle == [users |-> {}, conns |-> {}, pc |-> "send", cur |-> Nil, bus |-> FALSE]

\* A ticket is "spent" once Consume would refuse it: used, expired or deleted.
TicketRow == [state : {"none", "issued", "spent"}, user : User \cup {Nil}]
EndingRow == [pc : {"no", "rejected", "revoked", "closing", "done"}, conns : SUBSET Conn]

Init ==
  /\ alive = TRUE
  /\ tickets = [t \in Ticket |-> [state |-> "none", user |-> Nil]]
  /\ issuing = {}
  /\ conn = [c \in Conn |-> NoClient]
  /\ clients = [u \in User |-> {}]
  /\ register = <<>> /\ unregister = <<>> /\ inbound = <<>>
  /\ badge = {}
  /\ sender = [s \in Sender |-> Idle]
  /\ ending = [u \in User |-> [pc |-> "no", conns |-> {}]]
  /\ budget = [inbound |-> MaxInbound, events |-> MaxEvents, bans |-> MaxBans]

hubChans == <<register, unregister, inbound>>

-----------------------------------------------------------------------------
(* Tickets.                                                                *)

\* POST /api/ws/ticket passes the session check of the middleware (bound: only
\* while there is a ticket left for it)...
BeginIssue(u) ==
  /\ alive /\ ending[u].pc = "no" /\ u \notin issuing
  /\ Cardinality(issuing) < Cardinality({t \in Ticket : tickets[t].state = "none"})
  /\ issuing' = issuing \cup {u}
  /\ UNCHANGED <<alive, tickets, conn, clients, hubChans, badge, sender, ending, budget>>

\* ...and only later adds the ticket to the store.
Issue(u, t) ==
  /\ alive /\ u \in issuing /\ tickets[t].state = "none"
  /\ tickets' = [tickets EXCEPT ![t] = [state |-> "issued", user |-> u]]
  /\ issuing' = issuing \ {u}
  /\ UNCHANGED <<alive, conn, clients, hubChans, badge, sender, ending, budget>>

\* The 30 s of a ticket pass.
Expire(t) ==
  /\ alive /\ tickets[t].state = "issued"
  /\ tickets' = [tickets EXCEPT ![t].state = "spent"]
  /\ UNCHANGED <<alive, issuing, conn, clients, hubChans, badge, sender, ending, budget>>

\* Mutant: the ticket is not marked as used.
ConsumedStaysIssued(t) == tickets

\* Consume, under the lock of the store.
Consumed(t) == [tickets EXCEPT ![t].state = "spent"]

\* GET /api/ws: the ticket is the credential, and the upgrade starts.
Connect(t, c) ==
  /\ alive /\ tickets[t].state = "issued" /\ conn[c] = NoClient
  /\ tickets' = Consumed(t)
  /\ conn' = [conn EXCEPT ![c] = NewClient(tickets[t].user, t)]
  /\ UNCHANGED <<alive, issuing, clients, hubChans, badge, sender, ending, budget>>

-----------------------------------------------------------------------------
(* Connections.                                                            *)

\* Steps that change nothing but one client.
Client(c, row) ==
  /\ conn' = [conn EXCEPT ![c] = row]
  /\ UNCHANGED <<alive, tickets, issuing, clients, badge, sender, ending>>

\* The upgrade succeeds and the client goes to register, when there is room:
\* a handler that waits for room is still "accepting".
Accept(c) ==
  /\ alive /\ conn[c].reader = "accepting" /\ Len(register) < RegisterCap
  /\ register' = Append(register, c)
  /\ Client(c, [conn[c] EXCEPT !.reader = "reading", !.sock = TRUE])
  /\ UNCHANGED <<unregister, inbound, budget>>

\* The origin is refused, or the upgrade breaks.
Refuse(c) ==
  /\ alive /\ conn[c].reader = "accepting"
  /\ Client(c, [conn[c] EXCEPT !.reader = "gone"])
  /\ UNCHANGED <<hubChans, budget>>

\* The peer goes away, or the network fails.
Drop(c) ==
  /\ alive /\ conn[c].sock
  /\ Client(c, [conn[c] EXCEPT !.sock = FALSE])
  /\ UNCHANGED <<hubChans, budget>>

\* readPump: a message is read and goes to inbound, when there is room.
Read(c, m) ==
  /\ alive /\ conn[c].reader = "reading" /\ conn[c].sock /\ budget.inbound > 0
  /\ Len(inbound) < InboundCap
  /\ inbound' = Append(inbound, [conn |-> c, msg |-> m])
  /\ budget' = [budget EXCEPT !.inbound = @ - 1]
  /\ UNCHANGED <<alive, tickets, issuing, conn, clients, register, unregister, badge, sender, ending>>

\* A read that fails ends the reader: its deferred unregister <- c waits for room.
Leave(c) ==
  /\ alive /\ conn[c].reader = "reading" /\ ~conn[c].sock /\ Len(unregister) < UnregisterCap
  /\ unregister' = Append(unregister, c)
  /\ Client(c, [conn[c] EXCEPT !.reader = "gone"])
  /\ UNCHANGED <<register, inbound, budget>>

\* writePump writes a message.  Write has no deadline: a peer that stops
\* reading without going away keeps the writer here for as long as it likes.
\* Once the socket is closed the writer fails and is of no more consequence.
Write(c) ==
  /\ alive /\ conn[c].sock /\ conn[c].buf > 0
  /\ Client(c, [conn[c] EXCEPT !.buf = @ - 1])
  /\ UNCHANGED <<hubChans, budget>>

\* The writer finds its channel closed and empty and closes the socket.
CloseSocket(c) ==
  /\ alive /\ conn[c].sock /\ conn[c].buf = 0 /\ conn[c].closed
  /\ Client(c, [conn[c] EXCEPT !.sock = FALSE])
  /\ UNCHANGED <<hubChans, budget>>

-----------------------------------------------------------------------------
(* SendToUser.                                                             *)

IsConnected(u) == clients[u] # {}
Busy(s) == sender[s] # Idle

\* A panic ends an event-bus handler, which recovers it, or else the process.
Panic(s) ==
  /\ alive' = sender[s].bus
  /\ sender' = [sender EXCEPT ![s] = Idle]
  /\ UNCHANGED conn

Sending(s, row) == sender' = [sender EXCEPT ![s] = row] /\ UNCHANGED alive
NotSending == UNCHANGED <<tickets, issuing, clients, register, inbound, badge, ending, budget>>

\* Under RLock the clients of one target are copied.
Snapshot(s, u) ==
  /\ alive /\ sender[s].conns = {} /\ u \in sender[s].users
  /\ LET left == sender[s].users \ {u} IN
     Sending(s, IF left = {} /\ ~IsConnected(u) THEN Idle
                ELSE [sender[s] EXCEPT !.users = left, !.conns = clients[u]])
  /\ UNCHANGED <<conn, unregister>> /\ NotSending

\* Client c is served, and the call returns when it was the last one.
Served(s, c) ==
  IF sender[s].users = {} /\ sender[s].conns = {c} THEN Idle
  ELSE [sender[s] EXCEPT !.conns = @ \ {c}, !.pc = "send", !.cur = Nil]

\* The non-blocking send; on a closed channel it panics.
Send(s, c) ==
  /\ alive /\ sender[s].pc = "send" /\ c \in sender[s].conns
  /\ \/ /\ conn[c].closed
        /\ Panic(s)
     \/ /\ ~conn[c].closed /\ conn[c].buf < SendBufSize
        /\ conn' = [conn EXCEPT ![c].buf = @ + 1]
        /\ Sending(s, Served(s, c))
     \/ /\ ~conn[c].closed /\ conn[c].buf = SendBufSize
        /\ Sending(s, [sender[s] EXCEPT !.pc = "close", !.cur = c])
        /\ UNCHANGED conn
  /\ UNCHANGED unregister /\ NotSending

\* Mutant: the channel is closed and the reader is left to unregister the client.
ForceCloseOnly(s) ==
  /\ alive /\ sender[s].pc = "close"
  /\ LET c == sender[s].cur IN
     \/ /\ conn[c].closed
        /\ Panic(s)
     \/ /\ ~conn[c].closed
        /\ conn' = [conn EXCEPT ![c].closed = TRUE]
        /\ Sending(s, Served(s, c))
  /\ UNCHANGED unregister /\ NotSending

\* close(c.send): a second close panics.
ForceClose(s) ==
  /\ alive /\ sender[s].pc = "close"
  /\ LET c == sender[s].cur IN
     \/ /\ conn[c].closed
        /\ Panic(s)
     \/ /\ ~conn[c].closed
        /\ conn' = [conn EXCEPT ![c].closed = TRUE]
        /\ Sending(s, [sender[s] EXCEPT !.pc = "unregister"])
  /\ UNCHANGED unregister /\ NotSending

\* h.unregister <- c blocks while the channel is full.
Unregister(s) ==
  /\ alive /\ sender[s].pc = "unregister" /\ Len(unregister) < UnregisterCap
  /\ unregister' = Append(unregister, sender[s].cur)
  /\ Sending(s, Served(s, sender[s].cur))
  /\ UNCHANGED conn /\ NotSending

\* onMessageSent on an event-bus goroutine: the receiver is told through the
\* hub when it is connected, and by FCM when it is not.
Notify(w, u) ==
  /\ alive /\ ~Busy(w) /\ budget.events > 0
  /\ budget' = [budget EXCEPT !.events = @ - 1]
  /\ Sending(w, IF IsConnected(u) THEN [Idle EXCEPT !.users = {u}, !.bus = TRUE] ELSE Idle)
  /\ UNCHANGED <<tickets, issuing, conn, clients, hubChans, badge, ending>>

\* A badge timer fires; CountUnread may fail, and then nothing is sent.
FireBadge(w, u) ==
  /\ alive /\ ~Busy(w) /\ u \in badge
  /\ badge' = badge \ {u}
  /\ \/ Sending(w, [Idle EXCEPT !.users = {u}])
     \/ Sending(w, Idle)
  /\ UNCHANGED <<tickets, issuing, conn, clients, hubChans, ending, budget>>

-----------------------------------------------------------------------------
(* The goroutine Run: the cases of its select.                             *)

RunRegister ==
  /\ alive /\ ~Busy(Run) /\ register # <<>>
  /\ LET c == Head(register) IN
     clients' = [clients EXCEPT ![conn[c].user] = @ \cup {c}]
  /\ register' = Tail(register)
  /\ UNCHANGED <<alive, tickets, issuing, conn, unregister, inbound, badge, sender, ending, budget>>

\* Mutant: every device of the user goes with the one that left.
RemovedWithDevices(c) == [clients EXCEPT ![conn[c].user] = {}]

Removed(c) == [clients EXCEPT ![conn[c].user] = @ \ {c}]

\* The client is removed, and every other connected user is told that its
\* user stopped typing.
RunUnregister ==
  /\ alive /\ ~Busy(Run) /\ unregister # <<>>
  /\ LET c == Head(unregister) IN
     /\ clients' = Removed(c)
     /\ Sending(Run, [Idle EXCEPT !.users = {u \in User \ {conn[c].user} : IsConnected(u)}])
  /\ unregister' = Tail(unregister)
  /\ UNCHANGED <<tickets, issuing, conn, register, inbound, badge, ending, budget>>

\* Mutant: the reply is counted although it does not fit.
ErrorReplyAlways(c) == [conn EXCEPT ![c].buf = @ + 1]

\* sendError, non-blocking: a reply that does not fit is dropped.
ErrorReply(c) == [conn EXCEPT ![c].buf = IF @ < SendBufSize THEN @ + 1 ELSE @]

\* handleInbound: a typing event is relayed, a receipt arms the badge timer of
\* its user or resets it, anything else is answered with an error.
RunInbound ==
  /\ alive /\ ~Busy(Run) /\ inbound # <<>>
  /\ LET c == Head(inbound).conn
         m == Head(inbound).msg
     IN \/ /\ m.type = "typing"
           /\ Sending(Run, [Idle EXCEPT !.users = {m.user}])
           /\ UNCHANGED <<conn, badge>>
        \/ /\ m.type = "read_receipt"
           /\ badge' = badge \cup {m.user}
           /\ UNCHANGED <<alive, conn, sender>>
        \/ /\ m.type = "other" /\ conn[c].closed
           /\ Panic(Run)
           /\ UNCHANGED badge
        \/ /\ m.type = "other" /\ ~conn[c].closed
           /\ conn' = ErrorReply(c)
           /\ UNCHANGED <<alive, badge, sender>>
  /\ inbound' = Tail(inbound)
  /\ UNCHANGED <<tickets, issuing, clients, register, unregister, ending, budget>>

-----------------------------------------------------------------------------
(* The end of a user's sessions: the account is banned, then the tickets   *)
(* are revoked, then the sockets are closed one after another.             *)

Ending(u, row) ==
  /\ ending' = [ending EXCEPT ![u] = row]
  /\ UNCHANGED <<alive, issuing, clients, hubChans, badge, sender>>

\* The ban is saved: from here on the middleware rejects the user.
Ban(u) ==
  /\ alive /\ ending[u].pc = "no" /\ budget.bans > 0
  /\ budget' = [budget EXCEPT !.bans = @ - 1]
  /\ Ending(u, [ending[u] EXCEPT !.pc = "rejected"])
  /\ UNCHANGED <<tickets, conn>>

Revocable(u) == {t \in Ticket : tickets[t].user = u /\ tickets[t].state = "issued"}

RevokeUser(u) ==
  /\ alive /\ ending[u].pc = "rejected"
  /\ tickets' = [t \in Ticket |-> IF t \in Revocable(u) THEN [tickets[t] EXCEPT !.state = "spent"]
                                  ELSE tickets[t]]
  /\ Ending(u, [ending[u] EXCEPT !.pc = "revoked"])
  /\ UNCHANGED <<conn, budget>>

\* DisconnectUser copies the clients of the user under RLock...
BeginDisconnect(u) ==
  /\ alive /\ ending[u].pc = "revoked"
  /\ Ending(u, [pc |-> IF IsConnected(u) THEN "closing" ELSE "done", conns |-> clients[u]])
  /\ UNCHANGED <<tickets, conn, budget>>

\* Mutant: the loop over the snapshot stops at the first socket.
AfterFirstClose(u, c) == [pc |-> "done", conns |-> {}]

AfterClose(u, c) ==
  LET left == ending[u].conns \ {c} IN
  [pc |-> IF left = {} THEN "done" ELSE "closing", conns |-> left]

\* ...and closes their sockets.
Disconnect(u, c) ==
  /\ alive /\ ending[u].pc = "closing" /\ c \in ending[u].conns
  /\ conn' = [conn EXCEPT ![c].sock = FALSE]
  /\ Ending(u, AfterClose(u, c))
  /\ UNCHANGED <<tickets, budget>>

-----------------------------------------------------------------------------
RunStep      == RunRegister \/ RunUnregister \/ RunInbound
SendStep(s)  == \/ \E u \in User : Snapshot(s, u)
                \/ \E c \in Conn : Send(s, c)
                \/ ForceClose(s)
                \/ Unregister(s)
EndStep(u)   == \/ RevokeUser(u)
                \/ BeginDisconnect(u)
                \/ \E c \in Conn : Disconnect(u, c)
ReaderStep(c) == Accept(c) \/ Refuse(c) \/ Leave(c)

Next ==
  \/ \E u \in User : BeginIssue(u) \/ Ban(u) \/ EndStep(u)
  \/ \E u \in User, t \in Ticket : Issue(u, t)
  \/ \E t \in Ticket : Expire(t)
  \/ \E t \in Ticket, c \in Conn : Connect(t, c)
  \/ \E c \in Conn : ReaderStep(c) \/ Write(c) \/ CloseSocket(c) \/ Drop(c)
  \/ \E c \in Conn, m \in Message : Read(c, m)
  \/ \E s \in Sender : SendStep(s)
  \/ \E w \in Worker, u \in User : Notify(w, u) \/ FireBadge(w, u)
  \/ RunStep

Spec == Init /\ [][Next]_vars

\* Goroutines are scheduled.  Clients, tickets, bans and events come as they
\* please, and a socket takes a message when its peer reads.
Fairness ==
  /\ WF_vars(RunStep)
  /\ \A s \in Sender : WF_vars(SendStep(s))
  /\ \A c \in Conn : WF_vars(ReaderStep(c)) /\ WF_vars(CloseSocket(c))
  /\ \A u \in User : WF_vars(EndStep(u))

FairSpec == Spec /\ Fairness

-----------------------------------------------------------------------------
(* Properties.                                                             *)

\* Every variable keeps its type.
TypeOK ==
  /\ alive \in BOOLEAN
  /\ tickets \in [Ticket -> TicketRow]
  /\ issuing \subseteq User
  /\ conn \in [Conn -> ClientRow]
  /\ clients \in [User -> SUBSET Conn]
  /\ register \in Seq(Conn) /\ Len(register) <= RegisterCap
  /\ unregister \in Seq(Conn) /\ Len(unregister) <= UnregisterCap
  /\ inbound \in Seq([conn : Conn, msg : Message]) /\ Len(inbound) <= InboundCap
  /\ badge \subseteq User
  /\ sender \in [Sender -> SenderRow]
  /\ ending \in [User -> EndingRow]
  /\ budget \in [inbound : 0 .. MaxInbound, events : 0 .. MaxEvents, bans : 0 .. MaxBans]

Registered(c) == conn[c].user # Nil /\ c \in clients[conn[c].user]
InChannel(c, chan) == \E i \in 1 .. Len(chan) : chan[i] = c

\* A ticket opens at most one connection, and it is its owner's: tickets are
\* consumed, expire, are revoked and are issued while connections open.
TicketOpensOneConnection ==
  /\ \A c, d \in Conn : conn[c].ticket = conn[d].ticket /\ conn[c].ticket # Nil => c = d
  /\ \A c \in Conn : conn[c].ticket # Nil => tickets[conn[c].ticket].user = conn[c].user

\* While a connection is served and was not force-closed the hub knows it or is
\* about to: another device that leaves, a full buffer elsewhere or the end of
\* another user's sessions never takes it out of the registry.
LiveSessionReachable ==
  alive => \A c \in Conn : conn[c].reader = "reading" /\ ~conn[c].closed =>
             Registered(c) \/ InChannel(c, register)

\* Run waits for room in unregister, the channel that only Run receives from.
RunBlocked == sender[Run].pc = "unregister" /\ Len(unregister) = UnregisterCap

\* A client whose buffer overflowed leaves the registry, even if its peer never
\* reads again, unless a panic has ended the process or Run, which met an
\* overflow of its own while unregister was full, waits for itself.
ForceClosedLeaves ==
  \A c \in Conn : conn[c].closed ~> ~Registered(c) \/ ~alive \/ RunBlocked

\* A connection that DisconnectUser found open leaves the registry, although
\* only its own reader, later, and Run, later still, take it out: with the
\* same two exceptions.
CutSessionLeaves == \A u \in User : \A c \in Conn :
  c \in ending[u].conns /\ conn[c].reader = "reading"
    ~> ~Registered(c) \/ ~alive \/ RunBlocked

-----------------------------------------------------------------------------
(* What comments of the code say and the code does not keep.               *)

\* hub.go:112: IsConnected reports whether the user has at least one active
\* connection, so a connection that is over leaves the registry for good.
GoneConnectionsLeave ==
  \A c \in Conn : conn[c].reader = "gone" ~> [](~Registered(c)) \/ ~alive

\* ticket.go:81: after EndUserSessions no socket of the user is open, and no
\* ticket is left to open another.
SessionsEnd ==
  \A c \in Conn : conn[c].user # Nil /\ ending[conn[c].user].pc = "done" => ~conn[c].sock

\* hub.go:121: if a client's send buffer is full it is force-closed.
OverflowClosesSocket ==
  \A c \in Conn : conn[c].closed ~> ~conn[c].sock \/ ~alive

\* hub.go:121: SendToUser does not block, so a call that has begun returns.
SendReturns == \A s \in Sender : Busy(s) ~> ~Busy(s) \/ ~alive
=============================================================================
