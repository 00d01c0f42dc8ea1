------------------------- MODULE WebSocketHubProofs -------------------------
(***************************************************************************)
(* Theorems about WebSocketHub, for any number of users, tickets,          *)
(* connections and sending goroutines and any capacity of the channels.    *)
(***************************************************************************)
EXTENDS WebSocketHub, TLAPS

\* A goroutine that is about to close a channel or to queue on unregister has a
\* client in hand.
InHand == \A s \in Sender : sender[s].pc # "send" => sender[s].cur \in Conn

TypeInv == TypeOK /\ InHand

\* What the state allows for later.
Budget == [inbound : 0 .. MaxInbound, events : 0 .. MaxEvents, bans : 0 .. MaxBans]

-----------------------------------------------------------------------------
(* Type correctness.                                                       *)

\* The capacities and bounds are natural numbers, the capacities positive.
LEMMA Capacities ==
  /\ RegisterCap \in Nat /\ UnregisterCap \in Nat /\ InboundCap \in Nat
  /\ SendBufSize \in Nat /\ SendBufSize > 0
  /\ MaxInbound \in Nat /\ MaxEvents \in Nat /\ MaxBans \in Nat
  BY CapAssumption, MaxAssumption

\* Spending one of a budget leaves a budget.
LEMMA BudgetType ==
  ASSUME NEW b \in Budget
  PROVE  /\ b.inbound > 0 => [b EXCEPT !.inbound = b.inbound - 1] \in Budget
         /\ b.events > 0 => [b EXCEPT !.events = b.events - 1] \in Budget
         /\ b.bans > 0 => [b EXCEPT !.bans = b.bans - 1] \in Budget
  BY Capacities DEF Budget

\* A buffer that takes a message when it has room, or gives one, stays a buffer.
LEMMA BufferType ==
  ASSUME NEW row \in ClientRow
  PROVE  /\ row.buf < SendBufSize => [row EXCEPT !.buf = row.buf + 1] \in ClientRow
         /\ row.buf > 0 => [row EXCEPT !.buf = row.buf - 1] \in ClientRow
         /\ [row EXCEPT !.closed = TRUE] \in ClientRow
         /\ [row EXCEPT !.sock = FALSE] \in ClientRow
<1>1. row.buf \in 0 .. SendBufSize
  BY DEF ClientRow
<1>2. \A n \in 0 .. SendBufSize : [row EXCEPT !.buf = n] \in ClientRow
  BY DEF ClientRow
<1>3. /\ row.buf < SendBufSize => row.buf + 1 \in 0 .. SendBufSize
      /\ row.buf > 0 => row.buf - 1 \in 0 .. SendBufSize
  BY <1>1, Capacities
<1>4. [row EXCEPT !.closed = TRUE] \in ClientRow
  BY DEF ClientRow
<1>5. [row EXCEPT !.sock = FALSE] \in ClientRow
  BY DEF ClientRow
<1> QED  BY <1>2, <1>3, <1>4, <1>5

\* An idle goroutine is a goroutine with no client in hand.
LEMMA IdleType == Idle \in SenderRow /\ Idle.pc = "send"
  BY DEF Idle, SenderRow

\* A goroutine that takes up a well-formed row keeps the senders well typed.
LEMMA SendingType ==
  ASSUME TypeInv, NEW s \in Sender, NEW row \in SenderRow,
         row.pc # "send" => row.cur \in Conn,
         sender' = [sender EXCEPT ![s] = row]
  PROVE  sender' \in [Sender -> SenderRow] /\ InHand'
  BY DEF TypeInv, TypeOK, InHand

\* A client that gets a well-formed row keeps the clients well typed.
LEMMA ClientType ==
  ASSUME TypeInv, NEW c \in Conn, NEW row \in ClientRow,
         conn' = [conn EXCEPT ![c] = row]
  PROVE  conn' \in [Conn -> ClientRow]
  BY DEF TypeInv, TypeOK

\* A channel with room stays within its capacity.
LEMMA AppendType ==
  ASSUME NEW S, NEW chan \in Seq(S), NEW x \in S, NEW cap \in Nat, Len(chan) < cap
  PROVE  Append(chan, x) \in Seq(S) /\ Len(Append(chan, x)) <= cap
  OBVIOUS

\* Receiving from a channel leaves less in it.
LEMMA TailType ==
  ASSUME NEW S, NEW chan \in Seq(S), NEW cap \in Nat, Len(chan) <= cap, chan # <<>>
  PROVE  Head(chan) \in S /\ Tail(chan) \in Seq(S) /\ Len(Tail(chan)) <= cap
  OBVIOUS

\* The state in which the server starts is well typed.
LEMMA TypeInit == Init => TypeInv
  <1> SUFFICES ASSUME Init PROVE TypeInv
    OBVIOUS
  <1>1. NoClient \in ClientRow
    BY Capacities DEF NoClient, ClientRow
  <1>2. budget \in [inbound : 0 .. MaxInbound, events : 0 .. MaxEvents, bans : 0 .. MaxBans]
    BY MaxAssumption DEF Init
  <1>3. <<>> \in Seq(Conn) /\ <<>> \in Seq([conn : Conn, msg : Message]) /\ Len(<<>>) = 0
    OBVIOUS
  <1> QED  BY <1>1, <1>2, <1>3, IdleType, CapAssumption
           DEF Init, TypeInv, TypeOK, InHand, TicketRow, EndingRow

\* What becomes of a client on its way in and out is a well-formed row.
LEMMA FieldType ==
  ASSUME TypeInv, NEW c \in Conn
  PROVE  /\ [conn[c] EXCEPT !.reader = "gone"] \in ClientRow
         /\ [conn[c] EXCEPT !.reader = "reading", !.sock = TRUE] \in ClientRow
         /\ [conn[c] EXCEPT !.sock = FALSE] \in ClientRow
<1>1. conn[c] \in ClientRow
  BY DEF TypeInv, TypeOK
<1> QED  BY <1>1 DEF ClientRow

\* Every step keeps the types.
LEMMA TypeStep ==
  ASSUME TypeInv, [Next]_vars
  PROVE  TypeInv'
<1> USE DEF hubChans
<1>1. ASSUME NEW u \in User, BeginIssue(u)
      PROVE  TypeInv'
  BY <1>1 DEF BeginIssue, TypeInv, TypeOK, InHand
<1>2. ASSUME NEW u \in User, NEW t \in Ticket, Issue(u, t)
      PROVE  TypeInv'
  BY <1>2 DEF Issue, TypeInv, TypeOK, InHand, TicketRow
<1>3. ASSUME NEW t \in Ticket, Expire(t)
      PROVE  TypeInv'
  BY <1>3 DEF Expire, TypeInv, TypeOK, InHand, TicketRow
<1>4. ASSUME NEW t \in Ticket, NEW c \in Conn, Connect(t, c)
      PROVE  TypeInv'
  <2>1. tickets[t] \in TicketRow /\ tickets' \in [Ticket -> TicketRow]
    BY <1>4 DEF Connect, Consumed, TypeInv, TypeOK, TicketRow
  <2>2. NewClient(tickets[t].user, t) \in ClientRow
    BY <2>1, Capacities DEF NewClient, ClientRow, TicketRow
  <2>3. conn' \in [Conn -> ClientRow]
    BY <1>4, <2>2, ClientType DEF Connect
  <2> QED  BY <1>4, <2>1, <2>3 DEF Connect, TypeInv, TypeOK, InHand
<1>5. ASSUME NEW c \in Conn, Accept(c)
      PROVE  TypeInv'
  <2>1. [conn[c] EXCEPT !.reader = "reading", !.sock = TRUE] \in ClientRow
    BY FieldType
  <2>2. conn' \in [Conn -> ClientRow]
    BY <1>5, <2>1, ClientType DEF Accept, Client
  <2>3. register' \in Seq(Conn) /\ Len(register') <= RegisterCap
    BY <1>5, AppendType, Capacities DEF Accept, TypeInv, TypeOK
  <2> QED  BY <1>5, <2>2, <2>3 DEF Accept, Client, TypeInv, TypeOK, InHand
<1>6. ASSUME NEW c \in Conn, Refuse(c)
      PROVE  TypeInv'
  <2>1. [conn[c] EXCEPT !.reader = "gone"] \in ClientRow
    BY FieldType
  <2>2. conn' \in [Conn -> ClientRow]
    BY <1>6, <2>1, ClientType DEF Refuse, Client
  <2> QED  BY <1>6, <2>2 DEF Refuse, Client, TypeInv, TypeOK, InHand
<1>7. ASSUME NEW c \in Conn, Drop(c)
      PROVE  TypeInv'
  <2>1. [conn[c] EXCEPT !.sock = FALSE] \in ClientRow
    BY FieldType
  <2>2. conn' \in [Conn -> ClientRow]
    BY <1>7, <2>1, ClientType DEF Drop, Client
  <2> QED  BY <1>7, <2>2 DEF Drop, Client, TypeInv, TypeOK, InHand
<1>8. ASSUME NEW c \in Conn, NEW m \in Message, Read(c, m)
      PROVE  TypeInv'
  <2>1. [conn |-> c, msg |-> m] \in [conn : Conn, msg : Message]
    OBVIOUS
  <2>2. inbound' \in Seq([conn : Conn, msg : Message]) /\ Len(inbound') <= InboundCap
    BY <1>8, <2>1, AppendType, Capacities DEF Read, TypeInv, TypeOK
  <2>3. budget' \in [inbound : 0 .. MaxInbound, events : 0 .. MaxEvents, bans : 0 .. MaxBans]
    <3>1. budget \in Budget
      BY DEF TypeInv, TypeOK, Budget
    <3> QED  BY <1>8, <3>1, BudgetType DEF Read, Budget
  <2> QED  BY <1>8, <2>2, <2>3 DEF Read, TypeInv, TypeOK, InHand
<1>9. ASSUME NEW c \in Conn, Leave(c)
      PROVE  TypeInv'
  <2>1. [conn[c] EXCEPT !.reader = "gone"] \in ClientRow
    BY FieldType
  <2>2. conn' \in [Conn -> ClientRow]
    BY <1>9, <2>1, ClientType DEF Leave, Client
  <2>3. unregister' \in Seq(Conn) /\ Len(unregister') <= UnregisterCap
    BY <1>9, AppendType, Capacities DEF Leave, TypeInv, TypeOK
  <2> QED  BY <1>9, <2>2, <2>3 DEF Leave, Client, TypeInv, TypeOK, InHand
<1>10. ASSUME NEW c \in Conn, Write(c)
       PROVE  TypeInv'
  <2>1. [conn[c] EXCEPT !.buf = @ - 1] \in ClientRow
    BY <1>10, BufferType DEF Write, TypeInv, TypeOK
  <2>2. conn' \in [Conn -> ClientRow]
    BY <1>10, <2>1, ClientType DEF Write, Client
  <2> QED  BY <1>10, <2>2 DEF Write, Client, TypeInv, TypeOK, InHand
<1>11. ASSUME NEW c \in Conn, CloseSocket(c)
       PROVE  TypeInv'
  <2>1. [conn[c] EXCEPT !.sock = FALSE] \in ClientRow
    BY FieldType
  <2>2. conn' \in [Conn -> ClientRow]
    BY <1>11, <2>1, ClientType DEF CloseSocket, Client
  <2> QED  BY <1>11, <2>2 DEF CloseSocket, Client, TypeInv, TypeOK, InHand
<1>12. ASSUME NEW s \in Sender, NEW u \in User, Snapshot(s, u)
       PROVE  TypeInv'
  <2> DEFINE left == sender[s].users \ {u}
             row  == IF left = {} /\ ~IsConnected(u) THEN Idle
                     ELSE [sender[s] EXCEPT !.users = left, !.conns = clients[u]]
  <2>1. sender[s] \in SenderRow /\ clients[u] \in SUBSET Conn
    BY DEF TypeInv, TypeOK
  <2>2. row \in SenderRow /\ (row.pc # "send" => row.cur \in Conn)
    BY <2>1, IdleType DEF TypeInv, InHand, SenderRow
  <2> HIDE DEF row
  <2>3. sender' \in [Sender -> SenderRow] /\ InHand'
    BY <1>12, <2>2, SendingType DEF Snapshot, Sending, row
  <2> QED  BY <1>12, <2>3 DEF Snapshot, Sending, NotSending, TypeInv, TypeOK
<1>13. ASSUME NEW s \in Sender, Panic(s), NotSending, UNCHANGED unregister
       PROVE  TypeInv'
  <2>1. sender' \in [Sender -> SenderRow] /\ InHand'
    BY <1>13, IdleType, SendingType DEF Panic
  <2>2. alive' \in BOOLEAN
    BY <1>13 DEF Panic, TypeInv, TypeOK, SenderRow
  <2> QED  BY <1>13, <2>1, <2>2 DEF Panic, NotSending, TypeInv, TypeOK
<1>14. ASSUME NEW s \in Sender, NEW c \in Conn
       PROVE  Served(s, c) \in SenderRow /\ Served(s, c).pc = "send"
  <2>1. sender[s] \in SenderRow
    BY DEF TypeInv, TypeOK
  <2> QED  BY <2>1, IdleType DEF Served, SenderRow
<1>15. ASSUME NEW s \in Sender, NEW c \in Conn, Send(s, c)
       PROVE  TypeInv'
  <2>1. CASE conn[c].closed /\ Panic(s)
    BY <1>13, <1>15, <2>1 DEF Send
  <2>2. CASE /\ conn[c].buf < SendBufSize
             /\ conn' = [conn EXCEPT ![c].buf = @ + 1]
             /\ Sending(s, Served(s, c))
    <3>1. conn' \in [Conn -> ClientRow]
      <4>1. [conn[c] EXCEPT !.buf = conn[c].buf + 1] \in ClientRow
        BY <2>2, BufferType DEF TypeInv, TypeOK
      <4> QED  BY <2>2, <4>1, ClientType
    <3>2. sender' \in [Sender -> SenderRow] /\ InHand'
      BY <2>2, <1>14, SendingType DEF Sending
    <3> QED  BY <1>15, <2>2, <3>1, <3>2 DEF Send, Sending, NotSending, TypeInv, TypeOK
  <2>3. CASE Sending(s, [sender[s] EXCEPT !.pc = "close", !.cur = c]) /\ UNCHANGED conn
    <3>1. /\ [sender[s] EXCEPT !.pc = "close", !.cur = c] \in SenderRow
          /\ [sender[s] EXCEPT !.pc = "close", !.cur = c].cur = c
      BY DEF TypeInv, TypeOK, SenderRow
    <3>2. sender' \in [Sender -> SenderRow] /\ InHand'
      BY <2>3, <3>1, SendingType DEF Sending
    <3> QED  BY <1>15, <2>3, <3>2 DEF Send, Sending, NotSending, TypeInv, TypeOK
  <2> QED  BY <1>15, <2>1, <2>2, <2>3 DEF Send
<1>16. ASSUME NEW s \in Sender, ForceClose(s)
       PROVE  TypeInv'
  <2>1. sender[s] \in SenderRow /\ sender[s].cur \in Conn
    BY <1>16 DEF ForceClose, TypeInv, TypeOK, InHand
  <2>2. CASE Panic(s)
    BY <1>13, <1>16, <2>2 DEF ForceClose
  <2>3. CASE /\ conn' = [conn EXCEPT ![sender[s].cur].closed = TRUE]
             /\ Sending(s, [sender[s] EXCEPT !.pc = "unregister"])
    <3>1. conn' \in [Conn -> ClientRow]
      <4>1. [conn[sender[s].cur] EXCEPT !.closed = TRUE] \in ClientRow
        BY <2>1, BufferType DEF TypeInv, TypeOK
      <4> QED  BY <2>1, <2>3, <4>1, ClientType
    <3>2. /\ [sender[s] EXCEPT !.pc = "unregister"] \in SenderRow
          /\ [sender[s] EXCEPT !.pc = "unregister"].cur \in Conn
      BY <2>1 DEF SenderRow
    <3>3. sender' \in [Sender -> SenderRow] /\ InHand'
      BY <2>3, <3>2, SendingType DEF Sending
    <3> QED  BY <1>16, <2>3, <3>1, <3>3 DEF ForceClose, Sending, NotSending, TypeInv, TypeOK
  <2> QED  BY <1>16, <2>2, <2>3 DEF ForceClose
<1>17. ASSUME NEW s \in Sender, Unregister(s)
       PROVE  TypeInv'
  <2>1. sender[s].cur \in Conn
    BY <1>17 DEF Unregister, TypeInv, InHand
  <2>2. unregister' \in Seq(Conn) /\ Len(unregister') <= UnregisterCap
    BY <1>17, <2>1, AppendType, Capacities DEF Unregister, TypeInv, TypeOK
  <2>3. sender' \in [Sender -> SenderRow] /\ InHand'
    BY <1>14, <1>17, <2>1, SendingType DEF Unregister, Sending
  <2> QED  BY <1>17, <2>2, <2>3 DEF Unregister, Sending, NotSending, TypeInv, TypeOK
<1>18. ASSUME NEW s \in Sender, NEW us \in SUBSET User, NEW b \in BOOLEAN
       PROVE  /\ [Idle EXCEPT !.users = us, !.bus = b] \in SenderRow
              /\ [Idle EXCEPT !.users = us, !.bus = b].pc = "send"
              /\ [Idle EXCEPT !.users = us] \in SenderRow
              /\ [Idle EXCEPT !.users = us].pc = "send"
  BY DEF Idle, SenderRow
<1>19. ASSUME NEW w \in Worker, NEW u \in User, Notify(w, u)
       PROVE  TypeInv'
  <2>1. w \in Sender /\ {u} \in SUBSET User
    BY DEF Sender
  <2>2. sender' \in [Sender -> SenderRow] /\ InHand'
    BY <1>18, <1>19, <2>1, IdleType, SendingType DEF Notify, Sending
  <2>3. budget' \in [inbound : 0 .. MaxInbound, events : 0 .. MaxEvents, bans : 0 .. MaxBans]
    <3>1. budget \in Budget
      BY DEF TypeInv, TypeOK, Budget
    <3> QED  BY <1>19, <3>1, BudgetType DEF Notify, Budget
  <2> QED  BY <1>19, <2>2, <2>3 DEF Notify, Sending, TypeInv, TypeOK
<1>20. ASSUME NEW w \in Worker, NEW u \in User, FireBadge(w, u)
       PROVE  TypeInv'
  <2>1. w \in Sender /\ {u} \in SUBSET User
    BY DEF Sender
  <2>2. sender' \in [Sender -> SenderRow] /\ InHand'
    BY <1>18, <1>20, <2>1, IdleType, SendingType DEF FireBadge, Sending
  <2> QED  BY <1>20, <2>2 DEF FireBadge, Sending, TypeInv, TypeOK
<1>21. CASE RunRegister
  <2>1. Head(register) \in Conn /\ register' \in Seq(Conn) /\ Len(register') <= RegisterCap
    BY <1>21, TailType, Capacities DEF RunRegister, TypeInv, TypeOK
  <2>2. clients' \in [User -> SUBSET Conn]
    BY <1>21, <2>1 DEF RunRegister, TypeInv, TypeOK
  <2> QED  BY <1>21, <2>1, <2>2 DEF RunRegister, TypeInv, TypeOK, InHand
<1>22. CASE RunUnregister
  <2>1. unregister' \in Seq(Conn) /\ Len(unregister') <= UnregisterCap
    BY <1>22, TailType, Capacities DEF RunUnregister, TypeInv, TypeOK
  <2>2. clients' \in [User -> SUBSET Conn]
    BY <1>22 DEF RunUnregister, Removed, TypeInv, TypeOK
  <2>3. sender' \in [Sender -> SenderRow] /\ InHand'
    <3>1. Run \in Sender
      BY DEF Sender
    <3> QED  BY <1>18, <1>22, <3>1, SendingType DEF RunUnregister, Sending
  <2> QED  BY <1>22, <2>1, <2>2, <2>3 DEF RunUnregister, Sending, TypeInv, TypeOK
<1>23. CASE RunInbound
  <2> DEFINE c == Head(inbound).conn
             m == Head(inbound).msg
  <2>1. /\ c \in Conn /\ m \in Message /\ Run \in Sender
        /\ inbound' \in Seq([conn : Conn, msg : Message]) /\ Len(inbound') <= InboundCap
    <3>1. /\ Head(inbound) \in [conn : Conn, msg : Message]
          /\ Tail(inbound) \in Seq([conn : Conn, msg : Message])
          /\ Len(Tail(inbound)) <= InboundCap
      BY <1>23, TailType, Capacities DEF RunInbound, TypeInv, TypeOK
    <3> QED  BY <1>23, <3>1 DEF RunInbound, Sender
  <2>2. m.type # "other" => m.user \in User
    BY <2>1 DEF Message
  <2> HIDE DEF c, m
  <2>3. CASE m.type = "typing" /\ Sending(Run, [Idle EXCEPT !.users = {m.user}]) /\ UNCHANGED <<conn, badge>>
    <3>1. sender' \in [Sender -> SenderRow] /\ InHand'
      BY <1>18, <2>1, <2>2, <2>3, SendingType DEF Sending
    <3> QED  BY <1>23, <2>1, <2>3, <3>1 DEF RunInbound, Sending, TypeInv, TypeOK
  <2>4. CASE m.type = "read_receipt" /\ badge' = badge \cup {m.user} /\ UNCHANGED <<alive, conn, sender>>
    BY <1>23, <2>1, <2>2, <2>4 DEF RunInbound, TypeInv, TypeOK, InHand
  <2>5. CASE Panic(Run) /\ UNCHANGED badge
    <3>1. sender' \in [Sender -> SenderRow] /\ InHand'
      BY <2>1, <2>5, IdleType, SendingType DEF Panic
    <3>2. alive' \in BOOLEAN
      BY <2>1, <2>5 DEF Panic, TypeInv, TypeOK, SenderRow
    <3> QED  BY <1>23, <2>1, <2>5, <3>1, <3>2 DEF RunInbound, Panic, TypeInv, TypeOK
  <2>6. CASE conn' = ErrorReply(c) /\ UNCHANGED <<alive, badge, sender>>
    <3>1. conn' \in [Conn -> ClientRow]
      <4>1. conn[c] \in ClientRow
        BY <2>1 DEF TypeInv, TypeOK
      <4>2. conn[c].buf < SendBufSize => [conn[c] EXCEPT !.buf = conn[c].buf + 1] \in ClientRow
        BY <4>1, BufferType
      <4>3. [conn[c] EXCEPT !.buf = conn[c].buf] \in ClientRow
        BY <4>1 DEF ClientRow
      <4>4. CASE conn[c].buf < SendBufSize
        BY <2>1, <2>6, <4>2, <4>4, ClientType DEF ErrorReply
      <4>5. CASE ~(conn[c].buf < SendBufSize)
        BY <2>1, <2>6, <4>3, <4>5, ClientType DEF ErrorReply
      <4> QED  BY <4>4, <4>5
    <3> QED  BY <1>23, <2>1, <2>6, <3>1 DEF RunInbound, TypeInv, TypeOK, InHand
  <2> QED  BY <1>23, <2>3, <2>4, <2>5, <2>6 DEF RunInbound, c, m
<1>24. ASSUME NEW u \in User, Ban(u)
       PROVE  TypeInv'
  <2>1. budget' \in [inbound : 0 .. MaxInbound, events : 0 .. MaxEvents, bans : 0 .. MaxBans]
    <3>1. budget \in Budget
      BY DEF TypeInv, TypeOK, Budget
    <3> QED  BY <1>24, <3>1, BudgetType DEF Ban, Budget
  <2>2. ending' \in [User -> EndingRow]
    BY <1>24 DEF Ban, Ending, TypeInv, TypeOK, EndingRow
  <2> QED  BY <1>24, <2>1, <2>2 DEF Ban, Ending, TypeInv, TypeOK, InHand
<1>25. ASSUME NEW u \in User, RevokeUser(u)
       PROVE  TypeInv'
  <2>1. tickets' \in [Ticket -> TicketRow]
    <3>1. \A t \in Ticket : tickets[t] \in TicketRow /\ [tickets[t] EXCEPT !.state = "spent"] \in TicketRow
      BY DEF TypeInv, TypeOK, TicketRow
    <3> QED  BY <1>25, <3>1 DEF RevokeUser
  <2>2. ending' \in [User -> EndingRow]
    BY <1>25 DEF RevokeUser, Ending, TypeInv, TypeOK, EndingRow
  <2> QED  BY <1>25, <2>1, <2>2 DEF RevokeUser, Ending, TypeInv, TypeOK, InHand
<1>26. ASSUME NEW u \in User, BeginDisconnect(u)
       PROVE  TypeInv'
  <2>1. ending' \in [User -> EndingRow]
    BY <1>26 DEF BeginDisconnect, Ending, TypeInv, TypeOK, EndingRow
  <2> QED  BY <1>26, <2>1 DEF BeginDisconnect, Ending, TypeInv, TypeOK, InHand
<1>27. ASSUME NEW u \in User, NEW c \in Conn, Disconnect(u, c)
       PROVE  TypeInv'
  <2>1. ending' \in [User -> EndingRow]
    BY <1>27 DEF Disconnect, Ending, AfterClose, TypeInv, TypeOK, EndingRow
  <2>2. conn' \in [Conn -> ClientRow]
    <3>1. [conn[c] EXCEPT !.sock = FALSE] \in ClientRow
      BY BufferType DEF TypeInv, TypeOK
    <3> QED  BY <1>27, <3>1, ClientType DEF Disconnect
  <2> QED  BY <1>27, <2>1, <2>2 DEF Disconnect, Ending, TypeInv, TypeOK, InHand
<1>28. CASE UNCHANGED vars
  BY <1>28 DEF vars, TypeInv, TypeOK, InHand
<1> QED
  BY <1>1, <1>2, <1>3, <1>4, <1>5, <1>6, <1>7, <1>8, <1>9, <1>10, <1>11, <1>12, <1>15, <1>16,
     <1>17, <1>19, <1>20, <1>21, <1>22, <1>23, <1>24, <1>25, <1>26, <1>27, <1>28
  DEF Next, EndStep, ReaderStep, SendStep, RunStep

\* Every reachable state is well typed, and each goroutine that is about to
\* close a channel or to queue on unregister holds a client.
LEMMA TypeInvariant == Spec => []TypeInv
<1>1. TypeInv /\ [Next]_vars => TypeInv'
  BY TypeStep
<1> QED  BY TypeInit, <1>1, PTL DEF Spec

\* Type correctness: no channel holds more than its capacity, no buffer more
\* than SendBufSize, and every row has the shape its readers expect.
THEOREM HubTypeCorrect == Spec => []TypeOK
<1>1. TypeInv => TypeOK
  BY DEF TypeInv
<1> QED  BY TypeInvariant, <1>1, PTL

-----------------------------------------------------------------------------
(* A ticket opens one connection.                                          *)

\* A ticket a connection was opened with is spent and belongs to the user of
\* the connection; a ticket that was issued belongs to somebody.
TicketInv ==
  /\ \A c \in Conn : conn[c].ticket # Nil =>
       /\ tickets[conn[c].ticket].state = "spent"
       /\ tickets[conn[c].ticket].user = conn[c].user
  /\ \A t \in Ticket : tickets[t].state = "issued" => tickets[t].user \in User

OneConnection == TicketInv /\ TicketOpensOneConnection

\* Only Connect gives a client its user and its ticket.
KeepsTickets(c) == conn'[c].user = conn[c].user /\ conn'[c].ticket = conn[c].ticket

\* Steps that leave the store and who holds which ticket alone.
LEMMA TicketsKept ==
  ASSUME TypeInv, OneConnection, UNCHANGED tickets, \A c \in Conn : KeepsTickets(c)
  PROVE  OneConnection'
  BY DEF OneConnection, TicketInv, TicketOpensOneConnection, KeepsTickets

\* A client that gets a row of its own keeps its ticket when the row does.
LEMMA RowKeepsTickets ==
  ASSUME TypeInv, NEW c \in Conn, NEW row,
         row.user = conn[c].user, row.ticket = conn[c].ticket,
         conn' = [conn EXCEPT ![c] = row]
  PROVE  \A d \in Conn : KeepsTickets(d)
  BY DEF TypeInv, TypeOK, KeepsTickets

\* What happens to its buffer, its channel or its socket does not change whose
\* connection it is.
LEMMA FieldKeepsTickets ==
  ASSUME NEW row \in ClientRow, NEW n, NEW r
  PROVE  /\ [row EXCEPT !.buf = n].user = row.user /\ [row EXCEPT !.buf = n].ticket = row.ticket
         /\ [row EXCEPT !.reader = r].user = row.user /\ [row EXCEPT !.reader = r].ticket = row.ticket
         /\ [row EXCEPT !.sock = n].user = row.user /\ [row EXCEPT !.sock = n].ticket = row.ticket
         /\ [row EXCEPT !.closed = n].user = row.user /\ [row EXCEPT !.closed = n].ticket = row.ticket
  BY DEF ClientRow

\* Every step keeps the tickets spent and their holders: the four that touch
\* the ticket store, then those that only touch clients, then the rest.
LEMMA OneConnectionStep ==
  ASSUME TypeInv, OneConnection, [Next]_vars
  PROVE  OneConnection'
<1>0. \A c \in Conn : conn[c] \in ClientRow /\ conn[c].ticket \in Ticket \cup {Nil}
  BY DEF TypeInv, TypeOK, ClientRow
<1>a. UNCHANGED <<tickets, conn>> => OneConnection'
  BY TicketsKept DEF KeepsTickets
<1>b. ASSUME NEW c \in Conn, NEW row, conn' = [conn EXCEPT ![c] = row], UNCHANGED tickets,
             row.user = conn[c].user, row.ticket = conn[c].ticket
      PROVE  OneConnection'
  BY <1>b, RowKeepsTickets, TicketsKept
<1>1. ASSUME NEW u \in User, NEW t \in Ticket, Issue(u, t)
      PROVE  OneConnection'
  <2>1. \A c \in Conn : conn[c].ticket # t \/ conn[c].ticket = Nil
    BY <1>1 DEF Issue, OneConnection, TicketInv
  <2> QED  BY <1>0, <1>1, <2>1 DEF Issue, OneConnection, TicketInv, TicketOpensOneConnection, TypeInv, TypeOK
<1>2. ASSUME NEW t \in Ticket, Expire(t)
      PROVE  OneConnection'
  BY <1>0, <1>2 DEF Expire, OneConnection, TicketInv, TicketOpensOneConnection, TypeInv, TypeOK, TicketRow
<1>3. ASSUME NEW t \in Ticket, NEW c \in Conn, Connect(t, c)
      PROVE  OneConnection'
  <2>1. /\ conn' = [conn EXCEPT ![c] = NewClient(tickets[t].user, t)]
        /\ tickets' = [tickets EXCEPT ![t].state = "spent"]
        /\ tickets[t].state = "issued" /\ tickets[t] \in TicketRow
    BY <1>3 DEF Connect, Consumed, TypeInv, TypeOK
  <2>2. /\ tickets'[t].state = "spent" /\ tickets'[t].user = tickets[t].user
        /\ \A d \in Ticket \ {t} : tickets'[d] = tickets[d]
    BY <2>1 DEF TypeInv, TypeOK, TicketRow
  <2>3. /\ conn'[c].ticket = t /\ conn'[c].user = tickets[t].user
        /\ \A d \in Conn \ {c} : conn'[d] = conn[d]
    BY <2>1 DEF NewClient, TypeInv, TypeOK
  <2>4. \A d \in Conn : conn[d].ticket # Nil => conn[d].ticket # t
    BY <2>1 DEF OneConnection, TicketInv
  <2>5. t # Nil
    BY NilAssumption
  <2>6. TicketInv'
    BY <1>0, <2>1, <2>2, <2>3, <2>4 DEF OneConnection, TicketInv
  <2>7. TicketOpensOneConnection'
    BY <1>0, <2>2, <2>3, <2>4, <2>5 DEF OneConnection, TicketInv, TicketOpensOneConnection
  <2> QED  BY <2>6, <2>7 DEF OneConnection
<1>4. ASSUME NEW u \in User, RevokeUser(u)
      PROVE  OneConnection'
  <2>1. \A t \in Ticket : /\ tickets'[t].user = tickets[t].user
                          /\ tickets[t].state = "spent" => tickets'[t].state = "spent"
                          /\ tickets'[t].state = "issued" => tickets[t].state = "issued"
    BY <1>4 DEF RevokeUser, TypeInv, TypeOK, TicketRow
  <2> QED  BY <1>0, <1>4, <2>1 DEF RevokeUser, OneConnection, TicketInv, TicketOpensOneConnection
<1>5. ASSUME NEW c \in Conn, Accept(c)
      PROVE  OneConnection'
  <2> DEFINE row == [conn[c] EXCEPT !.reader = "reading", !.sock = TRUE]
  <2>1. row.user = conn[c].user /\ row.ticket = conn[c].ticket
    BY <1>0 DEF ClientRow
  <2>2. conn' = [conn EXCEPT ![c] = row] /\ UNCHANGED tickets
    BY <1>5 DEF Accept, Client
  <2> HIDE DEF row
  <2> QED  BY <1>b, <2>1, <2>2
<1>6. ASSUME NEW c \in Conn, Refuse(c)
      PROVE  OneConnection'
  BY <1>0, <1>b, <1>6, FieldKeepsTickets DEF Refuse, Client
<1>7. ASSUME NEW c \in Conn, Leave(c)
      PROVE  OneConnection'
  BY <1>0, <1>b, <1>7, FieldKeepsTickets DEF Leave, Client
<1>8. ASSUME NEW c \in Conn, Drop(c)
      PROVE  OneConnection'
  BY <1>0, <1>b, <1>8, FieldKeepsTickets DEF Drop, Client
<1>9. ASSUME NEW c \in Conn, Write(c)
      PROVE  OneConnection'
  BY <1>0, <1>b, <1>9, FieldKeepsTickets DEF Write, Client
<1>10. ASSUME NEW c \in Conn, CloseSocket(c)
      PROVE  OneConnection'
  BY <1>0, <1>b, <1>10, FieldKeepsTickets DEF CloseSocket, Client
<1>11. ASSUME NEW s \in Sender, NEW c \in Conn, Send(s, c)
       PROVE  OneConnection'
  <2>1. CASE UNCHANGED conn
    BY <1>a, <1>11, <2>1 DEF Send, NotSending
  <2>2. CASE conn' = [conn EXCEPT ![c].buf = @ + 1]
    BY <1>0, <1>b, <1>11, <2>2, FieldKeepsTickets DEF Send, NotSending
  <2> QED  BY <1>11, <2>1, <2>2 DEF Send, Panic
<1>12. ASSUME NEW s \in Sender, ForceClose(s)
       PROVE  OneConnection'
  <2>1. CASE UNCHANGED conn
    BY <1>a, <1>12, <2>1 DEF ForceClose, NotSending
  <2>2. CASE conn' = [conn EXCEPT ![sender[s].cur].closed = TRUE]
    <3>1. sender[s].cur \in Conn
      BY <1>12 DEF ForceClose, TypeInv, InHand
    <3> QED  BY <1>0, <1>b, <1>12, <2>2, <3>1, FieldKeepsTickets DEF ForceClose, NotSending
  <2> QED  BY <1>12, <2>1, <2>2 DEF ForceClose, Panic
<1>13. CASE RunInbound
  <2> DEFINE c == Head(inbound).conn
  <2>1. c \in Conn
    <3>1. Head(inbound) \in [conn : Conn, msg : Message]
      BY <1>13, TailType, Capacities DEF RunInbound, TypeInv, TypeOK
    <3> QED  BY <3>1
  <2>2. CASE UNCHANGED conn
    BY <1>a, <1>13, <2>2 DEF RunInbound
  <2>3. CASE conn' = ErrorReply(c)
    <3> DEFINE row == [conn[c] EXCEPT !.buf = IF conn[c].buf < SendBufSize THEN conn[c].buf + 1
                                              ELSE conn[c].buf]
    <3>1. conn' = [conn EXCEPT ![c] = row]
      BY <2>3 DEF ErrorReply
    <3>2. row.user = conn[c].user /\ row.ticket = conn[c].ticket
      BY <1>0, <2>1, FieldKeepsTickets
    <3> HIDE DEF row, c
    <3>3. UNCHANGED tickets
      BY <1>13 DEF RunInbound
    <3> QED  BY <1>b, <2>1, <3>1, <3>2, <3>3
  <2> QED  BY <1>13, <2>2, <2>3 DEF RunInbound, Panic
<1>14. ASSUME NEW u \in User, NEW c \in Conn, Disconnect(u, c)
      PROVE  OneConnection'
  BY <1>0, <1>b, <1>14, FieldKeepsTickets DEF Disconnect
<1>15. ASSUME NEW u \in User, BeginIssue(u)
       PROVE  OneConnection'
  BY <1>a, <1>15 DEF BeginIssue
<1>16. ASSUME NEW u \in User, Ban(u)
       PROVE  OneConnection'
  BY <1>a, <1>16 DEF Ban
<1>17. ASSUME NEW u \in User, BeginDisconnect(u)
       PROVE  OneConnection'
  BY <1>a, <1>17 DEF BeginDisconnect
<1>18. ASSUME NEW c \in Conn, NEW m \in Message, Read(c, m)
       PROVE  OneConnection'
  BY <1>a, <1>18 DEF Read
<1>19. ASSUME NEW s \in Sender, NEW u \in User, Snapshot(s, u)
       PROVE  OneConnection'
  BY <1>a, <1>19 DEF Snapshot, NotSending
<1>20. ASSUME NEW s \in Sender, Unregister(s)
       PROVE  OneConnection'
  BY <1>a, <1>20 DEF Unregister, NotSending
<1>21. ASSUME NEW w \in Worker, NEW u \in User, Notify(w, u)
       PROVE  OneConnection'
  BY <1>a, <1>21 DEF Notify
<1>22. ASSUME NEW w \in Worker, NEW u \in User, FireBadge(w, u)
       PROVE  OneConnection'
  BY <1>a, <1>22 DEF FireBadge
<1>23. CASE RunRegister
  BY <1>a, <1>23 DEF RunRegister
<1>24. CASE RunUnregister
  BY <1>a, <1>24 DEF RunUnregister
<1>25. CASE UNCHANGED vars
  BY <1>a, <1>25 DEF vars
<1> QED
  BY <1>1, <1>2, <1>3, <1>4, <1>5, <1>6, <1>7, <1>8, <1>9, <1>10, <1>11, <1>12, <1>13, <1>14,
     <1>15, <1>16, <1>17, <1>18, <1>19, <1>20, <1>21, <1>22, <1>23, <1>24, <1>25
  DEF Next, EndStep, ReaderStep, SendStep, RunStep

\* A ticket opens at most one connection, its owner's, however many requests
\* present it and whatever expires or is revoked meanwhile.
THEOREM TicketIsSingleUse == Spec => []TicketOpensOneConnection
<1>1. Init => OneConnection
  BY DEF Init, NoClient, OneConnection, TicketInv, TicketOpensOneConnection
<1>2. TypeInv /\ OneConnection /\ [Next]_vars => OneConnection'
  BY OneConnectionStep
<1>3. OneConnection => TicketOpensOneConnection
  BY DEF OneConnection
<1> QED  BY <1>1, <1>2, <1>3, TypeInvariant, PTL DEF Spec

-----------------------------------------------------------------------------
(* A live session is reachable.                                            *)

\* A client queued on unregister is over or was force-closed, so is the client
\* a sender is about to queue; a connection being served has a user; and the
\* property itself.
ReachInv ==
  /\ \A c \in Conn : InChannel(c, unregister) => conn[c].reader = "gone" \/ conn[c].closed
  /\ \A s \in Sender : sender[s].pc = "unregister" => conn[sender[s].cur].closed
  /\ \A c \in Conn : conn[c].reader \in {"accepting", "reading"} => conn[c].user \in User
  /\ \A c \in Conn : conn[c].reader = "reading" /\ ~conn[c].closed =>
       c \in clients[conn[c].user] \/ InChannel(c, register)

\* From old to new a client keeps its user, stays closed or over once it is,
\* and goes nowhere but away.
Fades(old, new) ==
  /\ new.user = old.user
  /\ old.closed => new.closed
  /\ new.reader = old.reader \/ new.reader = "gone"

\* No goroutine comes to the point of queueing a client on unregister.
SendersQuiet == \A s \in Sender : sender'[s].pc = "unregister" =>
                  sender[s].pc = "unregister" /\ sender'[s].cur = sender[s].cur

\* What is in a channel after a send and after a receive.
LEMMA AppendIn ==
  ASSUME NEW chan \in Seq(Conn), NEW x \in Conn, NEW c \in Conn
  PROVE  InChannel(c, Append(chan, x)) <=> InChannel(c, chan) \/ c = x
  BY DEF InChannel

LEMMA TailIn ==
  ASSUME NEW chan \in Seq(Conn), chan # <<>>, NEW c \in Conn
  PROVE  /\ InChannel(c, Tail(chan)) => InChannel(c, chan)
         /\ InChannel(c, chan) => c = Head(chan) \/ InChannel(c, Tail(chan))
         /\ InChannel(Head(chan), chan)
<1>1. /\ Len(chan) \in Nat \ {0} /\ Len(Tail(chan)) = Len(chan) - 1
      /\ Head(chan) = chan[1]
      /\ \A i \in 1 .. Len(chan) - 1 : Tail(chan)[i] = chan[i + 1]
  OBVIOUS
<1>2. InChannel(c, Tail(chan)) => InChannel(c, chan)
  BY <1>1 DEF InChannel
<1>3. ASSUME InChannel(c, chan), c # Head(chan)
      PROVE  InChannel(c, Tail(chan))
  <2>1. PICK i \in 1 .. Len(chan) : chan[i] = c
    BY <1>3 DEF InChannel
  <2>2. i # 1 /\ i - 1 \in 1 .. Len(chan) - 1 /\ (i - 1) + 1 = i
    BY <1>1, <1>3, <2>1
  <2>3. Tail(chan)[i - 1] = c
    BY <1>1, <2>1, <2>2
  <2> QED  BY <1>1, <2>2, <2>3 DEF InChannel
<1>4. InChannel(Head(chan), chan)
  BY <1>1 DEF InChannel
<1> QED  BY <1>2, <1>3, <1>4

\* A step in which clients only fade and no channel or registry changes.
LEMMA FadingReach ==
  ASSUME TypeInv, ReachInv, SendersQuiet, UNCHANGED <<clients, register, unregister>>,
         \A c \in Conn : Fades(conn[c], conn'[c])
  PROVE  ReachInv'
<1>1. \A s \in Sender : sender'[s].pc = "unregister" => conn'[sender'[s].cur].closed
  <2> SUFFICES ASSUME NEW s \in Sender, sender'[s].pc = "unregister"
               PROVE  conn'[sender'[s].cur].closed
    OBVIOUS
  <2>1. sender[s].pc = "unregister" /\ sender'[s].cur = sender[s].cur
    BY DEF SendersQuiet
  <2>2. sender[s].cur \in Conn /\ conn[sender[s].cur].closed
    BY <2>1 DEF TypeInv, InHand, ReachInv
  <2> QED  BY <2>1, <2>2 DEF Fades
<1>2. /\ \A c \in Conn : InChannel(c, unregister)' => conn'[c].reader = "gone" \/ conn'[c].closed
      /\ \A c \in Conn : conn'[c].reader \in {"accepting", "reading"} => conn'[c].user \in User
  BY DEF ReachInv, Fades, InChannel
<1>3. \A c \in Conn : conn'[c].reader = "reading" /\ ~conn'[c].closed =>
        c \in clients'[conn'[c].user] \/ InChannel(c, register)'
  BY DEF ReachInv, Fades, InChannel
<1> QED  BY <1>1, <1>2, <1>3 DEF ReachInv

\* A client changed in its buffer or its socket, or whose reader ends, fades.
LEMMA FieldFades ==
  ASSUME NEW row \in ClientRow, NEW n
  PROVE  /\ Fades(row, row)
         /\ Fades(row, [row EXCEPT !.buf = n])
         /\ Fades(row, [row EXCEPT !.sock = n])
         /\ Fades(row, [row EXCEPT !.reader = "gone"])
         /\ Fades(row, [row EXCEPT !.closed = TRUE])
  BY DEF ClientRow, Fades

\* Every step keeps the invariant: first the seven that change a channel, the
\* registry or who is about to queue, then those in which clients only fade.
LEMMA ReachStep ==
  ASSUME TypeInv, OneConnection, ReachInv, [Next]_vars
  PROVE  ReachInv'
<1>0. \A c \in Conn : conn[c] \in ClientRow
  BY DEF TypeInv, TypeOK
<1>a. UNCHANGED conn => \A c \in Conn : Fades(conn[c], conn'[c])
  BY <1>0, FieldFades
<1>b. ASSUME NEW c \in Conn, NEW row, conn' = [conn EXCEPT ![c] = row], Fades(conn[c], row)
      PROVE  \A d \in Conn : Fades(conn[d], conn'[d])
  BY <1>0, <1>b, FieldFades DEF TypeInv, TypeOK
<1>c. UNCHANGED sender => SendersQuiet
  BY DEF SendersQuiet
<1>d. ASSUME NEW s \in Sender, NEW row, row.pc # "unregister", sender' = [sender EXCEPT ![s] = row]
      PROVE  SendersQuiet
  BY <1>d DEF SendersQuiet, TypeInv, TypeOK
<1>e. Idle.pc = "send" /\ \A us, b : /\ [Idle EXCEPT !.users = us].pc = "send"
                                     /\ [Idle EXCEPT !.users = us, !.bus = b].pc = "send"
  BY DEF Idle
<1>f. \A s \in Sender, c \in Conn : Served(s, c).pc = "send"
  <2> TAKE s \in Sender, c \in Conn
  <2>1. sender[s] \in SenderRow
    BY DEF TypeInv, TypeOK
  <2> QED  BY <1>e, <2>1 DEF Served, SenderRow
<1>1. ASSUME NEW t \in Ticket, NEW c \in Conn, Connect(t, c)
      PROVE  ReachInv'
  <2>1. /\ conn[c] = NoClient /\ conn' = [conn EXCEPT ![c] = NewClient(tickets[t].user, t)]
        /\ tickets[t].user \in User /\ UNCHANGED <<clients, register, unregister, sender>>
    BY <1>1 DEF Connect, OneConnection, TicketInv, hubChans
  <2>2. /\ conn'[c].user \in User /\ conn'[c].reader = "accepting"
        /\ \A d \in Conn \ {c} : conn'[d] = conn[d]
    BY <2>1 DEF NewClient, TypeInv, TypeOK
  <2>3. ~InChannel(c, unregister) /\ \A s \in Sender : sender[s].pc = "unregister" => sender[s].cur # c
    BY <2>1 DEF NoClient, ReachInv
  <2>4. \A s \in Sender : sender[s].pc = "unregister" => conn'[sender[s].cur].closed
    BY <2>2, <2>3 DEF ReachInv, TypeInv, InHand
  <2> QED  BY <2>1, <2>2, <2>3, <2>4 DEF ReachInv, InChannel
<1>2. ASSUME NEW c \in Conn, Accept(c)
      PROVE  ReachInv'
  <2> DEFINE row == [conn[c] EXCEPT !.reader = "reading", !.sock = TRUE]
  <2>1. /\ conn' = [conn EXCEPT ![c] = row] /\ register' = Append(register, c)
        /\ conn[c].reader = "accepting" /\ UNCHANGED <<clients, unregister, sender>>
    BY <1>2 DEF Accept, Client
  <2>2. row.user = conn[c].user /\ row.closed = conn[c].closed /\ row.reader = "reading"
    BY <1>0 DEF ClientRow
  <2> HIDE DEF row
  <2>3. conn'[c] = row /\ \A d \in Conn \ {c} : conn'[d] = conn[d]
    BY <2>1 DEF TypeInv, TypeOK
  <2>4. \A d \in Conn : InChannel(d, register') <=> InChannel(d, register) \/ d = c
    BY <2>1, AppendIn DEF TypeInv, TypeOK
  <2>5. \A d \in Conn : /\ conn'[d].user = conn[d].user /\ conn'[d].closed = conn[d].closed
                        /\ conn[d].reader = "gone" => conn'[d].reader = "gone"
    BY <2>1, <2>2, <2>3
  <2>6. \A s \in Sender : sender[s].pc = "unregister" => conn'[sender[s].cur].closed
    BY <2>5 DEF ReachInv, TypeInv, InHand
  <2>7. \A d \in Conn : conn'[d].reader = "reading" /\ ~conn'[d].closed =>
          d \in clients[conn'[d].user] \/ InChannel(d, register')
    BY <2>3, <2>4 DEF ReachInv
  <2>8. \A d \in Conn : conn'[d].reader \in {"accepting", "reading"} => conn'[d].user \in User
    BY <2>1, <2>2, <2>3 DEF ReachInv
  <2> QED  BY <2>1, <2>5, <2>6, <2>7, <2>8 DEF ReachInv, InChannel
<1>3. ASSUME NEW c \in Conn, Leave(c)
      PROVE  ReachInv'
  <2> DEFINE row == [conn[c] EXCEPT !.reader = "gone"]
  <2>1. /\ conn' = [conn EXCEPT ![c] = row] /\ unregister' = Append(unregister, c)
        /\ UNCHANGED <<clients, register, sender>>
    BY <1>3 DEF Leave, Client
  <2>2. Fades(conn[c], row) /\ row.reader = "gone"
    BY <1>0, FieldFades DEF ClientRow
  <2> HIDE DEF row
  <2>3. conn'[c] = row /\ \A d \in Conn : Fades(conn[d], conn'[d])
    BY <1>b, <2>1, <2>2 DEF TypeInv, TypeOK
  <2>4. \A d \in Conn : InChannel(d, unregister') <=> InChannel(d, unregister) \/ d = c
    BY <2>1, AppendIn DEF TypeInv, TypeOK
  <2>5. \A d \in Conn : InChannel(d, unregister') => conn'[d].reader = "gone" \/ conn'[d].closed
    BY <2>2, <2>3, <2>4 DEF ReachInv, Fades
  <2>6. \A s \in Sender : sender[s].pc = "unregister" => conn'[sender[s].cur].closed
    BY <2>3 DEF ReachInv, TypeInv, InHand, Fades
  <2> QED  BY <2>1, <2>3, <2>5, <2>6 DEF ReachInv, InChannel, Fades
<1>4. ASSUME NEW s \in Sender, ForceClose(s)
      PROVE  ReachInv'
  <2> DEFINE c == sender[s].cur
  <2>1. c \in Conn /\ UNCHANGED <<clients, register, unregister>>
    BY <1>4 DEF ForceClose, NotSending, TypeInv, InHand
  <2>2. CASE Panic(s)
    <3>1. SendersQuiet
      BY <1>d, <1>e, <2>2 DEF Panic
    <3> QED  BY <1>a, <2>1, <2>2, <3>1, FadingReach DEF Panic
  <2>3. CASE /\ conn' = [conn EXCEPT ![c].closed = TRUE]
             /\ Sending(s, [sender[s] EXCEPT !.pc = "unregister"])
    <3>1. \A d \in Conn : Fades(conn[d], conn'[d])
      BY <1>0, <1>b, <2>1, <2>3, FieldFades
    <3>2. conn'[c].closed
      BY <1>0, <2>1, <2>3 DEF TypeInv, TypeOK, ClientRow
    <3>3. /\ sender'[s].cur = c
          /\ \A r \in Sender \ {s} : sender'[r] = sender[r]
      BY <2>3 DEF Sending, TypeInv, TypeOK, SenderRow
    <3>4. \A r \in Sender \ {s} : sender[r].pc = "unregister" => conn'[sender[r].cur].closed
      BY <3>1 DEF ReachInv, TypeInv, InHand, Fades
    <3>5. \A r \in Sender : sender'[r].pc = "unregister" => conn'[sender'[r].cur].closed
      BY <3>2, <3>3, <3>4
    <3> QED  BY <2>1, <3>1, <3>5 DEF ReachInv, InChannel, Fades
  <2> QED  BY <1>4, <2>2, <2>3 DEF ForceClose
<1>5. ASSUME NEW s \in Sender, Unregister(s)
      PROVE  ReachInv'
  <2> DEFINE c == sender[s].cur
  <2>1. /\ c \in Conn /\ conn[c].closed /\ unregister' = Append(unregister, c)
        /\ UNCHANGED <<clients, register, conn>>
    BY <1>5 DEF Unregister, NotSending, TypeInv, InHand, ReachInv
  <2>2. SendersQuiet
    BY <1>5, <1>d, <1>f, <2>1 DEF Unregister, Sending
  <2>3. \A d \in Conn : InChannel(d, unregister') => InChannel(d, unregister) \/ d = c
    BY <2>1, AppendIn DEF TypeInv, TypeOK
  <2>4. \A d \in Conn : InChannel(d, unregister') => conn[d].reader = "gone" \/ conn[d].closed
    BY <2>1, <2>3 DEF ReachInv
  <2> QED  BY <2>1, <2>2, <2>4 DEF ReachInv, SendersQuiet, InChannel
<1>6. CASE RunRegister
  <2> DEFINE c == Head(register)
  <2>1. /\ register # <<>> /\ register \in Seq(Conn) /\ c \in Conn
        /\ register' = Tail(register) /\ UNCHANGED <<conn, unregister, sender>>
        /\ clients' = [clients EXCEPT ![conn[c].user] = @ \cup {c}]
    BY <1>6, TailType, Capacities DEF RunRegister, TypeInv, TypeOK
  <2>2. \A u \in User : clients[u] \subseteq clients'[u]
    BY <2>1 DEF TypeInv, TypeOK
  <2>3. conn[c].user \in User => c \in clients'[conn[c].user]
    BY <2>1 DEF TypeInv, TypeOK
  <2>4. \A d \in Conn : InChannel(d, register) => d = c \/ InChannel(d, register')
    BY <2>1, TailIn
  <2>5. \A d \in Conn : conn[d].reader = "reading" /\ ~conn[d].closed =>
          d \in clients'[conn[d].user] \/ InChannel(d, register')
    BY <2>2, <2>3, <2>4 DEF ReachInv
  <2> QED  BY <2>1, <2>5 DEF ReachInv, InChannel
<1>7. CASE RunUnregister
  <2> DEFINE c == Head(unregister)
  <2>1. /\ unregister # <<>> /\ unregister \in Seq(Conn) /\ c \in Conn
        /\ unregister' = Tail(unregister) /\ UNCHANGED <<conn, register>>
        /\ clients' = Removed(c)
    BY <1>7, TailType, Capacities DEF RunUnregister, TypeInv, TypeOK
  <2>2. SendersQuiet
    BY <1>7, <1>d, <1>e DEF RunUnregister, Sending, Sender
  <2>3. conn[c].reader = "gone" \/ conn[c].closed
    BY <2>1, TailIn DEF ReachInv
  <2>4. \A u \in User : \A d \in Conn \ {c} : d \in clients[u] => d \in clients'[u]
    BY <2>1 DEF Removed, TypeInv, TypeOK
  <2>5. \A d \in Conn : InChannel(d, unregister') => InChannel(d, unregister)
    BY <2>1, TailIn
  <2>6. \A d \in Conn : conn[d].reader = "reading" /\ ~conn[d].closed =>
          d \in clients'[conn[d].user] \/ InChannel(d, register)
    BY <2>3, <2>4 DEF ReachInv
  <2> QED  BY <2>1, <2>2, <2>5, <2>6 DEF ReachInv, SendersQuiet, InChannel
<1>8. ASSUME NEW c \in Conn, Refuse(c)
      PROVE  ReachInv'
  <2>1. \A d \in Conn : Fades(conn[d], conn'[d])
    BY <1>0, <1>b, <1>8, FieldFades DEF Refuse, Client
  <2> QED  BY <1>c, <1>8, <2>1, FadingReach DEF Refuse, Client, hubChans
<1>9. ASSUME NEW c \in Conn, Drop(c)
      PROVE  ReachInv'
  <2>1. \A d \in Conn : Fades(conn[d], conn'[d])
    BY <1>0, <1>b, <1>9, FieldFades DEF Drop, Client
  <2> QED  BY <1>c, <1>9, <2>1, FadingReach DEF Drop, Client, hubChans
<1>10. ASSUME NEW c \in Conn, Write(c)
      PROVE  ReachInv'
  <2>1. \A d \in Conn : Fades(conn[d], conn'[d])
    BY <1>0, <1>b, <1>10, FieldFades DEF Write, Client
  <2> QED  BY <1>c, <1>10, <2>1, FadingReach DEF Write, Client, hubChans
<1>11. ASSUME NEW c \in Conn, CloseSocket(c)
      PROVE  ReachInv'
  <2>1. \A d \in Conn : Fades(conn[d], conn'[d])
    BY <1>0, <1>b, <1>11, FieldFades DEF CloseSocket, Client
  <2> QED  BY <1>c, <1>11, <2>1, FadingReach DEF CloseSocket, Client, hubChans
<1>12. ASSUME NEW u \in User, NEW c \in Conn, Disconnect(u, c)
       PROVE  ReachInv'
  <2>1. \A d \in Conn : Fades(conn[d], conn'[d])
    BY <1>0, <1>b, <1>12, FieldFades DEF Disconnect
  <2> QED  BY <1>c, <1>12, <2>1, FadingReach DEF Disconnect, Ending, hubChans
<1>13. ASSUME NEW s \in Sender, NEW c \in Conn, Send(s, c)
       PROVE  ReachInv'
  <2>1. UNCHANGED <<clients, register, unregister>>
    BY <1>13 DEF Send, NotSending
  <2>2. CASE Panic(s)
    <3>1. SendersQuiet
      BY <1>d, <1>e, <2>2 DEF Panic
    <3> QED  BY <1>a, <2>1, <2>2, <3>1, FadingReach DEF Panic
  <2>3. CASE conn' = [conn EXCEPT ![c].buf = @ + 1] /\ Sending(s, Served(s, c))
    <3>1. SendersQuiet
      BY <1>d, <1>f, <2>3 DEF Sending
    <3>2. \A d \in Conn : Fades(conn[d], conn'[d])
      BY <1>0, <1>b, <2>3, FieldFades
    <3> QED  BY <2>1, <3>1, <3>2, FadingReach
  <2>4. CASE Sending(s, [sender[s] EXCEPT !.pc = "close", !.cur = c]) /\ UNCHANGED conn
    <3>1. [sender[s] EXCEPT !.pc = "close", !.cur = c].pc = "close"
      BY DEF TypeInv, TypeOK, SenderRow
    <3>2. SendersQuiet
      BY <1>d, <2>4, <3>1 DEF Sending
    <3> QED  BY <1>a, <2>1, <2>4, <3>2, FadingReach
  <2> QED  BY <1>13, <2>2, <2>3, <2>4 DEF Send
<1>14. ASSUME NEW s \in Sender, NEW u \in User, Snapshot(s, u)
       PROVE  ReachInv'
  <2> DEFINE left == sender[s].users \ {u}
             row  == IF left = {} /\ ~IsConnected(u) THEN Idle
                     ELSE [sender[s] EXCEPT !.users = left, !.conns = clients[u]]
  <2>1. sender[s] \in SenderRow
    BY DEF TypeInv, TypeOK
  <2>2. row = Idle \/ (row.pc = sender[s].pc /\ row.cur = sender[s].cur)
    BY <2>1 DEF SenderRow
  <2> HIDE DEF row
  <2>3. sender' = [sender EXCEPT ![s] = row] /\ UNCHANGED <<conn, clients, register, unregister>>
    BY <1>14 DEF Snapshot, Sending, NotSending, row
  <2>4. SendersQuiet
    BY <1>e, <2>2, <2>3 DEF SendersQuiet, TypeInv, TypeOK
  <2> QED  BY <1>a, <2>3, <2>4, FadingReach
<1>15. ASSUME NEW w \in Worker, NEW u \in User, Notify(w, u)
       PROVE  ReachInv'
  <2>1. SendersQuiet
    BY <1>d, <1>e, <1>15 DEF Notify, Sending, Sender
  <2> QED  BY <1>a, <1>15, <2>1, FadingReach DEF Notify, hubChans
<1>16. ASSUME NEW w \in Worker, NEW u \in User, FireBadge(w, u)
       PROVE  ReachInv'
  <2>1. SendersQuiet
    BY <1>d, <1>e, <1>16 DEF FireBadge, Sending, Sender
  <2> QED  BY <1>a, <1>16, <2>1, FadingReach DEF FireBadge, hubChans
<1>17. CASE RunInbound
  <2> DEFINE c == Head(inbound).conn
  <2>1. c \in Conn /\ UNCHANGED <<clients, register, unregister>>
    <3>1. Head(inbound) \in [conn : Conn, msg : Message]
      BY <1>17, TailType, Capacities DEF RunInbound, TypeInv, TypeOK
    <3> QED  BY <1>17, <3>1 DEF RunInbound
  <2>2. SendersQuiet
    BY <1>c, <1>d, <1>e, <1>17 DEF RunInbound, Sending, Panic, Sender
  <2>3. CASE UNCHANGED conn
    BY <1>a, <2>1, <2>2, <2>3, FadingReach
  <2>4. CASE conn' = ErrorReply(c)
    <3> DEFINE row == [conn[c] EXCEPT !.buf = IF conn[c].buf < SendBufSize THEN conn[c].buf + 1
                                              ELSE conn[c].buf]
    <3>1. conn' = [conn EXCEPT ![c] = row] /\ Fades(conn[c], row)
      BY <1>0, <2>1, <2>4, FieldFades DEF ErrorReply
    <3> HIDE DEF row, c
    <3> QED  BY <1>b, <2>1, <2>2, <3>1, FadingReach
  <2> QED  BY <1>17, <2>3, <2>4 DEF RunInbound, Panic
<1>18. ASSUME NEW u \in User, BeginIssue(u)
       PROVE  ReachInv'
  BY <1>a, <1>c, <1>18, FadingReach DEF BeginIssue, hubChans
<1>19. ASSUME NEW u \in User, NEW t \in Ticket, Issue(u, t)
       PROVE  ReachInv'
  BY <1>a, <1>c, <1>19, FadingReach DEF Issue, hubChans
<1>20. ASSUME NEW t \in Ticket, Expire(t)
       PROVE  ReachInv'
  BY <1>a, <1>c, <1>20, FadingReach DEF Expire, hubChans
<1>21. ASSUME NEW u \in User, Ban(u)
       PROVE  ReachInv'
  BY <1>a, <1>c, <1>21, FadingReach DEF Ban, Ending, hubChans
<1>22. ASSUME NEW u \in User, RevokeUser(u)
       PROVE  ReachInv'
  BY <1>a, <1>c, <1>22, FadingReach DEF RevokeUser, Ending, hubChans
<1>23. ASSUME NEW u \in User, BeginDisconnect(u)
       PROVE  ReachInv'
  BY <1>a, <1>c, <1>23, FadingReach DEF BeginDisconnect, Ending, hubChans
<1>24. ASSUME NEW c \in Conn, NEW m \in Message, Read(c, m)
       PROVE  ReachInv'
  BY <1>a, <1>c, <1>24, FadingReach DEF Read
<1>25. CASE UNCHANGED vars
  BY <1>a, <1>c, <1>25, FadingReach DEF vars
<1> QED
  BY <1>1, <1>2, <1>3, <1>4, <1>5, <1>6, <1>7, <1>8, <1>9, <1>10, <1>11, <1>12, <1>13, <1>14,
     <1>15, <1>16, <1>17, <1>18, <1>19, <1>20, <1>21, <1>22, <1>23, <1>24, <1>25
  DEF Next, EndStep, ReaderStep, SendStep, RunStep

\* A connection whose reader is at work and whose channel nobody closed is in
\* the registry or on its way there, whatever its siblings, other senders and
\* the ends of sessions do: the queue of unregister never holds its name.
THEOREM LiveSessionsStayReachable == Spec => []LiveSessionReachable
<1>1. Init => OneConnection /\ ReachInv
  BY DEF Init, NoClient, Idle, OneConnection, TicketInv, TicketOpensOneConnection, ReachInv, InChannel
<1>2. TypeInv /\ OneConnection /\ ReachInv /\ [Next]_vars => OneConnection' /\ ReachInv'
  BY OneConnectionStep, ReachStep
<1>3. ReachInv => LiveSessionReachable
  BY NilAssumption DEF ReachInv, LiveSessionReachable, Registered
<1> QED  BY <1>1, <1>2, <1>3, TypeInvariant, PTL DEF Spec

-----------------------------------------------------------------------------
(* Run, once it waits for itself, waits for good.                          *)

\* The client a sender has in hand is one of its snapshot that is not served.
InSnapshot == \A s \in Sender : sender[s].pc # "send" => sender[s].cur \in sender[s].conns

\* Only the steps of the sender s, what makes it busy and Run's own select
\* touch sender[s].
LEMMA SenderKept ==
  ASSUME [Next]_vars
  PROVE  \/ UNCHANGED sender
         \/ \E s \in Sender : SendStep(s)
         \/ \E w \in Worker, u \in User : Notify(w, u) \/ FireBadge(w, u)
         \/ RunUnregister \/ RunInbound
<1>1. ASSUME NEW u \in User, BeginIssue(u) \/ Ban(u) \/ EndStep(u)
      PROVE  UNCHANGED sender
  BY <1>1 DEF BeginIssue, Ban, EndStep, RevokeUser, BeginDisconnect, Disconnect, Ending
<1>2. ASSUME NEW c \in Conn, ReaderStep(c) \/ Write(c) \/ CloseSocket(c) \/ Drop(c)
      PROVE  UNCHANGED sender
  BY <1>2 DEF ReaderStep, Accept, Refuse, Leave, Write, CloseSocket, Drop, Client
<1>3. ASSUME NEW t \in Ticket,
             \/ Expire(t)
             \/ \E u \in User : Issue(u, t)
             \/ \E c \in Conn : Connect(t, c)
      PROVE  UNCHANGED sender
  BY <1>3 DEF Issue, Expire, Connect
<1>4. ASSUME NEW c \in Conn, NEW m \in Message, Read(c, m)
      PROVE  UNCHANGED sender
  BY <1>4 DEF Read
<1>5. ASSUME RunRegister
      PROVE  UNCHANGED sender
  BY <1>5 DEF RunRegister
<1>6. ASSUME UNCHANGED vars
      PROVE  UNCHANGED sender
  BY <1>6 DEF vars
<1> QED  BY <1>1, <1>2, <1>3, <1>4, <1>5, <1>6 DEF Next, RunStep

\* Every step keeps the client in hand in the snapshot, which is only replaced
\* when it is empty.
LEMMA InSnapshotStep ==
  ASSUME TypeInv, InSnapshot, [Next]_vars
  PROVE  InSnapshot'
<1>0. /\ sender \in [Sender -> SenderRow]
      /\ Idle.pc = "send"
      /\ Run \in Sender /\ Worker \subseteq Sender
  BY IdleType DEF TypeInv, TypeOK, Sender
<1>a. ASSUME NEW s \in Sender, NEW row, row.pc # "send" => row.cur \in row.conns,
             sender' = [sender EXCEPT ![s] = row]
      PROVE  InSnapshot'
  BY <1>0, <1>a DEF InSnapshot
<1>1. CASE UNCHANGED sender
  BY <1>1 DEF InSnapshot
<1>2. ASSUME NEW s \in Sender, NEW c \in Conn, c \in sender[s].conns
      PROVE  /\ Served(s, c).pc = "send"
             /\ LET row == [sender[s] EXCEPT !.pc = "close", !.cur = c]
                IN  row.cur \in row.conns
             /\ LET row == [sender[s] EXCEPT !.pc = "unregister"]
                IN  row.cur = sender[s].cur /\ row.conns = sender[s].conns
  BY <1>0, <1>2 DEF Served, SenderRow
<1>3. ASSUME NEW s \in Sender, SendStep(s)
      PROVE  InSnapshot'
  <2>1. ASSUME NEW u \in User, Snapshot(s, u)
        PROVE  InSnapshot'
    <3> DEFINE left == sender[s].users \ {u}
               row  == IF left = {} /\ ~IsConnected(u) THEN Idle
                       ELSE [sender[s] EXCEPT !.users = left, !.conns = clients[u]]
    <3>1. sender[s].pc = "send"
      BY <2>1 DEF Snapshot, InSnapshot
    <3>2. row.pc = "send"
      BY <1>0, <3>1 DEF SenderRow
    <3>3. sender' = [sender EXCEPT ![s] = row]
      BY <2>1 DEF Snapshot, Sending
    <3> HIDE DEF row
    <3> QED  BY <1>a, <3>2, <3>3
  <2>2. ASSUME NEW c \in Conn, Send(s, c)
        PROVE  InSnapshot'
    <3>1. CASE sender' = [sender EXCEPT ![s] = Idle]
      BY <1>0, <1>a, <3>1
    <3>2. CASE sender' = [sender EXCEPT ![s] = Served(s, c)]
      BY <1>2, <1>a, <2>2, <3>2 DEF Send
    <3>3. CASE sender' = [sender EXCEPT ![s] = [sender[s] EXCEPT !.pc = "close", !.cur = c]]
      <4> DEFINE row == [sender[s] EXCEPT !.pc = "close", !.cur = c]
      <4>1. row.cur \in row.conns
        BY <1>2, <2>2 DEF Send
      <4> HIDE DEF row
      <4>2. sender' = [sender EXCEPT ![s] = row]
        BY <3>3 DEF row
      <4> QED  BY <1>a, <4>1, <4>2
    <3> QED  BY <2>2, <3>1, <3>2, <3>3 DEF Send, Sending, Panic
  <2>3. CASE ForceClose(s) \/ Unregister(s)
    <3>1. sender[s].pc # "send"
      BY <2>3 DEF ForceClose, Unregister
    <3>2. sender[s].cur \in Conn /\ sender[s].cur \in sender[s].conns
      BY <3>1 DEF TypeInv, InHand, InSnapshot
    <3>3. CASE sender' = [sender EXCEPT ![s] = Idle]
      BY <1>0, <1>a, <3>3
    <3>4. CASE sender' = [sender EXCEPT ![s] = Served(s, sender[s].cur)]
      BY <1>2, <1>a, <3>2, <3>4
    <3>5. CASE sender' = [sender EXCEPT ![s] = [sender[s] EXCEPT !.pc = "unregister"]]
      <4> DEFINE row == [sender[s] EXCEPT !.pc = "unregister"]
      <4>1. row.cur \in row.conns
        BY <1>2, <3>2
      <4> HIDE DEF row
      <4>2. sender' = [sender EXCEPT ![s] = row]
        BY <3>5 DEF row
      <4> QED  BY <1>a, <4>1, <4>2
    <3> QED  BY <2>3, <3>3, <3>4, <3>5 DEF ForceClose, Unregister, Sending, Panic
  <2> QED  BY <1>3, <2>1, <2>2, <2>3 DEF SendStep
<1>4. \A U : /\ [Idle EXCEPT !.users = U].pc = "send"
             /\ [Idle EXCEPT !.users = U, !.bus = TRUE].pc = "send"
  BY DEF Idle
<1>5. ASSUME NEW w \in Worker, NEW u \in User, Notify(w, u) \/ FireBadge(w, u)
      PROVE  InSnapshot'
  <2>1. PICK row : row.pc = "send" /\ sender' = [sender EXCEPT ![w] = row]
    BY <1>0, <1>4, <1>5 DEF Notify, FireBadge, Sending
  <2> QED  BY <1>0, <1>a, <2>1
<1>6. CASE RunUnregister
  <2>1. PICK row : row.pc = "send" /\ sender' = [sender EXCEPT ![Run] = row]
    BY <1>4, <1>6 DEF RunUnregister, Sending
  <2> QED  BY <1>0, <1>a, <2>1
<1>7. CASE RunInbound
  <2>1. CASE UNCHANGED sender
    BY <1>1, <2>1
  <2>2. CASE ~UNCHANGED sender
    <3>1. PICK row : row.pc = "send" /\ sender' = [sender EXCEPT ![Run] = row]
      BY <1>0, <1>4, <1>7, <2>2 DEF RunInbound, Sending, Panic
    <3> QED  BY <1>0, <1>a, <3>1
  <2> QED  BY <2>1, <2>2
<1> QED  BY <1>1, <1>3, <1>5, <1>6, <1>7, SenderKept

\* A Run that waits for room in the channel that only it empties (hub.go:135)
\* waits for ever: no other goroutine makes room for it.
THEOREM BlockedRunStaysBlocked == Spec => [][RunBlocked => RunBlocked']_vars
<1>1. Init => InSnapshot
  BY DEF Init, InSnapshot, Idle
<1>2. TypeInv /\ InSnapshot /\ [Next]_vars => InSnapshot'
  BY InSnapshotStep
<1>3. ASSUME TypeInv, InSnapshot, [Next]_vars, RunBlocked
      PROVE  RunBlocked'
  <2>0. /\ sender \in [Sender -> SenderRow] /\ Run \in Sender /\ Run \notin Worker
        /\ sender[Run].pc = "unregister" /\ sender[Run].conns # {}
        /\ Len(unregister) = UnregisterCap
        /\ Busy(Run)
    <3>1. sender \in [Sender -> SenderRow] /\ Run \in Sender /\ Run \notin Worker
      BY <1>3, NilAssumption DEF TypeInv, TypeOK, Sender
    <3>2. sender[Run].pc = "unregister" /\ Len(unregister) = UnregisterCap
      BY <1>3 DEF RunBlocked
    <3>3. sender[Run].conns # {}
      BY <1>3, <3>1, <3>2 DEF InSnapshot
    <3>4. Busy(Run)
      BY <3>2, IdleType DEF Busy
    <3> QED  BY <3>1, <3>2, <3>3, <3>4
  <2>a. ~(Len(unregister) < UnregisterCap)
    BY <2>0, Capacities
  <2>1. sender'[Run] = sender[Run]
    <3>1. CASE UNCHANGED sender
      BY <3>1
    <3>2. ASSUME NEW s \in Sender, SendStep(s), s # Run
          PROVE  sender'[Run] = sender[Run]
      BY <2>0, <3>2 DEF SendStep, Snapshot, Send, ForceClose, Unregister, Sending, Panic
    <3>3. ~SendStep(Run)
      <4>1. \A u \in User : ~Snapshot(Run, u)
        BY <2>0 DEF Snapshot
      <4>2. \A c \in Conn : ~Send(Run, c)
        BY <2>0 DEF Send
      <4>3. ~ForceClose(Run) /\ ~Unregister(Run)
        BY <2>0, <2>a DEF ForceClose, Unregister
      <4> QED  BY <4>1, <4>2, <4>3 DEF SendStep
    <3>4. ASSUME NEW w \in Worker, NEW u \in User, Notify(w, u) \/ FireBadge(w, u)
          PROVE  sender'[Run] = sender[Run]
      BY <2>0, <3>4 DEF Notify, FireBadge, Sending
    <3>5. ~RunUnregister /\ ~RunInbound
      BY <2>0 DEF RunUnregister, RunInbound
    <3> QED  BY <1>3, <3>1, <3>2, <3>3, <3>4, <3>5, SenderKept
  <2>2. UNCHANGED unregister
    <3>1. ASSUME NEW u \in User, BeginIssue(u) \/ Ban(u) \/ EndStep(u)
          PROVE  UNCHANGED unregister
      BY <3>1 DEF BeginIssue, Ban, EndStep, RevokeUser, BeginDisconnect, Disconnect, Ending, hubChans
    <3>2. ASSUME NEW c \in Conn, ReaderStep(c) \/ Write(c) \/ CloseSocket(c) \/ Drop(c)
          PROVE  UNCHANGED unregister
      BY <2>a, <3>2
      DEF ReaderStep, Accept, Refuse, Leave, Write, CloseSocket, Drop, Client, hubChans
    <3>3. ASSUME NEW t \in Ticket,
                 \/ Expire(t)
                 \/ \E u \in User : Issue(u, t)
                 \/ \E c \in Conn : Connect(t, c)
          PROVE  UNCHANGED unregister
      BY <3>3 DEF Issue, Expire, Connect, hubChans
    <3>4. ASSUME NEW c \in Conn, NEW m \in Message, Read(c, m)
          PROVE  UNCHANGED unregister
      BY <3>4 DEF Read
    <3>5. ~RunStep
      BY <2>0 DEF RunStep, RunRegister, RunUnregister, RunInbound
    <3>6. ASSUME NEW s \in Sender, SendStep(s)
          PROVE  UNCHANGED unregister
      BY <2>a, <3>6 DEF SendStep, Snapshot, Send, ForceClose, Unregister
    <3>7. ASSUME NEW w \in Worker, NEW u \in User, Notify(w, u) \/ FireBadge(w, u)
          PROVE  UNCHANGED unregister
      BY <3>7 DEF Notify, FireBadge, hubChans
    <3>8. CASE UNCHANGED vars
      BY <3>8 DEF vars
    <3> QED  BY <1>3, <3>1, <3>2, <3>3, <3>4, <3>5, <3>6, <3>7, <3>8 DEF Next
  <2> QED  BY <2>0, <2>1, <2>2 DEF RunBlocked
<1> QED  BY <1>1, <1>2, <1>3, TypeInvariant, PTL DEF Spec
=============================================================================
