---------------------------- MODULE WebClientProofs ---------------------------
(***************************************************************************)
(* The web client for any number of people, tokens, screens, sockets and   *)
(* requests in flight: one thing drives the connection, the socket, the    *)
(* profile and the cache belong to whoever is signed in.                   *)
(***************************************************************************)
EXTENDS WebClient, TLAPS

\* What the manager holds is of its current generation and still listening;
\* nothing carries a stamp from the future.
Stamped ==
    /\ \A k \in tickets : k.generation <= generation
    /\ \A i \in SocketIds : sockets[i].heard => sockets[i].ready # "closed"
    /\ socket # None => sockets[socket].heard /\ sockets[socket].generation = generation

SocketInv ==
    /\ Socket!SocketTypeOK /\ Stamped
    /\ OneDriver /\ NoOrphan /\ StateTellsTruth

-----------------------------------------------------------------------------
(* The manager, one operation at a time *)

LEMMA SocketStarts ==
    /\ Socket!SocketInit => SocketInv
    /\ Forget => SocketInv'
<1> USE DelaysAssumption, IdsAssumption DEF SocketInv, Stamped
<1>1. ASSUME Socket!SocketInit PROVE SocketInv
  <2> USE <1>1 DEF Socket!SocketInit, Socket!Gone
  <2>1. Socket!SocketTypeOK /\ Stamped
    BY DEF Socket!SocketTypeOK, Socket!States
  <2>2. OneDriver /\ NoOrphan /\ StateTellsTruth
    BY DEF OneDriver, NoOrphan, StateTellsTruth, Socket!OneDriver, Socket!NoOrphan,
           Socket!StateTellsTruth, Socket!Attempts, Socket!Heard
  <2> QED
    BY <2>1, <2>2
<1>2. ASSUME Forget PROVE SocketInv'
  <2> USE <1>2 DEF Forget, Socket!Gone
  <2>1. Socket!SocketTypeOK' /\ Stamped'
    BY DEF Socket!SocketTypeOK, Socket!States
  <2>2. OneDriver' /\ NoOrphan' /\ StateTellsTruth'
    BY DEF OneDriver, NoOrphan, StateTellsTruth, Socket!OneDriver, Socket!NoOrphan,
           Socket!StateTellsTruth, Socket!Attempts, Socket!Heard
  <2> QED
    BY <2>1, <2>2
<1> QED
  BY <1>1, <1>2

LEMMA Joins ==
    ASSUME SocketInv, NEW c \in Subscribers, NEW cred \in Tokens \cup {None}, Socket!Join(c, cred)
    PROVE  SocketInv'
<1> USE DelaysAssumption, IdsAssumption DEF SocketInv, Stamped, Socket!Join
<1>1. Socket!SocketTypeOK'
  BY DEF Socket!SocketTypeOK, Socket!States
<1>2. Stamped'
  <2>1. subscribers = {} => socket = None
    BY DEF Socket!SocketTypeOK, OneDriver, Socket!OneDriver, Socket!Heard
  <2> QED
    BY <2>1 DEF Socket!SocketTypeOK
<1>3. OneDriver'
  <2>1. CASE subscribers = {}
    <3>1. Socket!Heard' = {} /\ Socket!Attempts = {} /\ timer = None
      BY <2>1 DEF OneDriver, Socket!OneDriver, Socket!Heard
    <3> DEFINE k == [generation |-> generation + 1, as |-> cred]
    <3>2. Socket!Attempts' = {k} /\ k \in tickets' /\ subscribers' # {} /\ timer' = None
      BY <2>1, <3>1 DEF Socket!SocketTypeOK, Socket!Attempts
    <3> QED
      BY <3>1, <3>2 DEF OneDriver, Socket!OneDriver
  <2>2. CASE subscribers # {}
    BY <2>2 DEF OneDriver, Socket!OneDriver, Socket!Attempts, Socket!Heard
  <2> QED
    BY <2>1, <2>2
<1>4. NoOrphan'
  BY DEF NoOrphan, Socket!NoOrphan
<1>5. StateTellsTruth'
  <2>1. CASE subscribers = {}
    <3>1. socket = None /\ timer = None
      BY <2>1 DEF Socket!SocketTypeOK, OneDriver, Socket!OneDriver, Socket!Heard
    <3> QED
      BY <2>1, <3>1 DEF StateTellsTruth, Socket!StateTellsTruth
  <2>2. CASE subscribers # {}
    BY <2>2 DEF StateTellsTruth, Socket!StateTellsTruth
  <2> QED
    BY <2>1, <2>2
<1> QED
  BY <1>1, <1>2, <1>3, <1>4, <1>5

LEMMA Leaves ==
    ASSUME SocketInv, NEW C, Socket!Leave(C)
    PROVE  SocketInv'
<1> USE DelaysAssumption, IdsAssumption DEF SocketInv, Stamped, Socket!Leave
<1>1. CASE C # subscribers
  <2>1. subscribers # {} /\ subscribers' # {} /\ subscribers' \subseteq Subscribers
        /\ UNCHANGED <<generation, tickets, timer, sockets, socket, connectionState, retryDelay>>
    BY <1>1 DEF Socket!SocketTypeOK
  <2>2. Socket!SocketTypeOK' /\ Stamped'
    BY <2>1 DEF Socket!SocketTypeOK
  <2>3. OneDriver' /\ NoOrphan' /\ StateTellsTruth'
    BY <2>1 DEF OneDriver, NoOrphan, StateTellsTruth, Socket!OneDriver, Socket!NoOrphan,
                Socket!StateTellsTruth, Socket!Attempts, Socket!Heard
  <2> QED
    BY <2>2, <2>3
<1>2. CASE C = subscribers
  <2>1. /\ subscribers' = {} /\ generation' = generation + 1 /\ timer' = None /\ socket' = None
        /\ connectionState' = "disconnected" /\ tickets' = tickets /\ retryDelay' = retryDelay
    BY <1>2 DEF Socket!Stop
  <2>2. sockets' = [i \in SocketIds |->
                         IF i = socket
                         THEN [sockets[i] EXCEPT !.heard = FALSE, !.ready = "closing"]
                         ELSE sockets[i]]
    BY <1>2 DEF Socket!Stop
  <2>3. sockets' \in [SocketIds -> [ready : {"connecting", "open", "closing", "closed"},
                                    generation : Nat,
                                    as : Tokens \cup {None} \cup {None}, heard : BOOLEAN]]
    BY <2>2 DEF Socket!SocketTypeOK
  <2>4. \A i \in SocketIds : /\ i = socket => sockets'[i].ready = "closing" /\ ~sockets'[i].heard
                             /\ i # socket => sockets'[i] = sockets[i]
    BY <2>2 DEF Socket!SocketTypeOK
  <2>5. Socket!SocketTypeOK'
    BY <2>1, <2>3 DEF Socket!SocketTypeOK, Socket!States
  <2>6. \A i \in SocketIds : ~sockets'[i].heard
    BY <2>4 DEF Socket!SocketTypeOK, OneDriver, Socket!OneDriver, Socket!Heard
  <2>7. \A k \in tickets' : k.generation \in Nat /\ k.generation <= generation /\ generation \in Nat
    BY <2>1 DEF Socket!SocketTypeOK
  <2>8. Stamped'
    BY <2>1, <2>6, <2>7
  <2>9. Socket!Attempts' = {} /\ Socket!Heard' = {}
    BY <2>1, <2>6, <2>7 DEF Socket!Attempts, Socket!Heard
  <2>10. OneDriver'
    BY <2>1, <2>9 DEF OneDriver, Socket!OneDriver
  <2>11. NoOrphan'
    BY <2>4 DEF NoOrphan, Socket!NoOrphan
  <2>12. StateTellsTruth'
    BY <2>1 DEF StateTellsTruth, Socket!StateTellsTruth
  <2> QED
    BY <2>5, <2>8, <2>10, <2>11, <2>12
<1> QED
  BY <1>1, <1>2

\* An attempt that is still wanted is the only driver.
LEMMA WantedIsDriver ==
    ASSUME SocketInv, NEW k \in tickets, Socket!Wanted(k.generation)
    PROVE  Socket!Attempts = {k} /\ Socket!Heard = {} /\ timer = None /\ socket = None
<1>1. k \in Socket!Attempts /\ subscribers # {}
  BY DEF Socket!Wanted, Socket!Attempts
<1>2. Socket!Attempts = {k} /\ Socket!Heard = {} /\ timer = None
  BY <1>1 DEF SocketInv, OneDriver, Socket!OneDriver
<1> QED
  BY <1>2 DEF SocketInv, Socket!SocketTypeOK, Stamped, Socket!Heard

LEMMA TicketUsed ==
    ASSUME SocketInv, NEW k \in tickets, Socket!TicketArrives(k)
    PROVE  SocketInv'
<1> USE DelaysAssumption, IdsAssumption DEF SocketInv, Socket!TicketArrives
<1>1. CASE ~Socket!Wanted(k.generation)
  <2>1. UNCHANGED <<subscribers, generation, timer, sockets, socket, connectionState, retryDelay>>
        /\ tickets' = tickets \ {k}
    BY <1>1
  <2>2. Socket!Attempts' = Socket!Attempts
    <3>1. subscribers = {} => Socket!Attempts = {}
      BY DEF OneDriver, Socket!OneDriver
    <3>2. k \notin Socket!Attempts
      BY <1>1, <3>1 DEF Socket!Wanted, Socket!Attempts
    <3> QED
      BY <2>1, <3>2 DEF Socket!Attempts
  <2>3. Socket!SocketTypeOK' /\ Stamped'
    BY <2>1 DEF Socket!SocketTypeOK, Stamped
  <2>4. OneDriver'
    BY <2>1, <2>2 DEF OneDriver, Socket!OneDriver, Socket!Heard, Socket!Attempts
  <2>5. NoOrphan' /\ StateTellsTruth'
    BY <2>1 DEF NoOrphan, StateTellsTruth, Socket!NoOrphan, Socket!StateTellsTruth
  <2> QED
    BY <2>3, <2>4, <2>5
<1>2. CASE Socket!Wanted(k.generation)
  <2> DEFINE fresh == [ready |-> "connecting", generation |-> generation,
                       as |-> k.as, heard |-> TRUE]
  <2>1. PICK i \in SocketIds :
          /\ sockets[i].ready = "closed"
          /\ sockets' = [sockets EXCEPT ![i] = fresh] /\ socket' = i
    BY <1>2 DEF Socket!Free, Socket!Wanted
  <2>2. Socket!Attempts = {k} /\ Socket!Heard = {} /\ timer = None /\ subscribers # {} /\ socket = None
    BY <1>2, WantedIsDriver DEF Socket!Wanted
  <2>3. fresh \in [ready : {"connecting", "open", "closing", "closed"},
                   generation : Nat, as : Tokens \cup {None} \cup {None}, heard : BOOLEAN]
    BY DEF Socket!SocketTypeOK
  <2>4. sockets'[i] = fresh /\ (\A j \in SocketIds \ {i} : sockets'[j] = sockets[j])
    BY <2>1 DEF Socket!SocketTypeOK
  <2> HIDE DEF fresh
  <2>5. Socket!SocketTypeOK'
    BY <2>1, <2>3 DEF Socket!SocketTypeOK
  <2>6. fresh.ready = "connecting" /\ fresh.generation = generation /\ fresh.heard
    BY DEF fresh
  <2>7. Stamped'
    BY <2>1, <2>4, <2>6 DEF Stamped, Socket!SocketTypeOK
  <2>8. Socket!Attempts' = {}
    BY <2>2 DEF Socket!Attempts
  <2>9. Socket!Heard' = {i}
    BY <2>2, <2>4, <2>6 DEF Socket!Heard
  <2>10. OneDriver'
    BY <2>1, <2>2, <2>8, <2>9 DEF OneDriver, Socket!OneDriver
  <2>11. NoOrphan'
    BY <2>1, <2>2, <2>4 DEF NoOrphan, Socket!NoOrphan
  <2>12. StateTellsTruth'
    BY <2>1, <2>2, <2>4, <2>6 DEF StateTellsTruth, Socket!StateTellsTruth
  <2> QED
    BY <2>5, <2>7, <2>10, <2>11, <2>12
<1> QED
  BY <1>1, <1>2

LEMMA DoubledInRange ==
    ASSUME Socket!SocketTypeOK
    PROVE  Socket!Doubled \in MinDelay .. MaxDelay
BY DelaysAssumption DEF Socket!SocketTypeOK, Socket!Doubled

LEMMA TicketDenied ==
    ASSUME SocketInv, NEW k \in tickets, Socket!TicketFails(k)
    PROVE  SocketInv'
<1> USE IdsAssumption DEF SocketInv, Socket!TicketFails, Socket!ScheduleReconnect
<1>1. CASE ~Socket!Wanted(k.generation)
  <2>1. UNCHANGED <<subscribers, generation, timer, sockets, socket, connectionState, retryDelay>>
        /\ tickets' = tickets \ {k}
    BY <1>1
  <2>2. Socket!Attempts' = Socket!Attempts
    <3>1. subscribers = {} => Socket!Attempts = {}
      BY DEF OneDriver, Socket!OneDriver
    <3>2. k \notin Socket!Attempts
      BY <1>1, <3>1 DEF Socket!Wanted, Socket!Attempts
    <3> QED
      BY <2>1, <3>2 DEF Socket!Attempts
  <2>3. Socket!SocketTypeOK' /\ Stamped'
    BY <2>1 DEF Socket!SocketTypeOK, Stamped
  <2>4. OneDriver'
    BY <2>1, <2>2 DEF OneDriver, Socket!OneDriver, Socket!Heard, Socket!Attempts
  <2>5. NoOrphan' /\ StateTellsTruth'
    BY <2>1 DEF NoOrphan, StateTellsTruth, Socket!NoOrphan, Socket!StateTellsTruth
  <2> QED
    BY <2>3, <2>4, <2>5
<1>2. CASE Socket!Wanted(k.generation)
  <2>1. /\ tickets' = tickets \ {k} /\ timer' = generation
        /\ connectionState' = "reconnecting" /\ retryDelay' = Socket!Doubled
        /\ UNCHANGED <<subscribers, generation, sockets, socket>>
    BY <1>2 DEF Socket!Wanted
  <2>2. Socket!Attempts = {k} /\ Socket!Heard = {} /\ subscribers # {} /\ socket = None
    BY <1>2, WantedIsDriver DEF Socket!Wanted
  <2>3. Socket!SocketTypeOK' /\ Stamped'
    BY <2>1, DoubledInRange DEF Socket!SocketTypeOK, Socket!States, Stamped
  <2>4. Socket!Attempts' = {} /\ Socket!Heard' = {}
    BY <2>1, <2>2 DEF Socket!Attempts, Socket!Heard
  <2>5. OneDriver'
    BY <2>1, <2>2, <2>4 DEF OneDriver, Socket!OneDriver
  <2>6. NoOrphan'
    BY <2>1 DEF NoOrphan, Socket!NoOrphan
  <2>7. StateTellsTruth'
    BY <2>1, <2>2 DEF StateTellsTruth, Socket!StateTellsTruth, Socket!SocketTypeOK
  <2> QED
    BY <2>3, <2>5, <2>6, <2>7
<1> QED
  BY <1>1, <1>2

LEMMA Retries ==
    ASSUME SocketInv, NEW cred \in Tokens \cup {None}, Socket!TimerFires(cred)
    PROVE  SocketInv'
<1> USE IdsAssumption DEF SocketInv, Socket!TimerFires
<1> DEFINE k == [generation |-> generation, as |-> cred]
<1>1. Socket!Attempts = {} /\ Socket!Heard = {} /\ timer = generation /\ subscribers # {}
  BY DEF OneDriver, Socket!OneDriver
<1>2. socket = None
  BY <1>1 DEF Socket!SocketTypeOK, Stamped, Socket!Heard
<1>3. /\ timer' = None /\ connectionState' = "connecting" /\ tickets' = tickets \cup {k}
      /\ UNCHANGED <<subscribers, generation, sockets, socket, retryDelay>>
  BY <1>1 DEF Socket!Wanted
<1>4. k \in [generation : Nat, as : Tokens \cup {None}] /\ k.generation = generation
  BY DEF Socket!SocketTypeOK
<1> HIDE DEF k
<1>5. Socket!SocketTypeOK' /\ Stamped'
  BY <1>3, <1>4 DEF Socket!SocketTypeOK, Socket!States, Stamped
<1>6. Socket!Attempts' = {k} /\ Socket!Heard' = {} /\ k \in tickets'
  BY <1>1, <1>3, <1>4 DEF Socket!Attempts, Socket!Heard
<1>7. OneDriver'
  BY <1>1, <1>3, <1>6 DEF OneDriver, Socket!OneDriver
<1>8. NoOrphan'
  BY <1>3 DEF NoOrphan, Socket!NoOrphan
<1>9. StateTellsTruth'
  BY <1>1, <1>2, <1>3 DEF StateTellsTruth, Socket!StateTellsTruth
<1> QED
  BY <1>5, <1>7, <1>8, <1>9

\* A socket that lives is the manager's, and nothing else drives.
LEMMA LiveSocketDrives ==
    ASSUME SocketInv, NEW i \in SocketIds,
           sockets[i].heard \/ sockets[i].ready \in {"connecting", "open"}
    PROVE  /\ i = socket /\ sockets[i].heard /\ sockets[i].generation = generation
           /\ Socket!Attempts = {} /\ Socket!Heard = {i} /\ timer = None /\ subscribers # {}
<1> USE IdsAssumption DEF SocketInv, Socket!Heard
<1>1. sockets[i].heard
  BY DEF NoOrphan, Socket!NoOrphan, Stamped
<1>2. i = socket /\ Socket!Attempts = {} /\ Socket!Heard = {i} /\ timer = None /\ subscribers # {}
  BY <1>1 DEF OneDriver, Socket!OneDriver, Socket!Attempts
<1> QED
  BY <1>1, <1>2 DEF Stamped

LEMMA SocketOpens ==
    ASSUME SocketInv, NEW i \in SocketIds, Socket!Opens(i)
    PROVE  SocketInv'
<1> USE IdsAssumption, DelaysAssumption DEF SocketInv
<1>1. /\ i = socket /\ sockets[i].heard /\ sockets[i].generation = generation
      /\ Socket!Attempts = {} /\ Socket!Heard = {i} /\ timer = None /\ subscribers # {}
  BY LiveSocketDrives DEF Socket!Opens
<1>2. /\ sockets' = [sockets EXCEPT ![i].ready = "open"]
      /\ connectionState' = "connected" /\ retryDelay' = MinDelay
      /\ UNCHANGED <<subscribers, generation, tickets, timer, socket>>
  BY <1>1 DEF Socket!Opens
<1>3. /\ sockets'[i].ready = "open" /\ sockets'[i].heard /\ sockets'[i].generation = generation
      /\ \A j \in SocketIds : j # i => sockets'[j] = sockets[j]
  BY <1>1, <1>2 DEF Socket!SocketTypeOK
<1>4. Socket!SocketTypeOK'
  BY <1>2 DEF Socket!SocketTypeOK, Socket!States
<1>5. Stamped'
  BY <1>1, <1>2, <1>3 DEF Stamped
<1>6. Socket!Attempts' = {} /\ Socket!Heard' = {i}
  BY <1>1, <1>2, <1>3 DEF Socket!Attempts, Socket!Heard
<1>7. OneDriver'
  BY <1>1, <1>2, <1>6 DEF OneDriver, Socket!OneDriver
<1>8. NoOrphan'
  BY <1>1, <1>2, <1>3 DEF NoOrphan, Socket!NoOrphan
<1>9. StateTellsTruth'
  BY <1>1, <1>2, <1>3 DEF StateTellsTruth, Socket!StateTellsTruth
<1> QED
  BY <1>4, <1>5, <1>7, <1>8, <1>9

LEMMA SocketErrs ==
    ASSUME SocketInv, NEW i \in SocketIds, Socket!Errs(i)
    PROVE  SocketInv'
<1> USE IdsAssumption DEF SocketInv
<1>1. /\ i = socket /\ sockets[i].heard /\ sockets[i].generation = generation
      /\ Socket!Attempts = {} /\ Socket!Heard = {i} /\ timer = None /\ subscribers # {}
  BY LiveSocketDrives DEF Socket!Errs
<1>2. /\ sockets' = [sockets EXCEPT ![i].ready = "closing"]
      /\ UNCHANGED <<subscribers, generation, tickets, timer, socket, connectionState, retryDelay>>
  BY <1>1 DEF Socket!Errs
<1>3. /\ sockets'[i].ready = "closing" /\ sockets'[i].heard /\ sockets'[i].generation = generation
      /\ \A j \in SocketIds : j # i => sockets'[j] = sockets[j]
  BY <1>1, <1>2 DEF Socket!SocketTypeOK
<1>4. Socket!SocketTypeOK'
  BY <1>2 DEF Socket!SocketTypeOK
<1>5. Stamped'
  BY <1>1, <1>2, <1>3 DEF Stamped
<1>6. Socket!Attempts' = {} /\ Socket!Heard' = {i}
  BY <1>1, <1>2, <1>3 DEF Socket!Attempts, Socket!Heard
<1>7. OneDriver'
  BY <1>1, <1>2, <1>6 DEF OneDriver, Socket!OneDriver
<1>8. NoOrphan'
  BY <1>1, <1>2, <1>3 DEF NoOrphan, Socket!NoOrphan
<1>9. StateTellsTruth'
  BY <1>1, <1>2, <1>3 DEF StateTellsTruth, Socket!StateTellsTruth
<1> QED
  BY <1>4, <1>5, <1>7, <1>8, <1>9

LEMMA SocketCloses ==
    ASSUME SocketInv, NEW i \in SocketIds, Socket!Closes(i)
    PROVE  SocketInv'
<1> USE IdsAssumption DEF SocketInv
<1>1. /\ sockets' = [sockets EXCEPT ![i] = Socket!Gone]
      /\ UNCHANGED <<subscribers, generation, tickets>>
  BY DEF Socket!Closes
<1>2. /\ sockets'[i].ready = "closed" /\ ~sockets'[i].heard
      /\ \A j \in SocketIds : j # i => sockets'[j] = sockets[j]
  BY <1>1 DEF Socket!SocketTypeOK, Socket!Gone
<1>3. sockets' \in [SocketIds -> [ready : {"connecting", "open", "closing", "closed"},
                                  generation : Nat,
                                  as : Tokens \cup {None} \cup {None}, heard : BOOLEAN]]
  BY <1>1 DEF Socket!SocketTypeOK, Socket!Gone
<1>4. CASE ~sockets[i].heard
  <2>1. UNCHANGED <<subscribers, generation, tickets, timer, socket, connectionState, retryDelay>>
    BY <1>1, <1>4 DEF Socket!Closes
  <2>2. i # socket
    BY <1>4 DEF Stamped
  <2>3. Socket!SocketTypeOK'
    BY <1>3, <2>1 DEF Socket!SocketTypeOK
  <2>4. Stamped'
    BY <1>2, <2>1, <2>2 DEF Stamped, Socket!SocketTypeOK
  <2>5. Socket!Attempts' = Socket!Attempts /\ Socket!Heard' = Socket!Heard
    BY <1>2, <1>4, <2>1 DEF Socket!Attempts, Socket!Heard
  <2>6. OneDriver'
    BY <2>1, <2>5 DEF OneDriver, Socket!OneDriver
  <2>7. NoOrphan'
    BY <1>2, <2>1, <2>2 DEF NoOrphan, Socket!NoOrphan
  <2>8. StateTellsTruth'
    BY <1>2, <2>1, <2>2 DEF StateTellsTruth, Socket!StateTellsTruth, Socket!SocketTypeOK
  <2> QED
    BY <2>3, <2>4, <2>6, <2>7, <2>8
<1>5. CASE sockets[i].heard
  <2>1. /\ i = socket /\ sockets[i].generation = generation
        /\ Socket!Attempts = {} /\ Socket!Heard = {i} /\ timer = None /\ subscribers # {}
    BY <1>5, LiveSocketDrives
  <2>2. /\ socket' = None /\ connectionState' = "reconnecting"
        /\ retryDelay' = Socket!Doubled /\ timer' = generation
    BY <1>5, <2>1 DEF Socket!Closes, Socket!ScheduleReconnect, Socket!Wanted
  <2>3. Socket!SocketTypeOK'
    BY <1>1, <1>3, <2>2, DoubledInRange DEF Socket!SocketTypeOK, Socket!States
  <2>4. Stamped'
    BY <1>1, <1>2, <2>2 DEF Stamped
  <2>5. Socket!Attempts' = {} /\ Socket!Heard' = {}
    BY <1>1, <1>2, <2>1 DEF Socket!Attempts, Socket!Heard
  <2>6. OneDriver'
    BY <1>1, <2>1, <2>2, <2>5 DEF OneDriver, Socket!OneDriver
  <2>7. NoOrphan'
    BY <1>1, <1>2, <2>1, <2>2 DEF NoOrphan, Socket!NoOrphan
  <2>8. StateTellsTruth'
    BY <1>1, <2>1, <2>2 DEF StateTellsTruth, Socket!StateTellsTruth, Socket!SocketTypeOK
  <2> QED
    BY <2>3, <2>4, <2>6, <2>7, <2>8
<1> QED
  BY <1>4, <1>5

LEMMA SocketIdles ==
    ASSUME SocketInv, SocketIdle
    PROVE  SocketInv'
BY DEF SocketInv, SocketIdle, socketVars, Stamped, OneDriver, NoOrphan, StateTellsTruth,
       Socket!SocketTypeOK, Socket!OneDriver, Socket!NoOrphan, Socket!StateTellsTruth,
       Socket!Attempts, Socket!Heard

LEMMA Follows ==
    ASSUME SocketInv, api \in Tokens \cup {None}, Follow
    PROVE  SocketInv'
BY IdsAssumption, Joins, Leaves, SocketIdles DEF Follow

\* Every step of the client is one operation of the manager, or none.
LEMMA SocketStep ==
    ASSUME SocketInv, api \in Tokens \cup {None}, [Next]_vars
    PROVE  SocketInv'
<1>1. ASSUME Screens \/ World PROVE SocketInv'
  BY <1>1, SocketIdles DEF Screens, World
<1>2. ASSUME Network PROVE SocketInv'
  BY <1>2, SocketIdles, SocketStarts DEF Network, Rejected
<1>3. ASSUME Commit \/ Logout PROVE SocketInv'
  BY <1>3, Follows DEF Commit, Logout
<1>4. ASSUME Reload PROVE SocketInv'
  BY <1>4, SocketStarts DEF Reload
<1>5. ASSUME Events PROVE SocketInv'
  BY <1>5, Retries, SocketOpens, SocketErrs, SocketCloses DEF Events
<1>6. ASSUME NEW c \in Subscribers, ChatPage(c) PROVE SocketInv'
  BY <1>6, Joins, Leaves DEF ChatPage
<1>7. ASSUME NEW k \in tickets, TicketArrives(k) PROVE SocketInv'
  BY <1>7, TicketUsed DEF TicketArrives
<1>8. ASSUME NEW k \in tickets, TicketFails(k) PROVE SocketInv'
  BY <1>8, TicketDenied DEF TicketFails
<1>9. ASSUME NEW k \in tickets, TicketRejected(k) PROVE SocketInv'
  BY <1>9, TicketDenied, SocketStarts DEF TicketRejected
<1>10. ASSUME UNCHANGED vars PROVE SocketInv'
  BY <1>10, SocketIdles DEF vars, SocketIdle
<1> QED
  BY <1>1, <1>2, <1>3, <1>4, <1>5, <1>6, <1>7, <1>8, <1>9, <1>10 DEF Next

-----------------------------------------------------------------------------
(* Who is signed in *)

\* The client, React and localStorage hold one token; what was rendered last
\* is that session or one that has ended; every request carries a token that
\* was handed out, and not the one of a session that is yet to be rendered.
Loyal ==
    /\ api = token /\ disk.token = token
    /\ seen.token # None => token \in {seen.token, None}
    /\ {token, seen.token} \subseteq issued \cup {None}
    /\ \A r \in flight :
          /\ r.sent \in issued \cup {None}
          /\ r.good => r.sent # None
          /\ r.kind = "getMe" => r.by = r.sent /\ r.sent # None
          /\ r.kind = "update" => r.by = r.sent
          /\ seen.token = None /\ token # None => r.sent # token

\* Until refreshUser() mixes two sessions the profile is the token's, the
\* cache belongs to whom was rendered last, and so will every query answered.
Unmixed ==
    ~mixed =>
        /\ token # None => user = Session!Owner(token) /\ disk.user = user
        /\ seen.token # None => seen.user = Session!Owner(seen.token)
        /\ \A k \in Session!Keys : cache[k] \in {None, seen.user}
        /\ \A r \in flight : r.kind = "query" /\ r.good => Session!Owner(r.sent) = seen.user

SessionInv == Session!SessionTypeOK /\ Loyal /\ Unmixed

\* What a step of the client is to the session.
SessionMoves ==
    \/ \E k \in Session!Keys : Session!Fetch(k)
    \/ Session!RefreshUser \/ Session!UpdateMe \/ Session!SendMessage
    \/ \E t \in Tokens : Session!Login(t)
    \/ \E code \in Codes \cup {"unauthorized"} :
          /\ Session!Expired(code)
          /\ \/ cache' = Session!Empty /\ flight' = {}
             \/ code = "unauthorized" /\ cache' = cache /\ flight' = flight
          /\ UNCHANGED <<verdict, issued, mixed>>
    \/ \E t \in Tokens, c \in Codes : Session!Revoke(t, c)
    \/ \E r \in flight : Session!Answer(r) \/ Session!Fail(r) \/ Session!Reject(r)
    \/ Session!Commit \/ Session!Logout \/ Session!Reload
    \/ UNCHANGED sessionVars

LEMMA StepsOfTheSession ==
    ASSUME Session!SessionTypeOK, Socket!SocketTypeOK, [Next]_vars
    PROVE  SessionMoves
<1>1. ASSUME Screens \/ World \/ Network \/ Commit \/ Logout \/ Reload PROVE SessionMoves
  BY <1>1 DEF SessionMoves, Screens, World, Network, Rejected, Commit, Logout, Reload,
              Session!LoginRefused, Session!Focus
<1>2. ASSUME Events \/ (\E c \in Subscribers : ChatPage(c)) PROVE SessionMoves
  BY <1>2 DEF SessionMoves, Events, ChatPage, SessionIdle
<1>3. ASSUME NEW k \in tickets, TicketArrives(k) \/ TicketFails(k) PROVE SessionMoves
  BY <1>3 DEF SessionMoves, TicketArrives, TicketFails, SessionIdle
<1>4. ASSUME NEW k \in tickets, TicketRejected(k) PROVE SessionMoves
  <2>1. Session!Code(k.as) \in Codes \cup {"unauthorized"}
    BY <1>4 DEF TicketRejected, Session!Code, Session!SessionTypeOK, Session!Verdicts,
                Socket!SocketTypeOK
  <2> QED
    BY <1>4, <2>1 DEF TicketRejected, SessionMoves
<1>5. ASSUME UNCHANGED vars PROVE SessionMoves
  BY <1>5 DEF vars, SessionMoves
<1> QED
  BY <1>1, <1>2, <1>3, <1>4, <1>5 DEF Next

LEMMA RequestTyped ==
    ASSUME Session!SessionTypeOK, NEW kind \in Session!Kinds, NEW key \in Session!Keys,
           NEW by \in Tokens \cup {None}
    PROVE  /\ Session!Request(kind, key, by) \in Session!Requests
           /\ Session!Request(kind, key, by).kind = kind
           /\ Session!Request(kind, key, by).by = by
           /\ Session!Request(kind, key, by).sent = api
           /\ Session!Request(kind, key, by).good => api # None
BY DEF Session!SessionTypeOK, Session!Request, Session!Requests

LEMMA DropKeeps ==
    ASSUME Session!SessionTypeOK, NEW ks, NEW q \in Session!Drop(flight, ks)
    PROVE  /\ q \in Session!Requests
           /\ \E r \in flight : /\ q.sent = r.sent /\ q.by = r.by /\ q.good = r.good
                                /\ q.kind = r.kind \/ q.kind = "dropped"
                                /\ q.kind = "query" => r.key \notin ks
<1>1. PICK r \in flight :
         q = IF r.kind = "query" /\ r.key \in ks THEN [r EXCEPT !.kind = "dropped"] ELSE r
  BY DEF Session!Drop
<1>2. r \in Session!Requests
  BY DEF Session!SessionTypeOK
<1> QED
  BY <1>1, <1>2 DEF Session!Requests, Session!Kinds

LEMMA ExpiredTyped ==
    ASSUME Session!SessionTypeOK, NEW code, Session!Expired(code)
    PROVE  /\ api' = None /\ token' = None /\ user' = None
           /\ disk' = [token |-> None, user |-> None]
           /\ seen' \in [token : Tokens \cup {None}, user : Users \cup {None}] /\ hubo' \in BOOLEAN
           /\ seen' = seen \/ seen' = [token |-> None, user |-> None]
<1>1. /\ api' = None /\ token' = None /\ user' = None
      /\ disk' = [token |-> None, user |-> None]
  BY DEF Session!Expired, Session!NoSession
<1>2. \/ seen' = seen /\ hubo' = hubo
      \/ seen' = [token |-> None, user |-> None] /\ hubo' = FALSE
  BY DEF Session!Expired, Session!NoSession
<1>3. seen' \in [token : Tokens \cup {None}, user : Users \cup {None}] /\ hubo' \in BOOLEAN
  <2>1. CASE seen' = seen /\ hubo' = hubo
    BY <2>1 DEF Session!SessionTypeOK
  <2>2. CASE seen' = [token |-> None, user |-> None] /\ hubo' = FALSE
    BY <2>2
  <2> QED
    BY <1>2, <2>1, <2>2
<1> QED
  BY <1>1, <1>2, <1>3

LEMMA SessionTypeStep ==
    ASSUME Session!SessionTypeOK, SessionMoves
    PROVE  Session!SessionTypeOK'
<1> USE OwnersAssumption DEF Session!SessionTypeOK
<1>1. ASSUME NEW k \in Session!Keys, Session!Fetch(k) PROVE Session!SessionTypeOK'
  BY <1>1, RequestTyped DEF Session!Fetch, Session!Kinds
<1>2. ASSUME Session!RefreshUser PROVE Session!SessionTypeOK'
  BY <1>2, RequestTyped DEF Session!RefreshUser, Session!Kinds, Session!Keys
<1>3. ASSUME Session!UpdateMe PROVE Session!SessionTypeOK'
  BY <1>3, RequestTyped DEF Session!UpdateMe, Session!Kinds, Session!Keys
<1>4. ASSUME Session!SendMessage PROVE Session!SessionTypeOK'
  <2>1. flight' \subseteq Session!Requests
    BY <1>4, RequestTyped, DropKeeps DEF Session!SendMessage, Session!Kinds, Session!Keys
  <2>2. cache' \in [Session!Keys -> Users \cup {None}]
    BY <1>4 DEF Session!SendMessage
  <2> QED
    BY <1>4, <2>1, <2>2 DEF Session!SendMessage
<1>5. ASSUME NEW t \in Tokens, Session!Login(t) PROVE Session!SessionTypeOK'
  BY <1>5 DEF Session!Login
<1>6. ASSUME NEW code, Session!Expired(code), UNCHANGED <<verdict, issued, mixed>>,
             \/ cache' = Session!Empty /\ flight' = {}
             \/ cache' = cache /\ flight' = flight
      PROVE  Session!SessionTypeOK'
  BY <1>6, ExpiredTyped DEF Session!Empty
<1>7. ASSUME NEW t \in Tokens, NEW c \in Codes, Session!Revoke(t, c) PROVE Session!SessionTypeOK'
  BY <1>7 DEF Session!Revoke, Session!Verdicts
<1>8. ASSUME NEW r \in flight, Session!Answer(r) PROVE Session!SessionTypeOK'
  <2>1. r \in Session!Requests /\ Session!Owner(r.sent) \in Users \cup {None}
    BY DEF Session!Requests, Session!Owner
  <2>2. CASE r.kind = "query" \/ r.kind = "update"
    BY <1>8, <2>1, <2>2 DEF Session!Answer, Session!Deliver, Session!Keys, Session!StoreProfile
  <2>3. CASE r.kind \notin {"query", "update"}
    BY <1>8, <2>1, <2>3 DEF Session!Answer, Session!Deliver, Session!StoreProfile, Session!Stranger
  <2> QED
    BY <2>2, <2>3
<1>9. ASSUME NEW r \in flight, Session!Fail(r) PROVE Session!SessionTypeOK'
  BY <1>9 DEF Session!Fail, Session!RolledBack
<1>10. ASSUME NEW r \in flight, Session!Reject(r) PROVE Session!SessionTypeOK'
  <2>1. flight' \subseteq Session!Requests /\ cache' \in [Session!Keys -> Users \cup {None}]
    BY <1>10 DEF Session!Reject, Session!RolledBack, Session!Empty
  <2>2. Session!Expired(Session!Code(r.sent)) /\ UNCHANGED <<verdict, issued, mixed>>
    BY <1>10 DEF Session!Reject
  <2> QED
    BY <2>1, <2>2, ExpiredTyped
<1>11. ASSUME Session!Commit PROVE Session!SessionTypeOK'
  <2> DEFINE q == [Session!Request("getMe", "me", token) EXCEPT !.before = None]
  <2>1. q \in Session!Requests
    BY RequestTyped DEF Session!Requests, Session!Kinds, Session!Keys
  <2>2. Session!Drop(flight, Session!Keys) \subseteq Session!Requests
    BY DropKeeps
  <2>3. Session!Shown \in [token : Tokens \cup {None}, user : Users \cup {None}]
    BY DEF Session!Shown
  <2> HIDE DEF q
  <2>4. flight' \subseteq Session!Requests
    BY <1>11, <2>1, <2>2 DEF Session!Commit, Session!Effects, q
  <2>5. cache' \in [Session!Keys -> Users \cup {None}] /\ seen' = Session!Shown /\ hubo' \in BOOLEAN
    BY <1>11 DEF Session!Commit, Session!Effects, Session!Empty
  <2> QED
    BY <1>11, <2>3, <2>4, <2>5 DEF Session!Commit
<1>12. ASSUME Session!Logout PROVE Session!SessionTypeOK'
  <2>1. Session!Drop(flight, Session!Keys) \subseteq Session!Requests
    BY DropKeeps
  <2>2. flight' \subseteq Session!Requests
    BY <1>12, <2>1 DEF Session!Logout, Session!Effects, Session!NoSession
  <2>3. cache' \in [Session!Keys -> Users \cup {None}] /\ seen' = Session!NoSession /\ hubo' \in BOOLEAN
    BY <1>12 DEF Session!Logout, Session!Effects, Session!Empty
  <2> QED
    BY <1>12, <2>2, <2>3 DEF Session!Logout, Session!NoSession
<1>13. ASSUME Session!Reload PROVE Session!SessionTypeOK'
  BY <1>13 DEF Session!Reload, Session!NoSession, Session!Empty
<1>14. ASSUME UNCHANGED sessionVars PROVE Session!SessionTypeOK'
  BY <1>14 DEF sessionVars
<1> QED
  BY <1>1, <1>2, <1>3, <1>4, <1>5, <1>6, <1>7, <1>8, <1>9, <1>10, <1>11, <1>12, <1>13, <1>14
     DEF SessionMoves

LEMMA LoyalStep ==
    ASSUME Session!SessionTypeOK, Loyal, SessionMoves
    PROVE  Loyal'
<1> USE OwnersAssumption DEF Session!SessionTypeOK, Loyal
<1>1. ASSUME NEW k \in Session!Keys, Session!Fetch(k) PROVE Loyal'
  BY <1>1, RequestTyped DEF Session!Fetch, Session!Kinds
<1>2. ASSUME Session!RefreshUser PROVE Loyal'
  BY <1>2, RequestTyped DEF Session!RefreshUser, Session!Kinds, Session!Keys
<1>3. ASSUME Session!UpdateMe PROVE Loyal'
  BY <1>3, RequestTyped DEF Session!UpdateMe, Session!Kinds, Session!Keys
<1>4. ASSUME Session!SendMessage PROVE Loyal'
  <2> DEFINE q == Session!Request("send", "messages", api)
  <2>1. q.kind = "send" /\ q.sent = api /\ (q.good => api # None)
    BY RequestTyped DEF Session!Kinds, Session!Keys
  <2> HIDE DEF q
  <2>2. flight' = Session!Drop(flight, {"messages"}) \cup {q} /\ seen.token # None
        /\ UNCHANGED <<api, token, seen, disk, issued>>
    BY <1>4 DEF Session!SendMessage, q
  <2>3. \A r \in Session!Drop(flight, {"messages"}) :
          \E o \in flight : /\ r.sent = o.sent /\ r.by = o.by /\ r.good = o.good
                            /\ r.kind = o.kind \/ r.kind = "dropped"
    BY DropKeeps
  <2> QED
    BY <2>1, <2>2, <2>3
<1>5. ASSUME NEW t \in Tokens, Session!Login(t) PROVE Loyal'
  BY <1>5 DEF Session!Login, Session!OnForm
<1>6. ASSUME NEW code, Session!Expired(code), UNCHANGED <<verdict, issued, mixed>>,
             flight' \subseteq flight
      PROVE  Loyal'
  BY <1>6, ExpiredTyped
<1>7. ASSUME NEW t \in Tokens, NEW c \in Codes, Session!Revoke(t, c) PROVE Loyal'
  BY <1>7 DEF Session!Revoke
<1>8. ASSUME NEW r \in flight, Session!Answer(r) PROVE Loyal'
  <2>1. disk'.token = disk.token
    BY <1>8 DEF Session!Answer, Session!Deliver, Session!StoreProfile
  <2> QED
    BY <1>8, <2>1 DEF Session!Answer
<1>9. ASSUME NEW r \in flight, Session!Fail(r) PROVE Loyal'
  BY <1>9 DEF Session!Fail
<1>10. ASSUME NEW r \in flight, Session!Reject(r) PROVE Loyal'
  BY <1>6, <1>10 DEF Session!Reject
<1>11. ASSUME Session!Commit PROVE Loyal'
  <2> DEFINE q == [Session!Request("getMe", "me", token) EXCEPT !.before = None]
  <2>1. /\ q.kind = "getMe" /\ q.by = token /\ q.sent = api /\ (q.good => api # None)
    BY DEF Session!Request
  <2> HIDE DEF q
  <2>2. /\ flight' \subseteq flight \cup Session!Drop(flight, Session!Keys) \cup {q}
        /\ token # None \/ q \notin flight' \/ q \in flight \cup Session!Drop(flight, Session!Keys)
        /\ seen' = [token |-> token, user |-> user]
        /\ UNCHANGED <<api, token, disk, issued>>
    BY <1>11 DEF Session!Commit, Session!Effects, Session!Shown, q
  <2>3. \A r \in flight \cup Session!Drop(flight, Session!Keys) :
          \E o \in flight : /\ r.sent = o.sent /\ r.by = o.by /\ r.good = o.good
                            /\ r.kind = o.kind \/ r.kind = "dropped"
    BY DropKeeps
  <2> QED
    BY <2>1, <2>2, <2>3
<1>12. ASSUME Session!Logout PROVE Loyal'
  <2>1. /\ flight' \subseteq flight \cup Session!Drop(flight, Session!Keys)
        /\ seen' = [token |-> None, user |-> None] /\ disk' = seen'
        /\ api' = None /\ token' = None /\ issued' = issued
    BY <1>12 DEF Session!Logout, Session!Effects, Session!NoSession
  <2>2. \A r \in flight \cup Session!Drop(flight, Session!Keys) :
          \E o \in flight : /\ r.sent = o.sent /\ r.by = o.by /\ r.good = o.good
                            /\ r.kind = o.kind \/ r.kind = "dropped"
    BY DropKeeps
  <2> QED
    BY <2>1, <2>2
<1>13. ASSUME Session!Reload PROVE Loyal'
  BY <1>13 DEF Session!Reload, Session!NoSession
<1>14. ASSUME UNCHANGED sessionVars PROVE Loyal'
  BY <1>14 DEF sessionVars
<1> QED
  BY <1>1, <1>2, <1>3, <1>4, <1>5, <1>6, <1>7, <1>8, <1>9, <1>10, <1>11, <1>12, <1>13, <1>14
     DEF SessionMoves

LEMMA OwnerIsSomebody ==
    ASSUME NEW t \in Tokens
    PROVE  /\ Session!Owner(t) = OwnerOf[t] /\ Session!Owner(t) \in Users
           /\ Session!Owner(t) # None /\ t # None
BY OwnersAssumption DEF Session!Owner

\* What a commit does to the cache and to the queries, given that the rendered
\* user becomes u: another user's are emptied and dropped.
LEMMA EffectsUnmix ==
    ASSUME Session!SessionTypeOK, Unmixed, ~mixed, NEW s, NEW sent, Session!Effects(s, sent),
           sent.kind # "query" \/ s.token = None,
           \A r \in flight : r.good => r.sent \in Tokens
    PROVE  /\ \A k \in Session!Keys : cache'[k] \in {None, s.user}
           /\ \A r \in flight' : r.kind = "query" /\ r.good => Session!Owner(r.sent) = s.user
<1> DEFINE clears == s.user # seen.user /\ (seen.user # None \/ hubo)
           kept == IF clears THEN Session!Drop(flight, Session!Keys) ELSE flight
<1>1. \A r \in Session!Drop(flight, Session!Keys) : r.kind # "query"
  BY DEF Session!Drop, Session!SessionTypeOK, Session!Requests, Session!Kinds
<1>2. \A r \in flight' : r \in kept \/ r.kind # "query"
  BY DEF Session!Effects
<1>3. CASE clears
  <2>1. cache' = Session!Empty /\ kept = Session!Drop(flight, Session!Keys)
    BY <1>3 DEF Session!Effects
  <2> QED
    BY <1>1, <1>2, <2>1 DEF Session!Empty
<1>4. CASE ~clears
  <2>1. cache' = cache /\ kept = flight
    BY <1>4 DEF Session!Effects
  <2>2. s.user = seen.user \/ seen.user = None
    BY <1>4
  <2>3. seen.user = None => \A r \in flight : ~(r.kind = "query" /\ r.good)
    BY OwnerIsSomebody DEF Unmixed
  <2> QED
    BY <1>2, <2>1, <2>2, <2>3 DEF Unmixed
<1> QED
  BY <1>3, <1>4

LEMMA UnmixedStep ==
    ASSUME Session!SessionTypeOK, Loyal, Unmixed, SessionMoves
    PROVE  Unmixed'
<1> USE OwnersAssumption DEF Session!SessionTypeOK, Unmixed
<1>0. \A r \in flight : r \in Session!Requests /\ (r.good => r.sent \in Tokens)
  BY DEF Loyal, Session!Requests
<1>1. ASSUME NEW k \in Session!Keys, Session!Fetch(k) PROVE Unmixed'
  <2> DEFINE q == Session!Request("query", k, None)
  <2>1. q.sent = api /\ (q.good => api # None)
    BY RequestTyped DEF Session!Kinds
  <2> HIDE DEF q
  <2>2. flight' = flight \cup {q} /\ seen.token # None
        /\ UNCHANGED <<token, user, seen, cache, disk, mixed>>
    BY <1>1 DEF Session!Fetch, q
  <2>3. q.good => q.sent = seen.token
    BY <2>1, <2>2 DEF Loyal
  <2> QED
    BY <2>2, <2>3
<1>2. ASSUME Session!RefreshUser PROVE Unmixed'
  BY <1>2, RequestTyped DEF Session!RefreshUser, Session!Kinds, Session!Keys
<1>3. ASSUME Session!UpdateMe PROVE Unmixed'
  BY <1>3, RequestTyped DEF Session!UpdateMe, Session!Kinds, Session!Keys
<1>4. ASSUME Session!SendMessage PROVE Unmixed'
  <2> DEFINE q == Session!Request("send", "messages", api)
  <2>1. q.kind = "send"
    BY RequestTyped DEF Session!Kinds, Session!Keys
  <2> HIDE DEF q
  <2>2. flight' = Session!Drop(flight, {"messages"}) \cup {q}
        /\ UNCHANGED <<token, user, seen, disk, mixed>>
        /\ cache' = [cache EXCEPT !["messages"] = IF @ = None THEN seen.user ELSE @]
    BY <1>4 DEF Session!SendMessage, q
  <2>3. \A r \in Session!Drop(flight, {"messages"}) :
          \E o \in flight : /\ r.sent = o.sent /\ r.good = o.good
                            /\ r.kind = o.kind \/ r.kind = "dropped"
    BY DropKeeps
  <2> QED
    BY <2>1, <2>2, <2>3
<1>5. ASSUME NEW t \in Tokens, Session!Login(t) PROVE Unmixed'
  BY <1>5, OwnerIsSomebody DEF Session!Login, Session!OnForm
<1>6. ASSUME NEW code, Session!Expired(code), mixed' = mixed,
             \/ cache' = Session!Empty /\ flight' = {}
             \/ code = "unauthorized" /\ flight' \subseteq flight
                /\ \A k \in Session!Keys : cache'[k] \in {None, cache[k]}
      PROVE  Unmixed'
  <2>1. token' = None
    BY <1>6, ExpiredTyped
  <2>2. CASE cache' = Session!Empty /\ flight' = {}
    BY <1>6, <2>1, <2>2, ExpiredTyped DEF Session!Empty
  <2>3. CASE code = "unauthorized" /\ flight' \subseteq flight
                /\ \A k \in Session!Keys : cache'[k] \in {None, cache[k]}
    <3>1. seen' = seen
      BY <1>6, <2>3 DEF Session!Expired
    <3> QED
      BY <1>6, <2>1, <2>3, <3>1
  <2> QED
    BY <1>6, <2>2, <2>3
<1>7. ASSUME NEW t \in Tokens, NEW c \in Codes, Session!Revoke(t, c) PROVE Unmixed'
  BY <1>7 DEF Session!Revoke
<1>8. ASSUME NEW r \in flight, Session!Answer(r) PROVE Unmixed'
  <2> DEFINE whose == Session!Owner(r.sent)
  <2>1. /\ r.good /\ r.sent \in Tokens /\ flight' \subseteq flight
        /\ UNCHANGED <<token, seen>> /\ Session!Deliver(r)
    BY <1>0, <1>8 DEF Session!Answer
  <2>2. CASE r.kind = "query"
    BY <1>0, <2>1, <2>2 DEF Session!Deliver
  <2>3. CASE r.kind = "getMe"
    <3>1. CASE Session!Cancelled(r)
      BY <2>1, <2>3, <3>1 DEF Session!Deliver
    <3>2. CASE ~Session!Cancelled(r)
      <4>1. r.sent = seen.token
        BY <2>3, <3>2 DEF Session!Cancelled, Loyal
      <4>2. user' = whose /\ disk'.user = whose /\ UNCHANGED <<cache, mixed>>
        BY <2>1, <2>3, <3>2 DEF Session!Deliver, Session!StoreProfile
      <4> QED
        BY <2>1, <4>1, <4>2 DEF Loyal
    <3> QED
      BY <3>1, <3>2
  <2>4. CASE r.kind = "refresh"
    BY <2>1, <2>4 DEF Session!Deliver, Session!StoreProfile, Session!Stranger
  <2>5. CASE r.kind = "update"
    <3>1. CASE Session!SameSession(r)
      <4>1. r.sent = token /\ token # None
        BY <2>1, <2>5, <3>1 DEF Session!SameSession, Loyal
      <4>2. seen.token = token
        BY <4>1 DEF Loyal
      <4>3. cache' = [cache EXCEPT !["me"] = whose] /\ UNCHANGED <<user, disk, mixed>>
        BY <2>1, <2>5, <3>1 DEF Session!Deliver
      <4>4. ~mixed => whose = seen.user
        BY <4>1, <4>2
      <4> QED
        BY <2>1, <4>3, <4>4
    <3>2. CASE ~Session!SameSession(r)
      BY <2>1, <2>5, <3>2 DEF Session!Deliver
    <3> QED
      BY <3>1, <3>2
  <2>6. CASE r.kind \in {"dropped", "send"}
    BY <2>1, <2>6 DEF Session!Deliver
  <2> QED
    BY <1>0, <2>2, <2>3, <2>4, <2>5, <2>6 DEF Session!Requests, Session!Kinds
<1>9. ASSUME NEW r \in flight, Session!Fail(r) PROVE Unmixed'
  BY <1>9 DEF Session!Fail, Session!RolledBack
<1>10. ASSUME NEW r \in flight, Session!Reject(r) PROVE Unmixed'
  <2>1. Session!Expired(Session!Code(r.sent)) /\ mixed' = mixed
    BY <1>10 DEF Session!Reject
  <2>2. \/ cache' = Session!Empty /\ flight' = {}
        \/ Session!Code(r.sent) = "unauthorized" /\ flight' \subseteq flight
           /\ \A k \in Session!Keys : cache'[k] \in {None, cache[k]}
    BY <1>10 DEF Session!Reject, Session!RolledBack
  <2> QED
    BY <1>6, <2>1, <2>2
<1>11. ASSUME Session!Commit PROVE Unmixed'
  <2> DEFINE q == [Session!Request("getMe", "me", token) EXCEPT !.before = None]
  <2>1. q.kind = "getMe"
    BY DEF Session!Request
  <2> HIDE DEF q
  <2>2. Session!Effects(Session!Shown, q) /\ seen' = Session!Shown
        /\ Session!Shown = [token |-> token, user |-> user]
        /\ UNCHANGED <<token, user, disk, mixed>>
    BY <1>11 DEF Session!Commit, Session!Effects, Session!Shown, q
  <2>3. ~mixed => /\ \A k \in Session!Keys : cache'[k] \in {None, user}
                  /\ \A r \in flight' : r.kind = "query" /\ r.good => Session!Owner(r.sent) = user
    BY <1>0, <2>1, <2>2, EffectsUnmix
  <2> QED
    BY <2>2, <2>3
<1>12. ASSUME Session!Logout PROVE Unmixed'
  <2>1. Session!Effects(Session!NoSession, None) /\ seen' = Session!NoSession
        /\ Session!NoSession = [token |-> None, user |-> None]
        /\ token' = None /\ mixed' = mixed
    BY <1>12 DEF Session!Logout, Session!Effects, Session!NoSession
  <2>2. ~mixed => /\ \A k \in Session!Keys : cache'[k] \in {None, None}
                  /\ \A r \in flight' : r.kind = "query" /\ r.good => Session!Owner(r.sent) = None
    BY <1>0, <2>1, EffectsUnmix
  <2> QED
    BY <2>1, <2>2
<1>13. ASSUME Session!Reload PROVE Unmixed'
  BY <1>13 DEF Session!Reload, Session!NoSession, Session!Empty, Loyal
<1>14. ASSUME UNCHANGED sessionVars PROVE Unmixed'
  BY <1>14 DEF sessionVars
<1> QED
  BY <1>1, <1>2, <1>3, <1>4, <1>5, <1>6, <1>7, <1>8, <1>9, <1>10, <1>11, <1>12, <1>13, <1>14
     DEF SessionMoves

-----------------------------------------------------------------------------
(* Whose socket it is *)

\* Somebody listens only to a rendered session; what still may open or deliver
\* goes by its token.
OwnSocket ==
    /\ subscribers # {} => seen.token # None
    /\ \A k \in Socket!Attempts : k.as \in {None, seen.token}
    /\ \A i \in Socket!Heard : sockets[i].as # None /\ sockets[i].as = seen.token

LEMMA OwnJoin ==
    ASSUME SocketInv, OwnSocket, NEW c, Socket!Join(c, api), seen'.token # None,
           api \in {None, seen'.token}, subscribers # {} => seen'.token = seen.token
    PROVE  OwnSocket'
<1> USE DEF OwnSocket, Socket!Attempts, Socket!Heard
<1>1. CASE subscribers # {}
  BY <1>1 DEF Socket!Join
<1>2. CASE subscribers = {}
  <2>1. Socket!Heard = {} /\ sockets' = sockets /\ generation' = generation + 1
        /\ tickets' = tickets \cup {[generation |-> generation + 1, as |-> api]}
    BY <1>2 DEF Socket!Join, SocketInv, OneDriver, Socket!OneDriver
  <2>2. \A k \in tickets : k.generation # generation + 1
    BY DEF SocketInv, Stamped, Socket!SocketTypeOK
  <2> QED
    BY <2>1, <2>2
<1> QED
  BY <1>1, <1>2

LEMMA OwnLeave ==
    ASSUME SocketInv, OwnSocket, NEW C, Socket!Leave(C),
           seen'.token = seen.token \/ C = subscribers
    PROVE  OwnSocket'
<1> USE DEF OwnSocket, Socket!Attempts, Socket!Heard
<1>1. CASE C # subscribers
  BY <1>1 DEF Socket!Leave
<1>2. CASE C = subscribers
  <2>1. subscribers' = {}
    BY <1>2 DEF Socket!Leave
  <2>2. SocketInv'
    BY Leaves
  <2>3. Socket!Attempts' = {} /\ Socket!Heard' = {}
    BY <2>1, <2>2 DEF SocketInv, OneDriver, Socket!OneDriver
  <2> QED
    BY <2>1, <2>3
<1> QED
  BY <1>1, <1>2

LEMMA OwnFollow ==
    ASSUME SocketInv, SessionInv, OwnSocket, Follow, seen'.token \in {token, None}, 
           seen'.token # None => token # None /\ token = seen'.token
    PROVE  OwnSocket'
<1>1. CASE seen.token = None /\ seen'.token # None /\ Socket!Join(Layout, api)
  BY <1>1, OwnJoin DEF OwnSocket, SessionInv, Loyal
<1>2. CASE seen.token # None /\ seen'.token = None /\ Socket!Leave(subscribers)
  BY <1>2, OwnLeave
<1>3. CASE (seen.token = None <=> seen'.token = None) /\ SocketIdle
  <2>1. seen'.token = seen.token
    BY <1>3 DEF SessionInv, Loyal
  <2> QED
    BY <1>3, <2>1 DEF OwnSocket, SocketIdle, socketVars, Socket!Attempts, Socket!Heard
<1> QED
  BY <1>1, <1>2, <1>3 DEF Follow

LEMMA OwnAlone ==
    ASSUME SocketInv, SessionInv, OwnSocket, seen' = seen,
           \/ SocketIdle
           \/ \E k \in tickets : Socket!TicketFails(k) \/ (k.as # None /\ Socket!TicketArrives(k))
           \/ Socket!TimerFires(api)
           \/ \E i \in SocketIds : Socket!Opens(i) \/ Socket!Errs(i) \/ Socket!Closes(i)
    PROVE  OwnSocket'
<1> USE DEF OwnSocket, Socket!Attempts, Socket!Heard
<1>1. CASE SocketIdle
  BY <1>1 DEF SocketIdle, socketVars
<1>2. ASSUME NEW k \in tickets, Socket!TicketFails(k) PROVE OwnSocket'
  BY <1>2 DEF Socket!TicketFails
<1>3. ASSUME NEW k \in tickets, k.as # None, Socket!TicketArrives(k) PROVE OwnSocket'
  <2>1. CASE Socket!Wanted(k.generation)
    <3>1. k.as = seen.token
      BY <1>3, <2>1 DEF Socket!Wanted
    <3>2. PICK i \in SocketIds :
            sockets' = [sockets EXCEPT ![i] = [ready |-> "connecting", generation |-> k.generation,
                                               as |-> k.as, heard |-> TRUE]]
      BY <1>3, <2>1 DEF Socket!TicketArrives, Socket!Free
    <3>3. UNCHANGED <<subscribers, generation>> /\ tickets' \subseteq tickets
      BY <1>3 DEF Socket!TicketArrives
    <3>4. \A j \in SocketIds : sockets'[j].heard => (j = i /\ sockets'[j].as = k.as) \/ sockets'[j] = sockets[j]
      BY <3>2 DEF SocketInv, Socket!SocketTypeOK
    <3> QED
      BY <1>3, <3>1, <3>3, <3>4
  <2>2. CASE ~Socket!Wanted(k.generation)
    BY <1>3, <2>2 DEF Socket!TicketArrives
  <2> QED
    BY <2>1, <2>2
<1>4. ASSUME Socket!TimerFires(api) PROVE OwnSocket'
  <2>1. subscribers # {}
    BY <1>4 DEF SocketInv, OneDriver, Socket!OneDriver, Socket!TimerFires
  <2>2. api \in {None, seen.token}
    BY <2>1 DEF SessionInv, Loyal
  <2>3. /\ UNCHANGED <<subscribers, generation, sockets>>
        /\ \A k \in tickets' : k \in tickets \/ k.as = api
    BY <1>4 DEF Socket!TimerFires
  <2> QED
    BY <2>2, <2>3
<1>5. ASSUME NEW i \in SocketIds, Socket!Opens(i) \/ Socket!Errs(i) \/ Socket!Closes(i)
      PROVE  OwnSocket'
  <2>1. /\ UNCHANGED <<subscribers, generation, tickets>>
        /\ \A j \in SocketIds : sockets'[j].heard => sockets[j].heard /\ sockets'[j].as = sockets[j].as
    BY <1>5 DEF SocketInv, Socket!SocketTypeOK, Socket!Opens, Socket!Errs, Socket!Closes, Socket!Gone
  <2> QED
    BY <2>1
<1> QED
  BY <1>1, <1>2, <1>3, <1>4, <1>5

LEMMA OwnSocketStep ==
    ASSUME SocketInv, SessionInv, OwnSocket, [Next]_vars
    PROVE  OwnSocket'
<1>0. ASSUME Forget PROVE OwnSocket'
  BY <1>0 DEF Forget, OwnSocket, Socket!Attempts, Socket!Heard, Socket!Gone
<1>1. ASSUME Screens \/ World PROVE OwnSocket'
  <2>1. seen' = seen /\ SocketIdle
    BY <1>1 DEF Screens, World, Session!Fetch, Session!RefreshUser, Session!UpdateMe,
                Session!SendMessage, Session!Login, Session!LoginRefused, Session!Focus,
                Session!Expired, Session!Revoke
  <2> QED
    BY <2>1, OwnAlone
<1>2. ASSUME Network PROVE OwnSocket'
  <2>1. PICK r \in flight : \/ (Session!Answer(r) \/ Session!Fail(r)) /\ SocketIdle
                            \/ Rejected(r)
    BY <1>2 DEF Network
  <2>2. CASE (Session!Answer(r) \/ Session!Fail(r)) /\ SocketIdle
    BY <2>2, OwnAlone DEF Session!Answer, Session!Fail
  <2>3. CASE Rejected(r)
    <3>1. CASE Session!Code(r.sent) = "unauthorized"
      BY <2>3, <3>1, OwnAlone DEF Rejected, Session!Reject, Session!Expired
    <3>2. CASE Session!Code(r.sent) # "unauthorized"
      BY <1>0, <2>3, <3>2 DEF Rejected
    <3> QED
      BY <3>1, <3>2
  <2> QED
    BY <2>1, <2>2, <2>3
<1>3. ASSUME Commit PROVE OwnSocket'
  <2>1. seen' = [token |-> token, user |-> user] /\ Follow
    BY <1>3 DEF Commit, Session!Commit, Session!Effects, Session!Shown
  <2> QED
    BY <2>1, OwnFollow
<1>4. ASSUME Logout PROVE OwnSocket'
  <2>1. seen' = [token |-> None, user |-> None] /\ Follow
    BY <1>4 DEF Logout, Session!Logout, Session!Effects, Session!NoSession
  <2> QED
    BY <2>1, OwnFollow
<1>5. ASSUME Reload PROVE OwnSocket'
  BY <1>0, <1>5 DEF Reload
<1>6. ASSUME Events PROVE OwnSocket'
  BY <1>6, OwnAlone DEF Events, SessionIdle, sessionVars
<1>7. ASSUME NEW c \in Subscribers, ChatPage(c) PROVE OwnSocket'
  <2>1. seen' = seen
    BY <1>7 DEF ChatPage, SessionIdle, sessionVars
  <2>2. CASE seen.token # None /\ Socket!Join(c, api)
    BY <2>1, <2>2, OwnJoin DEF SessionInv, Loyal
  <2>3. CASE Socket!Leave({c})
    BY <2>1, <2>3, OwnLeave
  <2> QED
    BY <1>7, <2>2, <2>3 DEF ChatPage
<1>8. ASSUME NEW k \in tickets, TicketArrives(k) \/ TicketFails(k) PROVE OwnSocket'
  <2>1. seen' = seen
    BY <1>8 DEF TicketArrives, TicketFails, SessionIdle, sessionVars
  <2>2. Socket!TicketFails(k) \/ (k.as # None /\ Socket!TicketArrives(k))
    BY <1>8 DEF TicketArrives, TicketFails
  <2> QED
    BY <2>1, <2>2, OwnAlone
<1>9. ASSUME NEW k \in tickets, TicketRejected(k) PROVE OwnSocket'
  <2>1. CASE Session!Code(k.as) = "unauthorized"
    <3>1. seen' = seen /\ Socket!TicketFails(k)
      BY <1>9, <2>1 DEF TicketRejected, Session!Expired
    <3> QED
      BY <3>1, OwnAlone
  <2>2. CASE Session!Code(k.as) # "unauthorized"
    BY <1>0, <1>9, <2>2 DEF TicketRejected
  <2> QED
    BY <2>1, <2>2
<1>10. ASSUME UNCHANGED vars PROVE OwnSocket'
  BY <1>10, OwnAlone DEF vars, sessionVars, SocketIdle
<1> QED
  BY <1>1, <1>2, <1>3, <1>4, <1>5, <1>6, <1>7, <1>8, <1>9, <1>10 DEF Next

-----------------------------------------------------------------------------
(* What the client promises *)

ClientInv == SocketInv /\ SessionInv /\ OwnSocket /\ reloads \in 0 .. MaxReloads

LEMMA ClientInvariant == Spec => []ClientInv
<1>1. Init => ClientInv
  <2> SUFFICES ASSUME Init PROVE ClientInv
    OBVIOUS
  <2>1. SocketInv
    BY SocketStarts DEF Init
  <2>2. SessionInv
    BY OwnersAssumption DEF Init, SessionInv, Loyal, Unmixed, Session!SessionInit,
       Session!SessionTypeOK, Session!NoSession, Session!Empty, Session!Verdicts
  <2>3. OwnSocket
    BY DEF Init, Socket!SocketInit, OwnSocket, Socket!Attempts, Socket!Heard, Socket!Gone
  <2> QED
    BY <2>1, <2>2, <2>3, BoundsAssumption DEF Init, ClientInv
<1>2. ClientInv /\ [Next]_vars => ClientInv'
  <2> SUFFICES ASSUME ClientInv, [Next]_vars PROVE ClientInv'
    OBVIOUS
  <2>1. SocketInv'
    BY SocketStep DEF ClientInv, SessionInv, Session!SessionTypeOK
  <2>2. SessionMoves
    BY StepsOfTheSession DEF ClientInv, SessionInv, SocketInv
  <2>3. SessionInv'
    BY <2>2, SessionTypeStep, LoyalStep, UnmixedStep DEF ClientInv, SessionInv
  <2>4. OwnSocket'
    BY OwnSocketStep DEF ClientInv
  <2>5. reloads' \in 0 .. MaxReloads
    <3>1. CASE Reload
      BY <3>1, BoundsAssumption DEF ClientInv, Reload
    <3>2. CASE ~Reload
      <4>1. reloads' = reloads
        BY <3>2 DEF Next, vars, Screens, World, Network, Commit, Logout, Events, ChatPage,
                    TicketArrives, TicketFails, TicketRejected
      <4> QED
        BY <4>1 DEF ClientInv
    <3> QED
      BY <3>1, <3>2
  <2> QED
    BY <2>1, <2>3, <2>4, <2>5 DEF ClientInv
<1> QED
  BY <1>1, <1>2, PTL DEF Spec

\* Every variable of the tab keeps its type and the backoff its range
\* (useWebSocket.ts: MIN_DELAY_MS, MAX_DELAY_MS).
THEOREM ClientTypeCorrect == Spec => []TypeOK
<1>1. ClientInv => TypeOK
  BY DEF ClientInv, SocketInv, SessionInv, TypeOK
<1> QED
  BY <1>1, ClientInvariant, PTL

\* While a screen listens one ticket request, one socket or one timer drives
\* the connection, and nothing does once the last one left, whatever the order
\* of tickets, timers and socket events (useWebSocket.ts).
THEOREM OneDriverAlways == Spec => []OneDriver
<1>1. ClientInv => OneDriver
  BY DEF ClientInv, SocketInv
<1> QED
  BY <1>1, ClientInvariant, PTL

\* A socket that is not closing is the manager's, and somebody listens.
THEOREM NoOrphanEver == Spec => []NoOrphan
<1>1. ClientInv => NoOrphan
  BY DEF ClientInv, SocketInv
<1> QED
  BY <1>1, ClientInvariant, PTL

\* The state every screen renders is that of what drives the connection.
THEOREM StateIsTrue == Spec => []StateTellsTruth
<1>1. ClientInv => StateTellsTruth
  BY DEF ClientInv, SocketInv
<1> QED
  BY <1>1, ClientInvariant, PTL

\* A socket that delivers envelopes was opened with the token of the rendered
\* session, however many sign-outs its ticket was awaited across.
THEOREM SocketBelongsToSession == Spec => []SocketIsOwn
<1>1. ClientInv => SocketIsOwn
  BY DEF ClientInv, OwnSocket, SocketIsOwn
<1> QED
  BY <1>1, ClientInvariant, PTL

\* Until refreshUser() stores a stranger's profile, a rendered session finds in
\* the cache nothing but its owner's data (AuthContext.tsx, mismaSesion).
THEOREM CacheBelongsToSession == Spec => []CacheIsOwn
<1>1. ClientInv => CacheIsOwn
  BY DEF ClientInv, SessionInv, Unmixed, CacheIsOwn, Session!CacheIsOwn
<1> QED
  BY <1>1, ClientInvariant, PTL

\* The profile changes to that of the person signed in, but for an answer to
\* refreshUser() and a page load that finds localStorage already mixed.
THEOREM ProfileBelongsToSession == Spec => ProfileIsOwn
<1>1. ClientInv /\ [Next]_vars => [Session!ProfileChange]_vars
  <2> SUFFICES ASSUME ClientInv, [Next]_vars, user' # user, user' # None, token' # None
               PROVE  Session!ProfileChange
    BY DEF Session!ProfileChange
  <2> USE DEF Session!ProfileChange
  <2>1. SessionMoves
    BY StepsOfTheSession DEF ClientInv, SessionInv, SocketInv
  <2>2. ASSUME NEW t \in Tokens, Session!Login(t) PROVE Session!ProfileChange
    BY <2>2, OwnerIsSomebody DEF Session!Login
  <2>3. ASSUME NEW r \in flight, Session!Answer(r) PROVE Session!ProfileChange
    <3>1. r.kind \in {"getMe", "refresh"} /\ flight' = flight \ {r} /\ token' = token
      BY <2>3 DEF Session!Answer, Session!Deliver
    <3>2. CASE r.kind = "getMe"
      <4>1. ~Session!Cancelled(r) /\ user' = Session!Owner(r.sent)
        BY <2>3, <3>2 DEF Session!Answer, Session!Deliver, Session!StoreProfile
      <4>2. r.sent = seen.token /\ r.sent # None
        BY <3>2, <4>1 DEF Session!Cancelled, ClientInv, SessionInv, Loyal
      <4> QED
        BY <3>1, <4>1, <4>2 DEF ClientInv, SessionInv, Loyal
    <3> QED
      BY <3>1, <3>2
  <2>4. ASSUME Session!Reload PROVE Session!ProfileChange
    BY <2>4 DEF Session!Reload, Session!NoSession
  <2>5. ASSUME NEW r \in flight, Session!Fail(r) \/ Session!Reject(r) PROVE FALSE
    BY <2>5, ExpiredTyped DEF Session!Fail, Session!Reject, ClientInv, SessionInv
  <2> QED
    BY <2>1, <2>2, <2>3, <2>4, <2>5, ExpiredTyped
       DEF SessionMoves, ClientInv, SessionInv, Session!Fetch, Session!RefreshUser,
           Session!UpdateMe, Session!SendMessage, Session!Revoke, Session!Commit,
           Session!Logout, sessionVars
<1> QED
  BY <1>1, ClientInvariant, PTL DEF Spec, ProfileIsOwn

=============================================================================
