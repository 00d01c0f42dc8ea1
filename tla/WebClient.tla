----------------------------- MODULE WebClient ------------------------------
(***************************************************************************)
(* One tab of the web client: the session (WebSession) and the shared      *)
(* socket (ClientSocket) together.  MainLayout.tsx subscribes while the    *)
(* rendered session is authenticated and so does ChatPage.tsx; the ticket  *)
(* is asked with the token the API client holds; a 401 on the ticket ends  *)
(* the session like any other.                                             *)
(***************************************************************************)
EXTENDS Naturals, FiniteSets

CONSTANTS Users, Tokens, OwnerOf, Codes, MaxFlight, Subscribers, Layout, SocketIds,
          MinDelay, MaxDelay, MaxGeneration, MaxReloads, None

ASSUME OwnersAssumption ==
    /\ OwnerOf \in [Tokens -> Users]
    /\ None \notin Users \cup Tokens

ASSUME DelaysAssumption ==
    /\ MinDelay \in Nat \ {0}
    /\ MaxDelay \in Nat
    /\ MinDelay <= MaxDelay

ASSUME IdsAssumption == None \notin SocketIds \cup Nat /\ Layout \in Subscribers

ASSUME BoundsAssumption == MaxReloads \in Nat

VARIABLES api, token, user, seen, hubo, cache, flight, disk, verdict, issued, mixed,
          subscribers, generation, tickets, timer, sockets, socket,
          connectionState, retryDelay,
          reloads     \* page loads so far (bound)

Session == INSTANCE WebSession
Socket == INSTANCE ClientSocket WITH Credentials <- Tokens \cup {None}

sessionVars == <<api, token, user, seen, hubo, cache, flight, disk, verdict, issued, mixed>>
socketVars == <<subscribers, generation, tickets, timer, sockets, socket,
                connectionState, retryDelay>>
vars == <<sessionVars, socketVars, reloads>>

TypeOK == Session!SessionTypeOK /\ Socket!SocketTypeOK /\ reloads \in 0 .. MaxReloads

Init == Session!SessionInit /\ Socket!SocketInit /\ reloads = 0

SocketIdle == UNCHANGED socketVars
SessionIdle == UNCHANGED sessionVars

\* The [enabled] effects of a commit: the layout joins a new session, every
\* subscriber leaves one that ended.
Follow ==
    \/ seen.token = None /\ seen'.token # None /\ Socket!Join(Layout, api)
    \/ seen.token # None /\ seen'.token = None /\ Socket!Leave(subscribers)
    \/ (seen.token = None <=> seen'.token = None) /\ SocketIdle

\* A page load starts the manager over; the browser closes its sockets.
Forget ==
    /\ subscribers' = {} /\ generation' = 0 /\ tickets' = {} /\ timer' = None
    /\ sockets' = [i \in SocketIds |-> Socket!Gone]
    /\ socket' = None /\ connectionState' = "idle" /\ retryDelay' = MinDelay

\* A 401 with one of the two codes that load the login page also forgets.
Rejected(r) ==
    /\ Session!Reject(r)
    /\ IF Session!Code(r.sent) = "unauthorized" THEN SocketIdle ELSE Forget

Screens ==
    /\ \/ \E k \in Session!Keys : Session!Fetch(k)
       \/ Session!RefreshUser \/ Session!UpdateMe
       \/ Session!SendMessage
       \/ \E t \in Tokens : Session!Login(t)
       \/ Session!LoginRefused
       \/ Session!Focus
    /\ SocketIdle /\ UNCHANGED reloads

World ==
    /\ \E t \in Tokens, c \in Codes : Session!Revoke(t, c)
    /\ SocketIdle /\ UNCHANGED reloads

Network ==
    /\ \E r \in flight :
          \/ (Session!Answer(r) \/ Session!Fail(r)) /\ SocketIdle
          \/ Rejected(r)
    /\ UNCHANGED reloads

Commit == Session!Commit /\ Follow /\ UNCHANGED reloads
Logout == Session!Logout /\ Follow /\ UNCHANGED reloads

Reload ==
    /\ reloads < MaxReloads
    /\ reloads' = reloads + 1
    /\ Session!Reload /\ Forget

\* The chat page mounts and unmounts inside the layout.
ChatPage(c) ==
    /\ c # Layout
    /\ \/ seen.token # None /\ generation < MaxGeneration /\ Socket!Join(c, api)
       \/ Socket!Leave({c})
    /\ SessionIdle /\ UNCHANGED reloads

\* issueWsTicket goes through doFetch.
TicketArrives(k) ==
    /\ k.as # None /\ verdict[k.as] = "valid"
    /\ Socket!TicketArrives(k)
    /\ SessionIdle /\ UNCHANGED reloads

TicketFails(k) == Socket!TicketFails(k) /\ SessionIdle /\ UNCHANGED reloads

TicketRejected(k) ==
    /\ k \in tickets
    /\ Session!Code(k.as) # "valid"
    /\ Session!Expired(Session!Code(k.as))
    /\ IF Session!Code(k.as) = "unauthorized"
       THEN Socket!TicketFails(k) /\ UNCHANGED <<cache, flight>>
       ELSE Forget /\ cache' = Session!Empty /\ flight' = {}
    /\ UNCHANGED <<verdict, issued, mixed, reloads>>

Events ==
    /\ \/ Socket!TimerFires(api)
       \/ \E i \in SocketIds : Socket!Opens(i) \/ Socket!Errs(i) \/ Socket!Closes(i)
    /\ SessionIdle /\ UNCHANGED reloads

Next ==
    \/ Screens \/ World \/ Network \/ Commit \/ Logout \/ Reload \/ Events
    \/ \E c \in Subscribers : ChatPage(c)
    \/ \E k \in tickets : TicketArrives(k) \/ TicketFails(k) \/ TicketRejected(k)

\* React commits what it was given; the timer of the backoff fires; the poll
\* of the unread badge keeps asking, each request ends, and a network that
\* delivers again and again delivers a rejection, a ticket and an open.
Polls == Session!Fetch("messages") /\ SocketIdle /\ UNCHANGED reloads
Fairness ==
    /\ WF_vars(Commit)
    /\ WF_vars(Socket!TimerFires(api) /\ SessionIdle /\ UNCHANGED reloads)
    /\ WF_vars(Network)
    /\ SF_vars(Polls)
    /\ SF_vars((\E r \in flight : Rejected(r)) /\ UNCHANGED reloads)
    /\ SF_vars(\E k \in tickets : TicketArrives(k))
    /\ WF_vars(\E k \in tickets : TicketFails(k) \/ TicketRejected(k))
    /\ SF_vars(\E i \in SocketIds : Socket!Opens(i) /\ SessionIdle /\ UNCHANGED reloads)
    /\ WF_vars(\E i \in SocketIds : Socket!Closes(i) /\ sockets[i].ready = "closing"
                                    /\ SessionIdle /\ UNCHANGED reloads)

Spec == Init /\ [][Next]_vars /\ Fairness

-----------------------------------------------------------------------------
(* What only the two together can promise *)

\* The promises of the two parts, kept when they run together.
CacheIsOwn == Session!CacheIsOwn
ProfileIsOwn == [][Session!ProfileChange]_vars
OneDriver == Socket!OneDriver
NoOrphan == Socket!NoOrphan
StateTellsTruth == Socket!StateTellsTruth

\* A socket that still delivers envelopes to the screens was opened for the
\* person whose session they render, not for the one who left (the ticket is
\* awaited across a sign-out and the next sign-in).
SocketIsOwn ==
    \A i \in Socket!Heard :
        /\ sockets[i].as # None
        /\ Session!Owner(sockets[i].as) = Session!Owner(seen.token)

\* A session whose token the server rejects does not stay on screen: the poll
\* finds out.
RejectedSessionEnds ==
    \A t \in Tokens : (token = t /\ verdict[t] # "valid") ~> (token # t)

\* A session ends only because its owner signs out, the page is loaded again
\* or the server rejects that very token (notifySessionExpired).  doFetch does
\* not look at which token the rejected request carried.
SessionEndsForCause ==
    [][token # None /\ token' = None =>
          Logout \/ Reload \/ verdict[token] # "valid"]_vars

\* Whoever stays signed in with a good token gets connected.
StaysConnected ==
    subscribers # {} ~> connectionState = "connected" \/ subscribers = {}
                        \/ Session!Code(token) # "valid"

=============================================================================
