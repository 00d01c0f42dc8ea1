----------------------------- MODULE ChatThread ------------------------------
(***************************************************************************)
(* One open conversation in a client, web (ChatPage.tsx under              *)
(* MainLayout.tsx) or phone (chat/[userId].tsx): the cached thread and the *)
(* unread badge (shared/hooks/index.ts), sends shown before the server     *)
(* confirms them, envelopes pushed by the socket and refetches that cancel *)
(* each other, against the messages the server keeps.                      *)
(*                                                                         *)
(* A message is <<"me", i>> or <<"in", k>>; <<"temp", i>> stands in for    *)
(* send i until it is fetched.                                             *)
(***************************************************************************)
EXTENDS Naturals, Sequences, FiniteSets, SequencesExt

CONSTANTS
    Sends,        \* messages written here (bound)
    Incoming,     \* messages the other person writes (bound)
    Platforms,    \* "web", "phone"
    Page,         \* messages in one answer: 50
    None

ASSUME PageAssumption == Page \in Nat \ {0}
ASSUME TrafficAssumption == Sends \subseteq Nat /\ IsFiniteSet(Incoming)

VARIABLES
    platform,
    rows,      \* server: the conversation, by created_at
    read,      \* server: messages of the other person marked read
    send,      \* each send: idle, posting, sent or failed
    hadCache,  \* its context: a thread was cached when it started
    thread,    \* ['messages', userId]: None or entries
    getThread, \* its fetch in progress
    badge,     \* ['messages', 'unread-count']
    getBadge,  \* its fetch in progress
    wire,      \* chat_message envelopes on the socket, in order
    marks,     \* POSTs of markAsRead in flight (phone)
    stale,     \* the last fetch of the thread failed
    missed     \* history: messages this client was not told of in time

vars == <<platform, rows, read, send, hadCache, thread, getThread, badge, getBadge,
          wire, marks, stale, missed>>

Mine(i) == <<"me", i>>
Temp(i) == <<"temp", i>>
Theirs(k) == <<"in", k>>
Messages == {Mine(i) : i \in Sends} \cup {Theirs(k) : k \in Incoming}
Entry(m) == [id |-> m, read |-> m \notin {Theirs(k) : k \in Incoming} \/ m \in read]
Entries == [id : Messages \cup {Temp(i) : i \in Sends}, read : BOOLEAN]
Fetches == [at : {"asked", "selected", "answered"}, got : Seq(Entries), after : SUBSET Sends]
BadgeFetches == [at : {"asked", "answered"}, got : 0 .. Cardinality(Incoming)]
ASSUME NoneAssumption == None \notin Seq(Entries) /\ None \notin Fetches /\ None \notin BadgeFetches

Ids(s) == {s[n].id : n \in DOMAIN s}
Shown == IF thread = None THEN {} ELSE Ids(thread)
Stored == ToSet(rows)
Unread == Cardinality({m \in Stored : m[1] = "in" /\ m \notin read})

TypeOK ==
    /\ platform \in Platforms
    /\ rows \in Seq(Messages)
    /\ read \subseteq Messages
    /\ send \in [Sends -> {"idle", "posting", "sent", "failed"}]
    /\ hadCache \in [Sends -> BOOLEAN]
    /\ thread \in Seq(Entries) \cup {None}
    /\ getThread \in Fetches \cup {None}
    /\ badge \in 0 .. Cardinality(Incoming)
    /\ getBadge \in BadgeFetches \cup {None}
    /\ wire \in Seq(Incoming)
    /\ marks \subseteq Messages
    /\ stale \in BOOLEAN
    /\ missed \subseteq Messages

Init ==
    /\ platform \in Platforms
    /\ rows = <<>> /\ read = {}
    /\ send = [i \in Sends |-> "idle"]
    /\ hadCache = [i \in Sends |-> FALSE]
    /\ thread = None /\ getThread = None
    /\ badge = 0 /\ getBadge = None
    /\ wire = <<>> /\ marks = {}
    /\ stale = FALSE
    /\ missed = {}

Server == <<rows, read>>
Contexts == <<send, hadCache>>

-----------------------------------------------------------------------------
(* The query cache *)

\* A fetch remembers, for the properties, which sends it was asked after.
Ask == [at |-> "asked", got |-> <<>>, after |-> {i \in Sends : send[i] # "idle"}]

\* invalidateQueries: an active query with data cancels its fetch and starts
\* another; one still loading for the first time lets that load go on.
Absorbed == getThread # None /\ thread = None
InvalidateThreadLazily == getThread' = IF getThread = None THEN Ask ELSE getThread
InvalidateThread == getThread' = IF Absorbed THEN getThread ELSE Ask
AskBadge == [at |-> "asked", got |-> 0]
InvalidateBadge == getBadge' = AskBadge

\* The effect of the phone's screen on every new value of the thread.
UnreadIn(s) ==
    IF s = None \/ platform = "web" THEN {} ELSE {s[n].id : n \in {n \in DOMAIN s : ~s[n].read}}

Write(s) ==
    /\ thread' = s
    /\ marks' = IF s = thread THEN marks ELSE marks \cup UnreadIn(s)

\* The effect of the web's screen: if the list counts this person as unread,
\* a new value of the thread asks for the badge again.
RefreshBadge == getBadge' \in {getBadge} \cup (IF platform = "web" THEN {AskBadge} ELSE {})

\* The screen mounts, or its retry button is pressed.
Load ==
    /\ thread = None /\ getThread = None
    /\ getThread' = Ask
    /\ UNCHANGED <<platform, Server, Contexts, thread, badge, getBadge, wire, marks, stale, missed>>

\* GetConversation on the server: the page is read, then everything the other
\* person wrote is marked read.
FirstPage == SubSeq(rows, 1, IF Len(rows) < Page THEN Len(rows) ELSE Page)

Select ==
    /\ getThread # None /\ getThread.at = "asked"
    /\ getThread' = [getThread EXCEPT !.at = "selected",
                         !.got = [n \in DOMAIN FirstPage |-> Entry(FirstPage[n])]]
    /\ UNCHANGED <<platform, Server, Contexts, thread, badge, getBadge, wire, marks, stale, missed>>

MarkConversationRead ==
    /\ getThread # None /\ getThread.at = "selected"
    /\ getThread' = [getThread EXCEPT !.at = "answered"]
    /\ read' = read \cup {m \in Stored : m[1] = "in"}
    /\ UNCHANGED <<platform, rows, Contexts, thread, badge, getBadge, wire, marks, stale, missed>>

Land ==
    /\ getThread # None /\ getThread.at = "answered"
    /\ Write(getThread.got)
    /\ getThread' = None
    /\ stale' = FALSE
    /\ RefreshBadge
    /\ UNCHANGED <<platform, Server, Contexts, badge, wire, missed>>

\* The retries are used up; the screen keeps what it had.
GetFails ==
    /\ getThread # None
    /\ getThread' = None
    /\ stale' = TRUE
    /\ UNCHANGED <<platform, Server, Contexts, thread, badge, getBadge, wire, marks, missed>>

\* useUnreadCount asks every 30 s.
PollNever == FALSE /\ UNCHANGED vars
Poll ==
    /\ getBadge = None
    /\ getBadge' = AskBadge
    /\ UNCHANGED <<platform, Server, Contexts, thread, getThread, badge, wire, marks, stale, missed>>

CountUnread ==
    /\ getBadge = AskBadge
    /\ getBadge' = [at |-> "answered", got |-> Unread]
    /\ UNCHANGED <<platform, Server, Contexts, thread, getThread, badge, wire, marks, stale, missed>>

LandBadge ==
    /\ getBadge # None /\ getBadge.at = "answered"
    /\ badge' = getBadge.got /\ getBadge' = None
    /\ UNCHANGED <<platform, Server, Contexts, thread, getThread, wire, marks, stale, missed>>

BadgeFails ==
    /\ getBadge # None
    /\ getBadge' = None
    /\ UNCHANGED <<platform, Server, Contexts, thread, getThread, badge, wire, marks, stale, missed>>

-----------------------------------------------------------------------------
(* useSendMessageTo *)

\* The phone does nothing while a send is pending; the web only disables the
\* button, and Enter submits.
MaySend(i) ==
    /\ send[i] = "idle"
    /\ \A j \in Sends : j < i => send[j] # "idle"
    /\ platform = "phone" => \A j \in Sends : send[j] # "posting"

\* onMutate
CancelsNothing == getThread
CancelQueries == None

Send(i) ==
    /\ MaySend(i)
    /\ send' = [send EXCEPT ![i] = "posting"]
    /\ hadCache' = [hadCache EXCEPT ![i] = thread # None]
    /\ getThread' = CancelQueries
    /\ Write((IF thread = None THEN <<>> ELSE thread) \o <<[id |-> Temp(i), read |-> TRUE]>>)
    /\ RefreshBadge
    /\ UNCHANGED <<platform, Server, badge, wire, stale, missed>>

\* The server stores the message, perhaps after the client gave up on it.
Store(i) ==
    /\ send[i] \in {"posting", "failed"} /\ Mine(i) \notin Stored
    /\ rows' = Append(rows, Mine(i))
    /\ missed' = IF send[i] = "failed" THEN missed \cup {Mine(i)} ELSE missed
    /\ UNCHANGED <<platform, read, Contexts, thread, getThread, badge, getBadge, wire, marks, stale>>

SendAnswered(i) ==
    /\ send[i] = "posting" /\ Mine(i) \in Stored
    /\ send' = [send EXCEPT ![i] = "sent"]
    /\ missed' = IF Absorbed THEN missed \cup {Mine(i)} ELSE missed
    /\ InvalidateThread /\ InvalidateBadge
    /\ UNCHANGED <<platform, Server, hadCache, thread, badge, wire, marks, stale>>

\* onError rolls back by identity, or starts the thread over.
RestoreSnapshot(i) ==
    SelectSeq(thread, LAMBDA e : e.id[1] # "temp")
        \o SetToSeq({[id |-> Temp(j), read |-> TRUE] : j \in {j \in Sends : j < i}})
\* filter(m => m.id !== tempId): the entry is there once (NothingTwice).
WithoutOwn(i) ==
    IF Temp(i) \in Shown
    THEN RemoveAt(thread, CHOOSE n \in DOMAIN thread : thread[n].id = Temp(i))
    ELSE thread

SendFails(i) ==
    /\ send[i] = "posting"
    /\ send' = [send EXCEPT ![i] = "failed"]
    /\ IF hadCache[i]
       THEN /\ Write(IF thread = None THEN None ELSE WithoutOwn(i))
            /\ InvalidateThread
            /\ missed' = IF Absorbed THEN missed \cup ({Mine(i)} \cap Stored) ELSE missed
       ELSE /\ Write(None)
            /\ getThread' = Ask
            /\ UNCHANGED missed
    /\ InvalidateBadge
    /\ UNCHANGED <<platform, Server, hadCache, badge, wire, stale>>

-----------------------------------------------------------------------------
(* The other person, and the socket *)

\* The hub pushes the message if this client is connected.
Arrive(k) ==
    /\ Theirs(k) \notin Stored
    /\ rows' = Append(rows, Theirs(k))
    /\ \/ wire' = Append(wire, k) /\ UNCHANGED missed
       \/ missed' = missed \cup {Theirs(k)} /\ UNCHANGED wire
    /\ UNCHANGED <<platform, read, Contexts, thread, getThread, badge, getBadge, marks, stale>>

\* handleWsMessage of the phone appends to a loaded thread; MainLayout of the
\* web invalidates every ['messages'] query.
AppendTwice(m) == Append(thread, [id |-> m, read |-> FALSE])
AppendNew(m) == IF m \in Shown THEN thread ELSE Append(thread, [id |-> m, read |-> FALSE])

OnMessage ==
    /\ wire # <<>>
    /\ wire' = Tail(wire)
    /\ missed' = IF Absorbed \/ (platform = "phone" /\ thread = None)
                 THEN missed \cup {Theirs(Head(wire))} ELSE missed
    /\ IF platform = "phone"
       THEN /\ Write(IF thread = None THEN None ELSE AppendNew(Theirs(Head(wire))))
            /\ UNCHANGED <<getThread, getBadge>>
       ELSE /\ InvalidateThread /\ InvalidateBadge
            /\ UNCHANGED <<thread, marks>>
    /\ UNCHANGED <<platform, Server, Contexts, badge, stale>>

\* The socket breaks: what was on it is gone.
SocketBreaks ==
    /\ wire # <<>>
    /\ wire' = <<>>
    /\ missed' = missed \cup {Theirs(k) : k \in ToSet(wire)}
    /\ UNCHANGED <<platform, Server, Contexts, thread, getThread, badge, getBadge, marks, stale>>

\* useMarkAsRead; onSettled invalidates whether or not the POST worked.
MarkSettles(m) ==
    /\ m \in marks
    /\ marks' = marks \ {m}
    /\ read' = read \cup {m} \/ UNCHANGED read
    /\ InvalidateThread /\ InvalidateBadge
    /\ UNCHANGED <<platform, rows, Contexts, thread, badge, wire, stale, missed>>

-----------------------------------------------------------------------------
Cache ==
    Load \/ Select \/ MarkConversationRead \/ Land \/ GetFails
    \/ Poll \/ CountUnread \/ LandBadge \/ BadgeFails

Next ==
    \/ Cache
    \/ \E i \in Sends : Send(i) \/ Store(i) \/ SendAnswered(i) \/ SendFails(i)
    \/ \E k \in Incoming : Arrive(k)
    \/ OnMessage \/ SocketBreaks
    \/ \E m \in marks : MarkSettles(m)

\* Intervals fire, requests end, and a server asked again and again answers.
Fairness ==
    /\ WF_vars(Poll) /\ SF_vars(CountUnread) /\ SF_vars(LandBadge)
    /\ WF_vars(\E m \in marks : MarkSettles(m))
    /\ WF_vars(Select) /\ WF_vars(MarkConversationRead) /\ WF_vars(Land)
    /\ WF_vars(\E i \in Sends : SendAnswered(i) \/ SendFails(i))

Spec == Init /\ [][Next]_vars /\ Fairness

-----------------------------------------------------------------------------
(* What the conversation on screen promises *)

\* A message that was not sent is not shown as sent, however many sends were
\* in flight with it and in whatever order they ended.
NothingFalselySent == \A i \in Sends : send[i] = "failed" => Temp(i) \notin Shown

\* No message is drawn twice: not by an envelope that arrives after the fetch
\* that already brought it, nor as its own stand-in next to its row.
NothingTwice ==
    thread # None =>
        /\ Cardinality(Shown) = Len(thread)
        /\ \A i \in Sends : {Temp(i), Mine(i)} \subseteq Shown => FALSE

\* A message being sent leaves the screen only
\*  - for the answer to a fetch that was asked after it, or
\*  - with the whole thread, when a send that began before any thread was cached
\*    fails: its resetQueries erases the stand-ins of the other sends as well.
\* No older fetch, no envelope and no rollback over a cached thread takes it away.
Vanishes(i) == send[i] = "posting" /\ send'[i] = "posting" /\ Temp(i) \in Shown /\ Temp(i) \notin Shown'
Overtaken(i) == getThread # None /\ getThread' = None /\ i \in getThread.after
StartedOver == \E j \in Sends : ~hadCache[j] /\ send[j] = "posting" /\ send'[j] = "failed"

PendingStays == \A i \in Sends : Vanishes(i) => Overtaken(i) \/ StartedOver
PendingKept == [][PendingStays]_vars

\* At rest, when nothing is in flight and the last fetch worked, every message of
\* the server's first page is on screen, but those this client was never told of,
\* and everything on screen is stored: sends that ended, envelopes, marks and
\* cancelled fetches leave nothing behind and nothing out.  Which messages are on
\* screen is compared, not their order and not what is marked read.
AtRest ==
    /\ \A i \in Sends : send[i] # "posting"
    /\ getThread = None /\ wire = <<>> /\ marks = {} /\ ~stale /\ thread # None
RestShowsServer ==
    AtRest => ToSet(FirstPage) \ missed \subseteq Shown /\ Shown \subseteq Stored

\* When the traffic ends the badge comes to count what is unread on the
\* server, whichever of its fetches were overtaken, cancelled or failed.
BadgeSettles == <>[](badge = Unread)

\* "a later refetch lands in server order", "the sent message included, in its
\* real chronological place": a message the server confirmed stays on screen.
SentStays == AtRest => \A i \in Sends : send[i] = "sent" => Mine(i) \in Shown

\* hooks/index.ts:592: erasing "a sibling send's own optimistic message that is
\* still pending" is a bug, so the failure of one send leaves the others shown.
SiblingsStay ==
    [][\A i \in Sends : Vanishes(i) => Overtaken(i)]_vars
=============================================================================
