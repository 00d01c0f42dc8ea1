----------------------------- MODULE WebSession -----------------------------
(***************************************************************************)
(* Who is signed in, in one tab of the web client: AuthContext.tsx, the    *)
(* token the API client keeps (shared/api/client.ts) and the hooks that    *)
(* write one person's data into the query cache (shared/hooks/index.ts).   *)
(* Nothing cancels a request when the session changes, so every answer may *)
(* land in a session that did not ask for it.                              *)
(*                                                                         *)
(* React state changes at once; the effects that follow a change run at    *)
(* the next commit, a step of its own (Commit), except after a click.      *)
(* WebClient.tla runs it and assumes what the constants must satisfy.      *)
(***************************************************************************)
EXTENDS Naturals, FiniteSets

CONSTANTS
    Users,
    Tokens,       \* the tokens the server will ever issue (bound)
    OwnerOf,      \* whom each token was issued to
    Codes,        \* why a 401: unauthorized, session_expired, user_banned
    MaxFlight,    \* requests of the screens in flight at once (bound)
    None

VARIABLES
    api,       \* apiClient.token
    token,     \* React state of AuthProvider
    user,      \* React state; the profile is told apart by its owner only
    seen,      \* what the last commit rendered: its effects have run
    hubo,      \* huboSesionRef: a session existed since the page loaded
    cache,     \* whose data each query key holds, or None
    flight,    \* requests sent and not answered
    disk,      \* localStorage
    verdict,   \* what the server thinks of each token
    issued,    \* tokens handed out
    mixed      \* history: refreshUser() stored the profile of another session

sessionVars == <<api, token, user, seen, hubo, cache, flight, disk, verdict, issued, mixed>>

\* ['me'] and ['messages', ...]: the keys whose data is one person's.
Keys == {"me", "messages"}
Kinds == {"getMe", "refresh", "query", "dropped", "update", "send"}
Verdicts == {"valid"} \cup Codes

NoSession == [token |-> None, user |-> None]
Empty == [k \in Keys |-> None]
Owner(t) == IF t = None THEN None ELSE OwnerOf[t]

Requests == [kind : Kinds, key : Keys, sent : Tokens \cup {None},
             by : Tokens \cup {None}, before : Users \cup {None}, good : BOOLEAN]

SessionTypeOK ==
    /\ api \in Tokens \cup {None}
    /\ token \in Tokens \cup {None}
    /\ user \in Users \cup {None}
    /\ seen \in [token : Tokens \cup {None}, user : Users \cup {None}]
    /\ hubo \in BOOLEAN
    /\ cache \in [Keys -> Users \cup {None}]
    /\ flight \subseteq Requests
    /\ disk \in [token : Tokens \cup {None}, user : Users \cup {None}]
    /\ verdict \in [Tokens -> Verdicts]
    /\ issued \subseteq Tokens
    /\ mixed \in BOOLEAN

SessionInit ==
    /\ api = None /\ token = None /\ user = None
    /\ seen = NoSession
    /\ hubo = FALSE
    /\ cache = Empty
    /\ flight = {}
    /\ disk = NoSession
    /\ verdict = [t \in Tokens |-> "valid"]
    /\ issued = {}
    /\ mixed = FALSE

-----------------------------------------------------------------------------
(* Requests *)

\* What the server makes of a token, and of none.
Code(t) == IF t = None THEN "unauthorized" ELSE verdict[t]

\* doFetch reads the token when it builds the headers.  "by" is the session
\* an effect or a mutation notes down, "before" the snapshot a mutation takes.
\* The server answers well only if the token was good when it looked.
Request(kind, key, by) ==
    [kind |-> kind, key |-> key, sent |-> api, by |-> by, before |-> cache[key],
     good |-> api # None /\ Code(api) = "valid"]

Room == Cardinality(flight) < MaxFlight

\* cancelQueries and clear() do not abort the HTTP call: its data is dropped,
\* its 401 is not.
Drop(rs, ks) ==
    {IF r.kind = "query" /\ r.key \in ks THEN [r EXCEPT !.kind = "dropped"] ELSE r : r \in rs}

\* A screen mounts, polls or refetches: useGetMe, useConversations, ...
Fetch(k) ==
    /\ Room
    /\ seen.token # None
    /\ flight' = flight \cup {Request("query", k, None)}
    /\ UNCHANGED <<api, token, user, seen, hubo, cache, disk, verdict, issued, mixed>>

\* refreshUser(), from the profile page.
RefreshUser ==
    /\ Room
    /\ seen.token # None
    /\ flight' = flight \cup {Request("refresh", "me", None)}
    /\ UNCHANGED <<api, token, user, seen, hubo, cache, disk, verdict, issued, mixed>>

\* useUpdateMe and the two photo uploads: no optimistic write.
UpdateMe ==
    /\ Room
    /\ seen.token # None
    /\ flight' = flight \cup {Request("update", "me", api)}
    /\ UNCHANGED <<api, token, user, seen, hubo, cache, disk, verdict, issued, mixed>>

\* useSendMessageTo.onMutate: cancel, note the session, write the message.
SendMessage ==
    /\ Room
    /\ seen.token # None
    /\ flight' = Drop(flight, {"messages"}) \cup {Request("send", "messages", api)}
    /\ cache' = [cache EXCEPT !["messages"] = IF @ = None THEN seen.user ELSE @]
    /\ UNCHANGED <<api, token, user, seen, hubo, disk, verdict, issued, mixed>>

-----------------------------------------------------------------------------
(* Answers *)

\* mismaSesion: the session the mutation noted down is still the client's.
SameSessionForgotten(r) == TRUE
SameSession(r) == r.by = api

\* The cleanup of the [token] effect ran after the request was sent.
CancelledNever(r) == FALSE
Cancelled(r) == r.by # seen.token

\* setUser and localStorage.
StoreProfile(whose) ==
    /\ user' = whose
    /\ disk' = [disk EXCEPT !.user = whose]
    /\ UNCHANGED cache

\* Not the profile of the person the token was issued to.
Stranger(whose) == token # None /\ whose # Owner(token)

\* What each caller does with a good answer; r has left the flight.
Deliver(r) ==
    LET whose == Owner(r.sent) IN
    \/ /\ r.kind = "query"
       /\ cache' = [cache EXCEPT ![r.key] = whose]
       /\ UNCHANGED <<user, disk, mixed>>
    \/ /\ r.kind = "getMe" /\ ~Cancelled(r)
       /\ StoreProfile(whose)
       /\ UNCHANGED mixed
    \/ /\ r.kind = "refresh"
       /\ StoreProfile(whose)
       /\ mixed' = (mixed \/ Stranger(whose))
    \/ /\ r.kind = "update" /\ SameSession(r)
       /\ cache' = [cache EXCEPT !["me"] = whose]
       /\ UNCHANGED <<user, disk, mixed>>
    \/ /\ \/ r.kind \in {"dropped", "send"}
          \/ r.kind = "getMe" /\ Cancelled(r)
          \/ r.kind = "update" /\ ~SameSession(r)
       /\ UNCHANGED <<user, disk, cache, mixed>>

Answer(r) ==
    /\ r \in flight
    /\ r.good
    /\ flight' = flight \ {r}
    /\ Deliver(r)
    /\ UNCHANGED <<api, token, seen, hubo, verdict, issued>>

\* What onError does to the cache, given the token the client holds by then:
\* a send takes its own message out, which empties a thread nobody had fetched.
RolledBack(r, held) ==
    IF r.kind = "send" /\ r.by = held /\ r.before = None
    THEN [cache EXCEPT !["messages"] = None]
    ELSE cache

\* No network, a timeout, a 5xx: the session is not touched.
Fail(r) ==
    /\ r \in flight
    /\ flight' = flight \ {r}
    /\ cache' = RolledBack(r, api)
    /\ UNCHANGED <<api, token, user, seen, hubo, disk, verdict, issued, mixed>>

\* auth:session-expired, whatever request brought it.  Two of the codes also
\* leave for /login with a page load, which ends everything in memory.
ExpiredClientOnly(code) ==
    /\ api' = None
    /\ UNCHANGED <<token, user, seen, hubo, disk>>

Expired(code) ==
    /\ api' = None /\ token' = None /\ user' = None
    /\ disk' = NoSession
    /\ IF code = "unauthorized"
       THEN UNCHANGED <<seen, hubo>>
       ELSE seen' = NoSession /\ hubo' = FALSE

\* doFetch: any 401 drops the client's token and announces it.
Reject(r) ==
    /\ r \in flight
    /\ Code(r.sent) # "valid"
    /\ Expired(Code(r.sent))
    /\ IF Code(r.sent) = "unauthorized"
       THEN /\ flight' = flight \ {r}
            /\ cache' = RolledBack(r, None)
       ELSE flight' = {} /\ cache' = Empty
    /\ UNCHANGED <<verdict, issued, mixed>>

-----------------------------------------------------------------------------
(* Signing in and out *)

\* The forms are on screen only while the tab is rendered signed out.
OnForm == token = None /\ seen.token = None

\* login, register and loginWithGoogle do the same with a good answer.
Login(t) ==
    /\ OnForm
    /\ t \notin issued
    /\ issued' = issued \cup {t}
    /\ api' = t /\ token' = t /\ user' = OwnerOf[t]
    /\ disk' = [token |-> t, user |-> OwnerOf[t]]
    /\ UNCHANGED <<seen, hubo, cache, flight, verdict, mixed>>

\* Wrong credentials are a 401 like any other.
LoginRefused ==
    /\ OnForm
    /\ Expired("unauthorized")
    /\ UNCHANGED <<cache, flight, verdict, issued, mixed>>

\* The effects of a render that shows session s: the identity effect, which
\* empties the cache, then the [token] effect, which asks getMe again.
Effects(s, sent) ==
    LET clears == s.user # seen.user /\ (seen.user # None \/ hubo)
        kept == IF clears THEN Drop(flight, Keys) ELSE flight
    IN  /\ seen' = s
        /\ hubo' = (hubo \/ s.user # None)
        /\ cache' = IF clears THEN Empty ELSE cache
        /\ flight' = IF s.token # seen.token /\ s.token # None THEN kept \cup {sent} ELSE kept

Shown == [token |-> token, user |-> user]

Commit ==
    /\ Shown # seen
    /\ Effects(Shown, [Request("getMe", "me", token) EXCEPT !.before = None])
    /\ UNCHANGED <<api, token, user, disk, verdict, issued, mixed>>

\* A click: React renders and runs the effects before anything else happens.
Logout ==
    /\ seen.token # None
    /\ api' = None /\ token' = None /\ user' = None
    /\ disk' = NoSession
    /\ Effects(NoSession, None)
    /\ UNCHANGED <<verdict, issued, mixed>>

\* Focus or visibility: dropIfExpired, registered for the rendered token.
Focus ==
    /\ seen.token # None
    /\ verdict[seen.token] = "unauthorized"
    /\ Expired("unauthorized")
    /\ UNCHANGED <<cache, flight, verdict, issued, mixed>>

\* A page load: memory is gone, the mount effect restores a whole session
\* whose token has not expired and removes anything else.
Reload ==
    LET usable == disk.token # None /\ disk.user # None /\ Code(disk.token) # "unauthorized"
        kept == IF usable THEN disk ELSE NoSession
    IN  /\ api' = kept.token /\ token' = kept.token /\ user' = kept.user
        /\ disk' = kept
        /\ seen' = NoSession
        /\ hubo' = FALSE
        /\ cache' = Empty
        /\ flight' = {}
        /\ UNCHANGED <<verdict, issued, mixed>>

-----------------------------------------------------------------------------
(* The rest of the world *)

\* A token expires, its owner changes the password, or is banned.
Revoke(t, code) ==
    /\ t \in issued
    /\ verdict[t] = "valid"
    /\ code # "valid"
    /\ verdict' = [verdict EXCEPT ![t] = code]
    /\ UNCHANGED <<api, token, user, seen, hubo, cache, flight, disk, issued, mixed>>

-----------------------------------------------------------------------------
(* What the session promises *)

\* While a session is rendered, whatever the cache holds belongs to its owner,
\* however late the answers of an earlier session arrive (clear() on identity
\* change, anotarSesion / mismaSesion).  refreshUser() has no such guard: once
\* it stored the profile of another session, a change of identity may go
\* unnoticed and the cache with it.
CacheIsOwn ==
    ~mixed /\ seen.token # None =>
        \A k \in Keys : cache[k] \in {None, Owner(seen.token)}

\* The profile on screen never becomes that of somebody other than the person
\* signed in: not by a getMe answer that outlived its session ("cancelled"),
\* nor by anything else but refreshUser(), which has no such guard, and a
\* page load that finds the two halves of localStorage already mixed.
ProfileChange ==
    user' # user /\ user' # None /\ token' # None =>
        \/ user' = Owner(token')
        \/ \E r \in flight : r.kind = "refresh" /\ flight' = flight \ {r}
        \/ disk.user # Owner(disk.token)


=============================================================================
