---------------------------- MODULE MobileSession ----------------------------
(***************************************************************************)
(* Who is signed in on the phone: the zustand auth store                   *)
(* (mobile/store/index.ts), the token of the API client, the two entries   *)
(* of SecureStore and the push registration of the device on the server.   *)
(*                                                                         *)
(* The handlers of the store are asynchronous: each await is a point where *)
(* a 401, another handler or the death of the app may come first.  A step  *)
(* is the operation awaited and the code up to the next await.             *)
(***************************************************************************)
EXTENDS Naturals, FiniteSets

CONSTANTS
    Users,
    Tokens,       \* the tokens the server will ever issue (bound)
    OwnerOf,      \* whom each token was issued to
    Flows,        \* places for the handlers in progress, 1 .. n (bound)
    Codes,        \* why a 401: unauthorized, session_expired, user_banned
    MaxFlight,    \* requests in flight at once (bound)
    None

ASSUME MobileOwnersAssumption ==
    /\ OwnerOf \in [Tokens -> Users]
    /\ None \notin Users \cup Tokens

VARIABLES
    api,       \* apiClient.token
    token,     \* token of the store; isAuthenticated follows it
    user,      \* user of the store, told apart by its owner only
    disk,      \* SecureStore: auth_token and user_data
    flow,      \* each handler: what it awaits and for whom
    flight,    \* requests sent and not answered
    device,    \* the row of device_tokens of this phone: its user_id
    verdict,   \* what the server thinks of each token
    issued,    \* tokens handed out
    stranded,  \* history: tokens of sign-ins that SecureStore made fail
    lateSave   \* history: an edit was saved after its session ended

vars == <<api, token, user, disk, flow, flight, device, verdict, issued, stranded, lateSave>>

\* The two codes the listener acts on.
Ended == Codes \cap {"session_expired", "user_banned"}
Verdicts == {"valid"} \cup Codes
Kinds == {"update", "register", "forget"}
Awaits == {"storeToken", "storeUser", "pushToken", "dropToken", "dropUser",
           "saveUser", "permission"}

Idle == [awaits |-> "nothing", of |-> None]
Owner(t) == IF t = None THEN None ELSE OwnerOf[t]
Code(t) == IF t = None THEN "unauthorized" ELSE verdict[t]

\* isJwtExpired sees the date in the token, not what else the server knows.
Usable(d) == d.token # None /\ d.user # None /\ Code(d.token) # "unauthorized"

TypeOK ==
    /\ api \in Tokens \cup {None}
    /\ token \in Tokens \cup {None}
    /\ user \in Users \cup {None}
    /\ disk \in [token : Tokens \cup {None}, user : Users \cup {None}]
    /\ flow \in [Flows -> [awaits : Awaits \cup {"nothing"}, of : Tokens \cup {None}]]
    /\ flight \subseteq [kind : Kinds, sent : Tokens \cup {None}]
    /\ device \in Users \cup {None}
    /\ verdict \in [Tokens -> Verdicts]
    /\ issued \subseteq Tokens
    /\ stranded \subseteq issued
    /\ lateSave \in BOOLEAN

Init ==
    /\ api = None /\ token = None /\ user = None
    /\ disk = [token |-> None, user |-> None]
    /\ flow = [f \in Flows |-> Idle]
    /\ flight = {}
    /\ device = None
    /\ verdict = [t \in Tokens |-> "valid"]
    /\ issued = {}
    /\ stranded = {}
    /\ lateSave = FALSE

-----------------------------------------------------------------------------
(* Helpers *)

Free(f) == flow[f] = Idle
First(f) == Free(f) /\ \A g \in Flows : g < f => ~Free(g)
Awaiting(f, what) == flow[f].awaits = what
Start(f, what, t) == First(f) /\ flow' = [flow EXCEPT ![f] = [awaits |-> what, of |-> t]]
Continue(f, what) == flow' = [flow EXCEPT ![f].awaits = what]
End(f) == flow' = [flow EXCEPT ![f] = Idle]

\* doFetch reads the token when it builds the headers.
Sending(kind) == flight' = flight \cup {[kind |-> kind, sent |-> api]}
Room == Cardinality(flight) < MaxFlight

\* The forms disable their button while one is pending.
SigningIn == \E f \in Flows : flow[f].awaits \in {"storeToken", "storeUser"}

Server == <<device, verdict, issued>>
History == <<stranded, lateSave>>

-----------------------------------------------------------------------------
(* login, register, loginWithGoogle *)

\* The API client keeps the token as soon as it is answered.
SignInAnswered(f, t) ==
    /\ token = None /\ ~SigningIn
    /\ t \notin issued
    /\ issued' = issued \cup {t}
    /\ api' = t
    /\ Start(f, "storeToken", t)
    /\ UNCHANGED <<token, user, disk, flight, device, verdict, History>>

StoreTokenAsUser(f) ==
    /\ Awaiting(f, "storeToken")
    /\ disk' = [disk EXCEPT !.user = flow[f].of]
    /\ Continue(f, "storeUser")
    /\ UNCHANGED <<api, token, user, flight, Server, History>>

StoreToken(f) ==
    /\ Awaiting(f, "storeToken")
    /\ disk' = [disk EXCEPT !.token = flow[f].of]
    /\ Continue(f, "storeUser")
    /\ UNCHANGED <<api, token, user, flight, Server, History>>

\* user_data is stored; the session goes on screen, registerPushToken starts.
FinishSignIn(f) ==
    /\ Awaiting(f, "storeUser")
    /\ disk' = [disk EXCEPT !.user = Owner(flow[f].of)]
    /\ api' = flow[f].of /\ token' = flow[f].of /\ user' = Owner(flow[f].of)
    /\ Continue(f, "permission")
    /\ UNCHANGED <<flight, Server, History>>

\* SecureStore refuses one of the two writes: the form shows an error.
SignInFails(f) ==
    /\ flow[f].awaits \in {"storeToken", "storeUser"}
    /\ stranded' = stranded \cup {flow[f].of}
    /\ End(f)
    /\ UNCHANGED <<api, token, user, disk, flight, Server, lateSave>>

\* registerPushToken: permission, the device's own token, then the request,
\* with whatever session the client holds by then.
RegisterPush(f) ==
    /\ Awaiting(f, "permission")
    /\ \/ Room /\ Sending("register")
       \/ UNCHANGED flight             \* permission denied, no device token
    /\ End(f)
    /\ UNCHANGED <<api, token, user, disk, Server, History>>

-----------------------------------------------------------------------------
(* logout *)

BeginLogout(f) ==
    /\ token # None
    /\ Start(f, "pushToken", token)
    /\ UNCHANGED <<api, token, user, disk, flight, Server, History>>

\* The DELETE of the registration is sent and not waited for.
ForgetDevice(f) ==
    /\ Awaiting(f, "pushToken")
    /\ \/ Room /\ Sending("forget")
       \/ UNCHANGED flight             \* no permission, a simulator
    /\ Continue(f, "dropToken")
    /\ UNCHANGED <<api, token, user, disk, Server, History>>

DropToken(f) ==
    /\ Awaiting(f, "dropToken")
    /\ disk' = [disk EXCEPT !.token = None]
    /\ Continue(f, "dropUser")
    /\ UNCHANGED <<api, token, user, flight, Server, History>>

FinishLogoutUserKept(f) ==
    /\ Awaiting(f, "dropUser")
    /\ api' = None /\ token' = None /\ user' = None
    /\ End(f)
    /\ UNCHANGED <<disk, flight, Server, History>>

FinishLogoutClientKept(f) ==
    /\ Awaiting(f, "dropUser")
    /\ disk' = [disk EXCEPT !.user = None]
    /\ token' = None /\ user' = None
    /\ End(f)
    /\ UNCHANGED <<api, flight, Server, History>>

FinishLogout(f) ==
    /\ Awaiting(f, "dropUser")
    /\ disk' = [disk EXCEPT !.user = None]
    /\ api' = None /\ token' = None /\ user' = None
    /\ End(f)
    /\ UNCHANGED <<flight, Server, History>>

\* SecureStore refuses a delete: logout() rejects, the session stays.
LogoutFails(f) ==
    /\ flow[f].awaits \in {"dropToken", "dropUser"}
    /\ End(f)
    /\ UNCHANGED <<api, token, user, disk, flight, Server, History>>

-----------------------------------------------------------------------------
(* Requests of the screens *)

\* EditProfileScreen.handleSave.  A read matters here only by its 401, which
\* the edit's request brings as well.
EditProfile ==
    /\ token # None /\ Room
    /\ Sending("update")
    /\ UNCHANGED <<api, token, user, disk, flow, Server, History>>

\* DELETE /api/devices/:token takes only a row of the caller.
DeleteByToken(whose) == None
DeleteByTokenForUser(whose) == IF device = whose THEN None ELSE device

Served(r) ==
    \/ r.kind = "register" /\ device' = Owner(r.sent) /\ UNCHANGED flow
    \/ r.kind = "forget" /\ device' = DeleteByTokenForUser(Owner(r.sent)) /\ UNCHANGED flow
    \/ r.kind = "update" /\ (\E f \in Flows : Start(f, "saveUser", r.sent)) /\ UNCHANGED device

Answer(r) ==
    /\ r \in flight
    /\ Code(r.sent) = "valid"
    /\ flight' = flight \ {r}
    /\ Served(r)
    /\ UNCHANGED <<api, token, user, disk, verdict, issued, History>>

Lost(r) ==
    /\ r \in flight
    /\ flight' = flight \ {r}
    /\ UNCHANGED <<api, token, user, disk, flow, Server, History>>

\* setUser: the screen may be gone, and the session with it.
SaveUser(f) ==
    /\ Awaiting(f, "saveUser")
    /\ disk' = [disk EXCEPT !.user = Owner(flow[f].of)]
    /\ user' = Owner(flow[f].of)
    /\ lateSave' = (lateSave \/ flow[f].of # token)
    /\ End(f)
    /\ UNCHANGED <<api, token, flight, Server, stranded>>

SaveFails(f) ==
    /\ Awaiting(f, "saveUser")
    /\ End(f)
    /\ UNCHANGED <<api, token, user, disk, flight, Server, History>>

\* The listener of auth:session-expired; its two deletes are not waited for
\* and are taken to succeed.
ListenerMemoryOnly(code) ==
    IF code \in Ended
    THEN token' = None /\ user' = None /\ UNCHANGED disk
    ELSE UNCHANGED <<token, user, disk>>

Listener(code) ==
    IF code \in Ended
    THEN /\ token' = None /\ user' = None
         /\ disk' = [token |-> None, user |-> None]
    ELSE UNCHANGED <<token, user, disk>>

\* doFetch: any 401 drops the client's token and announces it.
Reject(r) ==
    /\ r \in flight
    /\ Code(r.sent) # "valid"
    /\ flight' = flight \ {r}
    /\ api' = None
    /\ Listener(Code(r.sent))
    /\ UNCHANGED <<flow, Server, History>>

\* Wrong credentials are a 401 like any other.
SignInRefused ==
    /\ token = None /\ ~SigningIn
    /\ api' = None
    /\ UNCHANGED <<token, user, disk, flow, flight, Server, History>>

-----------------------------------------------------------------------------
(* The app dies and starts again: loadToken *)

Relaunch ==
    LET kept == IF Usable(disk) THEN disk ELSE [token |-> None, user |-> None]
    IN  /\ disk' = kept
        /\ api' = kept.token /\ token' = kept.token /\ user' = kept.user
        /\ flight' = {}
        /\ flow' = [f \in Flows |-> IF f = 1 /\ kept.token # None
                                   THEN [awaits |-> "permission", of |-> kept.token]
                                   ELSE Idle]
        /\ UNCHANGED <<Server, History>>

\* A token expires, its owner changes the password, or is banned.
Revoke(t, code) ==
    /\ t \in issued
    /\ verdict[t] = "valid"
    /\ verdict' = [verdict EXCEPT ![t] = code]
    /\ UNCHANGED <<api, token, user, disk, flow, flight, device, issued, History>>

-----------------------------------------------------------------------------
Handlers ==
    \E f \in Flows :
        \/ \E t \in Tokens : SignInAnswered(f, t)
        \/ StoreToken(f) \/ FinishSignIn(f) \/ SignInFails(f) \/ RegisterPush(f)
        \/ BeginLogout(f) \/ ForgetDevice(f) \/ DropToken(f) \/ FinishLogout(f) \/ LogoutFails(f)
        \/ SaveUser(f) \/ SaveFails(f)

Network == \E r \in flight : Answer(r) \/ Reject(r) \/ Lost(r)

World == \E t \in Tokens, code \in Verdicts \ {"valid"} : Revoke(t, code)

Next == Handlers \/ EditProfile \/ Network \/ SignInRefused \/ Relaunch \/ World

Spec == Init /\ [][Next]_vars

-----------------------------------------------------------------------------
(* What the session of the phone promises *)

\* The three copies of "who is signed in" agree whenever no sign-in is in
\* progress: the client never asks under a session that is not the one on
\* screen, or the one of a sign-in that could not be stored.
ClientFollowsScreen == ~SigningIn /\ api # None => api \in {token} \cup stranded

\* Starting the app again, at whatever await it died, brings back the session
\* on screen or none: not one that was signed out of, nor one the server had
\* ended, nor half a sign-in, however the deletes of one handler fall between
\* the writes of another.  (An edit saved after its session ended can complete
\* the pair again.)
RestartKeepsSession == ~lateSave /\ Usable(disk) => disk.token = token

\* The profile kept is that of the person whose token is kept, on screen and
\* on disk, even if the app died between the two writes of a sign-in; only an
\* edit saved after its session ended breaks it (setUser has no guard).
ProfileIsOwn ==
    lateSave \/ /\ token # None => user = Owner(token)
                /\ Usable(disk) => disk.user = Owner(disk.token)

\* While somebody stays signed in, the phone keeps its push registration for
\* them against the DELETE that the sign-out of another person left behind; it
\* loses it only to a sign-out of their own that arrives late, or to a late
\* registration of an earlier session, which Upsert cannot tell from a new one.
PushLostForCause ==
    token # None /\ token' = token /\ device = Owner(token) /\ device' # device =>
        \E r \in flight \ flight' :
            \/ r.kind = "forget" /\ Owner(r.sent) = Owner(token)
            \/ r.kind = "register" /\ r.sent # token
PushKept == [][PushLostForCause]_vars

\* "A run-of-the-mill 401 (bad or missing token) deliberately does not reach
\* this branch: the per-screen auth guard already handles that, and wiping a
\* live session on every unrelated 401 would be disruptive": a session that
\* stays on screen can still ask.
LiveSessionCanAsk == token # None => api # None
=============================================================================
