-------------------------- MODULE MobileSessionProofs -------------------------
(***************************************************************************)
(* The session of the phone for any number of people, tokens, handlers in  *)
(* progress and requests in flight: what the client sends, what a restart  *)
(* brings back and whose profile is kept.                                  *)
(***************************************************************************)
EXTENDS MobileSession, TLAPS

Signing(f) == flow[f].awaits \in {"storeToken", "storeUser"}

\* One sign-in at a time, with nobody on screen; the client holds the token on
\* screen, that of the sign-in or that of a sign-in that failed.
OneSignIn ==
    /\ \A f \in Flows : flow[f].awaits \in {"storeToken", "storeUser", "saveUser"} =>
          flow[f].of \in Tokens
    /\ \A f \in Flows : Signing(f) =>
          flow[f].of \in issued /\ token = None /\ api \in {flow[f].of, None}
    /\ \A f, g \in Flows : Signing(f) /\ Signing(g) => f = g
    /\ ~SigningIn /\ api # None => api \in {token} \cup stranded

\* SecureStore holds no other token than that of the session on screen, or of
\* the sign-in about to finish; the profile is the session's, in the store and
\* in SecureStore, and without a session there is none.
StoreFollows ==
    /\ token # None => disk.token \in {token, None}
    /\ \A f \in Flows : flow[f].awaits = "storeUser" => disk.token \in {flow[f].of, None}
    /\ ~lateSave =>
          /\ token = None => disk.user = None
          /\ token # None => user = Owner(token) /\ disk.user \in {Owner(token), None}

-----------------------------------------------------------------------------
(* Types *)

LEMMA OwnerTyped == \A t \in Tokens \cup {None} : Owner(t) \in Users \cup {None}
BY MobileOwnersAssumption DEF Owner

LEMMA MobileTypeStep ==
    ASSUME TypeOK, OneSignIn, [Next]_vars
    PROVE  TypeOK'
<1> USE MobileOwnersAssumption DEF TypeOK, Server, History, Awaits, Start, Continue, End, Idle
<1>1. ASSUME NEW f \in Flows, NEW t \in Tokens, SignInAnswered(f, t) PROVE TypeOK'
  BY <1>1 DEF SignInAnswered
<1>2. ASSUME NEW f \in Flows, StoreToken(f) PROVE TypeOK'
  BY <1>2 DEF StoreToken
<1>3. ASSUME NEW f \in Flows, FinishSignIn(f) PROVE TypeOK'
  BY <1>3, OwnerTyped DEF FinishSignIn
<1>4. ASSUME NEW f \in Flows, SignInFails(f) PROVE TypeOK'
  BY <1>4 DEF SignInFails, OneSignIn, Signing
<1>5. ASSUME NEW f \in Flows, RegisterPush(f) PROVE TypeOK'
  BY <1>5 DEF RegisterPush, Sending, Kinds
<1>6. ASSUME NEW f \in Flows, BeginLogout(f) PROVE TypeOK'
  BY <1>6 DEF BeginLogout
<1>7. ASSUME NEW f \in Flows, ForgetDevice(f) PROVE TypeOK'
  BY <1>7 DEF ForgetDevice, Sending, Kinds
<1>8. ASSUME NEW f \in Flows, DropToken(f) \/ FinishLogout(f) PROVE TypeOK'
  BY <1>8 DEF DropToken, FinishLogout
<1>9. ASSUME NEW f \in Flows, LogoutFails(f) \/ SaveFails(f) PROVE TypeOK'
  BY <1>9 DEF LogoutFails, SaveFails
<1>10. ASSUME NEW f \in Flows, SaveUser(f) PROVE TypeOK'
  BY <1>10, OwnerTyped DEF SaveUser
<1>11. ASSUME EditProfile PROVE TypeOK'
  BY <1>11 DEF EditProfile, Sending, Kinds
<1>12. ASSUME NEW r \in flight, Answer(r) PROVE TypeOK'
  <2>1. r.sent \in Tokens \cup {None}
    OBVIOUS
  <2>2. flow' \in [Flows -> [awaits : Awaits \cup {"nothing"}, of : Tokens \cup {None}]]
    BY <1>12, <2>1 DEF Answer, Served
  <2>3. device' \in Users \cup {None}
    BY <1>12, <2>1, OwnerTyped DEF Answer, Served, DeleteByTokenForUser
  <2> QED
    BY <1>12, <2>2, <2>3 DEF Answer
<1>13. ASSUME NEW r \in flight, Lost(r) PROVE TypeOK'
  BY <1>13 DEF Lost
<1>14. ASSUME NEW r \in flight, Reject(r) PROVE TypeOK'
  BY <1>14 DEF Reject, Listener
<1>15. ASSUME SignInRefused PROVE TypeOK'
  BY <1>15 DEF SignInRefused
<1>16. ASSUME Relaunch PROVE TypeOK'
  BY <1>16 DEF Relaunch
<1>17. ASSUME NEW t \in Tokens, NEW code \in Verdicts \ {"valid"}, Revoke(t, code) PROVE TypeOK'
  BY <1>17 DEF Revoke, Verdicts
<1>18. ASSUME UNCHANGED vars PROVE TypeOK'
  BY <1>18 DEF vars
<1> QED
  BY <1>1, <1>2, <1>3, <1>4, <1>5, <1>6, <1>7, <1>8, <1>9, <1>10, <1>11, <1>12, <1>13,
     <1>14, <1>15, <1>16, <1>17, <1>18 DEF Next, Handlers, Network, World

-----------------------------------------------------------------------------
(* Sign-ins *)

LEMMA OneSignInStep ==
    ASSUME TypeOK, OneSignIn, [Next]_vars
    PROVE  OneSignIn'
<1> USE MobileOwnersAssumption
    DEF TypeOK, OneSignIn, Signing, SigningIn, Server, History, Start, First, Free, Continue,
        End, Idle, Awaiting
<1>1. ASSUME NEW f \in Flows, NEW t \in Tokens, SignInAnswered(f, t) PROVE OneSignIn'
  BY <1>1 DEF SignInAnswered
<1>2. ASSUME NEW f \in Flows, StoreToken(f) PROVE OneSignIn'
  BY <1>2 DEF StoreToken
<1>3. ASSUME NEW f \in Flows, FinishSignIn(f) PROVE OneSignIn'
  BY <1>3 DEF FinishSignIn
<1>4. ASSUME NEW f \in Flows, SignInFails(f) PROVE OneSignIn'
  BY <1>4 DEF SignInFails
<1>5. ASSUME NEW f \in Flows, RegisterPush(f) PROVE OneSignIn'
  BY <1>5 DEF RegisterPush
<1>6. ASSUME NEW f \in Flows, BeginLogout(f) PROVE OneSignIn'
  BY <1>6 DEF BeginLogout
<1>7. ASSUME NEW f \in Flows, ForgetDevice(f) \/ DropToken(f) PROVE OneSignIn'
  BY <1>7 DEF ForgetDevice, DropToken
<1>8. ASSUME NEW f \in Flows, FinishLogout(f) PROVE OneSignIn'
  BY <1>8 DEF FinishLogout
<1>9. ASSUME NEW f \in Flows, LogoutFails(f) \/ SaveFails(f) \/ SaveUser(f) PROVE OneSignIn'
  BY <1>9 DEF LogoutFails, SaveFails, SaveUser
<1>10. ASSUME EditProfile \/ SignInRefused PROVE OneSignIn'
  BY <1>10 DEF EditProfile, SignInRefused
<1>11. ASSUME NEW r \in flight, Answer(r) PROVE OneSignIn'
  <2>1. r.sent \in Tokens
    BY <1>11 DEF Answer, Code
  <2>2. /\ UNCHANGED <<api, token, issued, stranded>>
        /\ \/ flow' = flow
           \/ \E f \in Flows : /\ flow[f] = Idle
                               /\ flow' = [flow EXCEPT ![f] = [awaits |-> "saveUser", of |-> r.sent]]
    BY <1>11 DEF Answer, Served
  <2> QED
    BY <2>1, <2>2
<1>12. ASSUME NEW r \in flight, Lost(r) \/ Reject(r) PROVE OneSignIn'
  BY <1>12 DEF Lost, Reject, Listener
<1>13. ASSUME Relaunch PROVE OneSignIn'
  BY <1>13 DEF Relaunch
<1>14. ASSUME NEW t \in Tokens, NEW code \in Verdicts \ {"valid"}, Revoke(t, code) PROVE OneSignIn'
  BY <1>14 DEF Revoke
<1>15. ASSUME UNCHANGED vars PROVE OneSignIn'
  BY <1>15 DEF vars
<1> QED
  BY <1>1, <1>2, <1>3, <1>4, <1>5, <1>6, <1>7, <1>8, <1>9, <1>10, <1>11, <1>12, <1>13,
     <1>14, <1>15 DEF Next, Handlers, Network, World

-----------------------------------------------------------------------------
(* SecureStore *)

LEMMA StoreFollowsStep ==
    ASSUME TypeOK, OneSignIn, StoreFollows, [Next]_vars
    PROVE  StoreFollows'
<1> USE MobileOwnersAssumption
    DEF TypeOK, StoreFollows, Server, History, Start, First, Free, Continue, End, Idle, Awaiting
<1>1. ASSUME NEW f \in Flows, NEW t \in Tokens, SignInAnswered(f, t) PROVE StoreFollows'
  BY <1>1 DEF SignInAnswered, SigningIn
<1>2. ASSUME NEW f \in Flows, StoreToken(f) PROVE StoreFollows'
  <2>1. token = None /\ \A g \in Flows : flow'[g].awaits = "storeUser" => g = f
    BY <1>2 DEF StoreToken, OneSignIn, Signing
  <2> QED
    BY <1>2, <2>1 DEF StoreToken
<1>3. ASSUME NEW f \in Flows, FinishSignIn(f) PROVE StoreFollows'
  <2>1. flow[f].of \in Tokens /\ \A g \in Flows : flow'[g].awaits # "storeUser"
    BY <1>3 DEF FinishSignIn, OneSignIn, Signing
  <2> QED
    BY <1>3, <2>1 DEF FinishSignIn
<1>4. ASSUME NEW f \in Flows, SignInFails(f) PROVE StoreFollows'
  BY <1>4 DEF SignInFails
<1>5. ASSUME NEW f \in Flows, RegisterPush(f) PROVE StoreFollows'
  BY <1>5 DEF RegisterPush
<1>6. ASSUME NEW f \in Flows, BeginLogout(f) PROVE StoreFollows'
  BY <1>6 DEF BeginLogout
<1>7. ASSUME NEW f \in Flows, ForgetDevice(f) \/ DropToken(f) PROVE StoreFollows'
  BY <1>7 DEF ForgetDevice, DropToken
<1>8. ASSUME NEW f \in Flows, FinishLogout(f) PROVE StoreFollows'
  BY <1>8 DEF FinishLogout
<1>9. ASSUME NEW f \in Flows, LogoutFails(f) \/ SaveFails(f) PROVE StoreFollows'
  BY <1>9 DEF LogoutFails, SaveFails
<1>10. ASSUME NEW f \in Flows, SaveUser(f) PROVE StoreFollows'
  <2>1. flow[f].of \in Tokens
    BY <1>10 DEF SaveUser, OneSignIn
  <2> QED
    BY <1>10, <2>1 DEF SaveUser
<1>11. ASSUME EditProfile \/ SignInRefused PROVE StoreFollows'
  BY <1>11 DEF EditProfile, SignInRefused
<1>12. ASSUME NEW r \in flight, Answer(r) PROVE StoreFollows'
  <2>1. /\ UNCHANGED <<token, user, disk, lateSave>>
        /\ \A g \in Flows : flow'[g].awaits = "storeUser" => flow'[g] = flow[g]
    BY <1>12 DEF Answer, Served
  <2> QED
    BY <2>1
<1>13. ASSUME NEW r \in flight, Lost(r) \/ Reject(r) PROVE StoreFollows'
  BY <1>13 DEF Lost, Reject, Listener
<1>14. ASSUME Relaunch PROVE StoreFollows'
  BY <1>14 DEF Relaunch, Usable
<1>15. ASSUME NEW t \in Tokens, NEW code \in Verdicts \ {"valid"}, Revoke(t, code) PROVE StoreFollows'
  BY <1>15 DEF Revoke
<1>16. ASSUME UNCHANGED vars PROVE StoreFollows'
  BY <1>16 DEF vars
<1> QED
  BY <1>1, <1>2, <1>3, <1>4, <1>5, <1>6, <1>7, <1>8, <1>9, <1>10, <1>11, <1>12, <1>13,
     <1>14, <1>15, <1>16 DEF Next, Handlers, Network, World

-----------------------------------------------------------------------------
(* What the session of the phone promises *)

MobileInv == TypeOK /\ OneSignIn /\ StoreFollows

LEMMA MobileInvariant == Spec => []MobileInv
<1>1. Init => MobileInv
  <2> SUFFICES ASSUME Init PROVE MobileInv
    OBVIOUS
  <2>1. TypeOK
    BY DEF Init, TypeOK, Idle, Verdicts
  <2>2. OneSignIn /\ StoreFollows
    BY DEF Init, OneSignIn, StoreFollows, Idle, Signing
  <2> QED
    BY <2>1, <2>2 DEF MobileInv
<1>2. MobileInv /\ [Next]_vars => MobileInv'
  BY MobileTypeStep, OneSignInStep, StoreFollowsStep DEF MobileInv
<1> QED
  BY <1>1, <1>2, PTL DEF Spec

\* Every variable of the phone keeps its type.
THEOREM MobileTypeCorrect == Spec => []TypeOK
<1>1. MobileInv => TypeOK
  BY DEF MobileInv
<1> QED
  BY <1>1, MobileInvariant, PTL

\* Outside a sign-in the API client asks as the session on screen, or as the
\* one of a sign-in SecureStore made fail (mobile/store/index.ts).
THEOREM ClientAsksForScreen == Spec => []ClientFollowsScreen
<1>1. MobileInv => ClientFollowsScreen
  BY DEF MobileInv, OneSignIn, ClientFollowsScreen
<1> QED
  BY <1>1, MobileInvariant, PTL

\* At whatever await the app dies, loadToken brings back the session on screen
\* or none.
THEOREM RestartIsSafe == Spec => []RestartKeepsSession
<1>1. MobileInv => RestartKeepsSession
  BY DEF MobileInv, StoreFollows, RestartKeepsSession, Usable
<1> QED
  BY <1>1, MobileInvariant, PTL

\* The profile in the store and the one in SecureStore are of the person their
\* tokens were issued to, until an edit is saved after its session ended.
THEOREM ProfileFollowsToken == Spec => []ProfileIsOwn
<1>1. MobileInv => ProfileIsOwn
  BY DEF MobileInv, StoreFollows, ProfileIsOwn, Usable
<1> QED
  BY <1>1, MobileInvariant, PTL

\* The push registration of whoever stays signed in is lost only to a late
\* sign-out of their own or to a late registration of another session: the
\* DELETE is by token and user (device_repository.go).
THEOREM PushIsKept == Spec => PushKept
<1>1. TypeOK /\ [Next]_vars => [PushLostForCause]_vars
  <2> SUFFICES ASSUME TypeOK, [Next]_vars, device' # device, device = Owner(token)
               PROVE  \E r \in flight \ flight' :
                         \/ r.kind = "forget" /\ Owner(r.sent) = Owner(token)
                         \/ r.kind = "register" /\ r.sent # token
    BY DEF PushLostForCause
  <2>1. PICK r \in flight : Answer(r)
    BY DEF vars, Next, Handlers, Network, World, Server, SignInAnswered, StoreToken, FinishSignIn,
           SignInFails, RegisterPush, BeginLogout, ForgetDevice, DropToken, FinishLogout,
           LogoutFails, SaveUser, SaveFails, EditProfile, Reject, Lost, SignInRefused, Relaunch, Revoke
  <2>2. r \in flight \ flight'
    BY <2>1 DEF Answer
  <2>3. \/ r.kind = "register" /\ device' = Owner(r.sent)
        \/ r.kind = "forget" /\ device' = DeleteByTokenForUser(Owner(r.sent))
    BY <2>1 DEF Answer, Served
  <2> QED
    BY <2>2, <2>3 DEF DeleteByTokenForUser
<1> QED
  BY <1>1, MobileTypeCorrect, PTL DEF Spec, PushKept

=============================================================================
