# SearchPet: a TLA+ verification project

SearchPet (Go backend, TypeScript web and mobile clients) helps people find
lost pets. This directory keeps TLA+ models of its core logic next to the code:
what the models say is translated from the source, TLC checks it on small
instances, and TLAPS proves every safety property of the passing runs for instances
of any size.

Contents

1. [The system](#1-the-system)
2. [Modules](#2-modules)
3. [The pet lifecycle](#3-the-pet-lifecycle)
4. [The WebSocket hub](#4-the-websocket-hub)
5. [The web client: session and shared socket](#5-the-web-client-session-and-shared-socket)
6. [The session of the phone](#6-the-session-of-the-phone)
7. [A conversation on screen](#7-a-conversation-on-screen)
8. [Likes of success stories](#8-likes-of-success-stories)
9. [One-time codes](#9-one-time-codes)
10. [Runs, bounds, fairness](#10-runs-bounds-fairness)
11. [What the runs refute](#11-what-the-runs-refute)
12. [Proofs](#12-proofs)
13. [What is not modelled](#13-what-is-not-modelled)
14. [Plan](#14-plan)

How to run, in this directory:

    tlc -workers 2 -config PetSerial.cfg MCPetLifecycle
    tlc -workers 2 -config ChatThread.cfg MCChatThread
    tlapm StoryScreensProofs.tla

`Pet*.cfg` go with `MCPetLifecycle`, `Hub*.cfg` with `MCWebSocketHub`,
`WebClient*.cfg` and `SessionLate401.cfg` with `MCWebClient`, `Mobile*.cfg` with
`MCMobileSession`, `Chat*.cfg` with `MCChatThread`, `StoryScreens.cfg` and
`OtpCodes.cfg` with the module `MC` plus their name.
PROJECT.json lists the runs, their properties, the source lines each definition
stands for, the mutants that show a property can fail, the hazards and the
findings.

## 1. The system

The backend is one Go process (`src/backend`): HTTP handlers call services,
services call gorm repositories over PostgreSQL and publish to an in-process
event bus. Messages reach the clients through a WebSocket hub, or FCM when the
user is not connected.

| Component | State it keeps | Operations | Hard behaviour | Correct when |
| --- | --- | --- | --- | --- |
| Pet lifecycle (`service/pet_service.go`, `report_service.go`, `episode_service.go`, `helper_confirmation.go` and repositories) | rows of pets, episodes, reports, pet_helper_credits, platform_events | create, edit, mark found, publish lost, report, delete, moderate a report | a pet is read outside the transaction that changes it; closure report, clock, event and ledger row are written after the commit, each of them best effort | status and search move together; one search at a time; a helper is credited once; the ledger counts what happened; the last-seen clock agrees with the reports |
| Real-time hub and tickets (`internal/websocket`) | ticket store, registry, three hub channels, one channel per client, badge timers | issue and consume a ticket, upgrade, read, write, SendToUser, end a user's sessions | a goroutine Run with `select`, two goroutines per connection, timers and bus handlers; channels that fill, close and block | a ticket opens one connection; a live session is reachable; a session that was ended goes away |
| Web session and socket (`web/src/context/AuthContext.tsx`, `shared/hooks/useWebSocket.ts`, `shared/api/client.ts`) | token and profile in React, in the API client and in localStorage; the query cache; one socket, its generation and backoff | sign in, sign out, load the page, be rejected, subscribe, connect, retry | nothing cancels a request when the session changes; tickets, timers and sockets of an older generation answer late | what is cached, shown and received belongs to whoever is signed in; one socket at a time; a rejected session ends |
| Phone session (`mobile/store/index.ts`, `mobile/utils/notifications.ts`) | store, API client, two entries of SecureStore, the device's push registration | sign in, sign out, edit the profile, start the app | every await of a handler lets a 401, another handler or the death of the app in | the copies agree; a restart brings back the session on screen or none |
| Chat screens (`shared/hooks/index.ts`, `ChatPage.tsx`, `chat/[userId].tsx`) | cached thread, unread badge | send, receive, mark read, refetch | optimistic entries, fetches that cancel each other, sends answered out of order | what is shown as sent was sent, once; the screen comes to rest on what the server keeps |
| Likes of stories (`success_story_repository.go`, `shared/hooks/index.ts`) | story_likes, like_count; two cached entries | like, unlike | a counter recomputed from a snapshot; optimistic toggles from two pages | the heart is the person's own; the counter is the number of rows |
| One-time codes (`verification_service.go`, `password_reset_service.go`, `verification_token_repository.go`) | verification_tokens, an advisory lock | request, confirm | count and mint under a lock held by another connection; mails and deletes that fail; concurrent guesses | the mail quota holds; a code nobody got costs nothing; guesses are bounded; requests end |
| Accounts (`auth_service.go`, `middleware/auth.go`, `user_repository.go`) | users | register, log in, link Google, edit, ban | whole-row saves of `users`; JWTs invalidated by comparing times in seconds | no session survives a reset or a ban |
| Messaging and blocks (`message_service.go`, `block_service.go`) | messages, blocked_users, conversation_hides | send, read, hide, block | a block racing a message, unread counts read while messages arrive | nobody gets a message from a user they blocked; a hidden conversation comes back with a new message |
| Gamification (`gamification_service.go`, `review_service.go`, `share_service.go`) | points, badges, reviews, share credits | award on an event, review, share | event handlers in goroutines, lost on a restart; retries | points match the events; share credit once per user and pet |
| Event bus, push, location alerts (`event/event_bus.go`, `notification_service.go`, `location_alert_service.go`) | subscriptions, device tokens, alerts | publish, subscribe, create an alert | sync and async handlers, recovered panics, a cap checked before an insert | a handler never stops its publisher; the cap holds |
| Moderation (`foster_home_service.go`, `shelter_service.go`, `success_story_service.go`, `abuse_report_service.go`, `admin_service.go`) | review queues, users.role and banned | submit, approve, reject, ban, change role | two moderators on one entry; edits after approval | only reviewed content is public; a decision is taken once |
| Local groups (`group_service.go`) | groups, members | create, join, leave | member counter against rows | the last admin does not leave silently |
| Photos and embeddings (`photo_service.go`, `embedding_service.go`) | photos, pet_embeddings | upload, delete, backfill | two stores (Cloudinary and the table), external calls that fail | a photo has its row and its file or neither |
| Vets and OSM import (`osmimport/`, `vet_service.go`) | vets | import, sweep | one import at a time; a partial download before a sweep | a failed import deletes nothing |
| Rate limiter (`pkg/ratelimit`) | window counters | allow | window edges; Redis failure | at most N per window |
| Other screens (`src/frontend/packages`) | forms and lists | one request per button | little | |
| Handlers, wiring, quotas, mailer, storage | none | | | |

Interactions that matter to the models:

- pet and report services publish `pet.lost`, `pet.stray`, `pet.found` (with the
  helpers credited) and `report.created` on the bus after their transaction;
  gamification and notifications consume them. In `PetLifecycle` the announcement is the step
  `Publish`, and `paid` counts what gamification was told.
- `notification_service.onMessageSent` asks the hub whether the receiver is
  connected and then sends (`Notify`, then `Snapshot`), from a goroutine of the bus.
- moderation and password reset call `EndUserSessions` (`ticket.go`), which
  revokes tickets and disconnects sockets (`Ban`, `RevokeUser`, `BeginDisconnect`,
  `Disconnect`).

- the hub's `chat_message` envelopes reach the chat screens over the one socket of
  `ClientSocket`; in `ChatThread` that socket is `wire`, which may break.
- a ticket for the socket is asked for with the token the session holds at that
  instant: `WebClient` composes `WebSession` and `ClientSocket` on it.
- the change of session empties the query cache (`AuthContext.tsx:80`) but leaves
  mutations running: `WebSession` (profile), `StoryScreens` (likes).

## 2. Modules

| Module | What it is |
| --- | --- |
| `PetStatus` | the status machine (`domain/status_machine.go`) and which statuses are an active search (`domain/episode.go`); no state |
| `PetContract` | the abstract specification: status and search of a pet move together along the status machine |
| `PetLifecycle` | the services and repositories of the pet lifecycle, one database statement at a time |
| `MCPetLifecycle` | symmetry sets for TLC |
| `PetLifecycleProofs` | what holds of the pets with any number of overlapping requests |
| `PetSerialProofs` | what holds of them one request at a time, the refinement of `PetContract` included |
| `WebSocketHub` | tickets, connections, the goroutine Run, SendToUser, the end of sessions |
| `MCWebSocketHub` | symmetry sets for TLC |
| `WebSocketHubProofs` | type correctness, single-use tickets, reachability of live sessions and the permanence of a blocked Run, for every value of the constants |
| `WebSession` | who is signed in in one browser tab: React state, API client, localStorage, query cache |
| `ClientSocket` | the shared socket manager of `useWebSocket.ts` |
| `WebClient`, `MCWebClient` | the two together: screens subscribe, tickets carry the session's token, 401s end it; people and tokens for TLC |
| `WebClientProofs` | the socket manager, the session and whose socket it is |
| `MobileSession`, `MCMobileSession` | the auth store of the phone, SecureStore and the push registration |
| `MobileSessionProofs` | who is signed in on the phone, after a restart too |
| `ChatThread`, `MCChatThread` | one open conversation and the unread badge, web and phone |
| `ChatThreadProofs` | what the thread shows, at every moment and at rest |
| `StoryLikes` | the like transactions, one statement at a time |
| `StoryScreens`, `MCStoryScreens` | the hearts of two pages over `StoryLikes`; symmetry |
| `StoryScreensProofs` | when the counter is right, and the hearts |
| `OtpCodes`, `MCOtpCodes` | the one-time codes of a channel; limits for TLC |
| `OtpCodesProofs` | the mail quota, the limit on guesses, what spends the quota |

`WebClient` instantiates `WebSession` and `ClientSocket`, `StoryScreens` extends
`StoryLikes`. `PetLifecycle` EXTENDS `PetStatus` and instantiates `PetContract` with a
refinement mapping. Pets and hub meet only through the event bus and the
database of users; no module composes them yet (see the plan).

## 3. The pet lifecycle

**State.** `pets[p]` is a row of `pets` reduced to status, owner, reporter,
`current_episode_id` (`cur`), `last_reported_at` (`clock`) and `version`;
`eps[p]` the episodes of p in the order they were opened; `reports[i]` a row of
`reports`; `credits` the rows of `pet_helper_credits`; `ledger[p]` how many rows
of each type p has in `platform_events`; `paid` what gamification was told;
`req[r]` the state of a request between two database statements. `deletions` is a
history variable that lets `PaidOnce` speak of a pet that was deleted and written
again.

**Steps.** A request is an actor with a program counter:

    Begin*  ->  [TxRead]  ->  Commit*  ->  [LoadReport]  ->
       [CreateClosure -> TouchClosure]  ->  Publish / RecordStat  ->  idle

- `Begin*` is the part of a handler before its transaction: the read of the pet,
  authorisation, `ValidateTransition`, the check of the proposed helpers. What it
  read stays in `req[r]` and may be stale when it is used.
- `Commit*` is the transaction. PostgreSQL runs READ COMMITTED and the first
  statement of each of these transactions updates the row of the pet, so two of
  them on one pet are serialised by the row lock: the transaction is one step,
  taken when the lock is granted. Every rule that depends on the row is applied
  with what was read earlier where the code does so (`UpdatePet` saves the struct
  it read) and with the current row where SQL does (`UpdateStatus`, `FindCurrent`).
- `TxRead` is separate because `CreateReport` reads the pet inside its transaction
  but without locking it.
- `Save` is gorm's: every column except `last_reported_at`, which is omitted,
  and an INSERT when the row is gone. The foreign key of
  `current_episode_id` can then refuse it (`EpisodeExists`).
- `UpdateStatus` on a deleted pet updates no row and reports no error.
- `CreateClosure`, `TouchClosure`, `Publish`, `RecordStat` are the best-effort
  steps after the commit. With `Failures` each of them can fail
  (`BestEffortFails`), a transaction can roll back (`Abort`) and the server can stop
  (`Crash`), which forgets every request in flight.
- moderation deletes a report and then recomputes the clock; the UPDATE takes
  its snapshot (`RecomputeSnapshot`) before it has the row lock
  (`RecomputeLastReported`).

**What it leaves out.** Names, descriptions, photos and locations; `VerifyReport`,
which changes nothing the other operations read; the searches, which change
nothing. The helpers proposed in a request are enumerated only where the code
reads them, when the pet may become found.

## 4. The WebSocket hub

**State.** `tickets[t]` is an entry of `TicketStore`; "spent" stands for used,
expired and deleted, which `Consume` treats alike. `conn[c]` is a `Client`
with the handler that serves it: `reader` is how far that goroutine has come,
`buf` and `closed` are the channel `send`, `sock` says that the socket is open.
`clients`, `register`, `unregister`, `inbound` are the fields of `Hub`, `badge` the
armed timers, `sender[s]` a call of `SendToUser` in progress in Run, a badge timer or a
handler of the bus, `ending[u]` the progress of `EndUserSessions`.

**Steps.** One step is one statement on shared state: a channel operation, what
is done under one lock, the close of a channel or of a socket. A blocking channel
operation is a guard. In detail:

- `Connect` is `Consume` (under the store's lock). The new client is
  "accepting" through the upgrade and while it waits for room in `register`; `Accept`
  is the moment it gets in. A message read from the socket goes to `inbound`
  in the same step (`Read`), and a failed read and the deferred `unregister <- c` are
  one step (`Leave`), taken when there is room: in between the goroutine does
  nothing that others see.
- `Write` may take for ever: `conn.Write` has no deadline. Once the socket is
  closed the writer fails and has no further effect, so it has no state of its own.
- `Snapshot`, `Send`, `ForceClose`, `Unregister` are the statements of `SendToUser`.
  A send on, or a second close of, a closed channel panics. The bus recovers a
  panic of its handlers; in Run and in a timer nobody does, and the process ends
  (`alive`). Properties are stated up to that point.
- Run sends too: it tells the other users that somebody who left stopped typing. When
  one of them overflows it queues that client on `unregister`, the channel that only Run
  receives from; if leaving readers have filled it, Run waits for itself (`RunBlocked`).
- Run's `select` is the disjunction `RunStep`. The registry is a set, so a
  delivery order is not assumed (the code ranges over maps).
- sessions end by a ban in the model; a password reset calls the same
  `EndUserSessions`.

**What it leaves out.** The text of messages; the calls into the message service
that a read receipt makes; `Hub.Close`, which the server never calls. The reset of a
badge timer that has already fired, which may run the function twice and only
sends a count again, is folded into one timer. A restart is `Init`: all of this
state is in memory.

## 5. The web client: session and shared socket

**`WebSession`.** `api` is `apiClient.token`, `token` and `user` the React state of
`AuthProvider`, `seen` what the last commit rendered, `cache` whose data each
private query key holds, `disk` localStorage, `flight` the requests that were sent
and not answered, each with the token it was sent with. The server's opinion of a
token is `verdict`. React state changes at once; the effects that follow it (the
`clear()` on a change of identity, `getMe`, the write to localStorage) run in `Commit`, a
step of its own, because an answer may land in between. An answer lands in whatever
session is there: the guards of the code (`cancelled`, `mismaSesion`) are the guards of
the actions. `refreshUser()` has none. `ProfileIsOwn` is stated up to it, and so is
`CacheIsOwn`: once its answer has put the profile of one session next to the token of
another (`Stranger`, recorded in the history variable `mixed`), the identity that
`AuthContext.tsx:80` compares is no longer that of the token.

**`ClientSocket`.** The module-level variables of `useWebSocket.ts` by their names:
`subscribers`, `generation`, `socket`, the reconnect timer, `retryDelay`,
`connectionState`; `tickets` are the calls of `connect()` that await their ticket,
`sockets` the objects the browser still knows, attached or not.

**`WebClient`** composes the two: a ticket is asked for with the token the API client
holds; a rejected ticket is a 401 of the session; the layout subscribes while somebody
is signed in, the chat page while it is open. `SocketIsOwn` speaks of
both: what reaches the screens was opened for the person they render.

Left out: the bodies of envelopes, `badge_update`, and what tells the other methods of
the API client apart: each is one `flight`.

## 6. The session of the phone

`MobileSession` has a handler of the store in progress per element of `Flows`; what
it awaits is where it is. `storeToken` and `storeUser` are the two writes of a sign-in,
`pushToken`, `dropToken` and `dropUser` the awaits of a sign-out. `Listener` is the handler
of `auth:session-expired`, `Reject` the `doFetch` that takes the token away before the
listener has looked at the code, `Relaunch` the death of the app at any point and
`loadToken` after it. SecureStore may refuse a write (`SignInFails`,
`LogoutFails`, `SaveFails`). `device` is the row of device_tokens of this phone.

Assumed: `loadToken` runs without a sign-in in the middle and its reads succeed; the
two deletes of the listener succeed; one sign-in form is open at a time; the reads
of an edit and its request are one step. `stranded` and `lateSave` are history: they
name the two cases in which the promises do not hold, a sign-in that SecureStore
refused after the client had the token, and an edit saved after its session ended.
`RestartKeepsSession` demands that what a restart brings back is the session on screen or
none; only the second case is excused.

## 7. A conversation on screen

`ChatThread` keeps one open conversation. `thread` is the cached query
`['messages', userId]`, `badge` the unread count, `getThread` and `getBadge` their
fetches; `rows` and `read` are the server's table. The query cache is modelled by the four
things the code relies on: `invalidateQueries` cancels the fetch of an active query that has data and
starts another, but leaves a first load alone (`Absorbed`); `cancelQueries`
forgets the fetch; a landing fetch overwrites; `resetQueries` starts over. One
GET is three steps: the page is selected, then everything is marked read
(`message_service.go:175`), then it lands. A send may be stored after the client gave
up on it. On the phone an envelope is appended, every new value of the thread marks
its unread messages, and a send waits for the one before; on the web an
envelope invalidates, and Enter submits while a send is pending.

`PendingKept` says when the entry of a pending send may leave the screen: for the answer to
a fetch asked after it, or when a send that began without a cached thread fails, because
`resetQueries` erases the whole thread, the other send's entry included. Only the web, where
sends overlap, can meet the second case; section 11 shows it (ChatReset).

`RestShowsServer` compares which messages are on screen with those of the server's first
page; not their order, not what is marked read, and not the badge, of which
`BadgeSettles` speaks. It excuses in `missed` what the client was never told of in time: an
envelope lost with the socket, a message stored after its failure was
shown, or news that fell into a first load, which absorbs it.

Left out: the list of conversations, blocks, typing, the text in the composer. On the web the
`onError` that restores that text is called only for the last of overlapping
sends, and on the phone the `onSuccess` clears what was typed meanwhile; no
property is about the composer.

`WithoutOwn` is the rollback of a failed send: it removes the one entry that stands for
it. Messages are numbered as they are sent, and finitely many come in
(`TrafficAssumption`).

## 8. Likes of success stories

`StoryLikes` is the database: a call of AddLike or RemoveLike writes the person's
row, counts, and commits. The count is the subquery of one UPDATE, which at READ
COMMITTED keeps the snapshot the statement started with while it waits for the
story's row; hence `Recount` and `Commit` are two steps, and two overlapping calls lose
one. `raced` and `behind` are history variables that say when.

`StoryScreens` is one browser: the list and the page of a story, each with its entry of
that story, the optimistic toggles, the rollback to the entries they found, the
invalidation that follows, and another person signing in while calls are in
flight. These hooks have no `mismaSesion`, so a late answer writes one person's heart into
another's cache. `HeartTellsTruth` holds on both pages all the same whenever no call of
this browser is pending and nothing will ask for the entry again (`Settled`), because
`onSettled` always asks again. `unsure` marks an entry read before the server moved for a call
this browser had given up on.

Left out: like_count on screen, a failing `LikedStoryIDs` (the handler then answers
that nothing is liked), deleted stories, visitors without an account.

## 9. One-time codes

`OtpCodes` is one channel of `verification_tokens`. A request is

    allowed -> waiting -> locked -> counted -> minted -> [retiring] -> mailing -> ended

`WithChannelLock` holds the lock in a transaction of its own, on its own connection;
what runs under it commits on another. So the lock may be lost (`LoseLock`, `cut`)
while the function goes on, and the code it minted is withdrawn when the
transaction cannot commit (`EndLock`). Statements may fail and the server may die
(`Dies`); a failed delete leaves its row (`orphans`). Both channels run the same steps,
but a reset retires the account's other codes before it mails, and mails after it
has answered. A guess reads the newest unused code, adds one to its
counter, reads it back and compares. The rows are the set `codes`, with the request
that minted a code as its id and `created` as its `created_at`.

`mailed` are the codes whose mail the provider acknowledged. A provider that delivers
and answers with an error sends one mail more than the quota counts; the
code accepts that (`password_reset_service.go:336`).

Left out: everything happens within one window of the quota, so codes neither
expire nor are reaped; the guards before the lock are read in one step, as are a
confirmation's mark and its save of the account; `users` itself.
`ConnectionFree` is TRUE because the pool has no limit; with one, the requests waiting
for the lock keep its holder from finishing, as `verification_token_repository.go:130`
warns and the mutant of `RequestsEnd` shows.

## 10. Runs, bounds, fairness

| Run | Question | Bounds | Result |
| --- | --- | --- | --- |
| PetSerial | does one request at a time, with failing statements and crashes, implement `PetContract`; does the pointer name the newest episode; does the ledger count only what happened | 2 users, 1 pet, 2 reports, 2 episodes, 2 versions, 1 deletion, 2 reunions | holds, about 238 000 states |
| PetClock | is the clock the newest sighting between requests, with sightings filed in any order and moderated away | 3 reports, 2 instants, 2 episodes | holds, about 96 000 states |
| PetConcurrent | what survives two requests interleaved at every statement: `PaidOnce`, `NoManagerCredited`, `ReferencesLive`, `StartedWithinOpened`, `ClockFallsOnlyOnRecompute` | 2 requests, 2 users, 1 report, 2 episodes, 1 deletion | holds, about 690 000 states |
| HubServe | single-use tickets and reachability of live sessions | 2 users, 2 tickets, 2 connections, every channel of size 1, 1 message, 2 events, 1 ban | holds, about 887 000 states |
| HubLive | do overflowed and cut sessions leave the registry, unless the process ended or Run blocked itself | 2 users, 2 tickets, 2 connections, every channel of size 1, no message, 1 event, 1 ban | holds, about 75 000 states |
| WebClient | are cache, profile and socket those of the person signed in; is there one driver of one socket | 2 users, 2 tokens, 2 screens, 2 sockets, 1 request in flight, 3 generations, 1 reload | holds, about 948 000 states |
| WebClientLive | does a rejected session end, does a good one get connected | 1 token, 2 screens, 2 sockets, delays 1 to 4 | holds, about 7 000 states |
| MobileSession | do client, screen, disk and push registration keep to one person | 2 users, 2 tokens, 2 handlers and 2 requests at once | holds, about 1 290 000 states |
| ChatThread | does the thread come to rest on the messages the server keeps, the badge on what is unread, with every overlap of sends, envelopes and fetches | 2 sends, 1 incoming message, both platforms, everything on one page | holds, about 500 000 states |
| ChatFirstPage | does a message the server confirmed stay on screen | the same, pages of one message | violated, see section 11 |
| StoryScreens | are hearts true at rest; does the counter drift only by overlap | 3 people, 2 of them at this browser, 2 calls, 2 pages | holds, about 2 740 000 states |
| OtpCodes | do the mail quota and the limit on guesses hold, does every request end | 2 accounts, 2 requests, 2 guesses, 1 attempt, limits of 1 and 2 codes, both channels | holds, about 116 000 states |

*Why the bounds are enough.* Pets do not share rows, so one pet is general. Every
race of the pet services is between what one request read and what another
committed, so two requests reach it; a second episode, version, deletion and
reunion are what a stale value needs to differ from the current one. Three reports
are needed to have two sightings out of order and one to remove. The two
pet runs with a single request exist because some properties hold only for
serial requests: section 11 shows what two do to them. In `PetConcurrent`
`MaxVersion = 1` means that no edit changes the status there; status edits are in
PetSerial and, in pairs, in PetStaleSave. For the hub two users tell a user from
another and two connections a device from its sibling; an overflow needs
`SendBufSize + 1` messages to one client, which one event and one message of Run
provide with buffers of size one: a typing event or, when the other user's connection
leaves, a typing_stop. Either may be the one that overflows, so both a handler of the bus
and Run force-close in HubLive, and its `unregister` of size one is full when one reader
has left. Badge timers and messages of clients are in HubServe only: with them the
liveness run does not end in reasonable time, and a timer is one more sender.

For the clients two tokens, of two people or of one, tell a session from the next;
one request in flight is enough on the web because answers only write what their
own guards let through, and two on the phone because a late DELETE has to
meet a registration. Two sends are what a rollback by snapshot needs to go wrong, and one
incoming message can be pushed, fetched, marked and counted in any order with
them. The counter of a story needs two overlapping calls. For the codes two
requests are a holder of the lock and a waiter; email is full for one account before it
is full for all, recovery the other way round, so both limits are reached.

*Names of the bounds.* `Tokens`, `MaxFlight`, `MaxGeneration`, `MaxReloads`,
`SocketIds`, `Flows`, `Sends`, `Incoming`, `Page`, `Toggles`, `Requests` and
`Guesses` bound the clients, the likes and the codes. `MaxEpisodes`, `MaxVersion`, `MaxDeletions`, `MaxReunions`,
`ReportIds` and `Times` bound the pets; `Ticket`, `Conn`, `MaxInbound`,
`MaxEvents`, `MaxBans` bound the hub (a request for a ticket is only modelled while `Ticket` has one left for it). The capacities of the channels are constants of
the code (8 for `register` and `unregister`, 256 for `inbound` and `send`), parameters here. The bounds stop arrivals in
the end, and the hub can also end in a panic, so the runs of pets and hub do not check deadlock;
blocked goroutines are what the liveness properties of HubLive are about. The bounds also end
the traffic of WebClient and OtpCodes; MobileSession, ChatThread and StoryScreens
never stop and check deadlock.

*Fairness.* None for pets: users need not ask. `FairSpec` of the hub has weak
fairness of each goroutine that is never left waiting by the scheduler: the cases
of Run together, each sender, each reader, the writer's close of its socket, the
loop that ends sessions. There is none for clients, for `Write` (a peer need not
read), for tickets, bans, messages or timers. Weak fairness is enough because the
traffic of a run is finite; under unbounded traffic the random choice of Go's
`select` would have to be stated as strong fairness of each case.
`ForceClosedLeaves` and `CutSessionLeaves` have two exceptions: a panic has ended the
process, and `RunBlocked`. The second is a defect of the code that HubLive reaches, not a bound:
one overflow in Run's own broadcast is enough once leaving readers have filled
`unregister` (8 entries in the code, 1 in the run), and then every reader, sender and
session of the hub waits for ever. HubBlocked (section 11) is the shortest case, and
`BlockedRunStaysBlocked` (section 12) says for every capacity that nothing ends it.

`WebClient`: React commits what it was given; the backoff timer fires; the badge's
30 s poll goes on (strong, because other requests take its place); each request
ends; and a network that delivers again and again delivers a rejection, a ticket
and an open. `ChatThread`: the poll fires, requests end
(`fetchWithTimeout` gives up after 45 s), and a server asked again and again
answers. Nobody has to write, send or sign in. `OtpCodes`: statements return, and
the advisory lock is granted in the order it was asked for, which PostgreSQL's lock
queue does; hence strong fairness of `Lock`.

The type invariants of `ChatThread`, `StoryScreens` and `OtpCodes` are not among the
properties of their cfgs: they are proved (section 12).

*Mutants.* Each property of a passing run has a mutant of a mapped definition (a
clock written without the comparison, the reporter left among the helpers, a ticket
that is not marked, a removal that takes the sibling devices, ...) for
which TLC finds it violated under the same cfg.

## 11. What the runs refute

Each row is a cfg that TLC refutes. ChatFirstPage is run with the others; the rest
are kept beside them to reproduce what they show.

| Configuration | The repository says | The code does |
| --- | --- | --- |
| ChatFirstPage | after a send "a later refetch lands in server order", the message "in its real chronological place" (`hooks/index.test.ts:581`) | the client asks for the first 50 messages and the server orders them oldest first (`client.ts:752`, `message_repository.go:101`): from the 51st on, a message leaves the screen when the server confirms it |
| ChatReset | a failure that "erases a sibling send's own optimistic message that is still pending" is a bug (`hooks/index.ts:592`) | when the first of two overlapping sends began before any thread was cached, its `resetQueries` (line 670) erases the second one's message until it is fetched |
| SessionLate401 | the event announces that the server rejected our credentials (`client.ts:162`) | a 401 for a request of the session before ends the one that came after |
| MobileHalfSession | an ordinary 401 does not touch a live session (`mobile/store/index.ts:205`) | it takes the token from the API client: signed in on screen, anonymous on the wire |
| PetStaleSave | unlisted transitions are rejected (`domain/status_machine.go:4`) | two edits that read the same row both commit; the second one moves the status from a value it never saw |
| PetTwoSearches | an episode is one continuous search (`domain/models.go:197`) | publishing a lost pet as lost opens a second episode and the first is never closed |
| PetDoubleFound | the ledger counts reunification episodes (`domain/platform_event.go:12`) | two requests that mark the pet found both record a reunion |
| PetClockRace | the clock agrees with the newest row of the history (`pet_service.go:687`) | the recomputation after moderation can overwrite the touch of a report that committed in between |
| HubGhost | `IsConnected` tells of active connections (`hub.go:112`) | unregister can be taken before register; the connection then stays in the registry |
| HubCut | a socket opened in between is still closed (`ticket.go:82`) | not when its client is still in the upgrade or in the channel |
| HubBlocked | `SendToUser` is "Non-blocking" (`hub.go:121`) | a reader that left has filled `unregister`; Run, telling the others, meets a full buffer and waits for room that only it could make |
| HubStalled | a client with a full buffer is force-closed (`hub.go:121`) | its channel is; its socket stays open while the writer is stuck |

Three more divergences have no configuration. AddLike is said to recompute like_count
"from the row count, inside a single transaction"
(`success_story_repository.go:127`), but at READ COMMITTED two overlapping likes each
count without the other: `CounterIsRowCount` of `StoryLikes` states it and is false;
what remains true is proved (section 12). "El cooldown de 60s serializa a un mismo usuario"
(`verification_service.go:138`) does not hold either: the cooldown is
read before the lock, so two requests of one account pass it together, and in a password
reset each then retires the other's code, so that two mails arrive and neither code
works. And `domain/models.go:135` calls `pets.version` the
counter of the row's changes, but of the five paths that change the status only `UpdatePet`
increments it. PetStaleSave shows the consequence.

Every late write of the shared hooks is guarded by the token it started with
(`hooks/index.ts:71`), but `refreshUser()` (`AuthContext.tsx:259`) is not: asked by one
person and answered after the next one signed in, it puts the profile of the first next to
the token of the second, on screen and in localStorage, and what the second then writes
enters the cached thread under the first one's id. `CacheIsOwn` is stated up to it; without `~mixed`
and with two requests in flight TLC finds it violated in just that way.

## 12. Proofs

The theorems are about `Spec` of each module, for every value of the constants that
meets the named assumptions. Every invariant and every action property of every passing run is among
them; the runs find out cheaply whether a formula holds, the theorems say that the
bounds of section 10 are not what makes it hold.

| Module | Theorem | States | Inductive invariant |
| --- | --- | --- | --- |
| PetLifecycleProofs | `TypeCorrect` | `TypeOK` | itself; its part `Formed` says which fields of a request are set at each step |
| | `HelperPaidOnce` | `PaidOnce` | `TypeOK /\ PaidOnce` |
| | `ReferencesStayLive` | `ReferencesLive` | `TypeOK /\ ReferencesLive` |
| | `NoManagerIsCredited` | `NoManagerCredited` | with `ManagersAgree` |
| | `ClockRarelyFalls` | `ClockFallsOnlyOnRecompute` | `TypeOK` |
| | `StartsAreSearches` | `StartedWithinOpened` | `StartsCounted`, with `AllAimed` |
| PetSerialProofs (`OneAtATime`) | `CurrentStaysNewest` | `CurrentIsNewest` | `SerialInv` |
| | `ServicesKeepContract` | `ImplementsContract` | `SerialInv` |
| | `ReunionsAreSearches` | `FoundWithinReunions` | `ReunionsCounted`, with `SerialInv` |
| | `ClockIsTheNewestSighting` (and `~Failures`) | `ClockIsNewestSighting` | `AllClocked`, with `SerialInv` and `ReferencesLive` |
| WebSocketHubProofs | `HubTypeCorrect` | `TypeOK` | `TypeOK /\ InHand` |
| | `TicketIsSingleUse` | `TicketOpensOneConnection` | with `TicketInv` |
| | `LiveSessionsStayReachable` | `LiveSessionReachable` | `ReachInv` |
| | `BlockedRunStaysBlocked` | a step from `RunBlocked` ends in `RunBlocked` | `TypeOK /\ InHand /\ InSnapshot` |
| WebClientProofs | `ClientTypeCorrect` | `TypeOK` | `ClientInv` for all of them: `SocketInv`, `SessionInv` (`Loyal`, `Unmixed`), `OwnSocket` |
| | `OneDriverAlways`, `NoOrphanEver`, `StateIsTrue` | `OneDriver`, `NoOrphan`, `StateTellsTruth` | `SocketInv` |
| | `SocketBelongsToSession` | `SocketIsOwn` | `OwnSocket` |
| | `CacheBelongsToSession`, `ProfileBelongsToSession` | `CacheIsOwn`, `ProfileIsOwn` | `SessionInv` |
| MobileSessionProofs | `MobileTypeCorrect` | `TypeOK` | `MobileInv` for all of them: `OneSignIn`, `StoreFollows` |
| | `ClientAsksForScreen`, `RestartIsSafe`, `ProfileFollowsToken` | `ClientFollowsScreen`, `RestartKeepsSession`, `ProfileIsOwn` | |
| | `PushIsKept` | `PushKept` | |
| ChatThreadProofs | `ChatTypeCorrect` | `TypeOK` | `ChatInv` |
| | `FailedIsNotShown`, `DrawnOnce`, `PendingIsKept` | `NothingFalselySent`, `NothingTwice`, `PendingKept` | `ChatInv` |
| | `RestIsTheServer` | `RestShowsServer` | `RestInv`, with `ChatInv` |
| StoryScreensProofs | `LikeTypeCorrect`, `ScreenTypeCorrect` | the types of tables and screens | with `Owned` |
| | `DriftNeedsOverlap`, `ScreensDriftOnlyFromOverlap` | `DriftOnlyFromOverlap`, of the table alone and behind the screens | `LikeIInv` |
| | `SerialCountIsExact` | with one call at a time, like_count is always the number of likes | an open call was begun alone, so nobody is ever behind |
| | `HeartsTellTheTruth` | `HeartTellsTruth` | `HeartInv` |
| OtpCodesProofs | `OtpTypeCorrect` | `TypeOK` | `OtpInv` |
| | `MailQuotaHolds`, `GuessLimitHolds`, `OnlyMailSpendsQuota` | `QuotaHolds`, `GuessesBounded`, `OnlyMailCounts` | `OtpInv` |

*Assumptions.* Finite `Requests`, `Times`, `People`, `Incoming` and the like, wherever something is
counted; bounds in `Nat`, capacities and the page at least one; `Sends` a set of
numbers, because a message written later has the greater one; null values that are no
user, row, id or entry (`NilAssumption`, `RowsAssumption`, `IdsAssumption`,
`NoneAssumption`); every token has an owner (`OwnersAssumption`,
`MobileOwnersAssumption`); a browser's members are people (`MembersAssumption`). None
bounds the number of actors, calls, rows or messages. The bounds of section 10 stay in
the specifications as guards, and the theorems hold for every value of them.

*PaidOnce.* `paid` plus what requests still have to announce is at most the
deletions of the pet plus one if the credit row is there. It is inductive because
`InsertCredits` returns only pairs that were not in the table (the unique index and
`ON CONFLICT DO NOTHING ... RETURNING`), a commit puts into the table what it puts
into the request, `Publish` moves one from pending to paid, and only a deletion takes
a row out of the table, which raises the other side. The lemmas
`PaidOnceKept`, `PaidOnceCredited` and `PendingShrinks` are these cases.

*Credits and managers.* `NoManagerCredited` is not inductive: a stale `Save` may
bring a deleted pet back, with the owner and the reporter that it read. `ManagersAgree`
says that all the updates in flight of one pet read the same two, those of the row
while there is one, and that a row that is gone was deleted, so that its id is not given
again; no operation changes the two of a pet that exists.

*Starts.* A request owes one `search_started` from its commit until it records it or
loses it. `StartsCounted` adds what is owed to what is recorded, and `AllAimed` says
what a request will do about it: a transition it validated on what it read.

*One request at a time.* `OneAtATime` says that `Requests` has at most one element: the
server takes the next request when the one before has ended, died or given up. The
four properties under it are false with two, and not because of the model: an overlapping pair breaks
`CurrentIsNewest` and the contract (a stale `Save`, PetStaleSave), `FoundWithinReunions`
(PetDoubleFound) and `ClockIsNewestSighting` (PetClockRace). What overlap does not break is in
`PetLifecycleProofs`, which has no such hypothesis. Failing statements and crashes stay
allowed, but for the clock: a closure report whose `TouchClosure` fails leaves the
clock behind, which the code logs and accepts (`pet_service.go:683`). The argument:
what a request read before its transaction is what the row holds when it commits
(`AllFresh`), so that status and search change together along a validated
transition. `Sound` says this of a pet: episodes were opened in order, the current one
is the last, and it is open exactly while the status is an active search. The lemma `ContractStep` is
the refinement step by step: a transaction that changes a pet is a step of
`PetContract`, every other step a stutter. For the clock, `Clocked` follows a pet
between the statement that changes its reports and the one that moves the clock: the
value on its way, rather than the clock, is then the newest sighting.

*Reachability.* `LiveSessionReachable` is not inductive: a connection could be in
`register` and `unregister` at once, or its unregistration could be in the hand of a
sender. `ReachInv` adds that whoever is in `unregister`, or in the hand of a
sender past its close, has left or was force-closed, and that a client that is
served has a user. The lemma that a client only ever `Fades` (keeps its user, stays
closed or gone once it is) carries this over every step, and a removal then hits
only clients the property does not speak of.

*A blocked Run.* `InSnapshot` says that the client a sender has in hand is one it still
has to serve, so that a Run that waits on `unregister` cannot start anything else; every
other step leaves `unregister` alone while it is full.

*The socket manager and the session.* `OneDriver`, `NoOrphan` and `StateTellsTruth` are
inductive together, once it is known that nothing carries a generation from the future
and that the manager's socket is of the current one (`Stamped`). `OwnSocket` ties it to
the session: somebody listens only while a session is rendered, and a ticket or a
socket that still counts was asked for with its token. That needs of the session that React, client and localStorage hold
one token (`Loyal`), that a request in flight was not sent with the token of a
session that is yet to be rendered, and, for the cache, that every query to be
answered is of whom was rendered last (`Unmixed`).

*The phone.* `ClientFollowsScreen` and `RestartKeepsSession` rest on `OneSignIn` (a
sign-in in progress is alone, and nobody is on screen) and `StoreFollows` (SecureStore
holds no other token than that on screen or of the sign-in at its second write, and
with nobody on screen no profile, without which a token brings nothing back), whichever
handler wakes next.

*The conversation.* `ChatInv` says of thread, answers and rows that each message is in
them once (`RowsOnce`, `WireOnce`, `ThreadHonest`, `FetchHonest`), that a stand-in is of
a send that did not fail and is never beside its row (`StandIns`), and that a fetch in
progress was asked after every send (`FetchIsNew`, the effect of `cancelQueries` in
`onMutate`). It is what makes the rollback right: what `WithoutOwn` removes is
one entry. `RestShowsServer` speaks of the moment of rest only; `RestInv` says of
every other moment what is still going to repair the screen. A row that is missing in
the answer on its way or on screen is on the wire, or something is left that
invalidates; a stand-in is on screen only while a fetch, an invalidation or its own
send will replace it.

*The counter and the hearts.* `DriftOnlyFromOverlap` says that after a commit by a call that nobody
overtook the counter equals the rows, whatever drift there was before: the recount
repairs itself, and only isolation is missing. `SerialCountIsExact` says the
same of the history as a whole when calls do not overlap, for any number of people.
`ScreensWorkOnLikes` shows that a step of the screens is a step of the table or
leaves it alone, so the first carries over. `HeartInv` adds to `HeartTellsTruth` the
answers on their way: those not doubted since they were selected are true as well
whenever nothing is pending.

*The codes.* `QuotaHolds` counts mails that went; `QuotaKept` counts `MayMail`, the requests that have
or may still cause one: counted or further, and not cut off from the lock. A count is
made by the holder of the lock, so what others may still mail is in it; who lost the lock is not
in `MayMail`, because its code is withdrawn at the commit. Guesses likewise: the
counter is at least what was compared plus what was added and not yet read back
(`GuessesCounted`).

Only model-checked: the liveness properties (`ForceClosedLeaves`, `CutSessionLeaves`,
`RejectedSessionEnds`, `StaysConnected`, `BadgeSettles`, `RequestsEnd`), because liveness
under fairness is beyond the prover here, and what the runs refute. No module uses a
RECURSIVE operator, and no proof is by induction over data. TLC checked the inductive
invariants too, as invariants of the instances of section 10.

## 13. What is not modelled

- The components of section 1 below the one-time codes: see the plan. Most of the
  clients' source is forms, lists, maps and types with one request behind one
  button; their state machines are the ones modelled here.
- Database errors other than "the statement fails and the transaction rolls back",
  and isolation levels other than READ COMMITTED, which is what the code runs at.
- More than one server process: the hub and the tickets are in memory, and the
  deployment has one. More than one browser tab.
- Handlers, formatting, wiring, mail, storage and statistics: pure input and output.

## 14. Plan

Done: pet lifecycle and hub, the sessions of web and phone, the shared socket, the chat
thread, the likes, the codes: modelled, checked and, but for liveness, proved. Next:

1. **Proofs on what is there**: done for the safety properties (section 12). Left: the
   promises of a part that hold under a hypothesis weaker than one request at a time (two
   requests on different pets), as a theorem about the pets that are not touched.
2. **Accounts.** The whole-row save of `users`: a profile edit, a ban and a reset that
   overlap (`user_repository.go:86`), and JWTs compared by the second.
3. **Gamification and event bus.** Consumers of `pet.found` composed with the
   pets (`paid` becomes points); share credit and review credit once.
4. **Messaging and blocks** on the server, with the hub's `Notify` as delivery and
   `ChatThread` as its reader.
5. **Moderation queues**, one module with the status machine as a parameter.
6. **OSM import, rate limiter, location-alert cap**: small modules with one hard
   question each.

The configurations of section 11 are kept as long as the code disagrees with its
comments; one is to be dropped when its comment or its code is corrected.
