# A verification project for the chat backend

TLA+ modules, TLC configurations and TLAPS proofs for the Go chat backend in
`src/`: a single process that serves HTTP requests, keeps its data in SQLite or
MySQL, and pushes events to its clients over server-sent events.

## The system

| component | state | operations | interacts with |
|---|---|---|---|
| session manager (`sessions.go`) | `sessions`, `onlineUsers`, `rooms`, one event bus per session; all under `sm.mutex` | `NewSession`, `RemoveSession`, `SetServer`, `SetChannel`, `EmitToRoom`, `EmitToServersUserIsIn`, `EmitToServerMembers`, `EmitUserOlineChange` | every handler that tells something; the database, for whom to tell |
| event stream (`session`) and subscriptions (`AuthSessionId`, `getChannels`, `getMessages`) | the context of each request | stream, subscribe to a server or channel | session manager |
| authentication (`token.go`, `internal/cache/token.go`, `AuthUser`) | table `tokens`, `tokenCache` (LRU) | `register`, `login`, `logout`, `delete`, `TokenGetSet`, `TokenRefresh`, `updateTokenExpiration` | every request but register and login; the cleaner |
| channel messages | tables `messages`, `attachments` | `createMessage`, `editMessage`, `deleteMessage`, `getMessages`, `typing` | session manager, user cache, attachment files |
| servers and channels | tables `servers`, `channels`, `server_members` (the last one is never written) | create, update, delete, list | session manager, avatars |
| access checks | none | `IsServerOwner`, `HasServerAccess`, `IsChannelOwner`, `HasChannelAccess` | database |
| user profiles | table `users`, `userCache` (LRU) | `updateUserInfo`, `uploadUserAvatar`, `getUserInfo`, `UserGetSet`, `UserRefresh` | session manager |
| avatars (`media.go`, `serveAvatars`) | files, two mutexes | save, resize, serve | - |
| attachments (`attachments.go`) | content-addressed files | save, serve | messages |
| rate limiter | expiring cache of user IDs | test and set | - |
| database pool (`database.go`) | at most 1 (SQLite) or 10 (MySQL) connections | query, transaction | everything; three queries take `sm.mutex` with a connection in hand |
| life cycle (`main.go`, `services.go`) | a cancellable context | start, signal, shutdown, cleaner every four hours | database |
| validation, event encoding, response helpers | none | pure functions | - |

What is hard: goroutines of requests interleave at every lock, query and
emission; the maps, the table and the cache that describe one thing are updated
separately; events are emitted after the commit they tell of and dropped when a
bus is full; a client disconnects while its requests are still running; a
process restarts with an empty cache. `PROJECT.json` lists each of these hazards
at its line, with the properties that cover it.

What makes the components correct:

* session manager: rooms and records agree; a user is online exactly while
  connected, and every change is announced; an emission reaches exactly the
  subscribers, once, and never a closed channel; no request moves a session of
  another user;
* locks and connections: no circular wait, no starvation;
* authentication: nobody is admitted as somebody else, after the lifetime that
  was granted, or after ban or deletion; a logout lasts;
* messages, servers, channels, profiles, presence, typing: a client that has read
  a list and subscribed knows what changed since, and ends up with what the table
  says;
* access: nobody does what he may not, although right and use are checked apart;
* files: what a row names is there, and whole;
* the process: it ends when asked to, and expired tokens are deleted.

## Modules

| module | models | checked in |
|---|---|---|
| `Subscriptions` | the abstract specification of the session manager: who listens to which room, who is online | refined by `SessionManager` |
| `SessionManager` | `sessions.go`, handler `session`, `AuthSessionId` | `MCSessionManager`, proofs in `SessionManagerProofs` |
| `LockOrder` | connections of the pool and `sm.mutex`, as waited for by the handlers | `MCProcess`; as it is for liveness |
| `TokenAuth` | tokens, token cache, `AuthUser`, login, logout, deletion, cleaner, restart | `MCAdmission`, `MCTokenAuth` |
| `RateLimiter` | the middleware with its expiring cache | `MCAdmission` |
| `Validation` | schemas, and how handlers trim, refuse and store | `MCAdmission` |
| `ChatLog` | the messages of a channel, the newest page and events | `MCChat` |
| `Paging` | pages of older and newer messages, and the order of IDs against that of commits | `MCChat` |
| `Tables` | the tables with their foreign keys and cascades, the queries of the access checks | used by the next two |
| `Registry` | the abstract specification of servers, channels and messages: every change is one its user may make at that moment | refined by `Ownership` |
| `Ownership` | the four access checks as statements of their own before the handlers that create and delete | `MCStorage` |
| `AttachmentStore` | files of attachments, rewritten in place | `MCStorage` |
| `ServerList` | a user's servers as the tabs see them: `getServers`, `SERVER_INFO`, `DELETE_SERVER`, `EmitToServerMembers` | `MCLists` |
| `ChannelList` | a server's channels as the tabs see them: `getChannels` and its subscription, three events | `MCLists` |
| `ContentStore` | the abstract specification of the avatars: one picture under each name, decided once | refined by `AvatarStore` |
| `AvatarStore` | `media.go`, `serveAvatars`, the two mutexes | as it is |
| `UserCache` | a profile in the table, in `userCache` and at the clients | `MCProfiles` |
| `Presence` | who is online as listeners see it | `MCProfiles` |
| `Typing` | the typing indicator | `MCProfiles` |
| `EventStream` | from the bus over `encodeServerSentEvent` and the connection to the client | `MCProfiles` |
| `Lifecycle` | `main`, the cleaner, signals, the end of the process | `MCProcess`; as it is for liveness |

An operator whose comment begins with "Mutant" is a plausible bug in the
definition that follows it. It is part of no specification; `PROJECT.json` says
which property notices it.

*Side by side.* The modules `MCAdmission`, `MCChat`, `MCStorage`, `MCLists`,
`MCProfiles` and `MCProcess` each put several components into one run. The components share no
variable and no action of one is enabled by the state of another, so
their `SideBySide` lets one move as long as the others are in their initial
states. Every state that a component can reach by itself is reached, with the
same steps; what is not explored are the products of unrelated states, in which
no property could differ, since each property speaks of one component only. Where
components do interact they are in one module, each with the part of the other it needs: `SessionManager`
has the session goroutines and the requests, `ChatLog`, `ChannelList` and
`ServerList` have rooms and emissions, `Presence` takes the announcements that
`PresenceChangeAnnounced` of `SessionManager` promises, `LockOrder` has what all
of them wait for.

*Grouped properties.* A component's module states its properties one by one,
each with its comment. The runs check them joined under these names:

| checked | joins |
|---|---|
| `AdmissionTypeOK` | the type invariants of `TokenAuth`, `RateLimiter` and `Validation` |
| `ChatTypeOK` | the type invariants of `ChatLog` and `Paging` |
| `RateLimited` | `AdmissionsSpaced` and `RefusalsAreOwn` of `RateLimiter` |
| `FormsChecked` | `StoredFits` and `RefusedInFull` of `Validation` |
| `PagesComplete` | `PageWhole` of `ChatLog`, `NoHoles` of `Paging` |
| `AccessKept` | `TypeOK`, `MessagesByMembers`, `ListenersHaveAccess` of `Ownership` |
| `AttachmentsKept` | `TypeOK`, `NamedAfterSaved`, `AttachmentWhole`, `SentWhole` of `AttachmentStore` |
| `ServersFollowed` | `TypeOK`, `NoUpdateMissed`, `AnnouncedDeletionHappens`, `NoGhostServer` of `ServerList` |
| `ChannelsFollowed` | `TypeOK`, `RoomMatchesList`, `OnlyTheGapIsMissed` of `ChannelList` |
| `ListsConverge` | `ListConverges` of `ServerList` and of `ChannelList` |
| `ProfileFollowed` | `TypeOK`, `CacheCurrent`, `SignedAsUpdated`, `ClientsConverge` of `UserCache` |
| `PresenceFollowed` | `TypeOK`, `PresenceConverges`, `NothingElseMissed` of `Presence` |
| `TypingSettles` | `TypeOK` and `TypingSettles` of `Typing` |
| `StreamIntact` | `TypeOK`, `ReceivedAsEmitted`, `NothingLost` of `EventStream` |
| `AvatarsWhole` | `TypeOK`, `PictureWhole`, `GeneratedWhole` of `AvatarStore` |
| `PoolRespected` | `TypeOK` and `OneConnectionEach` of `LockOrder` |
| `RunsWithDatabase` | `TypeOK` and `ServedWithDatabase` of `Lifecycle` |
| `ProcessEnds` | `SignalEnds` and `ShutdownCompletes` of `Lifecycle` |

### SessionManager

The variables `sessions`, `onlineUsers`, `rooms` are the fields of the struct.
`eventBus` is the channel made by `NewSession`; a record only says whether it
has one (`hasBus`), since the zero record, which a missing key of the Go map
reads as, has the nil channel. A goroutine that serves a session goes `new`,
`online` (it has to announce its user), `stream`, `offline` (again to announce),
`done`. A goroutine that serves other requests is `ready` or, between
`AuthSessionId` and the end of its handler, `subscribe`. `stage` and `outbox`
hold an emission: `ready` before `RLock`, `emit` under it, one `Send` per
listener.

*Atomicity.* All writers of the maps hold the write lock, so a write section is
one action that requires that nobody holds the read lock. An emission takes
several steps under the read lock; emissions overlap with each other and with
the receivers. The database reads before a lock and the announcements after it
are actions of their own, and may fail.

*Abstracted.* The result of a query for servers or members is any set. The
payload of an event is a model value, except for `user_online`, which names the
user and the direction. The order in which an emission visits the listeners of
its rooms is arbitrary (Go's map order is; the order of the rooms is not, which
the model is more liberal about). `AuthSessionId` reads `sm.sessions` without the
lock, a data race; the model reads a consistent record.

*IDs named too early.* `AuthSessionId` lets any number pass that is not
registered: the ID of a session that is gone, or one that the generator has still
to give. `AuthSessionId(r, u, s)` has no guard on `s`, therefore, and `guessed`
is a history variable with the IDs that a request named before `NewSession`
generated them. `NewSession` overwrites a record that such a request left and
does not leave the rooms it entered, so the session that gets the ID later is
in a room that its record does not name (`LeftBehind`), and a request of
another user may have moved it. Five properties name this exception; it does not touch presence,
the user's own room, or who is removed.

`RemoveSession` tests for a missing session and for a missing user. The model's
action requires the first and `StreamingSessionRegistered` shows that both
always hold when it runs, so the error and the panic cannot happen there.

### LockOrder

A program is the sequence of waits of a function: `open` and `close` a
connection, `rlock`, `runlock`, `lock`, `unlock`. `Program` gives one for each
kind of handler, composed from those of the functions it calls. Queries in a
row count as one, a transaction holds its connection from begin to commit, and a
request may stop (`Return`) wherever it holds nothing. The mutex is Go's
`RWMutex`: a waiting writer keeps new readers out (`announced`), and an unlock
lets in every reader that came to wait meanwhile (`blocked`).

*Fairness.* A goroutine that can go on does (weak fairness). For a connection and
for the writers' inner mutex it is strong: `database/sql` hands a freed
connection to a waiter picked at random, and Go's `sync.Mutex` turns
first-come-first-served when a waiter has starved for a millisecond. Serving a
request and returning early are not fair.

### TokenAuth

Every statement and every cache access is a step: `TokenGet`,
`TokenRefreshReads`, `TokenRefreshAdds`, `TokenGetAgain` (the second lookup of
`TokenGetSet`), `CheckUser`, `CheckExpiration`, `UpdateToken`,
`UpdateTokenCache`, and then what the admitted request does. Statements fail
when `ok` is FALSE, and the cache is updated nevertheless, as in the code.
`CheckExpiration` takes the clock reads of `AuthUser` and of
`updateTokenExpiration`, which follow each other, as one. `granted`, `cookies`,
`loggedOut`, `buried`, and the fields `ownerGone` and `wasOut` of a request are
history variables: no action reads them, except that a token is new
(`granted`, 256 random bits in the code) and that a request carries a token some
client was given (`cookies`). Time is counted in days; `Lifetime` (28 days) is 2
in the runs, enough for a token to be fresh, old and expired.

### ChatLog

`messages` and `attachments` are the rows of one channel. `CascadeDelete` is
what a deleted account, channel or server does to them, without any event: it may take
any of the messages. `history` numbers the committed changes; a request carries the number of its change from the commit to
the end of its emission. `Fail` stands for every error path, among them that
`createMessage` cannot read its author's data after the commit. A page is what `getMessages` read, `opened[s]` the page
its session was given together with what happened up to its `SetChannel`, and
`told[s]` what was put on the session's bus since. A full bus drops an event;
which one is not determined here (SessionManager has the buffer). Requests that
find no row to change change nothing and are left out. The channel holds fewer
messages than a page; `Paging` has the others.

### Paging

The IDs of messages are 1, 2, ... in the order in which the generator gives them
out, which is not the order of the commits. `read` is the union of the pages the
client was answered, `low` the lowest ID it has asked for, `told` what its bus
told of. The client asks as the code is made for: the last messages first, then
"before" the oldest and "after" the newest it has. A page is at most `Limit`
messages (`MESSAGES_SLICE_CAP`, 100 in the code, 2 in the run).

### Ownership and Registry

A request goes through a middleware (`IsServerOwner`, `HasServerAccess`,
`IsChannelOwner`, `HasChannelAccess`: a SELECT) and then, in a step of its own,
through its handler's statement, which does not look again. `Cascade` is what
`ON DELETE CASCADE` leaves; a statement after which a foreign key would dangle
fails. `by` is the user on whose behalf the last change was made; `Registry` lets
that user make it only with the right to. That `Ownership` implements `Registry`
says that check and use are as good as atomic. It is true because rights on a
thing can be lost only together with the thing: rows never change their owner,
members are never removed but by a cascade, and IDs are not used again. The
table `server_members` is written by no code; the model lets rows appear, since
the queries read them.

### ServerList and ChannelList

A row is identified by the number of the change that made it. An emission finds
any of the buses full and drops the event there (`lost[s]`: what `s` has missed
that way and no later update alone has repaired). Deletions of more than was asked
for are silent: `DeleteAccount` takes the user's servers, `CascadeDelete` the
channels of any servers, and the tabs stay as they are. `told[s]` holds
the events on a tab's bus in the order they came; of equal ones the last is kept,
which is all that a client that applies them in order can tell. `ServerList` has the two
reads of `EmitToServerMembers` (members, then listeners) and `deleteServer`'s
announcement before the deletion, with the failure of either. `ChannelList` has
the three steps of `getChannels` (list, subscription, answer). `crossed` and
`alone` are history variables: they say which requests overlapped.

### UserCache, Presence, Typing

One user each. `UserCache` numbers the updates of the profile: `row` and `cache` are the
numbers that the table and the cache are at, `written[f]` and `shown[f]` the last update of
the field in the table and at the clients.
`stale` is a history variable that becomes TRUE when a refresh fails or is overtaken,
and FALSE again with the next one that is not. An update is of one field, the name or
the picture, and its event tells this field and no other; so `written`, `shown` and the
history variable `unheard` are about each field by itself. A field is in `unheard` after
an event of it was dropped, failed, or overlapped with another's, until the
next update alone of that field was told. `Presence` numbers the changes of presence; `view[l]` is the
last one listener `l` knows of. `Typing` numbers the reports of the client; a
start waits for the user's name, a stop does not.

### AvatarStore and AttachmentStore

A file holds nothing, a part, or the whole of its content; `os.WriteFile` is two
steps, with failure and death of the process in between. `AvatarStore` has the
mutex `avatarFilesMutex` for uploads and `resizedAvatarFilesMutex` for resizing:
at most one request of each kind is between `Lock` and its answer. `spoiled` and
`cut` are history variables, the files whose writing did not end well.
`ContentStore` is what the avatars add up to: a name is decided once.
*Fairness*: a goroutine that can go on does, and a mutex that is free again and
again is got (`sync.Mutex` hands over to a waiter after a millisecond). Requests
need not come, and writes need not succeed.

### EventStream

Text is a sequence of symbols: the names of fields, the line break, anything else;
the empty name of an event, for which no line is written, is `"unnamed"`. `Greeting`
is what `session` writes before it reads the bus. What is written arrives symbol by
symbol (`Arrive`, `ArriveLast`), and the client parses each as the standard for
server-sent events says; it is external. The connection may break after any symbol, and
what has not arrived by then does not arrive. `received` holds, for each text that
arrived, what the client made of it: nothing, an event, or several. Display names
have line breaks inside in some events, since `TrimSpace` takes only those at the
ends, and a line of theirs may read like a field.

### RateLimiter and Validation

Time in `RateLimiter` is counted in ticks, of which the half second of the code is
`TTL`. The look and the addition are two steps. In `Validation` a text is what
its schema and its column tell apart; the texts tried are those around the limits
of each field.

### Lifecycle

`main`, the goroutine that waits for a signal, the listener and the cleaner, with
the cancelled context between them. A panic in a handler is recovered; one in the
cleaner is not. `ReadSessions` and `WriteSessions` are the unlocked read of
`AuthSessionId` and a locked write: at the same time they may end the process
(`Race`). *Fairness*: `main`, the receiver of the signal and the cleaner run on,
and sleeps end; nothing is assumed of handlers, which may stream for ever.

## Runs

| run | what it shows | bounds |
|---|---|---|
| `session_safety` | rooms, records, presence, emissions, ownership of sessions, refinement of `Subscriptions` | 2 users, 2 servers, 1 channel, 2 sessions, 1 request, buses of 1 event |
| `session_ghost` | **violation**: a late subscription re-registers a removed session | 1 of each |
| `process` | no holder of the mutex waits, nobody asks for a second connection, no deadlock; nobody is served without a database | 3 goroutines, 12 handlers, 2 connections; 2 handlers |
| `requests_finish` | every request is answered | 3 goroutines, 5 handlers, 1 connection |
| `admission` | tokens: expiry, owner, deletion, ban, logout across restarts; rate limit; forms | 2 users, 2 tokens, 2 requests, clock to 3; 3 requests, clock to 7, TTL 2; numbers of wide characters 0 to 2 |
| `token_logout` | **violation**: a logged out token is still admitted | 1 of each |
| `chat` | what a session can miss; page and events add up; pages are whole; no holes between pages | 2 messages, 2 texts, 1 session, 2 requests, 3 changes; 5 messages, pages of 2, 2 requests |
| `storage` | access checks, cascades, refinement of `Registry`; attachments | 2 users, 1 server, 2 channels, 2 requests; 2 files, 3 requests, 2 files per message |
| `lists` | lists of servers and channels against their events | 1 server, 2 tabs, 2 requests, 3 changes; 2 servers, 1 channel, 1 tab, 2 requests, 3 changes |
| `avatars` | whole files, refinement of `ContentStore`, every request answered | 2 users, 1 avatar, 2 sizes, 3 requests |
| `profiles` | cache and clients follow the table; presence; typing; the stream | 3 requests, 2 fields, 3 updates; 2 listeners, 3 requests, 6 changes; 2 listeners, 2 requests, 3 reports; 3 events, bus of 2, names of up to 3 symbols out of three: a letter, a line break, a field's name |
| `lifecycle` | signals and errors end the process, expired tokens are deleted | 2 handlers |

*Why the bounds suffice.* Two sessions are enough for a room to have a listener
besides the one that moves, two servers for a session to leave one room for
another, one request beside them for an emission or a late subscription to
straddle any write section; what more tabs could do is covered by the proofs. A
bus of one event is full after one. Three goroutines make a reader with a
connection, a writer that waits for it, and a reader that waits for the writer.
Three changes are a creation, an edit and a deletion of one message, server or
channel; one request makes them while another reads and subscribes, or both make
changes that overlap. Sessions do not influence each other in `ChatLog` and
`ChannelList`, except that they take turns with a writer of the rooms; one is
enough for what one misses. Two tokens of two users can be mixed up, and a clock
to 3 with a lifetime of 2 has a token fresh, old and expired. Five messages in pages of
two need three pages, the last of them short. Three
requests for an avatar are one that writes, one that waits for the mutex and one
that looks without it. Six changes let a user come and go with announcements of
three changes under way. `MaxTime`, `MaxTicks`, `MaxChanges`, `MaxUpdates`, `MaxReports`,
`MaxMessages`, `MaxEvents` and `MaxName` bound clocks and counters in the guards of the
actions that advance them, and nothing else.

Three constraints keep the products of rare events apart, and the run with both at
once to the proofs, which know none of them. `EarlyIdBound` (`session_safety`): after
a request has named an ID too early, no other ID is, and only requests emit. `OneTroubleBound`
(`lists`): a full bus and a silent deletion do not come together, and with
either of them one tab is connected to the list of servers. `UnheardBound`
(`profiles`): while a field is unheard, requests update and none signs a message.
`GeneratedIdBound` has `session_ghost` show the late subscription, not an ID named
too early, which would do as well. Deadlock is checked in every run but
`lifecycle`, where the process ends.

*Symmetry* is used in runs without liveness only, over model values that no
action tells apart. In `lists`, the tabs of `ServerList` and the servers of
`ChannelList` are the same two model values, which only makes TLC permute them
together; so are, in `profiles`, the requests of `UserCache` and of `Presence`.

### The two violations

`EverySessionHasUser` is what `sessions.go:101` takes for granted: "this isn't
supposed to happen as user ID is set in AddSession". `SetServer` and
`SetChannel` write back whatever reading the map returned, also when
`RemoveSession` has deleted the session since `AuthSessionId` looked: a record
without user and bus enters the map and a room, and stays for the life of the
process. The same happens for an ID that no session has got yet, which
`AuthSessionId` lets pass too. A record that stays of a removed session is harmless to
the other properties; one under an ID that a session gets later is the
exception below.

`LoggedOutRefused` is what `main.go:92` announces: "from now on endpoints require
user to be logged in". `deleteToken` leaves the cache alone, so the token admits
requests until its entry is evicted, its last extension runs out or the process
restarts. What does hold is `LogoutSurvivesRestart`.

### Exceptions the properties name

Several properties hold with exceptions, each a behaviour of the code that a team
may want to know of; without the exception TLC finds the counterexample:

* a message or channel event told between reading a list and subscribing is lost
  (`OnlyTheGapIsMissed`, both modules); any event is where the bus is full
  (`sessions.go:200`) and when the handler fails after the commit. What is lost of a
  server, a channel or a field of the profile is made up for by the next update of it that
  runs alone (`NoUpdateMissed`, `ListConverges`, `ClientsConverge`); an update of
  the display name does not repair the picture, nor the other way round;
* what goes by `ON DELETE CASCADE` is announced to nobody: the messages of a
  deleted account, channel or server (`database.go:125`, `OnlyTheGapIsMissed` of
  `ChatLog`), the channels of a deleted server or of a deleted account's servers
  (`database.go:110`, `ListConverges` of `ChannelList`), the servers of a deleted account
  (`database.go:98`, `NoGhostServer`). Sessions that show them go on showing them;
* an ID that a request names before `NewSession` generates it passes
  `AuthSessionId`: the session that gets it may be moved by that request, whoever
  made it, and stays in rooms that its record does not name
  (`SubscribersMoveOwnSession`, `RoomsMatchSessions`, `EmissionTargetsSubscribers`,
  `OneCopyPerSession`, and what `Listens` maps to in `ImplementsSubscriptions`);
* the events of overlapping changes may arrive in the other order, and the older
  state stays with the clients until the next change that runs alone
  (`ViewConverges`, `ListConverges`, `ClientsConverge`, `PresenceConverges`,
  `TypingSettles`); the user cache may keep an older profile (`CacheCurrent`);
* `deleteServer` announces a deletion that may then fail
  (`AnnouncedDeletionHappens`), and a tab that lists in between shows a server
  that is gone (`NoGhostServer`);
* a user who deletes the account keeps an open stream (`ListenersHaveAccess`);
* an avatar whose writing failed half-way is taken for an existing file by the next
  upload (`media.go:77`), and stays broken (`PictureWhole`); an attachment whose
  upload is repeated and fails is destroyed for the messages that had it
  (`AttachmentWhole`), until it is uploaded again;
* requests of one user that arrive together all pass the rate limiter
  (`AdmissionsSpaced`);
* of a display name with a line break, the event typing conveys the first line
  (`ReceivedAsEmitted`; `handlers_v1.go:1216` promises "1 987654321 displayname"), and
  of one in which a later line reads like a field it may convey something else; what
  comes before and after that event is received all the same;
* after a failed DELETE the cleaner asks for the shutdown and then panics on its
  nil result (`services.go:25`), which may end the process before the database is
  closed.

## Proofs

Eight modules hold proofs, each about the modules named beside it. Every safety
property that a passing run checks, invariant, action property or refinement, is stated by one of their
theorems:

| proofs | about | theorems that state properties of the runs |
|---|---|---|
| `SessionManagerProofs` | `SessionManager` | the eight invariants of `session_safety`, `PresenceChangeAnnounced`, `ImplementsSubscriptions` |
| `ProcessProofs` | `LockOrder`, `Lifecycle` | `MutexHolderNeverWaits`, `PoolRespected`, `RunsWithDatabase` |
| `AdmissionProofs` | `TokenAuth`, `RateLimiter`, `Validation` | `AdmissionTypeOK`, `AdmittedAsOwner`, `DeletedUserRefused`, `LogoutSurvivesRestart`, `NoLateExtension`, `RateLimited`, `FormsChecked` |
| `StorageProofs` | `Ownership`, `AttachmentStore` | `AccessKept`, `ImplementsRegistry`, `AttachmentsKept` |
| `AvatarStoreProofs` | `AvatarStore` | `AvatarsWhole`, `ImplementsContentStore` |
| `ProfileProofs` | `UserCache`, `Presence`, `Typing`, `EventStream` | `ProfileFollowed`, `PresenceFollowed`, `TypingSettles`, `StreamIntact` |
| `ChatProofs` | `ChatLog`, `Paging` | `ChatTypeOK`, `OnlyTheGapIsMissed`, `ViewConverges`, `PagesComplete` |
| `ListsProofs` | `ServerList`, `ChannelList` | `ServersFollowed`, `ChannelsFollowed`, `ListsConverge` |

All theorems hold for any sets of users, requests, sessions and things, and any
value of the bounds. Most are laid out alike: an inductive invariant joined from
named parts, one lemma for an action or a few that are alike, `Init` and `Next`
from these, and what the invariant implies. Where a run checks several components side by side, the
theorem is about `SideBySide`, of which a lemma (`SideBySideSteps` or one like it)
says that it does what each component alone may do; those of `ProcessProofs` are
about the specifications of the components themselves. The inductive invariants were
model-checked before they were proved.

*Assumptions.* The constants are assumed to be what the runs and the code make
them, no more: identifiers of different kinds differ and are not zero, as the one
snowflake generator makes them (`IdsAssumption`, `NoIdAssumption`,
`ZeroAssumption`, `NoServerAssumption`, `NoValueAssumption`); bounds, clocks and
sizes are numbers, positive where the code has a positive one (`CapAssumption`,
`PoolAssumption`, `TimeAssumption`, `BoundAssumption`, `TicksAssumption`,
`MaxFilesAssumption`, `BoundsAssumption`, `StreamAssumption`, `PagesAssumption`,
`ChannelBoundAssumption`, `WideAssumption`); the handlers are among those `Program` knows
(`HandlerAssumption`). TLC evaluates each in some run.

*SessionManager.* `RoomsMatchSessions` and the others are not inductive one by one. What a removal
does to `onlineUsers` is right only because the rooms agree with the records and
the record has the user its goroutine started with; that is so because requests
that re-create records never touch a streaming session's `userId`. `IInv`
therefore joins the invariants with three more: `ControlOK` (what each place of a
goroutine says of its emission and context), `OutboxOK` (an emission's rooms are
all servers, all users, or one room, and what is to be sent lies in them) and
`RecordsOK` (a record that has a user or a bus belongs to a goroutine that is
still online or streaming; one that exists before its goroutine has called `NewSession` was
stored under an ID named too early, which is in `guessed`). That is why what `NewSession` overwrites has
neither user nor bus, and what it leaves behind are rooms of servers and channels only. The lemmas about `LeaveRoom` and
`EnterRoom` say who is in which room afterwards; the actions use nothing else of
them. `Implements`: each step maps to a connect, a disconnect, a turn or a stutter.

*LockOrder.* What a goroutine holds is a state of a small automaton, and what it
has yet to do is a path of the automaton that ends with nothing in hand
(`Balanced`). The programs of the functions are such paths, one after the other
they still are, and so `StepAhead`: who is about to wait holds nothing, but for a
connection before `RLock`. The invariant needs nothing about which handler runs.
`NoCircularWait` says that somebody can go on as long as a request is not
answered, for any number of goroutines and a pool of one; the prover cannot treat
ENABLED, so `CanGoOn` spells out the guards. `RequestsShorten` says that whoever goes on
shortens a request and lengthens none (`Left`: two for each step, one less for who has
begun to wait). Together they bound what follows without new requests: it ends, and it ends
with every request answered. What is left to TLC's `RequestsFinish` is that
nobody is passed over while others come and go. `MutexHeldBriefly`: of a path that
holds the mutex, one step is left, or two of which the first closes the rows.

*Lifecycle.* How far `main` is tells what is open (`Started`), without a listener nobody has
been served (`NotServedYet`), and these two give `RunsWithDatabase` for any number of handlers.
Whoever brings about the end has cancelled the context (`Cancelled`), hence
`StopNotForgotten`: a signal, at whatever moment it comes, is in the channel with its
receiver waiting, or in the context. `NoWayBack` adds that `main` only goes on. That
these steps are taken is `ProcessEnds`, and needs the fairness.

*TokenAuth.* Whatever is known of a token, in the table, in the cache, or in a
request under way, names the user it was issued to and expires no later than the last grant allows
(`KnownOf`): so `AdmittedAsOwner` and the action property `NoLateExtension`.
`InsertsNew` (a token that is about to be inserted is known to nobody else) keeps
a logged out token from getting a row again, hence `LogoutSurvivesRestart`; that no
account is restored gives `DeletedUserRefused`.

*RateLimiter.* An entry of the cache stands for the last admission of its user
(`EntriesOfAdmissions`); a request that found none, and was alone, came after the
entry had expired (`LookedAlone`).

*Validation.* `Validated` says, for a text of any length, that `Validate` finds nothing
exactly if the text passes, and `Merged` what `MergeValidationIssues` leaves of one
field or of two. A text that passes has no more characters than bytes, so it fits its
column (`ColumnFits`); for the display name that is a username this needs the two
limits of the schemas to be in order (`Fields`). The lemmas do not depend on which
texts the model tries, only on each being a text (`AnyText`).

*Ownership.* An ID is given out once (`IdsGiven`, `IdsUnique`, `Fresh`). So a row
that a request has checked is still there unchanged, or gone for good (`Rights`),
and who had access to what still exists has it still. With that each statement of
`Ownership` is a step of `Registry`, although the check came before.

*AttachmentStore, AvatarStore.* A file of which only a part is there has a writer,
or one that failed (`PartsExplained`). Who sends an attachment nobody writes
meanwhile finds it as it was (`ServedUndisturbed`). An avatar's file has one
writer at a time (`Exclusive`), who finds nothing under its mutex until it writes (`RequestOK`);
what is spoiled is never written again (`SpoiledForGood`). So a name is decided
once, as `ContentStore` says. A request has at most seven steps (`StepsLeft`), each
leaves fewer, and some request can take one (`AvatarRequestsShorten`,
`AvatarNoCircularWait`): a failed write is not tried again, and who waits for a mutex
waits for a request that waits for none.

*UserCache, Presence, Typing.* While the cache is not stale, only the present row
is about to be added to it (`NothingOldAdded`). A field that is not unheard is shown as
the table has it, or one update of it is under way and about to tell that
(`HeardOrAboutTo`). Of the announcements under way at
most the last is alone, and it is then the only one (`AnnouncedApart`). While a report that was
alone is handled no other is (`AloneHandledAlone`), and its emission has told
those it has visited (`VisitedAreTold`).

*EventStream.* The model lets a text arrive symbol by symbol, so that what the parser
computes is a matter of states, and the induction over the text is the one over steps.
The text of an event has three parts (`Layout`): the line of its name, if it has one,
its data, and a blank line. `Parsing` tells for each position in it what the parser
is then: in the data (`InData`), as long as there was no line break, it has read
what was passed; after one, it has the first line still, or has delivered it at a
blank line, and is in a line it ignores. That is where `Plain` is needed: otherwise a line
would not be ignored. At the end of the text the parser is where it began, whatever
the text was, so no event spoils the next. The texts on the wire and on the bus
follow the ones received in the order of `emitted` (`WireOK`, `BusOK`,
`NothingLost`), and `ReceivedOK` collects what was made of each.

*ChatLog, Paging.* A page that covers all changes to a message shows what the
table says (`PageCurrent`), and what a page under way may miss is in its gap
(`Covered`). A change committed while another to the same message is in
progress knows it (`CrossedSince`), so events that come in the other order belong
to changes that were not alone (`InOrder`): the last event told is the last
change. A cascade is a change like the others to which no event belongs. For `NoHoles`: the page about to be answered, with the
events since, has everything from its first message on (`Kept`); the lemmas
`Least` and `Greatest` about sets of numbers stand for the order of the IDs.

*ServerList, ChannelList.* The last event about a server or channel tells its
present row, if no requests crossed (`LastIsPresent`, `LastTells`); without one
the list shows it. `ServersFollowed` needs in addition why a deleted server may
still be shown (`GhostHasCause`), and that the requests which overlap know it
(`CrossingsKnown`). In `ChannelList` a list is followed from the moment it is
read: what holds of the one a tab shows (`Follows`) is built up in the request
that will answer it (`Gathered`); it holds as long as the list's server is there. The
rows are those that the history of the channel makes, where the server is, and
none where it is not (`RowsRemain`). `TellFacts`, `TellLast` and `TellKeepsLast` say
what becomes of a bus when an event is told: the proofs use no more of it.

Only model-checked: the liveness properties (`RequestsFinish` of `LockOrder` and of
`AvatarStore`, `ProcessEnds`, `ExpiredAreCleaned`), since the prover has no ENABLED and
no fairness. Of the first three the theorems above give the safety part: somebody can
go on, and going on leads to the end. Of the last there is none worth stating. Induction over data is out of the prover's
reach too, but no module needs it: none has a recursive definition or a fold.

## Not modelled, and the plan

Not modelled: the contents of messages and files, JSON and HTTP, argon2, the
arithmetic of image scaling, the schema's column types but for their widths, CORS,
the request log and the response helpers (formatting without state), the parsing
of the environment at start-up, `getUserInfo`, `getFriends`, `getServerInfo` and
`getChannelInfo` (they read and change nothing; what they wait for is in
`LockOrder`), and the table `friendships`, which no code writes. That a repeated edit
within one second is refused with MySQL (`handlers_v1.go:1035`: affected rows are
changed rows) is a matter of the driver's settings. The clients are not part of
the repository; they are seen only through the requests they can send and, in
`EventStream`, as the standard has them.

What is left to do:

1. the liveness properties by proof, from the bounds on steps that `RequestsShorten`,
   `AvatarRequestsShorten` and `NoWayBack` give, once the prover treats ENABLED and fairness;
2. the unlocked read of `sm.sessions` (`middlewares.go:155`) has a model (`Race`) but no
   property, since nothing in the repository says that the process survives it.
