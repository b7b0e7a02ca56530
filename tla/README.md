# LanGram in TLA+

LanGram is a LAN chat: a NestJS server over PostgreSQL (`server/`), and a Tauri desktop
client in React (`client/`). This directory keeps the TLA+ models of its logic, the TLC
configurations that check them on small instances, and the TLAPS proofs of what holds for
every instance.

## The system

The server is one Node process. A handler (a REST call or a Socket.IO event) runs without
interruption from one `await` to the next; between two awaits the handlers of all clients
interleave. The database serialises single statements and transactions, at PostgreSQL's
READ COMMITTED level, and most handlers read in one statement and write in a later one.
The registry of sockets and the set of online users are maps in the memory of the process.

A client is one browser page in a shell written in Rust. Its stores are changed by the code
that answers of REST calls, socket events, timers and the user run, each from one `await` to
the next; React runs the effects of a change before the next event. Decryption, the local
cache (SQLite) and the configuration file are reached through awaits as well.

| Component | State | Operations | What is hard | What makes it correct |
|---|---|---|---|---|
| Login sessions (`auth.service.ts`) | session rows: live, expired, revoked | five kinds of login and registration through `issueSession`, `logout`, `resetPassword`, `refresh` | two logins at once; a login that fails half way; tokens that outlive their session | a revoked session stays dead, one device is on the air |
| Realtime connections (`realtime.gateway.ts`, `realtime-session.service.ts`, `realtime-auth.service.ts`) | `socketsByUserId`, `client.data.user` | `handleConnection`, `handleDisconnect`, `registerSocket`, `unregisterSocket`, `kickUser` | a disconnect that runs inside a kick, drops at any await, restarts | at most one attached socket of a user, a replaced socket never returns |
| Presence (`presence.service.ts`) | `onlineUserIds`, what friends were told | `markOnline`, `markOffline`, `notifyFriendsPresence` | announcements that overtake one another | a connected user is shown, and was announced, as online |
| Messages (`messages.service.ts`, REST `markRead` of `conversations.service.ts`) | message status and times, delivery rows, `lastReadMessageId` | send, `markDelivered`, `markRead`, recall, edit | reads that are stale when written | the status is backed by the rows and goes forward |
| Message delivery (`handleMessageSend`, `deliverOfflineMessages`) | where the loops are, `deliveredAt` | push and mark, per receiver or per message | two loops over the same rows, a socket replaced under a loop, a failure half way | nothing falls between the loops, a connected receiver gets the message |
| Friends (`friends.service.ts`) | pairing codes, requests, friendships | create code, request, accept, reject, delete, clear | one code used twice, crossing requests, accept against reject | a used code stays consumed, a friendship and its request agree, a quiet client shows them as they are |
| Groups (`conversations.service.ts`) | members, roles, group information | add, remove, leave, rename, announce | membership checked before and changed after; failures after the commit | members know the group as it is, an owner is not made by accident |
| Files, avatars (`files.service.ts`, `users.service.ts`) | file rows, files on disk | upload, attach, forward, avatar, clean-up | a crash between disk and row, one file attached twice | disk and rows agree, a file stays with its message |
| Credentials (`auth.service.ts`) | e-mail codes, captchas, refresh hashes, password hash | send and consume codes, captcha attempts, refresh, reset | parallel use of what may be used once | a secret is used once, the limit of attempts holds, a reset ends old access |
| Chat store (`client/src/stores/chat.store.ts`) | lists of conversations and messages, pagination, optimistic messages, counters | send, retry, select, load older, socket events | pages fetched while events come in, events out of order | nothing shown is lost, states go forward, counters are right |
| Local cache (`local_cache.rs`) | SQLite rows of messages, conversations, files | upsert, patch, clear, list | a page cached after a patch | what was deleted locally stays deleted |
| Session of a client (`auth.store.ts`, `network.store.ts`, `http.ts`, `AuthShell.tsx`, `MainLayout.tsx`) | token, dialog, network status, socket | login, logout, 401s, kicks, losses of the connection | answers of an earlier session, two writers of the status | the dialog and the status tell the truth |
| Main page (`MainLayout.tsx`, `SettingsPage.tsx`) | badges, hidden entries, forms, timers, downloads | clicks, autosave, save, download | one draft and timer for all groups, clocks compared across machines | what was typed reaches its group, and no other |
| Preferences (`settings.store.ts`, `client/src-tauri/src/lib.rs`) | `client-config.json` and its copy | whole-file writes, directory and tray commands | choices made side by side, torn files | a choice made at leisure is kept |

Sessions gate connections and REST calls; a login kicks the user's socket; sockets carry the
loops of delivery; memberships and friendships gate messages; the client's stores follow the
server by lists, answers and events, which nothing orders among each other.

The rest (connecting to the database, mail, configuration, DTOs, REST wrappers, encryption,
rendering) keeps no state that handlers share; `PROJECT.json` lists each with its reason.

## Modules

| Module | Models | Checked by | Proofs |
|---|---|---|---|
| `SingleDevice` | what the registry of sockets promises: abstract specification of `Sessions`, and the registry of `Delivery` | `sessions`, `delivery` | `SessionsProofs`, `ArrivalsProofs` |
| `Sessions` | logins, connections, registry, presence | `sessions`, `old_device`, `presence` | `SessionsProofs` |
| `Messages` | the messages of a conversation and their receipts | `messages` | `ConversationProofs` |
| `Delivery` | the two loops that push and mark, over `SingleDevice` | `delivery` | `ArrivalsProofs` |
| `Friends` | pairing codes, requests, friendships | `friends` | `FriendsProofs` |
| `Credentials` | e-mail codes, captchas, passwords, refresh tokens | `credentials` | `CredentialsProofs` |
| `LoginForm` | the pages that a user signs in with | `credentials` | `CredentialsProofs` |
| `Files` | uploads, forwards, attachments, avatars, clean-up of guests | `files` | `FilesProofs` |
| `Groups` | members, roles and information of a group, and one member's client | `groups` | `GroupsProofs` |
| `ChatStatus` | what the bubbles of a conversation say | `chat_status` | `ConversationProofs` |
| `MessageEdits` | texts that are edited, sent and sent again | `chat_status` | `ConversationProofs` |
| `ChatPages` | which messages of a conversation are shown, the local cache | `chat_pages` | `ClientProofs` |
| `Badges` | unread counts, reports of reading, hidden entries | `badges` | `ArrivalsProofs` |
| `Contacts` | what a client shows of requests and friends | `chat_pages` | `ClientProofs` |
| `ClientSession` | token, dialog, network status and list of one client | `chat_pages` | `ClientProofs` |
| `GroupSettings` | the autosaved form of nickname and remark | `groups` | `GroupsProofs` |
| `GroupDialog` | the dialog of a group's name and intro | `groups` | `GroupsProofs` |
| `Preferences` | the configuration file and its copy | `files` | `FilesProofs` |
| `Downloads` | downloaded files and their records | `files` | `FilesProofs` |
| `Conversation`, `Arrivals`, `SignIns`, `GroupForms`, `ClientStores`, `Disks` | compositions: `ChatStatus` with `Messages` and `MessageEdits`; `Badges` with `Delivery`; `Credentials` with `LoginForm`; `Groups` with `GroupSettings` and `GroupDialog`; `ChatPages` with `ClientSession` and `Contacts`; `Files` with `Downloads` and `Preferences` | as their parts | as their parts |

`MCSessions`, `MCMessages`, `MCDelivery`, `MCFriends`, `MCCredentials`, `MCFiles`, `MCGroups`,
`MCChatStatus`, `MCChatPages` and `MCBadges` are the instances for TLC. Five of them explore
components that share no state one beside the other: a constant variable `part`, chosen by the
initial state, says which one moves; `MCMessages` and `MCDelivery` let one component move and
keep the rest as it begins. The compositions declare the state of such components
side by side; a run and the proofs both extend them, so that a theorem about an instanced
component speaks of the property that the run checks.

### Sessions

A login request is an element of `Session`, which is also the row it creates. `login[s]`
walks through `issueSession`: `"revoke"` (the `updateMany`), `"kick"` (`kickUser`, which runs
in the same synchronous stretch as the answer of the query, and is a step of its own so that
others may come before it), `"create"` (device and session rows), `"done"` or `"failed"`.
How a login is authorised makes no difference to what follows and is the matter of
`Credentials`.

A socket is an element of `Socket`, used for one connection. `conn[k]` is where its
`handleConnection` stands: before the answer of `authenticate`, before `registerSocket`,
before the end of `notifyFriendsPresence`, in `deliverOfflineMessages`, or through. `open`
has the sockets with a connection behind them; a connection may drop at any moment, so a
socket can be registered that has no connection any more, as in the code.

Two facts about Socket.IO shape the model. `disconnect(true)` emits the `disconnect` event
synchronously, so the `handleDisconnect` of a kicked socket runs, up to its first await,
inside the kick. `registerSocket` kicks first and sets afterwards: the kicked socket finds
itself registered and starts to announce its user as gone. `kickUser` deletes first: there
the kicked socket does nothing, and the user stays in `onlineUserIds` until the next
connection ends. On a socket that is closed already `disconnect` does nothing. `logout` and
`resetPassword` revoke rows and leave the socket registered (auth.service.ts:576).

`older` and `staleToken` are history variables that only the properties read.

### Messages

One conversation. A message is its place in the order of `createdAt`. The four handlers with
a gap between read and write keep what they have read in `sending`, `marking`, `recalling`
and `editing`; `markRead` and its REST namesake are one transaction. The reads of one handler
are taken together, and the windows of recall and edit are left out: both remove refusals or
delays that change no state. Leaving and joining a group and ending a friendship are in the
model because the guards read them. A call that throws is one that never writes.

What the model lets happen and no property forbids: `markDelivered` writes DELIVERED over a
READ or RECALLED that came after its read (messages.service.ts:262; that this is the only way
back is `OnlyStaleDeliveryGoesBack`); an edit that passed its check writes into a message
recalled since (messages.service.ts:450); reading an earlier message moves
`lastReadMessageId` back (messages.service.ts:313).

### Delivery

The receivers of a message stand in the order of the loop. `handleMessageSend` pushes to the
next receiver that is connected (`SendPush`) and marks after the queries of `markDelivered`
(`SendMark`); `deliverOfflineMessages` looks up the socket (`LoopStart`), lists what is
undelivered (`LoopList`), and pushes and marks in turn. A failing query ends either loop, a
restart ends both. The registry is an instance of `SingleDevice`, which `Sessions` is shown
to implement, and so is `Delivery` (`LoopsKeepTheRegistry`): its kicks, drops and takeovers are
those the registry allows.
The mark follows the `emit` without any answer of the client (realtime.gateway.ts:107-108 and
224-225), where docs/LanGram_MVP_Spec.md:716-717 has "delivered" wait for a confirmed push;
`Badges` counts what is lost that way.

### Friends

`createPairingCode`, `createRequest`, `acceptRequest` and `rejectRequest` are split at their
reads: `minting` and `asking` hold what the first two have read, `accepting` and `rejecting`
count the answers to a request that have read it as PENDING. Codes are matched by their
hashes in the code and by identity here: two live codes with the same eight digits are left
out. A code is `"dead"` once it is consumed or past `expiresAt`, which may happen at any
moment. The two unique indexes (requester and addressee; the pair of a friendship) are the
guards of the writes, with `AskFail`, `AcceptFail` and `RejectFail` for the calls they, or a
row that has gone, refuse. A request that is cleared keeps its element of `Row`, which is not
used again. `madeWith` and `ended` are history variables.

`rejectRequest` reads PENDING, `acceptRequest` runs, `rejectRequest` writes REJECTED by id
(friends.service.ts:181): two are friends by a rejected request. `OriginIsAnswered` and
`AcceptedMadeFriends` say what survives that race. Two users who enter one code both get their
request (friends.service.ts:87), and deleting a friend leaves the request ACCEPTED
(friends.service.ts:243).

### Credentials

One e-mail address. A call of the REST interface is an element of `Request`, and also stands
for the session, the password and the refresh secret that it may create. `req[r]` says where
it stands and what it has looked up: a code, a captcha with its `attemptCount`, the password
hash it was compared with, a refresh secret. Lookup and use are separate steps, and any
statement in between may throw (`Fail`). Codes are their places in the order of `createdAt`;
only the newest usable one is compared with. `used`, `looked` and `raced` are history
variables.

A secret may be used by two requests, both of which held it before the first use
(`SecretUsesOverlap`); a stale answer writes a lower `attemptCount` back; a login that
compared the old password survives a reset that runs beside it (`OldPasswordSessionsRaced`).

### LoginForm

`LoginPage` with its three forms, `RegisterPage` and `GuestLoginPage`. A form has one submit and
one request for a code under way, by two refs (`busy`) which the forms of `LoginPage` share:
`switchMode` clears them while an answer is still to come, and the answer then acts on whatever
the user is looking at. An earlier login may so replace a later one, if its form was left or
its ref was cleared by another call (`loose`, a history variable of `LaterLoginStays`). A page
that is left is forgotten, its calls are not. What is typed is left out but for the captcha's
answer.

### Files

Requests are uploads, forwards (`Clone`), sends with a file and avatars. `at` walks each
through the awaits: the temporary file, the move (rename, or copy and unlink), the row, and
the catch block with its unlinks. Every await may fail, a statement may commit and be reported
as failed, and a restart cuts everything off and runs `cleanupTemporaryUsers`. The history
variables name the ways in which the code leaves disk and rows apart: a request cut off, or
refused outside of its `try`, leaves its temporary file (users.service.ts:94); a row that was
committed but reported as failed loses its file; guests' rows go and their files stay; two
avatars may get the same name in one millisecond. A send attaches the file it has read as
UPLOADED by id alone, so that two sends at once both take it (`FileStaysWithItsMessage`).

### Groups

A request (`add`, `remove`, `leave`, `update`, `nickname`, `remark`) is checked, writes, reads
the conversation again and tells the members, each a step (`Check`, `Write`, `Reread`,
`Tell`). Who hears of it is taken from what the check read or from what was read again, as in
the code (`Told`). The client of `Me` has its socket's events in order (`inbox`), answers and
lists at any time, and a connection that drops. `upsertOpenedConversation` takes an answer
without asking whether `Me` is still a member, and a selected group stays although a list is
without it (`kept`). When the caller has left in between, `findAccessibleConversation` throws:
what was written stays and nobody is told (`RereadFails`, conversations.service.ts:395); such
overlaps are outside of `QuietViewIsRight`. Creating a group is the initial state.

### ChatStatus

The bubbles of one conversation: `list` has what `messagesByConversation` has, `wire` the
sends on their way, `events` what the server has emitted (in any order: its handlers await
before they emit), `handlers` and `page` the client's code at an await. What it lets happen:
reading through marks failed and pending bubbles as read (chat.store.ts:2318), an error event
is blamed on the latest bubble being sent (1790), so that a retry makes a second message
(messages.service.ts:182), a late `delivered` overwrites a recall, and a page may take back a
READ that was of a later message.

`markDelivered` reads the status and writes in a later transaction (messages.service.ts:231-270):
`MarkDeliveredRead`, `MarkDeliveredWrite`. A row that was read or recalled in between is
DELIVERED again (`setBack`), and a page that is not outdated at all then takes the bubble back.
`delivering` keeps a call that has written, since another may have read the same.

A page comes from the server (`LoadPage`), which also caches it, or from the local cache when the
network does not answer (`FallBack`, chat.store.ts:261-304); either takes the place of the list
but for pending texts. Writes to the cache are begun and not waited for, they may fail
(1442-1460), and the user may clear the cache at any time: `cache` has of each message the bubbles
that its row may stand for, and a page from there may lack any of them. So a text that was sent
and acknowledged vanishes from the screen until the next page of the server (`TextsAreKept` names
this). Texts and their edits (749, 1901) are in `MessageEdits`.

### MessageEdits

Texts, the form that edits them, and what the server has (`row`). A failed or pending bubble is
edited in the store alone and reaches the server by the next attempt; a sent one is encrypted
and saved, and the form closes after that await for whatever it is open by then. A bubble that
comes back from the server has another id, so that a form opened before shows nothing
(`ShowsForm`). `UnhurriedEditIsKept` says which texts are kept; a text edited while its message
is on the way is lost when the message comes back (chat.store.ts:1901).

### ChatPages

Which messages of a conversation are shown. A load (`calls`) is asked, answered from server
or cache, and merged after decryption; `shown`, `hasMore`, `cursor`, `older`, `loading` are
the store's. `cache`, `deleted` and `cleared` are the device's: caching a fetched page again
forgets a local deletion (local_cache.rs:460), and a handler compares with the watermark it
read before its await (chat.store.ts:1587). An older page that is dropped leaves
`isLoadingOlder` set until the next selection (341). Opening a conversation with a user selects
twice: `openDirectConversation` sets what is selected again when the load inside it ends (445),
also when the user has gone elsewhere by then, and resets no pagination (`Reselect`). An
indicator that an abandoned load of older messages left set then shows without a load; these
selections are `reopened`. No call has a timeout, so no liveness is claimed.

### Badges

One entry of the list. `unreadCount` is told apart by message so that what is counted twice is
seen: `counted` is the set of messages it stands for, `again` how often it counts one of them
once more. Lists, pages and openings come over HTTP, events over the socket in
their order. `manual`, `override` and `hidden` are the marks of `MainLayout`. Handlers that
decrypt are not kept twice when they are identical, one `selectConversation` is under way at a
time, and the list's two queries are taken as one (conversations.service.ts:153-170). Outside
of `clean` the badge is wrong in many ways: updates of a group and `openDirect` carry
`unreadCount` 0 (conversations.service.ts:920, chat.store.ts:2078), a list read during a push
counts it twice, the echo of a read clears later messages (1638), a `message:read` sent right
after a reconnect is refused (realtime.gateway.ts:125), a message of an unknown conversation
is dropped (1557).

### Contacts

What one client knows of one other user, in three copies that fetch on their own: the contacts
page (`shown`), the number on the badge (`count`), the main page's list of friends (`friend`,
`loaded`), which says who may be written to. `Notify` is `notifyFriendRequestChanged`: it goes
to the socket that is registered, has no content, and makes every listener fetch. The page also
fetches when it is opened, after its own actions, and whenever `isNetworkOnline` changes
(FriendsPage.tsx:117-121); the other two wait for the next hint. A fetch reads requests and
friends in two steps and is applied at any time later; nothing orders the answers.
`QuietContactsAreRight` says of each copy when it agrees with the server once nothing is under
way: when the fetch begun last was also applied last (`fresh`), and no change went by untold
since (`lost`). What goes by untold is what happens without a connection, between the client's
`connect` and the registration of the socket, and the clearing of answered requests, of which
the other user never hears (friends.service.ts:194-203), nor does the page that is opened
while the clearing of an earlier visit is still to be answered. `handleMessageFriend` may put a
friendship that has ended back into the main page's list (`vouched`). The copies that are
looked at together, and what is had of the bounds with them, are chosen by the initial state
(`Looks`).

### ClientSession

The stores of one client between the login page, the main page and the settings page, with
sessions revoked elsewhere, tokens that expire, REST calls that carry the token of the moment
they are sent and are judged at any time before their answer, and a socket that is opened by
the main page alone. The client never refreshes its token. Late answers act on whoever is
logged in: a 401 opens the dialog over the new session, a logout's `finally` clears it. The
server's drop of a socket never leads to a reconnect; a failed REST call sets 'reconnecting'
although the socket is up (`blamed`). The store is not emptied by a logout: what was selected in
it goes into the next list (`opened`). Nor do the answers to calls that change a group or open a
conversation ask who is logged in: `upsertOpenedConversation` puts a conversation that is missing
at the head of the list (chat.store.ts:412-495, 871-961, 2067-2075), so that the autosave of one account
that is answered after another's list was taken stays in that list (`ChangeAnswered`, `late`).
`ShownIsOwn` allows the two and nothing else. What the events of the session's own socket do to
the list, and `leaveGroup`, whose answer only takes out, are left out. An account's conversations
are one value, the issue of a session is taken with its answer, and the profile kept beside the
token is left out.

### GroupSettings, GroupDialog

The two ways in which a group is edited. In `GroupSettings` one draft, one ref of the text
saved last and one timer per input serve all groups; `Taken` and `Continue` are the effects
that set the drafts back. A save that is answered when another group is selected puts the
text into that group's input and notes it as saved there: it is not saved for that group
(`OnlyTypedIsSaved`), but typing the same text there is not saved either. Text typed during a
save, and the unsaved draft of the other input, are overwritten; `UnhurriedIsSaved` says what
is not. In `GroupDialog` a save sends all fields; after a stale list, or a save that was stored
and reported as failed, the next save sends the old value of a field nobody edited
(`OnlyEditedFieldsChange`). A save that failed is not processed later, the owner is the sole
editor, and texts have no blanks around them.

### Preferences, Downloads

`Preferences` has the commands to the shell and its answers in order. `updateConfig` sends the
whole configuration from the copy of the moment of the click, a list from the copy on the
screen: a choice overwrites another that is under way (`risky`). A write that fails or is cut
off leaves a torn file, which only `updateConfig` replaces. `Downloads` has the fetch, the file
under a free name, and the row in `local_files`; the page forgets what runs when it is left,
so that the same file may be downloaded twice at once.

## Runs

| Run | Instance | States | Properties |
|---|---|---|---|
| `sessions` | 1 user, 2 logins, 3 sockets, 1 restart | 460 thousand | `OneOpenSocket`, `OlderSessionsDead`; `SingleDeviceSpec`, the refinement |
| `messages` | 2 users, 2 messages, 1 call in flight, direct and group | 326 thousand | `StatusIsJustified`, `DeliveredIsShown`, `LastReadIsRead`, `OnlyStaleDeliveryGoesBack` |
| `delivery` | 2 receivers, 1 message, 2 sockets, 1 restart | 257 thousand | `NothingStranded`, `EventuallyDelivered` |
| `friends` | 3 users, 3 codes, 2 requests, 2 answers in flight | 451 thousand | `OriginIsAnswered`, `AcceptedMadeFriends`, `PendingCrossesOrigin` |
| `credentials` | 3 calls, 1 captcha, 2 codes, 2 attempts; 3 calls of the pages | 754 thousand | `SecretUsesOverlap`, `OldPasswordSessionsRaced`; `LaterLoginStays` |
| `chat_status` | 1 own text, 2 messages, 1 send on the wire, 2 events, 2 changes, without pages, with the server's, or with the cache's and 1 change; 2 bubbles and 4 texts edited | 1.4 million | `ShownIsJustified`, `SentTwiceWasBlamed`, `OnlyLateNewsGoesBack`, `TextsAreKept`; `UnhurriedEditIsKept` |
| `chat_pages` | pages of 1, 3 messages, 3 loads; 2 accounts, 2 logins, 2 calls, 1 fault, changes by the first login; contacts with 2 changes, or 1 with 2 visits of the page or a fault, the page and the list together with 1 | 2.4 million | `SpinnersAreServed`, `NothingIsSkipped`, `TakenAwayStaysAway`; `ReplacedIsTrue`, `StatusIsTheSockets`, `ShownIsOwn`; `QuietContactsAreRight` |
| `groups` | 3 users, 2 requests, 1 list, 1 lost connection; forms of 2 groups with 2 texts typed and 2 saves | 1.9 million | `QuietViewIsRight`, `NobodyInheritsTheGroup`; `OnlyTypedIsSaved`, `UnhurriedIsSaved`, `OnlyEditedFieldsChange` |
| `files` | an upload, a forward, 2 sends, 2 avatars, 1 restart; 2 downloads, 1 crash; 3 choices, 1 fault | 640 thousand | `StorageMatchesRows`, `FileStaysWithItsMessage`; `RecordedIsThere`, `QuietCopyIsTheFile`, `OnlyHurriedChoicesAreLost` |
| `badges` | 2 messages, 1 list, 2 acts of the user | 4.4 million | `QuietBadgeIsRight`, `ReadWasShown`, `HiddenComesBack` |
| `old_device` | 1 user, 2 logins, 2 sockets | until violated | `OldDeviceOffline` fails |
| `presence` | 1 user, 2 logins, 2 sockets | until violated | `FriendsHearTheTruth` fails |

Why the bounds are enough for the cases that matter:

* Users never touch each other's sessions and sockets, so one user is a full picture of the
  registry. A takeover needs two sockets and a third to take over from the winner; revocation
  needs two logins that overlap.
* Reading through a message needs an earlier and a later one, an overwrite of a stale read
  needs a call that has read and another that writes; two of the latter, and a third user,
  were explored as well and change nothing.
* The offline loop and the send loop meet over one row; a second receiver shows what happens
  behind a failing one, a second socket what happens when the loop's socket is replaced.
* Crossing requests need two codes and two rows, a third user and code let a stranger race
  for a code, and two answers in flight are an acceptance against a rejection.
* A secret used twice needs two calls; the third is the reset, or the one that comes too late.
  Two attempts are the least number with a last one that is not the first.
* A bubble's hazards are of one own text against one message of the peer, since what is read
  through is earlier than something. Events that overtake one another, pages of the server between
  events, and pages of the cache are explored apart (`part` in `MCChatStatus`): with a page, events
  of the server come one by one, and where the cache is, one delivery, read or recall is enough for
  a row to be missing or outdated; all of them together are the theorems'. Pages of one message make every load end at a boundary;
  the third message is the one that arrives during the second page.
* A member added and removed is two requests; three requests were explored without the
  symmetric member. The forms need two groups, because what goes wrong is that a draft, a
  timer or an answer of one meets the other.
* A file attached twice needs two sends, an avatar of the same name two uploads. Two uploads
  (7.6 million states) and two forwards (2 million) were explored as well.
* A list taken by the second account needs a call of the first that is still to be answered, so
  changes are made by the first login, and where they are nothing fails or expires (`FirstChanges`);
  answers meet from two calls on (`TwoCalls`). Changes by both logins, three calls, and faults among
  changes were explored as well (1.5 to 2.3 million states of the session alone).
  Accounts are alike, so the first login is ann's (`AnnFirst`), and the login page shows a failure
  only of the login (`HealthyServer`).
* Contacts go wrong between two fetches, or between a change and the hint; the second visit lets
  the answer to an action come to a page that was left and opened again.
* A badge goes wrong between a list and a push, so two messages and a list are the least; the
  initial states let there be a message that was unread, read, or never sent.

Where several components are explored in one run, no action of one changes what another
reads, so the run is the sum of their state spaces. Symmetry is used for sets whose elements
nothing in the code tells apart, and never in the run with liveness. `NobodyInheritsTheGroup`
and `OnlyEditedFieldsChange` are properties of single steps and do not name the elements that
symmetry exchanges. Deadlock is not checked: sockets, messages and clicks are bounded, and a
server on which nobody acts may stop.

Invariants that speak of a quiet state (`QuietViewIsRight`, `QuietBadgeIsRight`,
`QuietCopyIsTheFile`) have their quiet states within the bounds, after the requests they speak
of: the mutants listed in `PROJECT.json`, one for every property, each break the property
through such states.

### What the violations show

* **`old_device`** The specification has the old device go offline when a new one logs in
  (docs/LanGram_MVP_Spec.md:524-525). A connection whose session was read as live just before
  the login revokes it is registered after the login has kicked, and stays attached: the
  events of a socket are accepted on `client.data.user` and never look at the session again.
* **`presence`** A reconnect kicks the predecessor, whose `handleDisconnect` announces the
  user as offline after two queries. The announcement of the new connection may come before
  it; friends are left with "offline" about a connected user
  (realtime.gateway.spec.ts:206).

## Fairness

Only `Delivery` has a liveness property. Its fairness is weak, per handler
(`SendGoesOn`, `LoopGoesOn`): the event loop runs every callback that is due, and a query
either comes back or throws. Nothing is assumed about users, connections, logins or
restarts. `EventuallyDelivered` holds for a receiver whose connection stays open and lets the
handler of the sender fail half way, since nothing is retried before the next connect.

The client's calls have no timeouts and its retries are the user's, so the code justifies no
fairness for their answers, and no liveness is claimed there: `SpinnersAreServed` and the
quiet invariants say in a state what a progress property would say of a behaviour.

## Proofs

Every theorem holds for all values of the constants. The assumptions are that `None` is no
element of the other sets, that bounds are natural numbers, and those named below.

* **`SessionsProofs`** `IInv` joins the two registry invariants to what makes them
  inductive: a socket past registration has the owner of its token in `data.user`
  (`SocketsHaveTokens`, `AttachedAfterRegister`), an entry of the registry points to a socket
  of that very user (`EntriesAreAttached`), and what a login has revoked has no row that may
  still be created (`OlderAreRevoked`, `RowsAreDone`, `DoneHaveRows`). Without
  `EntriesAreAttached` a kick could close the socket of somebody else, and
  `OneOpenSocket` would not survive `KickUser`. `StaleStayOut` carries
  `DeadTokenNeverRegisters`: a session dead at the connect is dead when it is read. It and
  `RegisteredIsOnline` are proved only; no run checks them.
  `RegistryIsSingleDevice` maps every step to an `Attach`, a `Detach`, a `Reset` or a stutter
  of `SingleDevice`.
* **`ConversationProofs`** has three invariants.
  `MessagesInv` is about the server's rows: what a handler holds stands for a committed message
  (`MarkingSawRows`, `ChangingExist`), receipts have delivery rows (`ReceiptsHaveRows`), a direct
  message goes to the one other member (`DirectReachesPeer`) and a message not committed is unseen
  (`OpenSendsAreUnseen`, `CommittedAreCreated`, `OneSendEach`).
  `StatusGoesBackOnlyStale` follows from it step by step.
  `StatusInv` is about the bubbles. Rows, events, the page under way, rows of the local cache and
  bubbles are true of what has happened (`RowsAreTrue`, `NewsIsTrue`, `PageIsTrue`, `CacheIsTrue`,
  `BubblesAreSound`), and messages of the
  peer are shown once (`PeersAreShownOnce`). A row that differs from what has happened to its
  message was set back by a call that had read SENT. A send that was never blamed is in one place only: on
  its way, refused, or a message, and of these exactly one (`Once`); the bubble that carries its
  own id stands before that of its message, which a page may have brought already (`InOrder`). From these follow
  `SentTwiceWasBlamed`, and that a merge, whichever rows its page lacks, keeps what it finds
  pending (`TextsAreKept`).
  `EditsInv` is about the texts that a user edits. `StageIsTrue` says which calls and events
  there can be at each stage of a bubble: while it is pending, no edit and no event but its own
  message; while it is on the wire, no row, unless an event was lost. `TextIsSaved` says of a bubble that nobody hurried that all of these
  carry the text saved last.
* **`ArrivalsProofs`** has two invariants. `DeliveryInv`: `NothingStranded` follows from
  `LaterAreServed` (a message committed after a socket's list was read has a send loop that has
  yet to come to the receiver, or served it, or failed) and `ListedAreServed` (a listed message
  is pending or has been marked). `MarkedIsFirst` says that a loop in the middle of a push has
  something left to mark, `CurrentIsOwned` that the registered socket of a receiver is one it
  connected with. `LoopsKeepTheRegistry` maps every step to one of `SingleDevice` or a stutter; it needs
  that an open connection has registered for a receiver (`OpenAreOwned`), since `handleDisconnect`
  looks for the socket in that receiver's entry.
  `BadgesInv` says of every message where it still is. `Sure` are those that arrive for certain,
  since the server has yet to deliver them or an event or handler has them; `ToRead` and `Seen`
  those that will be reported read; `Paged` those on a page under way. `LoopsHaveAll`: what is
  undelivered is in a loop of the connection or waits for the next one. `ReadOnesAreShown`: what
  is read, or will be reported without another look at it, was shown, is arriving, or was let
  go. `EntryIsSound` and `NewOnesAreListed` are about the entry: what it counts is older than its removal,
  and an unread message newer than that is arriving. `CountIsRight`, while nothing has
  overlapped: what is unread and not counted is arriving, to be reported read, or on a page; what
  is counted and not unread has an echo on its way. When nothing is under way these sets are
  empty (`NothingIsUnderWay`), and what is left of the invariant is the three properties. The
  count needs the difference between a message that will arrive and one that a loop merely still
  holds: the second loop may push what the first has already delivered, and may also skip it.
* **`FriendsProofs`** `IInv` adds to the properties that a request has two distinct users
  and a code (`RowsHavePeople`), that the unique index holds (`OneRowEach`), that codes have
  owners and an open transaction's code is unseen (`CodesHaveOwners`, `OpenMintsAreUnseen`),
  and that an open call stands for a code of somebody else or a request that was made
  (`AskersFoundCodes`, `AnswersSawRows`): a request found PENDING may have been cleared, but
  its two users cannot change any more. `PendingRequestsCross` is not part of the induction:
  it follows from `OneRowEach` and `OriginIsAnswered` (`TwoRequestsCross`).
* **`CredentialsProofs`** Three invariants, each over the one before. `TInv` is the types with
  what calls under way hold (`HoldersHold`) and that a living session has a refresh secret
  (`SessionsHaveSecrets`); that `attemptCount` never passes the limit is one of its types.
  `SInv` carries `SecretUsesOverlap`: a secret that has been used is over for everyone who
  looks it up later (`UsedIsOver`), and whoever holds one has looked it up (`HoldersLooked`).
  For refresh tokens this needs that a rotation brings a secret nobody has seen
  (`SecretsAreMade`, `SecretsAreApart`, `RotatesKnow`). `PInv` carries
  `OldPasswordSessionsRaced`: a login that holds an old password was under way at the reset
  (`StaleLoginsRaced`), unless the reset was cut off, and sessions and accounts come from calls that have ended or are
  registrations (`SessionsAreOpened`, `CreatorsRegister`, `WriterHasWritten`).
  `LoginInv`, of the pages, carries `LaterLoginStays`: calls are made in their order
  (`MadeInOrder`), a submit that is not `loose` has its page and its ref (`SubmitsAreHeld`), and of
  two submits the earlier one is loose (`LaterFindLoose`).
  It is assumed that captchas, requests and the natural numbers are different things.
* **`GroupsProofs`** Types need that a handler which has read the group again holds one
  (`HandlersKnow`) and that who is about to leave has a row (`LeaversHaveRows`): without it
  `Leave` could note someone as gone who was never in. `OwnershipIsNotInherited` follows because
  no step makes an owner of someone who is none (`OwnersAreNotMade`): `Add` revives a row as
  MEMBER, whatever it was. `RInv` carries `QuietViewIsRight`, in two halves: what the server's
  rows and the requests under way say of `Me` (`TrueInv`), and what the client shows is right, or
  something on its way will make it so (`ViewInv`): an event, an answer, a list asked for late
  enough, or a connection that is to come back.
  Of the settings, `OnlyTypedIsSaved` needs that the draft which has not been saved,
  the timer and the calls carry text that was typed for the group they name (`UnsavedIsTyped`,
  `CallsAreTyped`). This holds although an answer writes into the draft of the selected group:
  the same answer notes the text as saved, and the ref is what the next save is compared with.
  `SavesInv` carries `UnhurriedIsSaved`: a call of a group that nothing hurried carries the text
  wanted for it (`CallsAreWanted`), and a text wanted and not saved is due, by the timer or a call
  (`WantedIsDue`). `DialogInv` has one save at a time (`OneOrder`), the store true of a group that
  did not change behind it, but for that save (`KnownIsTrue`), the inputs as in the store or edited
  (`FormFollows`), and a save on its way that leaves the fields nobody edited (`OrdersAreEdited`).
* **`FilesProofs`** `IInv` is the types, and one invariant each for uploads, sends and
  avatars (`UploadInv`, `SendInv`, `AvatarInv`), which leave each other alone: what a request has
  on disk follows from its phase, unless it was broken off; an attached file has one sender, unless
  two had read it as free; a picture that is shown was written by an upload that has not been
  replaced, unless two share a name.
  A record of a download is written for a path at which a complete file has been put
  (`SavedIsThere`), and a path is only written where there is nothing (`FilesStay`). The free name
  is the least of those that are free (`LeastIsOne`).
  `PreferencesInv` has two halves over the types, which say what a command carries (`Orders`,
  `Replies`). `CopyAgrees`: what was last read or saved, in the copy or in the last answer that
  will be copied, is the file, but for a directory that a load is to bring (`Mending`).
  `ChoicesArrive`: a choice that is not risky is everywhere (`Settled`), or on its way: it waits
  for a read (`ToRead`), stands in the queue with nothing behind that undoes it (`InCommands`), is
  on file and comes back with an answer (`InAnswers`) or a load (`ToLoad`), or has failed and its
  answer says so (`Doomed`). The shell's flag needs its own clause (`TrayRight`), since it follows
  the file by a second command, and a torn file for which there is no copy (`Hopeless`) stays one.
* **`ClientProofs`** `PagesInv` carries the properties of `ChatPages`: loads know what they
  may (`LoadsAreSound`), what was taken away is known to whoever may bring it back
  (`TakenIsKnown`), and messages are shown, on their way, taken or lost: those after the ones that the last
  merged page was read among (`LaterAreAccounted`), and all from a first one on, before which the cursor still is
  (`WholeIsWhole`). `ClientInv` carries those of `ClientSession`: a
  socket has the token of a login of its own (`SocketIsOwn`), a session that was kicked is dead
  (`KickedIsDead`), the status is the socket's (`StatusIsTrue`), what is selected was visited
  (`SelectedIsVisited`); what is in the list beyond that is the session's own, or was put there by
  an answer to an earlier one (`ListStaysOwn`). `ContactsInv` says of each copy, unless a hint is
  coming or a change went by untold, that it is right if its newest fetch was applied, and that this fetch has read
  what is there or has it still to read (`CountIsKnown`, `ListIsKnown`, `PageFriendsAreKnown`,
  `PageRequestsAreKnown`). Ids are never used twice (`IdsAreNew`).

The constants are assumed to be sound where the code needs them to be: bounds are numbers
(`AttemptsAssumption`, `BoundAssumption`, `CallsAssumption`, `CountsAssumption`,
`LooksAssumption`, `TextsAssumption`), markers are none of the things
they mark the absence of (`NoneAssumption`, `SocketAssumption`, `UserAssumption`, `AccountAssumption`,
`PressesAssumption`, `LoginsAssumption`), the empty text is a text (`NoTextAssumption`), there is a theme, a default
directory, and a torn or missing file is no configuration (`ChoiceAssumption`). TLC evaluates each of
them.

The `TypeOK` of these modules are proved and not checked in the runs.

Every invariant and action property of a passing run is stated by a theorem, and so is the
refinement. Model-checked only: `EventuallyDelivered`, because liveness is out of the prover's
reach, and the violations.
Recursion is only over recursive functions and folds, none of which a proof goes into.

## What remains

In the order of what each would add:

1. The creation of conversations: `createDirectConversation` reads and creates, and the unique index on
   the pair decides between two at once (conversations.service.ts:201). Groups begin created.
2. The remaining forms; the profile that `auth.store` keeps, which a late
   answer of `getCurrentUserProfile` sets for whoever is logged in by then
   (SettingsPage.tsx:127-133).
3. `Files` composed with `Messages`, so that a file is attached by a send that also delivers.
4. An abstract specification of a badge (what was pushed and not shown) that `Badges`
   implements in the absence of the listed causes.

## Not modelled

* Contents of messages and their encryption (one opaque value), validation of inputs, wording
  of previews and errors, logging, and the time windows of recall and edit (a refusal changes
  nothing).
* Presence of friends in the store, the remaining forms, menus and rendering;
  the tray menu, windows and notifications of the shell. They are input and output, or keep no
  state another component reads.
* REST wrappers, DTOs, configuration and the retry loop that connects to the database.

Simplifications, beyond those named under each module: the effects of a React render run
before the next event; one write to the local cache is atomic; texts come trimmed; the server
judges the token of a REST call in one step (the race between check and use is in `Sessions`).

Seen in the code and in no property, since no line of the repository says otherwise: pinning a
conversation before the pins have been loaded forgets the other pins; a change of the download
directory that writes and then fails leaves the copy stale; forwarding an own message to a
conversation that was never opened hides its badge; a click on the notification of a
conversation that is open in the background closes it (MainLayout.tsx:873, 963); a `kicked`
event lost with its connection shows no dialog until a REST call is answered with 401; the
main page mounted while the status is 'online' loads the list twice.
