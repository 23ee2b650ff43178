# TechGram backend in TLA+

A verification project for the TechGram college-fest backend: NestJS services
over PostgreSQL (Prisma), a BullMQ queue on Redis, and a Socket.IO gateway, all
in one Node process. Paths below are relative to the repository; the services
are under `src/modules/`.

What makes this program hard is not any single handler. Nearly every handler
reads, decides and writes in separate autocommitted statements, one per
`await this.prisma...`; there are three transactions in the whole program.
Handlers interleave at every `await`, and a failure leaves what was written
so far. The tests of the repository start the application and look at one
route. So the models treat each statement as a step, and ask what the unique
keys and the order of the statements protect and what they do not.

## 1. Inventory

| component | state | operations that write | hard behaviour | what makes it correct |
|---|---|---|---|---|
| registrations (`registrations/`) | `EventRegistration` rows, unique per event and user; submissions; seats in the event chat | `register` (leader and team), `updateStatus`, `approveAll`, `remove` | capacity counted before the inserts; a team inserted row by row; a cancellation between insert and chat seat | bounded overshoot of the capacity; a row is never taken over by another; seats match registrations |
| attendance (`attendance/`) | `Attendance` rows, never deleted | `checkIn` | status read two statements before it is replaced | CHECKED_IN has an attendance; only APPROVED becomes CHECKED_IN |
| events, organizers (`events/`) | event status, `deletedAt`; `EventOrganizer` roles | `create`, `update`, `updateStatus`, `remove`, `addOrganizer`, `removeOrganizer` | count of PRIMARY organizers before the delete; deletion against a late status | some PRIMARY organizer; a deletion is final but for a status that was under way |
| chat (`chat/`) | conversations, members, messages, reactions, pins | messages, reactions, pins, read marks, `kickMember`, `syncAllEvents` | sync writes from a snapshot; duplicate direct conversations | seats are earned; one direct conversation per pair |
| chat gateway (`src/websocket/`) | sockets per user, rooms | connect, authenticate, join, leave, disconnect; chat events forwarded to rooms | membership read before the join; presence broadcast after a query; removed members stay in the room | who is in a room had a seat when it came; the presence last announced in the rooms of a user's seats is true |
| fests (`fest/`) | fests with `isActive`, `FestRegistration` rows | `create`, `update`, `updateGuidelines`, `autoRegisterForActiveFest` | switch off the others, then switch on | one active fest |
| ticketing (`ticketing/`) | `Ticket` rows, unique number, unique per fest and user | `getMyTickets` (issues), `refreshQr`, `verifyQrToken` (write nothing) | number from a count that is out of date when used | numbers without gap or repeat; a registration behind each ticket; who asks gets one |
| auth (`auth/`) | users, `RefreshToken` families (refresh, RESET_, VERIFY_) | `register`, `login`, `logout`, `refreshTokens`, `changePassword`, `forgotPassword`, `resetPassword`, `verifyEmail`, `resendVerification` | read-then-revoke; refresh against logout; background work started by sign-up | a token is used once; nothing of a revoked family lives |
| gamification (`gamification/`) | XP, level, streak with freezes, badges, leaderboard cache | `checkIn`, `useStreakFreeze`, `awardXp`, `awardBadgeIfNotEarned`, `refreshLeaderboardCache` | read-then-write per day; level from an old total; badge before its XP | one award per day and badge; level never ahead of the XP |
| notifications (`notifications/`) | in-app rows, preferences, device tokens, the job queue | `send`, `process` (3 attempts), `broadcast`, marks and preferences | a retry repeats the first step | every job ends, with a bounded number of rows |
| scheduled jobs (`notifications/processors/`) | none of its own | reminders, token cleanup, digest, file cleanup, leaderboard | overlapping windows, an event that is moved, loops that can stop half-way | few reminders per participant and date |
| workflow (`workflow/`) | definitions, instances, actions | `executeAction`, definition CRUD; `startWorkflowInstance` has no caller | decision on a snapshot, three writes | stage order; a final decision is final |
| expenses, files (`expenses/`, `files/`) | expenses with a status and a receipt; files and their objects in the bucket | `createExpense`, `updateStatus`, `getReports`; `requestUploadUrl`, `confirmUpload` | status read then written; a report put together from several queries | an approval is undone only by a reviewer or a late resubmission; a receipt exists |
| admin, forms (`admin/`, `forms/`) | winners, settings, formats; the form of an event with its version | `setEventWinners`, `updateSettings`, `updateRegNumberFormat`; `updateForm` | two replacements at once | a later list replaces the earlier one; versions count writes |
| users, groups (`users/`, `groups/`) | accounts, roles, statuses; groups and members | sign-up, roles, statuses, members, `autoAssignGroups` | the assignment after sign-up is a loop nobody waits for | a finished assignment has reached every group |
| organizations, feedback, audit | single rows | CRUD | unique keys decide | – |

How they interact. `auth.register` starts `fest.autoRegisterForActiveFest` and
`groups.autoAssignGroups` without waiting for them. Registrations, events and
chat all write `ConversationMember`; attendance, kick and the staff all write
`EventRegistration.status`. Ticketing and fests both issue tickets. The chat
service tells the gateway through an event emitter, in the same process.
Notifications go through the queue; scheduled jobs call notifications and
gamification. `PROJECT.json` lists every component with its state of modelling,
and the hazards with the line each bites at.

## 2. Modules

    EventDb ── Registrations ─┐
            ── Attendance ────┤
            ── Organizers ────┼── EventDesk ── MCEventDesk
            ── EventChat ─────┘            └── EventDesk_proofs

    TicketBook ── FestTicketing ── MCFestTicketing
                               └── FestTicketing_proofs

    RefreshTokens ── MCRefreshTokens
                  └── RefreshTokens_proofs

    Calls ── Gamification ────────────┐
          ── Workflow ────────────────┤
          ── Expenses ────────────────┤
          ── AdminRecords ────────────┼── Campus ── MCCampus
          ── People ──────────────────┤          └── Campus_proofs
          ── ChatRooms ── ChatGateway ┘
          ── Notifications

    Gamification_proofs, ChatGateway_proofs and Notifications_proofs each
    extend the module they are named after.  Campus_proofs extends Campus and
    Gamification_proofs, and has the theorems about the other four parts.
    Sums_proofs has the lemmas about sums that Gamification_proofs and the
    expenses need.

**EventDb** holds the five tables that the handlers of one event share, and the
requests in flight. A request is a record in a slot: a label (the statement
that comes next) and the locals its handler keeps. `Begin` takes a free slot,
`Goto` and `End` move on, `Throw` ends without a write, `Fail` is the death of
a request between two statements. A row carries a key (`row`), because
handlers update by a key they read earlier: a row that was deleted and created
again is not found.

**Registrations, Attendance, Organizers, EventChat** each model one service's
operations, with one action per statement and the action's name made of the
operation and what the statement does (`RegisterCapacity`, `CheckInMark`,
`RemoveOrganizerCount`...). Adjacent reads are merged only where the second
read makes the first redundant, and the comment says so. **EventDesk** composes
them and states the properties.

**FestTicketing** models the two services that issue tickets, with the fest's
activation and the sign-up that starts one of the two ways. **TicketBook** is
what numbering promises, without any of the statements: one book per fest, a
user gets the next number once. `NumberedInOrder` says that FestTicketing
implements it, with the number of holders as the last number issued.

**RefreshTokens** models the auth service without sign-up: login, rotation,
logout, change and reset of the password, verification, and the cleanup. All
tokens are rows of one table and the prefix of the family is their `kind`; as
in the code, `RefreshBegin` does not look at it. Logout and the reuse of a
revoked token are the same statement (`Close`), and so are the ends of
`changePassword` and `resetPassword` (`RevokeAll`). Three history variables say
what the tables do not: the families that a statement has `ended`, those of
them `overtaken` by a refresh in flight, and the users left `unsettled` by a
change of password. A later undisturbed one settles them again.

**Calls** is the frame of the other components: a call in flight is a record
in a slot with its statement (`pc`), its user and its locals, as in EventDb.

**Gamification** has the check-in from the read of `lastCheckIn` to the last
badge, the freeze, the leaderboard job and the queries whose two reads can
disagree. `Arrivals` gives each user a start: an account of the seed without
rows, one that has signed up, or a veteran with one day behind him. The
leaderboard at the start is what a refresh at that moment would write.

**Workflow** is `executeAction` with its three writes (verdict on the
registration, record of the action, move of the instance) and the definition
that `updateWorkflow` replaces under running instances; new stages get new
keys, so an instance can point to a stage that is gone. Nothing in the program
starts an instance yet (`workflow.service.ts:97` has no caller); the model does.

**Expenses** joins expenses and files: a receipt that refers to a file goes
through `requestUploadUrl`, an upload that may or may not happen, and
`confirmUpload`. `getReports` is one action per aggregate, the four in any
order, as they run side by side.

**AdminRecords** models batch transactions at READ COMMITTED: the delete of
`setEventWinners` sees only what was committed when it ran, and the unique key
decides the rest. **People** is sign-up as far as accounts, roles and groups
are concerned, with the guards of the routes that change them. A group is made
with the rule that was sent, and the assignments that come later heed it.

**ChatRooms** has conversations, seats, messages, reactions, pins and the
pages of `getMessages`. **ChatGateway** extends it with the sockets: what
authentication reads before it joins rooms, the presence that is broadcast
after a query, disconnects, and the end of the process, which takes all sockets
with it. What was announced of a user is kept per room (`shown`), because
`broadcastPresence` reaches the rooms of the seats its query finds and no others:
the room of a lost seat goes on showing what it showed, a room that the user
has joined since shows nothing of it, and of a user without seats nothing is
announced anywhere.

**Campus** composes the six. They share no table that two of them write
(accounts and guards are read when a request arrives and not again). In a
behaviour all calls go to the one part that is `here`: the module is a way to
check six independent parts in one run, and claims nothing about calls of
different parts in one behaviour. The theorems are about each part's own
specification.

**Notifications** models the queue: `send` adds a job, the worker takes it,
inserts the row, pushes, and is done; an error hands it out again, a crash makes
it stalled. The clock ticks in quarters of an hour, the period of the reminder
job. Cron runs and broadcasts are loops with a statement per user. The start of
the event is a variable, which `events.update` moves at any moment
(`UpdateStartDate`), so that a window can open again.

What the models abstract, and why it loses nothing:

- The conversation of an event exists from the start (`events.create` makes
  it, nothing deletes it, everyone else upserts it), so only its members are
  state.
- The private team chat of `register` needs a second `Conversation` with the
  same unique `eventId`. Its insert always fails and the handler catches it
  (`registrations.service.ts:242`), so it is not a step.
- Form submissions are written and never read back; the form that `register`
  makes for an event without one is not modelled, as `events.create` makes it
  with the event.
- The deadline and the rejection reason can only refuse a request before
  its first write: a refused request is one that was not sent.
- `maxParticipants` and the team sizes are constants. `events.update` can
  change them; that is not modelled (the `startDate` it moves is, in
  Notifications). Team sizes have no null in the schema.
- The permissions that bypass the organizer check are not seeded
  (`API_DOCUMENTATION.md:557`), so `AnyOrganizer` asks for some organizer.
- Tokens are numbered in the order of their insertion, which stands for the
  hash; expiry is a flag that time sets at any moment, as lifetimes differ
  by kind. A password is a value, compared and replaced; access tokens are
  signed and never stored.
- Numbers of tickets are records of year and sequence; the padding to five
  digits cuts nothing off.
- A level is its place in the table of thresholds. The numbers shown jump from
  10 to 15 and on in fives, which keeps their order.
- A receipt is the number of a file, or None for no receipt and for a URL that
  the client brought along, which nothing checks.
- The text of a message is what was done to it last: sent, edited, removed.
  `createdAt` is a small clock that may stand still between two messages.
- `lastReadAt`, `updatedAt` and the names of groups decide nothing and are not
  state. Which old notifications a digest counts is any set of them, since their
  age is not state either.
- Who is registered for the event of a reminder is any choice, at each read.
- A connection counts from its authentication: before it the gateway accepts
  nothing from it. The name of a socket is not used again while a call of its
  earlier connection runs, as names are random.
- The listeners of the gateway (`chat.gateway.ts:280` and on) send to
  rooms and change nothing. `handleMemberRemoved` means to make the sockets of a
  removed member leave, but looks them up where there is none
  (`chat.gateway.ts:377`), so it changes nothing either.

## 3. What is checked

| run | states | what it shows |
|---|---|---|
| `desk` | 1.48M, 2 min | Two requests in flight out of four, over register, remove, updateStatus, checkIn, kick, and the status and the deletion of the event, each may die. Types (a kick of somebody unregistered writes nothing), the bound on the overshoot, CHECKED_IN has an attendance, no registration is overwritten, and a deletion is final but for what was under way. |
| `serial` | 175k, 20 s | Every handler, one request at a time, five in a row. Some PRIMARY organizer, seats are earned, requests end. |
| `capacity` | violation | Two registrations count before either inserts. |
| `lastprimary` | violation | Two removals of PRIMARY organizers count before either deletes. |
| `stalecheckin` | violation | A kick between the read and the update of a check-in. |
| `numbers` | 406k, 45 s | Three users, two fests, two years, two requests in flight, each may die: FestTicketing implements TicketBook, and each ticket has a registration. |
| `served` | 196k, 20 s | Liveness: a user who keeps asking gets a ticket once one fest stays active. |
| `onefest` | violation | Two activations at once leave two active fests. |
| `tokens` | 434k, 25 s | Four requests of a user, two in flight, each may die, over all of auth: few successors, ended is dead, what a new password leaves valid. |
| `logout` | violation | A logout between the revoke and the insert of a refresh. |
| `parts` | 681k, 2 min | Campus: each of the six parts, by itself, with two calls in flight, three or four in all, each may die; nineteen properties and the types. |
| `queue` | 61k, 20 s | Two users, jobs of all kinds, with client calls, moves of the event, cron runs, errors and crashes out of one budget of four: rows and reminders are bounded, and every job ends. |

**OvershootBound** is the interesting one of `desk`. The capacity check does
not hold (see `capacity`), but it is not worthless either: the active
registrations, those a check-in may bring back, and the rows that admitted
requests have still to insert stay together below the capacity plus one full
team per slot. It takes the proviso that the staff only reject and cancel; a
staff member can set any status, and then there is no bound. CANCELLED
registrations that a check-in overwrites have to be counted (`Marking`): the
bound without them is false.

**SeatsAreEarned and SomePrimary** are claims about handlers, and hold with one
slot (for any number of users, by the theorems below). With two slots each can
be broken (`lastprimary` shows one). They are what the code does when requests
do not overlap, which is what its author had in mind; where a document states
one without that proviso there is a violation run.

**DeletionIsFinal** is what overlap leaves of "deleted means archived", which is
false: a status update that had passed its check when the event was deleted
brings it out of ARCHIVED. `Unwritten` are the writes of the event that are past
their check. From the deletion on none joins them, the deletion is never undone,
and a change of the status uses one up. So the event leaves ARCHIVED by a late
update only, and no more often than there were late updates; with two slots
the run has one on either side of a deletion.

**EndedIsDead, FewSuccessors and ValidUnderPassword** say exactly how far
overlapping requests can go. A logout is escaped only by a refresh that had
read its token (`logout` shows that it is), a token is rotated only by requests
that read it before it was revoked, and a password outlives its change only
until the handler revokes, or if the handler dies there, or if a login,
refresh or mail was between its read and its insert. One more case of the
last came out of the model: `resetPassword` revokes its own token by key
first, and when the cleanup has deleted it that statement throws and the
sessions stay.

**AskersAreServed** needs three hypotheses, and each is needed: a fest stays
active from some moment on; no ticket of another fest bears its year (two
fests of one year contend for the same numbers, and the later one's count can
stay for ever at a number that the other has used: nobody gets a ticket); and
requests do not die. Collisions still happen; each one is a ticket for
somebody else.

The properties of `parts` and `queue` say what is left of a promise when the
statements overlap. Where overlapping calls can break it, a history variable
marks whom that concerns (`muddled`, `contested`, `quiet`, `rushed`, `late`,
`excused`, `unheard`, `stirred`, `mixed`, `blurred`), as narrowly as it could be
made: everybody else keeps the promise, next to any number of others. Such a
property does not catch the race it sets aside, which the code does have; the
notes of the hazards in `PROJECT.json` say so one by one.

*Gamification.* **LevelNeverAhead** needs no proviso: the level is written by a
second statement from a total that another award may have outdated, so it can
fall behind for ever, but it is never ahead, in the row or on the leaderboard.
**XpIsBacked**: a total is what the check-ins paid and the badges held are
worth, less rewards on their way and, after a crash, those that never come.
**PaidOnceADay** and **FreezesPaidFor** hold for players whose calls neither
overlap nor die; for others two check-ins pay a day twice, and two uses cost one
freeze. **RankMakesSense**: the rank query reads the board twice, and a refresh
between the two does not make the distance to the next rank zero or less. The
run gets there with its three calls (a rank query between whose reads somebody
checks in and a refresh writes the board anew), because the board at the start
has both players where both have XP.

*Workflow.* **NoStageSkipped**: an approved registration has passed every index
of the stages its instance was started with. Overlapping approvals, a RETURN
between them, and `updateWorkflow` do not break it; stages that share an index
are passed together. **MovesAreRecorded**: what has moved shows it in its
history, because the record is written before the move; moved means past an
index that the instance was started with, as two overlapping `updateWorkflow` can
put an earlier stage under an instance that has just started. **VerdictMatches**: at
rest the instance and its registration agree, unless two actions overlapped.

*Expenses and files.* **ReceiptIsStored**: a receipt that refers to a file, and
a file for which a download is signed, are in the bucket. **ApprovedStands**:
an approval is undone only by another treasurer or by a resubmission
that had read the expense before. **QuietReportAgrees**: the figures of a report
add up when nothing changed under it.

*Staff records.* **ReplacedForGood**: a list of winners sent after another had
committed replaces it whole, whatever third list is written meanwhile; lists
that overlap can merge, but no user or position is there twice.
**FormCountsWrites**: the version of a form counts its writes. **AssignedToAll**:
an assignment that ran to its end has put the user into every matching group.

*Chat.* **OneDirectPerPair**: unless two creations overlapped.
**LateEditOnly**: a deleted message shows a text again only through an edit that
was on its way. **ScrollSeesAll**: whoever scrolls to the end misses only what
was deleted, or is as old as another message to the millisecond.
**RoomsFollowSeats**: a removal leaves the sockets of the member in the room (the
code means to prevent it and does not), but a socket that connects afterwards
does not get in, and only the loss of one's own seat excuses a socket.
**PresenceSettles**: when nothing about a user is on its way, the presence last
announced in the rooms of the user's seats is true. It says nothing of the room
of a seat that is lost, which goes on showing the last presence for ever
(ONLINE, say, after the disconnect), and of a seat taken since the last
announcement (`unheard`). Announcements that overlap, die or are asked for, and
sockets that change hands, can leave a wrong presence (`stirred`); the next
announcement that runs undisturbed puts it right in every such room.

*Queue.* **RowsPerSending**: a job leaves at most one row per attempt and per
stall survived. **FewReminders**: the windows of successive runs overlap, so a
participant is reminded of an event up to six times for one date. Each move of
the event can open a window again and add as many: the bound is the number of
ticks in the windows of all the dates the event has had. Reminders that a crash
loses are not missed by any property, as nothing in the code makes up for them.
**EveryJobEnds**: done with its row, or failed.

**Bounds.** `Users`, `Slots`, `Fests`, `Years` are small sets; `MaxRequests`
bounds the requests that are ever begun on an event, and the system stops there
(that is why these runs do not check for deadlock; the fest runs do). The
races of this code are between the statements of two requests, so two slots
show them; a third user is needed for a team next to a competitor, and four
requests for register, delete, register again and check in. The proofs
below remove the bounds. For tokens four
requests are a login and the three refreshes that would break the bound for two
slots, and one user suffices, since a statement touches one user's rows; the
proofs are for any number of users. `festYear` (an
update that changes the year of a fest) is left out of the ticket runs: then
the numbering promise does not hold by the meaning of the number, and the
state space is several times larger.

In `parts`, `MaxPlay`, `MaxFlow`, `MaxBill`, `MaxOffice`, `MaxPeople` and
`MaxChat` bound the calls begun (three, four for workflow and people), and two
can be in flight. That is enough for a call between the statements of another
and a third to see what is left: two overlapping creations and a look, an edit
around a deletion, a list of winners between two others, a stage left and
returned to. `MaxDay` is three, so that a day can be missed and a milestone
reached; rewards, thresholds and milestones are small in the proportions of the
real ones. One user is new, the other a veteran or one of the seed, as these are the
kinds of rows a check-in and the leaderboard meet. There is one SYSTEM group, and
another group is made without a rule or with one that the user who signs up meets
(`RulesSent`). Trips are for the event and food for none (`SpentFor`), so that a
report has two categories, and money spent on an event and on none. The chat
starts with one message and pages of one. Each bound stops the system, which is why the
run does not check for deadlock. The slots are symmetric, and so are the
sockets; the users are not, since they differ in what they may do.

In `queue`, `MaxNote` counts everything that is not the worker (client calls,
cron runs, errors and crashes), and `MaxTick` ends the clock after the start of
the event. The real values are three attempts, one stall, a window of four
quarters ahead and one behind, and three unread rows for a digest; the run has
two, one, one and none, and two. The event can be moved to any tick, while it
waits, is in its window, or is over. `Attempts + MaxStalls` and the windows are
formulas over the constants. One user may be registered
for the event (`Audience`); the other takes part in broadcasts and clients' calls.

**Fairness.** `NoteFairness` is weak fairness of `Work`: the BullMQ worker goes
on as long as there is a job it can work on. Errors and crashes are not fair
and are bounded by the budget, as attempts and stalls are by the queue.
`FairSpec` asks weak fairness of the next statement of each
request: an awaited promise is settled sooner or later, by the database or by
its error, and the event loop resumes every handler. Nothing is asked of
clients: that a user keeps asking is a hypothesis of `AskersAreServed`.

**Where the code and its documents differ.** Five runs expect a violation
(`capacity`, `lastprimary`, `stalecheckin`, `onefest`, `logout`); `PROJECT.json` quotes
the line each refutes. Met while modelling and seen by reading alone:
registrations start APPROVED and no workflow is started, while
`API_DOCUMENTATION.md:718` says PENDING and a workflow; `register` also accepts
PUBLISHED events; `syncAllEvents` gives seats to REJECTED users although its
comment (`chat.service.ts:837`) says active participants; a status update that
was under way when an event was deleted brings it out of ARCHIVED; a user
with a ticket of an earlier fest is not given one for the active fest by
`getMyTickets`.

In the components of Campus and in the queue, by reading:

- The comment at `gamification.constants.ts:53` says the default freezes of new
  users are 3; `auth.service.ts:74` creates the row with 2. `awardXp` is said to
  be called by other modules (`gamification.service.ts:368`); none does.
  `checkAndAwardBadges` has no caller, so its badges are never earned.
- `setEventWinners` is said to award a badge and XP (`admin.service.ts:486`); it
  does not.
- The preferences shown without a row differ from those applied (e-mail, and
  push of chat messages), and a row stored for another setting changes what is
  shown; `inAppEnabled` is stored and never applied; a broadcast ignores preferences. No
  caller passes an address, so no e-mail is ever sent.
- Reminders say that an event "starts soon" up to a quarter of an hour after
  its start, and ask for a status IN_PROGRESS (`scheduled-jobs.service.ts:43`)
  that events do not have (`prisma/schema.prisma:275`).
- Nothing sets a file ORPHANED, so the file cleanup deletes nothing;
  `takeAnalyticsSnapshot` and `checkStreaks` only log.
- The room of a conversation whose seat a user has lost shows the presence last
  announced there, whatever becomes of the user, and the presence of a user
  without seats is announced nowhere (`chat.gateway.ts:388`).
- `unreadCount` is always 0 (`chat.service.ts:83`). `moderateDeleteMessage`
  asks for an admin of the conversation in the path and deletes the message with
  the id, whichever conversation it is in (`chat.service.ts:698`). This is
  modelled as it is. `joinConversationRoom`, `addMemberToEventChat`,
  `removeMemberFromEventChat` and `syncEventOrganizers` have no caller.
- Neither `AuditService.log` nor `AuditInterceptor` is used: nothing is logged.

Every property of a passing run has a mutant in the modules: a definition
`<Name>...` preceding `<Name>`, with a plausible bug, that violates it.

## 4. What is proved

By TLAPS, for every value of the constants (finite sets of users and slots,
any capacity, team size, thresholds, stages, categories and number of calls),
every safety property that a passing run checks is a theorem; of `CampusTypeOK`
the types of each part are one:

- `EventDesk_proofs`: **TypeCorrect** ([]TypeOK), **RowsKept**
  ([]RowsAreReplacedOnlyAfterDeletion), **CheckedInAttended**
  ([]CheckedInHasAttendance), **Overshoot** ([]OvershootBound), **DeletionStays**
  (DeletionIsFinal); and, for one slot, **PrimaryStays** ([]SomePrimary) and,
  if no request dies, **SeatsEarned** ([]SeatsAreEarned).
- `FestTicketing_proofs`: **TypeCorrect**, **TicketsRegistered**
  ([]TicketIsRegistered), and **Numbered**: the specification implies
  `NumberedInOrder`, provided no fest changes its year.
- `RefreshTokens_proofs`: **TypeCorrect**, **Rotation** ([]FewSuccessors),
  **Ended** ([]EndedIsDead), **EndedOneAtATime** ([]LoggedOutStaysOut when there
  is one slot), **PasswordsSettle** ([]ValidUnderPassword).
- `Gamification_proofs`: **GameTypes** ([]GameTypeOK), **LevelsFollow**
  ([]LevelNeverAhead), **EveryXpIsPaid** ([]XpIsBacked), **DaysPaid**
  ([]PaidOnceADay), **FreezesLeft** ([]FreezesPaidFor), **NextRank**
  ([]RankMakesSense).
- `ChatGateway_proofs`: **ChatTypes** ([]ChatTypeOK), **RoomsFollow**
  ([]RoomsFollowSeats), **LateEdits** ([]LateEditOnly), **ScrolledToTheEnd**
  ([]ScrollSeesAll), **OneConversation** ([]OneDirectPerPair),
  **PresenceIsRight** ([]PresenceSettles).
- `Notifications_proofs`: **NoteTypes** ([]NoteTypeOK), **FewRows**
  ([]RowsPerSending), **Reminded** ([]FewReminders).
- `Campus_proofs`, on the workflow: **FlowTypes** ([]FlowTypeOK),
  **StagesInOrder** ([]NoStageSkipped), **HistoryTellsMoves**
  ([]MovesAreRecorded), **RestingVerdict** ([]VerdictMatches); on the expenses:
  **BillTypes** ([]BillTypeOK), **ReceiptsStored** ([]ReceiptIsStored),
  **ApprovalsStand** (ApprovedStands), **ReportsAgree** ([]QuietReportAgrees); on
  the staff's records: **OfficeTypes** ([]OfficeTypeOK), **FormWrites**
  ([]FormCountsWrites), **WinnersReplaced** ([]ReplacedForGood); on the accounts:
  **PeopleTypes** ([]PeopleTypeOK), **AssignmentComplete** ([]AssignedToAll).

The arguments. Type correctness is proved with what the locals of a request
are at each label: at `register.create` the loop index is within the team, at
`checkin.mark` there is a user. `CheckedInHasAttendance` is not inductive: the
update of a check-in needs to know that the attendance row was inserted, so the
invariant adds that a request at `checkin.mark` has its user in `attendance`,
which never shrinks. `OvershootBound` counts the
places that are taken or may be taken: the active registrations, the users of
check-ins under way (`Marking`), and the rows still to insert (`Pending`). A
step makes these sets no larger (`PlacesShrink`), or moves one place from
pending to active (`PlacesTaken`), or is a capacity check that passes
(`PlacesChecked`). In the last case the active registrations are fewer than
the capacity, and a slot holds one check-in or one team, so that the requests
in flight add at most `Cardinality(Slots) * MaxTeam` (`InFlightFits`).

For `DeletionStays` a step is that of one request (`OnlyOneMoves`), and the event
is written only by a request in `Unwritten`, which leaves it by that step
(`EventWritten`). Nobody joins after the deletion, because the check that leads
there reads the event.

The two claims for one slot rest on what the handler has read and is
still so when it writes. `PrimaryInv`: an organizer about to be deleted is not the last
PRIMARY one. `SeatsInv`: a seat may be without reason only for the user of a
request that is on its way to take it (`LeavingLabels`), and each handler's loop
gives seats to people who have registered or organize (`Relies`). With two slots
each of these can be lost between a read and a write; `lastprimary` shows one.

For `Numbered` the invariant has two parts. `YearInv`: a fest that is being
inserted is known to its own request alone, hence a year, once read into a
request or printed on a ticket, stays that of the fest. `NumberInv`: the
numbers of a fest are exactly 1 to the number of its holders, and a request
about to insert holds a number at most one beyond. So the insert either hits
a number that is taken, with the same year, and fails on the unique key, or
continues the book: `TicketBook!Issue`.

For tokens each invariant is extended from the rows to the requests about to
insert one. `StepShape` says once what all steps but the insert have in common
(`MovesTo`: one request moves, no row becomes valid again, and who will insert
was going to, has just begun, or has just read a valid token), and the three
invariants use it. `EndInv`: a request about to insert into an ended family has
overtaken its end. `SuccessorInv`: the successors of a token and the requests
that hold it are together at most the slots, and a valid token has no
successor; an insert turns a holder into a successor. `PasswordInv`: whatever
has, or will insert, something of another password is excused by an unsettled
user or by a request between the write and the revocation.

*Gamification.* For levels (`LevelInv`), whatever a row, a call in flight, or the board has
noted of a user's total has been reached (`Below`), and totals only grow. The
rest is that a level exists for every total (`MaxExists`, by well-foundedness) and
grows with it. A player whose calls do not overlap has one call in flight, and
`PlayerOK` says of that player what the row, the days paid and the freezes used
have to do with the statement this call is at (`Adds`): for example, a day that
is about to be paid is later than every day paid so far. It gives **DaysPaid**
and **FreezesLeft**; when a second call of the player begins, the player is
muddled and the claim is gone. **EveryXpIsPaid** is an accounting argument: every
step adds as much to the total and the rewards on their way as to what has been
earned, and only a call that dies takes something away (`XpBacked`). It adds over
sets, by the lemmas of `Sums_proofs`: a sum does not depend on the order in which
`SumFunctionOnSet` chooses its terms, a term can be taken out, and sums by key
add up to the sum over the keys. Induction over finite sets is replaced there
by a smallest set that violates the claim (`MinimalSet`, by
well-foundedness). **NextRank** (`RankInv`): an entry is backed when as many users
as its rank says have at least its total. Totals only grow, so what `getMyRank`
has read stays backed by every later board.

*Workflow.* For stages (`StageInv`), while an instance is in progress every index of its plan
below that of its stage has been passed (`Reached`), and an action in flight
carries what it read. Stage keys are not used again (`KeysInv`), so that a stage
that `updateWorkflow` removed is not mistaken for a new one. `RecordInv` adds that whatever an instance has
become is shown in its history, and what an action in flight will make of it is
shown there with the verb of that action; `VerdictInv` that an instance and its registration differ only while an action
on it is between its two writes.

*Expenses.* For receipts and approvals (`BillInv`), a file that is about to be confirmed has
been seen in the bucket, a receipt that is about to be written is there,
and whoever has read an approved expense and goes on to write PENDING is a
treasurer and not its owner. `KindInv`: a creation that has found its category
holds one that is there. `ReportInv`: what a quiet report has read is what the
table gives now. That the figures agree is then a fact about sums over one table
(`FiguresAgree`, from `SumByKey`).

*Staff and accounts.* `ListInv` says of each list in flight which rows of the
earlier ones it has found gone, and that what it has inserted clashes with no row
that will stand beside it. `FormInv`: while no two updates have overlapped, the
one in flight has read the form as it is. `SettledOK` and `AssignmentKnown`: a group
that an assignment has dealt with has the user, or lost the user since.

*Chat.* For rooms (`ChatInv`), the rooms of a connection, and those that the calls running
for it are about to enter, are covered by a seat of a user it has authenticated
as, or excused. The deletion of a seat excuses the connections of its user, which
are all it can uncover, a disconnect makes
the calls of its socket harmless, and the calls of the chat service only add
seats (`CoveredStays`). For edits, one in flight on a deleted message has been
noted as late when the deletion was written. For pages, what a scroll has not
seen and was there when it began is older than its cursor, or was deleted, or is
tied with another message (`ScrollKnows`). For conversations (`DirectInv`), while no
two creations for a pair have overlapped at most one is on its way, and there is
no conversation of the pair while it is. For presence (`PresenceInv`), of a user
who is not stirred the map has the connections, at most one announcement is on
its way and will say what is true, and if none is, what was last said is true in
the room of every seat that was there then. An announcement settles the user if
no other is on its way and the map has the connections (`Known`); losing a seat
takes a room out of the claim, and taking one is noted in `unheard`.

*Queue.* `QueueInv`: a job pays for each of its rows with an attempt or a stall,
but for the row of the attempt that is running or has succeeded. `ReminderInv`: a
cron run begins at most once per tick, in a window of the date of that moment,
and queues at most one job per user; the jobs there are, with those that may
still be queued, are at most the ticks that have passed in the windows of the
dates so far. A move of the event adds a window, and can only raise that number.

Assumptions: those named `...Assumption` in the modules, which TLC evaluates in
the run of each. They say that the tables of constants have their types and are
finite, that bounds are natural numbers, that thresholds grow, and that `None` is
not a row. That sums are of finite sets of naturals (`Users`, `Slots`,
`CategoryNames`, `Outings`, `Reward`, `Amounts`) is among them.

Only model-checked: `RequestsEnd`, `AskersAreServed` and `EveryJobEnds`, which are
liveness and out of the prover's reach. `SomePrimary` and
`SeatsAreEarned` are proved for one slot only, `NumberedInOrder` for fests that
keep their year: beyond that they are false, as said in section 3. The
violations of the five runs are counterexamples of TLC.

## 5. Not modelled, and plan

Not modelled: organizations and feedback (one statement per operation on rows
that no other component reads); audit (never called); dashboards and other
queries that decide nothing; rows of profiles; the fields of forms and their
submissions; throttling, validation and the wiring of the application; the seed
scripts. `events.update` of the capacity or the team sizes (its `startDate` is
modelled), and the change of the year of a fest in the ticket runs, are left out
as said above. Sign-up is in three modules
(FestTicketing, Gamification, People), each with the statements it is about;
that they interleave within one call is not composed, since the tables
are disjoint. Push and object storage are external.

What would add most from here:

1. `events.update` of the capacity, with a bound on the overshoot in terms of
   the largest capacity so far.
2. What several slots leave of the claims that are now proved for one:
   which overlaps exactly cost an event its last PRIMARY organizer, or a
   registration its seat.
3. Sign-up as one call over the tables of FestTicketing, Gamification and People,
   with the three theorems that then hold together.
