--------------------------- MODULE Notifications ---------------------------
(***************************************************************************)
(* NotificationsService, its queue and processor, and the scheduled jobs   *)
(* that feed it.  The clock ticks every quarter of an hour, when the       *)
(* reminders are due.  One event stands for all; who is registered for it  *)
(* at a moment, and whether its status lets it be reminded of, is any      *)
(* choice here (see EventDesk).                                            *)
(*                                                                         *)
(* The queue is BullMQ (external): a job is handed to the worker, one at a *)
(* time; if the handler throws it is handed out again until its attempts   *)
(* are used up, and if the worker dies it counts as stalled, which a job   *)
(* survives MaxStalls times.  A sending is a job or a broadcast; its       *)
(* number is its place in `sending`.                                       *)
(***************************************************************************)
EXTENDS Calls, Sequences, FiniteSets

CONSTANTS
  Attempts,       \* attempts of a job: 3
  MaxStalls,      \* maxStalledCount of BullMQ: 1
  Ahead, Behind,  \* the window of the reminders around the start, in ticks: 4 and 1
  StartsAt,       \* the tick at which the event starts unless that is changed
  DigestMin,      \* unread old notifications that cause a digest: 3
  Devices,        \* the device tokens
  Audience,       \* the users that may be registered for the event
  MaxTick,        \* bound: ticks
  MaxNote         \* bound: client calls, cron runs, crashes and errors, together

ASSUME NoteAssumption ==
  /\ {Attempts, MaxStalls, Ahead, Behind, StartsAt, DigestMin,
      MaxTick, MaxNote} \subseteq Nat
  /\ Audience \subseteq Users
  /\ Attempts > 0 /\ DigestMin > 0

VARIABLES
  tick,        \* the time
  sending,     \* the jobs and broadcasts so far
  notification,\* Notification; the copies of a row are numbered
  muted,       \* NotificationPreference: users who have switched push off
  device,      \* DeviceToken: the owner of each token, or None
  startDate,   \* Event: the tick at which it starts
  note,        \* the calls in flight
  noteLeft,    \* calls, crashes and errors that may still happen
  (* History: *)
  starts       \* the start dates that the event has had

dates == <<startDate, starts>>
noteVars == <<tick, sending, notification, muted, device, startDate, note, noteLeft, starts>>

-----------------------------------------------------------------------------
\* A job: waiting, active after the first of the statements of its handler, ended.
Job == [kind : {"EVENT_REMINDER", "DIGEST"}, user : Users, tries : 0 .. Attempts,
        stalls : 0 .. MaxStalls, pc : {"waiting", "prefs", "push", "done", "failed"}]
Broadcast == [kind : {"BROADCAST"}]

NotificationRow == [user : Users, from : Nat, copy : Nat, isRead : BOOLEAN]

\* The loop of a cron run with the users it has yet to send to; a broadcast
\* with those it will write to.
CronCall == [pc : {"remind", "send"}, user : {None}, todo : SUBSET Users,
             kind : {"EVENT_REMINDER", "DIGEST"}]
BroadcastCall == [pc : {"batch", "create"}, user : Users, to : SUBSET Users]

NoteTypeOK ==
  /\ tick \in 0 .. MaxTick
  /\ sending \in Seq(Job \cup Broadcast)
  /\ notification \subseteq NotificationRow
  /\ \A n \in notification : n.from \in DOMAIN sending
  /\ muted \subseteq Users
  /\ device \in [Devices -> Users \cup {None}]
  /\ startDate \in starts
  /\ note \in [Slots -> {Idle} \cup CronCall \cup BroadcastCall]
  /\ noteLeft \in Nat
  /\ starts \subseteq Nat

NoteInit ==
  /\ tick = 0
  /\ sending = <<>>
  /\ notification = {}
  /\ muted = {}
  /\ device = [d \in Devices |-> None]
  /\ startDate = StartsAt
  /\ starts = {StartsAt}
  /\ note = [s \in Slots |-> Idle]
  /\ noteLeft = MaxNote

NoteGoto(s, call) == Goto(note, noteLeft, s, call)

Jobs == {j \in DOMAIN sending : sending[j].kind # "BROADCAST"}

CopiesFor(u, k) == {n \in notification : n.user = u /\ n.from = k}

\* One more row of a sending for a user.
Row(u, k) == [user |-> u, from |-> k, copy |-> Cardinality(CopiesFor(u, k)), isRead |-> FALSE]

-----------------------------------------------------------------------------
(* The clock and the cron runs.                                            *)

\* Between two ticks every run of this tick has started.
Tick ==
  /\ tick < MaxTick
  /\ noteLeft > 0
  /\ tick' = tick + 1
  /\ UNCHANGED <<sending, notification, muted, device, dates, note, noteLeft>>

\* The ticks at which an event that starts then is reminded of.
Window(start) == {t \in 0 .. MaxTick : start <= t + Ahead /\ t <= start + Behind}

\* Mutant: the window is half an hour longer than it should be.
InWideWindow == startDate <= tick + Ahead + 1 /\ tick <= startDate + Behind + 1

\* The date is that of the moment: after a change the event may be in a window
\* again, or for the first time.
InWindow == tick \in Window(startDate)

\* sendEventReminders, once per tick: the moment of a run is that of its tick.
SendEventReminders(s) ==
  /\ InWindow
  /\ tick < MaxTick /\ tick' = tick + 1
  /\ Begin(note, noteLeft, s,
       [pc |-> "remind", user |-> None, todo |-> {}, kind |-> "EVENT_REMINDER"])
  /\ UNCHANGED <<sending, notification, muted, device, dates>>

ReadRegistrations(s) == LET c == note[s] IN
  /\ c.pc = "remind"
  /\ \E users \in SUBSET Audience :
       NoteGoto(s, IF users = {} THEN Idle ELSE [c EXCEPT !.pc = "send", !.todo = users])
  /\ UNCHANGED <<tick, sending, notification, muted, device, dates>>

\* sendNotificationDigest.  Any unread notification may be old enough by now.
Unread(u) == {n \in notification : n.user = u /\ ~n.isRead}

SendNotificationDigest(s) ==
  /\ \E users \in SUBSET {u \in Users : Cardinality(Unread(u)) >= DigestMin} \ {{}} :
       Begin(note, noteLeft, s, [pc |-> "send", user |-> None, todo |-> users, kind |-> "DIGEST"])
  /\ UNCHANGED <<tick, sending, notification, muted, device, dates>>

NewJob(kind, u) == [kind |-> kind, user |-> u, tries |-> 0, stalls |-> 0, pc |-> "waiting"]

\* One job per round of the loop.
Send(s) == LET c == note[s] IN
  /\ c.pc = "send"
  /\ \E u \in c.todo :
       /\ sending' = Append(sending, NewJob(c.kind, u))
       /\ NoteGoto(s, IF c.todo = {u} THEN Idle ELSE [c EXCEPT !.todo = @ \ {u}])
  /\ UNCHANGED <<tick, notification, muted, device, dates>>

-----------------------------------------------------------------------------
(* The worker.                                                             *)

Active(j) == j \in Jobs /\ sending[j].pc \in {"prefs", "push"}

\* Its turn: the worker handles one job at a time, and a job in its backoff
\* waits like the others.
Due(j) == sending[j].pc = "waiting" /\ \A k \in Jobs : ~Active(k)

SetJob(j, pc) == sending' = [sending EXCEPT ![j].pc = pc]

\* createInAppNotification, whatever the preferences say.
CreateInApp(j) ==
  /\ Due(j)
  /\ notification' = notification \cup {Row(sending[j].user, j)}
  /\ SetJob(j, "prefs")
  /\ UNCHANGED <<tick, muted, device, dates, note, noteLeft>>

\* Mutant: a job whose user has switched push off is left where it is.
PreferencesOrWait(j) ==
  /\ sending[j].pc = "prefs"
  /\ sending[j].user \notin muted
  /\ SetJob(j, "push")
  /\ UNCHANGED <<tick, notification, muted, device, dates, note, noteLeft>>

\* getPreferenceForType.  The email step that may follow has no address to
\* send to: no caller of `send` passes one.
ReadPreferences(j) ==
  /\ sending[j].pc = "prefs"
  /\ SetJob(j, IF sending[j].user \in muted THEN "done" ELSE "push")
  /\ UNCHANGED <<tick, notification, muted, device, dates, note, noteLeft>>

\* sendFcmPush: the tokens that the push service calls unregistered are
\* deleted; its own errors are caught.
SendFcmPush(j) ==
  /\ sending[j].pc = "push"
  /\ \E gone \in SUBSET {d \in Devices : device[d] = sending[j].user} :
       device' = [d \in Devices |-> IF d \in gone THEN None ELSE device[d]]
  /\ SetJob(j, "done")
  /\ UNCHANGED <<tick, notification, muted, dates, note, noteLeft>>

\* Mutant: one attempt too many.
JobThrowsAgain(j) == LET job == sending[j] IN
  /\ Active(j) \/ Due(j)
  /\ noteLeft > 0 /\ noteLeft' = noteLeft - 1
  /\ sending' = [sending EXCEPT ![j].tries = IF job.tries < Attempts THEN @ + 1 ELSE @,
                                ![j].pc = IF job.tries < Attempts THEN "waiting" ELSE "failed"]
  /\ UNCHANGED <<tick, notification, muted, device, dates, note>>

\* A statement of the handler throws: the next attempt begins at the start.
JobThrows(j) == LET job == sending[j] IN
  /\ Active(j) \/ Due(j)
  /\ noteLeft > 0 /\ noteLeft' = noteLeft - 1
  /\ sending' = [sending EXCEPT ![j].tries = @ + 1,
                                ![j].pc = IF job.tries + 1 < Attempts THEN "waiting" ELSE "failed"]
  /\ UNCHANGED <<tick, notification, muted, device, dates, note>>

\* Mutant: a stalled job is always handed out again.
CrashAndAgain ==
  /\ noteLeft > 0 /\ noteLeft' = noteLeft - 1
  /\ sending' = [j \in DOMAIN sending |->
       IF ~Active(j) THEN sending[j]
       ELSE [sending[j] EXCEPT !.pc = "waiting", !.stalls = @ + 1]]
  /\ note' = [s \in Slots |-> Idle]
  /\ UNCHANGED <<tick, notification, muted, device, dates>>

\* The process dies: its job stalls, and the calls in flight are gone.
Crash ==
  /\ noteLeft > 0 /\ noteLeft' = noteLeft - 1
  /\ sending' = [j \in DOMAIN sending |->
       IF ~Active(j) THEN sending[j]
       ELSE IF sending[j].stalls < MaxStalls
            THEN [sending[j] EXCEPT !.pc = "waiting", !.stalls = @ + 1]
            ELSE [sending[j] EXCEPT !.pc = "failed"]]
  /\ note' = [s \in Slots |-> Idle]
  /\ UNCHANGED <<tick, notification, muted, device, dates>>

-----------------------------------------------------------------------------
(* What clients do.                                                        *)

\* broadcast.  What it posts to the chats of its events is in ChatRooms.
StartBroadcast(s, u) ==
  /\ Begin(note, noteLeft, s, [pc |-> "batch", user |-> u, to |-> {}])
  /\ UNCHANGED <<tick, sending, notification, muted, device, dates>>

\* The users are distinct, however many of the events they are registered for.
ReadAudience(s) == LET c == note[s] IN
  /\ c.pc = "batch"
  /\ \E users \in SUBSET Audience :
       NoteGoto(s, IF users = {} THEN Idle ELSE [c EXCEPT !.pc = "create", !.to = users])
  /\ UNCHANGED <<tick, sending, notification, muted, device, dates>>

\* createMany: all rows or none.
CreateMany(s) == LET c == note[s] IN
  /\ c.pc = "create"
  /\ sending' = Append(sending, [kind |-> "BROADCAST"])
  /\ notification' = notification \cup {Row(u, Len(sending) + 1) : u \in c.to}
  /\ NoteGoto(s, Idle)
  /\ UNCHANGED <<tick, muted, device, dates>>

\* The rest are single statements.
Statement == noteLeft > 0 /\ noteLeft' = noteLeft - 1 /\ UNCHANGED <<tick, sending, note>>

\* Some of the own notifications, or all.
MarkRead(u) ==
  /\ Statement
  /\ \E some \in SUBSET Unread(u) \ {{}} :
       notification' = (notification \ some) \cup {[n EXCEPT !.isRead = TRUE] : n \in some}
  /\ UNCHANGED <<muted, device, dates>>

UpdatePreferences(u) ==
  /\ Statement
  /\ muted' \in {muted \cup {u}, muted \ {u}}
  /\ UNCHANGED <<notification, device, dates>>

\* The token moves to the user who registers it.
RegisterDeviceToken(u, d) ==
  /\ Statement
  /\ device' = [device EXCEPT ![d] = u]
  /\ UNCHANGED <<notification, muted, dates>>

RemoveDeviceToken(u, d) ==
  /\ Statement
  /\ device[d] = u
  /\ device' = [device EXCEPT ![d] = None]
  /\ UNCHANGED <<notification, muted, dates>>

\* events.update with another startDate.
UpdateStartDate(start) ==
  /\ Statement
  /\ start # startDate
  /\ startDate' = start
  /\ starts' = starts \cup {start}
  /\ UNCHANGED <<notification, muted, device>>

-----------------------------------------------------------------------------
NoteStep(s) == ReadRegistrations(s) \/ Send(s) \/ ReadAudience(s) \/ CreateMany(s)

Work == \E j \in Jobs : CreateInApp(j) \/ ReadPreferences(j) \/ SendFcmPush(j)

NoteNext ==
  \/ Tick \/ Crash \/ Work
  \/ \E j \in Jobs : JobThrows(j)
  \/ \E start \in 0 .. MaxTick : UpdateStartDate(start)
  \/ \E u \in Users : MarkRead(u) \/ UpdatePreferences(u)
  \/ \E u \in Users, d \in Devices : RegisterDeviceToken(u, d) \/ RemoveDeviceToken(u, d)
  \/ \E s \in Slots : \/ SendEventReminders(s) \/ SendNotificationDigest(s) \/ NoteStep(s)
                      \/ \E u \in Users : StartBroadcast(s, u)

\* The worker goes on as long as there is a job that it can work on.
NoteFairness == WF_noteVars(Work)

NoteSpec == NoteInit /\ [][NoteNext]_noteVars /\ NoteFairness

-----------------------------------------------------------------------------
(* Properties.                                                             *)

\* A job that fails after its row is in is run from the start again: it leaves
\* no more rows than it has attempts and stalls to survive; a broadcast leaves
\* one for each user.
RowsPerSending == \A u \in Users, k \in DOMAIN sending :
  Cardinality(CopiesFor(u, k)) <=
    IF sending[k].kind = "BROADCAST" THEN 1 ELSE Attempts + MaxStalls

\* A user gets no more reminders of an event than there are quarters of an hour
\* in the windows of the dates it has had, those in several windows once:
\* Ahead + Behind + 1 for one date, however often runs overlap or die; every
\* change of the date may add as many.
FewReminders == \A u \in Users :
  Cardinality({j \in Jobs : sending[j].kind = "EVENT_REMINDER" /\ sending[j].user = u})
    <= Cardinality(UNION {Window(start) : start \in starts})

\* Every job ends, whatever crashes and errors there are, and leaves its row
\* unless it has failed.
EveryJobEnds == \A j \in 1 .. (MaxNote * Cardinality(Users)) :
  j \in Jobs ~> /\ j \in Jobs
                /\ sending[j].pc \in {"done", "failed"}
                /\ sending[j].pc = "done" => CopiesFor(sending[j].user, j) # {}
=============================================================================
