---------------------------- MODULE AdminRecords ----------------------------
(***************************************************************************)
(* Records that staff overwrite as a whole: the winners of an event and    *)
(* the settings (AdminService), each by one transaction of a batch of      *)
(* statements at READ COMMITTED, and the form of an event (FormsService).  *)
(*                                                                         *)
(* The batches are numbered in the order of their requests; what a batch   *)
(* writes is tagged with its number.                                       *)
(***************************************************************************)
EXTENDS Calls, Sequences

CONSTANTS
  Positions,     \* the positions that a list may fill
  WinnerLists,   \* the lists sent: sequences of [user, position]
  SettingsSent,  \* the sets of keys that updateSettings may be sent
  Editors,       \* organizers of the event, and holders of the permission
  MaxOffice      \* bound: calls

\* The keys that updateRegNumberFormat writes.
FormatKeys == {"reg.numberFormat", "reg.prefix"}
Keys == FormatKeys \cup UNION SettingsSent

FormRow == [isActive : BOOLEAN, version : Nat]

ASSUME OfficeAssumption ==
  /\ WinnerLists \subseteq Seq([user : Users, position : Positions])
  /\ Editors \subseteq Users
  /\ None \notin FormRow
  /\ MaxOffice \in Nat

VARIABLES
  approved,    \* users whose registration is APPROVED or CHECKED_IN
  winners,     \* EventWinner: the committed rows
  settings,    \* AppSetting: the batch that wrote each key, 0 for none
  form,        \* EventForm: None or its row
  office,      \* the calls in flight
  officeLeft,  \* calls that may still begin
  (* History: *)
  committed,   \* the batches that have committed
  writes,      \* how often the form has been written
  chosen,      \* the last isActive that somebody sent
  blurred      \* two form updates were in flight at once

officeVars == <<approved, winners, settings, form, office, officeLeft,
                committed, writes, chosen, blurred>>

-----------------------------------------------------------------------------
\* `since` is history: the batches that had committed when this one was sent.
Winner == [user : Users, position : Positions, by : Nat, since : SUBSET Nat]

\* setEventWinners: `todo` are the rows to insert, `seen` those its DELETE
\* found, `gone` those it has deleted and `added` those it has inserted; of the
\* last two nobody knows before the commit.
WinnersCall == [pc : {"begin", "delete", "insert"}, user : {None}, by : Nat,
                todo : Seq(Winner), seen : SUBSET Winner, gone : SUBSET Winner,
                added : SUBSET Winner]
FormCall == [pc : {"form"}, user : Users, row : FormRow \cup {None},
             isActive : BOOLEAN \cup {None}]

OfficeTypeOK ==
  /\ approved \subseteq Users
  /\ winners \subseteq Winner
  /\ settings \in [Keys -> Nat]
  /\ form \in FormRow \cup {None}
  /\ office \in [Slots -> {Idle} \cup WinnersCall \cup FormCall]
  /\ officeLeft \in Nat
  /\ committed \subseteq Nat
  /\ writes \in Nat /\ chosen \in BOOLEAN /\ blurred \in BOOLEAN

OfficeInit ==
  /\ approved = Users
  /\ winners = {}
  /\ settings = [k \in Keys |-> 0]
  /\ form = None
  /\ office = [s \in Slots |-> Idle]
  /\ officeLeft = MaxOffice
  /\ committed = {}
  /\ writes = 0
  /\ chosen = TRUE
  /\ blurred = FALSE

\* The number of the next batch.
Batch == MaxOffice + 1 - officeLeft

OfficeGoto(s, call) == Goto(office, officeLeft, s, call)

-----------------------------------------------------------------------------
(* setEventWinners.                                                        *)

\* RegistrationsService: a participant loses the place.
Disqualify(u) ==
  /\ officeLeft > 0
  /\ approved' = approved \ {u}
  /\ approved' # approved
  /\ UNCHANGED <<winners, settings, form, office, officeLeft, committed, writes, chosen, blurred>>

\* Refuses users who are not registered and positions that come twice.
SetEventWinners(s, list) ==
  /\ \A k \in DOMAIN list : list[k].user \in approved
  /\ \A j, k \in DOMAIN list : j # k => list[j].position # list[k].position
  /\ Begin(office, officeLeft, s,
       [pc |-> "begin", user |-> None, by |-> Batch,
        todo |-> [k \in DOMAIN list |-> [user |-> list[k].user, position |-> list[k].position,
                                         by |-> Batch, since |-> committed]],
        seen |-> {}, gone |-> {}, added |-> {}])
  /\ UNCHANGED <<approved, winners, settings, form, committed, writes, chosen, blurred>>

Writing(s) == {t \in Slots \ {s} : office[t].pc \in {"delete", "insert"}}

\* Mutant: only the positions that the list fills are cleared.
DeleteFilled(s) == LET c == office[s] IN
  /\ c.pc = "begin"
  /\ OfficeGoto(s, [c EXCEPT !.pc = "delete",
       !.seen = {w \in winners : \E k \in DOMAIN c.todo : c.todo[k].position = w.position}])
  /\ UNCHANGED <<approved, winners, settings, form, committed, writes, chosen, blurred>>

\* The DELETE sees the rows committed when it starts.
DeleteBegin(s) == LET c == office[s] IN
  /\ c.pc = "begin"
  /\ OfficeGoto(s, [c EXCEPT !.pc = "delete", !.seen = winners])
  /\ UNCHANGED <<approved, winners, settings, form, committed, writes, chosen, blurred>>

\* It waits for whoever is deleting one of them, and passes over what is gone.
DeleteEnd(s) == LET c == office[s] IN
  /\ c.pc = "delete"
  /\ \A t \in Writing(s) : office[t].gone \cap c.seen = {}
  /\ OfficeGoto(s, [c EXCEPT !.pc = "insert", !.gone = c.seen \cap winners])
  /\ UNCHANGED <<approved, winners, settings, form, committed, writes, chosen, blurred>>

Clash(v, w) == v.user = w.user \/ v.position = w.position

\* The calls whose end an INSERT of the next row has to wait for: they have
\* inserted or are deleting a row with one of its unique keys.
WaitsFor(s) == LET c == office[s] IN
  IF c.pc # "insert" \/ c.todo = <<>> THEN {}
  ELSE {t \in Writing(s) : \E w \in office[t].added \cup office[t].gone : Clash(Head(c.todo), w)}

\* A committed row with one of its keys rolls the transaction back.
InsertWinner(s) == LET c == office[s] IN
  /\ c.pc = "insert"
  /\ c.todo # <<>>
  /\ WaitsFor(s) = {}
  /\ OfficeGoto(s, IF \E w \in (winners \ c.gone) \cup c.added : Clash(Head(c.todo), w)
                   THEN Idle
                   ELSE [c EXCEPT !.todo = Tail(@), !.added = @ \cup {Head(c.todo)}])
  /\ UNCHANGED <<approved, winners, settings, form, committed, writes, chosen, blurred>>

\* Two that wait for each other: the database rolls one back.
BreakDeadlock(s) ==
  /\ \E t \in WaitsFor(s) : s \in WaitsFor(t)
  /\ OfficeGoto(s, Idle)
  /\ UNCHANGED <<approved, winners, settings, form, committed, writes, chosen, blurred>>

Commit(s) == LET c == office[s] IN
  /\ c.pc = "insert"
  /\ c.todo = <<>>
  /\ winners' = (winners \ c.gone) \cup c.added
  /\ committed' = committed \cup {c.by}
  /\ OfficeGoto(s, Idle)
  /\ UNCHANGED <<approved, settings, form, writes, chosen, blurred>>

-----------------------------------------------------------------------------
(* Settings: transactions of upserts.  The locks on the rows are held to   *)
(* the end, so of two that share a key one follows the other as a whole.   *)

WriteKeys(keys) ==
  /\ officeLeft > 0
  /\ officeLeft' = officeLeft - 1
  /\ settings' = [k \in Keys |-> IF k \in keys THEN Batch ELSE settings[k]]
  /\ committed' = committed \cup {Batch}
  /\ UNCHANGED <<approved, winners, form, office, writes, chosen, blurred>>

UpdateSettings == \E keys \in SettingsSent : WriteKeys(keys)

UpdateRegNumberFormat == WriteKeys(FormatKeys)

-----------------------------------------------------------------------------
(* FormsService.updateForm.                                                *)

\* Reads the form; `isActive` may be left out of the request.
UpdateForm(s, u, isActive) ==
  /\ u \in Editors
  /\ Begin(office, officeLeft, s, [pc |-> "form", user |-> u, row |-> form, isActive |-> isActive])
  /\ blurred' = (blurred \/ \E t \in Slots : office[t].pc = "form")
  /\ UNCHANGED <<approved, winners, settings, form, committed, writes, chosen>>

\* Mutant: the next version is computed from the row that was read.
WriteFormRead(s) == LET c == office[s] IN
  /\ c.pc = "form"
  /\ c.row # None \/ form = None
  /\ form' = [isActive |-> IF c.isActive # None THEN c.isActive
                           ELSE IF c.row = None THEN TRUE ELSE c.row.isActive,
              version |-> IF c.row = None THEN 1 ELSE c.row.version + 1]
  /\ writes' = writes + 1
  /\ chosen' = IF c.isActive # None THEN c.isActive ELSE chosen
  /\ OfficeGoto(s, Idle)
  /\ UNCHANGED <<approved, winners, settings, committed, blurred>>

\* Updates what it has found, or inserts; eventId is unique.  The version is
\* incremented in the database, isActive is the one that was read.
WriteForm(s) == LET c == office[s] IN
  /\ c.pc = "form"
  /\ \/ /\ c.row # None
        /\ form' = [isActive |-> IF c.isActive # None THEN c.isActive ELSE c.row.isActive,
                    version |-> form.version + 1]
     \/ /\ c.row = None
        /\ form = None
        /\ form' = [isActive |-> IF c.isActive # None THEN c.isActive ELSE TRUE, version |-> 1]
     \/ c.row = None /\ form # None /\ UNCHANGED form
  /\ writes' = IF form' = form THEN writes ELSE writes + 1
  /\ chosen' = IF form' # form /\ c.isActive # None THEN c.isActive ELSE chosen
  /\ OfficeGoto(s, Idle)
  /\ UNCHANGED <<approved, winners, settings, committed, blurred>>

-----------------------------------------------------------------------------
OfficeDie(s) ==
  /\ Die(office, officeLeft, s)
  /\ UNCHANGED <<approved, winners, settings, form, committed, writes, chosen, blurred>>

OfficeStep(s) ==
  \/ DeleteBegin(s) \/ DeleteEnd(s) \/ InsertWinner(s) \/ BreakDeadlock(s) \/ Commit(s)
  \/ WriteForm(s)

OfficeRequest(s) ==
  /\ Free(office, officeLeft, s)
  /\ \/ \E list \in WinnerLists : SetEventWinners(s, list)
     \/ \E u \in Users, isActive \in BOOLEAN \cup {None} : UpdateForm(s, u, isActive)

OfficeNext ==
  \/ UpdateSettings \/ UpdateRegNumberFormat
  \/ \E u \in Users : Disqualify(u)
  \/ \E s \in Slots : OfficeRequest(s) \/ OfficeStep(s) \/ OfficeDie(s)

OfficeSpec == OfficeInit /\ [][OfficeNext]_officeVars

-----------------------------------------------------------------------------
(* Properties.                                                             *)

\* A list of winners that was sent after another had committed replaces it for
\* good: rows of the two never stand side by side, whatever third list is
\* written at the same time.  Lists that overlap may merge, but not on a user
\* or a position: getEventWinners lists each once.
ReplacedForGood == \A v, w \in winners :
  /\ v.by \notin w.since
  /\ v # w => ~ Clash(v, w)

\* The version of a form counts its writes, also of those that overlap; and if
\* none do, isActive is what was last asked for.
FormCountsWrites == form # None =>
  /\ form.version = writes
  /\ ~blurred => form.isActive = chosen
=============================================================================
