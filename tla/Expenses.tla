------------------------------ MODULE Expenses ------------------------------
(***************************************************************************)
(* ExpensesService with the receipts of FilesService, and the figures of   *)
(* AdminService.getFinanceStats.                                           *)
(*                                                                         *)
(* Expenses and files are rows in the order of their insertion and are     *)
(* named by their place.  The URL of a file is its number.  The object     *)
(* store is external: a client may or may not upload to the signed URL.    *)
(***************************************************************************)
EXTENDS Calls, Sequences, FiniteSets, FiniteSetsExt, SequencesExt

CONSTANTS
  Treasurers,      \* users with the global permission
  CategoryNames,   \* names that a request may send
  Outings,         \* the events that an expense may be for
  SpentFor,        \* category -> the events, or None, that requests name with it
  Amounts,         \* the amounts
  SeedCategories,  \* the categories that the seed may have inserted
  MaxBill          \* bound: calls

Statuses == {"DRAFT", "PENDING", "APPROVED", "REJECTED", "NEEDS_REVISION"}

ASSUME BillAssumption ==
  /\ Treasurers \subseteq Users
  /\ Amounts \subseteq Nat
  /\ SpentFor \in [CategoryNames -> SUBSET (Outings \cup {None})]
  /\ None \notin CategoryNames \cup Outings \cup Nat
  /\ SeedCategories \subseteq SUBSET CategoryNames
  /\ IsFiniteSet(CategoryNames) /\ IsFiniteSet(Outings)
  /\ MaxBill \in Nat

VARIABLES
  category,  \* ExpenseCategory: the names
  expense,   \* Expense
  file,      \* File: [uploader, status]
  stored,    \* the files whose object is in the bucket
  bill,      \* the calls in flight
  billLeft,  \* calls that may still begin
  (* History: *)
  quiet      \* the reports in flight during which no expense has changed

billVars == <<category, expense, file, stored, bill, billLeft, quiet>>

-----------------------------------------------------------------------------
\* A file that the server has looked up, or None: nothing, or whatever URL the
\* client has sent.
Receipts == Nat \cup {None}

ExpenseRow == [submitter : Users, category : CategoryNames, event : Outings \cup {None},
               amount : Amounts, receipt : Receipts, status : Statuses]
FileRow == [uploader : Users, status : {"PENDING", "CONFIRMED"}]

\* createExpense on its way: the category it was sent, the row it fills in,
\* and the file it was sent (0 for none).
CreateCall == [pc : {"any", "category", "receipt", "insert"}, user : Users,
               wanted : CategoryNames, row : [submitter : Users, category : CategoryNames,
                 event : Outings \cup {None}, amount : Amounts, receipt : Receipts,
                 status : {"DRAFT", "PENDING"}], file : Nat]
StatusCall == [pc : {"status"}, user : Users, expense : Nat, seen : Statuses, to : Statuses]
ConfirmCall == [pc : {"head", "confirm"}, user : Users, file : Nat]

\* A report: the aggregates it has yet to read, and those it has.
ReportParts == {"byStatus", "byCategory", "byEvent", "total"}
ReportCall == [pc : {"report"}, user : Treasurers, todo : SUBSET ReportParts,
               byStatus : [Statuses -> Nat], byCategory : [CategoryNames -> Nat],
               byEvent : [Outings -> Nat], total : Nat]

BillTypeOK ==
  /\ category \subseteq CategoryNames
  /\ expense \in Seq(ExpenseRow)
  /\ \A e \in DOMAIN expense : expense[e].category \in category
  /\ file \in Seq(FileRow)
  /\ stored \subseteq DOMAIN file
  /\ bill \in [Slots -> {Idle} \cup CreateCall \cup StatusCall \cup ConfirmCall \cup ReportCall]
  /\ billLeft \in Nat
  /\ quiet \subseteq Slots

BillInit ==
  /\ category \in SeedCategories
  /\ expense = <<>>
  /\ file = <<>>
  /\ stored = {}
  /\ bill = [s \in Slots |-> Idle]
  /\ billLeft = MaxBill
  /\ quiet = {}

BillGoto(s, call) == Goto(bill, billLeft, s, call)

-----------------------------------------------------------------------------
(* FilesService.                                                           *)

\* requestUploadUrl, for a size within the limit: a row and a signed URL.
RequestUploadUrl(u) ==
  /\ billLeft > 0
  /\ billLeft' = billLeft - 1
  /\ file' = Append(file, [uploader |-> u, status |-> "PENDING"])
  /\ UNCHANGED <<category, expense, stored, bill, quiet>>

\* The client uses the signed URL.
Upload(f) ==
  /\ f \in DOMAIN file \ stored
  /\ stored' = stored \cup {f}
  /\ UNCHANGED <<category, expense, file, bill, billLeft, quiet>>

\* confirmUpload reads the row; a confirmed one is returned as it is.
ConfirmUpload(s, u, f) ==
  /\ f \in DOMAIN file
  /\ file[f].uploader = u
  /\ file[f].status # "CONFIRMED"
  /\ Begin(bill, billLeft, s, [pc |-> "head", user |-> u, file |-> f])
  /\ UNCHANGED <<category, expense, file, stored, quiet>>

\* Mutant: the error of the bucket is only logged.
HeadIgnored(s) == LET c == bill[s] IN
  /\ c.pc = "head"
  /\ BillGoto(s, [c EXCEPT !.pc = "confirm"])
  /\ UNCHANGED <<category, expense, file, stored, quiet>>

\* Asks the bucket for the object.
HeadObject(s) == LET c == bill[s] IN
  /\ c.pc = "head"
  /\ BillGoto(s, IF c.file \in stored THEN [c EXCEPT !.pc = "confirm"] ELSE Idle)
  /\ UNCHANGED <<category, expense, file, stored, quiet>>

MarkConfirmed(s) == LET c == bill[s] IN
  /\ c.pc = "confirm"
  /\ file' = [file EXCEPT ![c.file].status = "CONFIRMED"]
  /\ BillGoto(s, Idle)
  /\ UNCHANGED <<category, expense, stored, quiet>>

\* getDownloadUrl signs a URL for any confirmed file, for any user.
Downloadable == {f \in DOMAIN file : file[f].status = "CONFIRMED"}

-----------------------------------------------------------------------------
(* createExpense.                                                          *)

\* Looks for the category by id or name; without it goes on to any other.
CreateExpense(s, u, wanted, event, amount, f, submit) ==
  /\ Begin(bill, billLeft, s,
       [pc |-> IF wanted \in category THEN "receipt" ELSE "any", user |-> u, wanted |-> wanted,
        row |-> [submitter |-> u, category |-> wanted, event |-> event, amount |-> amount,
                 receipt |-> None, status |-> IF submit THEN "PENDING" ELSE "DRAFT"],
        file |-> f])
  /\ UNCHANGED <<category, expense, file, stored, quiet>>

AnyCategory(s) == LET c == bill[s] IN
  /\ c.pc = "any"
  /\ \/ /\ category = {}
        /\ BillGoto(s, [c EXCEPT !.pc = "category"])
     \/ \E name \in category : BillGoto(s, [c EXCEPT !.pc = "receipt", !.row.category = name])
  /\ UNCHANGED <<category, expense, file, stored, quiet>>

\* The name is unique: if another request was faster, this one fails.
NewCategory(s) == LET c == bill[s] IN
  /\ c.pc = "category"
  /\ category' = category \cup {c.wanted}
  /\ BillGoto(s, IF c.wanted \in category THEN Idle ELSE [c EXCEPT !.pc = "receipt"])
  /\ UNCHANGED <<expense, file, stored, quiet>>

\* A confirmed file gives its URL; of any other what was sent remains.
FindReceipt(s) == LET c == bill[s] IN
  /\ c.pc = "receipt"
  /\ BillGoto(s, [c EXCEPT !.pc = "insert",
                           !.row.receipt = IF c.file \in Downloadable THEN c.file ELSE @])
  /\ UNCHANGED <<category, expense, file, stored, quiet>>

InsertExpense(s) == LET c == bill[s] IN
  /\ c.pc = "insert"
  /\ expense' = Append(expense, c.row)
  /\ BillGoto(s, Idle)
  /\ quiet' = {}
  /\ UNCHANGED <<category, file, stored>>

-----------------------------------------------------------------------------
(* updateStatus.                                                           *)

\* Mutant: the owner may resubmit whatever the status.
ResubmitAny(s, u, e, to) ==
  /\ e \in DOMAIN expense
  /\ to # "DRAFT"
  /\ (to = "PENDING" /\ expense[e].submitter = u) \/ u \in Treasurers
  /\ Begin(bill, billLeft, s,
       [pc |-> "status", user |-> u, expense |-> e, seen |-> expense[e].status, to |-> to])
  /\ UNCHANGED <<category, expense, file, stored, quiet>>

\* Reads the expense.  The owner may resubmit a draft or a revision; all else
\* needs the permission, and no transition is excluded.
UpdateStatus(s, u, e, to) ==
  /\ e \in DOMAIN expense
  /\ to # "DRAFT"
  /\ IF to = "PENDING" /\ expense[e].submitter = u
     THEN expense[e].status \in {"NEEDS_REVISION", "DRAFT"}
     ELSE u \in Treasurers
  /\ Begin(bill, billLeft, s,
       [pc |-> "status", user |-> u, expense |-> e, seen |-> expense[e].status, to |-> to])
  /\ UNCHANGED <<category, expense, file, stored, quiet>>

WriteStatus(s) == LET c == bill[s] IN
  /\ c.pc = "status"
  /\ expense' = [expense EXCEPT ![c.expense].status = c.to]
  /\ BillGoto(s, Idle)
  /\ quiet' = {}
  /\ UNCHANGED <<category, file, stored>>

-----------------------------------------------------------------------------
(* getReports and getFinanceStats: aggregates read by statements that run  *)
(* side by side.  getFinanceStats lists pending expenses where getReports  *)
(* reads the grand total.                                                  *)

\* Queries over the table: getExpenseById, listExpenses, exportExpenses.
MayView(e, u) == u \in Treasurers \/ expense[e].submitter = u
Visible(u) == {e \in DOMAIN expense : MayView(e, u)}
Export(u) == IF u \in Treasurers THEN expense ELSE <<>>

SumOf(set) == SumFunctionOnSet([e \in DOMAIN expense |-> expense[e].amount], set)

\* Mutant: the grand total is that of everything not rejected.
AcceptedTotal == SumOf({e \in DOMAIN expense : expense[e].status # "REJECTED"})

ByStatus   == [st \in Statuses |-> SumOf({e \in DOMAIN expense : expense[e].status = st})]
ByCategory == [n \in CategoryNames |-> SumOf({e \in DOMAIN expense : expense[e].category = n})]
ByEvent    == [o \in Outings |-> SumOf({e \in DOMAIN expense : expense[e].event = o})]
ApprovedTotal == SumOf({e \in DOMAIN expense : expense[e].status = "APPROVED"})

GetReports(s, u) ==
  /\ u \in Treasurers
  /\ Begin(bill, billLeft, s,
       [pc |-> "report", user |-> u, todo |-> ReportParts,
        byStatus |-> [st \in Statuses |-> 0], byCategory |-> [n \in CategoryNames |-> 0],
        byEvent |-> [o \in Outings |-> 0], total |-> 0])
  /\ quiet' = quiet \cup {s}
  /\ UNCHANGED <<category, expense, file, stored>>

ReadAggregate(s, part) == LET c == bill[s] more == c.todo \ {part} IN
  /\ c.pc = "report"
  /\ part \in c.todo
  /\ BillGoto(s, CASE part = "byStatus"   -> [c EXCEPT !.todo = more, !.byStatus = ByStatus]
                   [] part = "byCategory" -> [c EXCEPT !.todo = more, !.byCategory = ByCategory]
                   [] part = "byEvent"    -> [c EXCEPT !.todo = more, !.byEvent = ByEvent]
                   [] part = "total"      -> [c EXCEPT !.todo = more, !.total = ApprovedTotal])
  /\ UNCHANGED <<category, expense, file, stored, quiet>>

SendReport(s) ==
  /\ bill[s].pc = "report"
  /\ bill[s].todo = {}
  /\ BillGoto(s, Idle)
  /\ quiet' = quiet \ {s}
  /\ UNCHANGED <<category, expense, file, stored>>

-----------------------------------------------------------------------------
BillDie(s) ==
  /\ Die(bill, billLeft, s)
  /\ quiet' = quiet \ {s}
  /\ UNCHANGED <<category, expense, file, stored>>

BillStep(s) ==
  \/ HeadObject(s) \/ MarkConfirmed(s) \/ AnyCategory(s) \/ NewCategory(s) \/ FindReceipt(s)
  \/ InsertExpense(s) \/ WriteStatus(s) \/ SendReport(s)
  \/ \E part \in ReportParts : ReadAggregate(s, part)

BillRequest(s) ==
  /\ Free(bill, billLeft, s)
  /\ \E u \in Users :
       \/ \E f \in DOMAIN file : ConfirmUpload(s, u, f)
       \/ \E wanted \in CategoryNames : \E event \in SpentFor[wanted], amount \in Amounts,
             f \in 0 .. Len(file), submit \in BOOLEAN :
            CreateExpense(s, u, wanted, event, amount, f, submit)
       \/ \E e \in DOMAIN expense, to \in Statuses : UpdateStatus(s, u, e, to)
       \/ GetReports(s, u)

BillNext ==
  \/ \E u \in Users : RequestUploadUrl(u)
  \/ \E f \in DOMAIN file : Upload(f)
  \/ \E s \in Slots : BillRequest(s) \/ BillStep(s) \/ BillDie(s)

BillSpec == BillInit /\ [][BillNext]_billVars

-----------------------------------------------------------------------------
(* Properties.                                                             *)

\* What a download URL is given for, and what an expense has as its receipt by
\* way of a file, is in the bucket: confirmed, and looked for before.
ReceiptIsStored ==
  /\ Downloadable \subseteq stored
  /\ \A e \in DOMAIN expense : expense[e].receipt \in Nat => expense[e].receipt \in stored

\* An approval becomes PENDING again only by a treasurer other than the owner,
\* or by a resubmission that had read the expense before it was approved.
ApprovedStands == [][\A e \in DOMAIN expense :
  expense[e].status = "APPROVED" /\ expense'[e].status = "PENDING" =>
    \E s \in Slots : /\ bill[s].pc = "status" /\ bill[s].expense = e
                     /\ \/ bill[s].user \in Treasurers \ {expense[e].submitter}
                        \/ bill[s].seen # "APPROVED"]_billVars

\* The figures of a report agree if no expense changes while it is put
\* together: the statuses are those of an export, the grand total is that of the
\* approved, the categories add up to the statuses, and the events to no more.
QuietReportAgrees == \A s \in quiet : bill[s].todo = {} =>
  LET r == bill[s]
      rows == Export(r.user)
      all == SumFunction(r.byStatus)
  IN /\ \A st \in Statuses :
          r.byStatus[st] = SumOf({e \in DOMAIN rows : rows[e].status = st})
     /\ r.total = r.byStatus["APPROVED"]
     /\ SumFunction(r.byCategory) = all
     /\ SumFunction(r.byEvent) <= all
=============================================================================
