------------------------------- MODULE Campus -------------------------------
(***************************************************************************)
(* The parts beside the event desk, in one process and one database: the   *)
(* game, the approval workflow, the expenses, the records of the staff,    *)
(* the accounts and the chat.  A step of the whole is a step of one part.  *)
(*                                                                         *)
(* The parts share the accounts, but no table that two of them write, so   *)
(* that nothing depends on how calls of different parts interleave.  In a  *)
(* behaviour all calls go to the part that is `here`.                      *)
(***************************************************************************)
EXTENDS Gamification, Workflow, Expenses, AdminRecords, People, ChatGateway

VARIABLE here  \* the part that is called

campusVars == <<gameVars, flowVars, billVars, officeVars, peopleVars, chatVars, here>>

\* A part that is not called has one start: an account of the seed, and
\* otherwise no rows.
CampusInit ==
  /\ GameInit /\ FlowInit /\ BillInit /\ OfficeInit /\ PeopleInit /\ ChatInit
  /\ here \in {"game", "flow", "bill", "office", "people", "chat"}
  /\ here # "game" => \E u \in Users : streak[u] = None
  /\ here # "bill" => category = {}

\* A step of the part that is called; the others and `here` stay.
CampusNext ==
  \/ here = "game" /\ UNCHANGED <<here, flowVars, billVars, officeVars, peopleVars, chatVars>>
     /\ GameNext
  \/ here = "flow" /\ UNCHANGED <<here, gameVars, billVars, officeVars, peopleVars, chatVars>>
     /\ FlowNext
  \/ here = "bill" /\ UNCHANGED <<here, gameVars, flowVars, officeVars, peopleVars, chatVars>>
     /\ BillNext
  \/ here = "office" /\ UNCHANGED <<here, gameVars, flowVars, billVars, peopleVars, chatVars>>
     /\ OfficeNext
  \/ here = "people" /\ UNCHANGED <<here, gameVars, flowVars, billVars, officeVars, chatVars>>
     /\ PeopleNext
  \/ here = "chat" /\ UNCHANGED <<here, gameVars, flowVars, billVars, officeVars, peopleVars>>
     /\ ChatNext

CampusSpec == CampusInit /\ [][CampusNext]_campusVars

\* Every variable of every part has its type: no role or membership outlives
\* its account or its group, every expense has a category of the table, no stage
\* has a key that is yet to come, and what is pinned in a conversation was
\* said in it.
CampusTypeOK == GameTypeOK /\ FlowTypeOK /\ BillTypeOK /\ OfficeTypeOK /\ PeopleTypeOK
                /\ ChatTypeOK
=============================================================================
