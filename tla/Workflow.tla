------------------------------ MODULE Workflow ------------------------------
(***************************************************************************)
(* WorkflowService: a definition with ordered stages, and instances that   *)
(* approvers move through them.  The verdict on the registration behind an *)
(* instance, the record of the action and the move of the instance are     *)
(* three statements, in this order, without a transaction.                 *)
(*                                                                         *)
(* There is one definition; each instance has a registration of its own.   *)
(* What else changes the status of a registration is in EventDesk.         *)
(***************************************************************************)
EXTENDS Calls, Sequences, FiniteSets, FiniteSetsExt, SequencesExt

CONSTANTS
  Instances,      \* the instances that can be started
  StagePlans,     \* the lists of stages sent, [index, role]; several may share an index
  StageRoles,     \* approverRole: the roles of organizers, and None for anybody
  Approvers,      \* the role of each user among the organizers of the event, or None
  Admins,         \* the users with the global permission
  MaxFlow         \* bound: calls

\* The actions the DTO allows.
Verbs == {"APPROVE", "REJECT", "RETURN", "SKIP", "ESCALATE"}

InstanceRow == [stage : Nat, status : {"IN_PROGRESS", "COMPLETED", "CANCELLED"}]

ASSUME FlowAssumption ==
  /\ 0 \notin Instances /\ None \notin Instances
  /\ None \notin InstanceRow
  /\ Admins \subseteq Users
  /\ DOMAIN Approvers = Users
  /\ StagePlans \subseteq Seq([index : Nat, role : StageRoles])
  /\ MaxFlow \in Nat

VARIABLES
  stages,    \* WorkflowStage: the rows of the definition
  nextStage, \* the next unused key of a stage
  instance,  \* WorkflowInstance: None or [stage, status]; stage 0 is null
  verdict,   \* the status that workflow calls gave the registration of each instance
  actions,   \* WorkflowAction: the rows in the order of createdAt
  flow,      \* the calls in flight
  flowLeft,  \* calls that may still begin
  (* History: *)
  plan0,     \* the stages of the definition when each instance was started
  passed,    \* the indexes of stages that each instance was moved on from
  contested  \* instances with two actions in flight at once, or one that died

flowHistory == <<plan0, passed, contested>>
flowVars == <<stages, nextStage, instance, verdict, actions, flow, flowLeft,
              plan0, passed, contested>>

-----------------------------------------------------------------------------
Stage == [id : Nat \ {0}, index : Nat, role : StageRoles]

\* An action on its way: what it has read, and what it will write.
ActCall == [pc : {"judge", "record", "move"}, user : Users, instance : Instances,
            verb : Verbs, from : Stage, to : Nat,
            status : {"IN_PROGRESS", "COMPLETED", "CANCELLED"}]
UpdateCall == [pc : {"clear", "fill"}, user : {None}, plan : StagePlans]
StartCall  == [pc : {"start"}, user : {None}, instance : Instances, first : Nat,
               read : SUBSET Stage]

FlowTypeOK ==
  /\ stages \subseteq Stage
  /\ nextStage \in Nat \ {0}
  /\ \A st \in stages : st.id < nextStage
  /\ instance \in [Instances -> InstanceRow \cup {None}]
  /\ verdict \in [Instances -> {"PENDING", "APPROVED", "REJECTED"}]
  /\ actions \in Seq([instance : Instances, actor : Users, action : Verbs])
  /\ flow \in [Slots -> {Idle} \cup ActCall \cup UpdateCall \cup StartCall]
  /\ flowLeft \in Nat
  /\ plan0 \in [Instances -> SUBSET Stage]
  /\ passed \in [Instances -> SUBSET Nat]
  /\ contested \subseteq Instances

FlowInit ==
  /\ stages = {}
  /\ nextStage = 1
  /\ instance = [i \in Instances |-> None]
  /\ verdict = [i \in Instances |-> "PENDING"]
  /\ actions = <<>>
  /\ flow = [s \in Slots |-> Idle]
  /\ flowLeft = MaxFlow
  /\ plan0 = [i \in Instances |-> {}]
  /\ passed = [i \in Instances |-> {}]
  /\ contested = {}

-----------------------------------------------------------------------------
(* Definitions.                                                            *)

\* The rows that a list of stages becomes.
StageRows(plan) ==
  {[id |-> nextStage + k - 1, index |-> plan[k].index, role |-> plan[k].role] : k \in DOMAIN plan}

\* The definition and its stages are inserted by one statement.
CreateWorkflow(plan) ==
  /\ nextStage = 1
  /\ flowLeft > 0
  /\ stages' = StageRows(plan)
  /\ nextStage' = nextStage + Len(plan)
  /\ UNCHANGED <<instance, verdict, actions, flow, flowLeft>> /\ UNCHANGED flowHistory

\* updateWorkflow deletes the stages and inserts the new ones; the database
\* sets to null what referred to a deleted stage.
UpdateWorkflow(s, plan) ==
  /\ nextStage > 1
  /\ Begin(flow, flowLeft, s, [pc |-> "clear", user |-> None, plan |-> plan])
  /\ UNCHANGED <<stages, nextStage, instance, verdict, actions>> /\ UNCHANGED flowHistory

ClearStages(s) == LET c == flow[s] IN
  /\ c.pc = "clear"
  /\ stages' = {}
  /\ instance' = [i \in Instances |->
                    IF instance[i] = None THEN None ELSE [instance[i] EXCEPT !.stage = 0]]
  /\ Goto(flow, flowLeft, s, [c EXCEPT !.pc = "fill"])
  /\ UNCHANGED <<nextStage, verdict, actions>> /\ UNCHANGED flowHistory

FillStages(s) == LET c == flow[s] IN
  /\ c.pc = "fill"
  /\ stages' = stages \cup StageRows(c.plan)
  /\ nextStage' = nextStage + Len(c.plan)
  /\ Goto(flow, flowLeft, s, Idle)
  /\ UNCHANGED <<instance, verdict, actions>> /\ UNCHANGED flowHistory

\* startWorkflowInstance reads the definition, then inserts the instance at
\* its first stage; the database refuses a stage that is gone.
StartWorkflowInstance(s, i) ==
  /\ instance[i] = None
  /\ \A t \in Slots : flow[t].pc = "start" => flow[t].instance # i
  /\ \E first \in stages :
       /\ \A st \in stages : first.index <= st.index
       /\ Begin(flow, flowLeft, s, [pc |-> "start", user |-> None, instance |-> i,
                                    first |-> first.id, read |-> stages])
  /\ UNCHANGED <<stages, nextStage, instance, verdict, actions>> /\ UNCHANGED flowHistory

InsertInstance(s) == LET c == flow[s] IN
  /\ c.pc = "start"
  /\ IF \E st \in stages : st.id = c.first
     THEN /\ instance' = [instance EXCEPT ![c.instance] =
                            [stage |-> c.first, status |-> "IN_PROGRESS"]]
          /\ plan0' = [plan0 EXCEPT ![c.instance] = c.read]
     ELSE UNCHANGED <<instance, plan0>>
  /\ Goto(flow, flowLeft, s, Idle)
  /\ UNCHANGED <<stages, nextStage, verdict, actions, passed, contested>>

-----------------------------------------------------------------------------
(* executeAction.                                                          *)

LaterStages(st)   == {t \in stages : t.index > st.index}
EarlierStages(st) == {t \in stages : t.index < st.index}

\* Mutant: the stages come in no order, and the first later one is taken.
AnyLaterStages(st) == LaterStages(st)

\* The nearest stages after and before a stage.
NextStages(st) == {t \in LaterStages(st) : \A x \in LaterStages(st) : t.index <= x.index}
PreviousStages(st) == {t \in EarlierStages(st) : \A x \in EarlierStages(st) : t.index >= x.index}

Authorized(u, st) ==
  \/ u \in Admins
  \/ Approvers[u] # None /\ (st.role = None \/ Approvers[u] = st.role)

\* Where an action leads: the next stage (0 for none) and status.
Outcomes(verb, st) ==
  CASE verb \in {"APPROVE", "SKIP"} ->
         IF LaterStages(st) = {} THEN {<<0, "COMPLETED">>} ELSE {<<t.id, "IN_PROGRESS">> : t \in NextStages(st)}
    [] verb = "REJECT" -> {<<0, "CANCELLED">>}
    [] verb = "RETURN" -> {<<t.id, "IN_PROGRESS">> : t \in PreviousStages(st)}
    [] OTHER -> {<<st.id, "IN_PROGRESS">>}

\* Reads the instance with its stage and the stages of the definition, and
\* checks the actor; an action that closes the instance rules first.
ExecuteAction(s, u, i, verb) == \E st \in stages :
  /\ instance[i] # None
  /\ instance[i].status = "IN_PROGRESS"
  /\ instance[i].stage = st.id
  /\ Authorized(u, st)
  /\ \E out \in Outcomes(verb, st) :
       Begin(flow, flowLeft, s,
         [pc |-> IF out[1] = 0 THEN "judge" ELSE "record", user |-> u, instance |-> i,
          verb |-> verb, from |-> st, to |-> out[1], status |-> out[2]])
  /\ contested' = contested \cup
       ({i} \cap {flow[t].instance : t \in {x \in Slots : "verb" \in DOMAIN flow[x]}})
  /\ UNCHANGED <<stages, nextStage, instance, verdict, actions, plan0, passed>>

\* Mutant: a SKIP of the last stage completes the instance and rules nothing.
JudgeApprovals(s) == LET c == flow[s] IN
  /\ c.pc = "judge"
  /\ verdict' = [verdict EXCEPT ![c.instance] =
                   IF c.verb = "APPROVE" THEN "APPROVED" ELSE IF c.verb = "REJECT" THEN "REJECTED" ELSE @]
  /\ passed' = IF c.status = "COMPLETED"
               THEN [passed EXCEPT ![c.instance] = @ \cup {c.from.index}] ELSE passed
  /\ Goto(flow, flowLeft, s, [c EXCEPT !.pc = "record"])
  /\ UNCHANGED <<stages, nextStage, instance, actions, plan0, contested>>

\* The registration, before anything says that it was decided.
Judge(s) == LET c == flow[s] IN
  /\ c.pc = "judge"
  /\ verdict' = [verdict EXCEPT ![c.instance] =
                   IF c.status = "COMPLETED" THEN "APPROVED" ELSE "REJECTED"]
  /\ passed' = IF c.status = "COMPLETED"
               THEN [passed EXCEPT ![c.instance] = @ \cup {c.from.index}] ELSE passed
  /\ Goto(flow, flowLeft, s, [c EXCEPT !.pc = "record"])
  /\ UNCHANGED <<stages, nextStage, instance, actions, plan0, contested>>

\* Mutant: an error of the insert is swallowed.
RecordPerhaps(s) == LET c == flow[s] IN
  /\ c.pc = "record"
  /\ \/ actions' = Append(actions, [instance |-> c.instance, actor |-> c.user, action |-> c.verb])
     \/ UNCHANGED actions
  /\ Goto(flow, flowLeft, s, [c EXCEPT !.pc = "move"])
  /\ UNCHANGED <<stages, nextStage, instance, verdict>> /\ UNCHANGED flowHistory

RecordAction(s) == LET c == flow[s] IN
  /\ c.pc = "record"
  /\ actions' = Append(actions, [instance |-> c.instance, actor |-> c.user, action |-> c.verb])
  /\ Goto(flow, flowLeft, s, [c EXCEPT !.pc = "move"])
  /\ UNCHANGED <<stages, nextStage, instance, verdict>> /\ UNCHANGED flowHistory

\* Moves the instance; a stage that has been deleted is refused.
MoveInstance(s) == LET c == flow[s] IN
  /\ c.pc = "move"
  /\ IF c.to = 0 \/ \E st \in stages : st.id = c.to
     THEN /\ instance' = [instance EXCEPT ![c.instance] = [stage |-> c.to, status |-> c.status]]
          /\ passed' = IF c.verb \in {"APPROVE", "SKIP"}
                       THEN [passed EXCEPT ![c.instance] = @ \cup {c.from.index}] ELSE passed
     ELSE UNCHANGED <<instance, passed>>
  /\ Goto(flow, flowLeft, s, Idle)
  /\ UNCHANGED <<stages, nextStage, verdict, actions, plan0, contested>>

\* getWorkflowHistory: the rows of an instance, by their place in the order of createdAt.
WorkflowHistory(i) == {k \in DOMAIN actions : actions[k].instance = i}

-----------------------------------------------------------------------------
FlowDie(s) ==
  /\ Die(flow, flowLeft, s)
  /\ contested' = contested \cup
       (IF "instance" \in DOMAIN flow[s] THEN {flow[s].instance} ELSE {})
  /\ UNCHANGED <<stages, nextStage, instance, verdict, actions, plan0, passed>>

FlowStep(s) ==
  \/ ClearStages(s) \/ FillStages(s) \/ InsertInstance(s)
  \/ Judge(s) \/ RecordAction(s) \/ MoveInstance(s)

FlowRequest(s) ==
  /\ Free(flow, flowLeft, s)
  /\ \/ \E plan \in StagePlans : UpdateWorkflow(s, plan)
     \/ \E i \in Instances :
          \/ StartWorkflowInstance(s, i)
          \/ \E u \in Users, verb \in Verbs : ExecuteAction(s, u, i, verb)

FlowNext ==
  \/ \E plan \in StagePlans : CreateWorkflow(plan)
  \/ \E s \in Slots : FlowRequest(s) \/ FlowStep(s) \/ FlowDie(s)

FlowSpec == FlowInit /\ [][FlowNext]_flowVars

-----------------------------------------------------------------------------
(* Properties.                                                             *)

\* A registration is approved only when, for every index of the stages that
\* its instance was started with, some approver has approved or skipped a
\* stage of that index: neither approvals that overlap, nor a RETURN between
\* them, nor new stages for the definition let one be left out.
NoStageSkipped == \A i \in Instances :
  verdict[i] = "APPROVED" => {st.index : st \in plan0[i]} \subseteq passed[i]

\* An instance that has moved shows it in its history: completed, or past a
\* stage it was started with, by an APPROVE or SKIP; cancelled by a REJECT.
MovesAreRecorded == \A i \in Instances : instance[i] # None =>
  LET done == {actions[k].action : k \in WorkflowHistory(i)} IN
  /\ instance[i].status = "CANCELLED" => "REJECT" \in done
  /\ instance[i].status = "COMPLETED" => done \cap {"APPROVE", "SKIP"} # {}
  /\ \A st \in stages :
       instance[i].stage = st.id /\ (\E x \in plan0[i] : x.index < st.index) =>
         done \cap {"APPROVE", "SKIP"} # {}

\* Unless two actions on it overlap or one dies, an instance at rest and its
\* registration tell the same story.
VerdictMatches == \A i \in Instances \ contested :
  instance[i] # None /\ (\A s \in Slots : "verb" \in DOMAIN flow[s] => flow[s].instance # i) =>
    verdict[i] = CASE instance[i].status = "IN_PROGRESS" -> "PENDING"
                   [] instance[i].status = "COMPLETED" -> "APPROVED"
                   [] instance[i].status = "CANCELLED" -> "REJECTED"
=============================================================================
