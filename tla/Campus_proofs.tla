--------------------------- MODULE Campus_proofs ----------------------------
(***************************************************************************)
(* Theorems about parts of the campus, each from its own specification:    *)
(* Workflow, for every number of users, instances and calls in flight and  *)
(* every list of stages; Expenses, for every number of users, calls in     *)
(* flight, categories, events and amounts; and AdminRecords and People,    *)
(* for every number of users, calls in flight, batches of winners, groups  *)
(* and roles.  The game and the chat have modules of their own.            *)
(***************************************************************************)
EXTENDS Campus, Gamification_proofs, SequenceTheorems, TLAPS

-----------------------------------------------------------------------------
(* Workflow.                                                               *)

(***************************************************************************)
(* Types, of what the stages depend on.  The history of actions, which     *)
(* nothing reads, is not part of it.                                       *)
(***************************************************************************)
FlowCall == {Idle} \cup ActCall \cup UpdateCall \cup StartCall

FlowType ==
  /\ stages \subseteq Stage
  /\ nextStage \in Nat \ {0}
  /\ instance \in [Instances -> InstanceRow \cup {None}]
  /\ verdict \in [Instances -> {"PENDING", "APPROVED", "REJECTED"}]
  /\ flow \in [Slots -> FlowCall]
  /\ plan0 \in [Instances -> SUBSET Stage]
  /\ passed \in [Instances -> SUBSET Nat]

\* Keys of stages are not used again.
KeysInv ==
  /\ \A st \in stages : st.id < nextStage
  /\ \A st, t \in stages : st.id = t.id => st = t

IsAct(c) == c.pc \in {"judge", "record", "move"}

\* Every index below `st` of the plan of `i` has been passed, or is about to be.
FlowReached(i, st, more) ==
  /\ plan0[i] \subseteq stages
  /\ \A x \in plan0[i] : x.index < st.index => x.index \in passed[i] \cup more

\* The indexes that the move of an action passes.
Passes(c) == IF c.verb \in {"APPROVE", "SKIP"} THEN {c.from.index} ELSE {}

\* What an action knows: its instance is there; the stage it leads to is
\* reached, unless it has been deleted; and an action that completes the
\* instance has the rest behind it.
ActOK(c) ==
  /\ instance[c.instance] # None
  /\ c.to < nextStage
  /\ \A st \in stages : st.id = c.to => FlowReached(c.instance, st, Passes(c))
  /\ c.pc = "judge" /\ c.status = "COMPLETED" =>
       {x.index : x \in plan0[c.instance]} \subseteq passed[c.instance] \cup {c.from.index}

\* What a start knows: the instance is not there, and the stage it has read
\* is the first of those it has read, unless they have been deleted.
StartOK(c) ==
  /\ instance[c.instance] = None
  /\ c.first < nextStage
  /\ \A st \in stages : st.id = c.first =>
       c.read \subseteq stages /\ \A x \in c.read : st.index <= x.index

FlowCallOK(c) ==
  /\ IsAct(c) => ActOK(c)
  /\ c.pc = "start" => StartOK(c)

InstanceOK(i) == instance[i] # None =>
  /\ instance[i].stage < nextStage
  /\ \A st \in stages : st.id = instance[i].stage => FlowReached(i, st, {})

OneStart == \A s, t \in Slots :
  flow[s].pc = "start" /\ flow[t].pc = "start" /\ flow[s].instance = flow[t].instance => s = t

\* The invariant.
StageInv ==
  /\ FlowType
  /\ KeysInv
  /\ OneStart
  /\ \A s \in Slots : FlowCallOK(flow[s])
  /\ \A i \in Instances : InstanceOK(i)
  /\ \A i \in Instances : instance[i] = None => verdict[i] = "PENDING"
  /\ NoStageSkipped

-----------------------------------------------------------------------------
\* The kinds of calls are told apart by pc.
LEMMA CallKinds ==
  ASSUME NEW c \in FlowCall
  PROVE  /\ IsAct(c) => c \in ActCall
         /\ c.pc = "start" => c \in StartCall
         /\ c.pc \in {"clear", "fill"} => c \in UpdateCall
         /\ c # Idle => c.pc \in {"judge", "record", "move", "start", "clear", "fill"}
         /\ Idle.pc = "idle"
BY DEF FlowCall, IsAct, ActCall, StartCall, UpdateCall, Idle

LEMMA FlowInitInv == FlowInit => StageInv
<1> SUFFICES ASSUME FlowInit PROVE StageInv
  OBVIOUS
<1>1. FlowType
  BY DEF FlowInit, FlowType, FlowCall
<1>2. KeysInv /\ \A i \in Instances : InstanceOK(i) /\ verdict[i] = "PENDING"
  BY DEF FlowInit, KeysInv, InstanceOK
<1>3. \A s \in Slots : flow[s].pc = "idle"
  BY DEF FlowInit, Idle
<1>4. OneStart /\ \A s \in Slots : FlowCallOK(flow[s])
  BY <1>3 DEF OneStart, FlowCallOK, IsAct
<1> QED BY <1>1, <1>2, <1>4 DEF StageInv, NoStageSkipped

-----------------------------------------------------------------------------
(***************************************************************************)
(* Steps that leave plans alone and do not undo anything: stages are added *)
(* under new keys or all deleted, and more indexes are passed.             *)
(***************************************************************************)
Onward ==
  /\ stages' = {} \/ stages \subseteq stages'
  /\ \A st \in stages' : st.id < nextStage => st \in stages
  /\ nextStage <= nextStage'
  /\ \A i \in Instances : passed[i] \subseteq passed'[i]
  /\ \A i \in Instances : (instance'[i] = None) <=> (instance[i] = None)
  /\ UNCHANGED plan0

LEMMA OnwardReached ==
  ASSUME Onward, NEW i \in Instances, NEW st \in stages', NEW more, FlowReached(i, st, more)
  PROVE  FlowReached(i, st, more)'
BY DEF Onward, FlowReached

LEMMA OnwardCall ==
  ASSUME FlowType, FlowType', Onward, NEW c \in FlowCall, FlowCallOK(c)
  PROVE  FlowCallOK(c)'
<1>1. ASSUME IsAct(c) PROVE ActOK(c)'
  <2>1. c \in ActCall /\ ActOK(c)
    BY <1>1, CallKinds DEF FlowCallOK
  <2>2. c.instance \in Instances /\ c.to \in Nat
    BY <2>1 DEF ActCall
  <2>3. instance'[c.instance] # None /\ c.to < nextStage'
    BY <2>1, <2>2 DEF ActOK, Onward, FlowType
  <2>4. \A st \in stages' : st.id = c.to => FlowReached(c.instance, st, Passes(c))'
    <3> SUFFICES ASSUME NEW st \in stages', st.id = c.to
                 PROVE  FlowReached(c.instance, st, Passes(c))'
      OBVIOUS
    <3>1. st \in stages
      BY <2>1 DEF Onward, ActOK
    <3>2. FlowReached(c.instance, st, Passes(c))
      BY <2>1, <3>1 DEF ActOK
    <3>3. PICK more : more = Passes(c)
      OBVIOUS
    <3>4. FlowReached(c.instance, st, more)'
      BY <2>2, <3>2, <3>3, OnwardReached
    <3> QED BY <3>3, <3>4 DEF Passes, FlowReached
  <2>5. c.pc = "judge" /\ c.status = "COMPLETED" =>
          {x.index : x \in plan0'[c.instance]} \subseteq passed'[c.instance] \cup {c.from.index}
    BY <2>1, <2>2 DEF ActOK, Onward
  <2> QED BY <2>3, <2>4, <2>5 DEF ActOK
<1>2. ASSUME c.pc = "start" PROVE StartOK(c)'
  <2>1. c \in StartCall /\ StartOK(c)
    BY <1>2, CallKinds DEF FlowCallOK
  <2>2. c.instance \in Instances /\ c.first \in Nat
    BY <2>1 DEF StartCall
  <2>3. instance'[c.instance] = None /\ c.first < nextStage'
    BY <2>1, <2>2 DEF StartOK, Onward, FlowType
  <2>4. \A st \in stages' : st.id = c.first =>
          c.read \subseteq stages' /\ \A x \in c.read : st.index <= x.index
    BY <2>1 DEF StartOK, Onward
  <2> QED BY <2>3, <2>4 DEF StartOK
<1> QED BY <1>1, <1>2 DEF FlowCallOK, IsAct

LEMMA OnwardInstance ==
  ASSUME FlowType, FlowType', Onward, NEW i \in Instances, InstanceOK(i),
         instance'[i] = None \/ instance'[i].stage = instance[i].stage \/ stages' = {},
         instance'[i] # None => instance'[i].stage < nextStage'
  PROVE  InstanceOK(i)'
<1> SUFFICES ASSUME instance'[i] # None, NEW st \in stages', st.id = instance'[i].stage
             PROVE  FlowReached(i, st, {})'
  BY DEF InstanceOK
<1>1. instance[i] # None /\ instance'[i].stage = instance[i].stage
  BY DEF Onward
<1>2. st \in stages
  BY <1>1 DEF InstanceOK, Onward
<1>3. FlowReached(i, st, {})
  BY <1>1, <1>2 DEF InstanceOK
<1> QED BY <1>3, OnwardReached

\* One call goes on as `c`, or begins or ends with it.
LEMMA OnwardFlow ==
  ASSUME StageInv, FlowType', Onward, NEW s \in Slots, NEW c \in FlowCall,
         flow' = [flow EXCEPT ![s] = c], FlowCallOK(c)', c.pc # "start"
  PROVE  OneStart' /\ \A t \in Slots : FlowCallOK(flow[t])'
<1>1. \A t \in Slots : flow'[t] = IF t = s THEN c ELSE flow[t]
  BY DEF StageInv, FlowType
<1>2. OneStart'
  BY <1>1 DEF OneStart, StageInv
<1>3. ASSUME NEW t \in Slots PROVE FlowCallOK(flow[t])'
  <2>1. CASE t = s
    BY <1>1, <2>1 DEF FlowCallOK, ActOK, StartOK, FlowReached, IsAct, Passes
  <2>2. CASE t # s
    <3>1. PICK d \in FlowCall : d = flow[t] /\ FlowCallOK(d)
      BY DEF StageInv, FlowType
    <3>2. FlowCallOK(d)' /\ flow'[t] = d
      BY <1>1, <2>2, <3>1, OnwardCall DEF StageInv
    <3> QED BY <3>2 DEF FlowCallOK, ActOK, StartOK, FlowReached, IsAct, Passes
  <2> QED BY <2>1, <2>2
<1> QED BY <1>2, <1>3

\* What a slot may hold in the end.
LEMMA FlowIdleOK == Idle \in FlowCall /\ FlowCallOK(Idle) /\ FlowCallOK(Idle)' /\ Idle.pc = "idle"
BY DEF FlowCall, FlowCallOK, IsAct, Idle

-----------------------------------------------------------------------------
(* Definitions.                                                            *)

\* New stages have new keys, each its own.
LEMMA StagesGrow ==
  ASSUME FlowType, KeysInv, NEW plan \in StagePlans,
         stages' = stages \cup StageRows(plan), nextStage' = nextStage + Len(plan)
  PROVE  /\ stages' \subseteq Stage /\ nextStage' \in Nat \ {0}
         /\ KeysInv'
         /\ stages \subseteq stages' /\ nextStage <= nextStage'
         /\ \A st \in stages' : st.id < nextStage => st \in stages
<1>1. plan \in Seq([index : Nat, role : StageRoles])
  BY FlowAssumption
<1>2. PICK n \in Nat : n = Len(plan) /\ DOMAIN plan = 1 .. n
  BY <1>1
<1>3. \A k \in DOMAIN plan : plan[k].index \in Nat /\ plan[k].role \in StageRoles
  <2>1. PICK rows : rows = [index : Nat, role : StageRoles] /\ plan \in Seq(rows)
    BY <1>1
  <2>2. \A k \in 1 .. Len(plan) : plan[k] \in rows
    BY <2>1, ElementOfSeq
  <2>3. \A k \in DOMAIN plan : plan[k] \in [index : Nat, role : StageRoles]
    BY <1>2, <2>1, <2>2
  <2> QED BY <2>3
<1>4. nextStage \in Nat \ {0} /\ stages \subseteq Stage
  BY DEF FlowType
<1>5. \A k \in 1 .. n : nextStage + k - 1 \in Nat \ {0} /\ nextStage + k - 1 >= nextStage
                                              /\ nextStage + k - 1 < nextStage + n
  BY <1>2, <1>4
<1>6. \A st \in StageRows(plan) : /\ st \in Stage /\ st.id >= nextStage /\ st.id < nextStage + n
  BY <1>2, <1>3, <1>5 DEF StageRows, Stage
<1>7. \A st, t \in StageRows(plan) : st.id = t.id => st = t
  <2> SUFFICES ASSUME NEW j \in 1 .. n, NEW k \in 1 .. n,
                      nextStage + j - 1 = nextStage + k - 1
               PROVE  j = k
    BY <1>2 DEF StageRows
  <2> QED BY <1>4
<1>8. \A st \in stages : st.id < nextStage /\ st.id \in Nat
  BY <1>4 DEF KeysInv, Stage
<1>9. \A st \in StageRows(plan) : st.id \in Nat
  BY <1>6 DEF Stage
<1>10. \A st \in stages' : st.id < nextStage' /\ (st.id < nextStage => st \in stages)
  BY <1>2, <1>4, <1>6, <1>8, <1>9
<1>11. \A st, t \in stages' : st.id = t.id => st = t
  BY <1>4, <1>6, <1>7, <1>8, <1>9 DEF KeysInv
<1> QED BY <1>2, <1>4, <1>6, <1>10, <1>11 DEF KeysInv

\* What is left to prove of a step that goes onward without a verdict.
LEMMA OnwardInv ==
  ASSUME StageInv, FlowType', KeysInv', Onward, UNCHANGED verdict,
         OneStart', \A t \in Slots : FlowCallOK(flow[t])',
         \A i \in Instances : InstanceOK(i)'
  PROVE  StageInv'
<1>1. \A i \in Instances : instance'[i] = None => verdict'[i] = "PENDING"
  BY DEF StageInv, Onward
<1>2. NoStageSkipped'
  <2> SUFFICES ASSUME NEW i \in Instances, verdict'[i] = "APPROVED"
               PROVE  {st.index : st \in plan0'[i]} \subseteq passed'[i]
    BY DEF NoStageSkipped
  <2>1. {st.index : st \in plan0[i]} \subseteq passed[i]
    BY DEF StageInv, NoStageSkipped
  <2>2. plan0' = plan0 /\ passed[i] \subseteq passed'[i]
    BY DEF Onward
  <2> QED BY <2>1, <2>2
<1> QED BY <1>1, <1>2 DEF StageInv

\* A step that only changes what a call knows.
LEMMA CallStep ==
  ASSUME StageInv, NEW s \in Slots, NEW c \in FlowCall, FlowCallOK(c), c.pc # "start",
         flow' = [flow EXCEPT ![s] = c],
         UNCHANGED <<stages, nextStage, instance, verdict, plan0, passed>>
  PROVE  StageInv'
<1>1. FlowType' /\ KeysInv'
  BY DEF StageInv, FlowType, KeysInv
<1>2. Onward
  BY DEF Onward, StageInv, FlowType
<1>3. FlowCallOK(c)'
  BY <1>1, <1>2, OnwardCall DEF StageInv
<1>4. OneStart' /\ \A t \in Slots : FlowCallOK(flow[t])'
  BY <1>1, <1>2, <1>3, OnwardFlow
<1>5. \A i \in Instances : InstanceOK(i)'
  BY DEF StageInv, InstanceOK, FlowReached
<1> QED BY <1>1, <1>2, <1>4, <1>5, OnwardInv

LEMMA CreateStep ==
  ASSUME StageInv, NEW plan \in StagePlans, CreateWorkflow(plan)
  PROVE  StageInv'
<1>1. /\ stages' \subseteq Stage /\ nextStage' \in Nat \ {0}
      /\ KeysInv'
      /\ stages \subseteq stages' /\ nextStage <= nextStage'
      /\ \A st \in stages' : st.id < nextStage => st \in stages
  <2>1. nextStage = 1 /\ stages' = StageRows(plan) /\ nextStage' = nextStage + Len(plan)
    BY DEF CreateWorkflow
  <2>2. stages = {}
    BY <2>1 DEF StageInv, KeysInv, FlowType, Stage
  <2> QED BY <2>1, <2>2, StagesGrow DEF StageInv
<1>2. UNCHANGED <<instance, verdict, flow, plan0, passed>>
  BY DEF CreateWorkflow, flowHistory
<1>3. FlowType'
  BY <1>1, <1>2 DEF StageInv, FlowType
<1>4. Onward
  BY <1>1, <1>2 DEF Onward, StageInv, FlowType
<1>5. OneStart'
  BY <1>2 DEF StageInv, OneStart
<1>6. ASSUME NEW t \in Slots PROVE FlowCallOK(flow[t])'
  <2>1. PICK d \in FlowCall : d = flow[t] /\ FlowCallOK(d)
    BY DEF StageInv, FlowType
  <2>2. FlowCallOK(d)' /\ flow'[t] = d
    BY <1>2, <1>3, <1>4, <2>1, OnwardCall DEF StageInv
  <2> QED BY <2>2 DEF FlowCallOK, ActOK, StartOK, FlowReached, IsAct, Passes
<1>7. ASSUME NEW i \in Instances PROVE InstanceOK(i)'
  <2>1. InstanceOK(i) /\ (instance[i] # None => instance[i].stage < nextStage)
    BY DEF StageInv, InstanceOK
  <2>2. instance'[i] # None => instance[i].stage \in Nat
    BY <1>2 DEF StageInv, FlowType, InstanceRow
  <2>3. nextStage \in Nat /\ nextStage' \in Nat
    BY <1>1 DEF StageInv, FlowType
  <2> QED BY <1>1, <1>2, <1>3, <1>4, <2>1, <2>2, <2>3, OnwardInstance DEF StageInv
<1> QED BY <1>1, <1>2, <1>3, <1>4, <1>5, <1>6, <1>7, OnwardInv

LEMMA UpdateStep ==
  ASSUME StageInv, NEW s \in Slots, NEW plan \in StagePlans, UpdateWorkflow(s, plan)
  PROVE  StageInv'
<1> DEFINE c == [pc |-> "clear", user |-> None, plan |-> plan]
<1>1. c \in FlowCall /\ c.pc = "clear"
  BY DEF FlowCall, UpdateCall
<1>2. FlowCallOK(c)
  BY <1>1 DEF FlowCallOK, IsAct
<1>3. flow' = [flow EXCEPT ![s] = c] /\ UNCHANGED <<stages, nextStage, instance, verdict, plan0, passed>>
  BY DEF UpdateWorkflow, Begin, flowHistory
<1> QED BY <1>1, <1>2, <1>3, CallStep

LEMMA ClearStep ==
  ASSUME StageInv, NEW s \in Slots, ClearStages(s)
  PROVE  StageInv'
<1>1. PICK c \in FlowCall : c = flow[s]
  BY DEF StageInv, FlowType
<1>2. c.pc = "clear" /\ c \in UpdateCall
  BY <1>1, CallKinds DEF ClearStages
<1>3. PICK q : q = [c EXCEPT !.pc = "fill"]
  OBVIOUS
<1>4. q \in FlowCall /\ q.pc = "fill"
  BY <1>2, <1>3 DEF UpdateCall, FlowCall
<1>5. flow' = [flow EXCEPT ![s] = q] /\ stages' = {}
      /\ UNCHANGED <<nextStage, verdict, plan0, passed>>
  BY <1>1, <1>3 DEF ClearStages, Goto, flowHistory
<1>6. \A i \in Instances : instance'[i] =
        IF instance[i] = None THEN None ELSE [instance[i] EXCEPT !.stage = 0]
  BY DEF ClearStages
<1>7. \A i \in Instances : instance[i] # None =>
        instance'[i] \in InstanceRow /\ instance'[i].stage = 0
  <2>1. \A row \in InstanceRow : [row EXCEPT !.stage = 0] \in InstanceRow
                               /\ [row EXCEPT !.stage = 0].stage = 0
    BY DEF InstanceRow
  <2>2. \A i \in Instances : instance[i] # None => instance[i] \in InstanceRow
    BY DEF StageInv, FlowType
  <2> QED BY <1>6, <2>1, <2>2
<1>8. instance' \in [Instances -> InstanceRow \cup {None}]
  BY <1>6, <1>7 DEF ClearStages
<1>9. FlowType'
  BY <1>4, <1>5, <1>8 DEF StageInv, FlowType
<1>10. KeysInv'
  BY <1>5 DEF KeysInv
<1>11. Onward
  <2>1. \A i \in Instances : (instance'[i] = None) <=> (instance[i] = None)
    BY <1>6, <1>7, FlowAssumption
  <2>2. nextStage <= nextStage'
    BY <1>5 DEF StageInv, FlowType
  <2> QED BY <1>5, <2>1, <2>2 DEF Onward
<1>12. FlowCallOK(q)'
  BY <1>4 DEF FlowCallOK, IsAct
<1>13. OneStart' /\ \A t \in Slots : FlowCallOK(flow[t])'
  BY <1>4, <1>5, <1>9, <1>11, <1>12, OnwardFlow
<1>14. \A i \in Instances : InstanceOK(i)'
  <2>1. 0 < nextStage /\ nextStage' = nextStage
    BY <1>5 DEF StageInv, FlowType
  <2> QED BY <1>5, <1>6, <1>7, <2>1 DEF InstanceOK
<1> QED BY <1>5, <1>9, <1>10, <1>11, <1>13, <1>14, OnwardInv

LEMMA FillStep ==
  ASSUME StageInv, NEW s \in Slots, FillStages(s)
  PROVE  StageInv'
<1>1. PICK c \in FlowCall : c = flow[s]
  BY DEF StageInv, FlowType
<1>2. c.pc = "fill" /\ c.plan \in StagePlans
  BY <1>1, CallKinds DEF FillStages, UpdateCall
<1>3. stages' = stages \cup StageRows(c.plan) /\ nextStage' = nextStage + Len(c.plan)
      /\ flow' = [flow EXCEPT ![s] = Idle] /\ UNCHANGED <<instance, verdict, plan0, passed>>
  BY <1>1 DEF FillStages, Goto, flowHistory
<1>4. /\ stages' \subseteq Stage /\ nextStage' \in Nat \ {0}
      /\ KeysInv'
      /\ stages \subseteq stages' /\ nextStage <= nextStage'
      /\ \A st \in stages' : st.id < nextStage => st \in stages
  BY <1>2, <1>3, StagesGrow DEF StageInv
<1>5. FlowType'
  BY <1>3, <1>4, FlowIdleOK DEF StageInv, FlowType
<1>6. Onward
  BY <1>3, <1>4 DEF Onward, StageInv, FlowType
<1>7. OneStart' /\ \A t \in Slots : FlowCallOK(flow[t])'
  BY <1>3, <1>5, <1>6, FlowIdleOK, OnwardFlow
<1>8. ASSUME NEW i \in Instances PROVE InstanceOK(i)'
  <2>1. InstanceOK(i) /\ (instance[i] # None => instance[i].stage < nextStage)
    BY DEF StageInv, InstanceOK
  <2>2. instance'[i] # None => instance[i].stage \in Nat
    BY <1>3 DEF StageInv, FlowType, InstanceRow
  <2>3. nextStage \in Nat /\ nextStage' \in Nat
    BY <1>4 DEF StageInv, FlowType
  <2> QED BY <1>3, <1>4, <1>5, <1>6, <2>1, <2>2, <2>3, OnwardInstance DEF StageInv
<1> QED BY <1>3, <1>4, <1>5, <1>6, <1>7, <1>8, OnwardInv

-----------------------------------------------------------------------------
(* Instances.                                                              *)

LEMMA StartStep ==
  ASSUME StageInv, NEW s \in Slots, NEW i \in Instances, StartWorkflowInstance(s, i)
  PROVE  StageInv'
<1>1. PICK first \in stages :
        /\ \A st \in stages : first.index <= st.index
        /\ flow' = [flow EXCEPT ![s] = [pc |-> "start", user |-> None, instance |-> i,
                                       first |-> first.id, read |-> stages]]
  BY DEF StartWorkflowInstance, Begin
<1>2. PICK c : c = [pc |-> "start", user |-> None, instance |-> i,
                    first |-> first.id, read |-> stages]
  OBVIOUS
<1>3. first.id \in Nat /\ first.id < nextStage
  BY DEF StageInv, FlowType, KeysInv, Stage
<1>4. c \in FlowCall /\ c.pc = "start"
  BY <1>2, <1>3 DEF StageInv, FlowType, FlowCall, StartCall
<1>5. UNCHANGED <<stages, nextStage, instance, verdict, plan0, passed>> /\ instance[i] = None
      /\ \A t \in Slots : flow[t].pc = "start" => flow[t].instance # i
  BY DEF StartWorkflowInstance, flowHistory
<1>6. FlowType' /\ KeysInv'
  BY <1>1, <1>2, <1>4, <1>5 DEF StageInv, FlowType, KeysInv
<1>7. \A t \in Slots : flow'[t] = IF t = s THEN c ELSE flow[t]
  BY <1>1, <1>2 DEF StageInv, FlowType
<1>8. OneStart'
  <2>1. c.instance = i
    BY <1>2
  <2> QED BY <1>5, <1>7, <2>1 DEF StageInv, OneStart
<1>9. FlowCallOK(c)
  <2>1. \A st \in stages : st.id = first.id => st = first
    BY DEF StageInv, KeysInv
  <2>2. StartOK(c)
    BY <1>1, <1>2, <1>3, <1>5, <2>1 DEF StartOK
  <2> QED BY <1>4, <2>2 DEF FlowCallOK, IsAct
<1>10. ASSUME NEW t \in Slots PROVE FlowCallOK(flow[t])'
  <2>1. FlowCallOK(flow'[t])
    BY <1>7, <1>9 DEF StageInv
  <2> QED BY <1>5, <2>1 DEF FlowCallOK, ActOK, StartOK, FlowReached, IsAct, Passes
<1>11. \A j \in Instances : InstanceOK(j)'
  BY <1>5 DEF StageInv, InstanceOK, FlowReached
<1>12. Onward
  BY <1>5 DEF Onward, StageInv, FlowType
<1> QED BY <1>5, <1>6, <1>8, <1>10, <1>11, <1>12, OnwardInv

\* The insert sets the plan; until then nobody acts on the instance.
LEMMA InsertStep ==
  ASSUME StageInv, NEW s \in Slots, InsertInstance(s)
  PROVE  StageInv'
<1>1. PICK c \in FlowCall : c = flow[s] /\ FlowCallOK(c)
  BY DEF StageInv, FlowType
<1>2. c.pc = "start" /\ c \in StartCall /\ StartOK(c)
  BY <1>1, CallKinds DEF InsertInstance, FlowCallOK
<1>3. PICK i \in Instances : i = c.instance /\ instance[i] = None
  BY <1>2 DEF StartCall, StartOK
<1>4. flow' = [flow EXCEPT ![s] = Idle] /\ UNCHANGED <<stages, nextStage, verdict, passed>>
  BY DEF InsertInstance, Goto
<1>5. CASE UNCHANGED <<instance, plan0>>
  BY <1>4, <1>5, FlowIdleOK, CallStep
<1>6. CASE ~ UNCHANGED <<instance, plan0>>
  <2>1. PICK st0 \in stages : st0.id = c.first
    BY <1>1, <1>6 DEF InsertInstance
  <2>2. PICK row : row = [stage |-> c.first, status |-> "IN_PROGRESS"]
    OBVIOUS
  <2>3. row \in InstanceRow /\ row.stage = c.first /\ row # None
    BY <1>2, <2>2, FlowAssumption DEF InstanceRow, StartCall
  <2>4. instance' = [instance EXCEPT ![i] = row] /\ plan0' = [plan0 EXCEPT ![i] = c.read]
    BY <1>1, <1>3, <2>1, <2>2 DEF InsertInstance
  <2>5. /\ c.read \subseteq stages
        /\ \A x \in c.read : st0.index <= x.index
        /\ c.first < nextStage
    BY <1>2, <2>1 DEF StartOK
  <2>6. \A j \in Instances : /\ instance'[j] = IF j = i THEN row ELSE instance[j]
                            /\ plan0'[j] = IF j = i THEN c.read ELSE plan0[j]
    BY <2>4 DEF StageInv, FlowType
  <2>7. c.read \subseteq Stage
    BY <2>5 DEF StageInv, FlowType
  <2>8. FlowType' /\ KeysInv'
    <3>1. instance' \in [Instances -> InstanceRow \cup {None}] /\ plan0' \in [Instances -> SUBSET Stage]
      BY <2>3, <2>4, <2>7 DEF StageInv, FlowType
    <3> QED BY <1>4, <3>1, FlowIdleOK DEF StageInv, FlowType, KeysInv
  <2>9. \A t \in Slots : flow'[t] = IF t = s THEN Idle ELSE flow[t]
    BY <1>4 DEF StageInv, FlowType
  <2>10. OneStart'
    BY <2>9, FlowIdleOK DEF StageInv, OneStart
  <2>11. ASSUME NEW t \in Slots PROVE FlowCallOK(flow[t])'
    <3>1. CASE t = s
      BY <2>9, <3>1, FlowIdleOK DEF FlowCallOK, IsAct
    <3>2. CASE t # s
      <4>1. PICK d \in FlowCall : d = flow[t] /\ FlowCallOK(d) /\ flow'[t] = d
        BY <2>9, <3>2 DEF StageInv, FlowType
      <4>2. ASSUME IsAct(d) PROVE ActOK(d)'
        <5>1. d \in ActCall /\ ActOK(d)
          BY <4>1, <4>2, CallKinds DEF FlowCallOK
        <5>2. d.instance \in Instances /\ d.instance # i
          BY <1>3, <5>1 DEF ActCall, ActOK
        <5> QED BY <1>4, <2>6, <5>1, <5>2 DEF ActOK, FlowReached
      <4>3. ASSUME d.pc = "start" PROVE StartOK(d)'
        <5>1. d \in StartCall /\ StartOK(d)
          BY <4>1, <4>3, CallKinds DEF FlowCallOK
        <5>2. d.instance \in Instances /\ d.instance # i
          BY <1>1, <1>2, <1>3, <3>2, <4>1, <4>3, <5>1 DEF StageInv, OneStart, StartCall
        <5> QED BY <1>4, <2>6, <5>1, <5>2 DEF StartOK
      <4> QED BY <4>1, <4>2, <4>3 DEF FlowCallOK, IsAct, ActOK, StartOK, FlowReached, Passes
    <3> QED BY <3>1, <3>2
  <2>12. ASSUME NEW j \in Instances PROVE InstanceOK(j)'
    <3>1. CASE j = i
      <4>1. \A st \in stages : st.id = c.first => st = st0
        BY <2>1 DEF StageInv, KeysInv
      <4>2. \A x \in c.read : ~(x.index < st0.index)
        BY <2>1, <2>5, <2>7 DEF StageInv, FlowType, Stage
      <4>3. FlowReached(i, st0, {})'
        BY <1>4, <2>5, <2>6, <4>2 DEF FlowReached
      <4> QED BY <1>4, <2>3, <2>5, <2>6, <3>1, <4>1, <4>3 DEF InstanceOK
    <3>2. CASE j # i
      BY <1>4, <2>6, <3>2 DEF StageInv, InstanceOK, FlowReached
    <3> QED BY <3>1, <3>2
  <2>13. \A j \in Instances : instance'[j] = None => verdict'[j] = "PENDING"
    BY <1>4, <2>3, <2>6 DEF StageInv
  <2>14. NoStageSkipped'
    BY <1>3, <1>4, <2>6 DEF StageInv, NoStageSkipped
  <2> QED BY <2>8, <2>10, <2>11, <2>12, <2>13, <2>14 DEF StageInv
<1> QED BY <1>5, <1>6

-----------------------------------------------------------------------------
(* Actions.                                                                *)

\* Where an action leads from a stage that is reached.
LEMMA OutcomeReached ==
  ASSUME StageInv, NEW i \in Instances, NEW st \in stages, NEW verb \in Verbs,
         FlowReached(i, st, {}), NEW out \in Outcomes(verb, st)
  PROVE  /\ out[1] \in Nat /\ out[1] < nextStage
         /\ out[2] \in {"IN_PROGRESS", "COMPLETED", "CANCELLED"}
         /\ \A t \in stages : t.id = out[1] =>
              FlowReached(i, t, IF verb \in {"APPROVE", "SKIP"} THEN {st.index} ELSE {})
         /\ out[2] = "COMPLETED" =>
              {x.index : x \in plan0[i]} \subseteq passed[i] \cup {st.index}
<1>1. \A t \in stages : t.id \in Nat \ {0} /\ t.id < nextStage /\ t.index \in Nat
  BY DEF StageInv, FlowType, KeysInv, Stage
<1>2. 0 < nextStage
  BY DEF StageInv, FlowType
<1>3. \A x \in plan0[i] : x \in stages /\ (x.index < st.index => x.index \in passed[i])
  BY DEF FlowReached
<1>4. \A t, u \in stages : t.id = u.id => t = u
  BY DEF StageInv, KeysInv
<1>5. CASE verb \in {"APPROVE", "SKIP"} /\ LaterStages(st) = {}
  <2>1. out = <<0, "COMPLETED">>
    BY <1>5 DEF Outcomes
  <2>2. \A x \in plan0[i] : x.index < st.index \/ x.index = st.index
    BY <1>1, <1>3, <1>5 DEF LaterStages
  <2> QED BY <1>1, <1>2, <1>3, <2>1, <2>2
<1>6. CASE verb \in {"APPROVE", "SKIP"} /\ LaterStages(st) # {}
  <2>1. PICK t \in NextStages(st) : out = <<t.id, "IN_PROGRESS">>
    BY <1>6 DEF Outcomes
  <2>2. t \in stages /\ \A x \in stages : x.index > st.index => t.index <= x.index
    BY <2>1 DEF NextStages, LaterStages
  <2>3. \A x \in plan0[i] : x.index < t.index => x.index \in passed[i] \cup {st.index}
    BY <1>1, <1>3, <2>2
  <2>4. FlowReached(i, t, {st.index})
    BY <1>3, <2>3 DEF FlowReached
  <2> QED BY <1>1, <1>4, <1>6, <2>1, <2>2, <2>4
<1>7. CASE verb = "REJECT"
  BY <1>1, <1>2, <1>7 DEF Outcomes
<1>8. CASE verb = "RETURN"
  <2>1. PICK t \in PreviousStages(st) : out = <<t.id, "IN_PROGRESS">>
    BY <1>8 DEF Outcomes
  <2>2. t \in stages /\ t.index < st.index
    BY <2>1 DEF PreviousStages, EarlierStages
  <2>3. \A x \in plan0[i] : x.index < t.index => x.index \in passed[i]
    BY <1>1, <1>3, <2>2
  <2>4. FlowReached(i, t, {})
    BY <1>3, <2>3 DEF FlowReached
  <2> QED BY <1>1, <1>4, <1>8, <2>1, <2>2, <2>4
<1>9. CASE verb = "ESCALATE"
  <2>1. out = <<st.id, "IN_PROGRESS">>
    BY <1>9 DEF Outcomes
  <2> QED BY <1>1, <1>4, <1>9, <2>1
<1> QED BY <1>5, <1>6, <1>7, <1>8, <1>9 DEF Verbs

LEMMA ExecuteStep ==
  ASSUME StageInv, NEW s \in Slots, NEW u \in Users, NEW i \in Instances, NEW verb \in Verbs,
         ExecuteAction(s, u, i, verb)
  PROVE  StageInv'
<1>0. PICK st \in stages :
        /\ instance[i] # None /\ instance[i].stage = st.id
        /\ \E out \in Outcomes(verb, st) : Begin(flow, flowLeft, s,
             [pc |-> IF out[1] = 0 THEN "judge" ELSE "record", user |-> u, instance |-> i,
              verb |-> verb, from |-> st, to |-> out[1], status |-> out[2]])
  BY DEF ExecuteAction
<1>1. PICK out \in Outcomes(verb, st) :
        /\ flow' = [flow EXCEPT ![s] =
             [pc |-> IF out[1] = 0 THEN "judge" ELSE "record", user |-> u, instance |-> i,
              verb |-> verb, from |-> st, to |-> out[1], status |-> out[2]]]
        /\ UNCHANGED <<stages, nextStage, instance, verdict, plan0, passed>>
  BY <1>0 DEF Begin, ExecuteAction
<1>2. FlowReached(i, st, {})
  BY <1>0 DEF StageInv, InstanceOK
<1>3. /\ out[1] \in Nat /\ out[1] < nextStage
      /\ out[2] \in {"IN_PROGRESS", "COMPLETED", "CANCELLED"}
      /\ \A t \in stages : t.id = out[1] =>
           FlowReached(i, t, IF verb \in {"APPROVE", "SKIP"} THEN {st.index} ELSE {})
      /\ out[2] = "COMPLETED" =>
           {x.index : x \in plan0[i]} \subseteq passed[i] \cup {st.index}
  BY <1>2, OutcomeReached
<1>4. PICK c : c = [pc |-> IF out[1] = 0 THEN "judge" ELSE "record", user |-> u, instance |-> i,
                    verb |-> verb, from |-> st, to |-> out[1], status |-> out[2]]
  OBVIOUS
<1>5. /\ c.pc \in {"judge", "record"} /\ c.instance = i /\ c.verb = verb /\ c.from = st
      /\ c.to = out[1] /\ c.status = out[2]
  BY <1>4
<1>6. c \in FlowCall
  <2>1. st \in Stage
    BY DEF StageInv, FlowType
  <2> QED BY <1>3, <1>4, <2>1 DEF FlowCall, ActCall
<1>7. ActOK(c)
  BY <1>0, <1>3, <1>5 DEF ActOK, Passes
<1>8. FlowCallOK(c)
  BY <1>5, <1>7 DEF FlowCallOK
<1> QED BY <1>1, <1>4, <1>5, <1>6, <1>8, CallStep

\* The verdict comes when the last stage has been dealt with.
LEMMA JudgeStep ==
  ASSUME StageInv, NEW s \in Slots, Judge(s)
  PROVE  StageInv'
<1>1. PICK c \in FlowCall : c = flow[s] /\ FlowCallOK(c)
  BY DEF StageInv, FlowType
<1>2. c.pc = "judge" /\ c \in ActCall /\ ActOK(c)
  BY <1>1, CallKinds DEF Judge, FlowCallOK, IsAct
<1>3. PICK q : q = [c EXCEPT !.pc = "record"]
  OBVIOUS
<1>4. /\ q \in FlowCall /\ q.pc = "record" /\ q.instance = c.instance /\ q.verb = c.verb
      /\ q.from = c.from /\ q.to = c.to
  BY <1>2, <1>3 DEF FlowCall, ActCall
<1>5. FlowCallOK(q)
  BY <1>2, <1>4 DEF FlowCallOK, ActOK, Passes
<1>6. PICK i \in Instances, n \in Nat : i = c.instance /\ n = c.from.index /\ instance[i] # None
  BY <1>2 DEF ActCall, ActOK, Stage
<1>7. /\ verdict' = [verdict EXCEPT ![i] = IF c.status = "COMPLETED" THEN "APPROVED" ELSE "REJECTED"]
      /\ passed' = IF c.status = "COMPLETED" THEN [passed EXCEPT ![i] = @ \cup {n}] ELSE passed
      /\ flow' = [flow EXCEPT ![s] = q]
      /\ UNCHANGED <<stages, nextStage, instance, plan0>>
  BY <1>1, <1>3, <1>6 DEF Judge, Goto
<1>8. \A j \in Instances : passed[j] \subseteq passed'[j]
  BY <1>7 DEF StageInv, FlowType
<1>9. FlowType' /\ KeysInv'
  <2>1. passed' \in [Instances -> SUBSET Nat]
    BY <1>7 DEF StageInv, FlowType
  <2>2. verdict' \in [Instances -> {"PENDING", "APPROVED", "REJECTED"}]
    BY <1>7 DEF StageInv, FlowType
  <2> QED BY <1>4, <1>7, <2>1, <2>2 DEF StageInv, FlowType, KeysInv
<1>10. Onward
  BY <1>7, <1>8 DEF Onward, StageInv, FlowType
<1>11. FlowCallOK(q)'
  BY <1>4, <1>5, <1>9, <1>10, OnwardCall DEF StageInv
<1>12. OneStart' /\ \A t \in Slots : FlowCallOK(flow[t])'
  BY <1>4, <1>7, <1>9, <1>10, <1>11, OnwardFlow
<1>13. \A j \in Instances : InstanceOK(j)'
  BY <1>7, <1>8 DEF StageInv, InstanceOK, FlowReached
<1>14. \A j \in Instances : instance'[j] = None => verdict'[j] = "PENDING"
  BY <1>6, <1>7 DEF StageInv, FlowType
<1>15. NoStageSkipped'
  <2> SUFFICES ASSUME NEW j \in Instances, verdict'[j] = "APPROVED"
               PROVE  {st.index : st \in plan0[j]} \subseteq passed'[j]
    BY <1>7 DEF NoStageSkipped
  <2>1. CASE j = i
    <3>1. c.status = "COMPLETED"
      BY <1>7, <2>1 DEF StageInv, FlowType
    <3>2. {st.index : st \in plan0[i]} \subseteq passed[i] \cup {n}
      BY <1>2, <1>6, <3>1 DEF ActOK
    <3>3. passed'[i] = passed[i] \cup {n}
      BY <1>7, <3>1 DEF StageInv, FlowType
    <3> QED BY <2>1, <3>2, <3>3
  <2>2. CASE j # i
    <3>1. verdict'[j] = verdict[j]
      BY <1>7, <2>2 DEF StageInv, FlowType
    <3> QED BY <1>8, <3>1 DEF StageInv, NoStageSkipped
  <2> QED BY <2>1, <2>2
<1> QED BY <1>9, <1>12, <1>13, <1>14, <1>15 DEF StageInv

LEMMA RecordStep ==
  ASSUME StageInv, NEW s \in Slots, RecordAction(s)
  PROVE  StageInv'
<1>1. PICK c \in FlowCall : c = flow[s] /\ FlowCallOK(c)
  BY DEF StageInv, FlowType
<1>2. c.pc = "record" /\ c \in ActCall /\ ActOK(c)
  BY <1>1, CallKinds DEF RecordAction, FlowCallOK, IsAct
<1>3. PICK q : q = [c EXCEPT !.pc = "move"]
  OBVIOUS
<1>4. /\ q \in FlowCall /\ q.pc = "move" /\ q.instance = c.instance /\ q.verb = c.verb
      /\ q.from = c.from /\ q.to = c.to
  BY <1>2, <1>3 DEF FlowCall, ActCall
<1>5. FlowCallOK(q)
  BY <1>2, <1>4 DEF FlowCallOK, ActOK, Passes
<1>6. flow' = [flow EXCEPT ![s] = q] /\ UNCHANGED <<stages, nextStage, instance, verdict, plan0, passed>>
  BY <1>1, <1>3 DEF RecordAction, Goto, flowHistory
<1> QED BY <1>4, <1>5, <1>6, CallStep

\* An instance moves to a stage that is reached once its index has been passed.
LEMMA MoveStep ==
  ASSUME StageInv, NEW s \in Slots, MoveInstance(s)
  PROVE  StageInv'
<1>1. PICK c \in FlowCall : c = flow[s] /\ FlowCallOK(c)
  BY DEF StageInv, FlowType
<1>2. c.pc = "move" /\ c \in ActCall /\ ActOK(c)
  BY <1>1, CallKinds DEF MoveInstance, FlowCallOK, IsAct
<1>3. PICK i \in Instances, n \in Nat : i = c.instance /\ n = c.from.index /\ instance[i] # None
  BY <1>2 DEF ActCall, ActOK, Stage
<1>4. flow' = [flow EXCEPT ![s] = Idle] /\ UNCHANGED <<stages, nextStage, verdict, plan0>>
  BY DEF MoveInstance, Goto
<1>5. CASE UNCHANGED <<instance, passed>>
  BY <1>4, <1>5, FlowIdleOK, CallStep
<1>6. CASE ~ UNCHANGED <<instance, passed>>
  <2>1. PICK row : row = [stage |-> c.to, status |-> c.status]
    OBVIOUS
  <2>2. row \in InstanceRow /\ row.stage = c.to /\ row # None
    BY <1>2, <2>1, FlowAssumption DEF InstanceRow, ActCall
  <2>3. /\ instance' = [instance EXCEPT ![i] = row]
        /\ passed' = IF c.verb \in {"APPROVE", "SKIP"}
                     THEN [passed EXCEPT ![i] = @ \cup {n}] ELSE passed
    BY <1>1, <1>3, <1>6, <2>1 DEF MoveInstance
  <2>4. \A j \in Instances : /\ passed[j] \subseteq passed'[j]
                            /\ instance'[j] = IF j = i THEN row ELSE instance[j]
    BY <2>3 DEF StageInv, FlowType
  <2>5. FlowType' /\ KeysInv'
    <3>1. passed' \in [Instances -> SUBSET Nat]
      BY <2>3 DEF StageInv, FlowType
    <3>2. instance' \in [Instances -> InstanceRow \cup {None}]
      BY <2>2, <2>3 DEF StageInv, FlowType
    <3> QED BY <1>4, <3>1, <3>2, FlowIdleOK DEF StageInv, FlowType, KeysInv
  <2>6. Onward
    BY <1>3, <1>4, <2>2, <2>4 DEF Onward, StageInv, FlowType
  <2>7. OneStart' /\ \A t \in Slots : FlowCallOK(flow[t])'
    BY <1>4, <2>5, <2>6, FlowIdleOK, OnwardFlow
  <2>8. ASSUME NEW j \in Instances PROVE InstanceOK(j)'
    <3>1. CASE j = i
      <4>1. ASSUME NEW st \in stages, st.id = c.to PROVE FlowReached(i, st, {})'
        <5>1. FlowReached(i, st, Passes(c))
          BY <1>2, <1>3, <4>1 DEF ActOK
        <5>2. passed'[i] = passed[i] \cup Passes(c)
          BY <1>3, <2>3 DEF StageInv, FlowType, Passes
        <5> QED BY <1>4, <5>1, <5>2 DEF FlowReached
      <4>2. c.to < nextStage
        BY <1>2 DEF ActOK
      <4> QED BY <1>4, <2>2, <2>4, <3>1, <4>1, <4>2 DEF InstanceOK
    <3>2. CASE j # i
      BY <1>4, <2>4, <3>2 DEF StageInv, InstanceOK, FlowReached
    <3> QED BY <3>1, <3>2
  <2> QED BY <1>4, <2>5, <2>6, <2>7, <2>8, OnwardInv
<1> QED BY <1>5, <1>6

-----------------------------------------------------------------------------
LEMMA FlowStepInv == StageInv /\ [FlowNext]_flowVars => StageInv'
<1> SUFFICES ASSUME StageInv, [FlowNext]_flowVars PROVE StageInv'
  OBVIOUS
<1>1. ASSUME NEW plan \in StagePlans, CreateWorkflow(plan) PROVE StageInv'
  BY <1>1, CreateStep
<1>2. ASSUME NEW s \in Slots, FlowRequest(s) PROVE StageInv'
  BY <1>2, UpdateStep, StartStep, ExecuteStep DEF FlowRequest
<1>3. ASSUME NEW s \in Slots, FlowStep(s) PROVE StageInv'
  BY <1>3, ClearStep, FillStep, InsertStep, JudgeStep, RecordStep, MoveStep DEF FlowStep
<1>4. ASSUME NEW s \in Slots, FlowDie(s) PROVE StageInv'
  <2>1. flow' = [flow EXCEPT ![s] = Idle]
        /\ UNCHANGED <<stages, nextStage, instance, verdict, plan0, passed>>
    BY <1>4 DEF FlowDie, Die, Goto
  <2> QED BY <2>1, FlowIdleOK, CallStep
<1>5. CASE UNCHANGED flowVars
  BY <1>5 DEF flowVars, StageInv, FlowType, KeysInv, OneStart, FlowCallOK, IsAct, ActOK, StartOK,
             Passes, FlowReached, InstanceOK, NoStageSkipped
<1> QED BY <1>1, <1>2, <1>3, <1>4, <1>5 DEF FlowNext

\* No registration is approved by a workflow past one of its stages: for any
\* number of approvers who act at the same time, of calls that die, and of
\* definitions that are replaced meanwhile.
THEOREM StagesInOrder == FlowSpec => []NoStageSkipped
<1>1. StageInv => NoStageSkipped
  BY DEF StageInv
<1> QED BY <1>1, FlowInitInv, FlowStepInv, PTL DEF FlowSpec

-----------------------------------------------------------------------------
(***************************************************************************)
(* The history.  Rows are only added to it, and an action moves its        *)
(* instance after its row.                                                 *)
(***************************************************************************)
ActionRow == [instance : Instances, actor : Users, action : Verbs]

Shown(i) == {actions[k].action : k \in WorkflowHistory(i)}

Pass == {"APPROVE", "SKIP"}

\* What an instance has to show at the stage `st`.
ShownAt(i, st, more) ==
  (\E x \in plan0[i] : x.index < st.index) => (Shown(i) \cup more) \cap Pass # {}

\* What an action will have to show for where it leads.
ActShown(c) ==
  /\ c.pc = "move" => c.verb \in Shown(c.instance)
  /\ c.status = "CANCELLED" => c.verb = "REJECT"
  /\ c.status = "COMPLETED" => c.verb \in Pass
  /\ \A st \in stages : st.id = c.to => ShownAt(c.instance, st, {c.verb})

InstanceShown(i) == instance[i] # None =>
  /\ instance[i].status = "CANCELLED" => "REJECT" \in Shown(i)
  /\ instance[i].status = "COMPLETED" => Shown(i) \cap Pass # {}
  /\ \A st \in stages : instance[i].stage = st.id => ShownAt(i, st, {})

RecordInv ==
  /\ actions \in Seq(ActionRow)
  /\ \A s \in Slots : IsAct(flow[s]) => ActShown(flow[s])
  /\ \A i \in Instances : InstanceShown(i)

\* What every step does to history and plans.
Growth ==
  /\ \A i \in Instances : Shown(i) \subseteq Shown(i)'
  /\ \A i \in Instances : instance[i] # None => plan0'[i] = plan0[i]
  /\ \A st \in stages' : st.id < nextStage => st \in stages

\* An action adds its verb to the history of its instance.
LEMMA AddRow ==
  ASSUME actions \in Seq(ActionRow), NEW row \in ActionRow, actions' = Append(actions, row)
  PROVE  /\ actions' \in Seq(ActionRow)
         /\ \A i \in Instances : Shown(i) \subseteq Shown(i)'
         /\ row.action \in Shown(row.instance)'
<1>1. /\ actions' \in Seq(ActionRow)
      /\ Len(actions') = Len(actions) + 1
      /\ \A k \in 1 .. Len(actions) : actions'[k] = actions[k]
      /\ actions'[Len(actions) + 1] = row
  BY AppendProperties
<1>2. Len(actions) \in Nat /\ DOMAIN actions = 1 .. Len(actions)
      /\ DOMAIN actions' = 1 .. (Len(actions) + 1)
  BY <1>1
<1>3. ASSUME NEW i \in Instances PROVE Shown(i) \subseteq Shown(i)'
  BY <1>1, <1>2 DEF Shown, WorkflowHistory
<1>4. row.action \in Shown(row.instance)'
  BY <1>1, <1>2 DEF Shown, WorkflowHistory
<1> QED BY <1>1, <1>3, <1>4

LEMMA SameRows ==
  ASSUME UNCHANGED actions
  PROVE  \A i : Shown(i)' = Shown(i)
BY DEF Shown, WorkflowHistory

LEMMA GrowthStep ==
  ASSUME StageInv, actions \in Seq(ActionRow), [FlowNext]_flowVars
  PROVE  Growth /\ actions' \in Seq(ActionRow)
<1>1. ASSUME UNCHANGED <<actions, stages, plan0>> PROVE Growth /\ actions' \in Seq(ActionRow)
  BY <1>1, SameRows DEF Growth
<1>2. ASSUME NEW plan \in StagePlans, CreateWorkflow(plan) PROVE Growth /\ actions' \in Seq(ActionRow)
  <2>1. nextStage = 1 /\ stages' = StageRows(plan) /\ nextStage' = nextStage + Len(plan)
        /\ UNCHANGED <<actions, plan0>>
    BY <1>2 DEF CreateWorkflow, flowHistory
  <2>2. stages = {}
    BY <2>1 DEF StageInv, KeysInv, FlowType, Stage
  <2>3. \A st \in stages' : st.id < nextStage => st \in stages
    BY <2>1, <2>2, StagesGrow DEF StageInv
  <2> QED BY <2>1, <2>3, SameRows DEF Growth
<1>3. ASSUME NEW s \in Slots, FillStages(s) PROVE Growth /\ actions' \in Seq(ActionRow)
  <2>1. PICK c \in FlowCall : c = flow[s]
    BY DEF StageInv, FlowType
  <2>2. c.plan \in StagePlans
    BY <1>3, <2>1, CallKinds DEF FillStages, UpdateCall
  <2>3. stages' = stages \cup StageRows(c.plan) /\ nextStage' = nextStage + Len(c.plan)
        /\ UNCHANGED <<actions, plan0>>
    BY <1>3, <2>1 DEF FillStages, flowHistory
  <2>4. \A st \in stages' : st.id < nextStage => st \in stages
    BY <2>2, <2>3, StagesGrow DEF StageInv
  <2> QED BY <2>3, <2>4, SameRows DEF Growth
<1>4. ASSUME NEW s \in Slots, ClearStages(s) PROVE Growth /\ actions' \in Seq(ActionRow)
  <2>1. stages' = {} /\ UNCHANGED <<actions, plan0>>
    BY <1>4 DEF ClearStages, flowHistory
  <2> QED BY <2>1, SameRows DEF Growth
<1>5. ASSUME NEW s \in Slots, InsertInstance(s) PROVE Growth /\ actions' \in Seq(ActionRow)
  <2>1. PICK c \in FlowCall : c = flow[s] /\ FlowCallOK(c)
    BY DEF StageInv, FlowType
  <2>2. instance[c.instance] = None /\ c.instance \in Instances
    BY <1>5, <2>1, CallKinds DEF InsertInstance, FlowCallOK, StartOK, StartCall
  <2>3. UNCHANGED <<actions, stages>>
        /\ (plan0' = [plan0 EXCEPT ![c.instance] = c.read] \/ UNCHANGED plan0)
    BY <1>5, <2>1 DEF InsertInstance
  <2>4. \A i \in Instances : instance[i] # None => plan0'[i] = plan0[i]
    BY <2>2, <2>3 DEF StageInv, FlowType
  <2> QED BY <2>3, <2>4, SameRows DEF Growth
<1>6. ASSUME NEW s \in Slots, RecordAction(s) PROVE Growth /\ actions' \in Seq(ActionRow)
  <2>1. PICK c \in FlowCall : c = flow[s]
    BY DEF StageInv, FlowType
  <2>2. c \in ActCall
    BY <1>6, <2>1, CallKinds DEF RecordAction, IsAct
  <2>3. PICK row : row = [instance |-> c.instance, actor |-> c.user, action |-> c.verb]
    OBVIOUS
  <2>4. row \in ActionRow
    BY <2>2, <2>3 DEF ActCall, ActionRow
  <2>5. actions' = Append(actions, row) /\ UNCHANGED <<stages, plan0>>
    BY <1>6, <2>1, <2>3 DEF RecordAction, flowHistory
  <2> QED BY <2>4, <2>5, AddRow DEF Growth
<1>7. ASSUME NEW s \in Slots, FlowRequest(s) PROVE UNCHANGED <<actions, stages, plan0>>
  BY <1>7 DEF FlowRequest, UpdateWorkflow, StartWorkflowInstance, ExecuteAction, flowHistory
<1>8. ASSUME NEW s \in Slots, Judge(s) \/ MoveInstance(s) \/ FlowDie(s)
      PROVE  UNCHANGED <<actions, stages, plan0>>
  BY <1>8 DEF Judge, MoveInstance, FlowDie
<1>9. CASE UNCHANGED flowVars
  BY <1>1, <1>9 DEF flowVars
<1> QED BY <1>1, <1>2, <1>3, <1>4, <1>5, <1>6, <1>7, <1>8, <1>9 DEF FlowNext, FlowStep

\* What was shown stays shown.
LEMMA StillShownAt ==
  ASSUME Growth, NEW i \in Instances, instance[i] # None, NEW st \in stages', NEW more,
         st.id < nextStage, st \in stages => ShownAt(i, st, more)
  PROVE  ShownAt(i, st, more)'
<1>1. st \in stages
  BY DEF Growth
<1> QED BY <1>1 DEF Growth, ShownAt

LEMMA StillActShown ==
  ASSUME StageInv, Growth, NEW c \in ActCall, ActOK(c), ActShown(c)
  PROVE  ActShown(c)'
<1>1. c.instance \in Instances /\ instance[c.instance] # None /\ c.to < nextStage
  BY DEF ActCall, ActOK
<1>2. ASSUME NEW st \in stages', st.id = c.to PROVE ShownAt(c.instance, st, {c.verb})'
  <2>1. PICK more : more = {c.verb}
    OBVIOUS
  <2>2. ShownAt(c.instance, st, more)'
    BY <1>1, <1>2, <2>1, StillShownAt DEF ActShown
  <2> QED BY <2>1, <2>2 DEF ShownAt
<1> QED BY <1>1, <1>2 DEF ActShown, Growth

LEMMA StillInstanceShown ==
  ASSUME StageInv, Growth, NEW i \in Instances, InstanceShown(i),
         \/ instance'[i] = instance[i]
         \/ instance[i] # None /\ instance'[i].status = instance[i].status /\ stages' = {}
  PROVE  InstanceShown(i)'
<1> SUFFICES ASSUME instance'[i] # None
             PROVE  /\ instance'[i].status = "CANCELLED" => "REJECT" \in Shown(i)'
                    /\ instance'[i].status = "COMPLETED" => Shown(i)' \cap Pass # {}
                    /\ \A st \in stages' : instance'[i].stage = st.id => ShownAt(i, st, {})'
  BY DEF InstanceShown
<1>1. instance[i] # None /\ instance'[i].status = instance[i].status
  OBVIOUS
<1>2. Shown(i) \subseteq Shown(i)'
  BY DEF Growth
<1>3. ASSUME NEW st \in stages', instance'[i].stage = st.id PROVE ShownAt(i, st, {})'
  <2>1. instance'[i] = instance[i] /\ st.id < nextStage
    BY <1>1, <1>3 DEF StageInv, InstanceOK
  <2>2. st \in stages => ShownAt(i, st, {})
    BY <1>1, <1>3, <2>1 DEF InstanceShown
  <2> QED BY <1>1, <2>1, <2>2, StillShownAt
<1> QED BY <1>1, <1>2, <1>3 DEF InstanceShown

\* One call goes on as `q`.
LEMMA ShownStep ==
  ASSUME StageInv, RecordInv, [FlowNext]_flowVars, NEW s \in Slots, NEW q \in FlowCall,
         flow' = [flow EXCEPT ![s] = q],
         IsAct(q) => ActShown(q)',
         \A i \in Instances : InstanceShown(i)'
  PROVE  RecordInv'
<1>1. Growth /\ actions' \in Seq(ActionRow)
  BY GrowthStep DEF RecordInv
<1>2. ASSUME NEW t \in Slots, IsAct(flow[t])' PROVE ActShown(flow[t])'
  <2>1. CASE t = s
    <3>1. flow'[t] = q
      BY <2>1 DEF StageInv, FlowType
    <3>2. ActShown(q)'
      BY <1>2, <3>1 DEF IsAct
    <3> QED BY <3>1, <3>2 DEF ActShown, ShownAt, Shown, WorkflowHistory
  <2>2. CASE t # s
    <3>1. PICK d \in FlowCall : d = flow[t] /\ FlowCallOK(d) /\ flow'[t] = d
      BY <2>2 DEF StageInv, FlowType
    <3>2. d \in ActCall /\ ActOK(d) /\ ActShown(d)
      BY <1>2, <3>1, CallKinds DEF FlowCallOK, RecordInv, IsAct
    <3>3. ActShown(d)'
      BY <1>1, <3>2, StillActShown
    <3> QED BY <3>1, <3>3 DEF ActShown, ShownAt, Shown, WorkflowHistory
  <2> QED BY <2>1, <2>2
<1>3. \A t \in Slots : (IsAct(flow[t]) => ActShown(flow[t]))'
  BY <1>2
<1> QED BY <1>1, <1>3 DEF RecordInv

LEMMA SameInstances ==
  ASSUME StageInv, RecordInv, [FlowNext]_flowVars, UNCHANGED instance
  PROVE  \A i \in Instances : InstanceShown(i)'
BY GrowthStep, StillInstanceShown DEF RecordInv

LEMMA ExecuteShown ==
  ASSUME StageInv, RecordInv, NEW s \in Slots, NEW u \in Users, NEW i \in Instances,
         NEW verb \in Verbs, ExecuteAction(s, u, i, verb), [FlowNext]_flowVars, StageInv'
  PROVE  RecordInv'
<1>1. PICK st \in stages :
        /\ instance[i] # None /\ instance[i].stage = st.id
        /\ \E out \in Outcomes(verb, st) : Begin(flow, flowLeft, s,
             [pc |-> IF out[1] = 0 THEN "judge" ELSE "record", user |-> u, instance |-> i,
              verb |-> verb, from |-> st, to |-> out[1], status |-> out[2]])
  BY DEF ExecuteAction
<1>2. PICK out \in Outcomes(verb, st) :
        flow' = [flow EXCEPT ![s] =
             [pc |-> IF out[1] = 0 THEN "judge" ELSE "record", user |-> u, instance |-> i,
              verb |-> verb, from |-> st, to |-> out[1], status |-> out[2]]]
  BY <1>1 DEF Begin
<1>3. PICK q : q = [pc |-> IF out[1] = 0 THEN "judge" ELSE "record", user |-> u, instance |-> i,
              verb |-> verb, from |-> st, to |-> out[1], status |-> out[2]]
  OBVIOUS
<1>4. /\ q.pc \in {"judge", "record"} /\ q.instance = i /\ q.verb = verb
      /\ q.to = out[1] /\ q.status = out[2]
  BY <1>3
<1>5. UNCHANGED <<stages, instance, actions, plan0>>
  BY DEF ExecuteAction
<1>6. q = flow'[s] /\ q \in FlowCall
  BY <1>2, <1>3 DEF StageInv, FlowType
<1>7. ShownAt(i, st, {})
  BY <1>1 DEF RecordInv, InstanceShown
<1>8. \A t \in stages : /\ t.id \in Nat \ {0} /\ t.index \in Nat
                        /\ \A x \in stages : x.id = t.id => x = t
  BY DEF StageInv, FlowType, KeysInv, Stage
<1>9. plan0[i] \in SUBSET Stage
  BY DEF StageInv, FlowType
<1>10. /\ out[2] = "CANCELLED" => verb = "REJECT"
       /\ out[2] = "COMPLETED" => verb \in Pass
       /\ \A t \in stages : t.id = out[1] => verb \in Pass \/ t.index <= st.index
  BY <1>8 DEF Outcomes, Verbs, Pass, PreviousStages, EarlierStages
<1>11. \A t \in stages : t.id = out[1] => ShownAt(i, t, {verb})
  <2> SUFFICES ASSUME NEW t \in stages, t.id = out[1], NEW x \in plan0[i], x.index < t.index
               PROVE  (Shown(i) \cup {verb}) \cap Pass # {}
    BY DEF ShownAt
  <2>1. x.index \in Nat /\ t.index \in Nat /\ st.index \in Nat
    BY <1>8, <1>9 DEF Stage
  <2> QED BY <1>7, <1>10, <2>1 DEF ShownAt
<1>12. ActShown(q)
  BY <1>4, <1>10, <1>11 DEF ActShown
<1>13. ActShown(q)'
  BY <1>5, <1>12, SameRows DEF ActShown, ShownAt
<1> QED BY <1>2, <1>3, <1>5, <1>6, <1>13, SameInstances, ShownStep

LEMMA NextShown == StageInv /\ StageInv' /\ RecordInv /\ [FlowNext]_flowVars => RecordInv'
<1> SUFFICES ASSUME StageInv, StageInv', RecordInv, [FlowNext]_flowVars PROVE RecordInv'
  OBVIOUS
<1>0. Growth /\ actions' \in Seq(ActionRow)
  BY GrowthStep DEF RecordInv
<1>1. ASSUME NEW s \in Slots, NEW q, flow' = [flow EXCEPT ![s] = q], ~ IsAct(q),
             UNCHANGED instance
      PROVE  RecordInv'
  <2>1. q \in FlowCall
    BY <1>1 DEF StageInv, FlowType
  <2> QED BY <1>1, <2>1, SameInstances, ShownStep
<1>2. ASSUME NEW plan \in StagePlans, CreateWorkflow(plan) PROVE RecordInv'
  <2>1. UNCHANGED <<instance, flow>>
    BY <1>2 DEF CreateWorkflow
  <2>2. ASSUME NEW t \in Slots, IsAct(flow[t]) PROVE ActShown(flow[t])'
    <3>1. PICK d \in FlowCall : d = flow[t] /\ FlowCallOK(d) /\ flow'[t] = d
      BY <2>1 DEF StageInv, FlowType
    <3>2. d \in ActCall /\ ActOK(d) /\ ActShown(d)
      BY <2>2, <3>1, CallKinds DEF FlowCallOK, RecordInv
    <3>3. ActShown(d)'
      BY <1>0, <3>2, StillActShown
    <3> QED BY <3>1, <3>3 DEF ActShown, ShownAt, Shown, WorkflowHistory
  <2> QED BY <1>0, <2>1, <2>2, SameInstances DEF RecordInv, IsAct
<1>3. ASSUME NEW s \in Slots, FlowRequest(s) PROVE RecordInv'
  <2>1. ASSUME NEW plan \in StagePlans, UpdateWorkflow(s, plan) PROVE RecordInv'
    <3>1. UNCHANGED instance
          /\ flow' = [flow EXCEPT ![s] = [pc |-> "clear", user |-> None, plan |-> plan]]
      BY <2>1 DEF UpdateWorkflow, Begin
    <3> QED BY <1>1, <3>1 DEF IsAct
  <2>2. ASSUME NEW i \in Instances, StartWorkflowInstance(s, i) PROVE RecordInv'
    <3>1. PICK first : UNCHANGED instance
          /\ flow' = [flow EXCEPT ![s] = [pc |-> "start", user |-> None, instance |-> i,
                                          first |-> first.id, read |-> stages]]
      BY <2>2 DEF StartWorkflowInstance, Begin
    <3> QED BY <1>1, <3>1 DEF IsAct
  <2> QED BY <1>3, <2>1, <2>2, ExecuteShown DEF FlowRequest
<1>4. ASSUME NEW s \in Slots, FillStages(s) \/ FlowDie(s) PROVE RecordInv'
  <2>1. UNCHANGED instance /\ flow' = [flow EXCEPT ![s] = Idle]
    BY <1>4 DEF FillStages, FlowDie, Die, Goto
  <2> QED BY <1>1, <2>1 DEF IsAct, Idle
<1>5. ASSUME NEW s \in Slots, ClearStages(s) PROVE RecordInv'
  <2>1. PICK c \in FlowCall : c = flow[s]
    BY DEF StageInv, FlowType
  <2>2. c \in UpdateCall
    BY <1>5, <2>1, CallKinds DEF ClearStages
  <2>3. PICK q : q = [c EXCEPT !.pc = "fill"]
    OBVIOUS
  <2>4. flow' = [flow EXCEPT ![s] = q] /\ stages' = {}
    BY <1>5, <2>1, <2>3 DEF ClearStages, Goto
  <2>5. q \in FlowCall /\ q.pc = "fill"
    BY <2>2, <2>3 DEF FlowCall, UpdateCall
  <2>6. ASSUME NEW i \in Instances PROVE InstanceShown(i)'
    <3>1. CASE instance[i] = None
      <4>1. instance'[i] = instance[i]
        BY <1>5, <3>1 DEF ClearStages
      <4> QED BY <1>0, <4>1, StillInstanceShown DEF RecordInv
    <3>2. CASE instance[i] # None
      <4>1. instance'[i] = [instance[i] EXCEPT !.stage = 0] /\ instance[i] \in InstanceRow
        BY <1>5, <3>2 DEF ClearStages, StageInv, FlowType
      <4>2. instance'[i].status = instance[i].status
        BY <4>1 DEF InstanceRow
      <4> QED BY <1>0, <2>4, <3>2, <4>2, StillInstanceShown DEF RecordInv
    <3> QED BY <3>1, <3>2
  <2> QED BY <2>4, <2>5, <2>6, ShownStep DEF IsAct
<1>6. ASSUME NEW s \in Slots, InsertInstance(s) PROVE RecordInv'
  <2>1. PICK c \in FlowCall : c = flow[s] /\ FlowCallOK(c)
    BY DEF StageInv, FlowType
  <2>2. c.pc = "start" /\ c \in StartCall /\ StartOK(c) /\ c.instance \in Instances
    BY <1>6, <2>1, CallKinds DEF InsertInstance, FlowCallOK, StartCall
  <2>3. flow' = [flow EXCEPT ![s] = Idle] /\ Idle \in FlowCall /\ ~ IsAct(Idle) /\ UNCHANGED stages
    BY <1>6 DEF InsertInstance, Goto, IsAct, Idle, FlowCall
  <2>4. ASSUME NEW i \in Instances PROVE InstanceShown(i)'
    <3>1. CASE instance'[i] = instance[i]
      BY <1>0, <3>1, StillInstanceShown DEF RecordInv
    <3>2. CASE instance'[i] # instance[i]
      <4>1. i = c.instance /\ instance'[i] = [stage |-> c.first, status |-> "IN_PROGRESS"]
            /\ plan0'[i] = c.read
        BY <1>6, <2>1, <2>2, <3>2 DEF InsertInstance, StageInv, FlowType
      <4>2. instance'[i].stage = c.first /\ instance'[i].status = "IN_PROGRESS"
        BY <4>1
      <4>3. \A st \in stages : st.id = c.first => \A x \in c.read : ~ (x.index < st.index)
        <5>1. \A st \in stages : st.id = c.first => \A x \in c.read : st.index <= x.index
          BY <2>2 DEF StartOK
        <5>2. \A st \in stages : st.index \in Nat
          BY DEF StageInv, FlowType, Stage
        <5>3. \A x \in c.read : x.index \in Nat
          BY <2>2 DEF StartCall, Stage
        <5> QED BY <5>1, <5>2, <5>3
      <4> QED BY <2>3, <4>1, <4>2, <4>3 DEF InstanceShown, ShownAt
    <3> QED BY <3>1, <3>2
  <2> QED BY <2>3, <2>4, ShownStep
<1>7. ASSUME NEW s \in Slots, Judge(s) PROVE RecordInv'
  <2>1. PICK c \in FlowCall : c = flow[s] /\ FlowCallOK(c)
    BY DEF StageInv, FlowType
  <2>2. c \in ActCall /\ ActOK(c) /\ ActShown(c)
    BY <1>7, <2>1, CallKinds DEF Judge, FlowCallOK, IsAct, RecordInv
  <2>3. PICK q : q = [c EXCEPT !.pc = "record"]
    OBVIOUS
  <2>4. flow' = [flow EXCEPT ![s] = q] /\ UNCHANGED instance
    BY <1>7, <2>1, <2>3 DEF Judge, Goto
  <2>5. /\ q \in FlowCall /\ q.pc = "record" /\ q.instance = c.instance /\ q.verb = c.verb
        /\ q.to = c.to /\ q.status = c.status
    BY <2>2, <2>3 DEF FlowCall, ActCall
  <2>6. ActShown(c)'
    BY <1>0, <2>2, StillActShown
  <2>7. ActShown(q)'
    BY <2>5, <2>6 DEF ActShown
  <2> QED BY <2>4, <2>5, <2>7, SameInstances, ShownStep
<1>8. ASSUME NEW s \in Slots, RecordAction(s) PROVE RecordInv'
  <2>1. PICK c \in FlowCall : c = flow[s] /\ FlowCallOK(c)
    BY DEF StageInv, FlowType
  <2>2. c \in ActCall /\ ActOK(c) /\ ActShown(c)
    BY <1>8, <2>1, CallKinds DEF RecordAction, FlowCallOK, IsAct, RecordInv
  <2>3. PICK q : q = [c EXCEPT !.pc = "move"]
    OBVIOUS
  <2>4. flow' = [flow EXCEPT ![s] = q] /\ UNCHANGED instance
    BY <1>8, <2>1, <2>3 DEF RecordAction, Goto
  <2>5. /\ q \in FlowCall /\ q.pc = "move" /\ q.instance = c.instance /\ q.verb = c.verb
        /\ q.to = c.to /\ q.status = c.status
    BY <2>2, <2>3 DEF FlowCall, ActCall
  <2>6. ActShown(c)'
    BY <1>0, <2>2, StillActShown
  <2>7. PICK row : row = [instance |-> c.instance, actor |-> c.user, action |-> c.verb]
    OBVIOUS
  <2>8. row \in ActionRow /\ row.instance = c.instance /\ row.action = c.verb
    BY <2>2, <2>7 DEF ActCall, ActionRow
  <2>9. actions' = Append(actions, row) /\ actions \in Seq(ActionRow)
    BY <1>8, <2>1, <2>7 DEF RecordAction, RecordInv
  <2>10. c.verb \in Shown(c.instance)'
    BY <2>8, <2>9, AddRow
  <2>11. ActShown(q)'
    BY <2>5, <2>6, <2>10 DEF ActShown
  <2> QED BY <2>4, <2>5, <2>11, SameInstances, ShownStep
<1>9. ASSUME NEW s \in Slots, MoveInstance(s) PROVE RecordInv'
  <2>1. PICK c \in FlowCall : c = flow[s] /\ FlowCallOK(c)
    BY DEF StageInv, FlowType
  <2>2. c.pc = "move" /\ c \in ActCall /\ ActOK(c) /\ ActShown(c)
    BY <1>9, <2>1, CallKinds DEF MoveInstance, FlowCallOK, IsAct, RecordInv
  <2>3. flow' = [flow EXCEPT ![s] = Idle] /\ Idle \in FlowCall /\ ~ IsAct(Idle)
        /\ UNCHANGED <<stages, actions, plan0>>
    BY <1>9 DEF MoveInstance, Goto, IsAct, Idle, FlowCall
  <2>4. ASSUME NEW i \in Instances PROVE InstanceShown(i)'
    <3>1. CASE instance'[i] = instance[i]
      BY <1>0, <3>1, StillInstanceShown DEF RecordInv
    <3>2. CASE instance'[i] # instance[i]
      <4>1. i = c.instance /\ instance'[i] = [stage |-> c.to, status |-> c.status]
        BY <1>9, <2>1, <3>2 DEF MoveInstance, StageInv, FlowType
      <4>2. instance'[i].stage = c.to /\ instance'[i].status = c.status
        BY <4>1
      <4>3. c.verb \in Shown(i)
        BY <2>2, <4>1 DEF ActShown
      <4>4. \A st \in stages : st.id = c.to => ShownAt(i, st, {})
        BY <2>2, <4>1, <4>3 DEF ActShown, ShownAt
      <4>5. InstanceShown(i)' <=> (instance'[i] # None =>
              /\ instance'[i].status = "CANCELLED" => "REJECT" \in Shown(i)
              /\ instance'[i].status = "COMPLETED" => Shown(i) \cap Pass # {}
              /\ \A st \in stages : instance'[i].stage = st.id => ShownAt(i, st, {}))
        BY <2>3, SameRows DEF InstanceShown, ShownAt
      <4> QED BY <2>2, <4>1, <4>2, <4>3, <4>4, <4>5 DEF ActShown
    <3> QED BY <3>1, <3>2
  <2> QED BY <2>3, <2>4, ShownStep
<1>10. CASE UNCHANGED flowVars
  BY <1>10 DEF flowVars, RecordInv, IsAct, ActShown, InstanceShown, ShownAt, Shown, WorkflowHistory
<1> QED BY <1>2, <1>3, <1>4, <1>5, <1>6, <1>7, <1>8, <1>9, <1>10 DEF FlowNext, FlowStep

LEMMA InitShown == FlowInit => RecordInv
<1> SUFFICES ASSUME FlowInit PROVE RecordInv
  OBVIOUS
<1>1. \A s \in Slots : ~ IsAct(flow[s])
  BY DEF FlowInit, IsAct, Idle
<1>2. \A i \in Instances : InstanceShown(i)
  BY DEF FlowInit, InstanceShown
<1> QED BY <1>1, <1>2 DEF RecordInv, FlowInit

\* An instance moves only after its history shows the action that moved it, however
\* many approvers act at the same time and whatever becomes of the stages.
THEOREM HistoryTellsMoves == FlowSpec => []MovesAreRecorded
<1>1. RecordInv => MovesAreRecorded
  BY DEF RecordInv, InstanceShown, MovesAreRecorded, ShownAt, Shown, Pass
<1>2. StageInv /\ StageInv' /\ RecordInv /\ [FlowNext]_flowVars => RecordInv'
  BY NextShown
<1> QED BY <1>1, <1>2, FlowInitInv, FlowStepInv, InitShown, PTL DEF FlowSpec

-----------------------------------------------------------------------------
(***************************************************************************)
(* The verdict.  It comes before the move, so an instance and its          *)
(* registration differ while an action is between the two.                 *)
(***************************************************************************)
Told(status) == CASE status = "IN_PROGRESS" -> "PENDING"
                  [] status = "COMPLETED" -> "APPROVED"
                  [] status = "CANCELLED" -> "REJECTED"

\* An action that leads to a stage leaves the instance in progress; only one
\* that leads to none judges.
Leads(c) == /\ c.to = 0 <=> c.status # "IN_PROGRESS"
            /\ c.pc = "judge" => c.to = 0

Acts(s, i) == IsAct(flow[s]) /\ flow[s].instance = i

\* An instance that nobody has contested: its only action knows it in progress,
\* and has told its registration what it is about to tell the instance.
Settled(i) ==
  /\ \A s, t \in Slots : Acts(s, i) /\ Acts(t, i) => s = t
  /\ \A s \in Slots : Acts(s, i) =>
       /\ instance[i].status = "IN_PROGRESS"
       /\ verdict[i] = IF flow[s].pc = "judge" THEN "PENDING" ELSE Told(flow[s].status)
  /\ instance[i] # None /\ (\A s \in Slots : ~ Acts(s, i)) => verdict[i] = Told(instance[i].status)

VerdictInv ==
  /\ contested \subseteq Instances
  /\ \A s \in Slots : IsAct(flow[s]) => Leads(flow[s])
  /\ \A i \in Instances \ contested : Settled(i)

\* The calls that are about an instance, and the actions among them.
LEMMA CallFields ==
  ASSUME NEW c \in FlowCall
  PROVE  /\ "verb" \in DOMAIN c <=> IsAct(c)
         /\ IsAct(c) => "instance" \in DOMAIN c /\ c.instance \in Instances
         /\ "instance" \in DOMAIN c => c.instance \in Instances
<1>1. CASE c = Idle
  BY <1>1 DEF Idle, IsAct
<1>2. CASE c \in ActCall
  BY <1>2 DEF ActCall, IsAct
<1>3. CASE c \in UpdateCall
  BY <1>3 DEF UpdateCall, IsAct
<1>4. CASE c \in StartCall
  BY <1>4 DEF StartCall, IsAct
<1> QED BY <1>1, <1>2, <1>3, <1>4 DEF FlowCall

\* A call that is no action is replaced by one that is none.
LEMMA NoActStep ==
  ASSUME StageInv, VerdictInv, contested' \subseteq Instances, contested \subseteq contested',
         NEW s \in Slots, NEW q, flow' = [flow EXCEPT ![s] = q], ~ IsAct(q),
         IsAct(flow[s]) => flow[s].instance \in contested',
         UNCHANGED verdict,
         \A i \in Instances : instance[i] # None =>
           instance'[i] # None /\ instance'[i].status = instance[i].status,
         \A i \in Instances : instance[i] = None /\ instance'[i] # None =>
           instance'[i].status = "IN_PROGRESS"
  PROVE  VerdictInv'
<1>1. \A t \in Slots : flow'[t] = IF t = s THEN q ELSE flow[t]
  BY DEF StageInv, FlowType
<1>2. \A t \in Slots : (IsAct(flow[t]) => Leads(flow[t]))'
  BY <1>1 DEF VerdictInv, IsAct, Leads
<1>3. ASSUME NEW i \in Instances \ contested' PROVE Settled(i)'
  <2>1. Settled(i)
    BY <1>3 DEF VerdictInv
  <2>2. \A t \in Slots : Acts(t, i)' <=> Acts(t, i)
    BY <1>1, <1>3 DEF Acts, IsAct
  <2>3. \A t \in Slots : Acts(t, i) => flow'[t] = flow[t] /\ instance[i] # None
    <3> SUFFICES ASSUME NEW t \in Slots, Acts(t, i) PROVE flow'[t] = flow[t] /\ instance[i] # None
      OBVIOUS
    <3>1. t # s
      BY <1>3 DEF Acts
    <3>2. FlowCallOK(flow[t])
      BY DEF StageInv
    <3> QED BY <1>1, <3>1, <3>2 DEF Acts, FlowCallOK, ActOK
  <2>4. CASE instance[i] = None
    <3>1. verdict[i] = "PENDING" /\ \A t \in Slots : ~ Acts(t, i)
      BY <2>3, <2>4 DEF StageInv
    <3>2. instance'[i] # None => verdict'[i] = Told(instance'[i].status)
      BY <2>4, <3>1 DEF Told
    <3> QED BY <2>2, <3>1, <3>2 DEF Settled
  <2>5. CASE instance[i] # None
    <3>1. instance'[i].status = instance[i].status /\ verdict'[i] = verdict[i]
      BY <2>5
    <3>2. \A t, u \in Slots : Acts(t, i)' /\ Acts(u, i)' => t = u
      BY <2>1, <2>2 DEF Settled
    <3>3. \A t \in Slots : Acts(t, i)' =>
            /\ instance'[i].status = "IN_PROGRESS"
            /\ verdict'[i] = IF flow'[t].pc = "judge" THEN "PENDING" ELSE Told(flow'[t].status)
      BY <2>1, <2>2, <2>3, <3>1 DEF Settled
    <3>4. (\A t \in Slots : ~ Acts(t, i)') => verdict'[i] = Told(instance'[i].status)
      BY <2>1, <2>2, <2>5, <3>1 DEF Settled
    <3> QED BY <3>2, <3>3, <3>4 DEF Settled
  <2> QED BY <2>4, <2>5
<1> QED BY <1>2, <1>3 DEF VerdictInv

\* An action of a call goes on with `q`: what it says of its instance is enough.
LEMMA ActStep ==
  ASSUME StageInv, VerdictInv, UNCHANGED contested, NEW s \in Slots, NEW q \in FlowCall,
         flow' = [flow EXCEPT ![s] = q], IsAct(flow[s]), IsAct(q), Leads(q),
         NEW i \in Instances, flow[s].instance = i, q.instance = i,
         UNCHANGED instance, \A j \in Instances \ {i} : verdict'[j] = verdict[j],
         i \notin contested => verdict'[i] = IF q.pc = "judge" THEN "PENDING" ELSE Told(q.status)
  PROVE  VerdictInv'
<1>1. \A t \in Slots : flow'[t] = IF t = s THEN q ELSE flow[t]
  BY DEF StageInv, FlowType
<1>2. \A t \in Slots : (IsAct(flow[t]) => Leads(flow[t]))'
  BY <1>1 DEF VerdictInv, IsAct, Leads
<1>3. \A t \in Slots, j \in Instances : Acts(t, j)' <=> Acts(t, j)
  BY <1>1 DEF Acts, IsAct
<1>4. ASSUME NEW j \in Instances \ contested' PROVE Settled(j)'
  <2>1. Settled(j)
    BY <1>4 DEF VerdictInv
  <2>2. \A t, u \in Slots : Acts(t, j)' /\ Acts(u, j)' => t = u
    BY <1>3, <2>1 DEF Settled
  <2>3. CASE j = i
    <3>1. Acts(s, i)
      BY DEF Acts
    <3>2. \A t \in Slots : Acts(t, i) => t = s
      BY <2>1, <2>3, <3>1 DEF Settled
    <3>3. instance'[i].status = "IN_PROGRESS"
      BY <2>1, <2>3, <3>1 DEF Settled
    <3> QED BY <1>1, <1>3, <1>4, <2>2, <2>3, <3>1, <3>2, <3>3 DEF Settled
  <2>4. CASE j # i
    <3>1. \A t \in Slots : Acts(t, j) => flow'[t] = flow[t]
      BY <1>1, <2>4 DEF Acts
    <3>2. verdict'[j] = verdict[j] /\ instance'[j] = instance[j]
      BY <2>4
    <3>3. \A t \in Slots : Acts(t, j)' =>
            /\ instance'[j].status = "IN_PROGRESS"
            /\ verdict'[j] = IF flow'[t].pc = "judge" THEN "PENDING" ELSE Told(flow'[t].status)
      BY <1>3, <2>1, <3>1, <3>2 DEF Settled
    <3>4. instance'[j] # None /\ (\A t \in Slots : ~ Acts(t, j)') =>
            verdict'[j] = Told(instance'[j].status)
      BY <1>3, <2>1, <3>2 DEF Settled
    <3> QED BY <2>2, <3>3, <3>4 DEF Settled
  <2> QED BY <2>3, <2>4
<1> QED BY <1>2, <1>4 DEF VerdictInv

\* A new action: on an instance that has one already it makes it contested.
LEMMA ExecuteVerdict ==
  ASSUME StageInv, VerdictInv, NEW s \in Slots, NEW u \in Users, NEW i \in Instances,
         NEW verb \in Verbs, ExecuteAction(s, u, i, verb), StageInv'
  PROVE  VerdictInv'
<1>1. PICK st \in stages :
        /\ instance[i] # None /\ instance[i].stage = st.id /\ instance[i].status = "IN_PROGRESS"
        /\ \E out \in Outcomes(verb, st) : Begin(flow, flowLeft, s,
             [pc |-> IF out[1] = 0 THEN "judge" ELSE "record", user |-> u, instance |-> i,
              verb |-> verb, from |-> st, to |-> out[1], status |-> out[2]])
  BY DEF ExecuteAction
<1>2. PICK out \in Outcomes(verb, st) :
        /\ flow[s] = Idle
        /\ flow' = [flow EXCEPT ![s] =
             [pc |-> IF out[1] = 0 THEN "judge" ELSE "record", user |-> u, instance |-> i,
              verb |-> verb, from |-> st, to |-> out[1], status |-> out[2]]]
  BY <1>1 DEF Begin, Free
<1>3. PICK q : q = [pc |-> IF out[1] = 0 THEN "judge" ELSE "record", user |-> u, instance |-> i,
              verb |-> verb, from |-> st, to |-> out[1], status |-> out[2]]
  OBVIOUS
<1>4. /\ q.pc = (IF out[1] = 0 THEN "judge" ELSE "record") /\ q.instance = i
      /\ q.to = out[1] /\ q.status = out[2]
  BY <1>3
<1>5. UNCHANGED <<instance, verdict>> /\ contested' = contested \cup
       ({i} \cap {flow[t].instance : t \in {x \in Slots : "verb" \in DOMAIN flow[x]}})
  BY DEF ExecuteAction
<1>6. \A t \in Slots : flow'[t] = IF t = s THEN q ELSE flow[t]
  BY <1>2, <1>3 DEF StageInv, FlowType
<1>7. \A t \in stages : t.id # 0
  BY DEF StageInv, FlowType, Stage
<1>8. Leads(q)
  <2>1. out[1] = 0 <=> out[2] # "IN_PROGRESS"
    BY <1>7 DEF Outcomes, Verbs, NextStages, LaterStages, PreviousStages, EarlierStages
  <2> QED BY <1>4, <2>1 DEF Leads
<1>9. ~ IsAct(flow[s]) /\ IsAct(q)
  BY <1>2, <1>4 DEF IsAct, Idle
<1>10. \A t \in Slots : (IsAct(flow[t]) => Leads(flow[t]))'
  BY <1>6, <1>8 DEF VerdictInv, IsAct, Leads
<1>11. ASSUME NEW j \in Instances \ contested' PROVE Settled(j)'
  <2>1. Settled(j) /\ j \notin contested
    BY <1>5, <1>11 DEF VerdictInv
  <2>2. CASE j = i
    <3>1. \A t \in Slots : ~ Acts(t, i)
      <4> SUFFICES ASSUME NEW t \in Slots, Acts(t, i) PROVE FALSE
        OBVIOUS
      <4>1. "verb" \in DOMAIN flow[t]
        BY CallFields DEF Acts, StageInv, FlowType
      <4> QED BY <1>5, <1>11, <2>2, <4>1 DEF Acts
    <3>2. verdict[i] = "PENDING" /\ instance'[i].status = "IN_PROGRESS"
      BY <1>1, <1>5, <2>1, <2>2, <3>1 DEF Settled, Told
    <3>3. \A t \in Slots : Acts(t, i)' => t = s
      BY <1>6, <3>1 DEF Acts, IsAct
    <3>4. Acts(s, i)' /\ flow'[s] = q
      BY <1>4, <1>6, <1>9 DEF Acts, IsAct
    <3>5. verdict'[i] = IF q.pc = "judge" THEN "PENDING" ELSE Told(q.status)
      BY <1>4, <1>5, <1>8, <3>2 DEF Leads, Told
    <3> QED BY <2>2, <3>2, <3>3, <3>4, <3>5 DEF Settled
  <2>3. CASE j # i
    <3>1. \A t \in Slots : Acts(t, j)' <=> Acts(t, j)
      BY <1>4, <1>6, <1>9, <2>3 DEF Acts, IsAct
    <3>2. \A t \in Slots : Acts(t, j) => flow'[t] = flow[t]
      BY <1>6, <1>9 DEF Acts
    <3>3. \A t \in Slots : Acts(t, j)' =>
            /\ instance'[j].status = "IN_PROGRESS"
            /\ verdict'[j] = IF flow'[t].pc = "judge" THEN "PENDING" ELSE Told(flow'[t].status)
      BY <1>5, <2>1, <3>1, <3>2 DEF Settled
    <3>4. instance'[j] # None /\ (\A t \in Slots : ~ Acts(t, j)') =>
            verdict'[j] = Told(instance'[j].status)
      BY <1>5, <2>1, <3>1 DEF Settled
    <3>5. \A t, x \in Slots : Acts(t, j)' /\ Acts(x, j)' => t = x
      BY <2>1, <3>1 DEF Settled
    <3> QED BY <3>3, <3>4, <3>5 DEF Settled
  <2> QED BY <2>2, <2>3
<1>12. contested' \subseteq Instances
  BY <1>5 DEF VerdictInv
<1> QED BY <1>10, <1>11, <1>12 DEF VerdictInv

LEMMA MoveVerdict ==
  ASSUME StageInv, VerdictInv, NEW s \in Slots, MoveInstance(s)
  PROVE  VerdictInv'
<1>1. PICK c \in FlowCall : c = flow[s] /\ FlowCallOK(c)
  BY DEF StageInv, FlowType
<1>2. c.pc = "move" /\ c \in ActCall /\ ActOK(c) /\ Leads(c) /\ IsAct(c)
  BY <1>1, CallKinds DEF MoveInstance, FlowCallOK, IsAct, VerdictInv
<1>3. PICK i \in Instances : i = c.instance /\ instance[i] # None
  BY <1>2 DEF ActCall, ActOK
<1>4. flow' = [flow EXCEPT ![s] = Idle] /\ UNCHANGED <<verdict, contested>>
  BY DEF MoveInstance, Goto
<1>5. \A t \in Slots : flow'[t] = IF t = s THEN Idle ELSE flow[t]
  BY <1>4 DEF StageInv, FlowType
<1>6. ~ IsAct(Idle)
  BY DEF IsAct, Idle
<1>7. /\ \A j \in Instances \ {i} : instance'[j] = instance[j]
      /\ \/ instance'[i] = [stage |-> c.to, status |-> c.status]
         \/ c.to # 0 /\ instance'[i] = instance[i]
  BY <1>1, <1>3 DEF MoveInstance, StageInv, FlowType
<1>8. \A t \in Slots : (IsAct(flow[t]) => Leads(flow[t]))'
  BY <1>5, <1>6 DEF VerdictInv, IsAct, Leads
<1>9. ASSUME NEW j \in Instances \ contested' PROVE Settled(j)'
  <2>1. Settled(j)
    BY <1>4, <1>9 DEF VerdictInv
  <2>2. CASE j = i
    <3>1. Acts(s, i)
      BY <1>1, <1>2, <1>3 DEF Acts
    <3>2. \A t \in Slots : ~ Acts(t, i)'
      BY <1>5, <1>6, <2>1, <2>2, <3>1 DEF Settled, Acts, IsAct
    <3>3. verdict[i] = Told(c.status) /\ instance[i].status = "IN_PROGRESS"
      BY <1>1, <1>2, <2>1, <2>2, <3>1 DEF Settled
    <3>4. instance'[i].status = c.status
      BY <1>2, <1>7, <3>3 DEF Leads
    <3> QED BY <1>4, <2>2, <3>2, <3>3, <3>4 DEF Settled
  <2>3. CASE j # i
    <3>1. \A t \in Slots : Acts(t, j)' <=> Acts(t, j)
      BY <1>1, <1>3, <1>5, <1>6, <2>3 DEF Acts, IsAct
    <3>2. \A t \in Slots : Acts(t, j) => flow'[t] = flow[t]
      BY <1>1, <1>3, <1>5, <2>3 DEF Acts
    <3>3. verdict'[j] = verdict[j] /\ instance'[j] = instance[j]
      BY <1>4, <1>7, <2>3
    <3>4. \A t \in Slots : Acts(t, j)' =>
            /\ instance'[j].status = "IN_PROGRESS"
            /\ verdict'[j] = IF flow'[t].pc = "judge" THEN "PENDING" ELSE Told(flow'[t].status)
      BY <2>1, <3>1, <3>2, <3>3 DEF Settled
    <3>5. instance'[j] # None /\ (\A t \in Slots : ~ Acts(t, j)') =>
            verdict'[j] = Told(instance'[j].status)
      BY <2>1, <3>1, <3>3 DEF Settled
    <3>6. \A t, x \in Slots : Acts(t, j)' /\ Acts(x, j)' => t = x
      BY <2>1, <3>1 DEF Settled
    <3> QED BY <3>4, <3>5, <3>6 DEF Settled
  <2> QED BY <2>2, <2>3
<1> QED BY <1>4, <1>8, <1>9 DEF VerdictInv

LEMMA NextVerdict == StageInv /\ StageInv' /\ VerdictInv /\ [FlowNext]_flowVars => VerdictInv'
<1> SUFFICES ASSUME StageInv, StageInv', VerdictInv, [FlowNext]_flowVars PROVE VerdictInv'
  OBVIOUS
<1>1. ASSUME NEW s \in Slots, NEW q, flow' = [flow EXCEPT ![s] = q], ~ IsAct(q), ~ IsAct(flow[s]),
             UNCHANGED <<instance, verdict, contested>>
      PROVE  VerdictInv'
  <2>1. contested' \subseteq Instances
    BY <1>1 DEF VerdictInv
  <2> QED BY <1>1, <2>1, NoActStep
<1>2. ASSUME NEW plan \in StagePlans, CreateWorkflow(plan) PROVE VerdictInv'
  BY <1>2 DEF CreateWorkflow, flowHistory, VerdictInv, Settled, Acts, IsAct, Leads
<1>3. ASSUME NEW s \in Slots, FlowRequest(s) PROVE VerdictInv'
  <2>0. flow[s] = Idle /\ ~ IsAct(flow[s])
    BY <1>3 DEF FlowRequest, Free, IsAct, Idle
  <2>1. ASSUME NEW plan \in StagePlans, UpdateWorkflow(s, plan) PROVE VerdictInv'
    <3>1. UNCHANGED <<instance, verdict, contested>>
          /\ flow' = [flow EXCEPT ![s] = [pc |-> "clear", user |-> None, plan |-> plan]]
      BY <2>1 DEF UpdateWorkflow, Begin, flowHistory
    <3> QED BY <1>1, <2>0, <3>1 DEF IsAct
  <2>2. ASSUME NEW i \in Instances, StartWorkflowInstance(s, i) PROVE VerdictInv'
    <3>1. PICK first : UNCHANGED <<instance, verdict, contested>>
          /\ flow' = [flow EXCEPT ![s] = [pc |-> "start", user |-> None, instance |-> i,
                                          first |-> first.id, read |-> stages]]
      BY <2>2 DEF StartWorkflowInstance, Begin, flowHistory
    <3> QED BY <1>1, <2>0, <3>1 DEF IsAct
  <2> QED BY <1>3, <2>1, <2>2, ExecuteVerdict DEF FlowRequest
<1>4. ASSUME NEW s \in Slots, FillStages(s) PROVE VerdictInv'
  <2>1. UNCHANGED <<instance, verdict, contested>> /\ flow' = [flow EXCEPT ![s] = Idle]
        /\ ~ IsAct(flow[s])
    BY <1>4 DEF FillStages, Goto, flowHistory, IsAct
  <2> QED BY <1>1, <2>1 DEF IsAct, Idle
<1>5. ASSUME NEW s \in Slots, ClearStages(s) PROVE VerdictInv'
  <2>1. PICK c \in FlowCall : c = flow[s]
    BY DEF StageInv, FlowType
  <2>2. c \in UpdateCall /\ ~ IsAct(flow[s])
    BY <1>5, <2>1, CallKinds DEF ClearStages, IsAct
  <2>3. PICK q : q = [c EXCEPT !.pc = "fill"]
    OBVIOUS
  <2>4. ~ IsAct(q)
    BY <2>2, <2>3 DEF UpdateCall, IsAct
  <2>5. flow' = [flow EXCEPT ![s] = q] /\ UNCHANGED <<verdict, contested>>
    BY <1>5, <2>1, <2>3 DEF ClearStages, Goto, flowHistory
  <2>6. \A row \in InstanceRow : /\ [row EXCEPT !.stage = 0] \in InstanceRow
                                /\ [row EXCEPT !.stage = 0].status = row.status
    BY DEF InstanceRow
  <2>7. \A i \in Instances : IF instance[i] = None THEN instance'[i] = None
                             ELSE instance'[i] # None /\ instance'[i].status = instance[i].status
    <3> SUFFICES ASSUME NEW i \in Instances
                 PROVE  IF instance[i] = None THEN instance'[i] = None
                        ELSE instance'[i] # None /\ instance'[i].status = instance[i].status
      OBVIOUS
    <3>1. instance'[i] = IF instance[i] = None THEN None ELSE [instance[i] EXCEPT !.stage = 0]
      BY <1>5 DEF ClearStages
    <3>2. instance[i] # None => instance[i] \in InstanceRow
      BY DEF StageInv, FlowType
    <3> QED BY <2>6, <3>1, <3>2, FlowAssumption
  <2>8. contested' \subseteq Instances /\ contested \subseteq contested'
    BY <2>5 DEF VerdictInv
  <2> QED BY <2>2, <2>4, <2>5, <2>7, <2>8, NoActStep
<1>6. ASSUME NEW s \in Slots, InsertInstance(s) PROVE VerdictInv'
  <2>1. PICK c \in FlowCall : c = flow[s] /\ FlowCallOK(c)
    BY DEF StageInv, FlowType
  <2>2. /\ c.pc = "start" /\ c \in StartCall /\ c.instance \in Instances
        /\ ~ IsAct(flow[s]) /\ instance[c.instance] = None
    BY <1>6, <2>1, CallKinds DEF InsertInstance, FlowCallOK, StartCall, StartOK, IsAct
  <2>3. flow' = [flow EXCEPT ![s] = Idle] /\ UNCHANGED <<verdict, contested>>
    BY <1>6 DEF InsertInstance, Goto
  <2>4. \A i \in Instances : \/ instance'[i] = instance[i]
                             \/ instance[i] = None /\ instance'[i].status = "IN_PROGRESS"
    BY <1>6, <2>1, <2>2 DEF InsertInstance, StageInv, FlowType
  <2>5. contested' \subseteq Instances /\ contested \subseteq contested'
    BY <2>3 DEF VerdictInv
  <2>6. ~ IsAct(Idle)
    BY DEF IsAct, Idle
  <2> QED BY <2>2, <2>3, <2>4, <2>5, <2>6, NoActStep
<1>7. ASSUME NEW s \in Slots, Judge(s) PROVE VerdictInv'
  <2>1. PICK c \in FlowCall : c = flow[s]
    BY DEF StageInv, FlowType
  <2>2. c \in ActCall /\ Leads(c) /\ IsAct(c) /\ c.pc = "judge"
    BY <1>7, <2>1, CallKinds DEF Judge, IsAct, VerdictInv
  <2>3. PICK q : q = [c EXCEPT !.pc = "record"]
    OBVIOUS
  <2>4. /\ q \in FlowCall /\ q.pc = "record" /\ q.instance = c.instance
        /\ q.to = c.to /\ q.status = c.status
    BY <2>2, <2>3 DEF FlowCall, ActCall
  <2>5. PICK i \in Instances : i = c.instance
    BY <2>2 DEF ActCall
  <2>6. /\ flow' = [flow EXCEPT ![s] = q] /\ UNCHANGED <<instance, contested>>
        /\ verdict' = [verdict EXCEPT ![i] = IF c.status = "COMPLETED" THEN "APPROVED" ELSE "REJECTED"]
    BY <1>7, <2>1, <2>3, <2>5 DEF Judge, Goto
  <2>7. c.status \in {"COMPLETED", "CANCELLED"}
    BY <2>2 DEF Leads, ActCall
  <2>8. verdict'[i] = Told(q.status) /\ \A j \in Instances \ {i} : verdict'[j] = verdict[j]
    BY <2>4, <2>6, <2>7 DEF Told, StageInv, FlowType
  <2>9. Leads(q) /\ IsAct(q)
    BY <2>2, <2>4 DEF Leads, IsAct
  <2>10. /\ IsAct(flow[s]) /\ flow[s].instance = i /\ q.instance = i
         /\ verdict'[i] = IF q.pc = "judge" THEN "PENDING" ELSE Told(q.status)
    BY <2>1, <2>2, <2>4, <2>5, <2>8
  <2> QED BY <2>4, <2>6, <2>8, <2>9, <2>10, ActStep
<1>8. ASSUME NEW s \in Slots, RecordAction(s) PROVE VerdictInv'
  <2>1. PICK c \in FlowCall : c = flow[s]
    BY DEF StageInv, FlowType
  <2>2. c \in ActCall /\ Leads(c) /\ IsAct(c) /\ c.pc = "record"
    BY <1>8, <2>1, CallKinds DEF RecordAction, IsAct, VerdictInv
  <2>3. PICK q : q = [c EXCEPT !.pc = "move"]
    OBVIOUS
  <2>4. /\ q \in FlowCall /\ q.pc = "move" /\ q.instance = c.instance
        /\ q.to = c.to /\ q.status = c.status
    BY <2>2, <2>3 DEF FlowCall, ActCall
  <2>5. PICK i \in Instances : i = c.instance
    BY <2>2 DEF ActCall
  <2>6. flow' = [flow EXCEPT ![s] = q] /\ UNCHANGED <<instance, verdict, contested>>
    BY <1>8, <2>1, <2>3 DEF RecordAction, Goto, flowHistory
  <2>7. i \notin contested => verdict[i] = Told(c.status)
    BY <2>1, <2>2, <2>5 DEF VerdictInv, Settled, Acts
  <2>8. Leads(q) /\ IsAct(q)
    BY <2>2, <2>4 DEF Leads, IsAct
  <2> QED BY <2>1, <2>2, <2>4, <2>5, <2>6, <2>7, <2>8, ActStep
<1>9. ASSUME NEW s \in Slots, FlowDie(s) PROVE VerdictInv'
  <2>1. PICK c \in FlowCall : c = flow[s]
    BY DEF StageInv, FlowType
  <2>2. /\ flow' = [flow EXCEPT ![s] = Idle] /\ UNCHANGED <<instance, verdict>>
        /\ contested' = contested \cup (IF "instance" \in DOMAIN c THEN {c.instance} ELSE {})
    BY <1>9, <2>1 DEF FlowDie, Die, Goto
  <2>3. /\ IsAct(c) => c.instance \in contested'
        /\ contested' \subseteq Instances /\ contested \subseteq contested'
    BY <2>2, CallFields DEF VerdictInv
  <2>4. ~ IsAct(Idle)
    BY DEF IsAct, Idle
  <2> QED BY <2>1, <2>2, <2>3, <2>4, NoActStep
<1>10. CASE UNCHANGED flowVars
  BY <1>10 DEF flowVars, VerdictInv, Settled, Acts, IsAct, Leads
<1> QED BY <1>2, <1>3, <1>4, <1>5, <1>6, <1>7, <1>8, <1>9, <1>10, MoveVerdict DEF FlowNext, FlowStep

LEMMA InitVerdict == FlowInit => VerdictInv
<1> SUFFICES ASSUME FlowInit PROVE VerdictInv
  OBVIOUS
<1>1. \A s \in Slots : ~ IsAct(flow[s])
  BY DEF FlowInit, IsAct, Idle
<1>2. \A i \in Instances : Settled(i)
  BY <1>1 DEF FlowInit, Settled, Acts
<1> QED BY <1>1, <1>2 DEF VerdictInv, FlowInit

\* An instance at rest and the registration behind it tell the same story,
\* whatever happens to its definition, unless two actions on it overlapped or
\* one died between its statements.
THEOREM RestingVerdict == FlowSpec => []VerdictMatches
<1>1. StageInv /\ VerdictInv => VerdictMatches
  <2> SUFFICES ASSUME StageInv, VerdictInv, NEW i \in Instances \ contested, instance[i] # None,
                      \A s \in Slots : "verb" \in DOMAIN flow[s] => flow[s].instance # i
               PROVE  verdict[i] = Told(instance[i].status)
    BY DEF VerdictMatches, Told
  <2>1. \A s \in Slots : ~ Acts(s, i)
    BY CallFields DEF Acts, StageInv, FlowType
  <2> QED BY <2>1 DEF VerdictInv, Settled
<1>2. StageInv /\ StageInv' /\ VerdictInv /\ [FlowNext]_flowVars => VerdictInv'
  BY NextVerdict
<1> QED BY <1>1, <1>2, FlowInitInv, FlowStepInv, InitVerdict, PTL DEF FlowSpec

-----------------------------------------------------------------------------
FlowBudget == flowLeft \in Nat

LEMMA LeftStep == FlowBudget /\ [FlowNext]_flowVars => FlowBudget'
<1> SUFFICES ASSUME flowLeft \in Nat, [FlowNext]_flowVars PROVE flowLeft' \in Nat
  BY DEF FlowBudget
<1>1. \/ UNCHANGED flowLeft
      \/ flowLeft > 0 /\ flowLeft' = flowLeft - 1
  <2>1. ASSUME NEW s \in Slots, FlowRequest(s) PROVE flowLeft > 0 /\ flowLeft' = flowLeft - 1
    BY <2>1 DEF FlowRequest, UpdateWorkflow, StartWorkflowInstance, ExecuteAction, Begin, Free
  <2>2. ASSUME NEW s \in Slots, FlowStep(s) \/ FlowDie(s) PROVE UNCHANGED flowLeft
    BY <2>2 DEF FlowStep, FlowDie, ClearStages, FillStages, InsertInstance, Judge, RecordAction,
               MoveInstance, Die, Goto
  <2> QED BY <2>1, <2>2 DEF FlowNext, flowVars, CreateWorkflow
<1> QED BY <1>1

\* Every variable of the workflow has its type: no stage has a key that is yet
\* to come, and the history holds actions of known users on known instances.
THEOREM FlowTypes == FlowSpec => []FlowTypeOK
<1>1. StageInv /\ RecordInv /\ VerdictInv /\ FlowBudget => FlowTypeOK
  BY DEF StageInv, FlowType, KeysInv, RecordInv, ActionRow, VerdictInv, FlowTypeOK, FlowCall,
         FlowBudget
<1>2. FlowInit => FlowBudget
  BY FlowAssumption DEF FlowInit, FlowBudget
<1>3. StageInv /\ StageInv' /\ RecordInv /\ [FlowNext]_flowVars => RecordInv'
  BY NextShown
<1>4. StageInv /\ StageInv' /\ VerdictInv /\ [FlowNext]_flowVars => VerdictInv'
  BY NextVerdict
<1> QED BY <1>1, <1>2, <1>3, <1>4, FlowInitInv, FlowStepInv, InitShown, InitVerdict, LeftStep, PTL
        DEF FlowSpec

-----------------------------------------------------------------------------
(* Expenses.                                                               *)

(***************************************************************************)
(* Types, and what the calls know of the rows they are about.              *)
(***************************************************************************)
CallType(c) == c \in {Idle} \cup CreateCall \cup StatusCall \cup ConfirmCall \cup ReportCall

BillType ==
  /\ category \subseteq CategoryNames
  /\ expense \in Seq(ExpenseRow)
  /\ file \in Seq(FileRow)
  /\ DOMAIN bill = Slots
  /\ bill = [s \in Slots |-> bill[s]]
  /\ \A s \in Slots : CallType(bill[s])

\* What calls know: a file to confirm is there, and has been looked for at the
\* second statement; a receipt is stored; and who has read an approval and will
\* make it PENDING is a treasurer and not the owner.
ConfirmOK(c) == c.file \in DOMAIN file /\ (c.pc = "confirm" => c.file \in stored)
CreateOK(c)  == c.row.receipt \in Nat => c.row.receipt \in stored
StatusOK(c)  ==
  /\ c.expense \in DOMAIN expense
  /\ c.to = "PENDING" /\ c.seen = "APPROVED" =>
       c.user \in Treasurers \ {expense[c.expense].submitter}

BillCallOK(c) ==
  /\ c.pc \in {"head", "confirm"} => ConfirmOK(c)
  /\ c.pc \in {"any", "category", "receipt", "insert"} => CreateOK(c)
  /\ c.pc = "status" => StatusOK(c)

BillInv == /\ BillType
           /\ stored \subseteq DOMAIN file
           /\ \A s \in Slots : BillCallOK(bill[s])
           /\ ReceiptIsStored

\* Rows and objects stay, and expenses keep their owners.
Stays ==
  /\ stored \subseteq stored'
  /\ DOMAIN file \subseteq DOMAIN file'
  /\ DOMAIN expense \subseteq DOMAIN expense'
  /\ \A e \in DOMAIN expense : expense'[e].submitter = expense[e].submitter

-----------------------------------------------------------------------------
LEMMA BillCallKinds ==
  ASSUME NEW c, CallType(c)
  PROVE  /\ c.pc \in {"head", "confirm"} => c \in ConfirmCall
         /\ c.pc \in {"any", "category", "receipt", "insert"} => c \in CreateCall
         /\ c.pc = "status" => c \in StatusCall
         /\ c.pc = "report" => c \in ReportCall
BY DEF CallType, ConfirmCall, CreateCall, StatusCall, ReportCall, Idle

LEMMA BillIdleOK == CallType(Idle) /\ BillCallOK(Idle)'
BY DEF CallType, BillCallOK, Idle

LEMMA StaysOK ==
  ASSUME Stays, NEW c, BillCallOK(c)
  PROVE  BillCallOK(c)'
BY DEF Stays, BillCallOK, ConfirmOK, CreateOK, StatusOK

\* One call goes on as `c`.
LEMMA BillCallsStay ==
  ASSUME BillInv, Stays, NEW s \in Slots, NEW c, CallType(c), BillCallOK(c)',
         bill' = [bill EXCEPT ![s] = c]
  PROVE  /\ DOMAIN bill' = Slots
         /\ bill' = [t \in Slots |-> bill'[t]]
         /\ \A t \in Slots : CallType(bill'[t]) /\ BillCallOK(bill[t])'
<1>1. /\ DOMAIN bill' = Slots
      /\ bill' = [t \in Slots |-> bill'[t]]
      /\ \A t \in Slots : bill'[t] = IF t = s THEN c ELSE bill[t]
  BY DEF BillInv, BillType
<1>2. ASSUME NEW t \in Slots PROVE CallType(bill'[t]) /\ BillCallOK(bill[t])'
  <2>1. CASE t = s
    BY <1>1, <2>1 DEF BillCallOK, ConfirmOK, CreateOK, StatusOK
  <2>2. CASE t # s
    <3>1. PICK d : d = bill[t]
      OBVIOUS
    <3>2. CallType(d) /\ BillCallOK(d) /\ bill'[t] = d
      BY <1>1, <2>2, <3>1 DEF BillInv, BillType
    <3>3. BillCallOK(d)'
      BY <3>2, StaysOK
    <3> QED BY <3>2, <3>3 DEF BillCallOK, ConfirmOK, CreateOK, StatusOK
  <2> QED BY <2>1, <2>2
<1> QED BY <1>1, <1>2

\* A step that only changes what a call knows.
LEMMA BillCallStep ==
  ASSUME BillInv, NEW s \in Slots, NEW c, CallType(c), BillCallOK(c),
         bill' = [bill EXCEPT ![s] = c],
         UNCHANGED <<category, expense, file, stored>>
  PROVE  BillInv'
<1>1. Stays
  BY DEF Stays
<1>2. BillCallOK(c)'
  BY <1>1, StaysOK
<1>3. /\ DOMAIN bill' = Slots
      /\ bill' = [t \in Slots |-> bill'[t]]
      /\ \A t \in Slots : CallType(bill'[t]) /\ BillCallOK(bill[t])'
  BY <1>1, <1>2, BillCallsStay
<1> QED BY <1>3 DEF BillInv, BillType, ReceiptIsStored, Downloadable

LEMMA BillInitInv == BillInit => BillInv
<1> SUFFICES ASSUME BillInit PROVE BillInv
  OBVIOUS
<1>1. BillType
  BY BillAssumption DEF BillInit, BillType, CallType
<1>2. \A s \in Slots : bill[s].pc = "idle"
  BY DEF BillInit, Idle
<1>3. \A s \in Slots : BillCallOK(bill[s])
  BY <1>2 DEF BillCallOK
<1> QED BY <1>1, <1>3 DEF BillInit, BillInv, ReceiptIsStored, Downloadable

-----------------------------------------------------------------------------
(* Files.                                                                  *)

LEMMA UploadUrlStep ==
  ASSUME BillInv, NEW u \in Users, RequestUploadUrl(u)
  PROVE  BillInv'
<1>1. PICK row : row = [uploader |-> u, status |-> "PENDING"]
  OBVIOUS
<1>2. row \in FileRow /\ row.status = "PENDING"
  BY <1>1 DEF FileRow
<1>3. file' = Append(file, row) /\ UNCHANGED <<category, expense, stored, bill>>
  BY <1>1 DEF RequestUploadUrl
<1>4. PICK n \in Nat : n = Len(file) /\ DOMAIN file = 1 .. n
  BY DEF BillInv, BillType
<1>5. /\ file' \in Seq(FileRow) /\ DOMAIN file' = 1 .. n + 1
      /\ \A f \in 1 .. n : file'[f] = file[f]
      /\ file'[n + 1] = row
  BY <1>2, <1>3, <1>4, AppendProperties DEF BillInv, BillType
<1>6. DOMAIN file \subseteq DOMAIN file'
  BY <1>4, <1>5
<1>7. Stays
  BY <1>3, <1>6 DEF Stays
<1>8. Downloadable' \subseteq Downloadable
  BY <1>2, <1>4, <1>5 DEF Downloadable
<1>9. \A t \in Slots : BillCallOK(bill[t])'
  BY <1>3, <1>6 DEF BillInv, BillCallOK, ConfirmOK, CreateOK, StatusOK
<1> QED BY <1>3, <1>5, <1>6, <1>8, <1>9 DEF BillInv, BillType, ReceiptIsStored

LEMMA UploadStep ==
  ASSUME BillInv, NEW f, Upload(f)
  PROVE  BillInv'
<1>1. f \in DOMAIN file /\ stored' = stored \cup {f} /\ UNCHANGED <<category, expense, file, bill>>
  BY DEF Upload
<1>2. \A t \in Slots : BillCallOK(bill[t])'
  BY <1>1 DEF BillInv, BillCallOK, ConfirmOK, CreateOK, StatusOK
<1> QED BY <1>1, <1>2 DEF BillInv, BillType, ReceiptIsStored, Downloadable

LEMMA ConfirmStep ==
  ASSUME BillInv, NEW s \in Slots, NEW u \in Users, NEW f \in DOMAIN file, ConfirmUpload(s, u, f)
  PROVE  BillInv'
<1>1. PICK c : c = [pc |-> "head", user |-> u, file |-> f]
  OBVIOUS
<1>2. f \in Nat
  BY DEF BillInv, BillType
<1>3. CallType(c) /\ c.pc = "head" /\ c.file = f
  BY <1>1, <1>2 DEF CallType, ConfirmCall
<1>4. BillCallOK(c)
  BY <1>3 DEF BillCallOK, ConfirmOK
<1>5. bill' = [bill EXCEPT ![s] = c] /\ UNCHANGED <<category, expense, file, stored>>
  BY <1>1 DEF ConfirmUpload, Begin
<1> QED BY <1>3, <1>4, <1>5, BillCallStep

LEMMA HeadStep ==
  ASSUME BillInv, NEW s \in Slots, HeadObject(s)
  PROVE  BillInv'
<1>1. PICK c : c = bill[s] /\ c.pc = "head"
  BY DEF HeadObject
<1>2. c \in ConfirmCall /\ ConfirmOK(c)
  BY <1>1, BillCallKinds DEF BillInv, BillType, BillCallOK
<1>3. PICK q : q = IF c.file \in stored THEN [c EXCEPT !.pc = "confirm"] ELSE Idle
  OBVIOUS
<1>4. bill' = [bill EXCEPT ![s] = q] /\ UNCHANGED <<category, expense, file, stored>>
  BY <1>1, <1>3 DEF HeadObject, BillGoto, Goto
<1>5. CASE c.file \in stored
  <2>1. q \in ConfirmCall /\ q.pc = "confirm" /\ q.file = c.file
    BY <1>2, <1>3, <1>5 DEF ConfirmCall
  <2>2. CallType(q) /\ BillCallOK(q)
    BY <1>2, <1>5, <2>1 DEF CallType, BillCallOK, ConfirmOK
  <2> QED BY <1>4, <2>2, BillCallStep
<1>6. CASE c.file \notin stored
  <2>1. q = Idle
    BY <1>3, <1>6
  <2>2. CallType(q) /\ BillCallOK(q)
    BY <2>1 DEF CallType, BillCallOK, Idle
  <2> QED BY <1>4, <2>2, BillCallStep
<1> QED BY <1>5, <1>6

\* What becomes confirmed is in the bucket.
LEMMA MarkStep ==
  ASSUME BillInv, NEW s \in Slots, MarkConfirmed(s)
  PROVE  BillInv'
<1>1. PICK c : c = bill[s] /\ c.pc = "confirm"
  BY DEF MarkConfirmed
<1>2. c \in ConfirmCall /\ c.file \in DOMAIN file /\ c.file \in stored
  BY <1>1, BillCallKinds DEF BillInv, BillType, BillCallOK, ConfirmOK
<1>3. /\ file' = [file EXCEPT ![c.file].status = "CONFIRMED"]
      /\ bill' = [bill EXCEPT ![s] = Idle]
      /\ UNCHANGED <<category, expense, stored>>
  BY <1>1 DEF MarkConfirmed, BillGoto, Goto
<1>4. PICK row : row = [file[c.file] EXCEPT !.status = "CONFIRMED"]
  OBVIOUS
<1>5. row \in FileRow
  <2>1. file[c.file] \in FileRow
    BY <1>2, ElementOfSeq DEF BillInv, BillType
  <2> QED BY <1>4, <2>1 DEF FileRow
<1>6. file' = [file EXCEPT ![c.file] = row]
  BY <1>3, <1>4
<1>7. /\ file' \in Seq(FileRow) /\ DOMAIN file' = DOMAIN file
      /\ \A f \in DOMAIN file : f # c.file => file'[f] = file[f]
  BY <1>2, <1>5, <1>6, ExceptSeq DEF BillInv, BillType
<1>8. Stays
  BY <1>3, <1>7 DEF Stays
<1>9. /\ DOMAIN bill' = Slots
      /\ bill' = [t \in Slots |-> bill'[t]]
      /\ \A t \in Slots : CallType(bill'[t]) /\ BillCallOK(bill[t])'
  BY <1>3, <1>8, BillIdleOK, BillCallsStay
<1>10. Downloadable' \subseteq stored
  BY <1>2, <1>7 DEF BillInv, ReceiptIsStored, Downloadable
<1> QED BY <1>3, <1>7, <1>9, <1>10 DEF BillInv, BillType, ReceiptIsStored

-----------------------------------------------------------------------------
(* createExpense.                                                          *)

\* A creation that goes on: to the category, the receipt, or the insert.
LEMMA CreateCallStep ==
  ASSUME BillInv, NEW s \in Slots, NEW q \in CreateCall,
         q.row.receipt \in Nat => q.row.receipt \in stored,
         bill' = [bill EXCEPT ![s] = q], category' \subseteq CategoryNames,
         UNCHANGED <<expense, file, stored>>
  PROVE  BillInv'
<1>1. CallType(q)
  BY DEF CallType
<1>2. q.pc \in {"any", "category", "receipt", "insert"}
  BY DEF CreateCall
<1>3. BillCallOK(q)'
  BY <1>2 DEF BillCallOK, CreateOK
<1>4. Stays
  BY DEF Stays
<1>5. /\ DOMAIN bill' = Slots
      /\ bill' = [t \in Slots |-> bill'[t]]
      /\ \A t \in Slots : CallType(bill'[t]) /\ BillCallOK(bill[t])'
  BY <1>1, <1>3, <1>4, BillCallsStay
<1> QED BY <1>5 DEF BillInv, BillType, ReceiptIsStored, Downloadable

LEMMA BillCreateStep ==
  ASSUME BillInv, NEW s \in Slots, NEW u \in Users, NEW wanted \in CategoryNames,
         NEW event \in Outings \cup {None}, NEW amount \in Amounts, NEW f \in 0 .. Len(file),
         NEW submit \in BOOLEAN, CreateExpense(s, u, wanted, event, amount, f, submit)
  PROVE  BillInv'
<1>1. PICK status \in {"DRAFT", "PENDING"} : status = IF submit THEN "PENDING" ELSE "DRAFT"
  OBVIOUS
<1>2. PICK pc \in {"any", "receipt"} : pc = IF wanted \in category THEN "receipt" ELSE "any"
  OBVIOUS
<1>3. PICK row : row = [submitter |-> u, category |-> wanted, event |-> event,
                        amount |-> amount, receipt |-> None, status |-> status]
  OBVIOUS
<1>4. PICK q : q = [pc |-> pc, user |-> u, wanted |-> wanted, row |-> row, file |-> f]
  OBVIOUS
<1>5. f \in Nat /\ None \notin Nat
  BY BillAssumption DEF BillInv, BillType
<1>6. row \in [submitter : Users, category : CategoryNames, event : Outings \cup {None},
              amount : Amounts, receipt : Receipts, status : {"DRAFT", "PENDING"}]
  BY <1>3 DEF Receipts
<1>7. q \in CreateCall /\ q.row.receipt \notin Nat
  BY <1>3, <1>4, <1>5, <1>6 DEF CreateCall
<1>8. bill' = [bill EXCEPT ![s] = q] /\ UNCHANGED <<category, expense, file, stored>>
  BY <1>1, <1>2, <1>3, <1>4 DEF CreateExpense, Begin
<1> QED BY <1>7, <1>8, CreateCallStep DEF BillInv, BillType

LEMMA CategoryStep ==
  ASSUME BillInv, NEW s \in Slots, AnyCategory(s) \/ NewCategory(s)
  PROVE  BillInv'
<1>1. PICK c : c = bill[s] /\ c.pc \in {"any", "category"}
  BY DEF AnyCategory, NewCategory
<1>2. c \in CreateCall /\ CreateOK(c)
  BY <1>1, BillCallKinds DEF BillInv, BillType, BillCallOK
<1>3. PICK row : row = c.row
  OBVIOUS
<1>4. row \in [submitter : Users, category : CategoryNames, event : Outings \cup {None},
              amount : Amounts, receipt : Receipts, status : {"DRAFT", "PENDING"}]
      /\ c.wanted \in CategoryNames
  BY <1>2, <1>3 DEF CreateCall
<1>5. UNCHANGED <<expense, file, stored>> /\ category' \subseteq CategoryNames
  BY <1>1, <1>4 DEF AnyCategory, NewCategory, BillInv, BillType
<1>6. CASE bill' = [bill EXCEPT ![s] = Idle]
  <2>1. Stays
    BY <1>5 DEF Stays
  <2>2. /\ DOMAIN bill' = Slots
        /\ bill' = [t \in Slots |-> bill'[t]]
        /\ \A t \in Slots : CallType(bill'[t]) /\ BillCallOK(bill[t])'
    BY <1>6, <2>1, BillIdleOK, BillCallsStay
  <2> QED BY <1>5, <2>2 DEF BillInv, BillType, ReceiptIsStored, Downloadable
<1>7. ASSUME NEW pc \in {"category", "receipt"}, bill' = [bill EXCEPT ![s] = [c EXCEPT !.pc = pc]]
      PROVE  BillInv'
  <2>1. PICK q : q = [c EXCEPT !.pc = pc]
    OBVIOUS
  <2>2. q \in CreateCall /\ q.row = c.row
    BY <1>2, <2>1 DEF CreateCall
  <2> QED BY <1>2, <1>5, <1>7, <2>1, <2>2, CreateCallStep DEF CreateOK
<1>8. ASSUME NEW name \in category,
             bill' = [bill EXCEPT ![s] = [c EXCEPT !.pc = "receipt", !.row.category = name]]
      PROVE  BillInv'
  <2>1. PICK new : new = [row EXCEPT !.category = name]
    OBVIOUS
  <2>2. name \in CategoryNames
    BY DEF BillInv, BillType
  <2>3. /\ new \in [submitter : Users, category : CategoryNames, event : Outings \cup {None},
                   amount : Amounts, receipt : Receipts, status : {"DRAFT", "PENDING"}]
        /\ new.receipt = row.receipt
    BY <1>4, <2>1, <2>2
  <2>4. PICK q : q = [c EXCEPT !.pc = "receipt", !.row = new]
    OBVIOUS
  <2>5. q \in CreateCall /\ q.row = new
    BY <1>2, <2>3, <2>4 DEF CreateCall
  <2>6. bill' = [bill EXCEPT ![s] = q]
    BY <1>2, <1>3, <1>8, <2>1, <2>4 DEF CreateCall
  <2> QED BY <1>2, <1>3, <1>5, <2>3, <2>5, <2>6, CreateCallStep DEF CreateOK
<1>9. CASE AnyCategory(s)
  BY <1>1, <1>7, <1>8, <1>9 DEF AnyCategory, BillGoto, Goto
<1>10. CASE NewCategory(s)
  BY <1>1, <1>6, <1>7, <1>10 DEF NewCategory, BillGoto, Goto
<1> QED BY <1>9, <1>10

LEMMA ReceiptStep ==
  ASSUME BillInv, NEW s \in Slots, FindReceipt(s)
  PROVE  BillInv'
<1>1. PICK c : c = bill[s] /\ c.pc = "receipt"
  BY DEF FindReceipt
<1>2. c \in CreateCall /\ CreateOK(c)
  BY <1>1, BillCallKinds DEF BillInv, BillType, BillCallOK
<1>3. PICK row : row = c.row
  OBVIOUS
<1>4. row \in [submitter : Users, category : CategoryNames, event : Outings \cup {None},
              amount : Amounts, receipt : Receipts, status : {"DRAFT", "PENDING"}]
      /\ c.file \in Nat
  BY <1>2, <1>3 DEF CreateCall
<1>5. PICK r : r = IF c.file \in Downloadable THEN c.file ELSE row.receipt
  OBVIOUS
<1>6. r \in Receipts /\ (r \in Nat => r \in stored)
  BY <1>2, <1>3, <1>4, <1>5 DEF Receipts, CreateOK, BillInv, ReceiptIsStored
<1>7. PICK new : new = [row EXCEPT !.receipt = r]
  OBVIOUS
<1>8. /\ new \in [submitter : Users, category : CategoryNames, event : Outings \cup {None},
                 amount : Amounts, receipt : Receipts, status : {"DRAFT", "PENDING"}]
      /\ new.receipt = r
  BY <1>4, <1>6, <1>7
<1>9. PICK q : q = [c EXCEPT !.pc = "insert", !.row = new]
  OBVIOUS
<1>10. q \in CreateCall /\ q.row = new
  BY <1>2, <1>8, <1>9 DEF CreateCall
<1>11. bill' = [bill EXCEPT ![s] = q] /\ UNCHANGED <<category, expense, file, stored>>
  BY <1>1, <1>2, <1>3, <1>5, <1>7, <1>9 DEF FindReceipt, BillGoto, Goto, CreateCall
<1> QED BY <1>6, <1>8, <1>10, <1>11, CreateCallStep DEF BillInv, BillType

LEMMA BillInsertStep ==
  ASSUME BillInv, NEW s \in Slots, InsertExpense(s)
  PROVE  BillInv'
<1>1. PICK c : c = bill[s] /\ c.pc = "insert"
  BY DEF InsertExpense
<1>2. c \in CreateCall /\ CreateOK(c)
  BY <1>1, BillCallKinds DEF BillInv, BillType, BillCallOK
<1>3. PICK row : row = c.row
  OBVIOUS
<1>4. row \in ExpenseRow /\ (row.receipt \in Nat => row.receipt \in stored)
  BY <1>2, <1>3 DEF CreateCall, ExpenseRow, Statuses, CreateOK
<1>5. /\ expense' = Append(expense, row) /\ bill' = [bill EXCEPT ![s] = Idle]
      /\ UNCHANGED <<category, file, stored>>
  BY <1>1, <1>3 DEF InsertExpense, BillGoto, Goto
<1>6. PICK n \in Nat : n = Len(expense) /\ DOMAIN expense = 1 .. n
  BY DEF BillInv, BillType
<1>7. /\ expense' \in Seq(ExpenseRow) /\ DOMAIN expense' = 1 .. n + 1
      /\ \A e \in 1 .. n : expense'[e] = expense[e]
      /\ expense'[n + 1] = row
  BY <1>4, <1>5, <1>6, AppendProperties DEF BillInv, BillType
<1>8. DOMAIN expense \subseteq DOMAIN expense' /\ DOMAIN expense' = DOMAIN expense \cup {n + 1}
  BY <1>6, <1>7
<1>9. Stays
  BY <1>5, <1>6, <1>7, <1>8 DEF Stays
<1>10. /\ DOMAIN bill' = Slots
       /\ bill' = [t \in Slots |-> bill'[t]]
       /\ \A t \in Slots : CallType(bill'[t]) /\ BillCallOK(bill[t])'
  BY <1>5, <1>9, BillIdleOK, BillCallsStay
<1>11. ReceiptIsStored'
  BY <1>4, <1>5, <1>6, <1>7, <1>8 DEF BillInv, ReceiptIsStored, Downloadable
<1> QED BY <1>5, <1>7, <1>10, <1>11 DEF BillInv, BillType

-----------------------------------------------------------------------------
(* updateStatus.                                                           *)

LEMMA BillStatusStep ==
  ASSUME BillInv, NEW s \in Slots, NEW u \in Users, NEW e \in DOMAIN expense,
         NEW to \in Statuses, UpdateStatus(s, u, e, to)
  PROVE  BillInv'
<1>1. e \in Nat /\ expense[e] \in ExpenseRow
  <2>1. DOMAIN expense = 1 .. Len(expense)
    BY DEF BillInv, BillType
  <2> QED BY <2>1, ElementOfSeq DEF BillInv, BillType
<1>2. PICK seen \in Statuses : seen = expense[e].status
  BY <1>1 DEF ExpenseRow
<1>3. PICK q : q = [pc |-> "status", user |-> u, expense |-> e, seen |-> seen, to |-> to]
  OBVIOUS
<1>4. /\ q \in StatusCall /\ q.pc = "status" /\ q.user = u /\ q.expense = e /\ q.seen = seen
      /\ q.to = to
  BY <1>1, <1>3 DEF StatusCall
<1>5. to = "PENDING" /\ seen = "APPROVED" => u \in Treasurers \ {expense[e].submitter}
  BY <1>2 DEF UpdateStatus
<1>6. CallType(q) /\ BillCallOK(q)
  BY <1>4, <1>5 DEF CallType, BillCallOK, StatusOK
<1>7. bill' = [bill EXCEPT ![s] = q] /\ UNCHANGED <<category, expense, file, stored>>
  BY <1>2, <1>3 DEF UpdateStatus, Begin
<1> QED BY <1>6, <1>7, BillCallStep

\* What the write of a status changes.
LEMMA WriteShape ==
  ASSUME BillInv, NEW s \in Slots, WriteStatus(s)
  PROVE  /\ bill[s] \in StatusCall /\ StatusOK(bill[s]) /\ bill[s].pc = "status"
         /\ expense' \in Seq(ExpenseRow) /\ DOMAIN expense' = DOMAIN expense
         /\ \A e \in DOMAIN expense :
              /\ expense'[e].submitter = expense[e].submitter
              /\ expense'[e].receipt = expense[e].receipt
              /\ expense'[e].category = expense[e].category
              /\ expense'[e].status = IF e = bill[s].expense THEN bill[s].to ELSE expense[e].status
<1>1. PICK c : c = bill[s] /\ c.pc = "status"
  BY DEF WriteStatus
<1>2. c \in StatusCall /\ StatusOK(c)
  BY <1>1, BillCallKinds DEF BillInv, BillType, BillCallOK
<1>3. PICK row : row = [expense[c.expense] EXCEPT !.status = c.to]
  OBVIOUS
<1>4. c.expense \in 1 .. Len(expense) /\ DOMAIN expense = 1 .. Len(expense)
  BY <1>2 DEF StatusOK, BillInv, BillType
<1>5. expense[c.expense] \in ExpenseRow
  BY <1>4, ElementOfSeq DEF BillInv, BillType
<1>6. /\ row \in ExpenseRow /\ row.status = c.to /\ row.receipt = expense[c.expense].receipt
      /\ row.submitter = expense[c.expense].submitter
      /\ row.category = expense[c.expense].category
  BY <1>2, <1>3, <1>5 DEF ExpenseRow, StatusCall
<1>7. expense' = [expense EXCEPT ![c.expense] = row]
  BY <1>1, <1>3 DEF WriteStatus
<1>8. /\ expense' \in Seq(ExpenseRow) /\ DOMAIN expense' = DOMAIN expense
      /\ \A e \in DOMAIN expense : expense'[e] = IF e = c.expense THEN row ELSE expense[e]
  BY <1>4, <1>6, <1>7, ExceptSeq DEF BillInv, BillType
<1> QED BY <1>1, <1>2, <1>6, <1>8

LEMMA WriteStep ==
  ASSUME BillInv, NEW s \in Slots, WriteStatus(s)
  PROVE  BillInv'
<1>1. bill' = [bill EXCEPT ![s] = Idle] /\ UNCHANGED <<category, file, stored>>
  BY DEF WriteStatus, BillGoto, Goto
<1>2. /\ expense' \in Seq(ExpenseRow) /\ DOMAIN expense' = DOMAIN expense
      /\ \A e \in DOMAIN expense : /\ expense'[e].submitter = expense[e].submitter
                                   /\ expense'[e].receipt = expense[e].receipt
  BY WriteShape
<1>3. Stays
  BY <1>1, <1>2 DEF Stays
<1>4. /\ DOMAIN bill' = Slots
      /\ bill' = [t \in Slots |-> bill'[t]]
      /\ \A t \in Slots : CallType(bill'[t]) /\ BillCallOK(bill[t])'
  BY <1>1, <1>3, BillIdleOK, BillCallsStay
<1> QED BY <1>1, <1>2, <1>4 DEF BillInv, BillType, ReceiptIsStored, Downloadable

-----------------------------------------------------------------------------
(* Reports.                                                                *)

\* What an aggregate adds up is a number.
LEMMA AmountsIs ==
  ASSUME expense \in Seq(ExpenseRow)
  PROVE  /\ IsFiniteSet(DOMAIN expense)
         /\ \A e \in DOMAIN expense : /\ expense[e] \in ExpenseRow
                                      /\ [x \in DOMAIN expense |-> expense[x].amount][e] \in Nat
<1>1. PICK n \in Nat : n = Len(expense) /\ DOMAIN expense = 1 .. n
  BY LenProperties
<1>2. IsFiniteSet(DOMAIN expense)
  BY <1>1, FS_Interval
<1>3. Amounts \subseteq Nat
  BY BillAssumption, Zenon
<1>4. ASSUME NEW e \in DOMAIN expense
      PROVE  /\ expense[e] \in ExpenseRow
             /\ [x \in DOMAIN expense |-> expense[x].amount][e] \in Nat
  <2>1. expense[e] \in ExpenseRow
    BY <1>1, ElementOfSeq
  <2> QED BY <1>3, <2>1 DEF ExpenseRow
<1> QED BY <1>2, <1>4

LEMMA SumOfIs ==
  ASSUME expense \in Seq(ExpenseRow), NEW set \in SUBSET DOMAIN expense
  PROVE  SumOf(set) \in Nat
<1>1. PICK f : f = [x \in DOMAIN expense |-> expense[x].amount]
  OBVIOUS
<1>2. IsFiniteSet(set) /\ \A e \in set : f[e] \in Nat
  BY <1>1, AmountsIs, FS_Subset
<1>3. SumFunctionOnSet(f, set) \in Nat
  BY <1>2, SumRemoves
<1> QED BY <1>1, <1>3 DEF SumOf

LEMMA AggregateTypes ==
  ASSUME expense \in Seq(ExpenseRow)
  PROVE  /\ ByStatus \in [Statuses -> Nat] /\ ByCategory \in [CategoryNames -> Nat]
         /\ ByEvent \in [Outings -> Nat] /\ ApprovedTotal \in Nat
<1>1. \A st : SumOf({e \in DOMAIN expense : expense[e].status = st}) \in Nat
  <2> TAKE st
  <2>1. PICK set \in SUBSET DOMAIN expense : set = {e \in DOMAIN expense : expense[e].status = st}
    OBVIOUS
  <2> QED BY <2>1, SumOfIs
<1>2. \A n : SumOf({e \in DOMAIN expense : expense[e].category = n}) \in Nat
  <2> TAKE n
  <2>1. PICK set \in SUBSET DOMAIN expense : set = {e \in DOMAIN expense : expense[e].category = n}
    OBVIOUS
  <2> QED BY <2>1, SumOfIs
<1>3. \A o : SumOf({e \in DOMAIN expense : expense[e].event = o}) \in Nat
  <2> TAKE o
  <2>1. PICK set \in SUBSET DOMAIN expense : set = {e \in DOMAIN expense : expense[e].event = o}
    OBVIOUS
  <2> QED BY <2>1, SumOfIs
<1> QED BY <1>1, <1>2, <1>3 DEF ByStatus, ByCategory, ByEvent, ApprovedTotal

LEMMA ReportStep ==
  ASSUME BillInv, NEW s \in Slots, NEW q \in ReportCall,
         bill' = [bill EXCEPT ![s] = q], UNCHANGED <<category, expense, file, stored>>
  PROVE  BillInv'
<1>1. CallType(q) /\ BillCallOK(q)
  BY DEF CallType, BillCallOK, ReportCall
<1> QED BY <1>1, BillCallStep

LEMMA GetReportsIs ==
  ASSUME NEW s \in Slots, NEW u \in Users, GetReports(s, u)
  PROVE  \E q \in ReportCall : /\ q.todo = ReportParts /\ bill[s] = Idle
                               /\ bill' = [bill EXCEPT ![s] = q]
                               /\ quiet' = quiet \cup {s}
                               /\ UNCHANGED <<category, expense, file, stored>>
<1>1. PICK q : q = [pc |-> "report", user |-> u, todo |-> ReportParts,
                    byStatus |-> [st \in Statuses |-> 0],
                    byCategory |-> [n \in CategoryNames |-> 0],
                    byEvent |-> [o \in Outings |-> 0], total |-> 0]
  OBVIOUS
<1>2. q \in ReportCall /\ q.todo = ReportParts
  BY <1>1 DEF ReportCall, GetReports
<1>3. /\ bill' = [bill EXCEPT ![s] = q] /\ bill[s] = Idle /\ quiet' = quiet \cup {s}
      /\ UNCHANGED <<category, expense, file, stored>>
  BY <1>1 DEF GetReports, Begin, Free
<1> QED BY <1>2, <1>3

LEMMA GetReportsStep ==
  ASSUME BillInv, NEW s \in Slots, NEW u \in Users, GetReports(s, u)
  PROVE  BillInv'
BY GetReportsIs, ReportStep

\* Where the part that was read differs from the record before.
Fills(c, q, part) ==
  /\ q.user = c.user /\ q.todo = c.todo \ {part}
  /\ q.byStatus = IF part = "byStatus" THEN ByStatus ELSE c.byStatus
  /\ q.byCategory = IF part = "byCategory" THEN ByCategory ELSE c.byCategory
  /\ q.byEvent = IF part = "byEvent" THEN ByEvent ELSE c.byEvent
  /\ q.total = IF part = "total" THEN ApprovedTotal ELSE c.total

LEMMA AggregateIs ==
  ASSUME BillInv, NEW s \in Slots, NEW part \in ReportParts, ReadAggregate(s, part)
  PROVE  \E c \in ReportCall, q \in ReportCall :
           /\ c = bill[s] /\ bill' = [bill EXCEPT ![s] = q] /\ Fills(c, q, part)
           /\ UNCHANGED <<category, expense, file, stored, quiet>>
<1>1. PICK c \in ReportCall : c = bill[s]
  BY BillCallKinds DEF ReadAggregate, BillInv, BillType
<1>2. PICK more \in SUBSET ReportParts : more = c.todo \ {part}
  BY DEF ReportCall
<1>3. PICK q : /\ bill' = [bill EXCEPT ![s] = q]
               /\ q = CASE part = "byStatus" -> [c EXCEPT !.todo = more, !.byStatus = ByStatus]
                        [] part = "byCategory" -> [c EXCEPT !.todo = more, !.byCategory = ByCategory]
                        [] part = "byEvent" -> [c EXCEPT !.todo = more, !.byEvent = ByEvent]
                        [] part = "total" -> [c EXCEPT !.todo = more, !.total = ApprovedTotal]
  BY <1>1, <1>2 DEF ReadAggregate, BillGoto, Goto
<1>4. /\ ByStatus \in [Statuses -> Nat] /\ ByCategory \in [CategoryNames -> Nat]
      /\ ByEvent \in [Outings -> Nat] /\ ApprovedTotal \in Nat
  BY AggregateTypes DEF BillInv, BillType
<1>5. q \in ReportCall /\ Fills(c, q, part)
  <2>1. CASE part = "byStatus"
    BY <1>2, <1>3, <1>4, <2>1 DEF ReportCall, Fills
  <2>2. CASE part = "byCategory"
    BY <1>2, <1>3, <1>4, <2>2 DEF ReportCall, Fills
  <2>3. CASE part = "byEvent"
    BY <1>2, <1>3, <1>4, <2>3 DEF ReportCall, Fills
  <2>4. CASE part = "total"
    BY <1>2, <1>3, <1>4, <2>4 DEF ReportCall, Fills
  <2> QED BY <2>1, <2>2, <2>3, <2>4 DEF ReportParts
<1>6. UNCHANGED <<category, expense, file, stored, quiet>>
  BY DEF ReadAggregate
<1> QED BY <1>1, <1>3, <1>5, <1>6

LEMMA AggregateStep ==
  ASSUME BillInv, NEW s \in Slots, NEW part \in ReportParts, ReadAggregate(s, part)
  PROVE  BillInv'
BY AggregateIs, ReportStep

-----------------------------------------------------------------------------
LEMMA BillStepInv == BillInv /\ [BillNext]_billVars => BillInv'
<1> SUFFICES ASSUME BillInv, [BillNext]_billVars PROVE BillInv'
  OBVIOUS
<1>1. ASSUME NEW s \in Slots, BillRequest(s) PROVE BillInv'
  <2>1. \A wanted \in CategoryNames : SpentFor[wanted] \subseteq Outings \cup {None}
    BY BillAssumption
  <2> QED BY <1>1, <2>1, ConfirmStep, BillCreateStep, BillStatusStep, GetReportsStep DEF BillRequest
<1>2. ASSUME NEW s \in Slots, SendReport(s) \/ BillDie(s) PROVE BillInv'
  <2>1. bill' = [bill EXCEPT ![s] = Idle] /\ UNCHANGED <<category, expense, file, stored>>
    BY <1>2 DEF SendReport, BillDie, Die, BillGoto, Goto
  <2>2. CallType(Idle) /\ BillCallOK(Idle)
    BY DEF CallType, BillCallOK, Idle
  <2> QED BY <2>1, <2>2, BillCallStep
<1>3. ASSUME NEW s \in Slots, BillStep(s) PROVE BillInv'
  BY <1>2, <1>3, HeadStep, MarkStep, CategoryStep, ReceiptStep, BillInsertStep, WriteStep,
     AggregateStep DEF BillStep
<1>4. ASSUME NEW u \in Users, RequestUploadUrl(u) PROVE BillInv'
  BY <1>4, UploadUrlStep
<1>5. ASSUME NEW f \in DOMAIN file, Upload(f) PROVE BillInv'
  BY <1>5, UploadStep
<1>6. CASE UNCHANGED billVars
  BY <1>6 DEF billVars, BillInv, BillType, BillCallOK, ConfirmOK, CreateOK, StatusOK,
             ReceiptIsStored, Downloadable
<1> QED BY <1>1, <1>2, <1>3, <1>4, <1>5, <1>6 DEF BillNext

\* Whatever is uploaded, confirmed and submitted at the same time, a confirmed
\* file and a receipt taken from one are in the bucket.
THEOREM ReceiptsStored == BillSpec => []ReceiptIsStored
<1>1. BillInv => ReceiptIsStored
  BY DEF BillInv
<1> QED BY <1>1, BillInitInv, BillStepInv, PTL DEF BillSpec

\* The statements that take an approval back to PENDING.
LEMMA ApprovalStep ==
  ASSUME BillInv, [BillNext]_billVars, NEW e \in DOMAIN expense,
         expense[e].status = "APPROVED", expense'[e].status = "PENDING"
  PROVE  \E s \in Slots : /\ bill[s].pc = "status" /\ bill[s].expense = e
                          /\ \/ bill[s].user \in Treasurers \ {expense[e].submitter}
                             \/ bill[s].seen # "APPROVED"
<1>1. expense' # expense
  OBVIOUS
<1>2. PICK s \in Slots : InsertExpense(s) \/ WriteStatus(s)
  <2>1. \A t \in Slots : BillRequest(t) => UNCHANGED expense
    <3> SUFFICES ASSUME NEW t \in Slots, BillRequest(t) PROVE UNCHANGED expense
      OBVIOUS
    <3> QED BY DEF BillRequest, ConfirmUpload, CreateExpense, UpdateStatus, GetReports
  <2>2. \A t \in Slots : BillStep(t) => UNCHANGED expense \/ InsertExpense(t) \/ WriteStatus(t)
    <3> SUFFICES ASSUME NEW t \in Slots, BillStep(t), ~InsertExpense(t), ~WriteStatus(t)
                 PROVE  UNCHANGED expense
      OBVIOUS
    <3>1. CASE HeadObject(t) \/ MarkConfirmed(t) \/ SendReport(t)
      BY <3>1 DEF HeadObject, MarkConfirmed, SendReport
    <3>2. CASE AnyCategory(t) \/ NewCategory(t) \/ FindReceipt(t)
      BY <3>2 DEF AnyCategory, NewCategory, FindReceipt
    <3>3. CASE \E part \in ReportParts : ReadAggregate(t, part)
      BY <3>3 DEF ReadAggregate
    <3> QED BY <3>1, <3>2, <3>3 DEF BillStep
  <2>3. \A t \in Slots : BillDie(t) => UNCHANGED expense
    BY DEF BillDie
  <2>4. \A u \in Users : RequestUploadUrl(u) => UNCHANGED expense
    BY DEF RequestUploadUrl
  <2>5. \A f \in DOMAIN file : Upload(f) => UNCHANGED expense
    BY DEF Upload
  <2>6. UNCHANGED billVars => UNCHANGED expense
    BY DEF billVars
  <2> QED BY <1>1, <2>1, <2>2, <2>3, <2>4, <2>5, <2>6 DEF BillNext
<1>3. CASE InsertExpense(s)
  <2>1. PICK row : expense' = Append(expense, row)
    BY <1>3 DEF InsertExpense
  <2>2. e \in 1 .. Len(expense) /\ expense \in Seq(ExpenseRow)
    BY DEF BillInv, BillType
  <2>3. expense'[e] = expense[e]
    BY <2>1, <2>2
  <2> QED BY <2>3
<1>4. CASE WriteStatus(s)
  <2>1. bill[s].expense = e /\ bill[s].to = "PENDING" /\ StatusOK(bill[s]) /\ bill[s].pc = "status"
    BY <1>4, WriteShape
  <2> QED BY <2>1 DEF StatusOK
<1> QED BY <1>2, <1>3, <1>4

\* An approval is taken back to PENDING by a treasurer who does not own the
\* expense, or by a request that had read another status; never by the owner
\* who has seen it.
THEOREM ApprovalsStand == BillSpec => ApprovedStands
<1>1. BillInv /\ [BillNext]_billVars =>
        [\A e \in DOMAIN expense :
           expense[e].status = "APPROVED" /\ expense'[e].status = "PENDING" =>
             \E s \in Slots : /\ bill[s].pc = "status" /\ bill[s].expense = e
                              /\ \/ bill[s].user \in Treasurers \ {expense[e].submitter}
                                 \/ bill[s].seen # "APPROVED"]_billVars
  BY ApprovalStep
<1> QED BY <1>1, BillInitInv, BillStepInv, PTL DEF BillSpec, ApprovedStands

-----------------------------------------------------------------------------
(***************************************************************************)
(* The categories, the budget of calls, and what a report has read.        *)
(***************************************************************************)

\* A creation that is still to find a category holds the name it was sent; one
\* that has found it holds a category that is there.
KindOK(c) ==
  /\ c.pc \in {"any", "category"} => c.row.category = c.wanted
  /\ c.pc \in {"receipt", "insert"} => c.row.category \in category

KindInv == /\ \A e \in DOMAIN expense : expense[e].category \in category
           /\ \A s \in Slots : KindOK(bill[s])

\* What the report has read is what is there now.
Filled(c) ==
  /\ "byStatus" \notin c.todo => c.byStatus = ByStatus
  /\ "byCategory" \notin c.todo => c.byCategory = ByCategory
  /\ "byEvent" \notin c.todo => c.byEvent = ByEvent
  /\ "total" \notin c.todo => c.total = ApprovedTotal

ReportInv == /\ quiet \subseteq Slots
             /\ \A s \in quiet : bill[s].pc = "report" /\ Filled(bill[s])

BillBudget == billLeft \in Nat

LEMMA BillBudgetStep == BillBudget /\ [BillNext]_billVars => BillBudget'
<1> SUFFICES ASSUME billLeft \in Nat, [BillNext]_billVars PROVE billLeft' \in Nat
  BY DEF BillBudget
<1>1. \/ UNCHANGED billLeft
      \/ billLeft > 0 /\ billLeft' = billLeft - 1
  <2>1. ASSUME NEW s \in Slots, BillRequest(s) PROVE billLeft > 0 /\ billLeft' = billLeft - 1
    BY <2>1 DEF BillRequest, ConfirmUpload, CreateExpense, UpdateStatus, GetReports, Begin, Free
  <2>2. ASSUME NEW s \in Slots, BillStep(s) \/ BillDie(s) PROVE UNCHANGED billLeft
    BY <2>2 DEF BillStep, BillDie, HeadObject, MarkConfirmed, AnyCategory, NewCategory, FindReceipt,
               InsertExpense, WriteStatus, SendReport, ReadAggregate, Die, BillGoto, Goto
  <2>3. ASSUME NEW u \in Users, RequestUploadUrl(u) PROVE billLeft > 0 /\ billLeft' = billLeft - 1
    BY <2>3 DEF RequestUploadUrl
  <2>4. ASSUME NEW f \in DOMAIN file, Upload(f) PROVE UNCHANGED billLeft
    BY <2>4 DEF Upload
  <2>5. CASE UNCHANGED billVars
    BY <2>5 DEF billVars
  <2>6. CASE BillNext
    <3>1. CASE \E u \in Users : RequestUploadUrl(u)
      BY <2>3, <3>1
    <3>2. CASE \E f \in DOMAIN file : Upload(f)
      BY <2>4, <3>2
    <3>3. CASE \E s \in Slots : BillRequest(s) \/ BillStep(s) \/ BillDie(s)
      BY <2>1, <2>2, <3>3
    <3> QED BY <2>6, <3>1, <3>2, <3>3 DEF BillNext
  <2> QED BY <2>5, <2>6
<1> QED BY <1>1

-----------------------------------------------------------------------------
(* The categories.                                                         *)

LEMMA KindStays ==
  ASSUME NEW c, KindOK(c), category \subseteq category'
  PROVE  KindOK(c)'
BY DEF KindOK

\* One call goes on as `c`.
LEMMA KindMove ==
  ASSUME BillInv, KindInv, NEW s \in Slots, NEW c, KindOK(c)', bill' = [bill EXCEPT ![s] = c],
         category \subseteq category',
         \A e \in DOMAIN expense' : expense'[e].category \in category'
  PROVE  KindInv'
<1>1. ASSUME NEW t \in Slots PROVE KindOK(bill[t])'
  <2>1. PICK d : d = bill'[t]
    OBVIOUS
  <2>2. KindOK(d)'
    <3>1. CASE t = s
      BY <2>1, <3>1 DEF BillInv, BillType
    <3>2. CASE t # s
      <4>1. d = bill[t] /\ KindOK(d)
        BY <2>1, <3>2 DEF BillInv, BillType, KindInv
      <4> QED BY <4>1, KindStays
    <3> QED BY <3>1, <3>2
  <2> QED BY <2>1, <2>2 DEF KindOK
<1> QED BY <1>1 DEF KindInv

\* The call is none that has to do with categories.
LEMMA KindAside ==
  ASSUME BillInv, KindInv, NEW s \in Slots, NEW c,
         c.pc \notin {"any", "category", "receipt", "insert"},
         bill' = [bill EXCEPT ![s] = c], UNCHANGED <<category, expense>>
  PROVE  KindInv'
<1>1. KindOK(c)'
  BY DEF KindOK
<1> QED BY <1>1, KindMove DEF KindInv

LEMMA KindRequest ==
  ASSUME BillInv, KindInv, NEW s \in Slots, BillRequest(s)
  PROVE  KindInv'
<1>1. ASSUME NEW u \in Users, NEW f \in DOMAIN file, ConfirmUpload(s, u, f) PROVE KindInv'
  <2>1. PICK c : c = [pc |-> "head", user |-> u, file |-> f]
    OBVIOUS
  <2>2. c.pc = "head" /\ bill' = [bill EXCEPT ![s] = c] /\ UNCHANGED <<category, expense>>
    BY <1>1, <2>1 DEF ConfirmUpload, Begin
  <2> QED BY <2>2, KindAside
<1>2. ASSUME NEW u \in Users, NEW wanted \in CategoryNames, NEW event \in Outings \cup {None},
             NEW amount \in Amounts, NEW f \in 0 .. Len(file), NEW submit \in BOOLEAN,
             CreateExpense(s, u, wanted, event, amount, f, submit)
      PROVE  KindInv'
  <2>1. PICK status : status = IF submit THEN "PENDING" ELSE "DRAFT"
    OBVIOUS
  <2>2. PICK pc : pc = IF wanted \in category THEN "receipt" ELSE "any"
    OBVIOUS
  <2>3. PICK row : row = [submitter |-> u, category |-> wanted, event |-> event,
                          amount |-> amount, receipt |-> None, status |-> status]
    OBVIOUS
  <2>4. PICK c : c = [pc |-> pc, user |-> u, wanted |-> wanted, row |-> row, file |-> f]
    OBVIOUS
  <2>5. /\ c.pc = pc /\ c.row.category = wanted /\ c.wanted = wanted
    BY <2>3, <2>4
  <2>6. bill' = [bill EXCEPT ![s] = c] /\ UNCHANGED <<category, expense>>
    BY <1>2, <2>1, <2>2, <2>3, <2>4 DEF CreateExpense, Begin
  <2>7. KindOK(c)'
    BY <2>2, <2>5, <2>6 DEF KindOK
  <2> QED BY <2>6, <2>7, KindMove DEF KindInv
<1>3. ASSUME NEW u \in Users, NEW e \in DOMAIN expense, NEW to \in Statuses, UpdateStatus(s, u, e, to)
      PROVE  KindInv'
  <2>1. PICK c : c = [pc |-> "status", user |-> u, expense |-> e, seen |-> expense[e].status,
                      to |-> to]
    OBVIOUS
  <2>2. c.pc = "status" /\ bill' = [bill EXCEPT ![s] = c] /\ UNCHANGED <<category, expense>>
    BY <1>3, <2>1 DEF UpdateStatus, Begin
  <2> QED BY <2>2, KindAside
<1>4. ASSUME NEW u \in Users, GetReports(s, u) PROVE KindInv'
  <2>1. PICK q \in ReportCall : bill' = [bill EXCEPT ![s] = q] /\ UNCHANGED <<category, expense>>
    BY <1>4, GetReportsIs
  <2>2. q.pc = "report"
    BY DEF ReportCall
  <2> QED BY <2>1, <2>2, KindAside
<1>5. \A wanted \in CategoryNames : SpentFor[wanted] \subseteq Outings \cup {None}
  BY BillAssumption
<1> QED BY <1>1, <1>2, <1>3, <1>4, <1>5 DEF BillRequest

LEMMA KindCategory ==
  ASSUME BillInv, KindInv, NEW s \in Slots, AnyCategory(s) \/ NewCategory(s)
  PROVE  KindInv'
<1>1. PICK c : c = bill[s] /\ c.pc \in {"any", "category"}
  BY DEF AnyCategory, NewCategory
<1>2. c \in CreateCall /\ c.row.category = c.wanted
  BY <1>1, BillCallKinds DEF BillInv, BillType, KindInv, KindOK
<1>3. category \subseteq category' /\ UNCHANGED expense
  BY DEF AnyCategory, NewCategory
<1>4. \A e \in DOMAIN expense' : expense'[e].category \in category'
  BY <1>3 DEF KindInv
<1>5. CASE AnyCategory(s) /\ category = {}
  <2>1. PICK q : q = [c EXCEPT !.pc = "category"]
    OBVIOUS
  <2>2. q.pc = "category" /\ q.row.category = q.wanted
    BY <1>2, <2>1 DEF CreateCall
  <2>3. bill' = [bill EXCEPT ![s] = q]
    BY <1>1, <1>5, <2>1 DEF AnyCategory, BillGoto, Goto
  <2>4. KindOK(q)'
    BY <2>2 DEF KindOK
  <2> QED BY <1>3, <1>4, <2>3, <2>4, KindMove
<1>6. CASE AnyCategory(s) /\ category # {}
  <2>1. PICK name \in category :
          bill' = [bill EXCEPT ![s] = [c EXCEPT !.pc = "receipt", !.row.category = name]]
    BY <1>1, <1>6 DEF AnyCategory, BillGoto, Goto
  <2>2. PICK row : row = [c.row EXCEPT !.category = name]
    OBVIOUS
  <2>3. row.category = name
    <3>1. c.row \in [submitter : Users, category : CategoryNames, event : Outings \cup {None},
                    amount : Amounts, receipt : Receipts, status : {"DRAFT", "PENDING"}]
      BY <1>2 DEF CreateCall
    <3> QED BY <2>2, <3>1
  <2>4. PICK q : q = [c EXCEPT !.pc = "receipt", !.row = row]
    OBVIOUS
  <2>5. q.pc = "receipt" /\ q.row = row /\ bill' = [bill EXCEPT ![s] = q]
    BY <1>2, <2>1, <2>2, <2>4 DEF CreateCall
  <2>6. KindOK(q)'
    BY <1>3, <2>3, <2>5 DEF KindOK
  <2> QED BY <1>3, <1>4, <2>5, <2>6, KindMove
<1>7. CASE NewCategory(s)
  <2>1. PICK q : q = IF c.wanted \in category THEN Idle ELSE [c EXCEPT !.pc = "receipt"]
    OBVIOUS
  <2>2. bill' = [bill EXCEPT ![s] = q] /\ c.wanted \in category'
    BY <1>1, <1>7, <2>1 DEF NewCategory, BillGoto, Goto
  <2>3. \/ q.pc = "idle"
        \/ q.pc = "receipt" /\ q.row.category = c.wanted
    <3>1. CASE c.wanted \in category
      BY <2>1, <3>1 DEF Idle
    <3>2. CASE c.wanted \notin category
      <4>1. q = [c EXCEPT !.pc = "receipt"]
        BY <2>1, <3>2
      <4> QED BY <1>2, <4>1 DEF CreateCall
    <3> QED BY <3>1, <3>2
  <2>4. KindOK(q)'
    BY <2>2, <2>3 DEF KindOK
  <2> QED BY <1>3, <1>4, <2>2, <2>4, KindMove
<1> QED BY <1>5, <1>6, <1>7

LEMMA KindReceipt ==
  ASSUME BillInv, KindInv, NEW s \in Slots, FindReceipt(s)
  PROVE  KindInv'
<1>1. PICK c : c = bill[s] /\ c.pc = "receipt"
  BY DEF FindReceipt
<1>2. c \in CreateCall /\ c.row.category \in category
  BY <1>1, BillCallKinds DEF BillInv, BillType, KindInv, KindOK
<1>3. PICK r : r = IF c.file \in Downloadable THEN c.file ELSE c.row.receipt
  OBVIOUS
<1>4. PICK row : row = [c.row EXCEPT !.receipt = r]
  OBVIOUS
<1>5. row.category = c.row.category
  <2>1. c.row \in [submitter : Users, category : CategoryNames, event : Outings \cup {None},
                  amount : Amounts, receipt : Receipts, status : {"DRAFT", "PENDING"}]
    BY <1>2 DEF CreateCall
  <2> QED BY <1>4, <2>1
<1>6. PICK q : q = [c EXCEPT !.pc = "insert", !.row = row]
  OBVIOUS
<1>7. q.pc = "insert" /\ q.row = row
  BY <1>2, <1>6 DEF CreateCall
<1>8. bill' = [bill EXCEPT ![s] = q] /\ UNCHANGED <<category, expense>>
  BY <1>1, <1>2, <1>3, <1>4, <1>6 DEF FindReceipt, BillGoto, Goto, CreateCall
<1>9. KindOK(q)'
  BY <1>2, <1>5, <1>7, <1>8 DEF KindOK
<1> QED BY <1>8, <1>9, KindMove DEF KindInv

LEMMA KindInsert ==
  ASSUME BillInv, KindInv, NEW s \in Slots, InsertExpense(s)
  PROVE  KindInv'
<1>1. PICK c : c = bill[s] /\ c.pc = "insert"
  BY DEF InsertExpense
<1>2. PICK row : row = c.row /\ row.category \in category
  BY <1>1 DEF KindInv, KindOK
<1>3. expense' = Append(expense, row) /\ bill' = [bill EXCEPT ![s] = Idle] /\ UNCHANGED category
  BY <1>1, <1>2 DEF InsertExpense, BillGoto, Goto
<1>4. PICK n \in Nat : n = Len(expense) /\ DOMAIN expense = 1 .. n
  BY DEF BillInv, BillType
<1>5. /\ DOMAIN expense' = 1 .. n + 1 /\ expense'[n + 1] = row
      /\ \A e \in 1 .. n : expense'[e] = expense[e]
  BY <1>3, <1>4 DEF BillInv, BillType
<1>6. DOMAIN expense' = DOMAIN expense \cup {n + 1}
  BY <1>4, <1>5
<1>7. \A e \in DOMAIN expense' : expense'[e].category \in category'
  BY <1>2, <1>3, <1>4, <1>5, <1>6 DEF KindInv
<1>8. KindOK(Idle)'
  BY DEF KindOK, Idle
<1> QED BY <1>3, <1>7, <1>8, KindMove

LEMMA KindStep == BillInv /\ KindInv /\ [BillNext]_billVars => KindInv'
<1> SUFFICES ASSUME BillInv, KindInv, [BillNext]_billVars PROVE KindInv'
  OBVIOUS
<1>1. ASSUME NEW s \in Slots, HeadObject(s) PROVE KindInv'
  <2>1. PICK c : c = bill[s] /\ c.pc = "head"
    BY <1>1 DEF HeadObject
  <2>2. c \in ConfirmCall
    BY <2>1, BillCallKinds DEF BillInv, BillType
  <2>3. PICK q : q = IF c.file \in stored THEN [c EXCEPT !.pc = "confirm"] ELSE Idle
    OBVIOUS
  <2>4. q.pc \in {"confirm", "idle"}
    BY <2>2, <2>3 DEF ConfirmCall, Idle
  <2>5. bill' = [bill EXCEPT ![s] = q] /\ UNCHANGED <<category, expense>>
    BY <1>1, <2>1, <2>3 DEF HeadObject, BillGoto, Goto
  <2> QED BY <2>4, <2>5, KindAside
<1>2. ASSUME NEW s \in Slots, MarkConfirmed(s) \/ SendReport(s) \/ BillDie(s) PROVE KindInv'
  <2>1. bill' = [bill EXCEPT ![s] = Idle] /\ UNCHANGED <<category, expense>>
    BY <1>2 DEF MarkConfirmed, SendReport, BillDie, Die, BillGoto, Goto
  <2>2. Idle.pc = "idle"
    BY DEF Idle
  <2> QED BY <2>1, <2>2, KindAside
<1>3. ASSUME NEW s \in Slots, WriteStatus(s) PROVE KindInv'
  <2>1. bill' = [bill EXCEPT ![s] = Idle] /\ UNCHANGED category
    BY <1>3 DEF WriteStatus, BillGoto, Goto
  <2>2. \A e \in DOMAIN expense' : expense'[e].category \in category'
    BY <1>3, <2>1, WriteShape DEF KindInv
  <2>3. KindOK(Idle)'
    BY DEF KindOK, Idle
  <2> QED BY <2>1, <2>2, <2>3, KindMove
<1>4. ASSUME NEW s \in Slots, NEW part \in ReportParts, ReadAggregate(s, part) PROVE KindInv'
  <2>1. PICK q \in ReportCall : bill' = [bill EXCEPT ![s] = q] /\ UNCHANGED <<category, expense>>
    BY <1>4, AggregateIs
  <2>2. q.pc = "report"
    BY DEF ReportCall
  <2> QED BY <2>1, <2>2, KindAside
<1>5. ASSUME NEW s \in Slots, BillStep(s) PROVE KindInv'
  BY <1>1, <1>2, <1>3, <1>4, <1>5, KindCategory, KindReceipt, KindInsert DEF BillStep
<1>6. CASE UNCHANGED <<category, expense, bill>>
  BY <1>6 DEF KindInv, KindOK
<1>7. ASSUME NEW u \in Users, RequestUploadUrl(u) PROVE UNCHANGED <<category, expense, bill>>
  BY <1>7 DEF RequestUploadUrl
<1>8. ASSUME NEW f \in DOMAIN file, Upload(f) PROVE UNCHANGED <<category, expense, bill>>
  BY <1>8 DEF Upload
<1>9. CASE UNCHANGED billVars
  BY <1>6, <1>9 DEF billVars
<1> QED BY <1>2, <1>5, <1>6, <1>7, <1>8, <1>9, KindRequest DEF BillNext

-----------------------------------------------------------------------------
(* Reports that no write has disturbed.                                    *)

LEMMA FilledStays ==
  ASSUME NEW c, Filled(c), UNCHANGED expense
  PROVE  Filled(c)'
BY DEF Filled, ByStatus, ByCategory, ByEvent, ApprovedTotal, SumOf

\* Expenses stay as they are, and so do the reports that are still quiet.
LEMMA ReportMove ==
  ASSUME ReportInv, UNCHANGED expense, quiet' \subseteq quiet, \A t \in quiet' : bill'[t] = bill[t]
  PROVE  ReportInv'
<1>1. ASSUME NEW t \in quiet' PROVE (bill[t].pc = "report" /\ Filled(bill[t]))'
  <2>1. PICK c : c = bill[t] /\ c.pc = "report" /\ Filled(c)
    BY DEF ReportInv
  <2>2. bill'[t] = c
    BY <2>1
  <2>3. Filled(c)'
    BY <2>1, FilledStays
  <2> QED BY <2>1, <2>2, <2>3 DEF Filled
<1> QED BY <1>1 DEF ReportInv

\* The call that moves is not a report.
LEMMA QuietAside ==
  ASSUME BillInv, ReportInv, NEW s \in Slots, bill[s].pc # "report", NEW q,
         bill' = [bill EXCEPT ![s] = q], UNCHANGED <<expense, quiet>>
  PROVE  ReportInv'
<1>1. \A t \in quiet' : bill'[t] = bill[t]
  BY DEF ReportInv, BillInv, BillType
<1> QED BY <1>1, ReportMove

LEMMA QuietRequest ==
  ASSUME BillInv, ReportInv, NEW s \in Slots, BillRequest(s)
  PROVE  ReportInv'
<1>1. bill[s].pc # "report"
  BY DEF BillRequest, Free, Idle
<1>2. CASE \E q : bill' = [bill EXCEPT ![s] = q] /\ UNCHANGED <<expense, quiet>>
  BY <1>1, <1>2, QuietAside
<1>3. ASSUME NEW u \in Users, NEW f \in DOMAIN file, ConfirmUpload(s, u, f)
      PROVE  \E q : bill' = [bill EXCEPT ![s] = q] /\ UNCHANGED <<expense, quiet>>
  BY <1>3 DEF ConfirmUpload, Begin
<1>4. ASSUME NEW u \in Users, NEW wanted \in CategoryNames, NEW event \in Outings \cup {None},
             NEW amount \in Amounts, NEW f \in 0 .. Len(file), NEW submit \in BOOLEAN,
             CreateExpense(s, u, wanted, event, amount, f, submit)
      PROVE  \E q : bill' = [bill EXCEPT ![s] = q] /\ UNCHANGED <<expense, quiet>>
  BY <1>4 DEF CreateExpense, Begin
<1>5. ASSUME NEW u \in Users, NEW e \in DOMAIN expense, NEW to \in Statuses, UpdateStatus(s, u, e, to)
      PROVE  \E q : bill' = [bill EXCEPT ![s] = q] /\ UNCHANGED <<expense, quiet>>
  BY <1>5 DEF UpdateStatus, Begin
<1>6. ASSUME NEW u \in Users, GetReports(s, u) PROVE ReportInv'
  <2>1. PICK q \in ReportCall : /\ q.todo = ReportParts /\ bill' = [bill EXCEPT ![s] = q]
                                /\ quiet' = quiet \cup {s} /\ UNCHANGED expense
    BY <1>6, GetReportsIs
  <2>2. q.pc = "report" /\ Filled(q)'
    BY <2>1 DEF ReportCall, Filled, ReportParts
  <2>3. ASSUME NEW t \in quiet' PROVE (bill[t].pc = "report" /\ Filled(bill[t]))'
    <3>1. CASE t = s
      <4>1. bill'[t] = q
        BY <2>1, <3>1 DEF BillInv, BillType
      <4> QED BY <2>2, <4>1 DEF Filled
    <3>2. CASE t # s
      <4>1. PICK c : c = bill[t] /\ c.pc = "report" /\ Filled(c)
        BY <2>1, <3>2 DEF ReportInv
      <4>2. bill'[t] = c
        BY <2>1, <3>2, <4>1 DEF BillInv, BillType, ReportInv
      <4>3. Filled(c)'
        BY <2>1, <4>1, FilledStays
      <4> QED BY <4>1, <4>2, <4>3 DEF Filled
    <3> QED BY <3>1, <3>2
  <2> QED BY <2>1, <2>3 DEF ReportInv
<1>7. \A wanted \in CategoryNames : SpentFor[wanted] \subseteq Outings \cup {None}
  BY BillAssumption
<1> QED BY <1>2, <1>3, <1>4, <1>5, <1>6, <1>7 DEF BillRequest

\* A report reads one more figure: the one that is there now.
LEMMA QuietRead ==
  ASSUME BillInv, ReportInv, NEW s \in Slots, NEW part \in ReportParts, ReadAggregate(s, part)
  PROVE  ReportInv'
<1>1. PICK c \in ReportCall, q \in ReportCall :
        /\ c = bill[s] /\ bill' = [bill EXCEPT ![s] = q] /\ Fills(c, q, part)
        /\ UNCHANGED <<expense, quiet>>
  BY AggregateIs
<1>2. ASSUME NEW t \in quiet' PROVE (bill[t].pc = "report" /\ Filled(bill[t]))'
  <2>1. CASE t = s
    <3>1. Filled(c)
      BY <1>1, <1>2, <2>1 DEF ReportInv
    <3>2. q.pc = "report" /\ Filled(q)
      BY <1>1, <3>1 DEF ReportCall, Filled, Fills
    <3>3. Filled(q)'
      BY <1>1, <3>2, FilledStays
    <3>4. bill'[t] = q
      BY <1>1, <2>1 DEF BillInv, BillType
    <3> QED BY <3>2, <3>3, <3>4 DEF Filled
  <2>2. CASE t # s
    <3>1. PICK d : d = bill[t] /\ d.pc = "report" /\ Filled(d)
      BY <1>1, <1>2, <2>2 DEF ReportInv
    <3>2. bill'[t] = d
      BY <1>1, <2>2, <3>1 DEF BillInv, BillType, ReportInv
    <3>3. Filled(d)'
      BY <1>1, <3>1, FilledStays
    <3> QED BY <3>1, <3>2, <3>3 DEF Filled
  <2> QED BY <2>1, <2>2
<1> QED BY <1>1, <1>2 DEF ReportInv

LEMMA QuietStep == BillInv /\ ReportInv /\ [BillNext]_billVars => ReportInv'
<1> SUFFICES ASSUME BillInv, ReportInv, [BillNext]_billVars PROVE ReportInv'
  OBVIOUS
<1>1. ASSUME NEW s \in Slots, InsertExpense(s) \/ WriteStatus(s) PROVE ReportInv'
  <2>1. quiet' = {}
    BY <1>1 DEF InsertExpense, WriteStatus
  <2> QED BY <2>1 DEF ReportInv
<1>2. ASSUME NEW s \in Slots, SendReport(s) \/ BillDie(s) PROVE ReportInv'
  <2>1. bill' = [bill EXCEPT ![s] = Idle] /\ quiet' = quiet \ {s} /\ UNCHANGED expense
    BY <1>2 DEF SendReport, BillDie, Die, BillGoto, Goto
  <2>2. \A t \in quiet' : bill'[t] = bill[t]
    BY <2>1 DEF ReportInv, BillInv, BillType
  <2> QED BY <2>1, <2>2, ReportMove
<1>3. ASSUME NEW s \in Slots, bill[s].pc # "report",
             \E q : bill' = [bill EXCEPT ![s] = q] /\ UNCHANGED <<expense, quiet>>
      PROVE  ReportInv'
  BY <1>3, QuietAside
<1>4. ASSUME NEW s \in Slots, HeadObject(s) \/ MarkConfirmed(s) \/ FindReceipt(s) \/ NewCategory(s)
      PROVE  ReportInv'
  <2>1. bill[s].pc # "report"
    BY <1>4 DEF HeadObject, MarkConfirmed, FindReceipt, NewCategory
  <2>2. \E q : bill' = [bill EXCEPT ![s] = q] /\ UNCHANGED <<expense, quiet>>
    <3>1. CASE HeadObject(s)
      BY <3>1 DEF HeadObject, BillGoto, Goto
    <3>2. CASE MarkConfirmed(s)
      BY <3>2 DEF MarkConfirmed, BillGoto, Goto
    <3>3. CASE FindReceipt(s)
      BY <3>3 DEF FindReceipt, BillGoto, Goto
    <3>4. CASE NewCategory(s)
      BY <3>4 DEF NewCategory, BillGoto, Goto
    <3> QED BY <1>4, <3>1, <3>2, <3>3, <3>4
  <2> QED BY <1>3, <2>1, <2>2
<1>5. ASSUME NEW s \in Slots, AnyCategory(s) PROVE ReportInv'
  <2>1. bill[s].pc # "report"
    BY <1>5 DEF AnyCategory
  <2>2. \E q : bill' = [bill EXCEPT ![s] = q] /\ UNCHANGED <<expense, quiet>>
    BY <1>5 DEF AnyCategory, BillGoto, Goto
  <2> QED BY <1>3, <2>1, <2>2
<1>6. ASSUME NEW s \in Slots, BillStep(s) PROVE ReportInv'
  BY <1>1, <1>2, <1>4, <1>5, <1>6, QuietRead DEF BillStep
<1>7. CASE UNCHANGED <<expense, bill, quiet>>
  BY <1>7, ReportMove
<1>8. ASSUME NEW u \in Users, RequestUploadUrl(u) PROVE UNCHANGED <<expense, bill, quiet>>
  BY <1>8 DEF RequestUploadUrl
<1>9. ASSUME NEW f \in DOMAIN file, Upload(f) PROVE UNCHANGED <<expense, bill, quiet>>
  BY <1>9 DEF Upload
<1>10. CASE UNCHANGED billVars
  BY <1>7, <1>10 DEF billVars
<1> QED BY <1>2, <1>6, <1>7, <1>8, <1>9, <1>10, QuietRequest DEF BillNext

LEMMA BillMoreInit == BillInit => KindInv /\ ReportInv /\ BillBudget
<1> SUFFICES ASSUME BillInit PROVE KindInv /\ ReportInv /\ BillBudget
  OBVIOUS
<1>1. MaxBill \in Nat
  BY BillAssumption, Zenon
<1>2. \A s \in Slots : bill[s].pc = "idle"
  BY DEF BillInit, Idle
<1> QED BY <1>1, <1>2 DEF BillInit, KindInv, KindOK, ReportInv, BillBudget

\* Every variable of the expenses has its type: no expense is of a category
\* that is not there, no object is in the bucket without its row in the table of
\* files, and every call in flight is one of createExpense, updateStatus,
\* confirmUpload or the reports.
THEOREM BillTypes == BillSpec => []BillTypeOK
<1>1. BillInv /\ KindInv /\ ReportInv /\ BillBudget => BillTypeOK
  <2> SUFFICES ASSUME BillInv, KindInv, ReportInv, BillBudget PROVE BillTypeOK
    OBVIOUS
  <2>1. bill \in [Slots -> {Idle} \cup CreateCall \cup StatusCall \cup ConfirmCall \cup ReportCall]
    BY DEF BillInv, BillType, CallType
  <2> QED BY <2>1 DEF BillInv, BillType, KindInv, ReportInv, BillBudget, BillTypeOK
<1> QED BY <1>1, BillInitInv, BillStepInv, BillMoreInit, KindStep, QuietStep, BillBudgetStep, PTL
        DEF BillSpec

-----------------------------------------------------------------------------
(* The figures of a report.                                                *)

\* Adding up by a column that has its values in `K` is adding up what has one.
LEMMA ColumnSums ==
  ASSUME expense \in Seq(ExpenseRow), NEW K, IsFiniteSet(K), NEW key, NEW g,
         \A k \in K : g[k] = SumOf(WithKey(DOMAIN expense, key, {k}))
  PROVE  /\ SumFunctionOnSet(g, K) = SumOf(WithKey(DOMAIN expense, key, K))
         /\ SumFunctionOnSet(g, K) <= SumOf(DOMAIN expense)
<1>1. PICK f : f = [e \in DOMAIN expense |-> expense[e].amount]
  OBVIOUS
<1>2. PICK S : S = DOMAIN expense /\ IsFiniteSet(S) /\ \A e \in S : f[e] \in Nat
  BY <1>1, AmountsIs
<1>3. \A set : SumOf(set) = SumFunctionOnSet(f, set)
  BY <1>1 DEF SumOf
<1>4. SumFunctionOnSet(g, K) = SumFunctionOnSet(f, WithKey(S, key, K))
  <2>1. SumsPerKey(g, K, f, S, key)
    BY <1>2, <1>3 DEF SumsPerKey
  <2>2. Counted(f, S)
    BY <1>2 DEF Counted
  <2> QED BY <2>1, <2>2, SumByKey
<1>5. PICK P \in SUBSET S : P = WithKey(S, key, K)
  BY DEF WithKey
<1>6. SumFunctionOnSet(f, S) = SumFunctionOnSet(f, P) + SumFunctionOnSet(f, S \ P)
  BY <1>2, <1>5, SumSplits
<1>7. SumFunctionOnSet(f, P) \in Nat /\ SumFunctionOnSet(f, S \ P) \in Nat
  <2>1. IsFiniteSet(P) /\ IsFiniteSet(S \ P)
    BY <1>2, <1>5, FS_Subset
  <2>2. (\A e \in P : f[e] \in Nat) /\ \A e \in S \ P : f[e] \in Nat
    BY <1>2, <1>5
  <2> QED BY <2>1, <2>2, SumRemoves
<1>8. SumFunctionOnSet(f, P) <= SumFunctionOnSet(f, S)
  BY <1>6, <1>7
<1> QED BY <1>2, <1>3, <1>4, <1>5, <1>8

LEMMA FiguresAgree ==
  ASSUME expense \in Seq(ExpenseRow)
  PROVE  /\ ApprovedTotal = ByStatus["APPROVED"]
         /\ SumFunction(ByCategory) = SumFunction(ByStatus)
         /\ SumFunction(ByEvent) <= SumFunction(ByStatus)
<1>1. PICK all : all = SumOf(DOMAIN expense)
  OBVIOUS
<1>2. SumFunction(ByStatus) = all
  <2>1. PICK key : key = [e \in DOMAIN expense |-> expense[e].status]
    OBVIOUS
  <2>2. \A k \in Statuses : ByStatus[k] = SumOf(WithKey(DOMAIN expense, key, {k}))
    <3>1. \A k : WithKey(DOMAIN expense, key, {k}) = {e \in DOMAIN expense : expense[e].status = k}
      BY <2>1 DEF WithKey
    <3> QED BY <3>1 DEF ByStatus
  <2>3. WithKey(DOMAIN expense, key, Statuses) = DOMAIN expense
    BY <2>1, AmountsIs DEF ExpenseRow, WithKey
  <2>4. IsFiniteSet(Statuses)
    <3>1. IsFiniteSet({})
      BY FS_EmptySet
    <3>2. IsFiniteSet({} \cup {"DRAFT"})
      BY <3>1, FS_AddElement
    <3>3. IsFiniteSet(({} \cup {"DRAFT"}) \cup {"PENDING"})
      BY <3>2, FS_AddElement
    <3>4. IsFiniteSet((({} \cup {"DRAFT"}) \cup {"PENDING"}) \cup {"APPROVED"})
      BY <3>3, FS_AddElement
    <3>5. IsFiniteSet(((({} \cup {"DRAFT"}) \cup {"PENDING"}) \cup {"APPROVED"}) \cup {"REJECTED"})
      BY <3>4, FS_AddElement
    <3>6. IsFiniteSet((((({} \cup {"DRAFT"}) \cup {"PENDING"}) \cup {"APPROVED"}) \cup {"REJECTED"})
                       \cup {"NEEDS_REVISION"})
      BY <3>5, FS_AddElement
    <3>7. Statuses = (((({} \cup {"DRAFT"}) \cup {"PENDING"}) \cup {"APPROVED"}) \cup {"REJECTED"})
                      \cup {"NEEDS_REVISION"}
      BY DEF Statuses
    <3> QED BY <3>6, <3>7
  <2>5. SumFunctionOnSet(ByStatus, Statuses) = SumOf(WithKey(DOMAIN expense, key, Statuses))
    BY <2>2, <2>4, ColumnSums
  <2>6. DOMAIN ByStatus = Statuses
    BY DEF ByStatus
  <2> QED BY <1>1, <2>3, <2>5, <2>6 DEF SumFunction
<1>3. SumFunction(ByCategory) = all
  <2>1. PICK key : key = [e \in DOMAIN expense |-> expense[e].category]
    OBVIOUS
  <2>2. \A k \in CategoryNames : ByCategory[k] = SumOf(WithKey(DOMAIN expense, key, {k}))
    <3>1. \A k : WithKey(DOMAIN expense, key, {k}) = {e \in DOMAIN expense : expense[e].category = k}
      BY <2>1 DEF WithKey
    <3> QED BY <3>1 DEF ByCategory
  <2>3. WithKey(DOMAIN expense, key, CategoryNames) = DOMAIN expense
    BY <2>1, AmountsIs DEF ExpenseRow, WithKey
  <2>4. IsFiniteSet(CategoryNames)
    BY BillAssumption, Zenon
  <2>5. SumFunctionOnSet(ByCategory, CategoryNames)
          = SumOf(WithKey(DOMAIN expense, key, CategoryNames))
    BY <2>2, <2>4, ColumnSums
  <2>6. DOMAIN ByCategory = CategoryNames
    BY DEF ByCategory
  <2> QED BY <1>1, <2>3, <2>5, <2>6 DEF SumFunction
<1>4. SumFunction(ByEvent) <= all
  <2>1. PICK key : key = [e \in DOMAIN expense |-> expense[e].event]
    OBVIOUS
  <2>2. \A k \in Outings : ByEvent[k] = SumOf(WithKey(DOMAIN expense, key, {k}))
    <3>1. \A k : WithKey(DOMAIN expense, key, {k}) = {e \in DOMAIN expense : expense[e].event = k}
      BY <2>1 DEF WithKey
    <3> QED BY <3>1 DEF ByEvent
  <2>3. IsFiniteSet(Outings)
    BY BillAssumption, Zenon
  <2>4. SumFunctionOnSet(ByEvent, Outings) <= SumOf(DOMAIN expense)
    BY <2>2, <2>3, ColumnSums
  <2>5. DOMAIN ByEvent = Outings
    BY DEF ByEvent
  <2> QED BY <1>1, <2>4, <2>5 DEF SumFunction
<1>5. ApprovedTotal = ByStatus["APPROVED"]
  BY DEF ApprovedTotal, ByStatus, Statuses
<1> QED BY <1>2, <1>3, <1>4, <1>5

\* A report during which no expense has changed has figures that agree: the
\* statuses are those of an export, the grand total is that of the approved, the
\* categories add up to what the statuses add up to, and the events to no more.
THEOREM ReportsAgree == BillSpec => []QuietReportAgrees
<1>1. BillInv /\ ReportInv => QuietReportAgrees
  <2> SUFFICES ASSUME BillInv, ReportInv, NEW s \in quiet, bill[s].todo = {}
               PROVE  /\ \A st \in Statuses :
                           bill[s].byStatus[st]
                             = SumOf({e \in DOMAIN Export(bill[s].user) :
                                        Export(bill[s].user)[e].status = st})
                      /\ bill[s].total = bill[s].byStatus["APPROVED"]
                      /\ SumFunction(bill[s].byCategory) = SumFunction(bill[s].byStatus)
                      /\ SumFunction(bill[s].byEvent) <= SumFunction(bill[s].byStatus)
    BY DEF QuietReportAgrees
  <2>1. PICK r \in ReportCall : r = bill[s] /\ r.todo = {} /\ Filled(r)
    BY BillCallKinds DEF BillInv, BillType, ReportInv
  <2>2. /\ r.byStatus = ByStatus /\ r.byCategory = ByCategory /\ r.byEvent = ByEvent
        /\ r.total = ApprovedTotal
    BY <2>1 DEF Filled
  <2>3. Export(r.user) = expense
    BY DEF Export, ReportCall
  <2>4. \A st \in Statuses : ByStatus[st] = SumOf({e \in DOMAIN expense : expense[e].status = st})
    BY DEF ByStatus
  <2>5. expense \in Seq(ExpenseRow)
    BY DEF BillInv, BillType
  <2>6. /\ ApprovedTotal = ByStatus["APPROVED"]
        /\ SumFunction(ByCategory) = SumFunction(ByStatus)
        /\ SumFunction(ByEvent) <= SumFunction(ByStatus)
    BY <2>5, FiguresAgree
  <2> QED BY <2>1, <2>2, <2>3, <2>4, <2>6
<1> QED BY <1>1, BillInitInv, BillStepInv, BillMoreInit, QuietStep, PTL DEF BillSpec

-----------------------------------------------------------------------------
(* AdminRecords.                                                           *)

OfficeCall == {Idle} \cup WinnersCall \cup FormCall

\* Types; the numbers of batches that have committed are taken, and a form
\* that has been read is there.
OfficeInv ==
  /\ OfficeTypeOK
  /\ officeLeft <= MaxOffice
  /\ \A b \in committed : b < Batch
  /\ \A s \in Slots : office[s].pc \in {"begin", "delete", "insert"} => office[s].by < Batch
  /\ \A s \in Slots : office[s].pc = "form" /\ office[s].row # None => form # None

LEMMA IdleCall == Idle.pc = "idle" /\ Idle \in OfficeCall
BY DEF Idle, OfficeCall

LEMMA OfficeKinds ==
  ASSUME NEW c \in OfficeCall
  PROVE  /\ c.pc \in {"begin", "delete", "insert"} => c \in WinnersCall
         /\ c.pc = "form" => c \in FormCall
         /\ c # Idle => c.pc \in {"begin", "delete", "insert", "form"}
BY DEF OfficeCall, WinnersCall, FormCall, Idle

LEMMA OfficeCalls ==
  ASSUME OfficeInv, NEW s \in Slots
  PROVE  /\ office[s] \in OfficeCall
         /\ \A q : office' = [office EXCEPT ![s] = q] =>
              \A t \in Slots : office'[t] = IF t = s THEN q ELSE office[t]
         /\ \A q \in OfficeCall : office' = [office EXCEPT ![s] = q] => office' \in [Slots -> OfficeCall]
BY DEF OfficeInv, OfficeTypeOK, OfficeCall

LEMMA BatchNat == OfficeInv => Batch \in Nat
BY OfficeAssumption DEF OfficeInv, OfficeTypeOK, Batch

\* A number is taken.
LEMMA NextBatch ==
  ASSUME OfficeInv, officeLeft > 0, officeLeft' = officeLeft - 1
  PROVE  officeLeft' \in Nat /\ officeLeft' <= MaxOffice /\ Batch' = Batch + 1 /\ Batch \in Nat
BY OfficeAssumption DEF OfficeInv, OfficeTypeOK, Batch

\* The rows of a list that is sent.
SentRows(list) == [k \in DOMAIN list |-> [user |-> list[k].user, position |-> list[k].position,
                                         by |-> Batch, since |-> committed]]

LEMMA SentRowsType ==
  ASSUME OfficeInv, NEW list \in WinnerLists
  PROVE  /\ SentRows(list) \in Seq(Winner)
         /\ \A k \in DOMAIN SentRows(list) :
              SentRows(list)[k].by = Batch /\ SentRows(list)[k].since = committed
<1>1. PICK rows : rows = [user : Users, position : Positions] /\ list \in Seq(rows)
  BY OfficeAssumption
<1>2. PICK n \in Nat : DOMAIN list = 1 .. n /\ \A k \in 1 .. n : list[k] \in rows
  BY <1>1, ElementOfSeq, LenProperties
<1>3. Batch \in Nat /\ committed \in SUBSET Nat
  BY BatchNat DEF OfficeInv, OfficeTypeOK
<1>4. \A k \in 1 .. n : SentRows(list)[k] \in Winner
  BY <1>1, <1>2, <1>3 DEF SentRows, Winner
<1>5. SentRows(list) = [k \in 1 .. n |-> SentRows(list)[k]]
  BY <1>2 DEF SentRows
<1>6. SentRows(list) \in Seq(Winner)
  BY <1>2, <1>4, <1>5, IsASeq
<1> QED BY <1>2, <1>6 DEF SentRows

-----------------------------------------------------------------------------
(* What each statement of setEventWinners leaves its call with.            *)

LEMMA Begun ==
  ASSUME OfficeInv, NEW s \in Slots, NEW list \in WinnerLists, SetEventWinners(s, list)
  PROVE  \E q \in WinnersCall :
           /\ q.pc = "begin" /\ q.by = Batch /\ q.todo = SentRows(list)
           /\ q.seen = {} /\ q.gone = {} /\ q.added = {}
           /\ office' = [office EXCEPT ![s] = q]
           /\ office[s] = Idle /\ officeLeft > 0 /\ officeLeft' = officeLeft - 1
           /\ UNCHANGED <<approved, winners, settings, form, committed, writes, chosen, blurred>>
<1>1. PICK q : q = [pc |-> "begin", user |-> None, by |-> Batch, todo |-> SentRows(list),
                    seen |-> {}, gone |-> {}, added |-> {}]
  OBVIOUS
<1>2. q \in WinnersCall
  BY <1>1, BatchNat, SentRowsType DEF WinnersCall
<1>3. office' = [office EXCEPT ![s] = q] /\ office[s] = Idle /\ officeLeft > 0
      /\ officeLeft' = officeLeft - 1
      /\ UNCHANGED <<approved, winners, settings, form, committed, writes, chosen, blurred>>
  BY <1>1 DEF SetEventWinners, SentRows, Begin, Free
<1> QED BY <1>1, <1>2, <1>3

LEMMA SnapshotStep ==
  ASSUME OfficeInv, NEW s \in Slots, DeleteBegin(s)
  PROVE  \E c, q \in WinnersCall :
           /\ c = office[s] /\ c.pc = "begin" /\ q.pc = "delete" /\ q.by = c.by /\ q.todo = c.todo
           /\ q.seen = winners /\ q.gone = c.gone /\ q.added = c.added
           /\ office' = [office EXCEPT ![s] = q] /\ UNCHANGED officeLeft
           /\ UNCHANGED <<approved, winners, settings, form, committed, writes, chosen, blurred>>
<1>1. PICK c \in OfficeCall : c = office[s]
  BY OfficeCalls
<1>2. c.pc = "begin" /\ c \in WinnersCall
  BY <1>1, OfficeKinds DEF DeleteBegin
<1>3. PICK q : q = [c EXCEPT !.pc = "delete", !.seen = winners]
  OBVIOUS
<1>4. winners \in SUBSET Winner
  BY DEF OfficeInv, OfficeTypeOK
<1>5. q \in WinnersCall /\ q.pc = "delete" /\ q.by = c.by /\ q.todo = c.todo
      /\ q.seen = winners /\ q.gone = c.gone /\ q.added = c.added
  BY <1>2, <1>3, <1>4 DEF WinnersCall
<1>6. office' = [office EXCEPT ![s] = q] /\ UNCHANGED officeLeft
      /\ UNCHANGED <<approved, winners, settings, form, committed, writes, chosen, blurred>>
  BY <1>1, <1>3 DEF DeleteBegin, OfficeGoto, Goto
<1> QED BY <1>1, <1>2, <1>5, <1>6

LEMMA Deleted ==
  ASSUME OfficeInv, NEW s \in Slots, DeleteEnd(s)
  PROVE  \E c, q \in WinnersCall :
           /\ c = office[s] /\ c.pc = "delete" /\ q.pc = "insert" /\ q.by = c.by /\ q.todo = c.todo
           /\ q.seen = c.seen /\ q.gone = c.seen \cap winners /\ q.added = c.added
           /\ office' = [office EXCEPT ![s] = q] /\ UNCHANGED officeLeft
           /\ UNCHANGED <<approved, winners, settings, form, committed, writes, chosen, blurred>>
<1>1. PICK c \in OfficeCall : c = office[s]
  BY OfficeCalls
<1>2. c.pc = "delete" /\ c \in WinnersCall
  BY <1>1, OfficeKinds DEF DeleteEnd
<1>3. PICK q : q = [c EXCEPT !.pc = "insert", !.gone = c.seen \cap winners]
  OBVIOUS
<1>4. q \in WinnersCall /\ q.pc = "insert" /\ q.by = c.by /\ q.todo = c.todo
      /\ q.seen = c.seen /\ q.gone = c.seen \cap winners /\ q.added = c.added
  BY <1>2, <1>3 DEF WinnersCall
<1>5. office' = [office EXCEPT ![s] = q] /\ UNCHANGED officeLeft
      /\ UNCHANGED <<approved, winners, settings, form, committed, writes, chosen, blurred>>
  BY <1>1, <1>3 DEF DeleteEnd, OfficeGoto, Goto
<1> QED BY <1>1, <1>2, <1>4, <1>5

\* An INSERT waits for no one, and clashes with nothing it can see, or it is the last.
LEMMA Inserted ==
  ASSUME OfficeInv, NEW s \in Slots, InsertWinner(s)
  PROVE  /\ UNCHANGED <<approved, winners, settings, form, committed, writes, chosen, blurred, officeLeft>>
         /\ \/ office' = [office EXCEPT ![s] = Idle]
            \/ \E c, q \in WinnersCall :
                 /\ c = office[s] /\ c.pc = "insert" /\ q.pc = "insert" /\ q.by = c.by
                 /\ c.todo \in Seq(Winner) /\ c.todo # <<>> /\ q.todo = Tail(c.todo)
                 /\ q.seen = c.seen /\ q.gone = c.gone /\ q.added = c.added \cup {Head(c.todo)}
                 /\ office' = [office EXCEPT ![s] = q]
                 /\ \A w \in (winners \ c.gone) \cup c.added : ~ Clash(Head(c.todo), w)
                 /\ \A t \in Writing(s) : \A w \in office[t].added \cup office[t].gone :
                      ~ Clash(Head(c.todo), w)
<1>1. PICK c \in OfficeCall : c = office[s]
  BY OfficeCalls
<1>2. c.pc = "insert" /\ c.todo # <<>> /\ c \in WinnersCall
  BY <1>1, OfficeKinds DEF InsertWinner
<1>3. UNCHANGED <<approved, winners, settings, form, committed, writes, chosen, blurred, officeLeft>>
  BY DEF InsertWinner, OfficeGoto, Goto
<1>4. CASE \E w \in (winners \ c.gone) \cup c.added : Clash(Head(c.todo), w)
  <2>1. office' = [office EXCEPT ![s] = Idle]
    BY <1>1, <1>4 DEF InsertWinner, OfficeGoto, Goto
  <2> QED BY <1>3, <2>1
<1>5. CASE ~ \E w \in (winners \ c.gone) \cup c.added : Clash(Head(c.todo), w)
  <2>1. PICK q : q = [c EXCEPT !.todo = Tail(@), !.added = @ \cup {Head(c.todo)}]
    OBVIOUS
  <2>2. office' = [office EXCEPT ![s] = q]
    BY <1>1, <1>5, <2>1 DEF InsertWinner, OfficeGoto, Goto
  <2>3. c.todo \in Seq(Winner) /\ c.added \in SUBSET Winner
    BY <1>2 DEF WinnersCall
  <2>4. Tail(c.todo) \in Seq(Winner) /\ Head(c.todo) \in Winner
    BY <1>2, <2>3, HeadTailProperties
  <2>5. /\ q \in WinnersCall /\ q.by = c.by /\ q.pc = "insert" /\ q.todo = Tail(c.todo)
        /\ q.added = c.added \cup {Head(c.todo)} /\ q.seen = c.seen /\ q.gone = c.gone
    BY <1>2, <2>1, <2>3, <2>4 DEF WinnersCall
  <2>6. \A t \in Writing(s) : \A w \in office[t].added \cup office[t].gone : ~ Clash(Head(c.todo), w)
    BY <1>1, <1>2 DEF InsertWinner, WaitsFor
  <2> QED BY <1>1, <1>2, <1>3, <1>5, <2>2, <2>3, <2>5, <2>6
<1> QED BY <1>4, <1>5

LEMMA Committed ==
  ASSUME OfficeInv, NEW s \in Slots, Commit(s)
  PROVE  \E c \in WinnersCall :
           /\ c = office[s] /\ c.pc = "insert"
           /\ winners' = (winners \ c.gone) \cup c.added
           /\ committed' = committed \cup {c.by}
           /\ office' = [office EXCEPT ![s] = Idle]
           /\ UNCHANGED <<approved, settings, form, writes, chosen, blurred, officeLeft>>
<1>1. PICK c \in OfficeCall : c = office[s]
  BY OfficeCalls
<1>2. c.pc = "insert" /\ c \in WinnersCall
  BY <1>1, OfficeKinds DEF Commit
<1>3. /\ winners' = (winners \ c.gone) \cup c.added
      /\ committed' = committed \cup {c.by}
      /\ office' = [office EXCEPT ![s] = Idle]
      /\ UNCHANGED <<approved, settings, form, writes, chosen, blurred, officeLeft>>
  BY <1>1 DEF Commit, OfficeGoto, Goto
<1> QED BY <1>1, <1>2, <1>3

LEMMA FormSent ==
  ASSUME OfficeInv, NEW s \in Slots, NEW u \in Users, NEW isActive \in BOOLEAN \cup {None},
         UpdateForm(s, u, isActive)
  PROVE  \E q \in FormCall :
           /\ q.pc = "form" /\ q.row = form /\ q.isActive = isActive
           /\ office' = [office EXCEPT ![s] = q]
           /\ office[s] = Idle /\ officeLeft > 0 /\ officeLeft' = officeLeft - 1
           /\ blurred' = (blurred \/ \E t \in Slots : office[t].pc = "form")
           /\ UNCHANGED <<approved, winners, settings, form, committed, writes, chosen>>
<1>1. PICK q : q = [pc |-> "form", user |-> u, row |-> form, isActive |-> isActive]
  OBVIOUS
<1>2. q \in FormCall
  BY <1>1 DEF FormCall, OfficeInv, OfficeTypeOK
<1> QED BY <1>1, <1>2 DEF UpdateForm, Begin, Free

LEMMA Ends ==
  ASSUME OfficeInv, NEW s \in Slots, BreakDeadlock(s) \/ OfficeDie(s)
  PROVE  /\ office' = [office EXCEPT ![s] = Idle] /\ UNCHANGED officeLeft
         /\ UNCHANGED <<approved, winners, settings, form, committed, writes, chosen, blurred>>
BY DEF BreakDeadlock, OfficeDie, OfficeGoto, Goto, Die

\* Writing the form: a form that was read is still there, and one that was not
\* is inserted unless somebody else has.
LEMMA FormWritten ==
  ASSUME OfficeInv, NEW s \in Slots, WriteForm(s)
  PROVE  \E c \in FormCall :
           /\ c = office[s] /\ c.pc = "form"
           /\ \/ /\ c.row # None /\ form # None
                 /\ form' = [isActive |-> IF c.isActive # None THEN c.isActive ELSE c.row.isActive,
                             version |-> form.version + 1]
              \/ /\ c.row = None /\ form = None
                 /\ form' = [isActive |-> IF c.isActive # None THEN c.isActive ELSE TRUE, version |-> 1]
              \/ c.row = None /\ form # None /\ UNCHANGED form
           /\ writes' = IF form' = form THEN writes ELSE writes + 1
           /\ chosen' = IF form' # form /\ c.isActive # None THEN c.isActive ELSE chosen
           /\ office' = [office EXCEPT ![s] = Idle]
           /\ UNCHANGED <<approved, winners, settings, committed, blurred, officeLeft>>
<1>1. PICK c \in OfficeCall : c = office[s]
  BY OfficeCalls
<1>2. c.pc = "form" /\ c \in FormCall
  BY <1>1, OfficeKinds DEF WriteForm
<1>3. c.row # None => form # None
  BY <1>1, <1>2 DEF OfficeInv
<1>4. /\ \/ /\ c.row # None
            /\ form' = [isActive |-> IF c.isActive # None THEN c.isActive ELSE c.row.isActive,
                        version |-> form.version + 1]
         \/ /\ c.row = None /\ form = None
            /\ form' = [isActive |-> IF c.isActive # None THEN c.isActive ELSE TRUE, version |-> 1]
         \/ c.row = None /\ form # None /\ UNCHANGED form
      /\ writes' = IF form' = form THEN writes ELSE writes + 1
      /\ chosen' = IF form' # form /\ c.isActive # None THEN c.isActive ELSE chosen
      /\ office' = [office EXCEPT ![s] = Idle]
      /\ UNCHANGED <<approved, winners, settings, committed, blurred, officeLeft>>
  BY <1>1 DEF WriteForm, OfficeGoto, Goto
<1> QED BY <1>1, <1>2, <1>3, <1>4

\* The row that is written.
LEMMA FormRowOK ==
  ASSUME OfficeInv, NEW s \in Slots, WriteForm(s)
  PROVE  /\ form' \in FormRow /\ form' # None
         /\ form = None => form'.version = 1
         /\ form # None => form \in FormRow /\ (form'.version = form.version + 1 \/ form' = form)
<1>1. PICK c \in FormCall :
        \/ /\ c.row # None /\ form # None
           /\ form' = [isActive |-> IF c.isActive # None THEN c.isActive ELSE c.row.isActive,
                       version |-> form.version + 1]
        \/ /\ c.row = None /\ form = None
           /\ form' = [isActive |-> IF c.isActive # None THEN c.isActive ELSE TRUE, version |-> 1]
        \/ c.row = None /\ form # None /\ UNCHANGED form
  BY FormWritten
<1>2. /\ c.isActive # None => c.isActive \in BOOLEAN
      /\ c.row # None => c.row \in FormRow
      /\ form # None => form \in FormRow
  BY DEF FormCall, OfficeInv, OfficeTypeOK
<1>3. \A row \in FormRow : row.isActive \in BOOLEAN /\ row.version \in Nat
  BY DEF FormRow
<1>4. \A b \in BOOLEAN, n \in Nat : [isActive |-> b, version |-> n] \in FormRow
  BY DEF FormRow
<1>5. CASE c.row # None /\ form # None
           /\ form' = [isActive |-> IF c.isActive # None THEN c.isActive ELSE c.row.isActive,
                       version |-> form.version + 1]
  <2>1. PICK b \in BOOLEAN, n \in Nat : form' = [isActive |-> b, version |-> n] /\ n = form.version + 1
    BY <1>2, <1>3, <1>5
  <2>2. form' \in FormRow /\ form'.version = n
    BY <1>4, <2>1
  <2> QED BY <1>2, <1>5, <2>1, <2>2, OfficeAssumption
<1>6. CASE c.row = None /\ form = None
           /\ form' = [isActive |-> IF c.isActive # None THEN c.isActive ELSE TRUE, version |-> 1]
  <2>1. PICK b \in BOOLEAN : form' = [isActive |-> b, version |-> 1]
    BY <1>2, <1>6
  <2>2. form' \in FormRow /\ form'.version = 1
    BY <1>4, <2>1
  <2> QED BY <1>6, <2>2, OfficeAssumption
<1>7. CASE form # None /\ UNCHANGED form
  BY <1>2, <1>7, OfficeAssumption
<1> QED BY <1>1, <1>5, <1>6, <1>7

LEMMA OfficeInitInv == OfficeInit => OfficeInv
<1> SUFFICES ASSUME OfficeInit PROVE OfficeInv
  OBVIOUS
<1>1. \A s \in Slots : office[s].pc = "idle"
  BY DEF OfficeInit, Idle
<1>2. officeLeft \in Nat /\ officeLeft <= MaxOffice /\ committed = {}
  BY OfficeAssumption DEF OfficeInit
<1>3. OfficeTypeOK
  <2>1. office \in [Slots -> {Idle}] /\ settings \in [Keys -> {0}]
    BY DEF OfficeInit
  <2> QED BY <1>2, <2>1 DEF OfficeInit, OfficeTypeOK
<1> QED BY <1>1, <1>2, <1>3 DEF OfficeInv

LEMMA OfficeStepInv == OfficeInv /\ [OfficeNext]_officeVars => OfficeInv'
<1> SUFFICES ASSUME OfficeInv, [OfficeNext]_officeVars PROVE OfficeInv'
  OBVIOUS
<1>0. Batch \in Nat /\ Idle \in OfficeCall /\ Idle.pc = "idle"
  BY BatchNat, IdleCall
<1>1. CASE UNCHANGED officeVars
  BY <1>1 DEF officeVars, OfficeInv, OfficeTypeOK, Batch
<1>2. ASSUME NEW keys, WriteKeys(keys) PROVE OfficeInv'
  <2>1. officeLeft > 0 /\ officeLeft' = officeLeft - 1
        /\ settings' = [k \in Keys |-> IF k \in keys THEN Batch ELSE settings[k]]
        /\ committed' = committed \cup {Batch}
        /\ UNCHANGED <<approved, winners, form, office, writes, chosen, blurred>>
    BY <1>2 DEF WriteKeys
  <2>2. officeLeft' \in Nat /\ officeLeft' <= MaxOffice /\ Batch' = Batch + 1
    BY <2>1, NextBatch
  <2>3. settings' \in [Keys -> Nat]
    BY <1>0, <2>1 DEF OfficeInv, OfficeTypeOK
  <2>4. \A t \in Slots : office[t].pc \in {"begin", "delete", "insert"} => office[t].by < Batch + 1
    <3> SUFFICES ASSUME NEW t \in Slots, office[t].pc \in {"begin", "delete", "insert"}
                 PROVE  office[t].by < Batch + 1
      OBVIOUS
    <3>1. office[t] \in WinnersCall
      BY OfficeCalls, OfficeKinds
    <3>2. office[t].by \in Nat /\ office[t].by < Batch
      BY <3>1 DEF OfficeInv, WinnersCall
    <3> QED BY <1>0, <3>2
  <2> QED BY <1>0, <2>1, <2>2, <2>3, <2>4 DEF OfficeInv, OfficeTypeOK
<1>3. ASSUME NEW u \in Users, Disqualify(u) PROVE OfficeInv'
  BY <1>3 DEF Disqualify, OfficeInv, OfficeTypeOK, Batch
\* A call begins, goes on or ends, and the tables stay.
<1>4. ASSUME NEW s \in Slots, NEW q \in OfficeCall, office' = [office EXCEPT ![s] = q],
             q.pc = "form" => q.row = form,
             q.pc \in {"begin", "delete", "insert"} => q.by \in Nat /\ q.by < Batch',
             \/ UNCHANGED officeLeft
             \/ officeLeft > 0 /\ officeLeft' = officeLeft - 1,
             UNCHANGED <<approved, winners, settings, form, committed, writes, chosen>>,
             blurred' \in BOOLEAN
      PROVE  OfficeInv'
  <2>1. officeLeft' \in Nat /\ officeLeft' <= MaxOffice /\ Batch' >= Batch /\ Batch' \in Nat
    <3>1. CASE UNCHANGED officeLeft
      BY <1>0, <3>1 DEF OfficeInv, OfficeTypeOK, Batch
    <3>2. CASE officeLeft > 0 /\ officeLeft' = officeLeft - 1
      BY <1>0, <3>2, NextBatch
    <3> QED BY <1>4, <3>1, <3>2
  <2>2. \A b \in committed' : b < Batch'
    BY <1>0, <1>4, <2>1 DEF OfficeInv, OfficeTypeOK
  <2>3. office' \in [Slots -> OfficeCall]
    BY <1>4, OfficeCalls
  <2>4. \A t \in Slots : office'[t].pc = "form" /\ office'[t].row # None => form' # None
    BY <1>4, OfficeCalls DEF OfficeInv
  <2>5. ASSUME NEW t \in Slots, office'[t].pc \in {"begin", "delete", "insert"}
        PROVE  office'[t].by < Batch'
    <3>1. CASE t = s
      BY <1>4, <2>5, <3>1, OfficeCalls
    <3>2. CASE t # s
      <4>1. office'[t] = office[t] /\ office[t] \in WinnersCall
        BY <1>4, <2>5, <3>2, OfficeCalls, OfficeKinds
      <4>2. office[t].by \in Nat /\ office[t].by < Batch
        BY <2>5, <4>1 DEF OfficeInv, WinnersCall
      <4> QED BY <1>0, <2>1, <4>1, <4>2
    <3> QED BY <3>1, <3>2
  <2> QED BY <1>4, <2>1, <2>2, <2>3, <2>4, <2>5 DEF OfficeInv, OfficeTypeOK, OfficeCall
<1>5. ASSUME NEW s \in Slots, OfficeRequest(s) PROVE OfficeInv'
  <2>1. ASSUME NEW list \in WinnerLists, SetEventWinners(s, list) PROVE OfficeInv'
    <3>1. PICK q \in WinnersCall :
           /\ q.pc = "begin" /\ q.by = Batch /\ office' = [office EXCEPT ![s] = q]
           /\ officeLeft > 0 /\ officeLeft' = officeLeft - 1
           /\ UNCHANGED <<approved, winners, settings, form, committed, writes, chosen, blurred>>
      BY <2>1, Begun
    <3>2. q \in OfficeCall /\ blurred' \in BOOLEAN /\ q.by \in Nat /\ q.by < Batch'
      BY <1>0, <3>1, NextBatch DEF OfficeCall, OfficeInv, OfficeTypeOK
    <3> QED BY <1>4, <3>1, <3>2
  <2>2. ASSUME NEW u \in Users, NEW isActive \in BOOLEAN \cup {None}, UpdateForm(s, u, isActive)
        PROVE  OfficeInv'
    <3>1. PICK q \in FormCall :
           /\ q.pc = "form" /\ q.row = form /\ office' = [office EXCEPT ![s] = q]
           /\ officeLeft > 0 /\ officeLeft' = officeLeft - 1
           /\ blurred' = (blurred \/ \E t \in Slots : office[t].pc = "form")
           /\ UNCHANGED <<approved, winners, settings, form, committed, writes, chosen>>
      BY <2>2, FormSent
    <3>2. q \in OfficeCall /\ blurred' \in BOOLEAN
      BY <3>1 DEF OfficeCall, OfficeInv, OfficeTypeOK
    <3> QED BY <1>4, <3>1, <3>2
  <2> QED BY <1>5, <2>1, <2>2 DEF OfficeRequest
<1>6. ASSUME NEW s \in Slots, DeleteBegin(s) \/ DeleteEnd(s) \/ InsertWinner(s) \/ BreakDeadlock(s)
                              \/ OfficeDie(s)
      PROVE  OfficeInv'
  <2>0. \A c, q \in WinnersCall : c = office[s] /\ q.by = c.by
                                 /\ c.pc \in {"begin", "delete", "insert"} =>
          q \in OfficeCall /\ q.by \in Nat /\ q.by < Batch
    BY DEF OfficeInv, OfficeCall, WinnersCall
  <2>1. \E q \in OfficeCall : /\ q.pc # "form" /\ office' = [office EXCEPT ![s] = q]
                              /\ q.pc \in {"begin", "delete", "insert"} => q.by \in Nat /\ q.by < Batch
    <3>1. CASE DeleteBegin(s)
      <4>1. PICK c, q \in WinnersCall :
              c = office[s] /\ c.pc = "begin" /\ q.pc = "delete" /\ q.by = c.by
              /\ office' = [office EXCEPT ![s] = q]
        BY <3>1, SnapshotStep
      <4> QED BY <2>0, <4>1
    <3>2. CASE DeleteEnd(s)
      <4>1. PICK c, q \in WinnersCall :
              c = office[s] /\ c.pc = "delete" /\ q.pc = "insert" /\ q.by = c.by
              /\ office' = [office EXCEPT ![s] = q]
        BY <3>2, Deleted
      <4> QED BY <2>0, <4>1
    <3>3. CASE InsertWinner(s)
      <4>1. CASE office' = [office EXCEPT ![s] = Idle]
        BY <1>0, <4>1
      <4>2. CASE office' # [office EXCEPT ![s] = Idle]
        <5>1. PICK c, q \in WinnersCall :
                c = office[s] /\ c.pc = "insert" /\ q.pc = "insert" /\ q.by = c.by
                /\ office' = [office EXCEPT ![s] = q]
          BY <3>3, <4>2, Inserted
        <5> QED BY <2>0, <5>1
      <4> QED BY <4>1, <4>2
    <3>4. CASE BreakDeadlock(s) \/ OfficeDie(s)
      BY <1>0, <3>4, Ends
    <3> QED BY <1>6, <3>1, <3>2, <3>3, <3>4
  <2>2. UNCHANGED <<approved, winners, settings, form, committed, writes, chosen, blurred, officeLeft>>
    BY <1>6, SnapshotStep, Deleted, Inserted, Ends
  <2>3. blurred' \in BOOLEAN
    BY <2>2 DEF OfficeInv, OfficeTypeOK
  <2>4. Batch' = Batch
    BY <2>2 DEF Batch
  <2> QED BY <1>4, <2>1, <2>2, <2>3, <2>4
<1>7. ASSUME NEW s \in Slots, Commit(s) PROVE OfficeInv'
  <2>1. PICK c \in WinnersCall :
           /\ c = office[s] /\ c.pc = "insert" /\ winners' = (winners \ c.gone) \cup c.added
           /\ committed' = committed \cup {c.by} /\ office' = [office EXCEPT ![s] = Idle]
           /\ UNCHANGED <<approved, settings, form, writes, chosen, blurred, officeLeft>>
    BY <1>7, Committed
  <2>2. c.by \in Nat /\ c.by < Batch /\ c.added \in SUBSET Winner
    BY <2>1 DEF WinnersCall, OfficeInv
  <2>3. office' \in [Slots -> OfficeCall]
        /\ \A t \in Slots : office'[t] = IF t = s THEN Idle ELSE office[t]
    BY <1>0, <2>1, OfficeCalls
  <2> QED BY <1>0, <2>1, <2>2, <2>3 DEF OfficeInv, OfficeTypeOK, OfficeCall, Batch
<1>8. ASSUME NEW s \in Slots, WriteForm(s) PROVE OfficeInv'
  <2>1. PICK c \in FormCall :
           /\ writes' = (IF form' = form THEN writes ELSE writes + 1)
           /\ chosen' = (IF form' # form /\ c.isActive # None THEN c.isActive ELSE chosen)
           /\ office' = [office EXCEPT ![s] = Idle]
           /\ UNCHANGED <<approved, winners, settings, committed, blurred, officeLeft>>
    BY <1>8, FormWritten
  <2>2. form' \in FormRow /\ form' # None
    BY <1>8, FormRowOK
  <2>3. office' \in [Slots -> OfficeCall]
        /\ \A t \in Slots : office'[t] = IF t = s THEN Idle ELSE office[t]
    BY <1>0, <2>1, OfficeCalls
  <2>4. writes' \in Nat /\ chosen' \in BOOLEAN
    BY <2>1 DEF OfficeInv, OfficeTypeOK, FormCall
  <2> QED BY <1>0, <2>1, <2>2, <2>3, <2>4 DEF OfficeInv, OfficeTypeOK, OfficeCall, Batch
<1> QED BY <1>1, <1>2, <1>3, <1>5, <1>6, <1>7, <1>8
       DEF OfficeNext, OfficeStep, UpdateSettings, UpdateRegNumberFormat

-----------------------------------------------------------------------------
(* The form.                                                               *)

\* The version counts the writes; and while no two updates have overlapped, the
\* only one in flight has read the form as it is, which is as last asked for.
FormInv ==
  /\ form = None => writes = 0 /\ chosen = TRUE
  /\ form # None => form.version = writes
  /\ ~ blurred =>
       /\ form # None => form.isActive = chosen
       /\ \A s, t \in Slots : office[s].pc = "form" /\ office[t].pc = "form" => s = t
       /\ \A s \in Slots : office[s].pc = "form" => office[s].row = form

\* Nothing but a form update touches a form update or the form.
LEMMA FormApart ==
  ASSUME FormInv, UNCHANGED <<form, writes, chosen, blurred>>,
         \A t \in Slots : office'[t].pc = "form" => office'[t] = office[t]
  PROVE  FormInv'
BY DEF FormInv

LEMMA FormStep == OfficeInv /\ FormInv /\ [OfficeNext]_officeVars => FormInv'
<1> SUFFICES ASSUME OfficeInv, FormInv, [OfficeNext]_officeVars PROVE FormInv'
  OBVIOUS
<1>1. CASE UNCHANGED officeVars
  BY <1>1 DEF officeVars, FormInv
<1>2. ASSUME NEW keys, WriteKeys(keys) PROVE FormInv'
  BY <1>2, FormApart DEF WriteKeys
<1>3. ASSUME NEW u \in Users, Disqualify(u) PROVE FormInv'
  BY <1>3, FormApart DEF Disqualify
<1>4. ASSUME NEW s \in Slots, NEW q, q.pc # "form", office' = [office EXCEPT ![s] = q],
             UNCHANGED <<form, writes, chosen, blurred>>
      PROVE  FormInv'
  BY <1>4, FormApart, OfficeCalls
<1>5. ASSUME NEW s \in Slots, NEW u \in Users, NEW isActive \in BOOLEAN \cup {None},
             UpdateForm(s, u, isActive)
      PROVE  FormInv'
  <2>1. PICK q \in FormCall :
           /\ q.pc = "form" /\ q.row = form /\ office' = [office EXCEPT ![s] = q]
           /\ blurred' = (blurred \/ \E t \in Slots : office[t].pc = "form")
           /\ UNCHANGED <<form, writes, chosen>>
    BY <1>5, FormSent
  <2>2. \A t \in Slots : office'[t] = IF t = s THEN q ELSE office[t]
    BY <2>1, OfficeCalls
  <2>3. form' = None => writes' = 0 /\ chosen' = TRUE
    BY <2>1 DEF FormInv
  <2>4. form' # None => form'.version = writes'
    BY <2>1 DEF FormInv
  <2>5. ASSUME ~ blurred'
        PROVE  /\ form' # None => form'.isActive = chosen'
               /\ \A t \in Slots : office'[t].pc = "form" => t = s /\ office'[t].row = form'
    <3>1. ~ blurred /\ \A t \in Slots : office[t].pc # "form"
      BY <2>1, <2>5
    <3> QED BY <2>1, <2>2, <3>1 DEF FormInv
  <2> QED BY <2>3, <2>4, <2>5 DEF FormInv
<1>6. ASSUME NEW s \in Slots, WriteForm(s) PROVE FormInv'
  <2>1. PICK c \in FormCall :
           /\ c = office[s] /\ c.pc = "form"
           /\ \/ /\ c.row # None /\ form # None
                 /\ form' = [isActive |-> IF c.isActive # None THEN c.isActive ELSE c.row.isActive,
                             version |-> form.version + 1]
              \/ /\ c.row = None /\ form = None
                 /\ form' = [isActive |-> IF c.isActive # None THEN c.isActive ELSE TRUE, version |-> 1]
              \/ c.row = None /\ form # None /\ UNCHANGED form
           /\ writes' = (IF form' = form THEN writes ELSE writes + 1)
           /\ chosen' = (IF form' # form /\ c.isActive # None THEN c.isActive ELSE chosen)
           /\ office' = [office EXCEPT ![s] = Idle]
           /\ UNCHANGED blurred
    BY <1>6, FormWritten
  <2>2. \A t \in Slots : office'[t] = IF t = s THEN Idle ELSE office[t]
    BY <2>1, OfficeCalls
  <2>3. form' # None /\ (form # None => form \in FormRow) /\ writes \in Nat
        /\ \A row \in FormRow : row.version \in Nat
    BY <1>6, FormRowOK DEF OfficeInv, OfficeTypeOK, FormRow
  <2>4. form'.version = writes'
    <3>1. CASE form # None /\ form'.version = form.version + 1
      <4>1. form' # form
        BY <2>3, <3>1
      <4> QED BY <2>1, <2>3, <3>1, <4>1 DEF FormInv
    <3>2. CASE form = None
      BY <1>6, <2>1, <2>3, <3>2, FormRowOK DEF FormInv
    <3>3. CASE form # None /\ UNCHANGED form
      BY <2>1, <3>3 DEF FormInv
    <3> QED BY <1>6, <3>1, <3>2, <3>3, FormRowOK
  <2>5. ASSUME ~ blurred
        PROVE  /\ form'.isActive = chosen'
               /\ \A t \in Slots : office'[t].pc # "form"
    <3>1. \A t \in Slots : office'[t].pc # "form"
      BY <2>1, <2>2, <2>5, IdleCall DEF FormInv
    <3>2. c.row = form
      BY <2>1, <2>5 DEF FormInv
    <3>3. CASE form # None
      <4>1. form.isActive = chosen
        BY <2>5, <3>3 DEF FormInv
      <4>2. form' = [isActive |-> IF c.isActive # None THEN c.isActive ELSE c.row.isActive,
                     version |-> form.version + 1]
        BY <2>1, <3>2, <3>3
      <4>3. form'.isActive = (IF c.isActive # None THEN c.isActive ELSE chosen)
            /\ form'.version = form.version + 1
        BY <3>2, <4>1, <4>2
      <4>4. form' # form
        BY <2>3, <3>3, <4>3
      <4> QED BY <2>1, <3>1, <4>3, <4>4
    <3>4. CASE form = None
      <4>1. form' = [isActive |-> IF c.isActive # None THEN c.isActive ELSE TRUE, version |-> 1]
            /\ chosen = TRUE /\ form' # form
        BY <2>1, <2>3, <3>2, <3>4 DEF FormInv
      <4>2. form'.isActive = (IF c.isActive # None THEN c.isActive ELSE chosen)
        BY <4>1
      <4> QED BY <2>1, <3>1, <4>1, <4>2
    <3> QED BY <3>3, <3>4
  <2> QED BY <2>1, <2>3, <2>4, <2>5 DEF FormInv
<1>7. ASSUME NEW s \in Slots, NEW list \in WinnerLists, SetEventWinners(s, list) PROVE FormInv'
  BY <1>4, <1>7, Begun
<1>8. ASSUME NEW s \in Slots, DeleteBegin(s) PROVE FormInv'
  BY <1>4, <1>8, SnapshotStep
<1>9. ASSUME NEW s \in Slots, DeleteEnd(s) PROVE FormInv'
  BY <1>4, <1>9, Deleted
<1>10. ASSUME NEW s \in Slots, InsertWinner(s) PROVE FormInv'
  <2>1. \E q : q.pc # "form" /\ office' = [office EXCEPT ![s] = q]
    <3>1. CASE office' = [office EXCEPT ![s] = Idle]
      BY <3>1, IdleCall
    <3>2. CASE office' # [office EXCEPT ![s] = Idle]
      <4>1. PICK q \in WinnersCall : q.pc = "insert" /\ office' = [office EXCEPT ![s] = q]
        BY <1>10, <3>2, Inserted
      <4> QED BY <4>1
    <3> QED BY <3>1, <3>2
  <2>2. UNCHANGED <<form, writes, chosen, blurred>>
    BY <1>10, Inserted
  <2> QED BY <1>4, <2>1, <2>2
<1>11. ASSUME NEW s \in Slots, Commit(s) PROVE FormInv'
  BY <1>4, <1>11, Committed DEF Idle
<1>12. ASSUME NEW s \in Slots, BreakDeadlock(s) \/ OfficeDie(s) PROVE FormInv'
  BY <1>4, <1>12, Ends DEF Idle
<1> QED BY <1>1, <1>2, <1>3, <1>5, <1>6, <1>7, <1>8, <1>9, <1>10, <1>11, <1>12
       DEF OfficeNext, OfficeStep, OfficeRequest, UpdateSettings, UpdateRegNumberFormat

(***************************************************************************)
(* The winners.                                                            *)
(***************************************************************************)
IsList(c) == c.pc \in {"begin", "delete", "insert"}

\* The rows that a call has inserted or will insert.
CallRows(c) == {c.todo[k] : k \in DOMAIN c.todo} \cup c.added

\* What a call sees of the rows committed before it was sent: it has found all
\* that still stand, and later deleted them; and what it has inserted clashes
\* with no row that will stand beside it.
ListOK(c) ==
  /\ c.by \notin committed
  /\ \A w \in CallRows(c) : w.by = c.by /\ w.since \subseteq committed
  /\ c.pc \in {"begin", "delete"} => c.added = {}
  /\ c.pc = "delete" => \A w \in CallRows(c), v \in winners : v.by \in w.since => v \in c.seen
  /\ c.pc = "insert" => \A w \in CallRows(c), v \in winners : v.by \in w.since => v \in c.gone
  /\ \A v, w \in c.added : v # w => ~ Clash(v, w)
  /\ \A v \in winners \ c.gone, w \in c.added : ~ Clash(v, w)

ListInv ==
  /\ \A w \in winners : w.by \in committed /\ w.since \subseteq committed
  /\ ReplacedForGood
  /\ \A s \in Slots : IsList(office[s]) => ListOK(office[s])
  /\ \A s, t \in Slots : s # t /\ IsList(office[s]) /\ IsList(office[t]) =>
       /\ office[s].by # office[t].by
       /\ \A v \in office[s].added, w \in office[t].added : ~ Clash(v, w)

LEMMA ClashBoth == \A v, w : Clash(v, w) <=> Clash(w, v)
BY DEF Clash

\* The rows stay the same when the first of them is inserted.
LEMMA RowsShift ==
  ASSUME NEW T, NEW todo \in Seq(T), todo # <<>>
  PROVE  {todo[k] : k \in DOMAIN todo} =
           {Tail(todo)[k] : k \in DOMAIN Tail(todo)} \cup {Head(todo)}
<1>1. PICK n \in Nat : n = Len(todo) /\ DOMAIN todo = 1 .. n /\ n > 0
  BY EmptySeq, LenProperties
<1>2. /\ Len(Tail(todo)) = n - 1 /\ Head(todo) = todo[1]
      /\ Tail(todo) \in Seq(T) /\ \A k \in 1 .. n - 1 : Tail(todo)[k] = todo[k + 1]
  BY <1>1, HeadTailProperties
<1>3. DOMAIN Tail(todo) = 1 .. n - 1
  BY <1>2, LenProperties
<1>4. ASSUME NEW k \in 1 .. n
      PROVE  todo[k] \in {Tail(todo)[j] : j \in DOMAIN Tail(todo)} \cup {Head(todo)}
  <2>1. CASE k = 1
    BY <1>2, <2>1
  <2>2. CASE k # 1
    <3>1. k - 1 \in 1 .. n - 1 /\ (k - 1) + 1 = k
      BY <1>1, <2>2
    <3>2. Tail(todo)[k - 1] = todo[k]
      BY <1>2, <3>1
    <3> QED BY <1>3, <3>1, <3>2
  <2> QED BY <2>1, <2>2
<1>5. ASSUME NEW k \in 1 .. n - 1
      PROVE  Tail(todo)[k] \in {todo[j] : j \in DOMAIN todo}
  <2>1. k + 1 \in 1 .. n
    BY <1>1
  <2> QED BY <1>1, <1>2, <2>1
<1>6. Head(todo) \in {todo[j] : j \in DOMAIN todo}
  BY <1>1, <1>2
<1> QED BY <1>1, <1>3, <1>4, <1>5, <1>6

\* More batches commit, and the winners stay: a call still sees what it saw.
LEMMA ListStill ==
  ASSUME NEW c \in WinnersCall, ListOK(c), UNCHANGED winners, committed \subseteq committed',
         c.by \notin committed'
  PROVE  ListOK(c)'
BY DEF ListOK, CallRows

\* A call begins, goes on or ends, and the winners stay.
LEMMA ListGoes ==
  ASSUME OfficeInv, ListInv, UNCHANGED winners, committed \subseteq committed',
         committed' \ committed \subseteq {Batch},
         NEW s \in Slots, NEW q \in OfficeCall, office' = [office EXCEPT ![s] = q],
         IsList(q) => /\ ListOK(q)'
                      /\ \A t \in Slots \ {s} : IsList(office[t]) =>
                           /\ q.by # office[t].by
                           /\ \A v \in q.added, w \in office[t].added : ~ Clash(v, w)
  PROVE  ListInv'
<1>1. \A t \in Slots : office'[t] = IF t = s THEN q ELSE office[t]
  BY OfficeCalls
<1>2. \A w \in winners' : w.by \in committed' /\ w.since \subseteq committed'
  BY DEF ListInv
<1>3. ReplacedForGood'
  BY DEF ListInv, ReplacedForGood
<1>4. ASSUME NEW t \in Slots, IsList(office'[t]) PROVE ListOK(office[t])'
  <2>1. CASE t = s
    BY <1>1, <1>4, <2>1 DEF ListOK, CallRows
  <2>2. CASE t # s
    <3>1. PICK d \in OfficeCall : d = office[t] /\ d = office'[t]
      BY <1>1, <2>2, OfficeCalls
    <3>2. d \in WinnersCall /\ ListOK(d) /\ d.by < Batch
      BY <1>4, <3>1, OfficeKinds DEF IsList, ListInv, OfficeInv
    <3>3. d.by \notin committed'
      <4>1. d.by \in Nat /\ Batch \in Nat
        BY <3>2, BatchNat DEF WinnersCall
      <4> QED BY <3>2, <4>1 DEF ListOK
    <3>4. ListOK(d)'
      BY <3>2, <3>3, ListStill
    <3> QED BY <3>1, <3>4 DEF ListOK, CallRows
  <2> QED BY <2>1, <2>2
<1>5. ASSUME NEW t \in Slots, NEW u \in Slots, t # u, IsList(office'[t]), IsList(office'[u])
      PROVE  /\ office'[t].by # office'[u].by
             /\ \A v \in office'[t].added, w \in office'[u].added : ~ Clash(v, w)
  <2>1. CASE t # s /\ u # s
    BY <1>1, <1>5, <2>1 DEF ListInv
  <2>2. CASE t = s
    BY <1>1, <1>5, <2>2
  <2>3. CASE u = s
    BY <1>1, <1>5, <2>3, ClashBoth
  <2> QED BY <2>1, <2>2, <2>3
<1>6. \A t \in Slots : (IsList(office[t]) => ListOK(office[t]))'
  BY <1>4 DEF IsList
<1> QED BY <1>2, <1>3, <1>5, <1>6 DEF ListInv, IsList, Clash

LEMMA BegunList ==
  ASSUME OfficeInv, ListInv, NEW s \in Slots, NEW list \in WinnerLists, SetEventWinners(s, list)
  PROVE  ListInv'
<1>1. PICK q \in WinnersCall :
        /\ q.pc = "begin" /\ q.by = Batch /\ q.todo = SentRows(list)
        /\ q.seen = {} /\ q.gone = {} /\ q.added = {}
        /\ office' = [office EXCEPT ![s] = q] /\ UNCHANGED <<winners, committed>>
  BY Begun
<1>2. \A w \in CallRows(q) : w.by = Batch /\ w.since = committed
  BY <1>1, SentRowsType DEF CallRows
<1>3. Batch \notin committed
  BY BatchNat DEF OfficeInv
<1>4. ListOK(q)
  BY <1>1, <1>2, <1>3 DEF ListOK
<1>5. ListOK(q)'
  BY <1>1, <1>4 DEF ListOK, CallRows
<1>6. \A t \in Slots : IsList(office[t]) => office[t].by # Batch
  <2> SUFFICES ASSUME NEW t \in Slots, IsList(office[t]) PROVE office[t].by # Batch
    OBVIOUS
  <2>1. office[t] \in WinnersCall
    BY OfficeCalls, OfficeKinds DEF IsList
  <2>2. office[t].by \in Nat /\ office[t].by < Batch /\ Batch \in Nat
    BY <2>1, BatchNat DEF OfficeInv, IsList, WinnersCall
  <2> QED BY <2>2
<1> QED BY <1>1, <1>5, <1>6, ListGoes DEF OfficeCall

LEMMA SnapshotList ==
  ASSUME OfficeInv, ListInv, NEW s \in Slots, DeleteBegin(s)
  PROVE  ListInv'
<1>1. PICK c, q \in WinnersCall :
           /\ c = office[s] /\ c.pc = "begin" /\ q.pc = "delete" /\ q.by = c.by /\ q.todo = c.todo
           /\ q.seen = winners /\ q.gone = c.gone /\ q.added = c.added
           /\ office' = [office EXCEPT ![s] = q] /\ UNCHANGED <<winners, committed>>
  BY SnapshotStep
<1>2. IsList(office[s]) /\ ListOK(c)
  BY <1>1 DEF IsList, ListInv
<1>3. CallRows(q) = CallRows(c)
  BY <1>1 DEF CallRows
<1>4. ListOK(q)
  BY <1>1, <1>2, <1>3 DEF ListOK
<1>5. ListOK(q)'
  BY <1>1, <1>4 DEF ListOK, CallRows
<1>6. \A t \in Slots \ {s} : IsList(office[t]) =>
        /\ q.by # office[t].by
        /\ \A v \in q.added, w \in office[t].added : ~ Clash(v, w)
  BY <1>1, <1>2 DEF ListInv
<1> QED BY <1>1, <1>5, <1>6, ListGoes DEF OfficeCall

LEMMA DeletedList ==
  ASSUME OfficeInv, ListInv, NEW s \in Slots, DeleteEnd(s)
  PROVE  ListInv'
<1>1. PICK c, q \in WinnersCall :
           /\ c = office[s] /\ c.pc = "delete" /\ q.pc = "insert" /\ q.by = c.by /\ q.todo = c.todo
           /\ q.seen = c.seen /\ q.gone = c.seen \cap winners /\ q.added = c.added
           /\ office' = [office EXCEPT ![s] = q] /\ UNCHANGED <<winners, committed>>
  BY Deleted
<1>2. IsList(office[s]) /\ ListOK(c)
  BY <1>1 DEF IsList, ListInv
<1>3. CallRows(q) = CallRows(c)
  BY <1>1 DEF CallRows
<1>4. ListOK(q)
  BY <1>1, <1>2, <1>3 DEF ListOK
<1>5. ListOK(q)'
  BY <1>1, <1>4 DEF ListOK, CallRows
<1>6. \A t \in Slots \ {s} : IsList(office[t]) =>
        /\ q.by # office[t].by
        /\ \A v \in q.added, w \in office[t].added : ~ Clash(v, w)
  BY <1>1, <1>2 DEF ListInv
<1> QED BY <1>1, <1>5, <1>6, ListGoes DEF OfficeCall

LEMMA EndsList ==
  ASSUME OfficeInv, ListInv, NEW s \in Slots, office' = [office EXCEPT ![s] = Idle],
         UNCHANGED <<winners, committed>>
  PROVE  ListInv'
BY IdleCall, ListGoes DEF IsList

LEMMA InsertedList ==
  ASSUME OfficeInv, ListInv, NEW s \in Slots, InsertWinner(s)
  PROVE  ListInv'
<1>1. CASE office' = [office EXCEPT ![s] = Idle]
  BY <1>1, Inserted, EndsList
<1>2. CASE office' # [office EXCEPT ![s] = Idle]
  <2>1. PICK c, q \in WinnersCall :
          /\ c = office[s] /\ c.pc = "insert" /\ q.pc = "insert" /\ q.by = c.by
          /\ c.todo \in Seq(Winner) /\ c.todo # <<>> /\ q.todo = Tail(c.todo)
          /\ q.seen = c.seen /\ q.gone = c.gone /\ q.added = c.added \cup {Head(c.todo)}
          /\ office' = [office EXCEPT ![s] = q]
          /\ \A w \in (winners \ c.gone) \cup c.added : ~ Clash(Head(c.todo), w)
          /\ \A t \in Writing(s) : \A w \in office[t].added \cup office[t].gone :
               ~ Clash(Head(c.todo), w)
    BY <1>2, Inserted
  <2>2. UNCHANGED <<winners, committed>>
    BY Inserted
  <2>3. IsList(office[s]) /\ ListOK(c)
    BY <2>1 DEF IsList, ListInv
  <2>4. CallRows(q) = CallRows(c)
    <3>1. PICK todo, rest : todo = c.todo /\ rest = q.todo
      OBVIOUS
    <3>2. todo \in Seq(Winner) /\ todo # <<>> /\ rest = Tail(todo)
      BY <2>1, <3>1
    <3>3. {todo[k] : k \in DOMAIN todo} = {rest[k] : k \in DOMAIN rest} \cup {Head(todo)}
      BY <3>2, RowsShift
    <3>4. CallRows(c) = {todo[k] : k \in DOMAIN todo} \cup c.added
      BY <3>1 DEF CallRows
    <3>5. CallRows(q) = {rest[k] : k \in DOMAIN rest} \cup (c.added \cup {Head(todo)})
      BY <2>1, <3>1 DEF CallRows
    <3> QED BY <3>3, <3>4, <3>5
  <2>5. ListOK(q)
    <3>1. \A v, w \in q.added : v # w => ~ Clash(v, w)
      BY <2>1, <2>3, ClashBoth DEF ListOK
    <3>2. \A v \in winners \ q.gone, w \in q.added : ~ Clash(v, w)
      BY <2>1, <2>3, ClashBoth DEF ListOK
    <3> QED BY <2>1, <2>3, <2>4, <3>1, <3>2 DEF ListOK
  <2>6. ListOK(q)'
    BY <2>2, <2>5 DEF ListOK, CallRows
  <2>7. ASSUME NEW t \in Slots \ {s}, IsList(office[t])
        PROVE  /\ q.by # office[t].by
               /\ \A v \in q.added, w \in office[t].added : ~ Clash(v, w)
    <3>1. office[t].added # {} => t \in Writing(s)
      BY <2>7 DEF ListInv, ListOK, IsList, Writing
    <3> QED BY <2>1, <2>3, <2>7, <3>1 DEF ListInv
  <2> QED BY <2>1, <2>2, <2>6, <2>7, ListGoes DEF OfficeCall
<1> QED BY <1>1, <1>2

\* A commit puts the rows of its batch in the place of those that it has deleted.
LEMMA CommittedList ==
  ASSUME OfficeInv, ListInv, NEW s \in Slots, Commit(s)
  PROVE  ListInv'
<1>1. PICK c \in WinnersCall :
           /\ c = office[s] /\ c.pc = "insert"
           /\ winners' = (winners \ c.gone) \cup c.added
           /\ committed' = committed \cup {c.by}
           /\ office' = [office EXCEPT ![s] = Idle]
  BY Committed
<1>2. IsList(office[s]) /\ ListOK(c)
  BY <1>1 DEF IsList, ListInv
<1>3. \A t \in Slots : office'[t] = IF t = s THEN Idle ELSE office[t]
  BY <1>1, OfficeCalls
<1>4. \A w \in c.added : w.by = c.by /\ w.since \subseteq committed
  BY <1>2 DEF ListOK, CallRows
<1>5. \A w \in winners' : w.by \in committed' /\ w.since \subseteq committed'
  BY <1>1, <1>4 DEF ListInv
<1>6. ReplacedForGood'
  <2> SUFFICES ASSUME NEW v \in winners', NEW w \in winners'
               PROVE  v.by \notin w.since /\ (v # w => ~ Clash(v, w))
    BY DEF ReplacedForGood, Clash
  <2>1. CASE v \in winners \ c.gone /\ w \in winners \ c.gone
    BY <2>1 DEF ListInv, ReplacedForGood
  <2>2. CASE v \in c.added /\ w \in c.added
    BY <1>2, <1>4, <2>2 DEF ListOK
  <2>3. CASE v \in winners \ c.gone /\ w \in c.added
    <3>1. w \in CallRows(c)
      BY <2>3 DEF CallRows
    <3> QED BY <1>1, <1>2, <2>3, <3>1 DEF ListOK
  <2>4. CASE v \in c.added /\ w \in winners \ c.gone
    <3>1. v.by = c.by /\ c.by \notin committed /\ w.since \subseteq committed
      BY <1>2, <1>4, <2>4 DEF ListOK, ListInv
    <3>2. ~ Clash(w, v)
      BY <1>2, <2>4 DEF ListOK
    <3> QED BY <3>1, <3>2, ClashBoth
  <2> QED BY <1>1, <2>1, <2>2, <2>3, <2>4
<1>7. ASSUME NEW t \in Slots, IsList(office'[t]) PROVE ListOK(office[t])'
  <2>1. t # s
    BY <1>3, <1>7, IdleCall DEF IsList
  <2>2. PICK d \in OfficeCall : d = office[t] /\ d = office'[t]
    BY <1>3, <2>1, OfficeCalls
  <2>3. d \in WinnersCall /\ ListOK(d) /\ d.by # c.by
        /\ \A v \in c.added, w \in d.added : ~ Clash(v, w)
    BY <1>1, <1>2, <1>7, <2>1, <2>2, OfficeKinds DEF IsList, ListInv
  <2>4. \A w \in CallRows(d), v \in c.added : v.by \notin w.since
    BY <1>2, <1>4, <2>3 DEF ListOK
  <2>5. ListOK(d)'
    BY <1>1, <2>3, <2>4 DEF ListOK, CallRows, Clash
  <2> QED BY <2>2, <2>5 DEF ListOK, CallRows
<1>8. ASSUME NEW t \in Slots, NEW u \in Slots, t # u, IsList(office'[t]), IsList(office'[u])
      PROVE  /\ office'[t].by # office'[u].by
             /\ \A v \in office'[t].added, w \in office'[u].added : ~ Clash(v, w)
  BY <1>3, <1>8, IdleCall DEF IsList, ListInv
<1>9. \A t \in Slots : (IsList(office[t]) => ListOK(office[t]))'
  BY <1>7 DEF IsList
<1> QED BY <1>5, <1>6, <1>8, <1>9 DEF ListInv, IsList, Clash

LEMMA ListStep == OfficeInv /\ ListInv /\ [OfficeNext]_officeVars => ListInv'
<1> SUFFICES ASSUME OfficeInv, ListInv, [OfficeNext]_officeVars PROVE ListInv'
  OBVIOUS
<1>1. ASSUME UNCHANGED <<office, winners>>, committed \subseteq committed',
             committed' \ committed \subseteq {Batch}
      PROVE  ListInv'
  <2>1. CASE Slots = {}
    BY <1>1, <2>1 DEF ListInv, ReplacedForGood
  <2>2. CASE Slots # {}
    <3>1. PICK s \in Slots : TRUE
      BY <2>2
    <3>2. PICK q \in OfficeCall : q = office[s] /\ office' = [office EXCEPT ![s] = q]
      BY <1>1, <3>1 DEF OfficeInv, OfficeTypeOK, OfficeCall
    <3>3. ASSUME IsList(q)
          PROVE  /\ ListOK(q)'
                 /\ \A t \in Slots \ {s} : IsList(office[t]) =>
                           /\ q.by # office[t].by
                           /\ \A v \in q.added, w \in office[t].added : ~ Clash(v, w)
      <4>1. q \in WinnersCall /\ ListOK(q) /\ q.by < Batch
        BY <3>2, <3>3, OfficeKinds DEF IsList, ListInv, OfficeInv
      <4>2. q.by \in Nat /\ Batch \in Nat
        BY <4>1, BatchNat DEF WinnersCall
      <4>3. q.by \notin committed'
        BY <1>1, <4>1, <4>2 DEF ListOK
      <4>4. ListOK(q)'
        BY <1>1, <4>1, <4>3, ListStill
      <4> QED BY <3>2, <3>3, <4>4 DEF ListInv
    <3> QED BY <1>1, <3>2, <3>3, ListGoes
  <2> QED BY <2>1, <2>2
<1>2. CASE UNCHANGED officeVars
  BY <1>1, <1>2 DEF officeVars
<1>3. ASSUME NEW keys, WriteKeys(keys) PROVE ListInv'
  BY <1>1, <1>3 DEF WriteKeys
<1>4. ASSUME NEW u \in Users, Disqualify(u) PROVE ListInv'
  BY <1>1, <1>4 DEF Disqualify
<1>5. ASSUME NEW s \in Slots, NEW u \in Users, NEW isActive \in BOOLEAN \cup {None},
             UpdateForm(s, u, isActive)
      PROVE  ListInv'
  <2>1. PICK q \in FormCall :
          q.pc = "form" /\ office' = [office EXCEPT ![s] = q] /\ UNCHANGED <<winners, committed>>
    BY <1>5, FormSent
  <2> QED BY <2>1, ListGoes DEF OfficeCall, IsList
<1>6. ASSUME NEW s \in Slots, WriteForm(s) PROVE ListInv'
  BY <1>6, FormWritten, EndsList
<1>7. ASSUME NEW s \in Slots, BreakDeadlock(s) \/ OfficeDie(s) PROVE ListInv'
  BY <1>7, Ends, EndsList
<1> QED BY <1>2, <1>3, <1>4, <1>5, <1>6, <1>7,
           BegunList, SnapshotList, DeletedList, InsertedList, CommittedList
       DEF OfficeNext, OfficeStep, OfficeRequest, UpdateSettings, UpdateRegNumberFormat

-----------------------------------------------------------------------------
LEMMA OfficeInits == OfficeInit => FormInv /\ ListInv
<1> SUFFICES ASSUME OfficeInit PROVE FormInv /\ ListInv
  OBVIOUS
<1>1. \A s \in Slots : office[s].pc = "idle"
  BY DEF OfficeInit, Idle
<1> QED BY <1>1 DEF OfficeInit, FormInv, ListInv, IsList, ReplacedForGood

\* Every variable of the records has its type, and what a batch has written bears
\* a number that was given out.
THEOREM OfficeTypes == OfficeSpec => []OfficeTypeOK
<1>1. OfficeInv => OfficeTypeOK
  BY DEF OfficeInv
<1> QED BY <1>1, OfficeInitInv, OfficeStepInv, PTL DEF OfficeSpec

\* The version of a form counts its writes, for any number of editors at once,
\* and isActive is as last asked for as long as no two of them overlap.
THEOREM FormWrites == OfficeSpec => []FormCountsWrites
<1>1. FormInv => FormCountsWrites
  BY DEF FormInv, FormCountsWrites
<1> QED BY <1>1, OfficeInitInv, OfficeStepInv, OfficeInits, FormStep, PTL DEF OfficeSpec

\* For any number of lists of winners sent at the same time: one sent after
\* another had committed never stands beside it, and no user or position is listed twice.
THEOREM WinnersReplaced == OfficeSpec => []ReplacedForGood
<1>1. ListInv => ReplacedForGood
  BY DEF ListInv
<1> QED BY <1>1, OfficeInitInv, OfficeStepInv, OfficeInits, ListStep, PTL DEF OfficeSpec

-----------------------------------------------------------------------------
(* People.                                                                 *)

(***************************************************************************)
(* Accounts and groups.  A call that writes a row for an account has seen  *)
(* it; a role or membership that an assignment has dealt with is there, or *)
(* has been deleted since.                                                 *)
(***************************************************************************)
PeopleCall == {Idle} \cup SignUpCall \cup MemberCall \cup GroupCall \cup RoleCall

PeopleTables ==
  /\ account \subseteq Users
  /\ inactive \subseteq account
  /\ role \subseteq account \X Roles
  /\ group \subseteq Groups
  /\ rule \in [Groups -> SUBSET Users]
  /\ member \subseteq group \X account
  /\ peopleLeft \in Nat
  /\ settled \subseteq Memberships
  /\ dropped \subseteq Memberships \cup (Users \X Roles)

\* A role or a membership is there or has been deleted.
RoleMet(u) == <<u, "participant">> \in role \cup dropped
GroupMet(g, u) == <<g, u>> \in member \cup dropped

AccountKnown(c) ==
  /\ c.pc \in {"role", "groups", "next", "join"} => c.user \in account
  /\ c.pc \in {"add", "grant", "revoke"} => c.target \in account

AssignmentKnown(c) ==
  /\ c.pc \in {"groups", "next", "join"} => RoleMet(c.user)
  /\ c.pc \in {"next", "join"} => \A g \in c.met \ c.todo : GroupMet(g, c.user)

PeopleCallOK(c) == AccountKnown(c) /\ AssignmentKnown(c)

PeopleCallsOK == people \in [Slots -> PeopleCall] /\ \A s \in Slots : PeopleCallOK(people[s])

SettledOK == \A g \in Groups, u \in Users : <<g, u>> \in settled => RoleMet(u) /\ GroupMet(g, u)

PeopleInv == PeopleTables /\ PeopleCallsOK /\ SettledOK

\* What a step does to the tables: no account goes, and nothing that is deleted
\* goes unnoticed.
Noticed ==
  /\ account \subseteq account'
  /\ \A u \in Users : RoleMet(u) => RoleMet(u)'
  /\ \A g \in Groups, u \in Users : GroupMet(g, u) => GroupMet(g, u)'

LEMMA PeopleTypesOf == PeopleInv => PeopleTypeOK
BY DEF PeopleInv, PeopleTables, PeopleCallsOK, PeopleTypeOK, PeopleCall

LEMMA PeopleKinds ==
  ASSUME NEW c \in PeopleCall
  PROVE  /\ c.pc \in {"open", "role", "groups", "next", "join"} => c \in SignUpCall
         /\ c.pc \in {"look", "add", "find", "drop"} => c \in MemberCall
         /\ c.pc \in {"empty", "delete"} => c \in GroupCall
         /\ c.pc \in {"grant", "revoke"} => c \in RoleCall
BY DEF PeopleCall, SignUpCall, MemberCall, GroupCall, RoleCall, Idle

LEMMA IdlePerson == Idle \in PeopleCall /\ Idle.pc = "idle" /\ \A c : c = Idle => PeopleCallOK(c)
BY DEF Idle, PeopleCall, PeopleCallOK, AccountKnown, AssignmentKnown

\* The call of a slot, as a constant.
LEMMA PeopleCallOf ==
  ASSUME PeopleInv, NEW s \in Slots
  PROVE  \E c \in PeopleCall : c = people[s] /\ PeopleCallOK(c)
BY DEF PeopleInv, PeopleCallsOK

\* What a call knows stays true.
LEMMA KnownStays ==
  ASSUME NEW c \in PeopleCall, PeopleCallOK(c), Noticed
  PROVE  PeopleCallOK(c)'
<1>1. CASE c.pc \in {"open", "role", "groups", "next", "join"}
  <2>1. c.user \in Users /\ c.todo \subseteq Groups /\ c.met \subseteq Groups
    BY <1>1, PeopleKinds DEF SignUpCall
  <2> QED BY <1>1, <2>1 DEF PeopleCallOK, AccountKnown, AssignmentKnown, Noticed
<1>2. CASE c.pc \notin {"open", "role", "groups", "next", "join"}
  BY <1>2 DEF PeopleCallOK, AccountKnown, AssignmentKnown, Noticed
<1> QED BY <1>1, <1>2

LEMMA SettledStays ==
  ASSUME PeopleInv, Noticed, UNCHANGED settled
  PROVE  SettledOK'
BY DEF PeopleInv, SettledOK, Noticed

LEMMA PeopleStay ==
  ASSUME PeopleInv, Noticed, UNCHANGED people
  PROVE  PeopleCallsOK'
<1>1. ASSUME NEW s \in Slots PROVE PeopleCallOK(people[s])'
  <2>1. PICK c \in PeopleCall : c = people[s] /\ PeopleCallOK(c)
    BY PeopleCallOf
  <2>2. PeopleCallOK(c)'
    BY <2>1, KnownStays
  <2>3. people'[s] = c
    BY <2>1
  <2> QED BY <2>2, <2>3 DEF PeopleCallOK, AccountKnown, AssignmentKnown, RoleMet, GroupMet
<1> QED BY <1>1 DEF PeopleInv, PeopleCallsOK

LEMMA PersonMoves ==
  ASSUME PeopleInv, Noticed, NEW s \in Slots, NEW q \in PeopleCall,
         people' = [people EXCEPT ![s] = q], PeopleCallOK(q)'
  PROVE  PeopleCallsOK'
<1>1. ASSUME NEW t \in Slots PROVE PeopleCallOK(people[t])'
  <2>1. PICK c \in PeopleCall : c = people[t] /\ PeopleCallOK(c)
    BY PeopleCallOf
  <2>2. PeopleCallOK(c)'
    BY <2>1, KnownStays
  <2>3. people'[t] = IF t = s THEN q ELSE c
    BY <2>1 DEF PeopleInv, PeopleCallsOK
  <2> QED BY <2>2, <2>3 DEF PeopleCallOK, AccountKnown, AssignmentKnown, RoleMet, GroupMet
<1>2. people' \in [Slots -> PeopleCall]
  BY DEF PeopleInv, PeopleCallsOK
<1> QED BY <1>1, <1>2 DEF PeopleCallsOK

LEMMA PersonEnds ==
  ASSUME PeopleInv, Noticed, NEW s \in Slots, people' = [people EXCEPT ![s] = Idle]
  PROVE  PeopleCallsOK'
<1>1. PICK q : q = Idle
  OBVIOUS
<1>2. q \in PeopleCall /\ q.pc = "idle"
  BY <1>1, IdlePerson
<1>3. PeopleCallOK(q)'
  BY <1>2 DEF PeopleCallOK, AccountKnown, AssignmentKnown
<1> QED BY <1>1, <1>2, <1>3, PersonMoves

\* A step that changes no table.
LEMMA QuietNoticed ==
  ASSUME UNCHANGED <<account, inactive, role, group, member, settled, dropped>>
  PROVE  Noticed
BY DEF Noticed, RoleMet, GroupMet

LEMMA QuietPerson ==
  ASSUME PeopleInv, NEW s \in Slots, NEW q \in PeopleCall, PeopleCallOK(q),
         people' = [people EXCEPT ![s] = q], peopleLeft' \in Nat,
         UNCHANGED <<account, inactive, role, group, rule, member, settled, dropped>>
  PROVE  PeopleInv'
<1>1. PeopleCallOK(q)'
  BY QuietNoticed, KnownStays
<1>2. PeopleTables'
  BY DEF PeopleInv, PeopleTables, Memberships
<1> QED BY <1>1, <1>2, QuietNoticed, PersonMoves, SettledStays DEF PeopleInv

-----------------------------------------------------------------------------
(* Sign-up and the assignment.                                             *)

LEMMA RegisterStep ==
  ASSUME PeopleInv, NEW s \in Slots, NEW u \in Users, Register(s, u)
  PROVE  PeopleInv'
<1>1. PICK q : q = [pc |-> "open", user |-> u, todo |-> {}, at |-> None, met |-> {}]
  OBVIOUS
<1>2. q \in SignUpCall /\ q.pc = "open"
  BY <1>1 DEF SignUpCall
<1>3. q \in PeopleCall /\ PeopleCallOK(q)
  BY <1>2 DEF PeopleCall, PeopleCallOK, AccountKnown, AssignmentKnown
<1>4. people' = [people EXCEPT ![s] = q] /\ peopleLeft' \in Nat
  BY <1>1 DEF Register, Begin, Free, PeopleInv, PeopleTables
<1>5. UNCHANGED <<account, inactive, role, group, rule, member, settled, dropped>>
  BY DEF Register, peopleHistory
<1> QED BY <1>3, <1>4, <1>5, QuietPerson

LEMMA OpenAccountStep ==
  ASSUME PeopleInv, NEW s \in Slots, OpenAccount(s)
  PROVE  PeopleInv'
<1>1. PICK c \in SignUpCall : c = people[s] /\ c.pc = "open"
  BY PeopleCallOf, PeopleKinds DEF OpenAccount
<1>2. PICK q : q = IF c.user \in account THEN Idle ELSE [c EXCEPT !.pc = "role"]
  OBVIOUS
<1>3. /\ account' = account \cup {c.user} /\ people' = [people EXCEPT ![s] = q]
      /\ UNCHANGED <<inactive, role, group, rule, member, settled, dropped, peopleLeft>>
  BY <1>1, <1>2 DEF OpenAccount, PeopleGoto, Goto, peopleHistory
<1>4. c.user \in Users
  BY DEF SignUpCall
<1>5. Noticed
  BY <1>3 DEF Noticed, RoleMet, GroupMet
<1>6. q \in PeopleCall /\ PeopleCallOK(q)'
  <2>1. CASE c.user \in account
    <3>1. q \in PeopleCall /\ q.pc = "idle"
      BY <1>2, <2>1, IdlePerson
    <3> QED BY <3>1 DEF PeopleCallOK, AccountKnown, AssignmentKnown
  <2>2. CASE c.user \notin account
    <3>1. q \in SignUpCall /\ q.pc = "role" /\ q.user = c.user
      BY <1>2, <2>2 DEF SignUpCall
    <3> QED BY <1>3, <3>1 DEF PeopleCall, PeopleCallOK, AccountKnown, AssignmentKnown
  <2> QED BY <2>1, <2>2
<1>7. PeopleTables'
  BY <1>3, <1>4 DEF PeopleInv, PeopleTables, Memberships
<1> QED BY <1>3, <1>5, <1>6, <1>7, PersonMoves, SettledStays DEF PeopleInv

LEMMA DefaultRoleStep ==
  ASSUME PeopleInv, NEW s \in Slots, DefaultRole(s)
  PROVE  PeopleInv'
<1>1. PICK c \in SignUpCall : c = people[s] /\ c.pc = "role" /\ c.user \in account
  BY PeopleCallOf, PeopleKinds DEF DefaultRole, PeopleCallOK, AccountKnown
<1>2. PICK given : given = <<c.user, "participant">>
  OBVIOUS
<1>3. PICK q : q = IF given \in role THEN Idle ELSE [c EXCEPT !.pc = "groups"]
  OBVIOUS
<1>4. /\ role' = role \cup {given} /\ people' = [people EXCEPT ![s] = q]
      /\ UNCHANGED <<account, inactive, group, rule, member, settled, dropped, peopleLeft>>
  BY <1>1, <1>2, <1>3 DEF DefaultRole, PeopleGoto, Goto, peopleHistory
<1>5. Noticed
  BY <1>4 DEF Noticed, RoleMet, GroupMet
<1>6. q \in PeopleCall /\ PeopleCallOK(q)'
  <2>1. CASE given \in role
    <3>1. q \in PeopleCall /\ q.pc = "idle"
      BY <1>3, <2>1, IdlePerson
    <3> QED BY <3>1 DEF PeopleCallOK, AccountKnown, AssignmentKnown
  <2>2. CASE given \notin role
    <3>1. q \in SignUpCall /\ q.pc = "groups" /\ q.user = c.user
      BY <1>3, <2>2 DEF SignUpCall
    <3> QED BY <1>1, <1>2, <1>4, <3>1
            DEF PeopleCall, PeopleCallOK, AccountKnown, AssignmentKnown, RoleMet
  <2> QED BY <2>1, <2>2
<1>7. PeopleTables'
  BY <1>1, <1>2, <1>4, PeopleAssumption DEF PeopleInv, PeopleTables, Memberships
<1> QED BY <1>4, <1>5, <1>6, <1>7, PersonMoves, SettledStays DEF PeopleInv

LEMMA SystemGroupsStep ==
  ASSUME PeopleInv, NEW s \in Slots, SystemGroups(s)
  PROVE  PeopleInv'
<1>1. PICK c \in SignUpCall : c = people[s] /\ c.pc = "groups" /\ PeopleCallOK(c)
  BY PeopleCallOf, PeopleKinds DEF SystemGroups
<1>2. PICK met : met = {g \in group : c.user \in rule[g]}
  OBVIOUS
<1>3. PICK q : q = [c EXCEPT !.pc = "next", !.todo = met, !.met = met]
  OBVIOUS
<1>4. /\ people' = [people EXCEPT ![s] = q]
      /\ UNCHANGED <<account, inactive, role, group, rule, member, settled, dropped, peopleLeft>>
  BY <1>1, <1>2, <1>3 DEF SystemGroups, PeopleGoto, Goto, peopleHistory
<1>5. met \subseteq Groups
  BY <1>2 DEF PeopleInv, PeopleTables
<1>6. q \in SignUpCall /\ q.pc = "next" /\ q.user = c.user /\ q.todo = met /\ q.met = met
  BY <1>3, <1>5 DEF SignUpCall
<1>7. q \in PeopleCall /\ PeopleCallOK(q)
  BY <1>1, <1>6 DEF PeopleCall, PeopleCallOK, AccountKnown, AssignmentKnown
<1>8. peopleLeft' \in Nat
  BY <1>4 DEF PeopleInv, PeopleTables
<1> QED BY <1>4, <1>7, <1>8, QuietPerson

LEMMA NextGroupStep ==
  ASSUME PeopleInv, NEW s \in Slots, NextGroup(s)
  PROVE  PeopleInv'
<1>1. PICK c \in SignUpCall : c = people[s] /\ c.pc = "next" /\ PeopleCallOK(c)
  BY PeopleCallOf, PeopleKinds DEF NextGroup
<1>2. PICK g, q :
        /\ g \in c.todo
        /\ q = IF <<g, c.user>> \in member THEN [c EXCEPT !.todo = c.todo \ {g}]
               ELSE [c EXCEPT !.pc = "join", !.at = g]
        /\ people' = [people EXCEPT ![s] = q]
  BY <1>1 DEF NextGroup, PeopleGoto, Goto, SignUpCall
<1>3. UNCHANGED <<account, inactive, role, group, rule, member, settled, dropped, peopleLeft>>
  BY DEF NextGroup, PeopleGoto, Goto, peopleHistory
<1>4. q \in PeopleCall /\ PeopleCallOK(q)
  <2>1. CASE <<g, c.user>> \in member
    <3>1. /\ q \in SignUpCall /\ q.pc = "next" /\ q.user = c.user
          /\ q.todo = c.todo \ {g} /\ q.met = c.met
      BY <1>1, <1>2, <2>1 DEF SignUpCall
    <3> QED BY <1>1, <2>1, <3>1
            DEF PeopleCall, PeopleCallOK, AccountKnown, AssignmentKnown, GroupMet
  <2>2. CASE <<g, c.user>> \notin member
    <3>1. /\ q \in SignUpCall /\ q.pc = "join" /\ q.user = c.user
          /\ q.todo = c.todo /\ q.met = c.met
      BY <1>1, <1>2, <2>2 DEF SignUpCall
    <3> QED BY <1>1, <3>1 DEF PeopleCall, PeopleCallOK, AccountKnown, AssignmentKnown
  <2> QED BY <2>1, <2>2
<1>5. peopleLeft' \in Nat
  BY <1>3 DEF PeopleInv, PeopleTables
<1> QED BY <1>2, <1>3, <1>4, <1>5, QuietPerson

\* A membership that is not the same as a role: a group is no user.
LEMMA RowsApart ==
  ASSUME NEW g \in Groups, NEW u \in Users, NEW v, NEW r
  PROVE  <<g, v>> # <<u, r>>
BY PeopleAssumption

\* A membership is made.
LEMMA Joined ==
  ASSUME PeopleInv, NEW g \in group, NEW u \in account,
         member' = member \cup {<<g, u>>}, dropped' = dropped \ {<<g, u>>},
         UNCHANGED <<account, inactive, role, group, rule, settled, peopleLeft>>
  PROVE  Noticed /\ PeopleTables'
<1>1. g \in Groups /\ u \in Users
  BY DEF PeopleInv, PeopleTables
<1>2. \A v \in Users : RoleMet(v) => RoleMet(v)'
  BY <1>1, RowsApart DEF RoleMet
<1>3. \A h \in Groups, v \in Users : GroupMet(h, v) => GroupMet(h, v)'
  BY DEF GroupMet
<1>4. PeopleTables'
  BY <1>1 DEF PeopleInv, PeopleTables, Memberships
<1> QED BY <1>2, <1>3, <1>4 DEF Noticed

LEMMA JoinGroupStep ==
  ASSUME PeopleInv, NEW s \in Slots, JoinGroup(s)
  PROVE  PeopleInv'
<1>1. PICK c \in SignUpCall : c = people[s] /\ c.pc = "join" /\ PeopleCallOK(c)
  BY PeopleCallOf, PeopleKinds DEF JoinGroup
<1>2. UNCHANGED <<account, inactive, role, group, rule, settled, peopleLeft>>
  BY DEF JoinGroup, PeopleGoto, Goto
<1>3. CASE c.at \in group /\ <<c.at, c.user>> \notin member
  <2>1. PICK q : q = [c EXCEPT !.pc = "next", !.todo = c.todo \ {c.at}, !.at = None]
    OBVIOUS
  <2>2. /\ member' = member \cup {<<c.at, c.user>>} /\ dropped' = dropped \ {<<c.at, c.user>>}
        /\ people' = [people EXCEPT ![s] = q]
    BY <1>1, <1>3, <2>1 DEF JoinGroup, PeopleGoto, Goto, SignUpCall
  <2>3. Noticed /\ PeopleTables'
    BY <1>1, <1>2, <1>3, <2>2, Joined DEF PeopleCallOK, AccountKnown
  <2>4. /\ q \in SignUpCall /\ q.pc = "next" /\ q.user = c.user
        /\ q.todo = c.todo \ {c.at} /\ q.met = c.met
    BY <2>1 DEF SignUpCall
  <2>5. c.user \in Users /\ c.met \subseteq Groups
    BY DEF SignUpCall
  <2>6. RoleMet(c.user)' /\ \A g \in c.met \ c.todo : GroupMet(g, c.user)'
    BY <1>1, <2>3, <2>5 DEF PeopleCallOK, AssignmentKnown, Noticed
  <2>7. GroupMet(c.at, c.user)'
    BY <2>2 DEF GroupMet
  <2>8. q \in PeopleCall /\ PeopleCallOK(q)'
    BY <1>1, <1>2, <2>4, <2>6, <2>7 DEF PeopleCall, PeopleCallOK, AccountKnown, AssignmentKnown
  <2> QED BY <1>2, <2>2, <2>3, <2>8, PersonMoves, SettledStays DEF PeopleInv
<1>4. CASE ~(c.at \in group /\ <<c.at, c.user>> \notin member)
  <2>1. people' = [people EXCEPT ![s] = Idle] /\ UNCHANGED <<member, dropped>>
    BY <1>1, <1>4 DEF JoinGroup, PeopleGoto, Goto
  <2>2. peopleLeft' \in Nat
    BY <1>2 DEF PeopleInv, PeopleTables
  <2> QED BY <1>2, <2>1, <2>2, IdlePerson, QuietPerson
<1> QED BY <1>3, <1>4

LEMMA AssignedStep ==
  ASSUME PeopleInv, NEW s \in Slots, Assigned(s)
  PROVE  PeopleInv'
<1>1. PICK c \in SignUpCall : c = people[s] /\ c.pc = "next" /\ c.todo = {} /\ PeopleCallOK(c)
  BY PeopleCallOf, PeopleKinds DEF Assigned
<1>2. /\ people' = [people EXCEPT ![s] = Idle] /\ settled' = settled \cup (c.met \X {c.user})
      /\ UNCHANGED <<account, inactive, role, group, rule, member, dropped, peopleLeft>>
  BY <1>1 DEF Assigned, PeopleGoto, Goto
<1>3. c.user \in Users /\ c.met \subseteq Groups
  BY DEF SignUpCall
<1>4. Noticed
  BY <1>2 DEF Noticed, RoleMet, GroupMet
<1>5. PeopleTables'
  BY <1>2, <1>3 DEF PeopleInv, PeopleTables, Memberships
<1>6. RoleMet(c.user) /\ \A g \in c.met : GroupMet(g, c.user)
  BY <1>1 DEF PeopleCallOK, AssignmentKnown
<1>7. SettledOK'
  BY <1>2, <1>4, <1>6 DEF PeopleInv, SettledOK, Noticed
<1> QED BY <1>2, <1>4, <1>5, <1>7, PersonEnds DEF PeopleInv

-----------------------------------------------------------------------------
(* Members and groups.                                                     *)

LEMMA MemberRequest ==
  ASSUME PeopleInv, NEW s \in Slots, NEW actor \in Users, NEW g \in Groups, NEW u \in Users,
         AddMember(s, actor, g, u) \/ RemoveMember(s, actor, g, u)
  PROVE  PeopleInv'
<1>1. PICK pc \in {"look", "find"} :
        Begin(people, peopleLeft, s, [pc |-> pc, user |-> actor, group |-> g, target |-> u])
  BY DEF AddMember, RemoveMember
<1>2. PICK q : q = [pc |-> pc, user |-> actor, group |-> g, target |-> u]
  OBVIOUS
<1>3. q \in MemberCall /\ q.pc = pc
  BY <1>2 DEF MemberCall
<1>4. q \in PeopleCall /\ PeopleCallOK(q)
  BY <1>3 DEF PeopleCall, PeopleCallOK, AccountKnown, AssignmentKnown
<1>5. people' = [people EXCEPT ![s] = q] /\ peopleLeft' \in Nat
  BY <1>1, <1>2 DEF Begin, Free, PeopleInv, PeopleTables
<1>6. UNCHANGED <<account, inactive, role, group, rule, member, settled, dropped>>
  BY DEF AddMember, RemoveMember, peopleHistory
<1> QED BY <1>4, <1>5, <1>6, QuietPerson

LEMMA LookMemberStep ==
  ASSUME PeopleInv, NEW s \in Slots, LookMember(s)
  PROVE  PeopleInv'
<1>1. PICK c \in MemberCall : c = people[s] /\ c.pc \in {"look", "find"}
  BY PeopleCallOf, PeopleKinds DEF LookMember
<1>2. PICK pc \in {"add", "drop"} : pc = IF c.pc = "look" THEN "add" ELSE "drop"
  OBVIOUS
<1>3. PICK q : \/ q = Idle
               \/ q = [c EXCEPT !.pc = pc] /\ c.target \in account
      /\ people' = [people EXCEPT ![s] = q]
  BY <1>1, <1>2 DEF LookMember, PeopleGoto, Goto
<1>4. UNCHANGED <<account, inactive, role, group, rule, member, settled, dropped, peopleLeft>>
  BY DEF LookMember, PeopleGoto, Goto, peopleHistory
<1>5. peopleLeft' \in Nat
  BY <1>4 DEF PeopleInv, PeopleTables
<1>6. q \in PeopleCall /\ PeopleCallOK(q)
  <2>1. CASE q = Idle
    BY <2>1, IdlePerson
  <2>2. CASE q = [c EXCEPT !.pc = pc] /\ c.target \in account
    <3>1. q \in MemberCall /\ q.pc = pc /\ q.target = c.target
      BY <1>2, <2>2 DEF MemberCall
    <3> QED BY <2>2, <3>1 DEF PeopleCall, PeopleCallOK, AccountKnown, AssignmentKnown
  <2> QED BY <1>3, <2>1, <2>2
<1> QED BY <1>3, <1>4, <1>5, <1>6, QuietPerson

LEMMA InsertMemberStep ==
  ASSUME PeopleInv, NEW s \in Slots, InsertMember(s)
  PROVE  PeopleInv'
<1>1. PICK c \in MemberCall : c = people[s] /\ c.pc = "add" /\ c.target \in account
  BY PeopleCallOf, PeopleKinds DEF InsertMember, PeopleCallOK, AccountKnown
<1>2. /\ people' = [people EXCEPT ![s] = Idle]
      /\ UNCHANGED <<account, inactive, role, group, rule, settled, peopleLeft>>
  BY DEF InsertMember, PeopleGoto, Goto
<1>3. CASE c.group \in group /\ <<c.group, c.target>> \notin member
  <2>1. /\ member' = member \cup {<<c.group, c.target>>}
        /\ dropped' = dropped \ {<<c.group, c.target>>}
    BY <1>1, <1>3 DEF InsertMember
  <2>2. Noticed /\ PeopleTables'
    BY <1>1, <1>2, <1>3, <2>1, Joined
  <2> QED BY <1>2, <2>2, PersonEnds, SettledStays DEF PeopleInv
<1>4. CASE ~(c.group \in group /\ <<c.group, c.target>> \notin member)
  <2>1. UNCHANGED <<member, dropped>>
    BY <1>1, <1>4 DEF InsertMember
  <2>2. peopleLeft' \in Nat
    BY <1>2 DEF PeopleInv, PeopleTables
  <2> QED BY <1>2, <2>1, <2>2, IdlePerson, QuietPerson
<1> QED BY <1>3, <1>4

\* Rows are deleted, and noticed to be.
LEMMA Left ==
  ASSUME PeopleInv, NEW its \in SUBSET Memberships,
         member' = member \ its, dropped' = dropped \cup its,
         UNCHANGED <<account, role>>
  PROVE  Noticed
BY DEF Noticed, RoleMet, GroupMet

LEMMA DeleteMemberStep ==
  ASSUME PeopleInv, NEW s \in Slots, DeleteMember(s)
  PROVE  PeopleInv'
<1>1. PICK c \in MemberCall : c = people[s]
  BY PeopleCallOf, PeopleKinds DEF DeleteMember
<1>2. PICK its : its = {<<c.group, c.target>>}
  OBVIOUS
<1>3. /\ people' = [people EXCEPT ![s] = Idle]
      /\ member' = member \ its /\ dropped' = dropped \cup its
      /\ UNCHANGED <<account, inactive, role, group, rule, settled, peopleLeft>>
  BY <1>1, <1>2 DEF DeleteMember, PeopleGoto, Goto
<1>4. its \subseteq Memberships
  BY <1>2 DEF MemberCall, Memberships
<1>5. PeopleTables'
  BY <1>3, <1>4 DEF PeopleInv, PeopleTables, Memberships
<1> QED BY <1>3, <1>4, <1>5, Left, PersonEnds, SettledStays DEF PeopleInv

LEMMA CreateGroupStep ==
  ASSUME PeopleInv, NEW u \in Users, NEW g \in Groups, NEW sent \in RulesSent,
         CreateGroup(u, g, sent)
  PROVE  PeopleInv'
<1>1. u \in account
  BY DEF CreateGroup, Permitted, Authenticated
<1>2. /\ group' = group \cup {g} /\ member' = member \cup {<<g, u>>}
      /\ rule' = [rule EXCEPT ![g] = sent]
      /\ UNCHANGED <<account, inactive, role, people, settled, dropped>>
      /\ peopleLeft > 0 /\ peopleLeft' = peopleLeft - 1
  BY DEF CreateGroup
<1>3. Noticed
  BY <1>2 DEF Noticed, RoleMet, GroupMet
<1>4. peopleLeft' \in Nat
  BY <1>2 DEF PeopleInv, PeopleTables
<1>5. rule' \in [Groups -> SUBSET Users]
  BY <1>2, PeopleAssumption DEF PeopleInv, PeopleTables
<1>6. PeopleTables'
  BY <1>1, <1>2, <1>4, <1>5 DEF PeopleInv, PeopleTables, Memberships
<1> QED BY <1>2, <1>3, <1>6, PeopleStay, SettledStays DEF PeopleInv

LEMMA RemoveGroupStep ==
  ASSUME PeopleInv, NEW s \in Slots, NEW actor \in Users, NEW g \in Groups,
         RemoveGroup(s, actor, g)
  PROVE  PeopleInv'
<1>1. PICK q : q = [pc |-> "empty", user |-> None, group |-> g]
  OBVIOUS
<1>2. q \in GroupCall /\ q.pc = "empty"
  BY <1>1 DEF GroupCall
<1>3. q \in PeopleCall /\ PeopleCallOK(q)
  BY <1>2 DEF PeopleCall, PeopleCallOK, AccountKnown, AssignmentKnown
<1>4. people' = [people EXCEPT ![s] = q] /\ peopleLeft' \in Nat
  BY <1>1 DEF RemoveGroup, Begin, Free, PeopleInv, PeopleTables
<1>5. UNCHANGED <<account, inactive, role, group, rule, member, settled, dropped>>
  BY DEF RemoveGroup, peopleHistory
<1> QED BY <1>3, <1>4, <1>5, QuietPerson

LEMMA DeleteMembersStep ==
  ASSUME PeopleInv, NEW s \in Slots, DeleteMembers(s)
  PROVE  PeopleInv'
<1>1. PICK c \in GroupCall : c = people[s]
  BY PeopleCallOf, PeopleKinds DEF DeleteMembers
<1>2. PICK its : its = {m \in member : m[1] = c.group}
  OBVIOUS
<1>3. /\ member' = member \ its /\ dropped' = dropped \cup its
      /\ group' = IF c.pc = "delete" THEN group \ {c.group} ELSE group
      /\ UNCHANGED <<account, inactive, role, rule, settled, peopleLeft>>
  BY <1>1, <1>2 DEF DeleteMembers, PeopleGoto, Goto
<1>4. PICK q : /\ q = IF c.pc = "delete" THEN Idle ELSE [c EXCEPT !.pc = "delete"]
               /\ people' = [people EXCEPT ![s] = q]
  BY <1>1 DEF DeleteMembers, PeopleGoto, Goto
<1>5. its \subseteq Memberships
  BY <1>2 DEF PeopleInv, PeopleTables, Memberships
<1>6. q \in PeopleCall /\ PeopleCallOK(q)'
  <2>1. CASE c.pc = "delete"
    <3>1. q \in PeopleCall /\ q.pc = "idle"
      BY <1>4, <2>1, IdlePerson
    <3> QED BY <3>1 DEF PeopleCallOK, AccountKnown, AssignmentKnown
  <2>2. CASE c.pc # "delete"
    <3>1. q \in GroupCall /\ q.pc = "delete"
      BY <1>4, <2>2 DEF GroupCall
    <3> QED BY <3>1 DEF PeopleCall, PeopleCallOK, AccountKnown, AssignmentKnown
  <2> QED BY <2>1, <2>2
<1>7. member' \subseteq group' \X account
  BY <1>2, <1>3 DEF PeopleInv, PeopleTables
<1>8. PeopleTables'
  BY <1>3, <1>5, <1>7 DEF PeopleInv, PeopleTables, Memberships
<1> QED BY <1>3, <1>4, <1>5, <1>6, <1>8, Left, PersonMoves, SettledStays DEF PeopleInv

-----------------------------------------------------------------------------
(* Roles and statuses.                                                     *)

LEMMA RoleRequest ==
  ASSUME PeopleInv, NEW s \in Slots, NEW actor \in Users, NEW u \in Users, NEW r \in Roles,
         AssignRole(s, actor, u, r) \/ RemoveRole(s, actor, u, r)
  PROVE  PeopleInv'
<1>1. PICK pc \in {"grant", "revoke"} :
        Begin(people, peopleLeft, s, [pc |-> pc, user |-> None, target |-> u, role |-> r])
  BY DEF AssignRole, RemoveRole
<1>2. PICK q : q = [pc |-> pc, user |-> None, target |-> u, role |-> r]
  OBVIOUS
<1>3. q \in RoleCall /\ q.pc = pc /\ q.target = u
  BY <1>2 DEF RoleCall
<1>a. u \in account
  BY DEF AssignRole, RemoveRole
<1>4. q \in PeopleCall /\ PeopleCallOK(q)
  BY <1>3, <1>a DEF PeopleCall, PeopleCallOK, AccountKnown, AssignmentKnown
<1>5. people' = [people EXCEPT ![s] = q] /\ peopleLeft' \in Nat
  BY <1>1, <1>2 DEF Begin, Free, PeopleInv, PeopleTables
<1>6. UNCHANGED <<account, inactive, role, group, rule, member, settled, dropped>>
  BY DEF AssignRole, RemoveRole, peopleHistory
<1> QED BY <1>4, <1>5, <1>6, QuietPerson

LEMMA WriteRoleStep ==
  ASSUME PeopleInv, NEW s \in Slots, WriteRole(s)
  PROVE  PeopleInv'
<1>1. PICK c \in RoleCall : c = people[s] /\ c.target \in account
  BY PeopleCallOf, PeopleKinds DEF WriteRole, PeopleCallOK, AccountKnown
<1>2. PICK row : row = <<c.target, c.role>>
  OBVIOUS
<1>3. /\ people' = [people EXCEPT ![s] = Idle]
      /\ UNCHANGED <<account, inactive, group, rule, member, settled, peopleLeft>>
      /\ \/ role' = role \cup {row} /\ dropped' = dropped \ {row}
         \/ role' = role \ {row} /\ dropped' = dropped \cup {row}
  BY <1>1, <1>2 DEF WriteRole, PeopleGoto, Goto
<1>4. row \in account \X Roles /\ row \in Users \X Roles
  BY <1>1, <1>2 DEF RoleCall
<1>5. \A g \in Groups : \A u : <<g, u>> # row
  BY <1>2, RowsApart DEF RoleCall
<1>6. Noticed
  BY <1>3, <1>5 DEF Noticed, RoleMet, GroupMet
<1>7. PeopleTables'
  BY <1>3, <1>4 DEF PeopleInv, PeopleTables, Memberships
<1> QED BY <1>3, <1>6, <1>7, PersonEnds, SettledStays DEF PeopleInv

LEMMA StatusStep ==
  ASSUME PeopleInv, NEW actor \in Users, NEW u \in Users,
         Deactivate(actor, u) \/ Activate(actor, u)
  PROVE  PeopleInv'
<1>1. /\ UNCHANGED <<account, role, group, rule, member, people, settled, dropped>>
      /\ peopleLeft > 0 /\ peopleLeft' = peopleLeft - 1
      /\ inactive' \subseteq account
  BY DEF Deactivate, Activate, PeopleInv, PeopleTables
<1>2. Noticed
  BY <1>1 DEF Noticed, RoleMet, GroupMet
<1>3. peopleLeft' \in Nat
  BY <1>1 DEF PeopleInv, PeopleTables
<1>4. PeopleTables'
  BY <1>1, <1>3 DEF PeopleInv, PeopleTables, Memberships
<1> QED BY <1>1, <1>2, <1>4, PeopleStay, SettledStays DEF PeopleInv

LEMMA PeopleDieStep ==
  ASSUME PeopleInv, NEW s \in Slots, PeopleDie(s)
  PROVE  PeopleInv'
<1>1. /\ people' = [people EXCEPT ![s] = Idle]
      /\ UNCHANGED <<account, inactive, role, group, rule, member, settled, dropped, peopleLeft>>
  BY DEF PeopleDie, Die, Goto, peopleHistory
<1>2. peopleLeft' \in Nat
  BY <1>1 DEF PeopleInv, PeopleTables
<1> QED BY <1>1, <1>2, IdlePerson, QuietPerson

LEMMA PeopleStepInv == PeopleInv /\ [PeopleNext]_peopleVars => PeopleInv'
<1> SUFFICES ASSUME PeopleInv, [PeopleNext]_peopleVars PROVE PeopleInv'
  OBVIOUS
<1>1. CASE UNCHANGED peopleVars
  <2>1. UNCHANGED <<account, inactive, role, group, rule, member, people, peopleLeft, settled, dropped>>
    BY <1>1 DEF peopleVars
  <2>2. PeopleTables'
    BY <2>1 DEF PeopleInv, PeopleTables, Memberships
  <2> QED BY <2>1, <2>2, QuietNoticed, PeopleStay, SettledStays DEF PeopleInv
<1>2. ASSUME NEW u \in Users, NEW g \in Groups, NEW sent \in RulesSent, CreateGroup(u, g, sent)
      PROVE  PeopleInv'
  BY <1>2, CreateGroupStep
<1>3. ASSUME NEW actor \in Users, NEW u \in Users, Deactivate(actor, u) \/ Activate(actor, u)
      PROVE  PeopleInv'
  BY <1>3, StatusStep
<1>4. ASSUME NEW s \in Slots, PeopleRequest(s) PROVE PeopleInv'
  BY <1>4, RegisterStep, MemberRequest, RoleRequest, RemoveGroupStep DEF PeopleRequest
<1>5. ASSUME NEW s \in Slots, PeopleStep(s) PROVE PeopleInv'
  BY <1>5, OpenAccountStep, DefaultRoleStep, SystemGroupsStep, NextGroupStep, JoinGroupStep,
     AssignedStep, LookMemberStep, InsertMemberStep, DeleteMemberStep, DeleteMembersStep,
     WriteRoleStep DEF PeopleStep
<1>6. ASSUME NEW s \in Slots, PeopleDie(s) PROVE PeopleInv'
  BY <1>6, PeopleDieStep
<1> QED BY <1>1, <1>2, <1>3, <1>4, <1>5, <1>6 DEF PeopleNext

LEMMA PeopleInitInv == PeopleInit => PeopleInv
<1> SUFFICES ASSUME PeopleInit PROVE PeopleInv
  OBVIOUS
<1>1. PeopleTables
  BY PeopleAssumption DEF PeopleInit, PeopleTables, Memberships
<1>2. PeopleCallsOK
  BY IdlePerson DEF PeopleInit, PeopleCallsOK
<1>3. SettledOK
  BY PeopleAssumption DEF PeopleInit, SettledOK, RoleMet, GroupMet
<1> QED BY <1>1, <1>2, <1>3 DEF PeopleInv

LEMMA InvGivesAssigned == PeopleInv => AssignedToAll
<1> SUFFICES ASSUME PeopleInv, NEW m \in settled \ dropped
             PROVE  /\ m[1] \in MyGroups(m[2]) /\ m[2] \in GroupMembers(m[1])
                    /\ <<m[2], "participant">> \in role \cup dropped
  BY DEF AssignedToAll
<1>1. PICK g \in Groups, u \in Users : m = <<g, u>>
  BY DEF PeopleInv, PeopleTables, Memberships
<1>2. RoleMet(u) /\ <<g, u>> \in member
  BY <1>1 DEF PeopleInv, SettledOK, GroupMet
<1>3. g \in group
  BY <1>2 DEF PeopleInv, PeopleTables
<1> QED BY <1>1, <1>2, <1>3 DEF MyGroups, GroupMembers, IsMember, RoleMet

\* Every variable of the accounts has its type: no role or membership outlives its
\* account or its group.
THEOREM PeopleTypes == PeopleSpec => []PeopleTypeOK
BY PeopleInitInv, PeopleStepInv, PeopleTypesOf, PTL DEF PeopleSpec

\* A sign-up whose assignment ran to its end has put the user into every group
\* that its number met, whatever was joined, left, granted and deleted at the same
\* time; only what was deleted since is missing.
THEOREM AssignmentComplete == PeopleSpec => []AssignedToAll
BY PeopleInitInv, PeopleStepInv, InvGivesAssigned, PTL DEF PeopleSpec

=============================================================================
