------------------------ MODULE Notifications_proofs ------------------------
(***************************************************************************)
(* Theorems about Notifications, for every number of users, of sendings    *)
(* and of ticks, and every number of attempts and stalls of a job.         *)
(***************************************************************************)
EXTENDS Notifications, FiniteSetTheorems, SequenceTheorems, TLAPS

-----------------------------------------------------------------------------
(* Sets of rows.                                                           *)

LEMMA OneMore ==
  ASSUME NEW A, NEW B, NEW x, IsFiniteSet(A), B \subseteq A \cup {x}
  PROVE  IsFiniteSet(B) /\ Cardinality(B) <= Cardinality(A) + 1
<1>0. Cardinality(A) \in Nat
  BY FS_CardinalityType
<1>1. IsFiniteSet(A \cup {x}) /\ Cardinality(A \cup {x}) <= Cardinality(A) + 1
  <2>1. /\ IsFiniteSet(A \cup {x})
        /\ Cardinality(A \cup {x}) = IF x \in A THEN Cardinality(A) ELSE Cardinality(A) + 1
    BY FS_AddElement
  <2> QED BY <1>0, <2>1
<1>2. IsFiniteSet(B) /\ Cardinality(B) <= Cardinality(A \cup {x})
  BY <1>1, FS_Subset
<1> QED BY <1>1, <1>2, FS_CardinalityType

LEMMA NoMore ==
  ASSUME NEW A, NEW B, IsFiniteSet(A), B \subseteq A
  PROVE  IsFiniteSet(B) /\ Cardinality(B) <= Cardinality(A)
BY FS_Subset

\* An image of a set has no more elements than the set.
LEMMA ImageBound ==
  ASSUME NEW A, NEW B, NEW f, IsFiniteSet(A), DOMAIN f = A, f = [n \in A |-> f[n]],
         B \subseteq {f[n] : n \in A}
  PROVE  IsFiniteSet(B) /\ Cardinality(B) <= Cardinality(A)
<1>1. PICK T : T = {f[n] : n \in A}
  OBVIOUS
<1>2. f \in [A -> T] /\ \A t \in T : \E n \in A : f[n] = t
  BY <1>1
<1>3. f \in Surjection(A, T)
  BY <1>2 DEF Surjection
<1>4. IsFiniteSet(T) /\ Cardinality(T) <= Cardinality(A)
  BY <1>3, FS_Surjection
<1>5. IsFiniteSet(B) /\ Cardinality(B) <= Cardinality(T)
  BY <1>1, <1>4, NoMore
<1> QED BY <1>4, <1>5, FS_CardinalityType

-----------------------------------------------------------------------------
(***************************************************************************)
(* The invariant.  A job pays for each of its rows with an attempt or a    *)
(* stall, but for the row of the attempt that is running or has succeeded. *)
(***************************************************************************)
Sending == Job \cup Broadcast

NoteCall == {Idle} \cup CronCall \cup BroadcastCall

\* A job that may go on has an attempt left.
SendingOK(job) == job.kind # "BROADCAST" /\ job.pc # "failed" => job.tries < Attempts

\* How many rows a sending may have left for a user.
Allowed(job) ==
  IF job.kind = "BROADCAST" THEN 1
  ELSE IF job.pc = "failed" THEN Attempts + MaxStalls
  ELSE job.tries + job.stalls + (IF job.pc = "waiting" THEN 0 ELSE 1)

Bounded(u, k) ==
  /\ IsFiniteSet(CopiesFor(u, k))
  /\ Cardinality(CopiesFor(u, k)) <= Allowed(sending[k])

QueueInv ==
  /\ \A k \in DOMAIN sending : SendingOK(sending[k])
  /\ \A u \in Users, k \in DOMAIN sending : Bounded(u, k)

\* The types of the clock and the tables that no count depends on.
RestOK ==
  /\ tick \in 0 .. MaxTick
  /\ muted \subseteq Users
  /\ device \in [Devices -> Users \cup {None}]
  /\ startDate \in starts
  /\ noteLeft \in Nat
  /\ starts \subseteq Nat

\* The rows and the sendings that they are from.
TablesOK ==
  /\ sending \in Seq(Sending)
  /\ notification \subseteq NotificationRow
  /\ \A n \in notification : n.from \in DOMAIN sending

CallsOK == note \in [Slots -> NoteCall]

LEMMA TypeParts == NoteTypeOK <=> RestOK /\ TablesOK /\ CallsOK
BY DEF NoteTypeOK, RestOK, TablesOK, CallsOK, Sending, NoteCall

TableInv == TablesOK /\ QueueInv

LEMMA Numbers ==
  Attempts \in Nat /\ MaxStalls \in Nat /\ Attempts > 0
BY NoteAssumption

\* The records.
LEMMA SendingKinds ==
  ASSUME NEW job \in Sending
  PROVE  /\ job.kind # "BROADCAST" => job \in Job
         /\ job \in Job => job.kind # "BROADCAST"
BY DEF Sending, Job, Broadcast

LEMMA NoteCallKinds ==
  ASSUME NEW c \in NoteCall
  PROVE  /\ c.pc \in {"remind", "send"} => c \in CronCall
         /\ c.pc \in {"batch", "create"} => c \in BroadcastCall
BY DEF NoteCall, CronCall, BroadcastCall, Idle

LEMMA IdleNote == Idle.pc = "idle" /\ Idle \in NoteCall
BY DEF Idle, NoteCall

LEMMA AllowedFits ==
  ASSUME NEW job \in Sending, SendingOK(job)
  PROVE  /\ Allowed(job) \in Nat
         /\ Allowed(job) <= IF job.kind = "BROADCAST" THEN 1 ELSE Attempts + MaxStalls
<1>1. CASE job.kind = "BROADCAST"
  BY <1>1 DEF Allowed
<1>2. CASE job.kind # "BROADCAST"
  <2>1. job \in Job
    BY <1>2, SendingKinds
  <2>2. job.tries \in 0 .. Attempts /\ job.stalls \in 0 .. MaxStalls
    BY <2>1 DEF Job
  <2> QED BY <1>2, <2>2, Numbers DEF Allowed, SendingOK
<1> QED BY <1>1, <1>2

LEMMA InvGivesRows == TableInv => RowsPerSending
<1> SUFFICES ASSUME TableInv, NEW u \in Users, NEW k \in DOMAIN sending
             PROVE  Cardinality(CopiesFor(u, k)) <=
                      IF sending[k].kind = "BROADCAST" THEN 1 ELSE Attempts + MaxStalls
  BY DEF RowsPerSending
<1>1. PICK n : n = Cardinality(CopiesFor(u, k)) /\ n \in Nat /\ n <= Allowed(sending[k])
  BY FS_CardinalityType DEF TableInv, QueueInv, Bounded
<1>2. PICK job \in Sending : job = sending[k] /\ SendingOK(job)
  BY DEF TableInv, QueueInv, TablesOK
<1>3. /\ Allowed(job) \in Nat
      /\ Allowed(job) <= IF job.kind = "BROADCAST" THEN 1 ELSE Attempts + MaxStalls
  BY <1>2, AllowedFits
<1>4. CASE job.kind = "BROADCAST"
  BY <1>1, <1>2, <1>3, <1>4
<1>5. CASE job.kind # "BROADCAST"
  BY <1>1, <1>2, <1>3, <1>5, Numbers
<1> QED BY <1>4, <1>5

-----------------------------------------------------------------------------
(* Steps that touch no sending and no row.                                 *)

LEMMA TablesStay ==
  ASSUME TableInv, UNCHANGED <<sending, notification>>
  PROVE  TableInv'
BY DEF TableInv, TablesOK, QueueInv, Bounded, CopiesFor, SendingOK, Allowed

LEMMA CallMove ==
  ASSUME CallsOK, NEW s \in Slots, NEW q \in NoteCall, note' = [note EXCEPT ![s] = q]
  PROVE  CallsOK'
BY DEF CallsOK

-----------------------------------------------------------------------------
(* Steps that add a sending, and steps of the worker.                      *)

LEMMA AppendSending ==
  ASSUME TableInv, NEW row \in Sending, SendingOK(row), sending' = Append(sending, row),
         NEW rows \in SUBSET NotificationRow, notification' = notification \cup rows,
         \A n \in rows : n.from = Len(sending) + 1,
         \A u \in Users : \E x : {n \in rows : n.user = u} \subseteq {x},
         rows # {} => row.kind = "BROADCAST"
  PROVE  TableInv'
<1>2. PICK m \in Nat : m = Len(sending) /\ DOMAIN sending = 1 .. m
  BY DEF TableInv, TablesOK
<1>4. /\ sending' \in Seq(Sending) /\ Len(sending') = m + 1
      /\ \A k \in 1 .. m : sending'[k] = sending[k]
      /\ sending'[m + 1] = row
  BY <1>2, AppendProperties DEF TableInv, TablesOK
<1>5. DOMAIN sending' = 1 .. m + 1
  BY <1>4
<1>6. \A k \in DOMAIN sending' : SendingOK(sending'[k])
  BY <1>2, <1>4, <1>5 DEF TableInv, QueueInv
<1>7. /\ notification' \subseteq NotificationRow
      /\ \A n \in notification' : n.from \in DOMAIN sending'
  BY <1>2, <1>5 DEF TableInv, TablesOK
<1>8. ASSUME NEW u \in Users, NEW k \in DOMAIN sending' PROVE Bounded(u, k)'
  <2>1. CASE k \in 1 .. m
    <3>0. \A n \in rows : n.from # k
      BY <1>2, <2>1
    <3>1. CopiesFor(u, k)' = CopiesFor(u, k)
      BY <3>0 DEF CopiesFor
    <3> QED BY <1>2, <1>4, <2>1, <3>1 DEF TableInv, QueueInv, Bounded
  <2>2. CASE k = m + 1
    <3>1. \A n \in notification : n.from # k
      BY <1>2, <2>2 DEF TableInv, TablesOK
    <3>2. CopiesFor(u, k)' \subseteq {n \in rows : n.user = u}
      BY <3>1 DEF CopiesFor
    <3>3. CASE rows = {}
      <4>1. CopiesFor(u, k)' = {}
        BY <3>2, <3>3
      <4>2. IsFiniteSet({}) /\ Cardinality({}) = 0
        BY FS_EmptySet
      <4>3. 0 <= Allowed(row)
        BY AllowedFits
      <4> QED BY <1>4, <2>2, <4>1, <4>2, <4>3 DEF Bounded
    <3>4. CASE rows # {}
      <4>1. PICK x : CopiesFor(u, k)' \subseteq {x}
        BY <3>2
      <4>2. IsFiniteSet({x}) /\ Cardinality({x}) = 1
        BY FS_Singleton
      <4>3. IsFiniteSet(CopiesFor(u, k)') /\ Cardinality(CopiesFor(u, k)') <= 1
        BY <4>1, <4>2, NoMore
      <4>4. Allowed(row) = 1
        BY <3>4 DEF Allowed
      <4> QED BY <1>4, <2>2, <4>3, <4>4 DEF Bounded
    <3> QED BY <3>3, <3>4
  <2> QED BY <1>2, <1>5, <2>1, <2>2
<1> QED BY <1>4, <1>6, <1>7, <1>8 DEF TableInv, TablesOK, QueueInv

LEMMA JobStep ==
  ASSUME TableInv, NEW j \in DOMAIN sending, NEW job \in Sending, SendingOK(job),
         sending' = [sending EXCEPT ![j] = job],
         notification' \subseteq NotificationRow,
         \A n \in notification' : n.from \in DOMAIN sending,
         \A u \in Users, k \in DOMAIN sending : k # j => CopiesFor(u, k)' = CopiesFor(u, k),
         \A u \in Users : /\ IsFiniteSet(CopiesFor(u, j)')
                          /\ Cardinality(CopiesFor(u, j)') <= Allowed(job)
  PROVE  TableInv'
<1>1. sending \in Seq(Sending) /\ j \in 1 .. Len(sending)
  BY DEF TableInv, TablesOK
<1>3. sending' \in Seq(Sending)
  BY <1>1, ExceptSeq
<1>4. DOMAIN sending' = DOMAIN sending
  BY <1>1
<1>5. \A k \in DOMAIN sending : sending'[k] = IF k = j THEN job ELSE sending[k]
  BY <1>1
<1>6. \A k \in DOMAIN sending' : SendingOK(sending'[k])
  BY <1>4, <1>5 DEF TableInv, QueueInv
<1>7. ASSUME NEW u \in Users, NEW k \in DOMAIN sending' PROVE Bounded(u, k)'
  <2>1. CASE k = j
    BY <1>4, <1>5, <2>1 DEF Bounded
  <2>2. CASE k # j
    BY <1>4, <1>5, <2>2 DEF TableInv, QueueInv, Bounded
  <2> QED BY <2>1, <2>2
<1> QED BY <1>3, <1>4, <1>6, <1>7 DEF TableInv, TablesOK, QueueInv

\* What a job is, as a record of the sequence.
LEMMA JobOf ==
  ASSUME TableInv, NEW j \in Jobs
  PROVE  j \in DOMAIN sending /\ sending[j] \in Job /\ SendingOK(sending[j])
<1>1. j \in DOMAIN sending /\ sending[j].kind # "BROADCAST" /\ SendingOK(sending[j])
  BY DEF TableInv, QueueInv, Jobs
<1>2. sending[j] \in Sending
  BY <1>1 DEF TableInv, TablesOK
<1> QED BY <1>1, <1>2, SendingKinds

\* A job that leaves no row, and is allowed no fewer.
LEMMA JobMoves ==
  ASSUME TableInv, NEW j \in Jobs, NEW job \in Job, SendingOK(job),
         sending' = [sending EXCEPT ![j] = job], UNCHANGED notification,
         Allowed(sending[j]) <= Allowed(job)
  PROVE  TableInv'
<1>1. j \in DOMAIN sending /\ sending[j] \in Sending /\ SendingOK(sending[j]) /\ job \in Sending
  BY JobOf DEF Sending
<1>2. Allowed(sending[j]) \in Nat /\ Allowed(job) \in Nat
  BY <1>1, AllowedFits
<1>3. \A u, k : CopiesFor(u, k)' = CopiesFor(u, k)
  BY DEF CopiesFor
<1>4. ASSUME NEW u \in Users
      PROVE  /\ IsFiniteSet(CopiesFor(u, j)')
             /\ Cardinality(CopiesFor(u, j)') <= Allowed(job)
  <2>1. /\ IsFiniteSet(CopiesFor(u, j)) /\ Cardinality(CopiesFor(u, j)) \in Nat
        /\ Cardinality(CopiesFor(u, j)) <= Allowed(sending[j])
    BY <1>1, FS_CardinalityType DEF TableInv, QueueInv, Bounded
  <2> QED BY <1>2, <1>3, <2>1
<1> QED BY <1>1, <1>3, <1>4, JobStep DEF TableInv, TablesOK

\* What `EXCEPT` makes of a job.
LEMMA JobPc ==
  ASSUME NEW job \in Job, NEW pc \in {"waiting", "prefs", "push", "done", "failed"},
         NEW q, q = [job EXCEPT !.pc = pc]
  PROVE  /\ q \in Job /\ q.kind = job.kind /\ q.tries = job.tries
         /\ q.stalls = job.stalls /\ q.pc = pc
BY DEF Job

LEMMA JobIs ==
  ASSUME NEW job \in Job
  PROVE  /\ job.tries \in Nat /\ job.tries <= Attempts
         /\ job.stalls \in Nat /\ job.stalls <= MaxStalls
         /\ job.kind # "BROADCAST" /\ job.user \in Users
BY Numbers DEF Job

LEMMA SetJobIs ==
  ASSUME TableInv, NEW j \in Jobs, NEW pc, SetJob(j, pc)
  PROVE  sending' = [sending EXCEPT ![j] = [sending[j] EXCEPT !.pc = pc]]
BY JobOf DEF SetJob, TableInv, TablesOK

\* A row of a user whose copies are counted.
LEMMA RowType ==
  ASSUME NEW u \in Users, NEW k \in Nat, IsFiniteSet(CopiesFor(u, k))
  PROVE  Row(u, k) \in NotificationRow /\ Row(u, k).from = k /\ Row(u, k).user = u
<1>1. Cardinality(CopiesFor(u, k)) \in Nat
  BY FS_CardinalityType
<1> QED BY <1>1 DEF Row, NotificationRow

LEMMA CreateInAppStep ==
  ASSUME TableInv, NEW j \in Jobs, CreateInApp(j)
  PROVE  TableInv'
<1>1. PICK job \in Job : job = sending[j] /\ job.pc = "waiting" /\ SendingOK(job)
  BY JobOf DEF CreateInApp, Due
<1>2. PICK q : q = [job EXCEPT !.pc = "prefs"]
  OBVIOUS
<1>3. /\ q \in Job /\ q.kind = job.kind /\ q.tries = job.tries
      /\ q.stalls = job.stalls /\ q.pc = "prefs"
  BY <1>2, JobPc
<1>a. /\ job.tries \in Nat /\ job.stalls \in Nat /\ job.kind # "BROADCAST" /\ job.user \in Users
      /\ j \in DOMAIN sending /\ j \in Nat
  BY JobIs, JobOf DEF TableInv, TablesOK
<1>4. SendingOK(q) /\ Allowed(q) = Allowed(job) + 1 /\ Allowed(job) \in Nat /\ q \in Sending
  BY <1>1, <1>3, <1>a DEF SendingOK, Allowed, Sending
<1>5. sending' = [sending EXCEPT ![j] = q]
  BY <1>1, <1>2, SetJobIs DEF CreateInApp
<1>6. PICK row : row = Row(job.user, j)
  OBVIOUS
<1>7. notification' = notification \cup {row}
  BY <1>1, <1>6 DEF CreateInApp
<1>8. row \in NotificationRow /\ row.from = j
  BY <1>6, <1>a, RowType DEF TableInv, QueueInv, Bounded
<1>9. /\ notification' \subseteq NotificationRow
      /\ \A n \in notification' : n.from \in DOMAIN sending
  BY <1>7, <1>8, <1>a DEF TableInv, TablesOK
<1>10. \A u \in Users, k \in DOMAIN sending : k # j => CopiesFor(u, k)' = CopiesFor(u, k)
  BY <1>7, <1>8 DEF CopiesFor
<1>11. ASSUME NEW u \in Users
       PROVE  IsFiniteSet(CopiesFor(u, j)') /\ Cardinality(CopiesFor(u, j)') <= Allowed(q)
  <2>1. /\ IsFiniteSet(CopiesFor(u, j)) /\ Cardinality(CopiesFor(u, j)) \in Nat
        /\ Cardinality(CopiesFor(u, j)) <= Allowed(job)
    BY <1>1, <1>a, FS_CardinalityType DEF TableInv, QueueInv, Bounded
  <2>2. CopiesFor(u, j)' \subseteq CopiesFor(u, j) \cup {row}
    BY <1>7 DEF CopiesFor
  <2>3. /\ IsFiniteSet(CopiesFor(u, j)')
        /\ Cardinality(CopiesFor(u, j)') <= Cardinality(CopiesFor(u, j)) + 1
    BY <2>1, <2>2, OneMore
  <2>4. Cardinality(CopiesFor(u, j)') \in Nat
    BY <2>3, FS_CardinalityType
  <2> QED BY <1>4, <2>1, <2>3, <2>4
<1> QED BY <1>4, <1>5, <1>9, <1>10, <1>11, <1>a, JobStep

LEMMA GoesOnStep ==
  ASSUME TableInv, NEW j \in Jobs, ReadPreferences(j) \/ SendFcmPush(j)
  PROVE  TableInv'
<1>1. PICK job \in Job : job = sending[j] /\ SendingOK(job) /\ job.pc \in {"prefs", "push"}
  BY JobOf DEF ReadPreferences, SendFcmPush
<1>2. PICK pc \in {"push", "done"} : SetJob(j, pc)
  BY DEF ReadPreferences, SendFcmPush
<1>3. PICK q : q = [job EXCEPT !.pc = pc]
  OBVIOUS
<1>4. /\ q \in Job /\ q.kind = job.kind /\ q.tries = job.tries
      /\ q.stalls = job.stalls /\ q.pc = pc
  BY <1>2, <1>3, JobPc
<1>5. SendingOK(q) /\ Allowed(job) <= Allowed(q)
  BY <1>1, <1>2, <1>4, JobIs DEF SendingOK, Allowed
<1>6. sending' = [sending EXCEPT ![j] = q]
  BY <1>1, <1>2, <1>3, SetJobIs
<1>7. UNCHANGED notification
  BY DEF ReadPreferences, SendFcmPush
<1> QED BY <1>1, <1>4, <1>5, <1>6, <1>7, JobMoves

LEMMA JobThrowsStep ==
  ASSUME TableInv, NEW j \in Jobs, JobThrows(j)
  PROVE  TableInv'
<1>1. PICK job \in Job : job = sending[j] /\ SendingOK(job) /\ job.pc \in {"waiting", "prefs", "push"}
  BY JobOf DEF JobThrows, Active, Due
<1>2. PICK pc : pc = IF job.tries + 1 < Attempts THEN "waiting" ELSE "failed"
  OBVIOUS
<1>n. PICK n : n = job.tries + 1
  OBVIOUS
<1>3. PICK q : q = [job EXCEPT !.tries = n, !.pc = pc]
  OBVIOUS
<1>5. /\ job.tries \in Nat /\ job.tries < Attempts /\ job.stalls \in Nat /\ job.stalls <= MaxStalls
      /\ job.kind # "BROADCAST"
  BY <1>1, JobIs DEF SendingOK
<1>4. /\ q \in Job /\ q.kind = job.kind /\ q.tries = job.tries + 1
      /\ q.stalls = job.stalls /\ q.pc = pc
  <2>1. n \in 0 .. Attempts
    BY <1>5, <1>n, Numbers
  <2>2. pc \in {"waiting", "prefs", "push", "done", "failed"}
    BY <1>2
  <2>3. q \in Job /\ q.kind = job.kind /\ q.tries = n /\ q.stalls = job.stalls /\ q.pc = pc
    BY <1>3, <2>1, <2>2 DEF Job
  <2> QED BY <1>n, <2>3
<1>6. SendingOK(q)
  BY <1>2, <1>4, <1>5, Numbers DEF SendingOK
<1>7. Allowed(job) <= Allowed(q)
  BY <1>1, <1>2, <1>4, <1>5, Numbers DEF Allowed
<1>8. sending' = [sending EXCEPT ![j] = q] /\ UNCHANGED notification
  BY <1>1, <1>2, <1>3, <1>n, JobOf DEF JobThrows, TableInv, TablesOK, Job
<1> QED BY <1>1, <1>4, <1>6, <1>7, <1>8, JobMoves

LEMMA CrashStep ==
  ASSUME TableInv, Crash
  PROVE  TableInv'
<1>2. PICK m \in Nat : DOMAIN sending = 1 .. m /\ m = Len(sending)
  BY DEF TableInv, TablesOK
<1>3. sending' = [j \in 1 .. m |->
        IF ~Active(j) THEN sending[j]
        ELSE IF sending[j].stalls < MaxStalls
             THEN [sending[j] EXCEPT !.pc = "waiting", !.stalls = @ + 1]
             ELSE [sending[j] EXCEPT !.pc = "failed"]]
  BY <1>2 DEF Crash
<1>6. ASSUME NEW k \in 1 .. m
      PROVE  /\ sending'[k] \in Sending /\ SendingOK(sending'[k])
             /\ Allowed(sending[k]) <= Allowed(sending'[k])
  <2>1. PICK job \in Sending : job = sending[k] /\ SendingOK(job)
    BY <1>2 DEF TableInv, TablesOK, QueueInv
  <2>2. CASE ~Active(k)
    <3>1. sending'[k] = job
      BY <1>3, <2>1, <2>2
    <3>2. Allowed(job) <= Allowed(job)
      BY <2>1, AllowedFits
    <3> QED BY <2>1, <3>1, <3>2
  <2>3. CASE Active(k)
    <3>1. job \in Job /\ job.pc \in {"prefs", "push"}
      BY <2>1, <2>3, JobOf DEF Active
    <3>2. /\ job.tries \in Nat /\ job.tries < Attempts /\ job.kind # "BROADCAST"
          /\ job.stalls \in Nat /\ job.stalls <= MaxStalls
      BY <2>1, <3>1, JobIs DEF SendingOK
    <3>3. CASE job.stalls < MaxStalls
      <4>n. PICK n : n = job.stalls + 1
        OBVIOUS
      <4>1. PICK q : q = [job EXCEPT !.pc = "waiting", !.stalls = n]
        OBVIOUS
      <4>a. n \in 0 .. MaxStalls
        BY <3>2, <3>3, <4>n, Numbers
      <4>2. /\ q \in Job /\ q.kind = job.kind /\ q.tries = job.tries
            /\ q.stalls = n /\ q.pc = "waiting"
        BY <3>1, <4>1, <4>a DEF Job
      <4>3. SendingOK(q) /\ Allowed(job) <= Allowed(q) /\ q \in Sending
        BY <3>1, <3>2, <3>3, <4>n, <4>2, Numbers DEF SendingOK, Allowed, Sending
      <4>4. sending'[k] = q
        BY <1>3, <2>1, <2>3, <3>1, <3>3, <4>1, <4>n DEF Job
      <4> QED BY <2>1, <4>3, <4>4
    <3>4. CASE ~(job.stalls < MaxStalls)
      <4>1. PICK q : q = [job EXCEPT !.pc = "failed"]
        OBVIOUS
      <4>2. /\ q \in Job /\ q.kind = job.kind /\ q.tries = job.tries
            /\ q.stalls = job.stalls /\ q.pc = "failed"
        BY <3>1, <4>1, JobPc
      <4>3. SendingOK(q) /\ Allowed(job) <= Allowed(q) /\ q \in Sending
        BY <3>1, <3>2, <3>4, <4>2, Numbers DEF SendingOK, Allowed, Sending
      <4>4. sending'[k] = q
        BY <1>3, <2>1, <2>3, <3>4, <4>1
      <4> QED BY <2>1, <4>3, <4>4
    <3> QED BY <3>3, <3>4
  <2> QED BY <2>2, <2>3
<1>a. sending' = [j \in 1 .. m |-> sending'[j]]
  BY <1>3
<1>5. sending' \in Seq(Sending) /\ DOMAIN sending' = DOMAIN sending
  <2>1. \A k \in 1 .. m : sending'[k] \in Sending
    BY <1>6
  <2>2. DOMAIN sending' = 1 .. m
    BY <1>a
  <2>3. sending' \in [1 .. m -> Sending]
    BY <1>a, <2>1
  <2> QED BY <1>2, <2>2, <2>3, SeqDef
<1>7. UNCHANGED notification
  BY DEF Crash
<1>8. ASSUME NEW u \in Users, NEW k \in DOMAIN sending' PROVE Bounded(u, k)'
  <2>1. /\ IsFiniteSet(CopiesFor(u, k)) /\ Cardinality(CopiesFor(u, k)) \in Nat
        /\ Cardinality(CopiesFor(u, k)) <= Allowed(sending[k])
    BY <1>5, FS_CardinalityType DEF TableInv, QueueInv, Bounded
  <2>2. CopiesFor(u, k)' = CopiesFor(u, k)
    BY <1>7 DEF CopiesFor
  <2>0. /\ sending[k] \in Sending /\ SendingOK(sending[k])
        /\ sending'[k] \in Sending /\ SendingOK(sending'[k])
    BY <1>2, <1>5, <1>6 DEF TableInv, TablesOK, QueueInv
  <2>3. Allowed(sending[k]) \in Nat /\ Allowed(sending'[k]) \in Nat
    BY <2>0, AllowedFits
  <2>4. Cardinality(CopiesFor(u, k)) <= Allowed(sending'[k])
    BY <1>2, <1>5, <1>6, <2>1, <2>3
  <2> QED BY <2>1, <2>2, <2>4 DEF Bounded
<1>9. /\ notification' \subseteq NotificationRow
      /\ \A n \in notification' : n.from \in DOMAIN sending'
  BY <1>5, <1>7 DEF TableInv, TablesOK
<1>10. \A k \in DOMAIN sending' : SendingOK(sending'[k])
  BY <1>2, <1>5, <1>6
<1> QED BY <1>5, <1>8, <1>9, <1>10 DEF TableInv, TablesOK, QueueInv

LEMMA MarkReadStep ==
  ASSUME TableInv, NEW u \in Users, MarkRead(u)
  PROVE  TableInv'
<1>1. PICK some \in SUBSET Unread(u) :
        notification' = (notification \ some) \cup {[n EXCEPT !.isRead = TRUE] : n \in some}
  BY DEF MarkRead
<1>2. /\ UNCHANGED sending /\ some \subseteq notification
      /\ notification \subseteq NotificationRow
  BY DEF MarkRead, Statement, Unread, TableInv, TablesOK
<1>3. PICK f : f = [n \in notification |-> IF n \in some THEN [n EXCEPT !.isRead = TRUE] ELSE n]
  OBVIOUS
<1>4. ASSUME NEW n \in notification
      PROVE  /\ f[n] \in NotificationRow /\ f[n].user = n.user /\ f[n].from = n.from
  <2>1. n \in NotificationRow
    BY <1>2
  <2>2. CASE n \in some
    <3>1. f[n] = [n EXCEPT !.isRead = TRUE]
      BY <1>3, <2>2
    <3> QED BY <2>1, <3>1 DEF NotificationRow
  <2>3. CASE n \notin some
    BY <1>3, <2>1, <2>3
  <2> QED BY <2>2, <2>3
<1>5. ASSUME NEW m \in notification' PROVE \E n \in notification : m = f[n]
  BY <1>1, <1>2, <1>3
<1>6. /\ notification' \subseteq NotificationRow
      /\ \A n \in notification' : n.from \in DOMAIN sending
  BY <1>4, <1>5 DEF TableInv, TablesOK
<1>7. ASSUME NEW v \in Users, NEW k \in DOMAIN sending PROVE Bounded(v, k)'
  <2>1. IsFiniteSet(CopiesFor(v, k)) /\ Cardinality(CopiesFor(v, k)) <= Allowed(sending[k])
    BY DEF TableInv, QueueInv, Bounded
  <2>2. PICK g : g = [n \in CopiesFor(v, k) |-> f[n]]
    OBVIOUS
  <2>3. CopiesFor(v, k)' \subseteq {g[n] : n \in CopiesFor(v, k)}
    <3> SUFFICES ASSUME NEW m \in CopiesFor(v, k)' PROVE \E n \in CopiesFor(v, k) : m = g[n]
      OBVIOUS
    <3>1. m \in notification' /\ m.user = v /\ m.from = k
      BY DEF CopiesFor
    <3>2. PICK n \in notification : m = f[n]
      BY <1>5, <3>1
    <3>3. n \in CopiesFor(v, k)
      BY <1>4, <3>1, <3>2 DEF CopiesFor
    <3> QED BY <2>2, <3>2, <3>3
  <2>4. /\ IsFiniteSet(CopiesFor(v, k)')
        /\ Cardinality(CopiesFor(v, k)') <= Cardinality(CopiesFor(v, k))
    BY <2>1, <2>2, <2>3, ImageBound
  <2>5. Cardinality(CopiesFor(v, k)') \in Nat /\ Cardinality(CopiesFor(v, k)) \in Nat
    BY <2>1, <2>4, FS_CardinalityType
  <2>6. Allowed(sending[k]) \in Nat
    BY AllowedFits DEF TableInv, TablesOK, QueueInv
  <2>7. Cardinality(CopiesFor(v, k)') <= Allowed(sending[k])
    BY <2>1, <2>4, <2>5, <2>6
  <2> QED BY <1>2, <2>4, <2>7 DEF Bounded, Allowed
<1> QED BY <1>2, <1>6, <1>7 DEF TableInv, TablesOK, QueueInv, SendingOK

LEMMA SendStep ==
  ASSUME TableInv, CallsOK, NEW s \in Slots, Send(s)
  PROVE  TableInv'
<1>1. PICK c \in NoteCall : c = note[s] /\ c.pc = "send"
  BY DEF CallsOK, Send
<1>2. c \in CronCall
  BY <1>1, NoteCallKinds
<1>3. PICK u \in c.todo : sending' = Append(sending, NewJob(c.kind, u))
  BY <1>1 DEF Send
<1>4. c.kind \in {"EVENT_REMINDER", "DIGEST"} /\ u \in Users
  BY <1>2, <1>3 DEF CronCall
<1>5. PICK row : row = NewJob(c.kind, u)
  OBVIOUS
<1>6. row \in Sending /\ SendingOK(row)
  BY <1>4, <1>5, Numbers DEF NewJob, Sending, Job, SendingOK
<1>7. notification' = notification \cup {}
  BY DEF Send
<1>8. \A v \in Users : \E x : {n \in {} : n.user = v} \subseteq {x}
  OBVIOUS
<1> QED BY <1>3, <1>5, <1>6, <1>7, <1>8, AppendSending

LEMMA CreateManyStep ==
  ASSUME TableInv, CallsOK, NEW s \in Slots, CreateMany(s)
  PROVE  TableInv'
<1>1. PICK c \in NoteCall : c = note[s] /\ c.pc = "create"
  BY DEF CallsOK, CreateMany
<1>2. c \in BroadcastCall /\ c.to \subseteq Users
  BY <1>1, NoteCallKinds DEF BroadcastCall
<1>3. PICK m \in Nat : m = Len(sending) /\ DOMAIN sending = 1 .. m
  BY DEF TableInv, TablesOK
<1>4. PICK row : row = [kind |-> "BROADCAST"]
  OBVIOUS
<1>5. row \in Sending /\ SendingOK(row) /\ row.kind = "BROADCAST"
  BY <1>4 DEF Sending, Broadcast, SendingOK
<1>6. PICK rows : rows = {Row(u, m + 1) : u \in c.to}
  OBVIOUS
<1>7. /\ sending' = Append(sending, row)
      /\ notification' = notification \cup rows
  BY <1>1, <1>3, <1>4, <1>6 DEF CreateMany
<1>8. ASSUME NEW u \in Users
      PROVE  Row(u, m + 1) \in NotificationRow /\ Row(u, m + 1).from = m + 1 /\ Row(u, m + 1).user = u
  <2>1. CopiesFor(u, m + 1) = {}
    BY <1>3 DEF CopiesFor, TableInv, TablesOK
  <2>2. IsFiniteSet(CopiesFor(u, m + 1))
    BY <2>1, FS_EmptySet
  <2> QED BY <2>2, RowType
<1>9. rows \subseteq NotificationRow /\ \A n \in rows : n.from = Len(sending) + 1
  BY <1>2, <1>3, <1>6, <1>8
<1>10. ASSUME NEW u \in Users PROVE \E x : {n \in rows : n.user = u} \subseteq {x}
  BY <1>2, <1>6, <1>8
<1>11. sending' = Append(sending, row) /\ notification' = notification \cup rows
       /\ rows \in SUBSET NotificationRow
  BY <1>7, <1>9
<1> HIDE DEF TableInv
<1> QED BY <1>5, <1>9, <1>10, <1>11, AppendSending

LEMMA TableStep ==
  TableInv /\ CallsOK /\ [NoteNext]_noteVars => TableInv'
<1> SUFFICES ASSUME TableInv, CallsOK, [NoteNext]_noteVars PROVE TableInv'
  OBVIOUS
<1> USE TablesStay
<1>1. CASE UNCHANGED noteVars
  BY <1>1 DEF noteVars
<1>2. CASE Tick
  BY <1>2 DEF Tick
<1>3. CASE Crash
  BY <1>3, CrashStep
<1>4. CASE Work
  BY <1>4, CreateInAppStep, GoesOnStep DEF Work
<1>5. ASSUME NEW j \in Jobs, JobThrows(j) PROVE TableInv'
  BY <1>5, JobThrowsStep
<1>6. ASSUME NEW u \in Users, MarkRead(u) \/ UpdatePreferences(u) PROVE TableInv'
  BY <1>6, MarkReadStep DEF UpdatePreferences, Statement
<1>7. ASSUME NEW u \in Users, NEW d \in Devices,
             RegisterDeviceToken(u, d) \/ RemoveDeviceToken(u, d)
      PROVE  TableInv'
  BY <1>7 DEF RegisterDeviceToken, RemoveDeviceToken, Statement
<1>8. ASSUME NEW s \in Slots, SendEventReminders(s) \/ SendNotificationDigest(s)
      PROVE  TableInv'
  BY <1>8 DEF SendEventReminders, SendNotificationDigest
<1>9. ASSUME NEW s \in Slots, NoteStep(s) PROVE TableInv'
  <2>1. CASE ReadRegistrations(s) \/ ReadAudience(s)
    BY <2>1 DEF ReadRegistrations, ReadAudience
  <2>2. CASE Send(s) \/ CreateMany(s)
    BY <2>2, SendStep, CreateManyStep
  <2> QED BY <1>9, <2>1, <2>2 DEF NoteStep
<1>10. ASSUME NEW s \in Slots, NEW u \in Users, StartBroadcast(s, u) PROVE TableInv'
  BY <1>10 DEF StartBroadcast
<1>11. ASSUME NEW start \in 0 .. MaxTick, UpdateStartDate(start) PROVE TableInv'
  BY <1>11 DEF UpdateStartDate, Statement
<1> QED BY <1>1, <1>2, <1>3, <1>4, <1>5, <1>6, <1>7, <1>8, <1>9, <1>10, <1>11 DEF NoteNext

-----------------------------------------------------------------------------
(* The calls, the clock and the small tables.                              *)

LEMMA CallsStep == CallsOK /\ [NoteNext]_noteVars => CallsOK'
<1> SUFFICES ASSUME CallsOK, [NoteNext]_noteVars PROVE CallsOK'
  OBVIOUS
<1>a. ASSUME UNCHANGED note PROVE CallsOK'
  BY <1>a DEF CallsOK
<1>1. CASE UNCHANGED noteVars
  BY <1>1, <1>a DEF noteVars
<1>2. CASE Tick
  BY <1>2, <1>a DEF Tick
<1>3. CASE Crash
  BY <1>3, IdleNote DEF Crash, CallsOK
<1>4. CASE Work
  BY <1>4, <1>a DEF Work, CreateInApp, ReadPreferences, SendFcmPush
<1>5. ASSUME NEW j \in Jobs, JobThrows(j) PROVE CallsOK'
  BY <1>5, <1>a DEF JobThrows
<1>6. ASSUME NEW u \in Users, MarkRead(u) \/ UpdatePreferences(u) PROVE CallsOK'
  BY <1>6, <1>a DEF MarkRead, UpdatePreferences, Statement
<1>7. ASSUME NEW u \in Users, NEW d \in Devices,
             RegisterDeviceToken(u, d) \/ RemoveDeviceToken(u, d)
      PROVE  CallsOK'
  BY <1>7, <1>a DEF RegisterDeviceToken, RemoveDeviceToken, Statement
<1>8. ASSUME NEW s \in Slots, SendEventReminders(s) PROVE CallsOK'
  <2>1. PICK q : q = [pc |-> "remind", user |-> None, todo |-> {}, kind |-> "EVENT_REMINDER"]
    OBVIOUS
  <2>2. q \in NoteCall
    BY <2>1 DEF NoteCall, CronCall
  <2> QED BY <1>8, <2>1, <2>2, CallMove DEF SendEventReminders, Begin
<1>9. ASSUME NEW s \in Slots, SendNotificationDigest(s) PROVE CallsOK'
  <2>1. PICK users \in SUBSET Users :
          note' = [note EXCEPT ![s] = [pc |-> "send", user |-> None, todo |-> users, kind |-> "DIGEST"]]
    BY <1>9 DEF SendNotificationDigest, Begin
  <2>2. PICK q : q = [pc |-> "send", user |-> None, todo |-> users, kind |-> "DIGEST"]
    OBVIOUS
  <2>3. q \in NoteCall
    BY <2>2 DEF NoteCall, CronCall
  <2> QED BY <2>1, <2>2, <2>3, CallMove
<1>10. ASSUME NEW s \in Slots, ReadRegistrations(s) PROVE CallsOK'
  <2>1. PICK c \in CronCall : c = note[s]
    BY <1>10, NoteCallKinds DEF ReadRegistrations, CallsOK
  <2>2. PICK users, q :
          /\ users \in SUBSET Audience
          /\ q = IF users = {} THEN Idle ELSE [c EXCEPT !.pc = "send", !.todo = users]
          /\ note' = [note EXCEPT ![s] = q]
    BY <1>10, <2>1 DEF ReadRegistrations, NoteGoto, Goto
  <2>3. q \in NoteCall
    BY <2>2, IdleNote, NoteAssumption DEF NoteCall, CronCall
  <2> QED BY <2>2, <2>3, CallMove
<1>11. ASSUME NEW s \in Slots, Send(s) PROVE CallsOK'
  <2>1. PICK c \in CronCall : c = note[s]
    BY <1>11, NoteCallKinds DEF Send, CallsOK
  <2>2. PICK u, q :
          /\ u \in c.todo
          /\ q = IF c.todo = {u} THEN Idle ELSE [c EXCEPT !.todo = c.todo \ {u}]
          /\ note' = [note EXCEPT ![s] = q]
    BY <1>11, <2>1 DEF Send, NoteGoto, Goto, CronCall
  <2>3. q \in NoteCall
    BY <2>2, IdleNote DEF NoteCall, CronCall
  <2> QED BY <2>2, <2>3, CallMove
<1>12. ASSUME NEW s \in Slots, ReadAudience(s) PROVE CallsOK'
  <2>1. PICK c \in BroadcastCall : c = note[s]
    BY <1>12, NoteCallKinds DEF ReadAudience, CallsOK
  <2>2. PICK users, q :
          /\ users \in SUBSET Audience
          /\ q = IF users = {} THEN Idle ELSE [c EXCEPT !.pc = "create", !.to = users]
          /\ note' = [note EXCEPT ![s] = q]
    BY <1>12, <2>1 DEF ReadAudience, NoteGoto, Goto
  <2>3. q \in NoteCall
    BY <2>2, IdleNote, NoteAssumption DEF NoteCall, BroadcastCall
  <2> QED BY <2>2, <2>3, CallMove
<1>13. ASSUME NEW s \in Slots, CreateMany(s) PROVE CallsOK'
  BY <1>13, IdleNote, CallMove DEF CreateMany, NoteGoto, Goto
<1>14. ASSUME NEW s \in Slots, NEW u \in Users, StartBroadcast(s, u) PROVE CallsOK'
  <2>1. PICK q : q = [pc |-> "batch", user |-> u, to |-> {}]
    OBVIOUS
  <2>2. q \in NoteCall
    BY <2>1 DEF NoteCall, BroadcastCall
  <2> QED BY <1>14, <2>1, <2>2, CallMove DEF StartBroadcast, Begin
<1>15. ASSUME NEW start \in 0 .. MaxTick, UpdateStartDate(start) PROVE CallsOK'
  BY <1>15, <1>a DEF UpdateStartDate, Statement
<1> QED BY <1>1, <1>2, <1>3, <1>4, <1>5, <1>6, <1>7, <1>8, <1>9, <1>10, <1>11, <1>12, <1>13, <1>14,
           <1>15
        DEF NoteNext, NoteStep

LEMMA RestStep == RestOK /\ [NoteNext]_noteVars => RestOK'
<1> SUFFICES ASSUME RestOK, [NoteNext]_noteVars PROVE RestOK'
  OBVIOUS
<1> USE DEF dates
<1>a. MaxTick \in Nat
  BY NoteAssumption
<1>1. CASE UNCHANGED noteVars
  BY <1>1 DEF noteVars, RestOK
<1>2. CASE Tick
  BY <1>2, <1>a DEF Tick, RestOK
<1>3. CASE Crash
  <2>1. noteLeft > 0 /\ noteLeft' = noteLeft - 1
    BY <1>3 DEF Crash
  <2>2. UNCHANGED <<tick, muted, device, startDate, starts>>
    BY <1>3 DEF Crash
  <2> QED BY <2>1, <2>2 DEF RestOK
<1>4. CASE Work
  <2>1. ASSUME NEW j \in Jobs, CreateInApp(j) \/ ReadPreferences(j) PROVE RestOK'
    BY <2>1 DEF CreateInApp, ReadPreferences, RestOK
  <2>2. ASSUME NEW j \in Jobs, SendFcmPush(j) PROVE RestOK'
    BY <2>2 DEF SendFcmPush, RestOK
  <2> QED BY <1>4, <2>1, <2>2 DEF Work
<1>5. ASSUME NEW j \in Jobs, JobThrows(j) PROVE RestOK'
  BY <1>5 DEF JobThrows, RestOK
<1>6. ASSUME NEW u \in Users, MarkRead(u) \/ UpdatePreferences(u) PROVE RestOK'
  BY <1>6 DEF MarkRead, UpdatePreferences, Statement, RestOK
<1>7. ASSUME NEW u \in Users, NEW d \in Devices,
             RegisterDeviceToken(u, d) \/ RemoveDeviceToken(u, d)
      PROVE  RestOK'
  <2>1. /\ noteLeft > 0 /\ noteLeft' = noteLeft - 1
        /\ UNCHANGED <<tick, muted, startDate, starts>>
    BY <1>7 DEF RegisterDeviceToken, RemoveDeviceToken, Statement
  <2>2. device' = [device EXCEPT ![d] = u] \/ device' = [device EXCEPT ![d] = None]
    BY <1>7 DEF RegisterDeviceToken, RemoveDeviceToken
  <2>3. device' \in [Devices -> Users \cup {None}]
    BY <2>2 DEF RestOK
  <2> QED BY <2>1, <2>3 DEF RestOK
<1>8. ASSUME NEW s \in Slots, SendEventReminders(s) PROVE RestOK'
  BY <1>8, <1>a DEF SendEventReminders, Begin, Free, RestOK
<1>9. ASSUME NEW s \in Slots, SendNotificationDigest(s) PROVE RestOK'
  BY <1>9 DEF SendNotificationDigest, Begin, Free, RestOK
<1>10. ASSUME NEW s \in Slots, NoteStep(s) PROVE RestOK'
  BY <1>10 DEF NoteStep, ReadRegistrations, Send, ReadAudience, CreateMany, NoteGoto, Goto, RestOK
<1>11. ASSUME NEW s \in Slots, NEW u \in Users, StartBroadcast(s, u) PROVE RestOK'
  BY <1>11 DEF StartBroadcast, Begin, Free, RestOK
<1>12. ASSUME NEW start \in 0 .. MaxTick, UpdateStartDate(start) PROVE RestOK'
  BY <1>12, <1>a DEF UpdateStartDate, Statement, RestOK
<1> QED BY <1>1, <1>2, <1>3, <1>4, <1>5, <1>6, <1>7, <1>8, <1>9, <1>10, <1>11, <1>12 DEF NoteNext

LEMMA NoteInits == NoteInit => TableInv /\ CallsOK /\ RestOK
<1> SUFFICES ASSUME NoteInit PROVE TableInv /\ CallsOK /\ RestOK
  OBVIOUS
<1>1. sending \in Seq(Sending) /\ DOMAIN sending = {} /\ notification = {}
  BY DEF NoteInit
<1>2. TableInv
  BY <1>1 DEF TableInv, TablesOK, QueueInv
<1>3. CallsOK /\ RestOK
  BY IdleNote, NoteAssumption DEF NoteInit, CallsOK, RestOK
<1> QED BY <1>2, <1>3

\* Every variable of the notifications has its type: every row comes from a job or
\* a broadcast that was made.
THEOREM NoteTypes == NoteSpec => []NoteTypeOK
<1>1. TableInv => TablesOK
  BY DEF TableInv
<1> QED BY <1>1, NoteInits, TableStep, CallsStep, RestStep, TypeParts, PTL DEF NoteSpec

\* A sending gives a user no more rows than it has had attempts and stalls, and a
\* broadcast at most one, whatever the worker, the cron and the users do meanwhile.
THEOREM FewRows == NoteSpec => []RowsPerSending
BY NoteInits, TableStep, CallsStep, InvGivesRows, PTL DEF NoteSpec

-----------------------------------------------------------------------------
(***************************************************************************)
(* Reminders.  A run of the cron is begun at most once per tick of the     *)
(* windows of the dates that the event has had, and queues at most one job *)
(* per user; what it may yet queue is counted with the jobs there are.     *)
(***************************************************************************)
Reminders(u) == {j \in Jobs : sending[j].kind = "EVENT_REMINDER" /\ sending[j].user = u}

\* The runs that may yet queue a reminder for a user.
WillRemind(u) == {s \in Slots :
  \/ note[s].pc = "remind"
  \/ note[s].pc = "send" /\ note[s].kind = "EVENT_REMINDER" /\ u \in note[s].todo}

\* The ticks of the windows, and those of them that are over.
InSome == UNION {Window(start) : start \in starts}

Over == {t \in InSome : t < tick}

Passed == Cardinality(Over)

RemindersFit(u) ==
  /\ IsFiniteSet(Reminders(u)) /\ IsFiniteSet(WillRemind(u))
  /\ Cardinality(Reminders(u)) + Cardinality(WillRemind(u)) <= Passed

ReminderInv == \A u \in Users : RemindersFit(u)

NoteTypesInv == TableInv /\ CallsOK /\ RestOK

LEMMA WindowsFinite ==
  /\ IsFiniteSet(InSome) /\ Cardinality(InSome) \in Nat
  /\ IsFiniteSet(Over) /\ Passed \in Nat /\ Passed <= Cardinality(InSome)
  /\ InSome \subseteq Int
<1>1. IsFiniteSet(0 .. MaxTick)
  BY NoteAssumption, FS_Interval
<1>2. InSome \subseteq 0 .. MaxTick /\ Over \subseteq InSome
  BY DEF InSome, Window, Over
<1>3. IsFiniteSet(InSome) /\ IsFiniteSet(Over) /\ Cardinality(Over) <= Cardinality(InSome)
  BY <1>1, <1>2, FS_Subset
<1> QED BY <1>2, <1>3, FS_CardinalityType DEF Passed

\* The windows of a date that is added come on top of those before.
LEMMA PassedGrows ==
  ASSUME RestOK, tick' = tick \/ tick' = tick + 1, starts \subseteq starts'
  PROVE  Passed' \in Nat /\ Passed <= Passed'
<1>1. PICK A, B : A = Over /\ B = Over'
  OBVIOUS
<1>2. InSome \subseteq InSome'
  BY DEF InSome, Window
<1>0. tick \in Int
  BY NoteAssumption DEF RestOK
<1>3. ASSUME NEW t \in A PROVE t \in B
  <2>1. t \in InSome /\ t < tick /\ t \in Int
    BY <1>1, WindowsFinite DEF Over
  <2>2. t \in InSome' /\ t < tick'
    BY <1>0, <1>2, <2>1
  <2> QED BY <1>1, <2>2 DEF Over
<1>4. IsFiniteSet(0 .. MaxTick) /\ B \subseteq 0 .. MaxTick
  BY <1>1, NoteAssumption, FS_Interval DEF Over, InSome, Window
<1>5. IsFiniteSet(B)
  BY <1>4, FS_Subset
<1> QED BY <1>1, <1>3, <1>5, FS_Subset, FS_CardinalityType DEF Passed

LEMMA PassedInWindow ==
  ASSUME RestOK, InWindow, tick' = tick + 1, UNCHANGED starts
  PROVE  Passed' = Passed + 1
<1>1. PICK A, B : A = Over /\ B = Over'
  OBVIOUS
<1>2. tick \in Int /\ tick \in InSome
  BY NoteAssumption DEF RestOK, InWindow, InSome
<1>3. InSome' = InSome
  BY DEF InSome, Window
<1>4. B = A \cup {tick} /\ tick \notin A
  <2>1. \A t \in InSome : t < tick + 1 <=> t < tick \/ t = tick
    BY <1>2, WindowsFinite
  <2>2. B = {t \in InSome : t < tick + 1}
    BY <1>1, <1>3 DEF Over
  <2>3. A = {t \in InSome : t < tick} /\ ~(tick < tick)
    BY <1>1, <1>2 DEF Over
  <2> QED BY <1>2, <2>1, <2>2, <2>3
<1>5. Cardinality(A \cup {tick}) = Cardinality(A) + 1
  BY <1>1, <1>4, WindowsFinite, FS_AddElement
<1> QED BY <1>1, <1>4, <1>5 DEF Passed

\* Nothing more is queued or may yet be.
LEMMA NoMoreReminders ==
  ASSUME RestOK, NEW u \in Users, RemindersFit(u),
         Reminders(u)' \subseteq Reminders(u), WillRemind(u)' \subseteq WillRemind(u),
         tick' = tick \/ tick' = tick + 1, starts \subseteq starts'
  PROVE  RemindersFit(u)'
<1>1. PICK A : A = Reminders(u)
  OBVIOUS
<1>2. PICK B : B = WillRemind(u)
  OBVIOUS
<1>3. /\ IsFiniteSet(Reminders(u)') /\ Cardinality(Reminders(u)') <= Cardinality(A)
      /\ IsFiniteSet(WillRemind(u)') /\ Cardinality(WillRemind(u)') <= Cardinality(B)
      /\ IsFiniteSet(A) /\ IsFiniteSet(B)
  BY <1>1, <1>2, NoMore DEF RemindersFit
<1>4. /\ Cardinality(Reminders(u)') \in Nat /\ Cardinality(WillRemind(u)') \in Nat
      /\ Cardinality(A) \in Nat /\ Cardinality(B) \in Nat
  BY <1>3, FS_CardinalityType
<1>5. Cardinality(A) + Cardinality(B) <= Passed
  BY <1>1, <1>2 DEF RemindersFit
<1>6. Passed \in Nat /\ Passed' \in Nat /\ Passed <= Passed'
  BY WindowsFinite, PassedGrows
<1>7. Cardinality(Reminders(u)') + Cardinality(WillRemind(u)') <= Passed'
  BY <1>3, <1>4, <1>5, <1>6
<1> QED BY <1>3, <1>7 DEF RemindersFit

\* A run begins.
LEMMA RunBegins ==
  ASSUME RestOK, NEW u \in Users, RemindersFit(u), NEW s,
         Reminders(u)' \subseteq Reminders(u), WillRemind(u)' \subseteq WillRemind(u) \cup {s},
         InWindow, tick' = tick + 1, UNCHANGED starts
  PROVE  RemindersFit(u)'
<1>1. PICK A : A = Reminders(u)
  OBVIOUS
<1>2. PICK B : B = WillRemind(u)
  OBVIOUS
<1>0. IsFiniteSet(A) /\ IsFiniteSet(B)
  BY <1>1, <1>2 DEF RemindersFit
<1>3. /\ IsFiniteSet(Reminders(u)') /\ Cardinality(Reminders(u)') <= Cardinality(A)
      /\ IsFiniteSet(WillRemind(u)') /\ Cardinality(WillRemind(u)') <= Cardinality(B) + 1
  BY <1>0, <1>1, <1>2, NoMore, OneMore
<1>4. /\ Cardinality(Reminders(u)') \in Nat /\ Cardinality(WillRemind(u)') \in Nat
      /\ Cardinality(A) \in Nat /\ Cardinality(B) \in Nat
  BY <1>0, <1>3, FS_CardinalityType
<1>5. Cardinality(A) + Cardinality(B) <= Passed
  BY <1>1, <1>2 DEF RemindersFit
<1>6. Passed \in Nat /\ Passed' = Passed + 1
  BY WindowsFinite, PassedInWindow
<1>7. Cardinality(Reminders(u)') + Cardinality(WillRemind(u)') <= Passed'
  BY <1>3, <1>4, <1>5, <1>6
<1> QED BY <1>3, <1>7 DEF RemindersFit

\* A run queues the job that it has counted for.
LEMMA RunQueues ==
  ASSUME RestOK, NEW u \in Users, RemindersFit(u), NEW s, NEW j,
         Reminders(u)' \subseteq Reminders(u) \cup {j},
         s \in WillRemind(u), WillRemind(u)' \subseteq WillRemind(u) \ {s},
         UNCHANGED <<tick, starts>>
  PROVE  RemindersFit(u)'
<1>1. PICK A : A = Reminders(u)
  OBVIOUS
<1>2. PICK B : B = WillRemind(u)
  OBVIOUS
<1>0. IsFiniteSet(A) /\ IsFiniteSet(B) /\ s \in B
  BY <1>1, <1>2 DEF RemindersFit
<1>a. IsFiniteSet(B \ {s}) /\ Cardinality(B \ {s}) = Cardinality(B) - 1
  BY <1>0, FS_RemoveElement
<1>3. /\ IsFiniteSet(Reminders(u)') /\ Cardinality(Reminders(u)') <= Cardinality(A) + 1
      /\ IsFiniteSet(WillRemind(u)') /\ Cardinality(WillRemind(u)') <= Cardinality(B \ {s})
  BY <1>0, <1>a, <1>1, <1>2, NoMore, OneMore
<1>4. /\ Cardinality(Reminders(u)') \in Nat /\ Cardinality(WillRemind(u)') \in Nat
      /\ Cardinality(A) \in Nat /\ Cardinality(B) \in Nat
  BY <1>0, <1>3, FS_CardinalityType
<1>5. Cardinality(A) + Cardinality(B) <= Passed
  BY <1>1, <1>2 DEF RemindersFit
<1>6. Passed \in Nat /\ Passed' = Passed
  BY WindowsFinite DEF Passed, Over, InSome, Window
<1>7. Cardinality(Reminders(u)') + Cardinality(WillRemind(u)') <= Passed'
  BY <1>3, <1>4, <1>5, <1>6, <1>a
<1> QED BY <1>3, <1>7 DEF RemindersFit

-----------------------------------------------------------------------------
\* The worker changes no job's kind and user.
SameJobs ==
  /\ DOMAIN sending' = DOMAIN sending
  /\ \A k \in DOMAIN sending : sending'[k].kind = sending[k].kind
  /\ \A k \in Jobs : sending'[k].user = sending[k].user

LEMMA SameReminders ==
  ASSUME SameJobs, NEW u
  PROVE  Reminders(u)' = Reminders(u)
BY DEF SameJobs, Reminders, Jobs

LEMMA SetSame ==
  ASSUME TableInv, NEW j \in Jobs, NEW q \in Job, sending' = [sending EXCEPT ![j] = q],
         q.kind = sending[j].kind, q.user = sending[j].user
  PROVE  SameJobs
BY JobOf DEF SameJobs, TableInv, TablesOK

LEMMA WorkSame ==
  ASSUME TableInv, NEW j \in Jobs, NEW pc \in {"waiting", "prefs", "push", "done", "failed"},
         SetJob(j, pc)
  PROVE  SameJobs
<1>1. PICK job \in Job : job = sending[j]
  BY JobOf
<1>2. PICK q : q = [job EXCEPT !.pc = pc]
  OBVIOUS
<1>3. q \in Job /\ q.kind = job.kind /\ q.user = job.user
  BY <1>2 DEF Job
<1>4. sending' = [sending EXCEPT ![j] = q]
  BY <1>1, <1>2, SetJobIs
<1> QED BY <1>1, <1>3, <1>4, SetSame

LEMMA ThrowSame ==
  ASSUME TableInv, NEW j \in Jobs, JobThrows(j)
  PROVE  SameJobs
<1>1. PICK job \in Job : job = sending[j] /\ SendingOK(job) /\ job.pc # "failed"
  BY JobOf DEF JobThrows, Active, Due
<1>2. PICK pc : pc = IF job.tries + 1 < Attempts THEN "waiting" ELSE "failed"
  OBVIOUS
<1>n. PICK n : n = job.tries + 1
  OBVIOUS
<1>3. PICK q : q = [job EXCEPT !.tries = n, !.pc = pc]
  OBVIOUS
<1>4. n \in 0 .. Attempts
  BY <1>1, <1>n, JobIs, Numbers DEF SendingOK
<1>5. pc \in {"waiting", "prefs", "push", "done", "failed"}
  BY <1>2
<1>6. q \in Job /\ q.kind = job.kind /\ q.user = job.user
  BY <1>3, <1>4, <1>5 DEF Job
<1>7. sending' = [sending EXCEPT ![j] = q]
  BY <1>1, <1>2, <1>3, <1>n, JobOf DEF JobThrows, TableInv, TablesOK, Job
<1> QED BY <1>1, <1>6, <1>7, SetSame

LEMMA CrashSame ==
  ASSUME TableInv, Crash
  PROVE  SameJobs
<1>2. PICK m \in Nat : DOMAIN sending = 1 .. m /\ m = Len(sending)
  BY DEF TableInv, TablesOK
<1>3. sending' = [j \in 1 .. m |->
        IF ~Active(j) THEN sending[j]
        ELSE IF sending[j].stalls < MaxStalls
             THEN [sending[j] EXCEPT !.pc = "waiting", !.stalls = @ + 1]
             ELSE [sending[j] EXCEPT !.pc = "failed"]]
  BY <1>2 DEF Crash
<1>4. ASSUME NEW k \in 1 .. m
      PROVE  /\ sending'[k].kind = sending[k].kind
             /\ k \in Jobs => sending'[k].user = sending[k].user
  <2>1. CASE ~Active(k)
    BY <1>3, <2>1
  <2>2. CASE Active(k)
    <3>1. PICK job \in Job : job = sending[k]
      BY <2>2, JobOf DEF Active
    <3>2. \/ sending'[k] = [job EXCEPT !.pc = "waiting", !.stalls = @ + 1]
          \/ sending'[k] = [job EXCEPT !.pc = "failed"]
      BY <1>3, <2>2, <3>1
    <3> QED BY <3>1, <3>2 DEF Job
  <2> QED BY <2>1, <2>2
<1>5. DOMAIN sending' = DOMAIN sending
  BY <1>2, <1>3
<1> QED BY <1>2, <1>4, <1>5 DEF SameJobs, Jobs

\* A call goes on as one that may queue no more.
LEMMA CallShrinks ==
  ASSUME CallsOK, NEW s \in Slots, NEW q, note' = [note EXCEPT ![s] = q], NEW u,
         q.pc \notin {"remind", "send"}
  PROVE  WillRemind(u)' \subseteq WillRemind(u)
BY DEF CallsOK, WillRemind

LEMMA AppendSame ==
  ASSUME TableInv, NEW row, sending' = Append(sending, row), NEW u,
         row.kind # "EVENT_REMINDER" \/ row.user # u
  PROVE  Reminders(u)' \subseteq Reminders(u)
<1>1. PICK m \in Nat : m = Len(sending) /\ DOMAIN sending = 1 .. m
  BY DEF TableInv, TablesOK
<1>2. /\ DOMAIN sending' = 1 .. m + 1 /\ sending'[m + 1] = row
      /\ \A k \in 1 .. m : sending'[k] = sending[k]
  BY <1>1 DEF TableInv, TablesOK
<1> QED BY <1>1, <1>2 DEF Reminders, Jobs

LEMMA AppendOne ==
  ASSUME TableInv, NEW row, sending' = Append(sending, row), NEW u
  PROVE  Reminders(u)' \subseteq Reminders(u) \cup {Len(sending) + 1}
<1>1. PICK m \in Nat : m = Len(sending) /\ DOMAIN sending = 1 .. m
  BY DEF TableInv, TablesOK
<1>2. /\ DOMAIN sending' = 1 .. m + 1 /\ sending'[m + 1] = row
      /\ \A k \in 1 .. m : sending'[k] = sending[k]
  BY <1>1 DEF TableInv, TablesOK
<1> QED BY <1>1, <1>2 DEF Reminders, Jobs

-----------------------------------------------------------------------------
LEMMA ReminderStep == NoteTypesInv /\ ReminderInv /\ [NoteNext]_noteVars => ReminderInv'
<1> SUFFICES ASSUME TableInv, CallsOK, RestOK, NEW u \in Users, RemindersFit(u),
                    [NoteNext]_noteVars
             PROVE  RemindersFit(u)'
  BY DEF ReminderInv, NoteTypesInv
<1>t. tick \in Nat
  BY NoteAssumption DEF RestOK
<1>a. ASSUME UNCHANGED note PROVE WillRemind(u)' = WillRemind(u)
  BY <1>a DEF WillRemind
<1>b. ASSUME UNCHANGED sending PROVE Reminders(u)' = Reminders(u)
  BY <1>b DEF Reminders, Jobs
<1>d. ASSUME UNCHANGED dates PROVE starts \subseteq starts' /\ UNCHANGED starts
  BY <1>d DEF dates
<1>1. CASE UNCHANGED noteVars
  BY <1>1, <1>a, <1>b, NoMoreReminders DEF noteVars
<1>2. CASE Tick
  BY <1>2, <1>a, <1>b, <1>d, NoMoreReminders DEF Tick
<1>3. CASE Crash
  <2>1. WillRemind(u)' \subseteq WillRemind(u)
    BY <1>3, IdleNote DEF Crash, WillRemind
  <2>2. UNCHANGED <<tick, dates>>
    BY <1>3 DEF Crash
  <2> QED BY <1>3, <2>1, <2>2, CrashSame, SameReminders, <1>d, NoMoreReminders
<1>4. CASE Work
  <2>1. PICK j \in Jobs : \E pc \in {"waiting", "prefs", "push", "done", "failed"} : SetJob(j, pc)
    BY <1>4 DEF Work, CreateInApp, ReadPreferences, SendFcmPush
  <2>2. UNCHANGED <<tick, note, dates>>
    BY <1>4 DEF Work, CreateInApp, ReadPreferences, SendFcmPush
  <2> QED BY <2>1, <2>2, <1>a, WorkSame, SameReminders, <1>d, NoMoreReminders
<1>5. ASSUME NEW j \in Jobs, JobThrows(j) PROVE RemindersFit(u)'
  <2>1. UNCHANGED <<tick, note, dates>>
    BY <1>5 DEF JobThrows
  <2> QED BY <1>5, <2>1, <1>a, ThrowSame, SameReminders, <1>d, NoMoreReminders
<1>6. ASSUME NEW v \in Users, MarkRead(v) \/ UpdatePreferences(v) PROVE RemindersFit(u)'
  <2>1. UNCHANGED <<tick, note, sending, dates>>
    BY <1>6 DEF MarkRead, UpdatePreferences, Statement
  <2> QED BY <2>1, <1>a, <1>b, <1>d, NoMoreReminders
<1>7. ASSUME NEW v \in Users, NEW d \in Devices,
             RegisterDeviceToken(v, d) \/ RemoveDeviceToken(v, d)
      PROVE  RemindersFit(u)'
  <2>1. UNCHANGED <<tick, note, sending, dates>>
    BY <1>7 DEF RegisterDeviceToken, RemoveDeviceToken, Statement
  <2> QED BY <2>1, <1>a, <1>b, <1>d, NoMoreReminders
<1>8. ASSUME NEW s \in Slots, SendEventReminders(s) PROVE RemindersFit(u)'
  <2>1. WillRemind(u)' \subseteq WillRemind(u) \cup {s}
    BY <1>8 DEF SendEventReminders, Begin, CallsOK, WillRemind
  <2>2. UNCHANGED <<sending, dates>> /\ InWindow /\ tick' = tick + 1
    BY <1>8 DEF SendEventReminders
  <2> QED BY <2>1, <2>2, <1>b, <1>d, RunBegins
<1>9. ASSUME NEW s \in Slots, SendNotificationDigest(s) PROVE RemindersFit(u)'
  <2>0. PICK users :
          note' = [note EXCEPT ![s] = [pc |-> "send", user |-> None, todo |-> users, kind |-> "DIGEST"]]
    BY <1>9 DEF SendNotificationDigest, Begin
  <2>1. PICK q : q = [pc |-> "send", user |-> None, todo |-> users, kind |-> "DIGEST"]
    OBVIOUS
  <2>a. note' = [note EXCEPT ![s] = q] /\ q.pc = "send" /\ q.kind = "DIGEST"
    BY <2>0, <2>1
  <2>2. WillRemind(u)' \subseteq WillRemind(u)
    BY <2>a DEF CallsOK, WillRemind
  <2>3. UNCHANGED <<tick, sending, dates>>
    BY <1>9 DEF SendNotificationDigest
  <2> QED BY <2>2, <2>3, <1>b, <1>d, NoMoreReminders
<1>10. ASSUME NEW s \in Slots, ReadRegistrations(s) PROVE RemindersFit(u)'
  <2>1. PICK q : note' = [note EXCEPT ![s] = q] /\ note[s].pc = "remind"
    BY <1>10 DEF ReadRegistrations, NoteGoto, Goto
  <2>2. WillRemind(u)' \subseteq WillRemind(u)
    BY <2>1 DEF CallsOK, WillRemind
  <2>3. UNCHANGED <<tick, sending, dates>>
    BY <1>10 DEF ReadRegistrations
  <2> QED BY <2>2, <2>3, <1>b, <1>d, NoMoreReminders
<1>11. ASSUME NEW s \in Slots, Send(s) PROVE RemindersFit(u)'
  <2>1. PICK c \in CronCall : c = note[s] /\ c.pc = "send"
    BY <1>11, NoteCallKinds DEF Send, CallsOK
  <2>2. PICK v, q :
          /\ v \in c.todo
          /\ sending' = Append(sending, NewJob(c.kind, v))
          /\ q = IF c.todo = {v} THEN Idle ELSE [c EXCEPT !.todo = c.todo \ {v}]
          /\ note' = [note EXCEPT ![s] = q]
    BY <1>11, <2>1 DEF Send, NoteGoto, Goto, CronCall
  <2>3. UNCHANGED <<tick, dates>>
    BY <1>11 DEF Send
  <2>r. PICK row : row = NewJob(c.kind, v)
    OBVIOUS
  <2>4. row = NewJob(c.kind, v) /\ row.kind = c.kind /\ row.user = v
    BY <2>r DEF NewJob
  <2>5. \/ q.pc = "idle" /\ c.todo = {v}
        \/ q.pc = "send" /\ q.kind = c.kind /\ q.todo = c.todo \ {v}
    BY <2>1, <2>2, IdleNote DEF CronCall
  <2>6. WillRemind(u)' \subseteq WillRemind(u)
    BY <2>1, <2>2, <2>5 DEF CallsOK, WillRemind
  <2>7. CASE row.kind # "EVENT_REMINDER" \/ row.user # u
    BY <2>2, <2>3, <2>4, <2>6, <2>7, AppendSame, <1>d, NoMoreReminders
  <2>8. CASE row.kind = "EVENT_REMINDER" /\ row.user = u
    <3>1. s \in WillRemind(u)
      BY <2>1, <2>2, <2>4, <2>8 DEF WillRemind
    <3>2. WillRemind(u)' \subseteq WillRemind(u) \ {s}
      BY <2>2, <2>4, <2>5, <2>6, <2>8 DEF CallsOK, WillRemind
    <3> QED BY <2>2, <2>3, <3>1, <3>2, AppendOne, <1>d, RunQueues
  <2> QED BY <2>7, <2>8
<1>12. ASSUME NEW s \in Slots, ReadAudience(s) PROVE RemindersFit(u)'
  <2>1. PICK c \in BroadcastCall : c = note[s]
    BY <1>12, NoteCallKinds DEF ReadAudience, CallsOK
  <2>2. PICK users, q :
          /\ q = IF users = {} THEN Idle ELSE [c EXCEPT !.pc = "create", !.to = users]
          /\ note' = [note EXCEPT ![s] = q]
    BY <1>12, <2>1 DEF ReadAudience, NoteGoto, Goto
  <2>3. q.pc \notin {"remind", "send"}
    BY <2>2, IdleNote DEF BroadcastCall
  <2>4. UNCHANGED <<tick, sending, dates>>
    BY <1>12 DEF ReadAudience
  <2> QED BY <2>2, <2>3, <2>4, <1>b, CallShrinks, <1>d, NoMoreReminders
<1>13. ASSUME NEW s \in Slots, CreateMany(s) PROVE RemindersFit(u)'
  <2>1. /\ note' = [note EXCEPT ![s] = Idle] /\ UNCHANGED <<tick, dates>>
        /\ sending' = Append(sending, [kind |-> "BROADCAST"])
    BY <1>13 DEF CreateMany, NoteGoto, Goto
  <2>2. WillRemind(u)' \subseteq WillRemind(u)
    BY <2>1, IdleNote, CallShrinks
  <2>3. PICK row : row = [kind |-> "BROADCAST"]
    OBVIOUS
  <2>4. row.kind # "EVENT_REMINDER"
    BY <2>3
  <2> QED BY <2>1, <2>2, <2>3, <2>4, AppendSame, <1>d, NoMoreReminders
<1>14. ASSUME NEW s \in Slots, NEW v \in Users, StartBroadcast(s, v) PROVE RemindersFit(u)'
  <2>0. PICK q : q = [pc |-> "batch", user |-> v, to |-> {}]
    OBVIOUS
  <2>1. note' = [note EXCEPT ![s] = q] /\ q.pc = "batch"
    BY <1>14, <2>0 DEF StartBroadcast, Begin
  <2>2. UNCHANGED <<tick, sending, dates>>
    BY <1>14 DEF StartBroadcast
  <2> QED BY <2>1, <2>2, <1>b, CallShrinks, <1>d, NoMoreReminders
<1>15. ASSUME NEW start \in 0 .. MaxTick, UpdateStartDate(start) PROVE RemindersFit(u)'
  <2>1. UNCHANGED <<tick, note, sending>> /\ starts \subseteq starts'
    BY <1>15 DEF UpdateStartDate, Statement
  <2> QED BY <2>1, <1>a, <1>b, NoMoreReminders
<1> QED BY <1>1, <1>2, <1>3, <1>4, <1>5, <1>6, <1>7, <1>8, <1>9, <1>10, <1>11, <1>12, <1>13, <1>14,
           <1>15
        DEF NoteNext, NoteStep

LEMMA ReminderInit == NoteInit => ReminderInv
<1> SUFFICES ASSUME NoteInit, NEW u \in Users PROVE RemindersFit(u)
  BY DEF ReminderInv
<1>1. Reminders(u) = {}
  BY DEF NoteInit, Reminders, Jobs
<1>2. WillRemind(u) = {}
  BY IdleNote DEF NoteInit, WillRemind
<1>3. IsFiniteSet({}) /\ Cardinality({}) = 0
  BY FS_EmptySet
<1>4. RestOK
  BY NoteInits
<1> QED BY <1>1, <1>2, <1>3, <1>4, WindowsFinite DEF RemindersFit

LEMMA RemindersAreFew == ReminderInv => FewReminders
<1> SUFFICES ASSUME NEW u \in Users, RemindersFit(u)
             PROVE  Cardinality(Reminders(u)) <= Cardinality(InSome)
  BY DEF FewReminders, Reminders, ReminderInv, InSome
<1>1. /\ Cardinality(Reminders(u)) \in Nat /\ Cardinality(WillRemind(u)) \in Nat
      /\ Cardinality(Reminders(u)) + Cardinality(WillRemind(u)) <= Passed
  BY FS_CardinalityType DEF RemindersFit
<1> QED BY <1>1, WindowsFinite

\* A user is sent at most one reminder of an event per quarter of an hour in the
\* windows of the dates that the event has had, however often the date is changed
\* and although the runs of the cron that queue the reminders overlap and die.
THEOREM Reminded == NoteSpec => []FewReminders
<1>1. NoteInit => NoteTypesInv
  BY NoteInits DEF NoteTypesInv
<1>2. NoteTypesInv /\ [NoteNext]_noteVars => NoteTypesInv'
  BY TableStep, CallsStep, RestStep DEF NoteTypesInv
<1> QED BY <1>1, <1>2, ReminderInit, ReminderStep, RemindersAreFew, PTL DEF NoteSpec
=============================================================================
