------------------------------- MODULE Calls -------------------------------
(***************************************************************************)
(* The requests and jobs of one component.  A call is a record that says   *)
(* which statement comes next (pc), on whose behalf it runs (user) and     *)
(* what it has read so far.  One step of a call is one statement against   *)
(* the database, with the code up to the next await.                       *)
(*                                                                         *)
(* `calls` and `left` are the variables of the component that uses the     *)
(* operators: its calls in flight, and how many more it may begin.         *)
(***************************************************************************)
EXTENDS Naturals

CONSTANTS
  Users,   \* the accounts
  None,    \* no user, no row
  Slots,   \* calls of one component that can be in flight at the same time
  MayFail  \* whether a call can die between two statements

ASSUME CallsAssumption == None \notin Users /\ MayFail \in BOOLEAN

Idle == [pc |-> "idle", user |-> None]

Free(calls, left, s) == calls[s] = Idle /\ left > 0

\* A call begins in a free slot.
Begin(calls, left, s, call) ==
  /\ Free(calls, left, s)
  /\ calls' = [calls EXCEPT ![s] = call]
  /\ left' = left - 1

\* It goes on with what it knows now; as Idle it has ended, by a return or a throw.
Goto(calls, left, s, call) ==
  /\ calls' = [calls EXCEPT ![s] = call]
  /\ UNCHANGED left

\* A crash, a lost connection, an error of the database: the call stops, and
\* the statements it has committed stay.
Die(calls, left, s) ==
  /\ MayFail
  /\ calls[s] # Idle
  /\ Goto(calls, left, s, Idle)

\* Users with a call in flight.
Busy(calls) == {calls[s].user : s \in Slots} \ {None}
=============================================================================
