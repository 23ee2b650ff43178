----------------------------- MODULE TicketBook -----------------------------
(***************************************************************************)
(* What the numbering of tickets promises.  Each fest has a book of its    *)
(* own: a user gets the next number of the book, once, for good.  So the   *)
(* numbers of a fest run from 1 without a gap, and their order is the      *)
(* order in which the tickets were issued.                                 *)
(***************************************************************************)
EXTENDS Naturals

CONSTANTS Fests, Users

VARIABLES last,   \* the last number issued for the fest
          number  \* the number of the user's ticket for the fest, 0 without one

Init == /\ last = [f \in Fests |-> 0]
        /\ number = [f \in Fests |-> [u \in Users |-> 0]]

Issue(f, u) ==
  /\ number[f][u] = 0
  /\ last' = [last EXCEPT ![f] = @ + 1]
  /\ number' = [number EXCEPT ![f][u] = last[f] + 1]

Next == \E f \in Fests, u \in Users : Issue(f, u)

Spec == Init /\ [][Next]_<<last, number>>
=============================================================================
