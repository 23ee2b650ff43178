------------------------------ MODULE MCCampus ------------------------------
(***************************************************************************)
(* Campus for TLC.  The call slots are interchangeable, and so are the     *)
(* sockets; the users are not, because they differ in what they may do.    *)
(***************************************************************************)
EXTENDS Campus, TLC

CONSTANTS u1, u2, lead, g1, travel

\* A veteran, who once was new, or a user of the seed, next to one who has just
\* signed up.
MCArrivals == {[u \in Users |-> IF u = u1 THEN other ELSE "signup"] :
                 other \in {"veteran", "seed"}}

\* Small amounts, in the proportions of the constants: a month and a badge
\* cross a threshold, and two check-ins do.
MCThresholds == <<0, 2, 4>>
MCReward == [b \in {"Digital Native", "Night Owl"} |-> 2]

\* Three stages, in and out of order; in the second list two share an index.
MCStage(i, r) == [index |-> i, role |-> r]
MCPlans == {<<MCStage(0, lead), MCStage(1, None), MCStage(2, lead)>>,
            <<MCStage(1, None), MCStage(0, None), MCStage(1, lead)>>}
MCApprovers == [u \in Users |-> IF u = u1 THEN lead ELSE None]

\* No winner, one, or two in either order.
MCWinner(u, p) == [user |-> u, position |-> p]
MCWinnerLists == {<<>>, <<MCWinner(u1, 1)>>, <<MCWinner(u2, 2)>>,
                  <<MCWinner(u1, 1), MCWinner(u2, 2)>>, <<MCWinner(u2, 2), MCWinner(u1, 1)>>}

\* Permissions come with the role of an administrator.
MCPermissions == [r \in Roles |-> IF r = "admin" THEN {"role:manage", "group:create", "user:ban"}
                                  ELSE {}]

\* Everybody's number meets the rule of the SYSTEM group there is.
MCRule == (g1 :> Users)

\* A group that is made has no rule, or one that the number of u2 meets.
MCRulesSent == {{}, {u2}}

\* The seed has inserted no category.
MCSeed == {{}}

\* Trips are to the event, and food is for none.
MCSpentFor == (travel :> Outings) @@ [n \in CategoryNames |-> {None}]

\* The chat starts with one message.
MCPast == <<1>>

Symmetry == {p @@ q : p \in Permutations(Slots), q \in Permutations(Sockets)}
=============================================================================
