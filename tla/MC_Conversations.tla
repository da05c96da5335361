--------------------------- MODULE MC_Conversations ---------------------------
(* Instance of Conversations for TLC: a chat nobody has written in yet; one that was
   answered; or one with a name given and a refusal behind it, beside a new one; a connection, or none. *)
EXTENDS Conversations, TLC

CONSTANTS c1, c2, x, y, m1, g1, g2

MCRows == ChatTables \cup MeetingTables
Knows(field, w) == [f \in Fields |-> IF f = field THEN w ELSE Unsaid]
MCHearings == {Nothing, Knows("company", x), Knows("company", y)}
ChatOf(c, answered, rapid) == Chat(c) :> [answered |-> answered, rapid |-> rapid, flagged |-> FALSE]
MCFirstChats ==
    {ChatOf(c1, FALSE, 0),
     ChatOf(c1, TRUE, 0),
     ChatOf(c1, TRUE, 1) @@ Talk(c1) :> Knows("name", x) @@ ChatOf(c2, FALSE, 0)}
MCConnections == {Absent, [id |-> g1, access |-> g1, refresh |-> g1]}

Symmetry == Permutations(Sessions) \cup Permutations({x, y})
=============================================================================
