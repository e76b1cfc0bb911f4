------------------------------ MODULE MCSegment ------------------------------
(* Model checking of Segment: an insert of 14 words, one of 13 without     *)
(* metadata, and a delete of 8: one that is written behind the torn header *)
(* of an insert may end inside it.  The length of the longest looks        *)
(* like an operation type.                                                 *)
EXTENDS Segment

MCPayloads == {InsertPayload(<<7>>, 1, <<5, 6, 5>>, <<3>>),
               InsertPayload(<<7>>, 1, <<5, 6, 5>>, <<>>),
               DeletePayload(<<7>>, 1)}
=============================================================================
