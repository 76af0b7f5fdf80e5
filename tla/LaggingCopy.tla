--------------------------- MODULE LaggingCopy ---------------------------
(***************************************************************************)
(* What asynchronous replication of one key promises: the copy takes every *)
(* value the primary took, in the order in which it took them and without  *)
(* leaving one out.  lag holds the values the copy has still to take; the  *)
(* last of them is the primary's own.  A value may vanish from both sides  *)
(* at once (its time is up) when nothing is on its way.  Once excused is   *)
(* set nothing is promised any more.                                       *)
(***************************************************************************)
EXTENDS Sequences

CONSTANT Absent

VARIABLES primary, lag, copy, excused

lcvars == <<primary, lag, copy, excused>>

Init ==
    /\ copy = primary
    /\ lag = <<>>
    /\ excused = FALSE

Write ==
    /\ lag' = Append(lag, primary')
    /\ UNCHANGED <<copy, excused>>

Deliver ==
    /\ lag # <<>>
    /\ copy' = Head(lag)
    /\ lag' = Tail(lag)
    /\ UNCHANGED <<primary, excused>>

Vanish ==
    /\ lag = <<>> /\ lag' = <<>>
    /\ primary' = Absent /\ copy' = Absent
    /\ UNCHANGED excused

GiveUp == excused' = TRUE

Next == (~excused /\ (Write \/ Deliver \/ Vanish)) \/ GiveUp

Spec == Init /\ [][Next]_lcvars
=============================================================================
