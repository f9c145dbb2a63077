----------------------------- MODULE LineStream -----------------------------
(***************************************************************************)
(* What a sender of values may rely on: they come out in order, each once  *)
(* and unchanged, however the bytes in between are grouped.                *)
(***************************************************************************)
EXTENDS Naturals, Sequences

CONSTANT Values

VARIABLES
    pending,  \* the values still to come out
    got       \* the values that came out

vars == <<pending, got>>

Init == pending \in Seq(Values) /\ got = <<>>

Deliver ==
    \E n \in 1 .. Len(pending) :
        /\ got' = got \o SubSeq(pending, 1, n)
        /\ pending' = SubSeq(pending, n + 1, Len(pending))

Spec == Init /\ [][Deliver]_vars
=============================================================================
