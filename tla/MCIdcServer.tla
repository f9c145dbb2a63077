---------------------------- MODULE MCIdcServer ----------------------------
(* The constants of IdcServer for TLC.                                     *)
EXTENDS IdcServer, TLC

CONSTANTS c1, c2, c3, alice, bob, hackers

MCUsers == {alice, bob}
MCMembers == [ch \in {hackers} |-> <<alice, bob>>]

(* Three connections: c1 logs in and sends twice; c2 and c3 only log in.   *)
MCClients == {c1, c2, c3}
MCMaxLines == [c \in MCClients |-> IF c = c1 THEN 3 ELSE 1]
MCSymmetry == Permutations({c2, c3})

(* Two connections that both log in and send; for liveness fewer lines.     *)
MCTalkers == {c1, c2}
MCLiveLines == [c \in MCTalkers |-> 2]
=============================================================================
