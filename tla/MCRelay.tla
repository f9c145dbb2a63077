------------------------------ MODULE MCRelay ------------------------------
(* The constants of Relay for TLC.                                         *)
EXTENDS Relay

MCBot == <<"idcbot">>
MCUsers == {<<"ann">>, <<"bob">>}
MCWords == <<<<"one">>, <<"two">>, <<"three">>>>
=============================================================================
