-------------------------------- MODULE MCIi --------------------------------
(* The constants of Ii for TLC.                                            *)
EXTENDS Ii

MCNames == {"", "bob"}
=============================================================================
