------------------------------ MODULE MCProxy ------------------------------
(* The constants of Proxy for TLC.                                         *)
EXTENDS Proxy

MCMe == <<"luk3yx">>
Channel == <<"#", "hackers">>
Act == Action \o <<Space, "waves", SOH>>

(* With a malformed command, a blocked one and one that IDC has no line for. *)
MCCommands ==
    {Irc("NICK", <<>>, <<<<"n">>>>), Irc("USER", <<>>, <<<<"u">>, <<"r">>>>),
     Irc("PRIVMSG", <<>>, <<Channel, Act>>), Irc("NOTICE", <<>>, <<<<"bob">>, <<"hi">>>>),
     Irc("PRIVMSG", <<>>, <<Channel>>), Irc("CAP", <<>>, <<<<"LS">>>>)}

MCReplies ==
    {[Idc("CHANMSG") EXCEPT !.SOURCE = <<"bob">>, !.TARGET = <<"hackers">>, !.MESSAGE = <<"hi">>],
     [Idc("CHANMSG") EXCEPT !.SOURCE = MCMe, !.TARGET = <<"hackers">>, !.MESSAGE = <<"hi">>],
     [Idc("JOIN") EXCEPT !.CHANNEL = <<"hackers">>, !.USERS = <<"bob">>],
     [Idc("PONG") EXCEPT !.COOKIE = <<"miniirc-ping">>]}
=============================================================================
