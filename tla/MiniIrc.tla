------------------------------ MODULE MiniIrc ------------------------------
(***************************************************************************)
(* miniirc_idc: how the class IDC makes IDC lines of the IRC commands that *)
(* a program sends with miniirc, and IRC messages of the lines it gets.    *)
(* src/clients and src/clients/srirce hold the same code.  Labels and time *)
(* stamps are left out; the codec of the values is in Codec.  Names and    *)
(* texts are sequences of tokens, absent values are None.                  *)
(***************************************************************************)
EXTENDS Integers, Sequences, SequencesExt

SOH == "SOH"               \* the character \x01
Space == " "
Action == <<SOH, "ACTION">>
None == <<"None">>

Irc(cmd, source, args) == [cmd |-> cmd, source |-> source, args |-> args]
Idc(cmd) == [cmd |-> cmd, SOURCE |-> None, TARGET |-> None, TYPE |-> None,
             MESSAGE |-> None, COOKIE |-> None, CHANNEL |-> None, USERS |-> None]

-----------------------------------------------------------------------------
(* IDC.send.  A definition just before another one of the same parameters  *)
(* is a variant of it with a mistake in it, for mutation runs.             *)

IsChannel(target) == Head(target) = "#"
IsAction(text) == IsPrefix(Action, text)

WithoutTrailing(text, tok) ==
    SubSeq(text, 1, Max({0} \cup {i \in DOMAIN text : text[i] # tok}))

(* msg[8:] drops the character after \x01ACTION too.                       *)
SpaceKept(text) == WithoutTrailing(SubSeq(text, 3, Len(text)), SOH)
ActionBody(text) == WithoutTrailing(SubSeq(text, 4, Len(text)), SOH)

Texts == {"PRIVMSG", "NOTICE"}

(* Commands that IndexError ends.                                          *)
Malformed(c) ==
    \/ c.cmd \in Texts /\ Len(c.args) < 2 /\ (c.args = <<>> \/ c.args[1] # <<"NickServ">>)
    \/ c.cmd = "PING" /\ c.args = <<>>

TextLine(c) ==
    LET target == c.args[1]
        text == c.args[2]
        action == c.cmd = "PRIVMSG" /\ IsAction(text)
    IN  [Idc(IF IsChannel(target) THEN "CHANMSG" ELSE "PRIVMSG") EXCEPT
            !.TARGET  = IF IsChannel(target) THEN Tail(target) ELSE target,
            !.TYPE    = IF c.cmd = "NOTICE" THEN <<"NOTICE">>
                        ELSE IF action THEN <<"ACTION">> ELSE None,
            !.MESSAGE = IF action THEN ActionBody(text) ELSE text]

(* The lines that a command that is not Malformed becomes: none or one.    *)
LinesFor(c) ==
    IF c.cmd \in Texts
    THEN IF c.args[1] = <<"NickServ">> THEN <<>> ELSE <<TextLine(c)>>
    ELSE IF c.cmd = "PING" THEN <<[Idc("PING") EXCEPT !.COOKIE = c.args[1]]>>
    ELSE IF c.cmd = "USER" THEN <<Idc("LOGIN")>>
    ELSE <<>>

-----------------------------------------------------------------------------
(* idc_message_parser for the user me: the IRC messages of a line, none or *)
(* one.  A line without an argument it needs raises KeyError and is lost   *)
(* too.                                                                    *)

NoneDropped(line, me, echo) == FALSE
Dropped(line, me, echo) ==
    line.cmd \in {"PRIVMSG", "CHANMSG"} /\ line.SOURCE = me /\ ~echo

Complete(line) ==
    /\ line.cmd \in {"PRIVMSG", "CHANMSG"} => line.MESSAGE # None
    /\ line.cmd = "CHANMSG" => line.TARGET # None
    /\ line.cmd = "JOIN" => line.CHANNEL # None /\ line.USERS # None

MessageText(line) ==
    IF line.TYPE = <<"ACTION">> THEN Action \o <<Space>> \o line.MESSAGE \o <<SOH>>
    ELSE line.MESSAGE

Messages(line, me, echo) ==
    IF ~Complete(line) \/ Dropped(line, me, echo) THEN <<>>
    ELSE IF line.cmd \in {"PRIVMSG", "CHANMSG"}
    THEN <<Irc(IF line.TYPE = <<"NOTICE">> THEN "NOTICE" ELSE "PRIVMSG",
               IF line.SOURCE = None THEN <<>> ELSE line.SOURCE,
               <<IF line.cmd = "PRIVMSG" THEN me ELSE <<"#">> \o line.TARGET,
                 MessageText(line)>>)>>
    ELSE IF line.cmd = "LOGIN_GOOD" THEN <<Irc("001", <<>>, <<me, <<"Welcome">>>>)>>
    ELSE IF line.cmd = "PONG"
    THEN <<Irc("PONG", <<>>, <<IF line.COOKIE = None THEN <<>> ELSE line.COOKIE>>)>>
    ELSE IF line.cmd = "JOIN" THEN <<Irc("JOIN", me, <<<<"#">> \o line.CHANNEL>>)>>
    ELSE <<>>

(* _parse_join: what a JOIN message makes the program handle later.        *)
NamesReplies(join) == <<Irc("353", <<>>, join.args), Irc("366", <<>>, join.args)>>

-----------------------------------------------------------------------------
(* What the server makes of a text line of the user source, for the other  *)
(* users that get it.                                                      *)
Forwarded(line, source) ==
    [line EXCEPT !.SOURCE = source, !.TYPE = IF @ = None THEN <<"NORMAL">> ELSE @]
=============================================================================
