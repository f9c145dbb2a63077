------------------------------ MODULE Commands ------------------------------
(***************************************************************************)
(* What the server makes of one line of a client: utils.bytesToStd, the    *)
(* handlers of idc.py and the exceptions that users cause.  A name, a      *)
(* command or a key is one symbol, or a sequence of them; of the texts of  *)
(* answers only what they quote is kept.  What a login is told after       *)
(* LOGIN_GOOD, and who gets a message, is in IdcServer.                    *)
(***************************************************************************)
EXTENDS Codec, Framing

CONSTANTS
    Passwords,    \* Passwords[name]: the password of the local user name
    ChannelNames  \* the names of the local channels

NoUser == <<>>

-----------------------------------------------------------------------------
(* bytesToStd.                                                             *)

Lowercase == [ping |-> "PING", cookie |-> "COOKIE"]
Upper(s) == [i \in DOMAIN s |-> IF s[i] \in DOMAIN Lowercase THEN Lowercase[s[i]] ELSE s[i]]

IsCommand(arg) == "=" \notin ToSet(arg)
EqualsSign(arg) == SelectInSeq(arg, LAMBDA c : c = "=")
Key(arg) == Upper(SubSeq(arg, 1, EqualsSign(arg) - 1))
Value(arg) == SubSeq(arg, EqualsSign(arg) + 1, Len(arg))

Arguments(line) == Split(WithoutCR(line), "\t")
Alphabetic(key) == key # <<>> /\ ToSet(key) \cap {BS, CR, "1", Unknown} = {}

(* The first pair of a backslash and another character that is no escape.  *)
BadCharacter(w) ==
    LET upto(i) == Refused(SubSeq(w, 1, i))
    IN  w[CHOOSE i \in DOMAIN w : upto(i) /\ \A j \in 1 .. i - 1 : ~upto(j)]

(* The exceptions that IDCUserCausedException stands for, with what their  *)
(* text quotes.  A check is one of them and when it is raised.             *)
Error(type, quoted) == [type |-> type, quoted |-> quoted]
Check(raised, type, quoted) == [raised |-> raised, error |-> Error(type, quoted)]

(* A list of checks comes to the first of them that is raised, if any.     *)
FirstRaised(checks) == SelectInSeq(checks, LAMBDA c : c.raised)

(* A command may be followed by empty arguments only if it is empty.       *)
ParseChecks(line) ==
    LET args == Arguments(line)
        second(i) == \E j \in 1 .. i - 1 : IsCommand(args[j]) /\ args[j] # <<>>
    IN  FlattenSeq([i \in DOMAIN args |->
            IF IsCommand(args[i]) THEN <<Check(second(i), "MULTIPLE_CMDS", <<>>)>>
            ELSE <<Check(~Alphabetic(Key(args[i])), "INVALID_KEYWORD", <<>>),
                   Check(Refused(Value(args[i])), "DONT_KNOW",
                         IF Refused(Value(args[i])) THEN <<BS, BadCharacter(Value(args[i]))>>
                         ELSE <<>>)>>])

Command(line) ==
    LET args == Arguments(line)
        named == SelectInSeq(args, LAMBDA a : IsCommand(a) /\ a # <<>>)
    IN  IF named = 0 THEN <<>> ELSE Upper(args[named])

(* Of two arguments with the same key the last one counts.                 *)
Std(line) ==
    LET args == Arguments(line)
        pairs == {i \in DOMAIN args : ~IsCommand(args[i])}
        last(key) == Max({i \in pairs : Key(args[i]) = key})
    IN  [key \in {Key(args[i]) : i \in pairs} |-> ServerUnescape(Value(args[last(key)]))]

-----------------------------------------------------------------------------
(* The handlers, for a client logged in as user (or NoUser).               *)

Has(args, key) == <<key>> \in DOMAIN args
Arg(args, key) == IF Has(args, key) THEN args[<<key>>] ELSE <<>>
Missing(args, key) == Check(~Has(args, key), "MISSING_ARGUMENT", <<>>)

Texts == {<<"PRIVMSG">>, <<"CHANMSG">>}
Targets(cmd) == IF cmd = <<"PRIVMSG">> THEN DOMAIN Passwords ELSE ChannelNames

LoginGood(args) ==
    /\ Arg(args, "USERNAME") \in DOMAIN Passwords
    /\ Passwords[Arg(args, "USERNAME")] = Arg(args, "PASSWORD")

CommandChecks(user, cmd, args) ==
    CASE cmd \in {<<"HELP">>, <<"EGG">>} -> <<>>
      [] cmd = <<"PING">> -> <<Missing(args, "COOKIE")>>
      [] cmd = <<"LOGIN">> ->
            <<Check(user # NoUser, "REDUNDENT_LOGIN", user),
              Missing(args, "USERNAME"), Missing(args, "PASSWORD"),
              Check(~LoginGood(args), "LOGIN_FAILED", Arg(args, "USERNAME"))>>
      [] cmd \in Texts ->
            <<Check(user = NoUser, "NOT_LOGGED_IN", <<>>),
              Missing(args, "TARGET"),
              Check(Arg(args, "TARGET") \notin Targets(cmd), "NONEXISTANT_TARGET",
                    Arg(args, "TARGET")),
              Missing(args, "MESSAGE")>>
      [] OTHER -> <<Check(TRUE, "UNKNOWN_COMMAND", cmd)>>

(* A line that the server sends: to this client or to the target's.        *)
Sent(to, cmd, args) ==
    [to |-> to, cmd |-> cmd, args |-> [k \in DOMAIN args |-> ServerEscape(args[k])]]

(* What a line without a mistake leads to.                                 *)
Effects(user, cmd, args) ==
    LET text == [SOURCE |-> user, TARGET |-> Arg(args, "TARGET"),
                 TYPE |-> IF Has(args, "TYPE") THEN Arg(args, "TYPE") ELSE <<"NORMAL">>,
                 MESSAGE |-> Arg(args, "MESSAGE")]
    IN  CASE cmd = <<"HELP">>  -> <<Sent("client", "HELP", <<>>)>>
          [] cmd = <<"EGG">>   -> <<Sent("client", "EASTER_EGG", <<>>)>>
          [] cmd = <<"PING">>  -> <<Sent("client", "PONG", [COOKIE |-> Arg(args, "COOKIE")])>>
          [] cmd = <<"LOGIN">> ->
                <<Sent("client", "LOGIN_GOOD", [USERNAME |-> Arg(args, "USERNAME")])>>
          [] cmd = <<"CHANMSG">> -> <<Sent("target", "CHANMSG", text)>>
          [] cmd = <<"PRIVMSG">> ->
                <<Sent("target", "PRIVMSG", text)>>
                \o (IF text.TARGET = user THEN <<>> ELSE <<Sent("client", "PRIVMSG", text)>>)

(* The client's user and the lines sent after a line: an error is answered *)
(* and has no other effect.                                                *)
Complaint(error) ==
    Sent("client", IF error.type = "LOGIN_FAILED" THEN "FAIL" ELSE "ERROR",
         [PROBLEM |-> <<error.type>>, COMMENT |-> error.quoted])

Handled(user, line) ==
    LET cmd == Command(line)
        checks == ParseChecks(line) \o CommandChecks(user, cmd, Std(line))
        first == FirstRaised(checks)
    IN  IF first # 0
        THEN [user |-> user, sent |-> <<Complaint(checks[first].error)>>]
        ELSE [user |-> IF cmd = <<"LOGIN">> THEN Arg(Std(line), "USERNAME") ELSE user,
              sent |-> Effects(user, cmd, Std(line))]
=============================================================================
