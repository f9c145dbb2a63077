------------------------------- MODULE MCWire -------------------------------
(* The inputs of Wire for TLC.                                             *)
EXTENDS Wire

MCMe == <<"me">>
MCPasswords == [u \in {MCMe, <<"bob">>} |-> <<"pw">>]
MCChannels == {<<"hackers">>}

UpTo2(symbols) == BoundedSeq(symbols, 2)
ToBob(client, texts) == {Message(client, <<"bob">>, v) : v \in texts}

(* Texts that are typed in the three kinds of client.                      *)
ShellTexts == UpTo2({BS, CR, "n", "x"})
Messages == ToBob("miniirc", UpTo2({BS, "n", "x", "="} \cup Separators))
            \cup ToBob("haxcurses", UpTo2({BS, "n", "x"}))
            \cup ToBob("shell", ShellTexts)

LoginLine == Login("miniirc", <<"pw">>)

(* What else a line can be: no command, two, an unknown one, in lower      *)
(* case, with a key twice, no key, a bad key, arguments that are missing   *)
(* or that name nobody.                                                    *)
Lines ==
    {Raw(l) : l \in
        {<<>>, <<"NOPE">>, <<"HELP">>, <<"EGG">>, <<"PING">>, <<"ping", "\t", "cookie", "=", "=">>,
         <<"PING", "\t">>, <<"\t", "PING", "\t", "COOKIE", "=", "x", "\t", "COOKIE", "=", BS, "t">>,
         <<"PING", "\t", "1", "=">>, <<Unknown, "=">>, <<"=">>,
         <<"PING", "PING", "\t", "COOKIE", "=", BS, "x">>,
         <<"PRIVMSG", "\t", "MESSAGE", "=", "x">>, <<"PRIVMSG", "\t", "TARGET", "=", "me">>,
         <<"LOGIN", "\t", "USERNAME", "=", "bob">>, <<"NOPE", CR, "\t", "PASSWORD", "=">>}}
    \cup {Login("shell", <<"x">>), LoginLine, Login("haxcurses", <<"pw">>),
          Message("shell", <<"hackers">>, <<"x", CR>>), Message("shell", <<"x">>, <<>>)}

Short == {Message("miniirc", <<"bob">>, <<BS>>), Message("haxcurses", <<"me">>, <<BS, "n">>),
          Message("shell", <<"bob">>, <<BS, "x">>), Raw(<<>>)}

(* After the login, one message of any kind or three of few; and one or    *)
(* two other lines, with or without a login in front.                      *)
MCInputs ==
    {<<LoginLine, m>> : m \in Messages}
    \cup {<<LoginLine>> \o s : s \in BoundedSeq(Short, 3)}
    \cup BoundedSeq(Lines, 2)

(* What the run uses that looks for one answer.                            *)
MCRawInputs == {<<LoginLine, m>> : m \in ToBob("shell", ShellTexts)}

(* The inputs are what the theorem about ImplementsLineStream asks for.    *)
ASSUME MCOrdinary == OrdinaryInputs
=============================================================================
