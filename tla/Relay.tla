------------------------------- MODULE Relay -------------------------------
(***************************************************************************)
(* srirce: a bot in a channel of an IRC network and in one of IDC, which   *)
(* repeats in each what happens in the other.  miniirc runs the handler of *)
(* every message in a thread of its own, so they finish in any order.  The *)
(* networks are outside: a text sent to the bot's channel is posted there, *)
(* one sent to another channel is refused, and IDC repeats a channel's     *)
(* texts to their sender.  The account and the channel are taken to exist  *)
(* under the names that the bot uses.                                      *)
(***************************************************************************)
EXTENDS MiniIrc, FiniteSets

CONSTANTS
    Bot,    \* nick
    Users,  \* the other users of both networks
    Words   \* the texts of what happens, in order, told apart by their ends

ASSUME RelayAssumption ==
    /\ Bot \in Seq(STRING) /\ Users \subseteq Seq(STRING) \ {None}
    /\ Words \in Seq(Seq(STRING) \ {<<>>})
    /\ \A i, j \in DOMAIN Words : Last(Words[i]) = Last(Words[j]) => i = j

(* Indices of `server` and `relayedChannels`.                              *)
IRC == 0
IDC == 1
Networks == {IRC, IDC}
relayedChannels == [n \in Networks |-> IF n = IRC THEN <<"#", "IDC">> ELSE <<"#", "hackers">>]

VARIABLES
    happened, \* history: what happened, where
    jobs,     \* the handlers that have not run yet
    posted    \* history: what the bot posted in each channel

vars == <<happened, jobs, posted>>

Init ==
    /\ happened = <<>>
    /\ jobs = {}
    /\ posted = [n \in Networks |-> <<>>]

-----------------------------------------------------------------------------
(* The relay functions.  A send is a text for a channel of a network.      *)

Send(chat, channel, text) == [chat |-> chat, channel |-> channel, text |-> text]

OtherChannel(which) == relayedChannels[IF which = 1 THEN 0 ELSE 1]
JoinChannel(which) == relayedChannels[IF which = 0 THEN 0 ELSE 1]

(* The format of every function but two fits its arguments.                *)
relay_msgs(chat, m, which) ==
    {Send(chat, OtherChannel(which), <<"<">> \o m.source \o <<">">> \o Last(m.args))}
relay_nick(chat, m, which) ==
    {Send(chat, OtherChannel(which), m.source \o <<"is now known as">> \o Last(m.args))}
relay_joins(chat, m, which) ==
    {Send(chat, JoinChannel(which), m.source \o <<"has joined">> \o Last(m.args))}
relay_quits(chat, m, which) ==
    {Send(chat, OtherChannel(which), m.source \o <<"has quit">> \o m.args[1])}
relay_mode(chat, m, which)  == {}  \* TypeError: five values for four places
relay_kicks(chat, m, which) == {}  \* TypeError: four values for three places

-----------------------------------------------------------------------------
(* The handlers: what each sends for a message m of the network chat.      *)
(* (irc_privmsgs, for mutation runs, is one that hears IRC alone.)         *)

handle_nicks(chat, m) == IF chat = IRC THEN relay_nick(IDC, m, 1) ELSE {}
handle_kicks(chat, m) == IF chat = IRC THEN relay_kicks(IDC, m, 0) ELSE {}
handle_joins(chat, m) ==
    IF chat = IRC THEN relay_joins(IDC, m, 0) ELSE relay_joins(IRC, m, 1)
handle_quits(chat, m) ==
    IF chat = IRC THEN relay_quits(IRC, m, 0) ELSE relay_quits(IDC, m, 1)
irc_privmsgs(chat, m) == IF chat = IRC THEN relay_msgs(IDC, m, 0) ELSE {}
handle_privmsgs(chat, m) ==
    IF chat = IRC THEN relay_msgs(IDC, m, 0) ELSE relay_msgs(IRC, m, 1)
handle_mode(chat, m) ==
    IF chat = IRC THEN relay_mode(IRC, m, 0) ELSE relay_mode(IDC, m, 1)

Handled(chat, m) ==
    CASE m.cmd = "NICK"    -> handle_nicks(chat, m)
      [] m.cmd = "KICK"    -> handle_kicks(chat, m)
      [] m.cmd = "JOIN"    -> handle_joins(chat, m)
      [] m.cmd = "PART"    -> handle_quits(chat, m)
      [] m.cmd = "PRIVMSG" -> handle_privmsgs(chat, m)
      [] m.cmd = "MODE"    -> handle_mode(chat, m)
      [] OTHER             -> {}

Job(chat, m) == [chat |-> chat, msg |-> m]
JobsOf(chat, msgs) == {Job(chat, msgs[i]) : i \in DOMAIN msgs}

(* A send to IDC becomes a line, and the server repeats a text to every    *)
(* member of the channel, the bot among them.                              *)
Repeated(s) ==
    IF s.chat = IRC \/ s.channel # relayedChannels[IDC] THEN {}
    ELSE LET line == LinesFor(Irc("PRIVMSG", <<>>, <<s.channel, s.text>>))[1]
         IN  JobsOf(IDC, Messages(Forwarded(line, Bot), Bot, FALSE))

RunHandler(job) ==
    /\ jobs' = (jobs \ {job}) \cup UNION {Repeated(s) : s \in Handled(job.chat, job.msg)}
    /\ posted' = [n \in Networks |->
          posted[n] \o SetToSeq({s.text : s \in
              {x \in Handled(job.chat, job.msg) : x.chat = n /\ x.channel = relayedChannels[n]}})]
    /\ UNCHANGED happened

-----------------------------------------------------------------------------
(* What happens on the networks: a text in the channel or to the bot, the  *)
(* bot's own login to IDC, and on IRC arrivals, departures, new names,     *)
(* kicks and modes.                                                        *)

Kinds == {"CHANNEL", "PRIVATE", "JOIN", "PART", "NICK", "KICK", "MODE"}

IrcMessage(kind, who, word) ==
    CASE kind = "CHANNEL" -> Irc("PRIVMSG", who, <<relayedChannels[IRC], word>>)
      [] kind = "PRIVATE" -> Irc("PRIVMSG", who, <<Bot, word>>)
      [] kind = "KICK"    -> Irc(kind, who, <<relayedChannels[IRC], Bot, word>>)
      [] kind = "JOIN"    -> Irc(kind, who, <<relayedChannels[IRC]>>)
      [] kind = "NICK"    -> Irc(kind, who, <<word>>)
      [] OTHER            -> Irc(kind, who, <<relayedChannels[IRC], word>>)

IdcLine(kind, who, word) ==
    IF kind = "JOIN" THEN [Idc("JOIN") EXCEPT !.CHANNEL = <<"hackers">>, !.USERS = who] ELSE
    [Idc(IF kind = "CHANNEL" THEN "CHANMSG" ELSE "PRIVMSG") EXCEPT
        !.SOURCE = who, !.TYPE = <<"NORMAL">>, !.MESSAGE = word,
        !.TARGET = IF kind = "CHANNEL" THEN Tail(relayedChannels[IDC]) ELSE Bot]

Happens(chat, kind, who) ==
    /\ Len(happened) < Len(Words)
    /\ chat = IDC => kind \in {"CHANNEL", "PRIVATE", "JOIN"}
    /\ who = Bot <=> chat = IDC /\ kind = "JOIN"
    /\ happened' = Append(happened, [chat |-> chat, kind |-> kind, who |-> who])
    /\ LET word == Words[Len(happened) + 1]
       IN  jobs' = jobs \cup
              (IF chat = IRC THEN {Job(IRC, IrcMessage(kind, who, word))}
               ELSE JobsOf(IDC, Messages(IdcLine(kind, who, word), Bot, FALSE)))
    /\ UNCHANGED posted

Handlers == \E job \in jobs : RunHandler(job)
Next ==
    \/ \E chat \in Networks, kind \in Kinds, who \in Users \cup {Bot} : Happens(chat, kind, who)
    \/ Handlers

Spec == Init /\ [][Next]_vars

(* The threads that miniirc starts for the handlers run.                   *)
FairSpec == Spec /\ WF_vars(Handlers)

-----------------------------------------------------------------------------
Said(i) == happened[i].kind \in {"CHANNEL", "PRIVATE"}
Carries(text, i) == IsSuffix(Words[i], text)
Times(n, i) == Cardinality({k \in DOMAIN posted[n] : Carries(posted[n][k], i)})

(* The bot never hears itself: a text is repeated on the other network at  *)
(* most once, in its sender's name, and never where it was said, although  *)
(* IDC sends the bot what it posts.                                        *)
NoEcho ==
    \A i \in DOMAIN happened : Said(i) =>
        /\ Times(happened[i].chat, i) = 0
        /\ Times(1 - happened[i].chat, i) <= 1
        /\ \A k \in DOMAIN posted[1 - happened[i].chat] :
              Carries(posted[1 - happened[i].chat][k], i) =>
                  posted[1 - happened[i].chat][k] = <<"<">> \o happened[i].who \o <<">">> \o Words[i]

(* Every text said on one network comes to be posted on the other.         *)
Bridged ==
    \A i \in DOMAIN Words : (i \in DOMAIN happened /\ Said(i))
        ~> (i \in DOMAIN happened /\ Times(1 - happened[i].chat, i) = 1)

Announced(n, who) == \E k \in DOMAIN posted[n] : IsPrefix(who \o <<"has joined">>, posted[n][k])

(* The comment on line 59: "Send in the idc side joins in the irc side and *)
(* vice-versa".  JoinChannel is the wrong way round, so the text goes to a *)
(* channel that the network does not have.                                 *)
JoinsBridged ==
    jobs = {} => \A i \in DOMAIN happened :
        happened[i].kind = "JOIN" => Announced(1 - happened[i].chat, happened[i].who)
=============================================================================
