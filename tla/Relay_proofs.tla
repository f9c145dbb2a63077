---------------------------- MODULE Relay_proofs ----------------------------
(***************************************************************************)
(* Proofs about Relay, for any bot, any users of the two networks, and any *)
(* texts in any number: the bot never hears itself.                        *)
(***************************************************************************)
EXTENDS Relay, SequenceLemmas, FiniteSetTheorems, TLAPS

(* What the bot makes of the text of the i-th thing that happened.         *)
TextOf(who, i) == <<"<">> \o who \o <<">">> \o Words[i]
Repeat(i) == TextOf(happened[i].who, i)

(* The handler's message is what was said in the i-th thing.               *)
Reports(job, i) ==
    /\ job.msg.cmd = "PRIVMSG" /\ Said(i) /\ job.chat = happened[i].chat
    /\ job.msg.source = happened[i].who /\ Last(job.msg.args) = Words[i]

(* What happened is as many things as there are texts at most, each on a   *)
(* network and by somebody.                                                *)
HistoryOK ==
    /\ IsSeq(happened) /\ Len(happened) \in 0 .. Len(Words)
    /\ \A i \in DOMAIN happened :
          happened[i].chat \in Networks /\ happened[i].who \in Users \cup {Bot}

(* A handler of a text is for one thing that was said, and no other one is *)
(* for the same.                                                           *)
JobsOK ==
    /\ \A job \in jobs : job.chat \in Networks
    /\ \A job \in jobs : job.msg.cmd = "PRIVMSG" => \E i \in DOMAIN happened : Reports(job, i)
    /\ \A job, other \in jobs, i \in DOMAIN happened :
          Reports(job, i) /\ Reports(other, i) => job = other

(* What is posted on a network repeats what was said on the other one, no  *)
(* two posts are the same, and what a handler is still to repeat is not    *)
(* there.                                                                  *)
PostsOK ==
    /\ DOMAIN posted = Networks
    /\ \A n \in Networks : IsSeq(posted[n])
    /\ \A n \in Networks : \A k \in DOMAIN posted[n] :
          \E i \in DOMAIN happened :
              Said(i) /\ happened[i].chat = 1 - n /\ posted[n][k] = Repeat(i)
    /\ \A n \in Networks : \A k, l \in DOMAIN posted[n] : posted[n][k] = posted[n][l] => k = l
    /\ \A n \in Networks : \A k \in DOMAIN posted[n] : \A job \in jobs, i \in DOMAIN happened :
          Reports(job, i) => posted[n][k] # Repeat(i)

IInv == HistoryOK /\ JobsOK /\ PostsOK

-----------------------------------------------------------------------------
(* Texts.                                                                  *)

LEMMA NetworkValues ==
    /\ Networks = {0, 1} /\ IRC = 0 /\ IDC = 1
    /\ \A n \in Networks : 1 - n \in Networks /\ 1 - n # n
    /\ relayedChannels[0] # relayedChannels[1]
<1>1. Networks = {0, 1}
  BY DEF Networks, IRC, IDC
<1>2. relayedChannels[0] = <<"#", "IDC">> /\ relayedChannels[1] = <<"#", "hackers">>
  BY <1>1 DEF relayedChannels, IRC
<1>3. <<"#", "IDC">> # <<"#", "hackers">>
  OBVIOUS
<1> QED
  BY <1>1, <1>2, <1>3 DEF IRC, IDC

(* Texts that end differently are no suffixes of each other.               *)
LEMMA SuffixEnds ==
    ASSUME NEW T, NEW a \in Seq(T), NEW b \in Seq(T), a # <<>>, IsSuffix(a, b)
    PROVE  b # <<>> /\ Last(a) = Last(b)
<1> DEFINE p == Reverse(a)
           q == Reverse(b)
           m == Len(a)
           n == Len(b)
<1>1. m \in Nat /\ n \in Nat /\ m # 0
  OBVIOUS
<1>2. p = [i \in 1 .. m |-> a[(m - i) + 1]] /\ q = [i \in 1 .. n |-> b[(n - i) + 1]]
  BY DEF Reverse
<1>3. \A i \in 1 .. m : (m - i) + 1 \in 1 .. m
  BY <1>1
<1>4. \A i \in 1 .. n : (n - i) + 1 \in 1 .. n
  BY <1>1
<1>5. p \in [1 .. m -> T] /\ q \in [1 .. n -> T]
  <2> HIDE DEF m, n
  <2>1. \A i \in 1 .. m : a[i] \in T
    BY DEF m
  <2>2. \A i \in 1 .. n : b[i] \in T
    BY DEF n
  <2> HIDE DEF p, q
  <2> QED
    BY <1>2, <1>3, <1>4, <2>1, <2>2
<1>6. p \in Seq(T) /\ Len(p) = m /\ q \in Seq(T) /\ Len(q) = n
  BY <1>1, <1>5, FunctionIsSeq
<1>7. m <= n /\ SubSeq(p, 1, m) = SubSeq(q, 1, m)
  BY <1>6 DEF IsSuffix, IsPrefix
<1>8. 1 \in 1 .. m /\ 1 \in 1 .. n /\ (m - 1) + 1 = m /\ (n - 1) + 1 = n
  BY <1>1, <1>7
<1>9. p[1] = a[m] /\ q[1] = b[n]
  BY <1>2, <1>8
<1> HIDE DEF p, q, m, n
<1>10. SubSeq(p, 1, m)[1] = p[1] /\ SubSeq(q, 1, m)[1] = q[1]
  BY <1>1, <1>6, <1>7, <1>8
<1>11. a[m] = b[n]
  BY <1>7, <1>9, <1>10, Zenon
<1>12. n # 0
  BY <1>1, <1>7
<1> QED
  BY <1>11, <1>12, EmptyIsSeq DEF m, n, Last

(* That the two brackets are strings is beyond the provers, so they are    *)
(* named beside them.                                                      *)
Token == STRING \cup {"<", ">"}

LEMMA SingleType == ASSUME NEW T, NEW c \in T PROVE <<c>> \in Seq(T)
  OBVIOUS

LEMMA WiderType == ASSUME NEW S, NEW T, S \subseteq T, NEW s \in Seq(S) PROVE s \in Seq(T)
  OBVIOUS

LEMMA WordsAreTexts ==
    /\ Len(Words) \in Nat /\ DOMAIN Words = 1 .. Len(Words)
    /\ \A i \in DOMAIN Words : Words[i] \in Seq(Token) /\ Words[i] # <<>>
    /\ \A i, j \in DOMAIN Words : Last(Words[i]) = Last(Words[j]) => i = j
    /\ \A i, j \in DOMAIN Words : Words[i] = Words[j] => i = j
<1>1. \A i \in DOMAIN Words : Words[i] \in Seq(STRING) /\ Words[i] # <<>>
  BY RelayAssumption
<1>2. STRING \subseteq Token
  BY DEF Token
<1>3. \A i \in DOMAIN Words : Words[i] \in Seq(Token)
  BY <1>1, <1>2, WiderType
<1> QED
  BY <1>1, <1>3, RelayAssumption

LEMMA EndOfJoin ==
    ASSUME NEW T, NEW a \in Seq(T), NEW b \in Seq(T), b # <<>>
    PROVE  a \o b \in Seq(T) /\ Last(a \o b) = Last(b) /\ a \o b # <<>>
<1> DEFINE c == a \o b
<1>1. c \in Seq(T) /\ IsJoin(c, a, b)
  BY JoinFacts
<1> HIDE DEF c
<1>2. Len(b) \in 1 .. Len(b) /\ Len(a) \in Nat
  BY EmptyIsSeq
<1>3. Len(c) = Len(a) + Len(b) /\ c[Len(a) + Len(b)] = b[Len(b)]
  BY <1>1, <1>2 DEF IsJoin
<1>4. Last(c) = Last(b) /\ c # <<>>
  BY <1>2, <1>3, EmptyIsSeq DEF Last
<1> QED
  BY <1>1, <1>4 DEF c

(* A post carries the text that it repeats and no other one.               *)
LEMMA TextCarries ==
    ASSUME NEW who \in Seq(Token), NEW i \in DOMAIN Words
    PROVE  /\ TextOf(who, i) \in Seq(Token) /\ Last(TextOf(who, i)) = Last(Words[i])
           /\ \A j \in DOMAIN Words : Carries(TextOf(who, i), j) => i = j
<1>1. "<" \in Token /\ ">" \in Token
  BY DEF Token
<1>2. <<"<">> \in Seq(Token) /\ <<">">> \in Seq(Token)
  BY <1>1, SingleType
<1> DEFINE left == <<"<">>
           right == <<">">>
           front == (left \o who) \o right
<1> HIDE DEF left, right
<1>3. front \in Seq(Token)
  BY <1>2 DEF left, right
<1>4. TextOf(who, i) = front \o Words[i]
  BY DEF TextOf, left, right
<1>5. Words[i] \in Seq(Token) /\ Words[i] # <<>>
  BY WordsAreTexts
<1> HIDE DEF front
<1>6. TextOf(who, i) \in Seq(Token) /\ Last(TextOf(who, i)) = Last(Words[i])
  BY <1>3, <1>4, <1>5, EndOfJoin
<1>7. ASSUME NEW j \in DOMAIN Words, Carries(TextOf(who, i), j)
      PROVE  i = j
  <2>1. Words[j] \in Seq(Token) /\ Words[j] # <<>>
    BY WordsAreTexts
  <2>2. Last(Words[j]) = Last(TextOf(who, i))
    BY <1>6, <1>7, <2>1, SuffixEnds DEF Carries
  <2> QED
    BY <1>6, <2>2, WordsAreTexts
<1> QED
  BY <1>6, <1>7

LEMMA TextsDiffer ==
    ASSUME NEW who \in Seq(Token), NEW other \in Seq(Token),
           NEW i \in DOMAIN Words, NEW j \in DOMAIN Words, TextOf(who, i) = TextOf(other, j)
    PROVE  i = j
<1>1. Last(TextOf(who, i)) = Last(Words[i]) /\ Last(TextOf(other, j)) = Last(Words[j])
  BY TextCarries
<1> QED
  BY <1>1, WordsAreTexts

(* What happened has a text each, and a name.                              *)
LEMMA HistoryFacts ==
    ASSUME HistoryOK, NEW i \in DOMAIN happened
    PROVE  i \in DOMAIN Words /\ happened[i].who \in Seq(Token) /\ happened[i].chat \in Networks
<1>1. DOMAIN happened = 1 .. Len(happened)
  BY DEF HistoryOK, IsSeq
<1>2. happened[i].who \in Seq(STRING)
  BY RelayAssumption DEF HistoryOK
<1>3. STRING \subseteq Token
  BY DEF Token
<1>4. happened[i].who \in Seq(Token)
  BY <1>2, <1>3, WiderType
<1> QED
  BY <1>1, <1>4, WordsAreTexts DEF HistoryOK

-----------------------------------------------------------------------------
(* The handlers.                                                           *)

LEMMA OtherChannels ==
    /\ OtherChannel(0) = relayedChannels[1] /\ OtherChannel(1) = relayedChannels[0]
    /\ JoinChannel(0) = relayedChannels[0] /\ JoinChannel(1) = relayedChannels[1]
  BY DEF OtherChannel, JoinChannel

(* A text of the network chat is sent to the other one.                    *)
LEMMA TextHandled ==
    ASSUME NEW job, job.chat \in Networks, job.msg.cmd = "PRIVMSG"
    PROVE  Handled(job.chat, job.msg) =
              {Send(1 - job.chat, relayedChannels[1 - job.chat],
                    <<"<">> \o job.msg.source \o <<">">> \o Last(job.msg.args))}
<1>1. Handled(job.chat, job.msg) = handle_privmsgs(job.chat, job.msg)
  BY DEF Handled
<1>2. CASE job.chat = 0
  BY <1>1, <1>2, OtherChannels DEF handle_privmsgs, relay_msgs, IRC, IDC
<1>3. CASE job.chat = 1
  BY <1>1, <1>3, OtherChannels DEF handle_privmsgs, relay_msgs, IRC, IDC
<1> QED
  BY <1>2, <1>3, NetworkValues

(* Everything else goes to a channel that its network does not have.       *)
LEMMA OtherHandled ==
    ASSUME NEW job, job.chat \in Networks, job.msg.cmd # "PRIVMSG",
           NEW s \in Handled(job.chat, job.msg), s.chat \in Networks
    PROVE  s.channel # relayedChannels[s.chat]
<1> DEFINE c == job.chat
           m == job.msg
<1>1. \A text : Send(0, relayedChannels[1], text).channel # relayedChannels[0]
             /\ Send(1, relayedChannels[0], text).channel # relayedChannels[1]
             /\ Send(0, relayedChannels[1], text).chat = 0
             /\ Send(1, relayedChannels[0], text).chat = 1
  BY NetworkValues DEF Send
<1>2. ASSUME s \in handle_nicks(c, m) PROVE s.channel # relayedChannels[s.chat]
  BY <1>1, <1>2, OtherChannels DEF handle_nicks, relay_nick, IRC, IDC
<1>3. ASSUME s \in handle_kicks(c, m) PROVE FALSE
  BY <1>3 DEF handle_kicks, relay_kicks
<1>4. ASSUME s \in handle_joins(c, m) PROVE s.channel # relayedChannels[s.chat]
  BY <1>1, <1>4, OtherChannels DEF handle_joins, relay_joins, IRC, IDC
<1>5. ASSUME s \in handle_quits(c, m) PROVE s.channel # relayedChannels[s.chat]
  BY <1>1, <1>5, OtherChannels DEF handle_quits, relay_quits, IRC, IDC
<1>6. ASSUME s \in handle_mode(c, m) PROVE FALSE
  BY <1>6 DEF handle_mode, relay_mode
<1>7. \/ s \in handle_nicks(c, m) \/ s \in handle_kicks(c, m) \/ s \in handle_joins(c, m)
      \/ s \in handle_quits(c, m) \/ s \in handle_mode(c, m) \/ s \in {}
  <2>1. s \in Handled(c, m) /\ m.cmd # "PRIVMSG"
    OBVIOUS
  <2> HIDE DEF c, m
  <2> QED
    BY <2>1 DEF Handled
<1> QED
  BY <1>2, <1>3, <1>4, <1>5, <1>6, <1>7

(* IDC repeats the bot's text to it, and miniirc_idc drops it.             *)
LEMMA NothingRepeated ==
    ASSUME NEW s
    PROVE  Repeated(s) = {}
<1> DEFINE c == Irc("PRIVMSG", <<>>, <<s.channel, s.text>>)
           line == LinesFor(c)[1]
           back == Forwarded(line, Bot)
<1>1. CASE s.chat = IRC \/ s.channel # relayedChannels[IDC]
  BY <1>1 DEF Repeated
<1>2. CASE ~(s.chat = IRC \/ s.channel # relayedChannels[IDC])
  <2>1. c.cmd = "PRIVMSG" /\ c.args[1] = s.channel
    BY DEF Irc
  <2>2. s.channel # <<"NickServ">>
    <3>1. s.channel = <<"#", "hackers">>
      BY <1>2, NetworkValues DEF relayedChannels, IRC, IDC
    <3> QED
      BY <3>1
  <2> HIDE DEF c
  <2>3. line = TextLine(c)
    BY <2>1, <2>2 DEF LinesFor, Texts
  <2>4. back.cmd \in {"PRIVMSG", "CHANMSG"} /\ back.SOURCE = Bot
    <3>1. TextLine(c).cmd \in {"PRIVMSG", "CHANMSG"}
          /\ DOMAIN TextLine(c) = {"cmd", "SOURCE", "TARGET", "TYPE", "MESSAGE", "COOKIE",
                                   "CHANNEL", "USERS"}
      BY Zenon DEF TextLine, Idc
    <3>2. back = Forwarded(TextLine(c), Bot)
      BY <2>3
    <3> DEFINE t == TextLine(c)
    <3> HIDE DEF t
    <3>3. back.cmd = t.cmd /\ back.SOURCE = Bot
      BY <3>1, <3>2 DEF Forwarded, t
    <3> QED
      BY <3>1, <3>3 DEF t
  <2> HIDE DEF back
  <2>5. Messages(back, Bot, FALSE) = <<>>
    BY <2>4 DEF Messages, Dropped
  <2>6. Repeated(s) = JobsOf(IDC, Messages(back, Bot, FALSE))
    BY <1>2 DEF Repeated, back, c
  <2> QED
    BY <2>5, <2>6, EmptyIsSeq DEF JobsOf
<1> QED
  BY <1>1, <1>2

LEMMA NoneInSequence == SetToSeq({}) = <<>>
<1>1. Cardinality({}) = 0
  BY FS_EmptySet
<1>2. \A f \in [1 .. 0 -> {}] : f = <<>>
  OBVIOUS
<1>3. <<>> \in [1 .. 0 -> {}] /\ IsInjective(<<>>)
  BY DEF IsInjective
<1> QED
  BY <1>1, <1>2, <1>3 DEF SetToSeq

LEMMA OneInSequence == ASSUME NEW t PROVE SetToSeq({t}) = <<t>>
<1>1. Cardinality({t}) = 1
  BY FS_Singleton
<1>2. \A f \in [1 .. 1 -> {t}] : f = <<t>>
  <2> TAKE f \in [1 .. 1 -> {t}]
  <2>1. f \in Seq({t}) /\ Len(f) = 1
    BY FunctionIsSeq
  <2>2. f[1] = t
    OBVIOUS
  <2> QED
    BY <2>1, <2>2
<1>3. <<t>> \in [1 .. 1 -> {t}] /\ IsInjective(<<t>>)
  BY DEF IsInjective
<1> QED
  BY <1>1, <1>2, <1>3 DEF SetToSeq

-----------------------------------------------------------------------------
(* What happens.                                                           *)

News(chat, kind, who, word) ==
    IF chat = IRC THEN {Job(IRC, IrcMessage(kind, who, word))}
    ELSE JobsOf(IDC, Messages(IdcLine(kind, who, word), Bot, FALSE))

LEMMA LastOfPair == ASSUME NEW a, NEW b PROVE Last(<<a, b>>) = b
  BY DEF Last

(* A text of IDC comes to one message at most.                             *)
LEMMA IdcText ==
    ASSUME NEW kind \in {"CHANNEL", "PRIVATE"}, NEW who \in Users, NEW word
    PROVE  \E target :
              \A job \in JobsOf(IDC, Messages(IdcLine(kind, who, word), Bot, FALSE)) :
                  job = Job(IDC, Irc("PRIVMSG", who, <<target, word>>))
<1> DEFINE line == IdcLine(kind, who, word)
           cmd == IF kind = "CHANNEL" THEN "CHANMSG" ELSE "PRIVMSG"
<1>1. /\ line.cmd = cmd /\ cmd \in {"PRIVMSG", "CHANMSG"} /\ line.SOURCE = who
      /\ line.TYPE = <<"NORMAL">> /\ line.MESSAGE = word
  <2> DEFINE base == Idc(cmd)
             target == IF kind = "CHANNEL" THEN Tail(relayedChannels[IDC]) ELSE Bot
  <2>1. line = [base EXCEPT !.SOURCE = who, !.TYPE = <<"NORMAL">>, !.MESSAGE = word,
                            !.TARGET = target]
    BY DEF IdcLine
  <2>2. /\ DOMAIN base = {"cmd", "SOURCE", "TARGET", "TYPE", "MESSAGE", "COOKIE", "CHANNEL",
                          "USERS"}
        /\ base.cmd = cmd
    BY DEF Idc
  <2>3. cmd \in {"PRIVMSG", "CHANMSG"}
    OBVIOUS
  <2> HIDE DEF base, target, line, cmd
  <2> QED
    BY <2>1, <2>2, <2>3
<1>2. who # None
  BY RelayAssumption
<1>3. <<"NORMAL">> # <<"ACTION">> /\ <<"NORMAL">> # <<"NOTICE">>
  OBVIOUS
<1> DEFINE target == IF line.cmd = "PRIVMSG" THEN Bot ELSE <<"#">> \o line.TARGET
           message == Irc("PRIVMSG", who, <<target, word>>)
<1> HIDE DEF line, cmd
<1>4. Messages(line, Bot, FALSE) = <<>> \/ Messages(line, Bot, FALSE) = <<message>>
  <2>1. MessageText(line) = word
    BY <1>1, <1>3 DEF MessageText
  <2> QED
    BY <1>1, <1>2, <1>3, <2>1, Zenon DEF Messages
<1>5. \A job \in JobsOf(IDC, Messages(line, Bot, FALSE)) : job = Job(IDC, message)
  <2> HIDE DEF message
  <2>1. CASE Messages(line, Bot, FALSE) = <<>>
    BY <2>1, EmptyIsSeq DEF JobsOf
  <2>2. CASE Messages(line, Bot, FALSE) = <<message>>
    <3>1. \A i \in DOMAIN <<message>> : <<message>>[i] = message
      OBVIOUS
    <3> QED
      BY <2>2, <3>1 DEF JobsOf
  <2> QED
    BY <1>4, <2>1, <2>2
<1> HIDE DEF target
<1> QED
  BY <1>5 DEF line

(* The bot's own JOIN is no text.                                          *)
LEMMA IdcJoin ==
    ASSUME NEW who, NEW word, NEW job \in JobsOf(IDC, Messages(IdcLine("JOIN", who, word), Bot, FALSE))
    PROVE  job.chat = IDC /\ job.msg.cmd # "PRIVMSG"
<1> DEFINE line == IdcLine("JOIN", who, word)
           message == Irc("JOIN", Bot, <<<<"#">> \o line.CHANNEL>>)
<1>1. line.cmd = "JOIN"
  BY DEF IdcLine, Idc
<1> HIDE DEF line
<1>2. Messages(line, Bot, FALSE) = <<>> \/ Messages(line, Bot, FALSE) = <<message>>
  BY <1>1, Zenon DEF Messages
<1>3. message.cmd # "PRIVMSG"
  BY DEF Irc
<1> HIDE DEF message
<1>4. \A i \in DOMAIN Messages(line, Bot, FALSE) : Messages(line, Bot, FALSE)[i] = message
  <2>1. \A i \in DOMAIN <<message>> : <<message>>[i] = message
    OBVIOUS
  <2> QED
    BY <1>2, <2>1, EmptyIsSeq
<1>5. PICK i \in DOMAIN Messages(line, Bot, FALSE) : job = Job(IDC, Messages(line, Bot, FALSE)[i])
  BY DEF JobsOf, line
<1> QED
  BY <1>3, <1>4, <1>5 DEF Job

LEMMA WhatIsNew ==
    ASSUME NEW chat \in Networks, NEW kind \in Kinds, NEW who \in Users \cup {Bot}, NEW word,
           chat = IDC => kind \in {"CHANNEL", "PRIVATE", "JOIN"},
           who = Bot <=> chat = IDC /\ kind = "JOIN"
    PROVE  /\ \A job \in News(chat, kind, who, word) : job.chat = chat
           /\ \A job \in News(chat, kind, who, word) : job.msg.cmd = "PRIVMSG" =>
                  /\ kind \in {"CHANNEL", "PRIVATE"}
                  /\ job.msg.source = who /\ Last(job.msg.args) = word
           /\ \A job, other \in News(chat, kind, who, word) :
                  job.msg.cmd = "PRIVMSG" /\ other.msg.cmd = "PRIVMSG" => job = other
<1>1. CASE chat = IRC
  <2> DEFINE m == IrcMessage(kind, who, word)
  <2>1. News(chat, kind, who, word) = {Job(IRC, m)}
    BY <1>1 DEF News
  <2>2. m.cmd = "PRIVMSG" =>
           kind \in {"CHANNEL", "PRIVATE"} /\ m.source = who /\ Last(m.args) = word
    <3>1. CASE kind = "CHANNEL"
      BY <3>1, LastOfPair DEF IrcMessage, Irc
    <3>2. CASE kind = "PRIVATE"
      BY <3>2, LastOfPair DEF IrcMessage, Irc
    <3>3. CASE kind \in {"JOIN", "PART", "NICK", "KICK", "MODE"}
      BY <3>3 DEF IrcMessage, Irc
    <3> QED
      BY <3>1, <3>2, <3>3 DEF Kinds
  <2> HIDE DEF m
  <2>3. Job(IRC, m).chat = chat /\ Job(IRC, m).msg = m
    BY <1>1 DEF Job
  <2> QED
    BY <2>1, <2>2, <2>3
<1>2. CASE chat # IRC /\ kind = "JOIN"
  <2>1. News(chat, kind, who, word) = JobsOf(IDC, Messages(IdcLine("JOIN", who, word), Bot, FALSE))
        /\ chat = IDC
    BY <1>2 DEF News, Networks
  <2>2. \A job \in News(chat, kind, who, word) : job.chat = IDC /\ job.msg.cmd # "PRIVMSG"
    BY <2>1, IdcJoin
  <2> QED
    BY <2>1, <2>2
<1>3. CASE chat # IRC /\ kind # "JOIN"
  <2>1. chat = IDC /\ kind \in {"CHANNEL", "PRIVATE"} /\ who \in Users
    BY <1>3 DEF Networks
  <2>2. PICK target :
           \A job \in JobsOf(IDC, Messages(IdcLine(kind, who, word), Bot, FALSE)) :
               job = Job(IDC, Irc("PRIVMSG", who, <<target, word>>))
    BY <2>1, IdcText
  <2>3. News(chat, kind, who, word) = JobsOf(IDC, Messages(IdcLine(kind, who, word), Bot, FALSE))
    BY <1>3 DEF News
  <2> DEFINE J == Job(IDC, Irc("PRIVMSG", who, <<target, word>>))
  <2>4. J.chat = IDC /\ J.msg.source = who /\ Last(J.msg.args) = word
    BY LastOfPair DEF Job, Irc
  <2> HIDE DEF J
  <2>5. \A job \in News(chat, kind, who, word) : job = J
    BY <2>2, <2>3 DEF J
  <2> QED
    BY <2>1, <2>4, <2>5
<1> QED
  BY <1>1, <1>2, <1>3

-----------------------------------------------------------------------------
(* The invariant.                                                          *)

LEMMA InitInv == Init => IInv
<1> SUFFICES ASSUME Init PROVE IInv
  OBVIOUS
<1>1. IsSeq(happened) /\ Len(happened) = 0 /\ DOMAIN happened = {}
  BY EmptyIsSeq DEF Init
<1>2. HistoryOK
  BY <1>1, WordsAreTexts DEF HistoryOK
<1>3. JobsOK
  BY DEF Init, JobsOK
<1>4. DOMAIN posted = Networks /\ \A n \in Networks : posted[n] = <<>>
  BY DEF Init
<1>5. \A n \in Networks : IsSeq(posted[n]) /\ DOMAIN posted[n] = {}
  BY <1>4, EmptyIsSeq
<1>6. PostsOK
  BY <1>4, <1>5 DEF PostsOK
<1> QED
  BY <1>2, <1>3, <1>6 DEF IInv

LEMMA HappensInv ==
    ASSUME IInv, NEW chat \in Networks, NEW kind \in Kinds, NEW who \in Users \cup {Bot},
           Happens(chat, kind, who)
    PROVE  IInv'
<1>0. PICK n : n = Len(happened) + 1
  OBVIOUS
<1> DEFINE e == [chat |-> chat, kind |-> kind, who |-> who]
           word == Words[n]
           new == News(chat, kind, who, word)
<1>1. /\ Len(happened) < Len(Words) /\ happened' = Append(happened, e)
      /\ chat = IDC => kind \in {"CHANNEL", "PRIVATE", "JOIN"}
      /\ who = Bot <=> chat = IDC /\ kind = "JOIN"
      /\ jobs' = jobs \cup new /\ posted' = posted
  BY <1>0 DEF Happens, News
<1>2. /\ \A job \in new : job.chat = chat
      /\ \A job \in new : job.msg.cmd = "PRIVMSG" =>
             kind \in {"CHANNEL", "PRIVATE"} /\ job.msg.source = who /\ Last(job.msg.args) = word
      /\ \A job, other \in new : job.msg.cmd = "PRIVMSG" /\ other.msg.cmd = "PRIVMSG" => job = other
  BY <1>1, WhatIsNew
<1>3. HistoryOK /\ JobsOK /\ PostsOK
  BY DEF IInv
<1>4. e.chat = chat /\ e.kind = kind /\ e.who = who
  OBVIOUS
<1> HIDE DEF e, new
<1>5. /\ IsSeq(happened') /\ Len(happened') = n /\ Len(happened) \in Nat
      /\ DOMAIN happened = 1 .. Len(happened) /\ DOMAIN happened' = 1 .. n
      /\ \A i \in DOMAIN happened : happened'[i] = happened[i]
      /\ happened'[n] = e
  <2>1. IsSeq(happened)
    BY <1>3 DEF HistoryOK
  <2>2. Len(Append(happened, e)) = n
    BY <1>0, <2>1, AppendIsSeq
  <2> QED
    BY <1>0, <1>1, <2>1, <2>2, AppendIsSeq
<1> HIDE DEF word
<1>6. /\ n \in DOMAIN Words /\ n \in DOMAIN happened' /\ n \notin DOMAIN happened
      /\ \A i \in DOMAIN happened : (i \in DOMAIN happened' /\ i # n)
      /\ \A i \in DOMAIN happened' : (i \in DOMAIN happened \/ i = n)
      /\ n \in 0 .. Len(Words)
  BY <1>0, <1>1, <1>5, WordsAreTexts
<1>7. HistoryOK'
  <2>1. \A i \in DOMAIN happened' :
           happened'[i].chat \in Networks /\ happened'[i].who \in Users \cup {Bot}
    <3>1. ASSUME NEW i \in DOMAIN happened
          PROVE  happened'[i].chat \in Networks /\ happened'[i].who \in Users \cup {Bot}
      BY <1>3, <1>5 DEF HistoryOK
    <3>2. happened'[n].chat \in Networks /\ happened'[n].who \in Users \cup {Bot}
      BY <1>4, <1>5
    <3> QED
      BY <1>6, <3>1, <3>2
  <2> QED
    BY <1>5, <1>6, <2>1 DEF HistoryOK
(* A handler is for what it was for, and a new one for what is new.        *)
<1>8. \A job, i : i \in DOMAIN happened => (Reports(job, i)' <=> Reports(job, i))
  BY <1>5 DEF Reports, Said
<1>9. \A i \in DOMAIN happened : i \in DOMAIN Words
  BY <1>3, HistoryFacts
<1>10. \A job \in jobs : ~Reports(job, n)'
  <2> SUFFICES ASSUME NEW job \in jobs, Reports(job, n)' PROVE FALSE
    OBVIOUS
  <2>1. job.msg.cmd = "PRIVMSG" /\ Last(job.msg.args) = Words[n]
    BY DEF Reports
  <2>2. PICK i \in DOMAIN happened : Reports(job, i)
    BY <1>3, <2>1 DEF JobsOK
  <2>3. Words[i] = Words[n] /\ i \in DOMAIN Words
    BY <1>9, <2>1, <2>2 DEF Reports
  <2> QED
    BY <1>6, <2>2, <2>3, WordsAreTexts
<1>11. \A job \in new : job.msg.cmd = "PRIVMSG" => Reports(job, n)'
  <2> SUFFICES ASSUME NEW job \in new, job.msg.cmd = "PRIVMSG" PROVE Reports(job, n)'
    OBVIOUS
  <2>1. kind \in {"CHANNEL", "PRIVATE"} /\ job.msg.source = who /\ Last(job.msg.args) = Words[n]
        /\ job.chat = chat
    BY <1>2 DEF word
  <2>2. happened'[n].kind = kind /\ happened'[n].chat = chat /\ happened'[n].who = who
    BY <1>4, <1>5
  <2> QED
    BY <2>1, <2>2 DEF Reports, Said
<1>12. \A job \in new, i \in DOMAIN happened : ~Reports(job, i)
  <2> SUFFICES ASSUME NEW job \in new, NEW i \in DOMAIN happened, Reports(job, i) PROVE FALSE
    OBVIOUS
  <2>1. Last(job.msg.args) = Words[n] /\ Last(job.msg.args) = Words[i]
    BY <1>2 DEF Reports, word
  <2> QED
    BY <1>6, <1>9, <2>1, WordsAreTexts
<1>13. JobsOK'
  <2>1. \A job \in jobs' : job.chat \in Networks
    BY <1>1, <1>2, <1>3 DEF JobsOK
  <2>2. ASSUME NEW job \in jobs', job.msg.cmd = "PRIVMSG"
        PROVE  \E i \in DOMAIN happened' : Reports(job, i)'
    <3>1. CASE job \in jobs
      <4>1. PICK i \in DOMAIN happened : Reports(job, i)
        BY <1>3, <2>2, <3>1 DEF JobsOK
      <4> QED
        BY <1>6, <1>8, <4>1
    <3>2. CASE job \in new
      BY <1>6, <1>11, <2>2, <3>2
    <3> QED
      BY <1>1, <3>1, <3>2
  <2>3. ASSUME NEW job \in jobs', NEW other \in jobs', NEW i \in DOMAIN happened',
               Reports(job, i)', Reports(other, i)'
        PROVE  job = other
    <3>1. job.msg.cmd = "PRIVMSG" /\ other.msg.cmd = "PRIVMSG"
      BY <2>3 DEF Reports
    <3>2. CASE i \in DOMAIN happened
      <4>1. Reports(job, i) /\ Reports(other, i)
        BY <1>8, <2>3, <3>2
      <4>2. job \in jobs /\ other \in jobs
        BY <1>1, <1>12, <3>2, <4>1
      <4> QED
        BY <1>3, <3>2, <4>1, <4>2 DEF JobsOK
    <3>3. CASE i = n
      <4>1. job \in new /\ other \in new
        BY <1>1, <1>10, <2>3, <3>3
      <4> QED
        BY <1>2, <3>1, <4>1
    <3> QED
      BY <1>6, <3>2, <3>3
  <2> QED
    BY <2>1, <2>2, <2>3 DEF JobsOK
<1>14. PostsOK'
  <2>1. \A i \in DOMAIN happened : Repeat(i)' = Repeat(i) /\ (Said(i)' <=> Said(i))
    BY <1>5 DEF Repeat, Said
  <2>2. DOMAIN posted' = Networks /\ \A m \in Networks : IsSeq(posted'[m])
    BY <1>1, <1>3 DEF PostsOK
  <2>3. ASSUME NEW m \in Networks, NEW k \in DOMAIN posted'[m]
        PROVE  \E i \in DOMAIN happened :
                  Said(i) /\ happened[i].chat = 1 - m /\ posted[m][k] = Repeat(i)
    BY <1>1, <1>3 DEF PostsOK
  <2>4. ASSUME NEW m \in Networks, NEW k \in DOMAIN posted'[m]
        PROVE  \E i \in DOMAIN happened' :
                  Said(i)' /\ happened'[i].chat = 1 - m /\ posted'[m][k] = Repeat(i)'
    <3>1. PICK i \in DOMAIN happened :
             Said(i) /\ happened[i].chat = 1 - m /\ posted[m][k] = Repeat(i)
      BY <2>3, <2>4
    <3> QED
      BY <1>1, <1>5, <1>6, <2>1, <3>1
  <2>5. \A m \in Networks : \A k, l \in DOMAIN posted'[m] : posted'[m][k] = posted'[m][l] => k = l
    BY <1>1, <1>3 DEF PostsOK
  <2>6. ASSUME NEW m \in Networks, NEW k \in DOMAIN posted'[m], NEW job \in jobs',
               NEW i \in DOMAIN happened', Reports(job, i)'
        PROVE  posted'[m][k] # Repeat(i)'
    <3>1. CASE i \in DOMAIN happened
      <4>1. Reports(job, i) /\ job \in jobs
        BY <1>1, <1>8, <1>12, <2>6, <3>1
      <4> QED
        BY <1>1, <1>3, <2>1, <3>1, <4>1 DEF PostsOK
    <3>2. CASE i = n
      <4>1. PICK j \in DOMAIN happened : posted[m][k] = Repeat(j)
        BY <2>3
      <4>2. j \in DOMAIN Words /\ happened[j].who \in Seq(Token)
        BY <1>3, HistoryFacts
      <4>3. happened'[n].who \in Seq(Token)
        <5>1. who \in Seq(STRING)
          BY RelayAssumption
        <5>2. STRING \subseteq Token
          BY DEF Token
        <5> QED
          BY <1>4, <1>5, <5>1, <5>2, WiderType
      <4>4. Repeat(j) # Repeat(n)'
        BY <1>6, <4>2, <4>3, TextsDiffer DEF Repeat
      <4> QED
        BY <1>1, <3>2, <4>1, <4>4
    <3> QED
      BY <1>6, <3>1, <3>2
  <2> QED
    BY <2>2, <2>4, <2>5, <2>6 DEF PostsOK
<1> QED
  BY <1>7, <1>13, <1>14 DEF IInv

(* What a handler posts: the text that it is for on the other network, or  *)
(* nothing.                                                                *)
LEMMA HandlerPosts ==
    ASSUME JobsOK, NEW job \in jobs, RunHandler(job), NEW n \in Networks
    PROVE  /\ job.msg.cmd = "PRIVMSG" /\ n = 1 - job.chat =>
                  posted'[n] = posted[n] \o
                      <<<<"<">> \o job.msg.source \o <<">">> \o Last(job.msg.args)>>
           /\ ~(job.msg.cmd = "PRIVMSG" /\ n = 1 - job.chat) => posted'[n] = posted[n] \o <<>>
<1> DEFINE mine == {x \in Handled(job.chat, job.msg) : x.chat = n /\ x.channel = relayedChannels[n]}
           texts == {s.text : s \in mine}
           text == <<"<">> \o job.msg.source \o <<">">> \o Last(job.msg.args)
           send == Send(1 - job.chat, relayedChannels[1 - job.chat], text)
<1>1. posted'[n] = posted[n] \o SetToSeq(texts)
  BY DEF RunHandler
<1>2. job.chat \in Networks
  BY DEF JobsOK
<1> HIDE DEF text
<1>3. send.chat = 1 - job.chat /\ send.channel = relayedChannels[1 - job.chat] /\ send.text = text
  BY DEF Send
<1>4. job.msg.cmd = "PRIVMSG" => Handled(job.chat, job.msg) = {send}
  BY <1>2, TextHandled DEF text
<1> HIDE DEF send
<1>5. job.msg.cmd = "PRIVMSG" /\ n = 1 - job.chat => texts = {text}
  BY <1>3, <1>4
<1>6. ~(job.msg.cmd = "PRIVMSG" /\ n = 1 - job.chat) => texts = {}
  <2>1. CASE job.msg.cmd = "PRIVMSG"
    BY <1>3, <1>4, <2>1
  <2>2. CASE job.msg.cmd # "PRIVMSG"
    <3>1. \A s \in Handled(job.chat, job.msg) : s.chat = n => s.channel # relayedChannels[n]
      BY <1>2, <2>2, OtherHandled
    <3> QED
      BY <3>1
  <2> QED
    BY <2>1, <2>2
<1> HIDE DEF texts
<1>7. job.msg.cmd = "PRIVMSG" /\ n = 1 - job.chat => posted'[n] = posted[n] \o <<text>>
  BY <1>1, <1>5, OneInSequence
<1>8. ~(job.msg.cmd = "PRIVMSG" /\ n = 1 - job.chat) => posted'[n] = posted[n] \o <<>>
  BY <1>1, <1>6, NoneInSequence
<1> QED
  BY <1>7, <1>8 DEF text

(* One more post, or none.                                                 *)
LEMMA PostedAtEnd ==
    ASSUME NEW s, IsSeq(s), NEW t
    PROVE  /\ IsSeq(s \o <<t>>) /\ s \o <<>> = s
           /\ \A k \in DOMAIN (s \o <<t>>) : k \in DOMAIN s \/ k = Len(s) + 1
           /\ \A k \in DOMAIN s : (s \o <<t>>)[k] = s[k]
           /\ (s \o <<t>>)[Len(s) + 1] = t
<1>1. s \o <<t>> = Append(s, t)
  <2> DEFINE T == {s[i] : i \in DOMAIN s} \cup {t}
  <2>1. s \in Seq(T) /\ t \in T
    BY DEF IsSeq
  <2> HIDE DEF T
  <2> QED
    BY <2>1
<1>2. s \o <<>> = s
  BY ConcatEmpty
<1> DEFINE u == Append(s, t)
<1>3. /\ IsSeq(u) /\ DOMAIN s = 1 .. Len(s) /\ DOMAIN u = 1 .. Len(s) + 1 /\ Len(s) \in Nat
      /\ \A k \in DOMAIN s : u[k] = s[k]
      /\ u[Len(s) + 1] = t
  BY AppendIsSeq
<1> HIDE DEF u
<1>4. \A k \in DOMAIN u : k \in DOMAIN s \/ k = Len(s) + 1
  BY <1>3
<1>5. u = s \o <<t>>
  BY <1>1 DEF u
<1> QED
  BY <1>2, <1>3, <1>4, <1>5, Zenon

LEMMA RunHandlerInv ==
    ASSUME IInv, NEW job \in jobs, RunHandler(job)
    PROVE  IInv'
<1>1. HistoryOK /\ JobsOK /\ PostsOK
  BY DEF IInv
<1>2. happened' = happened
  BY DEF RunHandler
<1>3. jobs' = jobs \ {job}
  <2>1. UNION {Repeated(s) : s \in Handled(job.chat, job.msg)} = {}
    BY NothingRepeated
  <2> QED
    BY <2>1, Zenon DEF RunHandler
<1>4. HistoryOK'
  BY <1>1, <1>2 DEF HistoryOK
<1>5. /\ \A other, i : Reports(other, i)' <=> Reports(other, i)
      /\ \A i : (Said(i)' <=> Said(i)) /\ Repeat(i)' = Repeat(i)
  BY <1>2 DEF Reports, Said, Repeat
<1>6. JobsOK'
  BY <1>1, <1>2, <1>3, <1>5 DEF JobsOK
<1>7. DOMAIN posted' = Networks
  BY DEF RunHandler
<1>8. /\ job.chat \in Networks /\ 1 - job.chat \in Networks
      /\ \A n \in Networks : IsSeq(posted[n])
  BY <1>1, NetworkValues DEF JobsOK, PostsOK
<1>9. CASE job.msg.cmd # "PRIVMSG"
  <2>1. \A n \in Networks : posted'[n] = posted[n]
    <3> TAKE n \in Networks
    <3>1. posted'[n] = posted[n] \o <<>>
      BY <1>1, <1>9, HandlerPosts
    <3> QED
      BY <1>8, <3>1, ConcatEmpty
  <2>2. PostsOK'
    <3>1. \A n \in Networks : IsSeq(posted'[n])
      BY <1>8, <2>1
    <3>2. ASSUME NEW n \in Networks, NEW k \in DOMAIN posted'[n]
          PROVE  \E i \in DOMAIN happened' :
                     Said(i)' /\ happened'[i].chat = 1 - n /\ posted'[n][k] = Repeat(i)'
      BY <1>1, <1>2, <1>5, <2>1 DEF PostsOK
    <3>3. \A n \in Networks : \A k, l \in DOMAIN posted'[n] : posted'[n][k] = posted'[n][l] => k = l
      BY <1>1, <2>1 DEF PostsOK
    <3>4. ASSUME NEW n \in Networks, NEW k \in DOMAIN posted'[n], NEW other \in jobs',
                 NEW i \in DOMAIN happened', Reports(other, i)'
          PROVE  posted'[n][k] # Repeat(i)'
      BY <1>1, <1>2, <1>3, <1>5, <2>1, <3>4 DEF PostsOK
    <3> QED
      BY <1>7, <3>1, <3>2, <3>3, <3>4 DEF PostsOK
  <2> QED
    BY <1>4, <1>6, <2>2 DEF IInv
<1>10. CASE job.msg.cmd = "PRIVMSG"
  <2>1. PICK i \in DOMAIN happened : Reports(job, i)
    BY <1>1, <1>10 DEF JobsOK
  <2> DEFINE c == 1 - job.chat
             text == <<"<">> \o job.msg.source \o <<">">> \o Last(job.msg.args)
  <2>2. text = Repeat(i) /\ Said(i) /\ happened[i].chat = job.chat
    BY <2>1 DEF Reports, Repeat, TextOf
  <2>3. posted'[c] = posted[c] \o <<text>>
    BY <1>1, <1>8, <1>10, HandlerPosts
  <2>4. ASSUME NEW n \in Networks, n # c PROVE posted'[n] = posted[n]
    <3>1. posted'[n] = posted[n] \o <<>>
      BY <1>1, <2>4, HandlerPosts
    <3> QED
      BY <1>8, <3>1, ConcatEmpty
  <2>5. 1 - c = job.chat /\ c \in Networks
    BY <1>8, NetworkValues
  <2> HIDE DEF text
  <2>6. /\ IsSeq(posted'[c])
        /\ \A k \in DOMAIN posted'[c] : k \in DOMAIN posted[c] \/ k = Len(posted[c]) + 1
        /\ \A k \in DOMAIN posted[c] : posted'[c][k] = posted[c][k]
        /\ posted'[c][Len(posted[c]) + 1] = Repeat(i)
    BY <1>8, <2>2, <2>3, PostedAtEnd, SMTT(30)
  (* A post is an old one, or what the handler is for.                     *)
  <2>7. ASSUME NEW n \in Networks, NEW k \in DOMAIN posted'[n]
        PROVE  \/ k \in DOMAIN posted[n] /\ posted'[n][k] = posted[n][k]
               \/ n = c /\ k = Len(posted[c]) + 1 /\ posted'[n][k] = Repeat(i)
    BY <2>4, <2>6
  <2> HIDE DEF c
  <2>8. \A n \in Networks : \A k \in DOMAIN posted[n] : posted[n][k] # Repeat(i)
    BY <1>1, <2>1 DEF PostsOK
  <2>9. ASSUME NEW n \in Networks, NEW k \in DOMAIN posted'[n]
        PROVE  \E j \in DOMAIN happened' :
                   Said(j)' /\ happened'[j].chat = 1 - n /\ posted'[n][k] = Repeat(j)'
    <3>1. CASE k \in DOMAIN posted[n] /\ posted'[n][k] = posted[n][k]
      BY <1>1, <1>2, <1>5, <3>1 DEF PostsOK
    <3>2. CASE n = c /\ posted'[n][k] = Repeat(i)
      BY <1>2, <1>5, <2>2, <2>5, <3>2
    <3> QED
      BY <2>7, <3>1, <3>2
  <2>10. ASSUME NEW n \in Networks, NEW k \in DOMAIN posted'[n], NEW l \in DOMAIN posted'[n],
                posted'[n][k] = posted'[n][l]
         PROVE  k = l
    <3>1. CASE k \in DOMAIN posted[n] /\ posted'[n][k] = posted[n][k]
               /\ l \in DOMAIN posted[n] /\ posted'[n][l] = posted[n][l]
      BY <1>1, <2>10, <3>1 DEF PostsOK
    <3>2. CASE ~(k \in DOMAIN posted[n] /\ posted'[n][k] = posted[n][k]
                 /\ l \in DOMAIN posted[n] /\ posted'[n][l] = posted[n][l])
      BY <2>7, <2>8, <2>10, <3>2
    <3> QED
      BY <3>1, <3>2
  <2>11. ASSUME NEW n \in Networks, NEW k \in DOMAIN posted'[n], NEW other \in jobs',
                NEW j \in DOMAIN happened', Reports(other, j)'
         PROVE  posted'[n][k] # Repeat(j)'
    <3>1. j \in DOMAIN happened /\ Reports(other, j) /\ Repeat(j)' = Repeat(j)
      BY <1>2, <1>5, <2>11
    <3>2. other \in jobs /\ other # job
      BY <1>3
    <3>3. j # i
      BY <1>1, <2>1, <3>1, <3>2 DEF JobsOK
    <3>4. Repeat(i) # Repeat(j)
      <4>1. /\ i \in DOMAIN Words /\ happened[i].who \in Seq(Token)
            /\ j \in DOMAIN Words /\ happened[j].who \in Seq(Token)
        BY <1>1, <3>1, HistoryFacts
      <4> QED
        BY <3>3, <4>1, TextsDiffer DEF Repeat
    <3>5. \A m \in Networks : \A l \in DOMAIN posted[m] : posted[m][l] # Repeat(j)
      BY <1>1, <3>1, <3>2 DEF PostsOK
    <3> QED
      BY <2>7, <3>1, <3>4, <3>5
  <2>12. \A n \in Networks : IsSeq(posted'[n])
    BY <1>8, <2>4, <2>6
  <2>13. PostsOK'
    BY <1>7, <2>9, <2>10, <2>11, <2>12 DEF PostsOK
  <2> QED
    BY <1>4, <1>6, <2>13 DEF IInv
<1> QED
  BY <1>9, <1>10

LEMMA InductiveInv == Spec => []IInv
<1>1. Init => IInv
  BY InitInv
<1>2. ASSUME IInv, [Next]_vars PROVE IInv'
  <2>1. CASE \E chat \in Networks, kind \in Kinds, who \in Users \cup {Bot} :
                 Happens(chat, kind, who)
    BY <1>2, <2>1, HappensInv
  <2>2. CASE Handlers
    BY <1>2, <2>2, RunHandlerInv DEF Handlers
  <2>3. CASE UNCHANGED vars
    <3>1. happened' = happened /\ jobs' = jobs /\ posted' = posted
      BY <2>3 DEF vars
    <3> QED
      BY <1>2, <3>1 DEF IInv, HistoryOK, JobsOK, PostsOK, Reports, Said, Repeat
  <2> QED
    BY <1>2, <2>1, <2>2, <2>3 DEF Next
<1> QED
  BY <1>1, <1>2, PTL DEF Spec

-----------------------------------------------------------------------------
(* A post that carries a text is what the bot makes of it.                 *)
LEMMA CarriesOne ==
    ASSUME IInv, NEW n \in Networks, NEW k \in DOMAIN posted[n], NEW i \in DOMAIN happened,
           Carries(posted[n][k], i)
    PROVE  happened[i].chat = 1 - n /\ posted[n][k] = Repeat(i)
<1>1. HistoryOK /\ PostsOK
  BY DEF IInv
<1>2. PICK j \in DOMAIN happened : happened[j].chat = 1 - n /\ posted[n][k] = Repeat(j)
  BY <1>1 DEF PostsOK
<1>3. /\ i \in DOMAIN Words /\ j \in DOMAIN Words /\ happened[j].who \in Seq(Token)
  BY <1>1, HistoryFacts
<1>4. Carries(TextOf(happened[j].who, j), i)
  BY <1>2 DEF Repeat
<1>5. j = i
  BY <1>3, <1>4, TextCarries
<1> QED
  BY <1>2, <1>5

LEMMA InvNoEcho == IInv => NoEcho
<1> SUFFICES ASSUME IInv, NEW i \in DOMAIN happened, Said(i)
             PROVE  /\ Times(happened[i].chat, i) = 0
                    /\ Times(1 - happened[i].chat, i) <= 1
                    /\ \A k \in DOMAIN posted[1 - happened[i].chat] :
                          Carries(posted[1 - happened[i].chat][k], i) =>
                              posted[1 - happened[i].chat][k] =
                                  <<"<">> \o happened[i].who \o <<">">> \o Words[i]
  BY DEF NoEcho
<1> DEFINE c == happened[i].chat
           d == 1 - c
           there(n) == {k \in DOMAIN posted[n] : Carries(posted[n][k], i)}
<1>1. HistoryOK /\ PostsOK
  BY DEF IInv
<1>2. c \in Networks /\ d \in Networks /\ 1 - c # c
  BY <1>1, HistoryFacts, NetworkValues
<1>3. \A n \in Networks : \A k \in there(n) : c = 1 - n /\ posted[n][k] = Repeat(i)
  BY CarriesOne
<1>4. Times(c, i) = 0
  <2>1. there(c) = {}
    BY <1>2, <1>3
  <2> QED
    BY <2>1, FS_EmptySet DEF Times
<1>5. Times(d, i) <= 1
  <2>1. \A k, l \in there(d) : k = l
    BY <1>1, <1>2, <1>3 DEF PostsOK
  <2>2. there(d) = {} \/ \E k : there(d) = {k}
    <3> HIDE DEF there
    <3> QED
      BY <2>1
  <2>3. Cardinality(there(d)) \in {0, 1}
    BY <2>2, FS_EmptySet, FS_Singleton
  <2>4. Times(d, i) = Cardinality(there(d))
    BY DEF Times
  <2> QED
    BY <2>3, <2>4
<1>6. ASSUME NEW k \in DOMAIN posted[d], Carries(posted[d][k], i)
      PROVE  posted[d][k] = <<"<">> \o happened[i].who \o <<">">> \o Words[i]
  BY <1>2, <1>3, <1>6 DEF Repeat, TextOf
<1> QED
  BY <1>4, <1>5, <1>6

(* A text said on one network is repeated on the other at most once, in    *)
(* its sender's name, and never where it was said, whatever is said, by    *)
(* whom, and however the handlers' threads are scheduled: handle_privmsgs  *)
(* of srirce hears what it posts on IDC too, and does not repeat it.       *)
THEOREM NeverHearsItself == Spec => []NoEcho
  BY InductiveInv, InvNoEcho, PTL
=============================================================================
