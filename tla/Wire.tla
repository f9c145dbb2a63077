-------------------------------- MODULE Wire --------------------------------
(***************************************************************************)
(* The way of messages from the clients that write them, through the       *)
(* stream, the server's reading loop, its parser and its handlers, to what *)
(* the server sends on and other clients read.                             *)
(***************************************************************************)
EXTENDS Commands

CONSTANTS
    Inputs,  \* the sequences of lines that a client may send
    Me       \* the user that a login line is for

(* What a client sends: the login, a message, or any other line.           *)
Login(client, password) == [kind |-> "login", client |-> client, password |-> password]
Message(client, target, text) ==
    [kind |-> "message", client |-> client, target |-> target, text |-> text]
Raw(line) == [kind |-> "raw", line |-> line]

Words == {"LOGIN", "PRIVMSG", "CHANMSG", "PING", "ping", "HELP", "EGG", "NOPE", "USERNAME",
          "PASSWORD", "TARGET", "MESSAGE", "COOKIE", "cookie", "me", "bob", "pw", "hackers"}
Symbols == {BS, "=", "r", "n", "t", "x", "1", Unknown} \cup Separators \cup Words

(* Whatever is typed is made of the symbols; "x" stands for any other.     *)
Programs == {"miniirc", "haxcurses", "shell"}
TypedLines ==
    [kind : {"login"}, client : Programs, password : Seq(Symbols)]
    \cup [kind : {"message"}, client : Programs, target : Seq(Symbols), text : Seq(Symbols)]
    \cup [kind : {"raw"}, line : Seq(Symbols)]

ASSUME WireAssumption ==
    /\ Inputs \subseteq Seq(TypedLines)
    /\ Me \in Seq(Symbols)
    /\ DOMAIN Passwords \cup ChannelNames \subseteq Seq(Symbols)

VARIABLES
    typed,    \* the lines that the client sends
    unread,   \* the bytes the server has not read yet
    msg,      \* the server's buffer
    user,     \* the user that the client is logged in as
    sent      \* sent[i]: what the server sent because of the i-th line

vars == <<typed, unread, msg, user, sent>>

(* miniirc_idc escapes every value; of a text haxcurses escapes the        *)
(* backslashes, and the shell clients send it as it was typed.             *)
ValueBytes(e, v) == IF e.client = "miniirc" THEN ClientEscape(v) ELSE v
TextBytes(e) ==
    CASE e.client = "miniirc"   -> ClientEscape(e.text)
      [] e.client = "haxcurses" -> HaxEscape(e.text)
      [] e.client = "shell"     -> e.text

Content(e) ==
    CASE e.kind = "login"   -> <<"LOGIN", "\t", "USERNAME", "=">> \o ValueBytes(e, Me)
                               \o <<"\t", "PASSWORD", "=">> \o ValueBytes(e, e.password)
      [] e.kind = "message" -> <<IF e.target \in ChannelNames THEN "CHANMSG" ELSE "PRIVMSG",
                                 "\t", "TARGET", "=">> \o ValueBytes(e, e.target)
                               \o <<"\t", "MESSAGE", "=">> \o TextBytes(e)
      [] e.kind = "raw"     -> e.line

LineBytes(e) == Content(e) \o <<CR, LF>>

(* A line holds no LF, which would make it two; and none begins with a CR, *)
(* the bytes that connection_loop drops at the end of a chunk.             *)
ASSUME FramingAssumption ==
    \A s \in Inputs : \A i \in DOMAIN s :
        LET line == Content(s[i])
        IN  LF \notin ToSet(line) /\ (line # <<>> => line[1] # CR)

Init ==
    /\ typed \in Inputs
    /\ unread = Mapped(LineBytes, typed)
    /\ msg = <<>>
    /\ user = NoUser
    /\ sent = <<>>

(* One line after the other: the user at the end, and what each line made  *)
(* the server send.                                                        *)
AllHandled(u, lines) ==
    LET after[i \in 0 .. Len(lines)] ==
          IF i = 0 THEN [user |-> u, sent |-> <<>>]
          ELSE LET h == Handled(after[i - 1].user, lines[i])
               IN  [user |-> h.user, sent |-> Append(after[i - 1].sent, h.sent)]
    IN  after[Len(lines)]

(* The server reads a chunk of any size and handles its lines.             *)
Receive ==
    \E k \in 1 .. Len(unread) :
        LET turn == ReadChunk(msg, SubSeq(unread, 1, k))
            end == AllHandled(user, turn.lines)
        IN  /\ msg' = turn.msg
            /\ unread' = SubSeq(unread, k + 1, Len(unread))
            /\ user' = end.user
            /\ sent' = sent \o end.sent
            /\ typed' = typed

AllRead ==
    /\ unread = <<>>
    /\ UNCHANGED vars

Next == Receive \/ AllRead

Spec == Init /\ [][Next]_vars

-----------------------------------------------------------------------------
SentLines == FlattenSeq(sent)
Values == UNION {Range(SentLines[i].args) : i \in DOMAIN SentLines}

TypeOK ==
    /\ {unread, msg} \subseteq Seq(Symbols)
    /\ user \in DOMAIN Passwords \cup {NoUser}
    /\ \A v \in Values : Bad \notin ToSet(v)

(* Nothing the server sends holds a byte that would end the argument or    *)
(* the line it is put in, whatever a client wrote into the value, the      *)
(* command or the target: the reason for the escapes of utils.py:56-62.    *)
NoSeparatorSent ==
    \A v \in Values : ToSet(v) \cap Separators = {}

(* The two clients read every relayed text alike, although miniirc_idc.py  *)
(* replaces an unknown escape and haxcurses.py keeps it: the server lets   *)
(* no unknown escape through.                                              *)
ClientsAgree ==
    \A i \in DOMAIN SentLines : \A key \in {"TARGET", "TYPE", "MESSAGE"} :
        SentLines[i].to = "target" =>
            ClientUnescape(SentLines[i].args[key]) = HaxUnescape(SentLines[i].args[key])

(* The lines that go to the target of a message.                           *)
RelayedOf(lines) ==
    FlattenSeq([i \in DOMAIN lines |-> IF lines[i].to = "target" THEN <<lines[i]>> ELSE <<>>])

(* What Wanted takes for granted of the inputs: names and passwords, which *)
(* haxcurses and the shell clients send as they are, hold no backslash and *)
(* no separator, what is typed into those no tab, and any other line that  *)
(* is sent is no login and no message, written in another way.             *)
Plain(v) == ToSet(v) \cap ({BS} \cup Separators) = {}
Ordinary(e) ==
    CASE e.kind = "login"   -> Plain(e.password)
      [] e.kind = "message" -> /\ Plain(e.target)
                               /\ e.client # "miniirc" => "\t" \notin ToSet(e.text)
      [] e.kind = "raw"     -> \A u \in DOMAIN Passwords \cup {NoUser} :
                                  LET h == Handled(u, e.line \o <<CR>>)
                                  IN  h.user = u /\ RelayedOf(h.sent) = <<>>
OrdinaryInputs ==
    /\ Me \in DOMAIN Passwords \ {NoUser} /\ Plain(Me)
    /\ \A s \in Inputs : \A i \in DOMAIN s : Ordinary(s[i])

(* The messages that should come out, in order: those after the login and  *)
(* to targets that exist, with the text that was typed or, from a client   *)
(* that does not escape, that must have been meant; none for a bad escape. *)
LoggedIn(i) == \E j \in 1 .. i - 1 : typed[j].kind = "login" /\ typed[j].password = Passwords[Me]
Meant(e) == IF e.client = "shell" THEN ClientUnescape(e.text) ELSE e.text
Wanted ==
    FlattenSeq([i \in DOMAIN typed |->
        IF /\ typed[i].kind = "message" /\ LoggedIn(i)
           /\ typed[i].target \in DOMAIN Passwords \cup ChannelNames
           /\ typed[i].client = "shell" => ~Refused(typed[i].text)
        THEN << <<typed[i].target, Meant(typed[i])>> >> ELSE <<>>])

Relayed == RelayedOf(SentLines)
ReadOf(lines) ==
    [i \in DOMAIN lines |-> <<ClientUnescape(lines[i].args.TARGET),
                              ClientUnescape(lines[i].args.MESSAGE)>>]

(* Messages get through the server to other clients in order, once and     *)
(* unchanged, whichever clients write and read them, whatever the chunks   *)
(* and whatever other lines are in between: the server's own table undoes  *)
(* nothing, but what it fails to undo it also fails to redo.               *)
Transparent ==
    INSTANCE LineStream WITH
        Values <- (DOMAIN Passwords \cup ChannelNames) \X Seq(Symbols),
        pending <- SubSeq(Wanted, Len(Relayed) + 1, Len(Wanted)),
        got <- ReadOf(Relayed)

ImplementsLineStream == Transparent!Spec

(* Once the server has read every byte it holds no line back: the buffer   *)
(* is empty, and what it answered is what it answers if it is given the    *)
(* lines one by one, but for the empty ones, which may get lost.  That is  *)
(* so although a last piece that is a lone CR makes the loop treat the     *)
(* complete line before it as incomplete.                                  *)
BlankAnswer == <<Complaint(Error("UNKNOWN_COMMAND", <<>>))>>
Answered(answers) ==
    FlattenSeq([i \in DOMAIN answers |->
        IF answers[i] = BlankAnswer THEN <<>> ELSE <<answers[i]>>])
OneByOne == AllHandled(NoUser, [i \in DOMAIN typed |-> Content(typed[i]) \o <<CR>>])
NothingHeldBack ==
    unread = <<>> =>
        /\ msg = <<>>
        /\ Answered(sent) = Answered(OneByOne.sent)

(* A text that the server makes itself, the complaint that \c is an        *)
(* invalid escape (utils.py:131-135), is read by a client as it was meant: *)
(* it begins with a backslash.                                             *)
ComplaintReadable ==
    \A i \in DOMAIN SentLines :
        "PROBLEM" \in DOMAIN SentLines[i].args /\ SentLines[i].args.PROBLEM = <<"DONT_KNOW">> =>
            ClientUnescape(SentLines[i].args.COMMENT)[1] = BS
=============================================================================
