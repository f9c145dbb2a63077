----------------------------- MODULE HaxCurses -----------------------------
(***************************************************************************)
(* The curses clients haxcurses and hyay3 after their login form.  Two     *)
(* threads share the conversations and the input line under one lock:      *)
(* listen_to_user waits for keys and sends, and the main thread receives.  *)
(* Both release the lock only while they wait for a key or for the server; *)
(* a thread that sends, or that an exception ends, keeps it.  The programs *)
(* differ in how they draw messages (Undrawable).  The link to the server  *)
(* holds Capacity lines in each direction; the server, modelled from       *)
(* IdcServer, repeats to the user what the user sends.                     *)
(***************************************************************************)
EXTENDS LoginForm

CONSTANTS
    Lines,      \* curses.LINES
    ChatTokens, \* what is typed after the form
    Spaced,     \* the tokens that begin with a space
    MaxInput,   \* how many tokens the input line holds, a bound for TLC
    MaxEnters,  \* how often Enter is pressed, a bound for TLC
    Me,         \* the username of the form
    Posts,      \* the messages that other programs send this user
    MaxPosts,   \* how many of them come, a bound for TLC
    Known,      \* the users that the server knows
    Capacity    \* how many lines fit between two sockets

ASSUME ChatAssumption ==
    /\ "/query" \in ChatTokens \ Spaced /\ ChatTokens \cup Spaced \subseteq DOMAIN Width
    /\ Capacity \in Nat \ {0}
    /\ \A m \in Posts : m.kind = "PRIVMSG"

VARIABLES
    input_str, input_index,      \* the input line and its cursor
    message_list, message_index, \* the conversations and the one shown
    prompt,   \* the conversation that the prompt names
    ui,       \* the thread of listen_to_user
    net,      \* the main thread
    msg,      \* what has come of the next line
    toServer, toClient, link,    \* the connection
    server,   \* the lines that the server's task for this client is sending
    posted,   \* history: the messages sent to this client
    enters, posts \* how many came

chatVars == <<input_str, input_index, message_list, message_index, prompt, ui,
              net, msg, toServer, toClient, link, server, posted, enters, posts>>
vars == <<program, phase, config, line, index, chatVars>>
screen == <<input_str, input_index, message_list, message_index, prompt>>
wires == <<toServer, toClient, link, server, posted, posts>>

(* What a connection carries: lines, each followed by LF.                  *)
LF == [kind |-> "LF"]
Other == [kind |-> "OTHER"]
Privmsg(source, target, text) ==
    [kind |-> "PRIVMSG", source |-> source, target |-> target, text |-> text]

NoBuffer == <<"no open buffers">>

(* The user's thread remembers in `seen` the prompt at which Enter was     *)
(* pressed and, while it sends, the line in `text`.                        *)
Waiting == [at |-> "getkey", seen |-> NoBuffer, text |-> <<>>]
Dead == [Waiting EXCEPT !.at = "dead"]

Names(list) == {list[i].username : i \in DOMAIN list}
Conversation(name, messages) == [username |-> name, messages |-> messages]

TypeOK ==
    /\ FormTypeOK
    /\ input_str \in Seq(ChatTokens)
    /\ {input_index, message_index} \subseteq Nat
    /\ prompt = NoBuffer \/ prompt \in Names(message_list)
    /\ ui.at \in {"getkey", "enter", "sending", "dead"}
    /\ net.at \in {"recv", "chunk", "handling", "closing"}
    /\ {Len(toServer), Len(toClient) \div 2} \subseteq 0 .. Capacity

Init ==
    /\ FormInit
    /\ input_str = <<>> /\ input_index = 0
    /\ message_list = <<>> /\ message_index = 0
    /\ prompt = NoBuffer
    /\ ui = Waiting
    /\ net = [at |-> "recv", data |-> <<>>]
    /\ msg = <<>>
    /\ toServer = <<>> /\ toClient = <<>> /\ link = "up"
    /\ server = <<Other, Other>> \* what is left of the answer to LOGIN
    /\ posted = <<>>
    /\ enters = 0 /\ posts = 0

HeldInGetkey == ui.at = "enter" /\ net.at # "handling"
LockFree == ui.at \in {"getkey", "enter"} /\ net.at # "handling"

-----------------------------------------------------------------------------
(* update_screen.                                                          *)

ShownWidth(m) == 2 + TextWidth(m.source) + TextWidth(m.text)
Rows(m) == -((-ShownWidth(m)) \div Cols)

(* addstr fails when it fills the last column of a window's last row.      *)
(* haxcurses puts the newest message at the bottom, so only that one can;  *)
(* hyay3 puts the last messages each a row below the one before, whatever  *)
(* they take.                                                              *)
Undrawable(messages) ==
    IF program = "haxcurses"
    THEN /\ messages # <<>>
         /\ ShownWidth(Last(messages)) % Cols = 0
         /\ Rows(Last(messages)) < Lines
    ELSE LET shown == SubSeq(messages, Max({1, Len(messages) - Lines + 2}), Len(messages))
         IN  \E i \in DOMAIN shown :
                (i - 1) * Cols + ShownWidth(shown[i]) >= (Lines - 1) * Cols

PromptOf(list, i) == IF list = <<>> THEN NoBuffer ELSE list[i + 1].username
PromptWidth(p) == IF p = NoBuffer THEN 18 ELSE 5 + TextWidth(p)

MessagesDrawn == message_list = <<>> \/ ~Undrawable(message_list[message_index + 1].messages)

(* The screen after a step, and whether drawing it fails half-way.         *)
KeepPrompt ==
    prompt' = IF prompt = NoBuffer THEN PromptOf(message_list, message_index)' ELSE prompt
UpdateScreen ==
    prompt' = IF MessagesDrawn' THEN PromptOf(message_list, message_index)' ELSE prompt
ScreenOK == MessagesDrawn' /\ Fits(PromptWidth(prompt), input_str)'

-----------------------------------------------------------------------------
(* listen_to_user.  What it does with the lock for one key is one action;  *)
(* an exception ends the thread, which then keeps the lock.  Nothing       *)
(* depends on when a key was pressed but what the user saw on pressing     *)
(* Enter, so only Enter is pressed in a step of its own.                   *)

PressEnter ==
    /\ phase = "chat" /\ ui.at = "getkey" /\ enters < MaxEnters
    /\ ui' = [ui EXCEPT !.at = "enter", !.seen = prompt]
    /\ enters' = enters + 1
    /\ UNCHANGED <<program, phase, config, line, index, screen, net, msg, wires>>

UiGoesOn(ok) == ui' = IF ok THEN Waiting ELSE Dead

(* KEY_DOWN and KEY_UP go around the conversations.                        *)
StayBelow(i) == i
WrapDown(i) == IF i >= Len(message_list) THEN 0 ELSE i
WrapUp(i) == IF i < 0 THEN Max({0, Len(message_list) - 1}) ELSE i

SwitchBuffer ==
    /\ \/ message_index' = WrapDown(message_index + 1)
       \/ message_index' = WrapUp(message_index - 1)
    /\ UNCHANGED <<input_str, input_index, message_list>>
    /\ UpdateScreen
    /\ UiGoesOn(ScreenOK)

MoveCursor ==
    /\ \/ input_index' = LeftOf(input_index)
       \/ input_index' = RightOf(input_index, Len(input_str))
    /\ UiGoesOn(TRUE)
    /\ UNCHANGED <<input_str, message_list, message_index, prompt>>

EditInput ==
    /\ \/ /\ input_index > 0
          /\ input_str' = Erased(input_str, input_index)
          /\ input_index' = input_index - 1
       \/ /\ Len(input_str) < MaxInput
          /\ \E tok \in ChatTokens : input_str' = Typed(input_str, input_index, tok)
          /\ input_index' = input_index + 1
    /\ UiGoesOn(Fits(PromptWidth(prompt), input_str'))
    /\ UNCHANGED <<message_list, message_index, prompt>>

(* A name is written as the argument of /query that gives it: its first    *)
(* token has the space before it.                                          *)
Spaces(text) == {i \in DOMAIN text : text[i] \in Spaced}
IsQuery(text) == text[1] = "/query" /\ (Len(text) > 1 => text[2] \in Spaced)
HasArgument(text) == Spaces(text) # {}
Argument(text) ==
    LET first == Min(Spaces(text))
    IN  SubSeq(text, first, Min((Spaces(text) \ {first}) \cup {Len(text) + 1}) - 1)

(* /query opens a conversation and shows it.  Without an argument it fails *)
(* inside the try, and is ignored, only if the list is empty: any() over   *)
(* the list comes first and is outside of it.                              *)
Query(text) ==
    IF ~HasArgument(text)
    THEN /\ UNCHANGED <<message_list, message_index, prompt>>
         /\ UiGoesOn(message_list = <<>>)
    ELSE /\ IF Argument(text) \in Names(message_list)
            THEN UNCHANGED <<message_list, message_index>>
            ELSE /\ message_list' = Append(message_list, Conversation(Argument(text), <<>>))
                 /\ message_index' = Len(message_list)
         /\ UpdateScreen
         /\ UiGoesOn(ScreenOK)

Enter ==
    /\ input_str' = <<>> /\ input_index' = 0
    /\ \/ /\ input_str = <<>>
          /\ UiGoesOn(TRUE)
          /\ UNCHANGED <<message_list, message_index, prompt>>
       \/ input_str # <<>> /\ IsQuery(input_str) /\ Query(input_str)
       \/ /\ input_str # <<>> /\ ~IsQuery(input_str)
          /\ input_str[1] = "/query" \/ message_list = <<>>
          /\ UNCHANGED <<message_list, message_index>>
          /\ UpdateScreen
          /\ UiGoesOn(ScreenOK)
       \/ /\ input_str # <<>> /\ input_str[1] # "/query" /\ message_list # <<>>
          /\ ui' = [ui EXCEPT !.at = "sending", !.text =
                      <<Privmsg(Me, message_list[message_index + 1].username, input_str)>>]
          /\ UNCHANGED <<message_list, message_index, prompt>>

HandleKey(at, what) ==
    /\ phase = "chat" /\ ui.at = at /\ LockFree
    /\ UNCHANGED <<program, phase, config, line, index, net, msg, wires, enters>>
    /\ what

OtherKey == HandleKey("getkey", SwitchBuffer \/ MoveCursor \/ EditInput)
EnterKey == HandleKey("enter", Enter)

(* sendall returns once the line is in the pipe; on a closed link it may   *)
(* still return, or fail, which ends the thread.                           *)
SendReturns ==
    /\ phase = "chat" /\ ui.at = "sending"
    /\ \/ /\ link = "up" /\ Len(toServer) < Capacity
          /\ toServer' = toServer \o ui.text
       \/ link = "down" /\ UNCHANGED toServer
    /\ UNCHANGED <<program, phase, config, line, index, net, msg, toClient, link,
                   server, posted, enters, posts>>
    /\ UNCHANGED <<input_str, input_index, message_list, message_index>>
    /\ UpdateScreen
    /\ UiGoesOn(ScreenOK)

SendFails ==
    /\ phase = "chat" /\ ui.at = "sending" /\ link = "down"
    /\ ui' = Dead
    /\ UNCHANGED <<program, phase, config, line, index, screen, net, msg, wires, enters>>

-----------------------------------------------------------------------------
(* The main thread: recv without the lock, then everything with it.        *)

Recv ==
    /\ phase = "chat" /\ net.at = "recv"
    /\ \/ \E n \in 1 .. Len(toClient) :
             /\ net' = [at |-> "chunk", data |-> SubSeq(toClient, 1, n)]
             /\ toClient' = SubSeq(toClient, n + 1, Len(toClient))
       \/ /\ toClient = <<>> /\ link = "down"
          /\ net' = [at |-> "closing", data |-> <<>>]
          /\ UNCHANGED toClient
    /\ UNCHANGED <<program, phase, config, line, index, screen, ui, msg, toServer,
                   link, server, posted, enters, posts>>

(* The lines in a text that ends them with LF, and what follows the last.  *)
Ended(text) == SubSeq(text, 1, Max({0} \cup {i \in DOMAIN text : text[i] = LF}))
WithoutLF(s) == FlattenSeq([i \in DOMAIN s |-> IF s[i] = LF THEN <<>> ELSE <<s[i]>>])
LinesOf(text) == WithoutLF(Ended(text))
Forgotten(text) == <<>>
Rest(text) == SubSeq(text, Len(Ended(text)) + 1, Len(text))

SplitChunk ==
    /\ phase = "chat" /\ net.at = "chunk" /\ LockFree
    /\ msg' = Rest(msg \o net.data)
    /\ net' = IF Ended(msg \o net.data) = <<>> THEN [at |-> "recv", data |-> <<>>]
              ELSE [at |-> "handling", data |-> LinesOf(msg \o net.data)]
    /\ UNCHANGED <<program, phase, config, line, index, screen, ui, wires, enters>>

BufferOf(m) == IF m.target = Me THEN m.source ELSE m.target

Filed(list, m) ==
    IF BufferOf(m) \in Names(list)
    THEN [i \in DOMAIN list |->
             IF list[i].username = BufferOf(m)
             THEN [list[i] EXCEPT !.messages = Append(@, m)] ELSE list[i]]
    ELSE Append(list, Conversation(BufferOf(m), <<m>>))

(* A message may open a conversation but never shows it.                   *)
ShowNewest == message_index' = Len(message_list') - 1
KeepShown == UNCHANGED message_index

(* One line; a PRIVMSG is filed, and drawing may end the program.          *)
HandleLine ==
    /\ phase = "chat" /\ net.at = "handling"
    /\ UNCHANGED <<program, config, line, index, ui, msg, wires, enters>>
    /\ net' = IF Len(net.data) = 1 THEN [at |-> "recv", data |-> <<>>]
              ELSE [net EXCEPT !.data = Tail(@)]
    /\ IF Head(net.data).kind = "PRIVMSG"
       THEN /\ message_list' = Filed(message_list, Head(net.data))
            /\ UNCHANGED <<input_str, input_index>> /\ KeepShown
            /\ UpdateScreen
            /\ phase' = IF ScreenOK THEN phase ELSE "ended"
       ELSE UNCHANGED <<phase, screen>>

(* recv returned nothing: the program ends, once it has the lock.          *)
Close ==
    /\ phase = "chat" /\ net.at = "closing" /\ LockFree
    /\ phase' = "ended"
    /\ UNCHANGED <<program, config, line, index, chatVars>>

-----------------------------------------------------------------------------
(* The server: one task reads this client's lines and answers each before  *)
(* it reads the next; other tasks send this client their users' messages.  *)

Room == link = "up" /\ Len(toClient) + 2 <= 2 * Capacity
Sent(m) ==
    /\ toClient' = toClient \o <<m, LF>>
    /\ posted' = IF m.kind = "PRIVMSG" THEN Append(posted, m) ELSE posted

ServerReads ==
    /\ server = <<>> /\ toServer # <<>> /\ link = "up"
    /\ server' = <<IF Head(toServer).target \in Known THEN Head(toServer) ELSE Other>>
    /\ toServer' = Tail(toServer)
    /\ UNCHANGED <<toClient, link, posted, posts>>

ServerAnswers ==
    /\ server # <<>> /\ Room
    /\ Sent(Head(server))
    /\ server' = Tail(server)
    /\ UNCHANGED <<toServer, link, posts>>

OthersPost ==
    /\ posts < MaxPosts /\ Room
    /\ \E m \in Posts : Sent(m)
    /\ posts' = posts + 1
    /\ UNCHANGED <<toServer, link, server>>

LinkCloses ==
    /\ link = "up" /\ link' = "down"
    /\ UNCHANGED <<toServer, toClient, server, posted, posts>>

ServerStep ==
    /\ phase = "chat"
    /\ ServerReads \/ ServerAnswers
    /\ UNCHANGED <<program, phase, config, line, index, screen, ui, net, msg, enters>>

Elsewhere ==
    /\ phase = "chat"
    /\ OthersPost \/ LinkCloses
    /\ UNCHANGED <<program, phase, config, line, index, screen, ui, net, msg, enters>>

UiStep == EnterKey \/ SendReturns \/ SendFails
NetStep == Recv \/ SplitChunk \/ HandleLine \/ Close
Form == (FormKey \/ Connected) /\ UNCHANGED chatVars

Next ==
    \/ Form \/ PressEnter \/ OtherKey
    \/ UiStep \/ NetStep \/ ServerStep \/ Elsewhere

Spec == Init /\ [][Next]_vars

(* Threads that can run do, and the server reads and answers; the user and *)
(* the other programs owe nothing.                                         *)
FairSpec == Spec /\ WF_vars(UiStep) /\ WF_vars(NetStep) /\ WF_vars(ServerStep)

-----------------------------------------------------------------------------
(* The indices that both threads use stay inside what the other one may    *)
(* have changed: message_index in the list, the cursors in their texts.    *)
IndicesInBounds ==
    /\ CursorInField
    /\ input_index <= Len(input_str)
    /\ message_index < Max({1, Len(message_list)})

(* While both threads wait, the prompt names the conversation that Enter   *)
(* would send to.                                                          *)
PromptTruthful ==
    LockFree /\ phase = "chat" => prompt = PromptOf(message_list, message_index)

(* A text goes to the conversation that the prompt named when Enter was    *)
(* pressed, although messages may open others before it is sent.  Without  *)
(* an open conversation it may go to one that opens meanwhile.             *)
SentWherePromptSaid ==
    [][ui.at = "enter" /\ ui'.at = "sending" => ui.seen \in {NoBuffer, ui'.text[1].target}]_vars

(* What has been received and not handled, the messages in a sequence, all *)
(* of them and those of one conversation, and conversations that hold      *)
(* exactly the messages that were filed.                                   *)
Received == IF net.at = "handling" THEN net.data \o msg ELSE msg \o net.data
Messages(s) == FlattenSeq([i \in DOMAIN s |-> IF s[i].kind = "PRIVMSG" THEN <<s[i]>> ELSE <<>>])
MessagesOf(name, s) ==
    FlattenSeq([i \in DOMAIN s |-> IF BufferOf(s[i]) = name THEN <<s[i]>> ELSE <<>>])
FiledIn(list, filed) ==
    /\ \A i, j \in DOMAIN list : list[i].username = list[j].username => i = j
    /\ {BufferOf(filed[i]) : i \in DOMAIN filed} \subseteq Names(list)
    /\ \A i \in DOMAIN list : list[i].messages = MessagesOf(list[i].username, filed)

OnItsWay == Messages(Received \o toClient)
(* Every message sent to this client is in its conversation, once and in   *)
(* order, or still on its way, however the chunks are cut and whichever    *)
(* thread opens conversations; no conversation is listed twice.            *)
ConversationsComplete ==
    phase = "chat" =>
        LET filed == SubSeq(posted, 1, Len(posted) - Len(OnItsWay))
        IN  posted = filed \o OnItsWay /\ FiledIn(message_list, filed)

(* The user's thread died with the lock, or sends while client and server  *)
(* both wait for the other to read.                                        *)
Frozen ==
    \/ ui.at = "dead"
    \/ ui.at = "sending" /\ Len(toServer) = Capacity /\ server # <<>> /\ ~Room

(* What has been received is handled, and a closed link ends the program,  *)
(* unless one of the two deadlocks of the lock comes first.                *)
ReceivedIsHandled ==
    net.at \in {"chunk", "closing", "handling"}
        ~> (net.at = "recv" \/ phase = "ended" \/ Frozen)
=============================================================================
