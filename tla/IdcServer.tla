----------------------------- MODULE IdcServer -----------------------------
(***************************************************************************)
(* The IDC chat server of src/servers/py-trio-struct (the copy under       *)
(* py-trio-s2s has the same idc.py but for one line).  One trio task runs  *)
(* connection_loop for each connection.  Tasks share the registry of       *)
(* logged-in connections and the queues of offline messages, and switch    *)
(* only at an await; every await of this program is a read of the task's   *)
(* own stream or a send_all on some stream.  An action is what one task    *)
(* does between two awaits, so the shared lists are read and written in    *)
(* the order the code does it.                                             *)
(*                                                                         *)
(* Messages are identified by the connection that posted them and the      *)
(* number of the line that did; the text is left out.                      *)
(***************************************************************************)
EXTENDS Naturals, Sequences, FiniteSets, SequencesExt

CONSTANTS
    Clients,   \* connections (entities.Client); a connection is never reused
    Users,     \* the users of config.py (local_users)
    Channels,  \* the channels of config.py (local_channels)
    Members,   \* Members[ch]: the users of ch.broadcast_to, in iteration order
    MaxLines,  \* MaxLines[c]: how many lines connection c sends, a bound for TLC
    MaxLeaves, \* how many peers leave, a bound for TLC
    None       \* no user, no stream, no line

ASSUME ConfigAssumption ==
    /\ None \notin Clients \cup Users
    /\ Users \cap Channels = {}
    /\ IsFiniteSet(Channels)
    /\ MaxLines \in [Clients -> Nat]
    /\ MaxLeaves \in Nat
    /\ Members \in [Channels -> Seq(Users)]
    /\ \A ch \in Channels : \A i, j \in DOMAIN Members[ch] :
          Members[ch][i] = Members[ch][j] => i = j

VARIABLES
    task,               \* the frame of each connection's task at its await
    user,               \* client.user
    connected_clients,  \* user.connected_clients, a list of clients
    queue,              \* user.queue, a list of messages
    peer,               \* whether the program at the other end is still there
    received,           \* the lines each connection's peer surely got, in order
    lines,              \* lines processed for each connection
    due                 \* history: <<m, u, cs>>: message m reached user u when
                        \* cs was the set of u's connected clients

vars == <<task, user, connected_clients, queue, peer, received, lines, due>>

Replies == {"MOTD", "CLIENT_CERT", "LOGIN_GOOD", "JOIN", "END_BURST",
            "END_OFFLINE_MESSAGES", "ANSWER"}

(* A line the server makes for one connection (utils.stdToBytes).          *)
Line(kind) == [kind |-> kind]

(* A PRIVMSG or CHANMSG line.                                              *)
Messages == [kind : {"MSG"}, from : Clients, n : Nat, to : Users \cup Channels]

Lines == [kind : Replies] \cup Messages

Sending == {"motd", "cert", "burst", "endburst", "drain", "last", "reply", "fanout"}
Stages == Sending \cup {"absent", "reading", "closed"}

(* A task waiting in send_all holds the stream `on`.  In "burst" `left`    *)
(* counts the JOIN lines to come, in "drain" the iterations of the for     *)
(* loop to come; in "fanout" `rest` is what is left of the list of users   *)
(* being sent to, its head the user whose connected_clients is iterated,   *)
(* and `pos` is the index the list iterator looks at next.                 *)
Frame(stage, on, line) ==
    [stage |-> stage, on |-> on, line |-> line, left |-> 0, rest |-> <<>>, pos |-> 1]

Frames == [stage : Stages, on : Clients \cup {None}, line : Lines \cup {None},
           left : Nat, rest : Seq(Users), pos : Nat \ {0}]

Absent  == Frame("absent", None, None)
Reading == Frame("reading", None, None)
Closed  == Frame("closed", None, None)

(* What a task waits for agrees with where it is and with its login.       *)
FrameOK(t) ==
    LET f == task[t]
    IN  /\ f.stage \in Sending => f.on \in Clients /\ f.line \in Lines
        /\ f.stage \in Sending \ {"fanout"} => f.on = t
        /\ f.stage \notin Sending => f.on = None
        /\ f.stage = "fanout" => f.line \in Messages /\ f.rest # <<>>
        /\ f.stage \in {"absent", "motd", "cert"} => user[t] = None
        /\ f.stage \in {"burst", "endburst", "drain", "last", "fanout"} => user[t] # None

TypeOK ==
    /\ task \in [Clients -> Frames]
    /\ \A t \in Clients : FrameOK(t)
    /\ user \in [Clients -> Users \cup {None}]
    /\ connected_clients \in [Users -> Seq(Clients)]
    /\ queue \in [Users -> Seq(Messages)]
    /\ peer \in [Clients -> {"up", "down"}]
    /\ received \in [Clients -> Seq(Lines)]
    /\ lines \in [Clients -> Nat]
    /\ due \subseteq Messages \X Users \X SUBSET Clients

Init ==
    /\ task = [c \in Clients |-> Absent]
    /\ user = [c \in Clients |-> None]
    /\ connected_clients = [u \in Users |-> <<>>]
    /\ queue = [u \in Users |-> <<>>]
    /\ peer = [c \in Clients |-> "up"]
    /\ received = [c \in Clients |-> <<>>]
    /\ lines = [c \in Clients |-> 0]
    /\ due = {}

-----------------------------------------------------------------------------
(* Streams.  SSLStream.send_all lets one task at a time into a stream and  *)
(* raises BusyResourceError in a second one; it always reaches a           *)
(* checkpoint while it holds the stream, and never one before or after.    *)
(* A definition just before another one of the same parameters, like       *)
(* NeverBusy, is a variant of it with a mistake in it, for mutation runs.  *)

NeverBusy(t, s) == FALSE
Busy(t, s) == \E x \in Clients \ {t} : task[x].on = s

Open(c) == task[c].stage \notin {"absent", "closed"}

(* connected_clients.remove(client).  The entries of a list are distinct   *)
(* (RegistryConsistent), so the first match is the only one.               *)
KeepList(s, c) == s
WithoutClient(s, c) ==
    IF c \in ToSet(s) THEN RemoveAt(s, CHOOSE i \in DOMAIN s : s[i] = c) ELSE s

(* The `finally` clause of connection_loop for a client logged in as u,    *)
(* applied to the registry reg; the task ends and trio closes its stream.  *)
Unregistered(reg, u, t) ==
    IF u = None THEN reg ELSE [reg EXCEPT ![u] = WithoutClient(@, t)]

Leave(t) ==
    /\ task' = [task EXCEPT ![t] = Closed]
    /\ connected_clients' = Unregistered(connected_clients, user[t], t)

(* Task t calls send_all and waits there in frame f, or the call raises    *)
(* and the connection of t ends.  reg and u are the registry and t's user  *)
(* as the segment has left them.                                           *)
Begin(t, f, reg, u) ==
    LET accepted == ~Busy(t, f.on) /\ task[f.on].stage # "closed"
    IN  /\ task' = [task EXCEPT ![t] = IF accepted THEN f ELSE Closed]
        /\ connected_clients' = IF accepted THEN reg ELSE Unregistered(reg, u, t)

BeginOwn(t, f) == Begin(t, f, connected_clients, user[t])

(* send_all returns.  The line counts as received if the peer and the      *)
(* stream are still there: send_all also returns for some lines that a     *)
(* leaving peer never reads.                                               *)
SendReturns(t) ==
    LET s == task[t].on
    IN  received' = IF peer[s] = "up" /\ task[s].stage # "closed"
                    THEN [received EXCEPT ![s] = Append(@, task[t].line)]
                    ELSE received

(* send_all raises because the peer or the stream is gone; nothing but the *)
(* handler at the end of connection_loop catches it, and t's connection    *)
(* ends whoever's stream it was sending on.                                *)
SendFails(t) ==
    /\ task[t].stage \in Sending
    /\ peer[task[t].on] = "down" \/ task[task[t].on].stage = "closed"
    /\ Leave(t)
    /\ UNCHANGED <<user, queue, peer, received, lines, due>>

-----------------------------------------------------------------------------
(* A connection before its login.                                          *)

(* A connection is accepted and sent the message of the day.               *)
Connect(c) ==
    /\ task[c] = Absent
    /\ BeginOwn(c, Frame("motd", c, Line("MOTD")))
    /\ UNCHANGED <<user, queue, peer, received, lines, due>>

Greet(t) ==
    /\ task[t].stage = "motd"
    /\ SendReturns(t)
    /\ BeginOwn(t, Frame("cert", t, Line("CLIENT_CERT")))
    /\ UNCHANGED <<user, queue, peer, lines, due>>

(* The task goes back to reading lines after CLIENT_CERT, after the reply  *)
(* to a command, or after the last line of a login.                        *)
ReadOnButAfterLogin(t) ==
    /\ task[t].stage \in {"cert", "reply"}
    /\ SendReturns(t)
    /\ task' = [task EXCEPT ![t] = Reading]
    /\ UNCHANGED <<user, connected_clients, queue, peer, lines, due>>
ReadOn(t) ==
    /\ task[t].stage \in {"cert", "reply", "last"}
    /\ SendReturns(t)
    /\ task' = [task EXCEPT ![t] = Reading]
    /\ UNCHANGED <<user, connected_clients, queue, peer, lines, due>>

(* The task takes the next line its peer sent, maybe before it left.       *)
TakeLine(t) ==
    /\ task[t].stage = "reading"
    /\ lines[t] < MaxLines[t]
    /\ lines' = [lines EXCEPT ![t] = @ + 1]

(* HELP, PING and EGG answer on the client's own stream whatever its       *)
(* login; every IDCUserCausedException (bad line, unknown command, missing *)
(* argument, second or failed LOGIN, message before login or to nobody)    *)
(* is answered there too, and no handler changes state before raising it.  *)
Answer(t) ==
    /\ TakeLine(t)
    /\ BeginOwn(t, Frame("reply", t, Line("ANSWER")))
    /\ UNCHANGED <<user, queue, peer, received, due>>

-----------------------------------------------------------------------------
(* LOGIN.                                                                  *)

InChannels(u) == {ch \in Channels : u \in ToSet(Members[ch])}

(* The password is right: the client joins the list of its user before the *)
(* first line of the burst is sent.                                        *)
Login(t, u) ==
    /\ TakeLine(t)
    /\ user[t] = None
    /\ user' = [user EXCEPT ![t] = u]
    /\ Begin(t, [Frame("burst", t, Line("LOGIN_GOOD"))
                     EXCEPT !.left = Cardinality(InChannels(u))],
             [connected_clients EXCEPT ![u] = Append(@, t)], u)
    /\ UNCHANGED <<queue, peer, received, due>>

(* A JOIN line for each channel of the user, then END_BURST.               *)
BurstStep(t) ==
    /\ task[t].stage = "burst"
    /\ SendReturns(t)
    /\ BeginOwn(t, IF task[t].left > 0
                     THEN [Frame("burst", t, Line("JOIN"))
                             EXCEPT !.left = task[t].left - 1]
                     ELSE Frame("endburst", t, Line("END_BURST")))
    /\ UNCHANGED <<user, queue, peer, lines, due>>

FinishLogin(t) ==
    /\ BeginOwn(t, Frame("last", t, Line("END_OFFLINE_MESSAGES")))
    /\ queue' = queue

(* queue.pop(0) and quote.                                                 *)
PopLast(t, left) ==
    LET u == user[t]
    IN  /\ BeginOwn(t, [Frame("drain", t, Last(queue[u])) EXCEPT !.left = left])
        /\ queue' = [queue EXCEPT ![u] = Front(@)]
PopAndClear(t, left) ==
    /\ BeginOwn(t, [Frame("drain", t, Head(queue[user[t]])) EXCEPT !.left = left])
    /\ queue' = [queue EXCEPT ![user[t]] = <<>>]
PopAndQuote(t, left) ==
    LET u == user[t]
    IN  /\ BeginOwn(t, [Frame("drain", t, Head(queue[u])) EXCEPT !.left = left])
        /\ queue' = [queue EXCEPT ![u] = Tail(@)]

(* range(len(queue)) is computed once, here.                               *)
SkipDrain(t) ==
    /\ task[t].stage = "endburst"
    /\ SendReturns(t)
    /\ FinishLogin(t)
    /\ UNCHANGED <<user, peer, lines, due>>
StartDrainOneShort(t) ==
    /\ task[t].stage = "endburst"
    /\ SendReturns(t)
    /\ IF queue[user[t]] = <<>>
         THEN FinishLogin(t)
         ELSE PopAndQuote(t, Len(queue[user[t]]) - 2)
    /\ UNCHANGED <<user, peer, lines, due>>
StartDrain(t) ==
    /\ task[t].stage = "endburst"
    /\ SendReturns(t)
    /\ IF queue[user[t]] = <<>>
         THEN FinishLogin(t)
         ELSE PopAndQuote(t, Len(queue[user[t]]) - 1)
    /\ UNCHANGED <<user, peer, lines, due>>

(* One more iteration; popping an empty list raises IndexError, which ends *)
(* the connection.                                                         *)
DrainStep(t) ==
    /\ task[t].stage = "drain"
    /\ SendReturns(t)
    /\ \/ /\ task[t].left = 0
          /\ FinishLogin(t)
       \/ /\ task[t].left > 0
          /\ queue[user[t]] # <<>>
          /\ PopAndQuote(t, task[t].left - 1)
       \/ /\ task[t].left > 0
          /\ queue[user[t]] = <<>>
          /\ Leave(t)
          /\ queue' = queue
    /\ UNCHANGED <<user, peer, lines, due>>

-----------------------------------------------------------------------------
(* PRIVMSG and CHANMSG.                                                    *)

Offline(u) == connected_clients[u] = <<>>

FrameSkippingNext(m, rest, pos) ==
    [stage |-> "fanout", on |-> connected_clients[Head(rest)][pos], line |-> m,
     left |-> 0, rest |-> rest, pos |-> pos + 2]
FanoutFrame(m, rest, pos) ==
    [stage |-> "fanout", on |-> connected_clients[Head(rest)][pos], line |-> m,
     left |-> 0, rest |-> rest, pos |-> pos + 1]

(* utils.send to the users of the list rest: m is queued for the offline   *)
(* ones at its head without an await, and the task waits on the first      *)
(* client of the first user that is online.                                *)
Deliver(t, m, rest) ==
    \E k \in 0 .. Len(rest) :
        LET skipped == {rest[i] : i \in 1 .. k}
            reached == {<<m, u, {}>> : u \in skipped}
        IN  /\ \A u \in skipped : Offline(u)
            /\ queue' = [u \in Users |-> IF u \in skipped THEN Append(queue[u], m)
                                                         ELSE queue[u]]
            /\ \/ /\ k = Len(rest)
                  /\ task' = [task EXCEPT ![t] = Reading]
                  /\ due' = due \cup reached
                  /\ UNCHANGED connected_clients
               \/ /\ k < Len(rest)
                  /\ ~Offline(rest[k + 1])
                  /\ due' = due \cup reached \cup
                        {<<m, rest[k + 1], ToSet(connected_clients[rest[k + 1]])>>}
                  /\ BeginOwn(t, FanoutFrame(m, SubSeq(rest, k + 1, Len(rest)), 1))

Message(t, target) == [kind |-> "MSG", from |-> t, n |-> lines[t] + 1, to |-> target]

(* The message goes to the target, then to the sender's own user.          *)
PrivmsgTargets(t, u) == IF u = user[t] THEN <<u>> ELSE <<u, user[t]>>

Privmsg(t, u) ==
    /\ TakeLine(t)
    /\ user[t] # None
    /\ Deliver(t, Message(t, u), PrivmsgTargets(t, u))
    /\ UNCHANGED <<user, peer, received>>

(* Whether the sender is a member of the channel is not looked at.         *)
Chanmsg(t, ch) ==
    /\ TakeLine(t)
    /\ user[t] # None
    /\ Deliver(t, Message(t, ch), Members[ch])
    /\ UNCHANGED <<user, peer, received>>

(* The send to one client of the user being iterated is over; the iterator *)
(* looks at the list as it is now.                                         *)
FanoutStep(t) ==
    LET f == task[t] IN
    /\ f.stage = "fanout"
    /\ SendReturns(t)
    /\ \/ /\ f.pos <= Len(connected_clients[Head(f.rest)])
          /\ BeginOwn(t, FanoutFrame(f.line, f.rest, f.pos))
          /\ UNCHANGED <<queue, due>>
       \/ /\ f.pos > Len(connected_clients[Head(f.rest)])
          /\ Deliver(t, f.line, Tail(f.rest))
    /\ UNCHANGED <<user, peer, lines>>

-----------------------------------------------------------------------------
(* The end of a connection.                                                *)

(* The peer closes its socket or is cut off.                               *)
PeerLeaves(c) ==
    /\ Open(c)
    /\ peer[c] = "up"
    /\ Cardinality({x \in Clients : peer[x] = "down"}) < MaxLeaves
    /\ peer' = [peer EXCEPT ![c] = "down"]
    /\ UNCHANGED <<task, user, connected_clients, queue, received, lines, due>>

(* `async for newmsg in stream` ends, or raises, when the peer is gone.    *)
Eof(t) ==
    /\ task[t].stage = "reading"
    /\ peer[t] = "down"
    /\ Leave(t)
    /\ UNCHANGED <<user, queue, peer, received, lines, due>>

(* Under the bounds the run ends when every connection has ended or waits  *)
(* for a line that its peer will not send.                                 *)
Finished ==
    /\ \A c \in Clients :
          \/ task[c] = Closed
          \/ task[c] = Reading /\ peer[c] = "up" /\ lines[c] = MaxLines[c]
    /\ UNCHANGED vars

(* What the task of one connection does.                                   *)
Step(t) ==
    \/ Greet(t) \/ ReadOn(t) \/ BurstStep(t) \/ StartDrain(t) \/ DrainStep(t)
    \/ FanoutStep(t) \/ SendFails(t) \/ Eof(t)

Command(t) ==
    \/ Answer(t)
    \/ \E u \in Users : Login(t, u) \/ Privmsg(t, u)
    \/ \E ch \in Channels : Chanmsg(t, ch)

Next ==
    \/ \E c \in Clients : Connect(c) \/ Step(c) \/ Command(c) \/ PeerLeaves(c)
    \/ Finished

Spec == Init /\ [][Next]_vars

(* trio runs every task that can run again and again, a read ends when the *)
(* peer is gone, and a send_all returns as long as peers read or leave.    *)
FairSpec == Spec /\ \A c \in Clients : WF_vars(Step(c))

-----------------------------------------------------------------------------
(* Safety.                                                                 *)

(* A user's connected_clients holds exactly the open connections that      *)
(* logged in as the user, each once, whatever the order of logins,         *)
(* departures and crashes: no send goes to a client whose stream was       *)
(* deleted, and the remove() of the finally clause always finds its        *)
(* element (its ValueError would end the whole server).                    *)
RegistryConsistent ==
    \A u \in Users :
        /\ \A c \in Clients :
              c \in ToSet(connected_clients[u]) <=> Open(c) /\ user[c] = u
        /\ \A i, j \in DOMAIN connected_clients[u] :
              connected_clients[u][i] = connected_clients[u][j] => i = j

(* A client past its login has no message waiting for its user, and one    *)
(* that drains the queue will look at least as often as messages wait: the *)
(* length read once by _login_cmd is never too small, although send() and  *)
(* other logins of the same user work on the queue meanwhile.              *)
NothingStranded ==
    \A c \in Clients : user[c] # None =>
        /\ task[c].stage \in {"last", "reading", "reply", "fanout"} => queue[user[c]] = <<>>
        /\ task[c].stage = "drain" => Len(queue[user[c]]) <= task[c].left

IsMsg(line) == line.kind = "MSG"

(* The number of lines of a kind among the first j of s.                   *)
Before(s, j, kind) == Cardinality({i \in 1 .. j : s[i].kind = kind})

(* What a client receives in its login is never mixed with live traffic,   *)
(* although its user counts as online, and other tasks may send to it,     *)
(* from before LOGIN_GOOD: no message comes before END_BURST, those before *)
(* END_OFFLINE_MESSAGES are the kept ones, and those after it are not.     *)
OfflineMessagesFirst ==
    \A c \in Clients : \A j \in DOMAIN received[c] : IsMsg(received[c][j]) =>
        /\ Before(received[c], j, "END_BURST") = 1
        /\ Before(received[c], j, "END_OFFLINE_MESSAGES") = 0
              <=> <<received[c][j], user[c], {}>> \in due

(* On one stream the messages of one sender come in the order it sent      *)
(* them, and none comes twice: neither the offline queue nor the iteration *)
(* of a list that shrinks and grows repeats or reorders them.              *)
FifoPerSender ==
    \A c \in Clients : \A i, j \in DOMAIN received[c] :
        /\ i < j
        /\ IsMsg(received[c][i]) /\ IsMsg(received[c][j])
        /\ received[c][i].from = received[c][j].from
        => received[c][i].n < received[c][j].n

(* The sender's send() to user u is over, and the sender did not crash.    *)
Dispatched(m, u) ==
    /\ Open(m.from)
    /\ ~(task[m.from].line = m /\ u \in ToSet(task[m.from].rest))

Got(c, m) == m \in ToSet(received[c])

(* A message reaches each client its user had when send() turned to the    *)
(* user, if none of these clients has ended since and the sender goes on.  *)
DeliveredUnlessSomeoneLeaves ==
    \A d \in due : Dispatched(d[1], d[2]) /\ (\A x \in d[3] : Open(x)) =>
        \A c \in d[3] : peer[c] = "up" => Got(c, d[1])

(* The whitepaper (line 84) has messages "sent to all connected clients of *)
(* the said user": a client that stays gets the message even if another    *)
(* client of the user ends meanwhile.  The code iterates the list that     *)
(* connection_loop removes from, and skips a client.                       *)
SentToAllConnectedClients ==
    \A d \in due : Dispatched(d[1], d[2]) =>
        \A c \in d[3] : Open(c) /\ peer[c] = "up" => Got(c, d[1])

Waits(m, u) == m \in ToSet(queue[u])

(* A login of u is sending the kept message m.                             *)
Draining(m, u) == \E c \in Clients :
    user[c] = u /\ task[c].stage = "drain" /\ task[c].line = m

(* A message kept for a user waits in its queue, is being sent by a login  *)
(* or was received, or else the peer of some login of the user has left:   *)
(* the IndexError that two logins can run into loses nothing.              *)
KeptUnlessReaderLeaves ==
    \A d \in due : d[3] = {} =>
        \/ Waits(d[1], d[2]) \/ Draining(d[1], d[2])
        \/ \E c \in Clients : user[c] = d[2] /\ (Got(c, d[1]) \/ peer[c] = "down")

(* The whitepaper (line 84): a message for a user with no client "SHOULD   *)
(* be kept until the user reconnects".  The code pops a message before it  *)
(* sends it, and a send that fails loses it.                               *)
KeptUntilReconnect ==
    \A d \in due : d[3] = {} =>
        \/ Waits(d[1], d[2]) \/ Draining(d[1], d[2])
        \/ \E c \in Clients : user[c] = d[2] /\ Got(c, d[1])

(* The comment in _login_cmd (lines 161-163) has every iteration pop what  *)
(* is now the first of the messages counted before: an iteration that      *)
(* is still to come has a message to pop.  A second login of the user pops *)
(* too, and the first one fails with IndexError.                           *)
DrainHasQueue ==
    \A c \in Clients :
        task[c].stage = "drain" /\ task[c].left > 0 => queue[user[c]] # <<>>

-----------------------------------------------------------------------------
(* Liveness, under FairSpec.                                               *)

(* Once a user has a client its kept messages are sent, unless all of its  *)
(* clients end before.                                                     *)
QueueDrained ==
    \A u \in Users : connected_clients[u] # <<>>
                        ~> (queue[u] = <<>> \/ connected_clients[u] = <<>>)

(* Every handler comes to an end, also the one that iterates a list that   *)
(* new logins extend: the connection reads its next line or ends.          *)
HandlerReturns ==
    \A t \in Clients : task[t].stage \in Sending
                          ~> task[t].stage \in {"reading", "closed"}
=============================================================================
