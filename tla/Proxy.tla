------------------------------- MODULE Proxy -------------------------------
(***************************************************************************)
(* proxy.py: an IRC bouncer that one IRC client uses to reach an IDC       *)
(* server.  Four threads work for it: the init thread reads the client     *)
(* until NICK and USER came, miniirc's reader turns the server's lines     *)
(* into jobs, one worker runs the jobs in order, and the main loop that    *)
(* the first 001 starts reads the client from then on.  miniirc, outside   *)
(* of this repository, logs in again when the server closes the link; what *)
(* is sent without a link is lost or raises an error.                      *)
(***************************************************************************)
EXTENDS MiniIrc

CONSTANTS
    Me,       \* the account of ns_identity (current_nick)
    Commands, \* what the IRC client may type
    MaxTyped, \* how many commands it types, a bound for TLC
    Replies,  \* the lines that the server sends after the login
    MaxLines, \* how many of them, a bound for TLC
    MaxLosses \* how often the server closes the link, a bound for TLC

VARIABLES
    typed,     \* history: the commands of the IRC client
    taken,     \* how many of them were read from the socket and _buffer
    client,    \* whether the client's end is still open
    init,      \* _init_thread: what it waits for
    sendq,    \* commands read before NICK and USER came
    got001,      \* whether the first 001 was handled
    main,      \* the main loops that were started
    worker,    \* what the worker of the executor does
    jobs,      \* the executor's queue
    link,      \* the connection to the IDC server
    shown,     \* history: the messages that the client was sent
    sent,      \* history: the IDC lines given to miniirc to send
    replied, losses \* how many lines and losses came

vars == <<typed, taken, client, init, sendq, got001, main, worker, jobs, link,
          shown, sent, replied, losses>>
counters == <<replied, losses>>

(* None is a value that is absent, which a name or a text in use is not.   *)
Given(v) == v \in Seq(STRING) /\ "None" \notin ToSet(v)

(* A target is the part of a command before a space, so it is not empty.   *)
(* "bob", the other user that ReadAsTyped is about, is not the user's own  *)
(* account.                                                                *)
ASSUME ProxyAssumption ==
    /\ Given(Me) /\ Me # <<"bob">>
    /\ \A c \in Commands : c.cmd \in Texts =>
          /\ c.args \in Seq(Seq(STRING)) /\ \A k \in DOMAIN c.args : Given(c.args[k])
          /\ c.args # <<>> => c.args[1] # <<>>

NoCommand == Irc("none", <<>>, <<>>)
Reading == [at |-> "recv", cmd |-> NoCommand]
Job(handler, msg) == [handler |-> handler, msg |-> msg]

TypeOK ==
    /\ typed \in Seq(Commands) /\ taken \in 0 .. Len(typed)
    /\ client \in {"up", "down", "gone"} /\ got001 \in BOOLEAN
    /\ init \in {"both", "nick", "user", "done", "dead"}
    /\ sendq \in Seq(Commands)
    /\ main \in Seq([at : {"recv", "held", "done", "crashed"}, cmd : Commands \cup {NoCommand}])
    /\ worker \in {"idle", "flush", "welcome", "aborted"}
    /\ link \in {"none", "login", "good", "refused", "lost", "closed"}
    /\ main # <<>> => sendq = <<>> /\ init = "done"

Init ==
    /\ typed = <<>> /\ taken = 0 /\ client = "up"
    /\ init = "both" /\ sendq = <<>> /\ got001 = FALSE
    /\ main = <<>> /\ worker = "idle" /\ jobs = <<>>
    /\ link = "none" /\ shown = <<>> /\ sent = <<>>
    /\ replied = 0 /\ losses = 0

-----------------------------------------------------------------------------
(* The IRC client.                                                         *)

Type ==
    /\ client = "up" /\ Len(typed) < MaxTyped
    /\ \E c \in Commands : typed' = Append(typed, c)
    /\ UNCHANGED <<taken, client, init, sendq, got001, main, worker, jobs, link, shown,
                   sent, counters>>

ClientLeaves ==
    /\ client = "up" /\ client' = "down"
    /\ UNCHANGED <<typed, taken, init, sendq, got001, main, worker, jobs, link, shown,
                   sent, counters>>

(* Network.recv returns the next command, or fails after the last one.     *)
Unread == taken < Len(typed)
Next1 == typed[taken + 1]
Eof == ~Unread /\ client # "up"

(* disconnect() ends the connection for good: without auto_reconnect it    *)
(* also ends miniirc's attempts to log in again.                           *)
(* (LoseLink, like every definition just before one of the same            *)
(* parameters, is a variant of it with a mistake in it, for mutation runs.) *)
LoseLink == link' = "lost"
Disconnect == link' = "closed"

(* _sendcmd: CAP goes nowhere, a malformed command fails.                  *)
Blocked(c) == c.cmd = "CAP"
Sendable(c) == Blocked(c) \/ ~Malformed(c)
GivenTo(c) == IF Blocked(c) \/ Malformed(c) THEN <<>> ELSE LinesFor(c)

(* Whether quote() raises is open when a line meets no link.               *)
MayRaise(c) == ~Sendable(c) \/ (GivenTo(c) # <<>> /\ link \in {"lost", "closed"})
MayReturn(c) == Sendable(c)

-----------------------------------------------------------------------------
(* _init_thread: NICK and USER are kept, whatever else comes is queued.    *)

IsNick(c) == c.cmd = "NICK" /\ Len(c.args) = 1
IsUser(c) == c.cmd = "USER" /\ Len(c.args) > 1

QueuedFirst(c) == <<c>> \o sendq
Queued(c) == Append(sendq, c)

Missing(c) ==
    IF IsNick(c) THEN (IF init = "both" THEN "user" ELSE IF init = "nick" THEN "done" ELSE init)
    ELSE IF IsUser(c) THEN (IF init = "both" THEN "nick" ELSE IF init = "user" THEN "done" ELSE init)
    ELSE init

InitThread ==
    /\ init \in {"both", "nick", "user"}
    /\ \/ /\ Unread
          /\ taken' = taken + 1
          /\ sendq' = IF IsNick(Next1) \/ IsUser(Next1) THEN sendq ELSE Queued(Next1)
          /\ init' = Missing(Next1)
          /\ link' = IF init' = "done" THEN "login" ELSE link    \* irc.connect()
       \/ /\ Eof
          /\ init' = "dead"                                      \* the assert in recv
          /\ UNCHANGED <<taken, sendq, link>>
    /\ UNCHANGED <<typed, client, got001, main, worker, jobs, shown, sent, counters>>

-----------------------------------------------------------------------------
(* The main loop: what recv cannot read ends the connection, what _sendcmd *)
(* cannot send ends the thread alone.                                      *)

MainRecv(m) ==
    /\ main[m].at = "recv"
    /\ \/ /\ Unread
          /\ taken' = taken + 1
          /\ main' = [main EXCEPT ![m] = [at |-> "held", cmd |-> Next1]]
          /\ UNCHANGED link
       \/ /\ Eof
          /\ main' = [main EXCEPT ![m].at = "done"]
          /\ Disconnect
          /\ UNCHANGED taken
    /\ UNCHANGED <<typed, client, init, sendq, got001, worker, jobs, shown, sent, counters>>

MainSend(m) ==
    /\ main[m].at = "held"
    /\ sent' = sent \o GivenTo(main[m].cmd)
    /\ \/ MayReturn(main[m].cmd) /\ main' = [main EXCEPT ![m] = Reading]
       \/ MayRaise(main[m].cmd) /\ main' = [main EXCEPT ![m] = [Reading EXCEPT !.at = "crashed"]]
    /\ UNCHANGED <<typed, taken, client, init, sendq, got001, worker, jobs, link, shown, counters>>

-----------------------------------------------------------------------------
(* _miniirc_handler in the executor's only worker.                         *)

AnyJob == DOMAIN jobs
FirstJob == {1}

(* Network.send: it may fail once the client left, and fails from then on; *)
(* an error disconnects.                                                   *)
Show(msg) ==
    \/ client # "gone" /\ shown' = Append(shown, msg) /\ UNCHANGED <<client, link>>
    \/ client # "up" /\ client' = "gone" /\ Disconnect /\ UNCHANGED shown

IgnoredPong(msg) == msg.cmd = "PONG" /\ Last(msg.args) = <<"miniirc-ping">>
Ignored(msg) ==
    \/ msg.cmd = "001" /\ got001
    \/ msg.cmd = "PONG" /\ Last(msg.args) = <<"miniirc-ping">>

TakeJob ==
    /\ worker \in {"idle", "aborted"} /\ jobs # <<>>
    /\ \E j \in FirstJob \cap DOMAIN jobs :
          LET msg == jobs[j].msg
              rest == RemoveAt(jobs, j)
          IN  \/ /\ jobs[j].handler = "_parse_join"
                 /\ jobs' = rest \o <<Job("_miniirc_handler", NamesReplies(msg)[1]),
                                      Job("_miniirc_handler", NamesReplies(msg)[2])>>
                 /\ UNCHANGED <<worker, got001, shown, client, link>>
              \/ /\ jobs[j].handler = "_miniirc_handler"
                 /\ jobs' = rest
                 /\ \/ Ignored(msg) /\ UNCHANGED <<worker, got001, shown, client, link>>
                    \/ /\ ~Ignored(msg) /\ msg.cmd = "001"
                       /\ got001' = TRUE /\ worker' = "flush"
                       /\ UNCHANGED <<shown, client, link>>
                    \/ /\ ~Ignored(msg) /\ msg.cmd # "001"
                       /\ Show(msg)
                       /\ UNCHANGED <<worker, got001>>
    /\ UNCHANGED <<typed, taken, init, sendq, main, sent, counters>>

(* The first 001 sends the queue and starts the main loop.  An error in    *)
(* _sendcmd ends the job: there will be no main loop, and no 001 is shown. *)
OneSent == Len(sendq) < 2
AllSent == sendq = <<>>

Flush ==
    /\ worker = "flush"
    /\ \/ /\ ~AllSent
          /\ sendq' = Tail(sendq)
          /\ sent' = sent \o GivenTo(Head(sendq))
          /\ \/ MayReturn(Head(sendq)) /\ UNCHANGED worker
             \/ MayRaise(Head(sendq)) /\ worker' = "aborted"
          /\ UNCHANGED main
       \/ /\ AllSent
          /\ main' = Append(main, Reading)
          /\ worker' = "welcome"
          /\ UNCHANGED <<sendq, sent>>
    /\ UNCHANGED <<typed, taken, client, init, got001, jobs, link, shown, counters>>

Welcome ==
    /\ worker = "welcome"
    /\ Show(Messages(Idc("LOGIN_GOOD"), Me, FALSE)[1])
    /\ worker' = "idle"
    /\ UNCHANGED <<typed, taken, init, sendq, got001, main, jobs, sent, counters>>

-----------------------------------------------------------------------------
(* miniirc and the server: a login is answered or refused (miniirc_idc     *)
(* drops the refusal), then lines come; every message becomes a job for    *)
(* each of its handlers.                                                   *)

JobsFor(line) ==
    LET msgs == Messages(line, Me, FALSE)
    IN  IF msgs = <<>> THEN <<>>
        ELSE (IF line.cmd = "JOIN" THEN <<Job("_parse_join", msgs[1])>> ELSE <<>>)
             \o <<Job("_miniirc_handler", msgs[1])>>

ServerAnswersLogin ==
    /\ link = "login"
    /\ \/ link' = "good" /\ jobs' = jobs \o JobsFor(Idc("LOGIN_GOOD"))
       \/ link' = "refused" /\ UNCHANGED jobs
    /\ UNCHANGED <<typed, taken, client, init, sendq, got001, main, worker, shown, sent, counters>>

ServerSends ==
    /\ link = "good" /\ replied < MaxLines
    /\ \E line \in Replies : jobs' = jobs \o JobsFor(line)
    /\ replied' = replied + 1
    /\ UNCHANGED <<typed, taken, client, init, sendq, got001, main, worker, link, shown,
                   sent, losses>>

ServerCloses ==
    /\ link \in {"login", "good", "refused"} /\ losses < MaxLosses
    /\ link' = "lost" /\ losses' = losses + 1
    /\ UNCHANGED <<typed, taken, client, init, sendq, got001, main, worker, jobs, shown,
                   sent, replied>>

Reconnect ==
    /\ link = "lost" /\ link' = "login"
    /\ UNCHANGED <<typed, taken, client, init, sendq, got001, main, worker, jobs, shown,
                   sent, counters>>

-----------------------------------------------------------------------------
MainLoop == \E m \in DOMAIN main : MainRecv(m) \/ MainSend(m)
Worker == TakeJob \/ Flush \/ Welcome
Server == ServerAnswersLogin \/ Reconnect

(* Bouncer.main returns once the init thread and the connection are over.  *)
Ended ==
    /\ init = "dead" \/ link = "closed"
    /\ UNCHANGED vars

Next ==
    \/ Type \/ ClientLeaves \/ InitThread \/ MainLoop \/ Worker
    \/ Server \/ ServerSends \/ ServerCloses \/ Ended

Spec == Init /\ [][Next]_vars

(* The threads of the program run; a login is answered one way or another. *)
FairSpec ==
    Spec /\ WF_vars(InitThread) /\ WF_vars(MainLoop) /\ WF_vars(Worker) /\ WF_vars(Server)

-----------------------------------------------------------------------------
(* At most one thread reads the client's socket and _buffer: the init      *)
(* thread and the main loops, of which every login could start one, never  *)
(* overlap (nothing else keeps them apart, _main_lock is never set).       *)
Readers == {m \in DOMAIN main : main[m].at \in {"recv", "held"}}
OneReader ==
    /\ \A m, n \in Readers : m = n
    /\ init \in {"both", "nick", "user"} => Readers = {}

(* What the client types reaches miniirc once and in the order it was      *)
(* typed, although the init thread, the worker and the main loop hand it   *)
(* over from one to the next.                                              *)
TextLines(cmds) ==
    FlattenSeq([i \in DOMAIN cmds |->
        IF cmds[i].cmd \in Texts /\ ~Malformed(cmds[i]) THEN LinesFor(cmds[i]) ELSE <<>>])
TextsAmong(lines) ==
    FlattenSeq([i \in DOMAIN lines |->
        IF lines[i].cmd \in {"PRIVMSG", "CHANMSG"} THEN <<lines[i]>> ELSE <<>>])
Held ==
    FlattenSeq([m \in DOMAIN main |-> IF main[m].at = "held" THEN <<main[m].cmd>> ELSE <<>>])
OnItsWay == sendq \o Held \o SubSeq(typed, taken + 1, Len(typed))
SentInOrder == TextLines(typed) = TextsAmong(sent) \o TextLines(OnItsWay)

(* The client is welcomed before it is shown anything else, and once, also *)
(* when miniirc has logged in again - unless sending the queue failed.     *)
WelcomedFirst ==
    worker # "aborted" =>
        /\ shown # <<>> => shown[1].cmd = "001"
        /\ \A i \in DOMAIN shown : shown[i].cmd = "001" => i = 1

(* What another user of miniirc_idc reads is the command, the source, the  *)
(* channel and the text that the client typed, also through the IDC types  *)
(* of notices and actions.  (Actions without their closing character are   *)
(* read with it.)                                                          *)
WellFormed(text) ==
    IsAction(text) => Last(text) = SOH /\ Len(text) > 4 /\ text[3] = Space /\ text[Len(text) - 1] # SOH
ReadAsTyped ==
    \A i \in 1 .. taken :
        LET c == typed[i]
        IN  c.cmd \in Texts /\ ~Malformed(c) /\ WellFormed(c.args[2]) /\ LinesFor(c) # <<>> =>
                Messages(Forwarded(LinesFor(c)[1], Me), <<"bob">>, FALSE) =
                    <<Irc(c.cmd, Me, <<IF IsChannel(c.args[1]) THEN c.args[1] ELSE <<"bob">>,
                                       c.args[2]>>)>>

(* Once the client leaves, the bouncer notices and leaves the server,      *)
(* unless one of three things has left nobody to read the client: a login  *)
(* that is refused, an error while the queue is sent, or one that ended    *)
(* the main loop.                                                          *)
Unnoticed ==
    \/ link = "refused" \/ worker = "aborted"
    \/ \E m \in DOMAIN main : main[m].at = "crashed"
LeavesWithClient == client # "up" ~> (init = "dead" \/ link = "closed" \/ Unnoticed)
=============================================================================
