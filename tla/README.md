# IDC: specification, model checking and proofs

IDC ("Internet Delay Chat") is a chat protocol whose selling point is that a
user who is offline misses nothing: messages go to *users*, every connected
client of a user gets them, and the server keeps them while the user has no
client.  The repository holds one real server (Python, trio), its copy, several
clients, a bouncer, and experiments.  This directory models the parts whose
correctness depends on what happens between their steps, checks the models with
TLC and proves their invariants and action properties with TLAPS.

Conventions: a definition that stands for code keeps the code's name where TLA+
allows it, and `PROJECT.json` gives the lines it stands for ("map").  A
definition written just before another one of the same parameters (`NeverBusy`
before `Busy`, `ReadChunkUnbuffered` before `ReadChunk`, ...) is a variant of it
with a plausible mistake; "mutants" says which property notices the mistake.
Paths below are relative to `src/`.

## 1. Inventory

### IDC server (`servers/py-trio-struct`: idc.py, utils.py, entities.py, config.py)

*State.*  Per connection: the buffer `msg`, the `Client` (its stream and, once
logged in, its user).  Shared by all connections: `user.connected_clients`
(a list), `user.queue` (a list of messages kept while it is empty),
`channel.broadcast_to` (a list of users, fixed by config.py).  Nothing is
persisted: a restart of the server forgets queues, which the code accepts.

*Operations.*  `connection_loop` greets, then reads chunks, cuts lines, parses
them (`bytesToStd`) and calls the handler of the command: `HELP`, `PING`, `EGG`,
`LOGIN`, `PRIVMSG`, `CHANMSG`.  `utils.send` encodes (`stdToBytes`) and writes
to a client, to a user (every client, or else the queue), or to a channel (each
user in turn).

*Interaction.*  One trio task per connection; tasks are switched only at an
await, and the only awaits are the read of the own stream and a `send_all` to
some stream - one's own or a recipient's.  There is no lock.

*What is hard.*  The loops over `connected_clients` and over the queue contain
awaits, and other tasks change both lists meanwhile.  A send to a recipient that
is gone, or into whose stream another task is just sending, raises in the
*sender's* task.  A client is in the registry before its login is over, so live
messages, the login burst and the kept messages compete for its stream.

*What makes it correct.*  The registry lists exactly the open logged-in
connections.  No message is left in the queue of a user whose login is over.
Kept messages come before live ones, each once; the messages of one sender stay
in order.  A message reaches all clients of its user.  A kept message is kept
until it is received.  Handlers return.

### Line protocol (idc.py 284-311, utils.py 55-166, exceptions.py, and the clients' codecs)

*State.*  The bytes of the incomplete line, the user of the connection.
*Operations.*  Cutting chunks at LF, stripping CR, splitting at tabs and at `=`,
escaping and unescaping, the checks of each command's arguments, and the
complaint that names the first error.  *Interaction.*  What one client escapes,
the server unescapes, escapes again and another client unescapes, each with its
own table.  *What is hard.*  Chunk boundaries anywhere; a special case for a last
piece that is a lone CR; codecs that must compose; the order in which a line's
mistakes are found.  *What makes it correct.*  The grouping of bytes into chunks
is invisible; values arrive unchanged; no separator gets into a value; every line
that is not empty is answered as if it had come alone.

### haxcurses.py and hyay3.py: curses clients

*State.*  The login form; then the input line and its cursor, the list of
conversations, the index of the one shown, the prompt, the received part of a
line.  *Operations.*  Keys on the form; keys, `/query` and sending in the UI
thread; `recv`, cutting, filing and drawing in the main thread.  *Interaction.*
One lock, held by whichever thread is awake: it is released only around `getkey`
and `recv`, so `send` happens while it is held and an exception leaves it held.
*What makes it correct.*  Indices inside what the other thread changes, a prompt
that tells the truth, every message filed once, what is received is handled.

### miniirc_idc.py: IDC over miniirc

Translates IRC commands to IDC lines (notices and actions become types) and IDC
lines to IRC messages; a JOIN makes several.  Used by the next two.

### proxy.py: IRC bouncer

*State.*  The client's socket and its buffer, `_sendq`, the flag `_001`.
*Operations.*  The init thread reads until NICK and USER came and logs in; the
executor's one worker handles what the server sends, and on 001 flushes the
queue and starts the main loop, which reads from then on.  *Interaction.*  Four
threads hand one socket and one queue over to each other without a lock.
*What makes it correct.*  One reader, commands once and in order, the welcome
first, and an end when the client leaves.

### srirce/main.py: relay bot

Handlers, each call in a thread of its own, post on one network what happened on
the other.  *Correct:* each text once, in its sender's name, never back where it
came from; arrivals announced.

### idcit/ii.c: file-system client

*State.*  A linked list of channels, each with a FIFO that programs write lines
into and a file that the server's lines are printed to; the time of the last
response.  *Operations.*  One select loop: a line of the server, which may add a
channel; then one line of every ready FIFO.  When a FIFO's last writer has left,
ii closes it and opens it anew, which may fail and remove the channel.
*What is hard.*  Programs write between any two of these calls, also between a
read that finds nothing and the close.  Writing to the server blocks, while the
server may be waiting for ii to read.  *Correct:* the loop's pointers stay in the list, what is sent is what was
written, what the server says is printed where it names, no ready FIFO starves.

### The rest

- **shell clients, weechat-idc** - pipes between a terminal and a socket; a stub.
- **asyncserver.c** - a select loop that broadcasts; **idcs.erl** - a supervisor
  of acceptors; **echo.py, server.lisp** - echo servers.

The hazards each part is exposed to are in `PROJECT.json` ("hazards"), each with
the line where it bites and the properties that watch it.

## 2. Modules

| module | what it is |
|---|---|
| `IdcServer` | the server: one action per handler and per await |
| `IdcServer_proofs` | its inductive invariant: types, the registry, nothing stranded; then what any step may change, as seven kinds of steps, and what streams and frames know of the history |
| `IdcServerHistory_proofs` | extends it: the order in which clients receive messages, and that kept and live messages arrive |
| `MCIdcServer` | its constants for TLC |
| `Codec` | the escapes of the server and of its clients, as pure operators |
| `Framing` | the cutting of chunks into lines, as pure operators |
| `Commands` | `bytesToStd`, the commands' checks and effects, and the complaint, as pure operators over `Codec` |
| `LineStream` | abstract: values come out in order, once, unchanged |
| `Wire` | client, stream, server and receiving clients composed, over `Framing` and `Commands`; implements `LineStream` |
| `MCWire` | its inputs for TLC |
| `Wire_proofs` | the codecs for every text, parsing and handling for every line, cutting for every chunk, and the refinement of `LineStream` |
| `LoginForm` | the form with which haxcurses and hyay3 start |
| `HaxCurses` | the form, then the two threads, the link and the server's task; extends `LoginForm` |
| `MCHaxCurses` | its constants |
| `HaxCurses_proofs` | its inductive invariant and the proofs |
| `MiniIrc` | miniirc_idc's translations, as pure operators |
| `Proxy` | the bouncer's threads around `MiniIrc` |
| `MCProxy` | its constants |
| `Proxy_proofs` | its inductive invariant and the proofs |
| `Relay` | the relay bot around `MiniIrc` |
| `MCRelay` | its constants |
| `Relay_proofs` | its inductive invariant and the proof |
| `Ii` | idcit's list, FIFOs and select loop |
| `MCIi` | its constants |
| `Ii_proofs` | its inductive invariant and the proofs |
| `SequenceLemmas` | induction over sequences, and what `FlattenSeq` makes of longer ones, for the proof modules but the server's |

### IdcServer

`task[c]` is the frame of connection `c`'s coroutine at its await: `stage` says
which await, `on` the stream it is in, `line` what it sends, and `left`, `rest`,
`pos` are the loop variables that survive the await (iterations of the drain
loop to come, users of the fan-out to come, index of the list iterator).
`user`, `connected_clients` and `queue` are the shared state.  `peer` says
whether the program at the other end is there, `received` what it surely got,
`lines` bounds the lines a connection sends, and `due` is a history variable:
for each message and user, the clients the user had when `send` turned to it.

| action | code |
|---|---|
| `Connect`, `Greet` | connection_loop up to the loop: MOTD, CLIENT_CERT |
| `ReadOn` | a one-line send returned, the loop reads the next line |
| `Answer` | HELP, PING, EGG and every error reported to the client |
| `Login`, `BurstStep` | `_login_cmd`: registry, LOGIN_GOOD, JOINs, END_BURST |
| `StartDrain`, `DrainStep` | the loop over the queue and END_OFFLINE_MESSAGES |
| `Privmsg`, `Chanmsg`, `FanoutStep` | the handlers and `send`'s nested loops |
| `SendFails`, `Eof` | an exception or end of stream: except and finally clauses |
| `PeerLeaves` | the environment |

A `for` over a Python list is an index that is compared with the *current*
length at every iteration: that is why a list that shrinks makes it skip and a
list that grows makes it continue.  `SSLStream.send_all` is modelled by what the
code can observe: it reaches a checkpoint while holding the stream, raises in a
second task, raises if the peer is gone, else returns when the bytes are out.

### Codec, Framing, Commands, Wire

A value is a short sequence of symbols: the backslash, the letters of escapes,
the separators, "x" for every other character, and whole words where only their
identity matters (commands, keys, names).  `ServerUnescape` and `ServerEscape`
follow the table of utils.py, which has *two* backslashes for an escaped
backslash: reading keeps both, writing changes nothing.  Neither is the inverse
of the other, but what the first fails to undo the second fails to redo, so
relaying is transparent - which is what `ImplementsLineStream` says - while
text the server makes itself is not.

`Commands` keeps the order of the code's checks: `ParseChecks` lists what
`bytesToStd` may raise and `CommandChecks` what the handler may, both as
sequences of `Check`s, and `FirstRaised` is the first that applies.  `Handled` is a
whole line: its answer, the new user of the connection, what is relayed.  A key
that comes twice keeps its last value; `KeyCollisionError` of exceptions.py 141
is never raised.

In `Wire` one action is one turn of the reading loop with a chunk of any length,
including the handling of all lines it completes.  `Login`, `Message` and `Raw`
are what clients write: miniirc_idc escapes every value (`ValueBytes`), haxcurses
only a text's backslashes, the shell clients nothing.

An empty line is answered `UNKNOWN_COMMAND` or, when a chunk ends between its CR
and its LF, dropped; that is why `NothingHeldBack` compares the answers to the
lines that are not empty.  The whitepaper disagrees with the code here: its line
176 says that empty messages are silently ignored, and idc.py lines 302-307 handle
them like any other.  A longer line that begins with a CR would lose that byte and
be joined to the line before it if a chunk ended there; no client sends one, and
`FramingAssumption` says so.

### LoginForm, HaxCurses

Texts are sequences of tokens with a width each, so that a line can be too wide
for its window; a token that begins with a space is a word that a space splits
off ("/query bob").  `ui.at` and `net.at` say where the threads are; `LockFree`
is that both wait in `getkey` and `recv` or for the lock.  A key other than Enter
is taken together with the lock (`OtherKey`), since nothing happens between;
Enter has steps of its own (`PressEnter`, `EnterKey`, `SendReturns`,
`SendFails`), because `send` may block with the lock held.  `Recv`,
`SplitChunk`, `HandleLine`, `Close` are the main thread.  `UpdateScreen` keeps
what matters of drawing: the prompt, and `ScreenOK`, whether `addstr` raises.
The two programs differ in a wrap-around, in the drawing of long messages, and
in what the form catches; the constant `Programs` holds both.  The server is
`ServerReads` and `ServerAnswers` (it answers a line before it reads the next)
and `OthersPost`; each direction of the link holds `Capacity` lines.

### MiniIrc, Proxy

`LinesFor` is `IDC.send`, `Messages` is `idc_message_parser`; both copies of
miniirc_idc.py hold the same code.  In `Proxy`, `init` is what the init thread
waits for, `worker` what the executor's worker does, `main` the main loops that
were started, each at `recv`, with a command in hand, or ended; `jobs` is the
executor's queue.  `typed` and `sent`, `shown` are what came from the IRC client
and what went to either side.  miniirc's reconnection (`Reconnect`) and the
server's answer to a login are the environment.

### Relay

`happened` is what was said or done on the two networks, `jobs` the handler
threads that have not finished, `posted` what the bot posted in each channel; the
text of an action is the relay function's.  The bot's account and channel are
taken to exist on the IDC side, although the shipped main.py names them with a
domain and a `#` and gives `ns_identity` a list.

### Ii

`channels` is the linked list, head first; `loop` is where `run` is, which
descriptors `select` reported and the pointer `c`; a pointer to a channel that is
not in the list is a pointer to freed memory.  `sending` is that it is in
`ewritestr`, which every handler calls last.

| action | code |
|---|---|
| `Select`, `Idle` | one `select`; its timeout, the PING and the exit |
| `HandleServerOutput`, `Disconnected`, `Crash` | one line of the server, its end of file, or a print to freed memory |
| `Written`, `WriteFails` | `ewritestr` returns, or `write` fails and ii exits |
| `HandleChannel` | the loop's next channel: not ready, a line read, or none |
| `CloseFifo`, `OpenFifo` | `channel_reopen`: `close`, then `channel_open` or `channel_rm` |
| `Write`, `WriteBegins`, `WriteEnds`, `WriterLeaves`, `Obstruct` | programs and whoever changes the directory |
| `ServerBegins`, `ServerEnds`, `ServerReads`, `ServerCloses` | the server |

A line of the server is one that names a channel, PING, or one that names none
and goes to `channelmaster`; this repository's server only sends the last kind,
since its lines have no prefix.  If `channelmaster` has been freed, printing to
it is any of: lost, on another channel, the end of the program (`Crash`).

Programs write a line at once or in two parts, with the FIFO open meanwhile, and
may leave without the second.  A FIFO is ready when it holds something or its
last writer has left (`hungup`).  What is in it when the last of its ends is
closed is lost: a line that comes between the failing read (ii.c lines 678, 698)
and the close (line 217) is lost as a whole unless another program has the FIFO
open.  `written` notes of each write whether it had an end and came before that
window.

The connection holds `Capacity` lines in each direction.  The server answers a
line before it reads the next, with a blocking write, as the servers of this
repository do.

## 3. Runs

| run | question | states | result |
|---|---|---|---|
| `server` | one talking connection and two logins, one departure | 1.35 million | holds |
| `server_live` | do handlers return and queues drain? | 0.4 million | holds |
| `server_skipped` | do all connected clients get a message? | - | violated |
| `server_lost` | is a kept message kept until received? | - | violated |
| `server_two_logins` | does the drain loop always find a message? | - | violated |
| `wire` | are chunks invisible, values relayed unchanged, lines all handled? | 12 thousand | holds |
| `wire_complaint` | can a client read the server's own text? | - | violated |
| `haxcurses` | do the two threads keep indices, prompt and conversations right, and handle what comes? | 1.0 million | holds |
| `proxy` | one reader, order kept, welcome first, text intact, end with the client? | 0.3 million | holds |
| `relay` | is each text repeated once, on the other side only? | 60 thousand | holds |
| `relay_joins` | are arrivals announced on the other network? | - | violated |
| `ii` | is the list sound, is what is sent what was written, is every FIFO read? | 0.6 million | holds |

**Bounds of the server.**  Two users, one channel of both, three connections.
Three connections are the least with which one sends while two belong to the
recipient (skipping, two drains); two users the least for a fan-out that goes on
after a user.  The talker has a login and two messages - the least for order and
for a queue of two - and the others only log in (they may do so as either user,
or not at all).  `MaxLeaves` is 1 or 2: enough for a departure at every await.  The connections
that only log in are interchangeable (symmetry, not used with liveness).

**Bounds of the wire.**  After a login, one message whose text has up to two
symbols (so every pair of symbols, in particular everything after a backslash),
from each kind of client; or up to three of four short ones; or one or two of
nineteen other lines, which between them reach each check of `bytesToStd` and of
the commands; cut at every position.  Two symbols are the longest unit any codec
looks at.

**Bounds of the other runs.**  `haxcurses`: a window of 30 columns and 3 rows, a
form of five tokens, an input of two tokens, two Enters, two messages from
others (one fills a row), one line of room in each direction: the least with
which a text, its answer and a foreign message cross, and both deadlocks of the
lock occur.  `proxy`: four commands out of NICK, USER, an action, a notice, a
malformed command and a blocked one, one line of the server, one loss of the
link.  `relay`: three events on two networks by two users.  `ii`: two channels
(a head and a last one; the invariants are proved for any number), two lines or parts written (the least for a
line in two parts, and for a whole line that comes while a read of a part fails),
two lines of a server that may close the connection, one line of room in each
direction, two idle turns for PING_TIMEOUT's five (the handling does not depend on
the number).

**Deadlock.**  The environments are bounded and may stop, so most cfgs switch the
check off.  In `haxcurses` the program itself can also stop for good: the UI
thread dies with the lock (`/query` without a name, a line too wide), or sends
with the lock held while the server cannot go on either; `Frozen` names both and
`ReceivedIsHandled` shows that there is no third way.  In `proxy` a refused login
leaves a program that waits for ever.  In `ii` the program blocks writing to a
server that blocks writing to it, when both directions are full (`Stuck`);
`InputRead` shows that nothing else holds it up.

**Fairness.**  `FairSpec` of `IdcServer` has weak fairness of `Step(c)`, the continuation of a
task after its await.  trio runs every runnable task, a read ends when the peer
sends or is gone, and a `send_all` returns when the peer reads or leaves.  That
last point is an assumption about peers; the code has no timeout, and a peer
that neither reads nor leaves blocks whoever sends to it.  Nothing is assumed of
the commands peers send or of their departure.

Likewise in the other modules: the program's own steps are weakly fair, because
the operating system runs threads that can run (the UI thread's work after a key,
the receiving thread, the bouncer's threads, the bot's handlers, ii's loop).  Of
the environment, `HaxCurses` assumes that the server reads and answers, `Proxy`
that miniirc reconnects and a login is answered, `Ii` that the server ends a line
it began and reads, each when it can: it cannot end a line while the connection is full,
nor read while it writes.  A write of ii's is a step of its own (`Written`) that is
possible only when there is room, so fairness does not assume that it returns.
Keys, programs that write, other users and departures owe nothing.
`Wire` needs none: its promises are safety.

**What the violations show.**
- `server_skipped`: `send` awaits inside `for c in recver.connected_clients`.  If
  the client at or before the current index ends meanwhile, `remove` shifts the
  list and the next client is passed over, against docs/whitepaper.md line 84.
- `server_lost`: `_login_cmd` pops a kept message and then sends it.  If the
  peer leaves during the send it is gone, against the same line.
- `server_two_logins`: `range(len(queue))` is computed once.  A second login of
  the user pops during the awaits; the first then pops an empty list and its
  connection ends with IndexError.  `KeptUnlessReaderLeaves` shows that this
  loses no message.
- `wire_complaint`: the server does not escape a backslash in what it writes
  (docs/WARNING line 13 says it must be doubled), so its complaint about `\x`
  is read as another character.
- `relay_joins`: `relay_joins` chooses the channel the other way round than the
  other functions, so arrivals are announced in a channel the network does not
  have, against the comment at srirce/main.py line 59.

**What the holding runs leave open.**  They say, in their wording, where the code
does less than one might expect: an empty line is answered, against
docs/whitepaper.md line 176, unless its chunks drop it (`NothingHeldBack`); a text typed with no open conversation goes to
one that opens meanwhile (`SentWherePromptSaid`); a bouncer whose login is
refused, or that got a command it cannot translate, does not notice that its
client left (`LeavesWithClient`); texts may be repeated in another order, and
private messages to the bot are repeated in public (`Bridged`); a line written to
a FIFO in parts may be lost, since `IDC_MSG_MAX` is not below PIPE_BUF everywhere
as ii.c line 32 has it, and so is one that comes between a failing read of its FIFO
and the close, at whatever length (`SentAsWritten`, which excuses these two and no
other); ii and the server may wait for each other for ever (`InputRead`, which
excuses that by name, `Stuck`).  No document of the repository says
that either cannot happen.

## 4. Proofs

Every theorem below holds for all values of the constants that satisfy the
assumptions named with it: any set of connections (finite or not), users,
channels, tokens, messages, commands and replies, and any of the bounds that the
runs need.

| module | theorem | states |
|---|---|---|
| `IdcServer_proofs` | `TypeCorrect` | `TypeOK` |
| | `RegistryIsConsistent` | `RegistryConsistent` |
| | `NoMessageStranded` | `NothingStranded` |
| | `StreamsAreShared` | the invariant of streams and frames |
| `IdcServerHistory_proofs` | `FifoHolds` | `FifoPerSender` |
| | `OfflineFirstHolds` | `OfflineMessagesFirst` |
| | `KeptHolds` | `KeptUnlessReaderLeaves` |
| | `DeliveredHolds` | `DeliveredUnlessSomeoneLeaves` |
| `Wire_proofs` | `TypeCorrect` | `TypeOK` |
| | `NoSeparatorEverSent` | `NoSeparatorSent` |
| | `ClientsAlwaysAgree` | `ClientsAgree` |
| | `EachLineAnswered` | `NothingHeldBack` |
| | `MessagesGetThrough` | `ImplementsLineStream` (a refinement) |
| `Proxy_proofs` | `ProxyTypeCorrect`, `OneReaderAtATime` | `TypeOK`, `OneReader` |
| | `WelcomedBeforeAll` | `WelcomedFirst` |
| | `AllSentInOrder` | `SentInOrder` |
| | `TextsReadAsTyped` | `ReadAsTyped` |
| `HaxCurses_proofs` | `CursesTypeCorrect` | `TypeOK` |
| | `IndicesStayInBounds` | `IndicesInBounds` |
| | `PromptStaysTruthful` | `PromptTruthful` |
| | `SentWherePromptSaidHolds` | `SentWherePromptSaid` (an action property) |
| | `ConversationsStayComplete` | `ConversationsComplete` |
| `Relay_proofs` | `NeverHearsItself` | `NoEcho` |
| `Ii_proofs` | `IiTypeCorrect` | `TypeOK` |
| | `LoopPointerIsListed` | `ListWalkable` |
| | `LinesPrintedRight` | `PrintedWhereNamed` |
| | `LinesSentAsWritten` | `SentAsWritten` |

*Induction over data.*  Many of these are about recursive functions and folds
over sequences.  The library's induction theorems have an operator as parameter,
which the provers cannot instantiate; but that a set of numbers which is not empty
has a smallest one (`WFMin`, with `NatLessThanWellFounded`) is about sets only.
`SequenceLemmas` makes an induction rule of it (`Induct`), proves with it that the
function inside `FlattenSeq` exists and what it is for one more element, and from
that what `FlattenSeq` makes of two sequences one after the other
(`FlattenJoin`, `FlatMapJoin`): what was sent and what is on its way, what was
filed and what comes.

### IdcServer

*Assumption.*  `ConfigAssumption`: `None` is neither a connection nor a user,
users and channels differ, there are finitely many channels, no user is twice in
a channel's list.  config.py satisfies it.

*Types, registry, queue.*  The inductive invariant is `IInv == TypeOK /\
RegistryConsistent /\ NothingStranded`, where `TypeOK` includes `FrameOK`, which
ties a frame to the login and the stream of its task.  The three need each other.
That a message is queued only when nobody is past the drain follows from the
registry: `queue` grows only if `connected_clients` is empty, and then no open
connection is logged in as that user, so no drain of it is under way and none is
over.  That the registry stays right needs `FrameOK`: a task that has not logged
in is not removed, one that has is there exactly once.  Consequence: the `remove`
of the finally clause, whose ValueError would end the whole server, always finds
its element, and no send goes to a deleted stream.

*Kinds of steps.*  The properties over histories would each need a proof step for
every action.  Instead `NextKinds` shows once that every step is of one of a few
kinds (a task goes on with its own stream, ends, logs in, pops a kept message,
goes to the next client of a fan-out, turns to new messages; or a peer leaves),
each giving what the step may change.  All later proofs split on the kinds only.

*Streams and frames* (`StreamInv`).  A handler remembers in loop variables what it
has still to do, while other tasks change the lists it iterates.  So the
invariant says what a frame knows: one task at a time is in `send_all` on a
stream, somebody else's only after the login of its client (`OneTaskPerStream`,
`OthersSendAfterLogin`); a drain sends a message that was kept for the user and a
fan-out the task's latest message (`FrameFits`); a queue holds what came when the
user had no client (`QueuedIsDue`), and a message in fan-out has not come to the
users that are still ahead (`NotYetDue`).

*Order* (`OrderInv`).  `FifoPerSender` alone is not inductive: a fan-out could come
to a client for a second time.  It cannot, because the clients that the iterator
is at or comes to do not have the message yet (`AheadHasNot`): a client that is
removed can only move others behind the index, where they are skipped, and a
login adds one that has received no message yet (`NoMessageBeforeDrain`).  Kept messages need that queues are in order and that a
drain has received only what is older than what it sends and what still waits
(`QueuesInOrder`, `DrainInOrder`).  `OfflineMessagesFirst` counts lines, so
`LoginLines` says for each stage of a login how many `END_BURST` and
`END_OFFLINE_MESSAGES` its client has received.

*Delivery.*  `KeptUnlessReaderLeaves` is inductive on top of `StreamInv`: a kept
message that is popped becomes the one that the drain sends, and that one is
received unless the peer has left.  `DeliveredUnlessSomeoneLeaves` needs
`OldFirst`: while none of the clients that a message was due to has ended, they
come before later logins in the list, and those that the iterator has passed have
the message or are being sent it.  Where one has ended this fails, which is the
skipped client of `server_skipped`.

### Wire

*Assumptions.*  `WireAssumption`: what is typed, the names and the passwords are
sequences of the model's symbols.  `FramingAssumption`, for `EachLineAnswered`
and `MessagesGetThrough` only: no typed line holds an LF or begins with a CR
(section 2).  `MessagesGetThrough` has a hypothesis besides, `OrdinaryInputs`,
because clients of the shell and haxcurses send names and passwords raw: a
backslash or a separator in these, or a tab in what they send as a text, would
make a different line of it.  And a line that is sent raw is no login and no message, since what comes
of it is not counted as wanted.  `MCOrdinary` has TLC evaluate the hypothesis on
the inputs of the run.

*Values.*  Whatever the server sends, it sends as an answer to some line
(`SentOK`, `HandledIs`, `Answer`), and every value in an answer is written with
`ServerEscape` (`EffectsAre`, `ComplaintIs`).  So `NoSeparatorSent` is a fact
about one codec for every text.  `ClientsAgree` needs more, since the two
clients' tables do differ: a relayed value was read by `ServerUnescape` from a
text that was not refused (`ReadValue`), and of such a text, read and written
again, both clients read what they would read of the text itself (`KeepsMeaning`,
`MeaningKept`): by induction from the front, in which an escape is two symbols,
the only units there are (`RefusedParts`).  `TypedIsRead` and `HaxTypedIsRead` say
the same of what miniirc_idc and haxcurses write.

*Framing.*  That nothing is held back is not inductive: it says nothing while
bytes are on their way.  The invariant is `Framed`: there are lines p that were
handled and lines q whose bytes are exactly `msg \o unread`, p and q together are
the typed lines but for empty ones (`Kept`), the buffer does not end in an LF, and
what was sent is `AllHandled` of p.  A turn cuts the bytes of q somewhere:
`CutBytes` finds the complete lines and the part of one in front, and that this
part is a lone CR only if the line is empty; `SplitBytes` says what `Split` makes
of it.  In the case that the code treats specially, the loop drops that CR and
puts the last complete line back, without its LF - and the LF that comes next ends
it after all, so that only the empty line is lost (`TurnKeepsLines`).  Empty lines
change neither the user nor what others are answered (`EmptyLinesChangeNothing`).

*Refinement.*  The state of `LineStream` is computed from that of `Wire`: what came
out is what clients read of the relayed lines, what is pending the rest of
`Wanted`.  So the theorem needs that what came out is a front of what is wanted,
in every state (`AllComes`).  It follows from `Framed`, in three steps.
`ComposedParse` evaluates `ParseChecks` and `Std` on a line of a command and two
arguments, symbol by symbol, and `MessageHandled` and `LoginHandled` the handlers
on what comes of it: one line to the target or none, with a value of which a
client reads what was meant (`LineRead`, by `MeaningKept` and `TypedIsRead`).  By
induction over the typed lines, then, what is read of the answers to all of them,
one by one, is what is wanted (`WantedIsRead`).  And the lines that were handled
are a front of these, but for empty ones, of which nothing is read (`KeptRead`,
`ReadInFront`).  A turn delivers what is read of what it sent, or stutters
(`TurnIsStep`).

### Proxy

*Assumption.*  `ProxyAssumption`, for `TextsReadAsTyped` only: `None`, Python's absent
value, is no name and no text, a target is not empty, and "bob", the reader in
`ReadAsTyped`, is not the user's own account, whose texts miniirc_idc drops.

*Argument.*  Nothing in the state of the readers
excludes a second one, so the invariant adds how a main loop comes about: until
the init thread is done there is no login, hence no job (`NobodyBeforeInit`);
until the first 001 was handled the worker is idle and there is no main loop
(`NoneBefore001`); the worker starts one only while it flushes, and then there is
none yet (`NoneWhileFlushing`, `OneMain`).

`WelcomedFirst` is about a worker that takes whatever miniirc queued, on several
links one after the other.  `WelcomeInv` says why its first job is the 001: a
good link has left a job while none has been handled, and the first in the queue
is a 001 (`WelcomeQueued`); until the worker has flushed and welcomed, nothing was
shown (`NothingShownYet`); and if showing the welcome failed, the client is gone
and nothing can be shown afterwards (`NotShownNeverWill`).

`SentInOrder` follows a command through the socket, the queue, a thread's hand and
miniirc.  Its invariant names those places one by one, in order, since each step
moves the first of one place to the end of the place before; that a thread has
something in hand only while nothing older is in the queue is where `OneReader`
comes in.

`ReadAsTyped` is about every command that was read; by type correctness it is one
of `Commands`, and the rest is about `LinesFor` and `Messages`: the frame that
`send` takes from an action, four characters in all, is what `idc_message_parser`
puts around the text again (`ActionParts`, `ActionAgain`), and a channel's name
loses and gets its first character (`ChannelAgain`).

### HaxCurses

*Assumption.*  Of `ChatAssumption`, that `Capacity` is positive and, for the
conversations, that what others post are messages.  The proofs hold for both
programs, since they say nothing of when drawing fails.

*Argument.*  `PromptTruthful` is a promise for the states in which both threads
wait.  It is not inductive, because the main thread files several lines in a row;
`PromptRight` asks the same at every line of them.  `SeenIsShown` is what makes
`SentWherePromptSaid` true although messages come between a key and the lock: the
conversation that the prompt named is still the one shown, because filing a
message (`FiledKeepsNames`) renames, removes and moves none.  The indices need no
more than their own bounds (`ShownExists`).  An exception while drawing leaves a
prompt that still names a conversation and a thread that never waits again.

`ConversationsComplete` compares each conversation with what the server sent.
`AllFiled` splits that into what was filed and `OnItsWay`, the messages in the
link, in what `recv` returned and in the part of a line that waits for its rest;
filing one moves it from the one to the other and appends it to the conversation
of its peer and to no other.  It needs that a message is never cut in two lines
nor lost in an empty one (`Flowing`, `EndedAndRest`, `LinesKeepMessages`).

### Relay

*Assumption.*  `RelayAssumption`: nicks are texts and none is `None`, Python's
absence of one; the texts of what happens are told apart by their last symbols,
so that a text the bot posts can be traced to the one it repeats.

*Argument.*  What is posted on a network repeats what was said on the other one
(`PostsOK`), no two posts are the same, and what a handler is still to repeat is
not among them (`JobsOK`).  A text's own post ends with it, and no other post does
(`TextCarries`, `SuffixEnds`): hence a text is repeated once.  That the bot does
not repeat itself is due to miniirc_idc, which drops what its own user said
(`NothingRepeated`), and to the IRC network, which does not send it back.

### Ii

*Assumption.*  `IiAssumption`: the server's lines name channels other than the
master, and no channel has the name of one of the words that the model uses for
other lines, for the end of the connection, the socket or the null pointer.
PING_TIMEOUT and `Capacity` are positive.

*Argument.*  `ListWalkable` needs only that the list is a sequence of channels:
`AfterInList` has the saved `next` differ from the channel that is handled because
none is in the list twice, `WithoutIsRest` has `channel_rm` take out that one
alone, so `next` is still there.  `PrintedWhereNamed` needs `PrintedRight`: what
was printed elsewhere than on the master was printed after the master was freed,
and the master never comes back, as no line of the server names it.

`SentAsWritten` numbers the lines and parts that programs write.  `Sound` says of
each channel that the numbers sent and then those in its FIFO increase, that every
line written with its end and in time is among them, and that in the FIFO such a
line is followed by its end.  The last is why `read_line` never throws it away: it
throws away what has no end, which is parts only (`LossKeepsSound`,
`ClearKeepsSound`).  When the FIFO is closed, what came since that read is lost;
`NothingDue` says that all that is due of the channel has been sent by then, and
holds while any of it may be lost (`MayBeLost`): from the failing read until the
FIFO is open again, and when the channel is gone.

### Only model-checked

- Liveness (`QueueDrained`, `HandlerReturns`, `ReceivedIsHandled`,
  `LeavesWithClient`, `Bridged`, `InputRead`): the prover does not reach fairness.
- That the five violated properties are violated is TLC's to show.

## 5. Not modelled

- The copy `servers/py-trio-s2s` differs from py-trio-struct in one line of
  idc.py and in config.py; that config.py names users in `broadcast_to` that do
  not exist and the server stops at start-up with KeyError (idc.py line 79).
  With another config.py, what is shown of py-trio-struct would hold of it.
- haxcurses decodes each chunk of 1024 bytes alone (haxcurses.py lines 43-44), so
  that a character of several bytes which a chunk cuts arrives as lone bytes; the tokens
  of `HaxCurses` are not cut.  In a window of 30 columns, the form's message of 43
  characters would not fit either (line 321); `FormRefused` only shows it.
- Timestamps, labels, hostmasks, colours and logging; TLS, but for the exceptions
  of its streams; real cancellation (nothing cancels a task).  `IdcServer` leaves
  out passwords and texts, which `Commands` and `Wire` have.
- ii's login, file names and raw commands; the Python clients' keepalive.
- Whatever PROJECT.json lists as not modelled: pipes, stubs and echo servers have
  no state of their own, asyncserver.c and idcs.erl are experiments that nothing
  else in the repository uses.

## 6. Plan

Done: the models of section 2, their runs, and the proofs of section 4, which
state every invariant and action property that the runs check.

Left: the liveness properties, which stay with TLC, and the hazards that
PROJECT.json lists without a property.
