--------------------------------- MODULE Ii ---------------------------------
(***************************************************************************)
(* ii.c of idcit: a client of one process whose channels are directories.  *)
(* Programs write lines into a channel's FIFO, `in`, and ii sends them; ii *)
(* appends what comes from the server to a channel's file, `out`.  Its     *)
(* loop selects over the server's socket and the FIFOs of a linked list of *)
(* channels, which the handlers change.                                    *)
(***************************************************************************)
EXTENDS Integers, Sequences, SequencesExt

CONSTANTS
    Names,       \* the names of channels
    Master,      \* the one that main opens, channelmaster
    ServerLines, \* what may come from the server: "plain", "PING", or a
                 \* channel's name, and "EOF" if it may close the connection
    MaxWrites,   \* how many lines or parts programs write, a bound for TLC
    MaxReplies,  \* how many lines the server sends, a bound for TLC
    MaxIdle,     \* PING_TIMEOUT / tv_sec: idle selects before the timeout
    Capacity     \* how many lines each direction of the connection holds

ASSUME IiAssumption ==
    /\ Master \in Names /\ ServerLines \subseteq (Names \ {Master}) \cup {"plain", "PING", "EOF"}
    /\ Names \cap {"plain", "PING", "EOF", "socket", "NULL", "freed"} = {}
    /\ MaxIdle \in Nat \ {0} /\ Capacity \in Nat \ {0}

VARIABLES
    channels, \* the list, its head first; what is not in it has been freed
    loop,     \* where run is: which descriptors are ready, and the pointer c
    sending,  \* whether it is in ewritestr, the last thing a handler does
    idle,     \* idle selects since last_response; MaxIdle while that is 0
    fifo,     \* fifo[c]: what was written and not read
    hungup,   \* the FIFOs whose last writer left since they were opened
    usable,   \* the channels whose `in` can be opened
    writing,  \* the FIFOs that a program holds open, to write to them
    incoming, half, \* lines from the server, and whether one is incomplete
    outgoing, \* how many lines to the server it has not read
    written,  \* written[c]: for each write, whether it had an end and came in time
    sent,     \* sent[c]: the texts given to ewritestr for the channel
    replies,  \* how many lines the server sent
    out       \* which lines were printed to which channels

vars == <<channels, loop, sending, idle, fifo, hungup, usable, writing, incoming,
          half, outgoing, written, sent, replies, out>>
program == <<channels, loop, sending, idle, sent, out>>
outside == <<usable, writing, half, written, replies>>
server == <<incoming, half, outgoing, replies>>

NULL == "NULL"
Freed == "freed"
EOL == 0 \* the lines are numbered from 1
EOF == "EOF"
Listed == Range(channels)
Closed == EOF \in Range(incoming)
Selecting == [at |-> "select", ready |-> {}, c |-> NULL]
Server == "socket"

TypeOK ==
    /\ channels \in Seq(Names)
    /\ loop.at \in {"select", "server", "channels", "close", "open", "exited"}
    /\ loop.ready \subseteq Names \cup {Server}
    /\ sending \in BOOLEAN /\ outgoing \in 0 .. Capacity
    /\ idle \in 0 .. MaxIdle
    /\ hungup \cup usable \cup writing \subseteq Names

Init ==
    /\ channels = <<Master>>
    /\ loop = Selecting /\ sending = FALSE
    /\ idle = MaxIdle
    /\ fifo = [c \in Names |-> <<>>] /\ hungup = {} /\ usable = Names /\ writing = {}
    /\ incoming = <<>> /\ half = FALSE /\ outgoing = 0
    /\ written = [c \in Names |-> <<>>] /\ sent = [c \in Names |-> <<>>]
    /\ replies = 0 /\ out = {}

-----------------------------------------------------------------------------
(* run: one select.                                                        *)

At(place) == loop.at = place /\ ~sending
Exit == loop' = [Selecting EXCEPT !.at = "exited"]

Readable(c) == fifo[c] # <<>> \/ c \in hungup
ServerReadable == incoming # <<>> \/ half
Ready == {c \in Listed : Readable(c)} \cup {d \in {Server} : ServerReadable}

Select ==
    /\ At("select") /\ Ready # {}
    /\ loop' = [at |-> "server", ready |-> Ready, c |-> NULL]
    /\ UNCHANGED <<channels, sending, idle, fifo, hungup, incoming, outgoing, sent, out, outside>>

(* Nothing for 120 seconds: the timeout, or a PING is sent.  The timeout   *)
(* may come earlier than at the last such turn, when turns that only read  *)
(* FIFOs have taken time, too.                                             *)
IdleForEver ==
    /\ At("select") /\ Ready = {} /\ idle' = idle + 1 /\ sending' = TRUE
    /\ UNCHANGED <<channels, loop, fifo, hungup, incoming, outgoing, sent, out, outside>>
Idle ==
    /\ At("select") /\ Ready = {}
    /\ \/ Exit /\ UNCHANGED <<sending, idle>>
       \/ idle + 1 < MaxIdle /\ idle' = idle + 1 /\ sending' = TRUE /\ UNCHANGED loop
    /\ UNCHANGED <<channels, fifo, hungup, incoming, outgoing, sent, out, outside>>

(* ewritestr: the socket blocks, so write returns when the connection has  *)
(* room; to a server that has closed it, it may fail.                      *)
Written ==
    /\ sending /\ outgoing < Capacity
    /\ outgoing' = outgoing + 1 /\ sending' = FALSE
    /\ UNCHANGED <<channels, loop, idle, fifo, hungup, incoming, sent, out, outside>>

WriteFails ==
    /\ sending /\ Closed
    /\ Exit /\ sending' = FALSE
    /\ UNCHANGED <<channels, idle, fifo, hungup, incoming, outgoing, sent, out, outside>>

-----------------------------------------------------------------------------
(* handle_server_output: reads one line, which blocks until it is there.   *)

(* The new channel is the head of the list.                                *)
Joined(name) ==
    IF name \in Listed \/ name \notin usable THEN channels ELSE <<name>> \o channels

First == IF channels = <<>> THEN NULL ELSE channels[1]
PrintedToFirst(line, c) == out \cup {[line |-> line, on |-> First]}
Printed(line, c) == out \cup {[line |-> line, on |-> c]}

(* proc_server_cmd.  What it prints on a master that was freed is lost, or *)
(* ends the program, or lands in the file of another channel that has got  *)
(* its memory.                                                             *)
ServerCommand(line) ==
    /\ sending' = (line = "PING") \* a PONG
    /\ \/ line = "PING" /\ UNCHANGED <<channels, out>>
       \/ /\ line = "plain" /\ Master \in Listed
          /\ out' = Printed(line, Master) /\ UNCHANGED channels
       \/ /\ line = "plain" /\ Master \notin Listed
          /\ \E c \in Listed \cup {Freed} : out' = Printed(line, c)
          /\ UNCHANGED channels
       \/ /\ line \in Names
          /\ channels' = Joined(line)
          /\ out' = IF line \in Range(channels') THEN Printed(line, line) ELSE out

HandleServerOutput ==
    /\ At("server")
    /\ \/ Server \notin loop.ready /\ UNCHANGED <<channels, sending, idle, incoming, out>>
       \/ /\ Server \in loop.ready /\ incoming # <<>> /\ Head(incoming) # EOF
          /\ incoming' = Tail(incoming) /\ idle' = 0
          /\ ServerCommand(Head(incoming))
    /\ loop' = [loop EXCEPT !.at = "channels", !.c = First']
    /\ UNCHANGED <<fifo, hungup, outgoing, sent, outside>>

(* The connection ends before a line does.                                 *)
Disconnected ==
    /\ At("server") /\ Server \in loop.ready /\ incoming # <<>> /\ Head(incoming) = EOF
    /\ Exit
    /\ UNCHANGED <<channels, sending, idle, fifo, hungup, incoming, outgoing, sent, out, outside>>

Crash ==
    /\ At("server") /\ Server \in loop.ready /\ incoming # <<>>
    /\ Head(incoming) = "plain" /\ Master \notin Listed
    /\ Exit
    /\ UNCHANGED <<channels, sending, idle, fifo, hungup, incoming, outgoing, sent, out, outside>>

-----------------------------------------------------------------------------
(* The loop over the channels, one of them in each step or, when its FIFO  *)
(* is opened anew, in three: programs write meanwhile.                     *)

Place(list, c) == CHOOSE i \in DOMAIN list : list[i] = c
After(list, c) ==
    IF c \notin Range(list) THEN Freed
    ELSE IF c = Last(list) THEN NULL ELSE list[Place(list, c) + 1]

(* tmp = c->next, taken before c is handled.                               *)
NoOther(c) == NULL
NextAfterwards(c) == After(channels', c)
NextChannel(c) == After(channels, c)

(* read_line: what comes before the first EOL; without one it fails, and   *)
(* what it has read is gone.                                               *)
HasLine(c) == EOL \in Range(fifo[c])
LineLength(c) == SelectInSeq(fifo[c], LAMBDA x : x = EOL)
NoRest(c) == <<>>
Rest(c) == SubSeq(fifo[c], LineLength(c) + 1, Len(fifo[c]))

(* A line is sent unless it is empty.                                      *)
ReadsLine(c) ==
    /\ HasLine(c)
    /\ fifo' = [fifo EXCEPT ![c] = Rest(c)]
    /\ sending' = (LineLength(c) > 1)
    /\ sent' = IF LineLength(c) = 1 THEN sent
               ELSE [sent EXCEPT ![c] = Append(@, SubSeq(fifo[c], 1, LineLength(c) - 1))]
    /\ loop' = [loop EXCEPT !.c = NextChannel(c)]

ReadFails(c) ==
    /\ ~HasLine(c)
    /\ fifo' = [fifo EXCEPT ![c] = <<>>]
    /\ loop' = [loop EXCEPT !.at = "close"]
    /\ UNCHANGED <<sending, sent>>

HandleChannel ==
    /\ At("channels")
    /\ UNCHANGED <<channels, idle, hungup, incoming, outgoing, out, outside>>
    /\ \/ loop.c = NULL /\ loop' = Selecting /\ UNCHANGED <<sending, fifo, sent>>
       \/ loop.c \in loop.ready /\ (ReadsLine(loop.c) \/ ReadFails(loop.c))
       \/ /\ loop.c \notin loop.ready \cup {NULL}
          /\ loop' = [loop EXCEPT !.c = NextChannel(loop.c)]
          /\ UNCHANGED <<sending, fifo, sent>>

(* channel_reopen.  What is in a FIFO when its last end closes is lost.    *)
CloseFifo ==
    /\ loop.at = "close" /\ loop' = [loop EXCEPT !.at = "open"]
    /\ fifo' = IF loop.c \in writing THEN fifo ELSE [fifo EXCEPT ![loop.c] = <<>>]
    /\ UNCHANGED <<channels, sending, idle, hungup, incoming, outgoing, sent, out, outside>>

(* channel_open, or it fails and channel_rm frees c.                       *)
WithoutChannel(c) == RemoveAt(channels, Place(channels, c))
OpenFifo ==
    /\ loop.at = "open"
    /\ channels' = IF loop.c \in usable THEN channels ELSE WithoutChannel(loop.c)
    /\ hungup' = hungup \ {loop.c}
    /\ loop' = [loop EXCEPT !.at = "channels", !.c = NextChannel(loop.c)]
    /\ UNCHANGED <<sending, idle, fifo, incoming, outgoing, sent, out, outside>>

-----------------------------------------------------------------------------
(* Programs that write.  A FIFO whose other end is closed takes nothing:   *)
(* open waits, and write ends the program.                                 *)

Open(c) == c \in Listed /\ ~(loop.at = "open" /\ loop.c = c)
Late(c) == loop.at = "close" /\ loop.c = c

Number(c) == Len(written[c]) + 1
Writes == FoldFunction(LAMBDA lines, n : Len(lines) + n, 0, written)
Writable(c) == Open(c) /\ Writes < MaxWrites

(* A line up to PIPE_BUF comes at once.                                    *)
Write(c) ==
    /\ c \in usable /\ Writable(c)
    /\ fifo' = [fifo EXCEPT ![c] = @ \o <<Number(c), EOL>>]
    /\ hungup' = IF c \in writing THEN hungup ELSE hungup \cup {c}
    /\ written' = [written EXCEPT ![c] = Append(@, ~Late(c))]
    /\ UNCHANGED <<program, usable, writing, server>>

(* Another program takes its time, or its line is longer: the line comes   *)
(* in two parts, of which the first may be empty.                          *)
WriteBegins(c) ==
    /\ c \in usable \ writing /\ Writable(c)
    /\ writing' = writing \cup {c} /\ hungup' = hungup \ {c}
    /\ \/ UNCHANGED fifo
       \/ fifo' = [fifo EXCEPT ![c] = Append(@, Number(c))]
    /\ written' = [written EXCEPT ![c] = Append(@, FALSE)]
    /\ UNCHANGED <<program, usable, server>>

WriteEnds(c) ==
    /\ c \in writing /\ Writable(c)
    /\ writing' = writing \ {c} /\ hungup' = hungup \cup {c}
    /\ fifo' = [fifo EXCEPT ![c] = @ \o <<Number(c), EOL>>]
    /\ written' = [written EXCEPT ![c] = Append(@, ~Late(c))]
    /\ UNCHANGED <<program, usable, server>>

(* It ends without a line.                                                 *)
WriterLeaves(c) ==
    /\ c \in writing /\ writing' = writing \ {c}
    /\ IF Open(c) THEN hungup' = hungup \cup {c} /\ UNCHANGED fifo
       ELSE fifo' = [fifo EXCEPT ![c] = <<>>] /\ UNCHANGED hungup
    /\ UNCHANGED <<program, usable, written, server>>

(* Someone puts a file in place of a channel's `in`.                       *)
Obstruct(c) ==
    /\ c \in usable /\ usable' = usable \ {c}
    /\ UNCHANGED <<program, fifo, hungup, writing, written, server>>

-----------------------------------------------------------------------------
(* The server answers a line before it reads the next one, and its socket  *)
(* blocks, too.                                                            *)

ServerBegins ==
    /\ ~half /\ ~Closed /\ replies < MaxReplies /\ half' = TRUE
    /\ UNCHANGED <<program, fifo, hungup, usable, writing, incoming, outgoing, written, replies>>

ServerEnds ==
    /\ half /\ Len(incoming) < Capacity
    /\ half' = FALSE /\ replies' = replies + 1
    /\ \E line \in ServerLines \ {EOF} : incoming' = Append(incoming, line)
    /\ UNCHANGED <<program, fifo, hungup, usable, writing, outgoing, written>>

ServerReads ==
    /\ ~half /\ ~Closed /\ outgoing > 0 /\ outgoing' = outgoing - 1
    /\ UNCHANGED <<program, fifo, hungup, usable, writing, incoming, half, written, replies>>

(* What it has begun to send is not ended.                                 *)
ServerCloses ==
    /\ EOF \in ServerLines /\ ~Closed
    /\ incoming' = Append(incoming, EOF) /\ half' = FALSE
    /\ UNCHANGED <<program, fifo, hungup, usable, writing, outgoing, written, replies>>

Run ==
    \/ Select \/ Written \/ WriteFails \/ HandleServerOutput \/ Disconnected
    \/ HandleChannel \/ CloseFifo \/ OpenFifo
Programs == \E c \in Names :
    Write(c) \/ WriteBegins(c) \/ WriteEnds(c) \/ WriterLeaves(c) \/ Obstruct(c)
Serving == ServerEnds \/ ServerReads
Next ==
    /\ loop.at # "exited"
    /\ Run \/ Idle \/ Crash \/ Programs \/ ServerBegins \/ Serving \/ ServerCloses

Spec == Init /\ [][Next]_vars

(* The process runs, and a server ends the line it began and reads.        *)
FairSpec == Spec /\ WF_vars(loop.at # "exited" /\ Run) /\ WF_vars(loop.at # "exited" /\ Serving)

-----------------------------------------------------------------------------
(* The list is sound whenever the loops walk it: no channel is in it       *)
(* twice, and the pointer of the loop is in it, although handlers add a    *)
(* head and free the channel that is handled.                              *)
ListWalkable ==
    /\ IsInjective(channels)
    /\ loop.c \in Listed \cup {NULL}

(* What is sent for a channel is what was written to it, once and in       *)
(* order.  What was written with its end is sent or still there, also when *)
(* others are written in parts and lost - unless its channel was freed, or *)
(* it came between a read that failed and the close (ii.c:698, 217), which *)
(* is the only time at which a whole line is lost.                         *)
Numbers(text) ==
    FlattenSeq([i \in DOMAIN text |-> IF text[i] = EOL THEN <<>> ELSE <<text[i]>>])
SentAsWritten ==
    \A c \in Names :
        LET numbers == FlattenSeq(sent[c]) \o Numbers(fifo[c])
        IN  /\ \A i, j \in DOMAIN numbers : i < j => numbers[i] < numbers[j]
            /\ c \in Listed =>
                  {i \in DOMAIN written[c] : written[c][i]} \subseteq Range(numbers)

(* A line of the server is printed to the channel it names, which it may   *)
(* create, and to no other; a line that names none to the master while     *)
(* that has not been freed.                                                *)
PrintedWhereNamed ==
    \A p \in out :
        /\ p.line \in Names => p.on = p.line
        /\ p.line = "plain" /\ Master \in Listed => p.on = Master

(* ii waits for room in one direction of the connection and the server in  *)
(* the other, for ever unless the server closes it.                        *)
Stuck ==
    /\ sending /\ outgoing = Capacity
    /\ half /\ Len(incoming) = Capacity

(* A line in a FIFO is read: the one line that the loop reads from each    *)
(* ready channel does not starve any, the server's half lines and a full   *)
(* connection hold the loop up only for a while - unless both directions   *)
(* are full, with ii and the server waiting for each other.                *)
InputRead ==
    \A c \in Names : (c \in Listed /\ fifo[c] # <<>>)
        ~> (fifo[c] = <<>> \/ c \notin Listed \/ loop.at = "exited" \/ Stuck)
=============================================================================
