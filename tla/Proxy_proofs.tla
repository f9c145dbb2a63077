---------------------------- MODULE Proxy_proofs ----------------------------
(***************************************************************************)
(* Type correctness of Proxy, that one thread at a time reads the IRC      *)
(* client, that the client is welcomed before anything else, that its      *)
(* commands are sent in the order in which they were typed, and that its   *)
(* texts are read as they were typed, for any commands, any replies and    *)
(* any number of logins.                                                   *)
(***************************************************************************)
EXTENDS Proxy, SequenceLemmas, TLAPS

(* Why the threads never overlap.  Until the init thread is done there is  *)
(* no login and so no job; the worker starts a main loop only while it     *)
(* flushes, for the first 001, and before that there was none.             *)
NobodyBeforeInit == init # "done" => link = "none" /\ jobs = <<>> /\ ~got001
NoneBefore001 == ~got001 => main = <<>> /\ worker = "idle"
NoneWhileFlushing == worker = "flush" => main = <<>>
OneMain == Len(main) <= 1

IInv == TypeOK /\ NobodyBeforeInit /\ NoneBefore001 /\ NoneWhileFlushing /\ OneMain

LEMMA InitIInv == Init => IInv
<1>1. \A S : <<>> \in Seq(S) /\ Len(<<>>) = 0
  OBVIOUS
<1>2. Init => TypeOK
  <2> SUFFICES ASSUME Init PROVE TypeOK
    OBVIOUS
  <2>1. taken \in 0 .. Len(typed)
    BY <1>1 DEF Init
  <2> QED
    BY <1>1, <2>1 DEF Init, TypeOK
<1>3. Init => OneMain
  BY <1>1 DEF Init, OneMain
<1> QED
  BY <1>2, <1>3 DEF Init, IInv, NobodyBeforeInit, NoneBefore001, NoneWhileFlushing

(* The command that recv returns is one that was typed.                    *)
LEMMA NextIsCommand ==
    ASSUME TypeOK, Unread
    PROVE  Next1 \in Commands /\ taken + 1 \in 0 .. Len(typed)
  BY DEF TypeOK, Unread, Next1

(* Steps that leave the main loops and what starts them alone.             *)
Quiet == UNCHANGED <<init, sendq, got001, main, worker>>

LEMMA QuietKeeps ==
    ASSUME IInv, Quiet,
           typed' \in Seq(Commands), taken' \in 0 .. Len(typed'),
           client' \in {"up", "down", "gone"},
           link' \in {"none", "login", "good", "refused", "lost", "closed"},
           init # "done" => link' = "none" /\ jobs' = <<>>
    PROVE  IInv'
  BY DEF Quiet, IInv, TypeOK, NobodyBeforeInit, NoneBefore001, NoneWhileFlushing, OneMain

LEMMA InitThreadKeeps == ASSUME IInv, InitThread PROVE IInv'
<1>1. main = <<>> /\ worker = "idle" /\ ~got001 /\ link = "none" /\ jobs = <<>>
  BY DEF InitThread, IInv, NobodyBeforeInit, NoneBefore001
<1>2. CASE Unread /\ taken' = taken + 1
           /\ sendq' = (IF IsNick(Next1) \/ IsUser(Next1) THEN sendq ELSE Queued(Next1))
           /\ init' = Missing(Next1)
           /\ link' = (IF init' = "done" THEN "login" ELSE link)
  <2>1. Next1 \in Commands /\ taken' \in 0 .. Len(typed)
    BY <1>2, NextIsCommand DEF IInv
  <2>2. sendq' \in Seq(Commands)
    BY <1>2, <2>1 DEF IInv, TypeOK, Queued
  <2>3. init' \in {"both", "nick", "user", "done"}
    BY <1>2 DEF InitThread, Missing
  <2> QED
    BY <1>1, <1>2, <2>1, <2>2, <2>3
    DEF InitThread, IInv, TypeOK, NobodyBeforeInit, NoneBefore001, NoneWhileFlushing, OneMain
<1>3. CASE Eof /\ init' = "dead" /\ UNCHANGED <<taken, sendq, link>>
  BY <1>1, <1>3
  DEF InitThread, IInv, TypeOK, NobodyBeforeInit, NoneBefore001, NoneWhileFlushing, OneMain
<1> QED
  BY <1>2, <1>3 DEF InitThread

(* What a main loop does keeps their number and their type.                *)
MainsTypeOK(mains) ==
    mains \in Seq([at : {"recv", "held", "done", "crashed"}, cmd : Commands \cup {NoCommand}])

LEMMA MainKeeps ==
    ASSUME IInv, NEW m \in DOMAIN main,
           MainsTypeOK(main'), Len(main') = Len(main),
           UNCHANGED <<typed, client, init, sendq, got001, worker, jobs>>,
           taken' \in 0 .. Len(typed), link' = link \/ Disconnect
    PROVE  IInv'
<1>1. main # <<>> /\ init = "done" /\ got001 /\ worker # "flush"
  BY DEF IInv, TypeOK, NoneBefore001, NoneWhileFlushing
<1> QED
  BY <1>1
  DEF MainsTypeOK, Disconnect, IInv, TypeOK, NobodyBeforeInit, NoneBefore001,
      NoneWhileFlushing, OneMain

LEMMA MainRecvKeeps == ASSUME IInv, NEW m \in DOMAIN main, MainRecv(m) PROVE IInv'
<1>1. MainsTypeOK(main) /\ taken \in 0 .. Len(typed)
  BY DEF IInv, TypeOK, MainsTypeOK
<1>2. CASE Unread /\ taken' = taken + 1
           /\ main' = [main EXCEPT ![m] = [at |-> "held", cmd |-> Next1]] /\ UNCHANGED link
  <2>1. Next1 \in Commands /\ taken' \in 0 .. Len(typed)
    BY <1>2, NextIsCommand DEF IInv
  <2>2. MainsTypeOK(main') /\ Len(main') = Len(main)
    BY <1>1, <1>2, <2>1 DEF MainsTypeOK
  <2> QED
    BY <1>2, <2>1, <2>2, MainKeeps DEF MainRecv
<1>3. CASE Eof /\ main' = [main EXCEPT ![m].at = "done"] /\ Disconnect /\ UNCHANGED taken
  <2> DEFINE Mains == [at : {"recv", "held", "done", "crashed"}, cmd : Commands \cup {NoCommand}]
  <2>0. main[m] \in Mains
    BY <1>1, ElementType DEF MainsTypeOK
  <2>1. \A r \in Mains : [r EXCEPT !.at = "done"] \in Mains
    OBVIOUS
  <2>2. main' = [main EXCEPT ![m] = [main[m] EXCEPT !.at = "done"]]
    BY <1>3
  <2>3. MainsTypeOK(main') /\ Len(main') = Len(main)
    BY <1>1, <2>0, <2>1, <2>2 DEF MainsTypeOK
  <2> QED
    BY <1>1, <1>3, <2>3, MainKeeps DEF MainRecv
<1> QED
  BY <1>2, <1>3 DEF MainRecv

LEMMA MainSendKeeps == ASSUME IInv, NEW m \in DOMAIN main, MainSend(m) PROVE IInv'
<1>1. MainsTypeOK(main) /\ taken \in 0 .. Len(typed)
  BY DEF IInv, TypeOK, MainsTypeOK
<1>2. \E at \in {"recv", "crashed"} :
          main' = [main EXCEPT ![m] = [at |-> at, cmd |-> NoCommand]]
  BY DEF MainSend, Reading
<1>3. MainsTypeOK(main') /\ Len(main') = Len(main)
  BY <1>1, <1>2 DEF MainsTypeOK
<1> QED
  BY <1>1, <1>3, MainKeeps DEF MainSend

(* Showing a message changes the client and the link at most.              *)
LEMMA ShowChanges ==
    ASSUME IInv, NEW msg, Show(msg)
    PROVE  client' \in {"up", "down", "gone"} /\ link' \in {link, "closed"}
  BY DEF Show, Disconnect, IInv, TypeOK

LEMMA TakeJobKeeps == ASSUME IInv, TakeJob PROVE IInv'
<1>1. init = "done" /\ jobs # <<>> /\ worker \in {"idle", "aborted"}
  BY DEF TakeJob, IInv, NobodyBeforeInit
<1>2. /\ UNCHANGED <<typed, taken, init, sendq, main>>
      /\ \/ UNCHANGED <<worker, got001, client, link>>
         \/ got001 = FALSE /\ got001' = TRUE /\ worker' = "flush" /\ UNCHANGED <<client, link>>
         \/ UNCHANGED <<worker, got001>> /\ \E msg : Show(msg)
  BY DEF TakeJob, Ignored, IInv, TypeOK
<1>3. CASE got001 = FALSE /\ got001' = TRUE /\ worker' = "flush" /\ UNCHANGED <<client, link>>
  BY <1>1, <1>2, <1>3
  DEF IInv, TypeOK, NobodyBeforeInit, NoneBefore001, NoneWhileFlushing, OneMain
<1>4. CASE UNCHANGED <<worker, got001>> /\ client' \in {"up", "down", "gone"}
           /\ link' \in {link, "closed"}
  BY <1>1, <1>2, <1>4
  DEF IInv, TypeOK, NobodyBeforeInit, NoneBefore001, NoneWhileFlushing, OneMain
<1> QED
  BY <1>2, <1>3, <1>4, ShowChanges DEF IInv, TypeOK

LEMMA FlushKeeps == ASSUME IInv, Flush PROVE IInv'
<1>1. worker = "flush" /\ main = <<>> /\ got001 /\ init = "done"
  BY DEF Flush, IInv, NobodyBeforeInit, NoneBefore001, NoneWhileFlushing
<1>2. CASE ~AllSent /\ sendq' = Tail(sendq) /\ worker' \in {"flush", "aborted"} /\ UNCHANGED main
  <2>1. sendq' \in Seq(Commands)
    BY <1>2 DEF AllSent, IInv, TypeOK
  <2> QED
    BY <1>1, <1>2, <2>1
    DEF Flush, IInv, TypeOK, NobodyBeforeInit, NoneBefore001, NoneWhileFlushing, OneMain
<1>3. CASE AllSent /\ main' = Append(main, Reading) /\ worker' = "welcome" /\ UNCHANGED sendq
  <2>1. MainsTypeOK(main') /\ Len(main') = 1
    BY <1>1, <1>3 DEF MainsTypeOK, Reading
  <2> QED
    BY <1>1, <1>3, <2>1
    DEF Flush, AllSent, MainsTypeOK, IInv, TypeOK, NobodyBeforeInit, NoneBefore001,
        NoneWhileFlushing, OneMain
<1> QED
  BY <1>1, <1>2, <1>3 DEF Flush

LEMMA WelcomeKeeps == ASSUME IInv, Welcome PROVE IInv'
<1>1. client' \in {"up", "down", "gone"} /\ link' \in {link, "closed"}
  BY ShowChanges DEF Welcome
<1>2. init = "done" /\ got001
  BY DEF Welcome, IInv, NobodyBeforeInit, NoneBefore001
<1> QED
  BY <1>1, <1>2
  DEF Welcome, IInv, TypeOK, NobodyBeforeInit, NoneBefore001, NoneWhileFlushing, OneMain

LEMMA StepKeepsIInv == ASSUME IInv, [Next]_vars PROVE IInv'
<1> USE DEF Quiet
<1>0. /\ typed \in Seq(Commands) /\ taken \in 0 .. Len(typed)
      /\ client \in {"up", "down", "gone"}
      /\ link \in {"none", "login", "good", "refused", "lost", "closed"}
      /\ init # "done" => link = "none" /\ jobs = <<>>
  BY DEF IInv, TypeOK, NobodyBeforeInit
<1>1. CASE Type
  <2>1. typed' \in Seq(Commands) /\ taken' \in 0 .. Len(typed')
    BY <1>0, <1>1 DEF Type
  <2> QED
    BY <1>0, <1>1, <2>1, QuietKeeps DEF Type, counters
<1>2. CASE ClientLeaves
  BY <1>0, <1>2, QuietKeeps DEF ClientLeaves, counters
<1>3. CASE InitThread
  BY <1>3, InitThreadKeeps
<1>4. CASE MainLoop
  BY <1>4, MainRecvKeeps, MainSendKeeps DEF MainLoop
<1>5. CASE Worker
  BY <1>5, TakeJobKeeps, FlushKeeps, WelcomeKeeps DEF Worker
<1>6. CASE Server
  BY <1>0, <1>6, QuietKeeps DEF Server, ServerAnswersLogin, Reconnect, counters
<1>7. CASE ServerSends
  BY <1>0, <1>7, QuietKeeps DEF ServerSends, counters
<1>8. CASE ServerCloses
  BY <1>0, <1>8, QuietKeeps DEF ServerCloses, counters
<1>9. CASE UNCHANGED vars
  BY <1>0, <1>9, QuietKeeps DEF vars
<1> QED
  BY <1>1, <1>2, <1>3, <1>4, <1>5, <1>6, <1>7, <1>8, <1>9 DEF Next, Ended

LEMMA IInvAlways == Spec => []IInv
  BY InitIInv, StepKeepsIInv, PTL DEF Spec

(* The state of every thread is one the program knows, and commands wait   *)
(* in the queue only while there is no main loop.                          *)
THEOREM ProxyTypeCorrect == Spec => []TypeOK
<1>1. IInv => TypeOK
  BY DEF IInv
<1> QED
  BY <1>1, IInvAlways, PTL

(* At most one thread reads the client's socket and _buffer, although      *)
(* _main_lock is never set, however often miniirc logs in again: the flag  *)
(* _001 alone keeps a second main loop from starting (proxy.py:62-79).     *)
THEOREM OneReaderAtATime == Spec => []OneReader
<1>1. ASSUME IInv PROVE OneReader
  <2>1. \A m, n \in DOMAIN main : m = n
    BY <1>1 DEF IInv, TypeOK, OneMain
  <2>2. init \in {"both", "nick", "user"} => main = <<>>
    BY <1>1 DEF IInv, TypeOK
  <2> QED
    BY <2>1, <2>2 DEF OneReader, Readers
<1> QED
  BY <1>1, IInvAlways, PTL

-----------------------------------------------------------------------------
(* The welcome.  The first job that the worker ever takes is that of a     *)
(* 001, and a good link has left one: the server's other lines come after  *)
(* it on that link, and a new login only adds to the queue.  From then on  *)
(* got001 has every other 001 ignored, and the one thread that could show  *)
(* something, the worker, shows the welcome before it takes another job;   *)
(* if that fails, nothing can be shown any more.                           *)

IsWelcome(job) == job.handler = "_miniirc_handler" /\ job.msg.cmd = "001"

WelcomeQueued ==
    ~got001 =>
        /\ IsSeq(jobs)
        /\ jobs # <<>> => IsWelcome(jobs[1])
        /\ link = "good" => jobs # <<>>

NothingShownYet == (~got001 \/ worker \in {"flush", "welcome"}) => shown = <<>>
AbortedLate == worker = "aborted" => got001
NotShownNeverWill == got001 /\ worker = "idle" /\ shown = <<>> => client = "gone"

WelcomeInv ==
    /\ IsSeq(shown) /\ got001 \in BOOLEAN
    /\ worker \in {"idle", "flush", "welcome", "aborted"}
    /\ WelcomeQueued /\ NothingShownYet /\ AbortedLate /\ NotShownNeverWill
    /\ WelcomedFirst

LEMMA InitWelcome == Init => WelcomeInv
  BY EmptyIsSeq
  DEF Init, WelcomeInv, WelcomeQueued, NothingShownYet, AbortedLate, NotShownNeverWill,
      WelcomedFirst

(* What miniirc makes of the server's answer to a login.                   *)
WelcomeMessage == Irc("001", <<>>, <<Me, <<"Welcome">>>>)

LEMMA WelcomeOfLogin ==
    /\ Messages(Idc("LOGIN_GOOD"), Me, FALSE) = <<WelcomeMessage>>
    /\ JobsFor(Idc("LOGIN_GOOD")) = <<Job("_miniirc_handler", WelcomeMessage)>>
<1>1. Idc("LOGIN_GOOD").cmd = "LOGIN_GOOD"
  BY DEF Idc
<1>2. Messages(Idc("LOGIN_GOOD"), Me, FALSE) = <<WelcomeMessage>>
  BY <1>1 DEF Messages, Complete, Dropped, WelcomeMessage
<1>3. <<WelcomeMessage>> # <<>> /\ <<WelcomeMessage>>[1] = WelcomeMessage
  OBVIOUS
<1>4. JobsFor(Idc("LOGIN_GOOD")) = <<>> \o <<Job("_miniirc_handler", WelcomeMessage)>>
  BY <1>1, <1>2, <1>3 DEF JobsFor
<1> DEFINE j == Job("_miniirc_handler", WelcomeMessage)
<1> HIDE DEF j
<1>5. <<j>> \in Seq({j})
  OBVIOUS
<1>6. <<>> \o <<j>> = <<j>>
  BY <1>5
<1> QED
  BY <1>2, <1>4, <1>6 DEF j

LEMMA JobsAreSeq == ASSUME NEW reply PROVE IsSeq(JobsFor(reply))
<1> DEFINE msgs == Messages(reply, Me, FALSE)
           a == IF reply.cmd = "JOIN" THEN <<Job("_parse_join", msgs[1])>> ELSE <<>>
           b == <<Job("_miniirc_handler", msgs[1])>>
<1>1. IsSeq(a)
  BY SingleIsSeq, EmptyIsSeq
<1>2. IsSeq(b)
  BY SingleIsSeq
<1>3. JobsFor(reply) = IF msgs = <<>> THEN <<>> ELSE a \o b
  BY DEF JobsFor
<1> HIDE DEF a, b, msgs
<1> QED
  BY <1>1, <1>2, <1>3, JoinIsSeq, EmptyIsSeq

(* Jobs that come later do not get before the welcome.                     *)
LEMMA LaterJobs ==
    ASSUME NEW more, IsSeq(more), IsSeq(jobs), jobs # <<>>
    PROVE  IsSeq(jobs \o more) /\ jobs \o more # <<>> /\ (jobs \o more)[1] = jobs[1]
<1>1. /\ IsSeq(jobs \o more)
      /\ \A i \in DOMAIN jobs : i \in DOMAIN (jobs \o more) /\ (jobs \o more)[i] = jobs[i]
  BY JoinIsSeq
<1>2. 1 \in DOMAIN jobs
  BY DEF IsSeq
<1>3. jobs \o more # <<>>
  BY <1>1, <1>2, EmptyIsSeq
<1> QED
  BY <1>1, <1>2, <1>3

(* Steps that show nothing, queue nothing and leave the worker alone.      *)
LEMMA WelcomeUntouched ==
    ASSUME WelcomeInv, UNCHANGED <<got001, worker, jobs, shown>>,
           link' = "good" => link = "good", client = "gone" => client' = "gone"
    PROVE  WelcomeInv'
  BY DEF WelcomeInv, WelcomeQueued, NothingShownYet, AbortedLate, NotShownNeverWill,
         WelcomedFirst, IsWelcome, IsSeq

LEMMA ServerKeepsWelcome ==
    ASSUME WelcomeInv, Server \/ ServerSends \/ ServerCloses
    PROVE  WelcomeInv'
<1>1. UNCHANGED <<got001, worker, shown, client>>
  BY DEF Server, ServerAnswersLogin, Reconnect, ServerSends, ServerCloses
<1>2. WelcomeQueued'
  <2> SUFFICES ASSUME ~got001
               PROVE  /\ IsSeq(jobs')
                      /\ jobs' # <<>> => IsWelcome(jobs'[1])
                      /\ link' = "good" => jobs' # <<>>
    BY <1>1 DEF WelcomeQueued
  <2>1. /\ IsSeq(jobs)
        /\ jobs # <<>> => IsWelcome(jobs[1])
        /\ link = "good" => jobs # <<>>
    BY DEF WelcomeInv, WelcomeQueued
  <2>2. CASE jobs' = jobs \o JobsFor(Idc("LOGIN_GOOD"))
    <3> DEFINE j == Job("_miniirc_handler", WelcomeMessage)
    <3>1. IsWelcome(j)
      BY DEF IsWelcome, Job, WelcomeMessage, Irc
    <3> HIDE DEF j
    <3>2. jobs' = jobs \o <<j>> /\ IsSeq(<<j>>)
      BY <2>2, WelcomeOfLogin, SingleIsSeq DEF j
    <3>3. CASE jobs = <<>>
      <4>1. <<j>> \in Seq({j}) /\ <<>> \o <<j>> = <<j>>
        OBVIOUS
      <4>2. jobs' = <<j>>
        BY <3>2, <3>3, <4>1
      <4>3. <<j>> # <<>> /\ <<j>>[1] = j
        OBVIOUS
      <4> QED
        BY <3>1, <3>2, <4>2, <4>3
    <3>4. CASE jobs # <<>>
      BY <2>1, <3>2, <3>4, LaterJobs
    <3> QED
      BY <3>3, <3>4
  <2>3. CASE link = "good" /\ \E reply \in Replies : jobs' = jobs \o JobsFor(reply)
    BY <2>1, <2>3, JobsAreSeq, LaterJobs
  <2>4. CASE jobs' = jobs /\ link' # "good"
    BY <2>1, <2>4
  <2> QED
    BY <2>2, <2>3, <2>4
    DEF Server, ServerAnswersLogin, Reconnect, ServerSends, ServerCloses
<1> QED
  BY <1>1, <1>2
  DEF WelcomeInv, NothingShownYet, AbortedLate, NotShownNeverWill, WelcomedFirst, IsSeq

(* One more message behind the welcome.                                    *)
LEMMA ShownLonger ==
    ASSUME NEW msg, IsSeq(shown), shown' = Append(shown, msg)
    PROVE  /\ IsSeq(shown') /\ shown' # <<>>
           /\ shown = <<>> => shown'[1] = msg /\ DOMAIN shown' = {1}
           /\ shown # <<>> /\ WelcomedFirst /\ worker # "aborted" /\ msg.cmd # "001" =>
                 /\ shown'[1].cmd = "001"
                 /\ \A i \in DOMAIN shown' : shown'[i].cmd = "001" => i = 1
<1>1. /\ IsSeq(shown') /\ Len(shown) \in Nat
      /\ DOMAIN shown = 1 .. Len(shown) /\ DOMAIN shown' = 1 .. Len(shown) + 1
      /\ \A i \in DOMAIN shown : shown'[i] = shown[i]
      /\ shown'[Len(shown) + 1] = msg
  BY AppendIsSeq
<1>2. shown' # <<>>
  BY <1>1, EmptyIsSeq
<1>3. ASSUME shown = <<>> PROVE shown'[1] = msg /\ DOMAIN shown' = {1}
  BY <1>1, <1>3, EmptyIsSeq
<1>4. ASSUME shown # <<>>, WelcomedFirst, worker # "aborted", msg.cmd # "001"
      PROVE  /\ shown'[1].cmd = "001"
             /\ \A i \in DOMAIN shown' : shown'[i].cmd = "001" => i = 1
  <2>1. 1 \in DOMAIN shown
    BY <1>4 DEF IsSeq
  <2>2. shown[1].cmd = "001" /\ \A i \in DOMAIN shown : shown[i].cmd = "001" => i = 1
    BY <1>4 DEF WelcomedFirst
  <2>3. \A i \in DOMAIN shown' : i \in DOMAIN shown \/ i = Len(shown) + 1
    BY <1>1
  <2> QED
    BY <1>1, <1>4, <2>1, <2>2, <2>3
<1> QED
  BY <1>1, <1>2, <1>3, <1>4

LEMMA TakeJobKeepsWelcome == ASSUME WelcomeInv, TakeJob PROVE WelcomeInv'
<1>1. worker \in {"idle", "aborted"} /\ jobs # <<>>
  BY DEF TakeJob
<1>2. PICK j \in {1} :
         \/ /\ jobs[j].handler = "_parse_join"
            /\ UNCHANGED <<worker, got001, shown, client>>
         \/ /\ jobs[j].handler = "_miniirc_handler" /\ Ignored(jobs[j].msg)
            /\ UNCHANGED <<worker, got001, shown, client>>
         \/ /\ jobs[j].handler = "_miniirc_handler" /\ ~Ignored(jobs[j].msg)
            /\ jobs[j].msg.cmd = "001"
            /\ got001' = TRUE /\ worker' = "flush" /\ UNCHANGED <<shown, client>>
         \/ /\ jobs[j].handler = "_miniirc_handler" /\ ~Ignored(jobs[j].msg)
            /\ jobs[j].msg.cmd # "001"
            /\ Show(jobs[j].msg) /\ UNCHANGED <<worker, got001>>
  BY DEF TakeJob, FirstJob
<1>3. ~got001 => /\ jobs[j].handler = "_miniirc_handler" /\ ~Ignored(jobs[j].msg)
                 /\ jobs[j].msg.cmd = "001" /\ shown = <<>>
  BY <1>1 DEF WelcomeInv, WelcomeQueued, NothingShownYet, IsWelcome, Ignored
<1>4. CASE /\ jobs[j].handler = "_miniirc_handler" /\ ~Ignored(jobs[j].msg)
           /\ jobs[j].msg.cmd = "001"
           /\ got001' = TRUE /\ worker' = "flush" /\ UNCHANGED <<shown, client>>
  <2>1. ~got001 /\ shown = <<>>
    BY <1>3, <1>4 DEF Ignored, WelcomeInv
  <2> QED
    BY <1>4, <2>1, EmptyIsSeq
    DEF WelcomeInv, WelcomeQueued, NothingShownYet, AbortedLate, NotShownNeverWill,
        WelcomedFirst
<1>5. CASE got001 /\ UNCHANGED <<worker, got001, shown, client>>
  BY <1>5
  DEF WelcomeInv, WelcomeQueued, NothingShownYet, AbortedLate, NotShownNeverWill,
      WelcomedFirst, IsSeq
<1>6. CASE /\ got001 /\ jobs[j].msg.cmd # "001"
           /\ Show(jobs[j].msg) /\ UNCHANGED <<worker, got001>>
  <2>1. CASE client' = "gone" /\ UNCHANGED shown
    BY <1>1, <1>6, <2>1
    DEF WelcomeInv, WelcomeQueued, NothingShownYet, AbortedLate, NotShownNeverWill,
        WelcomedFirst, IsSeq
  <2>2. CASE client # "gone" /\ shown' = Append(shown, jobs[j].msg) /\ UNCHANGED client
    <3>1. worker = "idle" => shown # <<>> /\ WelcomedFirst
      BY <1>6, <2>2 DEF WelcomeInv, NotShownNeverWill
    <3>2. IsSeq(shown') /\ shown' # <<>>
      BY <2>2, ShownLonger DEF WelcomeInv
    <3>3. WelcomedFirst'
      <4>1. CASE worker = "aborted"
        BY <1>6, <4>1 DEF WelcomedFirst
      <4>2. CASE worker = "idle"
        <5>1. /\ shown'[1].cmd = "001"
              /\ \A i \in DOMAIN shown' : shown'[i].cmd = "001" => i = 1
          BY <1>6, <2>2, <3>1, <4>2, ShownLonger DEF WelcomeInv
        <5> QED
          BY <5>1 DEF WelcomedFirst
      <4> QED
        BY <1>1, <4>1, <4>2
    <3> QED
      BY <1>1, <1>6, <3>2, <3>3
      DEF WelcomeInv, WelcomeQueued, NothingShownYet, AbortedLate, NotShownNeverWill
  <2> QED
    BY <1>6, <2>1, <2>2 DEF Show
<1> QED
  BY <1>2, <1>3, <1>4, <1>5, <1>6 DEF WelcomeInv

LEMMA FlushKeepsWelcome == ASSUME WelcomeInv, IInv, Flush PROVE WelcomeInv'
<1>1. got001 /\ worker = "flush" /\ worker' \in {"flush", "welcome", "aborted"}
      /\ UNCHANGED <<got001, shown, client>>
  BY DEF Flush, IInv, NoneBefore001
<1> QED
  BY <1>1
  DEF WelcomeInv, WelcomeQueued, NothingShownYet, AbortedLate, NotShownNeverWill,
      WelcomedFirst, IsSeq

LEMMA WelcomeKeepsWelcome == ASSUME WelcomeInv, IInv, Welcome PROVE WelcomeInv'
<1>1. got001 /\ shown = <<>> /\ worker' = "idle" /\ got001' = got001
  BY DEF Welcome, IInv, NoneBefore001, WelcomeInv, NothingShownYet
<1>2. Show(WelcomeMessage)
  <2>1. <<WelcomeMessage>>[1] = WelcomeMessage
    OBVIOUS
  <2> QED
    BY <2>1, WelcomeOfLogin DEF Welcome
<1>3. CASE client' = "gone" /\ UNCHANGED shown
  BY <1>1, <1>3, EmptyIsSeq
  DEF WelcomeInv, WelcomeQueued, NothingShownYet, AbortedLate, NotShownNeverWill,
      WelcomedFirst
<1>4. CASE shown' = Append(shown, WelcomeMessage)
  <2>1. WelcomeMessage.cmd = "001"
    BY DEF WelcomeMessage, Irc
  <2>2. IsSeq(shown') /\ shown' # <<>> /\ shown'[1] = WelcomeMessage /\ DOMAIN shown' = {1}
    BY <1>1, <1>4, ShownLonger DEF WelcomeInv
  <2> QED
    BY <1>1, <2>1, <2>2
    DEF WelcomeInv, WelcomeQueued, NothingShownYet, AbortedLate, NotShownNeverWill,
        WelcomedFirst
<1> QED
  BY <1>2, <1>3, <1>4 DEF Show

LEMMA StepKeepsWelcome == ASSUME WelcomeInv, IInv, [Next]_vars PROVE WelcomeInv'
<1>1. CASE Type \/ ClientLeaves \/ InitThread
  <2>1. /\ UNCHANGED <<got001, worker, jobs, shown>>
        /\ link' = "good" => link = "good"
        /\ client = "gone" => client' = "gone"
    BY <1>1 DEF Type, ClientLeaves, InitThread
  <2> QED
    BY <2>1, WelcomeUntouched
<1>2. CASE MainLoop
  <2>1. /\ UNCHANGED <<got001, worker, jobs, shown, client>>
        /\ link' = "good" => link = "good"
    BY <1>2 DEF MainLoop, MainRecv, MainSend, Disconnect
  <2> QED
    BY <2>1, WelcomeUntouched
<1>3. CASE Worker
  BY <1>3, TakeJobKeepsWelcome, FlushKeepsWelcome, WelcomeKeepsWelcome DEF Worker
<1>4. CASE Server \/ ServerSends \/ ServerCloses
  BY <1>4, ServerKeepsWelcome
<1>5. CASE UNCHANGED vars
  BY <1>5, WelcomeUntouched DEF vars
<1> QED
  BY <1>1, <1>2, <1>3, <1>4, <1>5 DEF Next, Ended

(* The client is shown the welcome before anything else and only once,     *)
(* also when a link is lost between the login and the first job and        *)
(* miniirc logs in again, unless sending the queue failed                  *)
(* (proxy.py:62-79).                                                       *)
THEOREM WelcomedBeforeAll == Spec => []WelcomedFirst
<1>1. Init => WelcomeInv
  BY InitWelcome
<1>2. IInv /\ WelcomeInv /\ [Next]_vars => WelcomeInv'
  BY StepKeepsWelcome
<1>3. WelcomeInv => WelcomedFirst
  BY DEF WelcomeInv
<1> QED
  BY <1>1, <1>2, <1>3, IInvAlways, PTL DEF Spec

-----------------------------------------------------------------------------
(* The way of what the client types.  A command waits in the socket, in    *)
(* the queue or in the hand of a main loop; the threads that move it take  *)
(* the one that is next and put it where the ones before it have just      *)
(* left.  So what is on its way loses its first command only when that is  *)
(* sent, and the others (NICK and USER) are no texts.                      *)

TextOf(c) == IF c.cmd \in Texts /\ ~Malformed(c) THEN LinesFor(c) ELSE <<>>
TextFor == [c \in Commands |-> TextOf(c)]
TextRange == {TextLine(c) : c \in Commands}

LEMMA TextForType == Maps(TextFor, Commands, TextRange)
<1> SUFFICES ASSUME NEW c \in Commands PROVE TextOf(c) \in Seq(TextRange)
  BY DEF TextFor, Maps
<1>1. TextLine(c) \in TextRange
  BY DEF TextRange
<1>2. TextOf(c) = <<>> \/ TextOf(c) = <<TextLine(c)>>
  BY DEF TextOf, LinesFor
<1>3. \A S : <<>> \in Seq(S) /\ \A e \in S : <<e>> \in Seq(S)
  OBVIOUS
<1>4. <<>> \in Seq(TextRange) /\ <<TextLine(c)>> \in Seq(TextRange)
  BY <1>1, <1>3, Zenon
<1> QED
  BY <1>2, <1>4, Zenon

LEMMA TextLinesMap ==
    ASSUME NEW s \in Seq(Commands)
    PROVE  TextLines(s) = FlatMap(TextFor, s)
<1>1. [i \in DOMAIN s |-> TextOf(s[i])] = [i \in DOMAIN s |-> TextFor[s[i]]]
  BY ElementType DEF TextFor
<1> QED
  BY <1>1 DEF TextLines, FlatMap, TextOf

LEMMA TextLinesJoin ==
    ASSUME NEW s \in Seq(Commands), NEW t \in Seq(Commands)
    PROVE  /\ TextLines(s \o t) = TextLines(s) \o TextLines(t)
           /\ TextLines(s) \in Seq(TextRange)
<1>1. s \o t \in Seq(Commands)
  OBVIOUS
<1>2. /\ TextLines(s) = FlatMap(TextFor, s) /\ TextLines(t) = FlatMap(TextFor, t)
      /\ TextLines(s \o t) = FlatMap(TextFor, s \o t)
  BY <1>1, TextLinesMap, Zenon
<1>3. /\ FlatMap(TextFor, s \o t) = FlatMap(TextFor, s) \o FlatMap(TextFor, t)
      /\ FlatMap(TextFor, s) \in Seq(TextRange)
  BY TextForType, FlatMapJoin
<1> QED
  BY <1>2, <1>3, Zenon

LEMMA TextLinesOne ==
    ASSUME NEW c \in Commands
    PROVE  TextLines(<<c>>) = TextOf(c)
<1>1. <<c>> \in Seq(Commands)
  OBVIOUS
<1>2. TextLines(<<c>>) = FlatMap(TextFor, <<c>>) /\ FlatMap(TextFor, <<c>>) = TextFor[c]
  BY <1>1, TextLinesMap, FlatMapSingle, Zenon
<1>3. TextFor[c] = TextOf(c)
  BY DEF TextFor
<1> QED
  BY <1>2, <1>3, Zenon

(* The same of what was sent, whatever that is.                            *)
Kept(l) == IF l.cmd \in {"PRIVMSG", "CHANMSG"} THEN <<l>> ELSE <<>>

LEMMA TextsAmongJoin ==
    ASSUME NEW S, NEW s \in Seq(S), NEW t \in Seq(S)
    PROVE  TextsAmong(s \o t) = TextsAmong(s) \o TextsAmong(t)
<1> DEFINE f == [l \in S |-> Kept(l)]
<1>1. Maps(f, S, S)
  BY DEF Kept, Maps
<1>2. ASSUME NEW u \in Seq(S) PROVE TextsAmong(u) = FlatMap(f, u)
  <2>1. [i \in DOMAIN u |-> Kept(u[i])] = [i \in DOMAIN u |-> f[u[i]]]
    BY ElementType
  <2> QED
    BY <2>1 DEF TextsAmong, FlatMap, Kept
<1>3. s \o t \in Seq(S)
  OBVIOUS
<1> HIDE DEF f
<1>4. FlatMap(f, s \o t) = FlatMap(f, s) \o FlatMap(f, t) /\ FlatMap(f, s) \in Seq(S)
  BY <1>1, FlatMapJoin
<1>5. /\ TextsAmong(s) = FlatMap(f, s) /\ TextsAmong(t) = FlatMap(f, t)
      /\ TextsAmong(s \o t) = FlatMap(f, s \o t)
  BY <1>2, <1>3, Zenon
<1> QED
  BY <1>4, <1>5, Zenon

LEMMA TextsAmongFew ==
    /\ TextsAmong(<<>>) = <<>>
    /\ \A l : TextsAmong(<<l>>) = Kept(l)
<1>1. [i \in DOMAIN <<>> |-> Kept(<<>>[i])] = <<>>
  OBVIOUS
<1>2. ASSUME NEW l PROVE [i \in DOMAIN <<l>> |-> Kept(<<l>>[i])] = <<Kept(l)>>
  OBVIOUS
<1> QED
  BY <1>1, <1>2, FlattenEmpty, FlattenSingle DEF TextsAmong, Kept

(* What miniirc is given for a command holds the text of that command and  *)
(* no other.                                                               *)
LEMMA GivenText ==
    ASSUME NEW c \in Commands
    PROVE  IsSeq(GivenTo(c)) /\ TextsAmong(GivenTo(c)) = TextLines(<<c>>)
<1>1. TextLines(<<c>>) = TextOf(c)
  BY TextLinesOne
<1>2. CASE Blocked(c) \/ Malformed(c)
  <2>1. GivenTo(c) = <<>> /\ TextOf(c) = <<>>
    BY <1>2 DEF GivenTo, TextOf, Blocked, Texts
  <2> QED
    BY <1>1, <2>1, TextsAmongFew, EmptyIsSeq
<1>3. CASE ~Blocked(c) /\ ~Malformed(c) /\ c.cmd \in Texts
  <2>1. GivenTo(c) = LinesFor(c) /\ TextOf(c) = LinesFor(c)
    BY <1>3 DEF GivenTo, TextOf
  <2>2. LinesFor(c) = <<>> \/ LinesFor(c) = <<TextLine(c)>>
    BY <1>3 DEF LinesFor
  <2>3. TextLine(c).cmd \in {"PRIVMSG", "CHANMSG"}
    BY DEF TextLine, Idc
  <2> QED
    BY <1>1, <2>1, <2>2, <2>3, TextsAmongFew, EmptyIsSeq, SingleIsSeq DEF Kept
<1>4. CASE ~Blocked(c) /\ ~Malformed(c) /\ c.cmd \notin Texts
  <2>1. GivenTo(c) = LinesFor(c) /\ TextOf(c) = <<>>
    BY <1>4 DEF GivenTo, TextOf
  <2>2. \/ LinesFor(c) = <<>>
        \/ \E l : LinesFor(c) = <<l>> /\ l.cmd \in {"PING", "LOGIN"}
    BY <1>4 DEF LinesFor, Idc
  <2> QED
    BY <1>1, <2>1, <2>2, TextsAmongFew, EmptyIsSeq, SingleIsSeq DEF Kept
<1> QED
  BY <1>2, <1>3, <1>4

LEMMA SentMore ==
    ASSUME NEW c \in Commands, IsSeq(sent)
    PROVE  /\ IsSeq(sent \o GivenTo(c))
           /\ TextsAmong(sent \o GivenTo(c)) = TextsAmong(sent) \o TextOf(c)
<1>1. IsSeq(GivenTo(c)) /\ TextsAmong(GivenTo(c)) = TextOf(c)
  BY GivenText, TextLinesOne
<1> DEFINE g == GivenTo(c)
           S == {sent[i] : i \in DOMAIN sent} \cup {g[i] : i \in DOMAIN g}
<1>2. sent \in Seq(S) /\ g \in Seq(S)
  BY <1>1 DEF IsSeq
<1>3. IsSeq(sent \o g)
  BY <1>1, JoinIsSeq
<1> HIDE DEF S, g
<1>4. TextsAmong(sent \o g) = TextsAmong(sent) \o TextsAmong(g)
  BY <1>2, TextsAmongJoin
<1> QED
  BY <1>1, <1>3, <1>4 DEF g

(* What the client typed and nobody read yet.                              *)
Left(s, n) == SubSeq(s, n + 1, Len(s))

LEMMA LeftFacts ==
    ASSUME NEW s \in Seq(Commands), NEW n \in 0 .. Len(s)
    PROVE  /\ Left(s, n) \in Seq(Commands)
           /\ n < Len(s) => Left(s, n) = <<s[n + 1]>> \o Left(s, n + 1)
           /\ n < Len(s) => s[n + 1] \in Commands /\ n + 1 \in 0 .. Len(s)
<1>1. Left(s, n) \in Seq(Commands)
  BY DEF Left
<1>2. ASSUME n < Len(s) PROVE Left(s, n) = <<s[n + 1]>> \o Left(s, n + 1)
  BY <1>2 DEF Left
<1>3. ASSUME n < Len(s) PROVE s[n + 1] \in Commands /\ n + 1 \in 0 .. Len(s)
  BY <1>3
<1> QED
  BY <1>1, <1>2, <1>3

LEMMA LeftAppend ==
    ASSUME NEW s \in Seq(Commands), NEW n \in 0 .. Len(s), NEW e \in Commands
    PROVE  Left(Append(s, e), n) = Left(s, n) \o <<e>>
<1>0. Left(s, n) \in Seq(Commands)
  BY LeftFacts
<1>1. Len(s) \in Nat /\ n \in Nat /\ n <= Len(s)
  OBVIOUS
<1>2. Append(s, e) \in Seq(Commands) /\ Len(Append(s, e)) = Len(s) + 1
  OBVIOUS
<1>3. Append(s, e) = s \o <<e>> /\ <<e>> \in Seq(Commands)
  OBVIOUS
<1>4. /\ Left(Append(s, e), n) \in Seq(Commands)
      /\ Len(Left(Append(s, e), n)) = Len(s) + 1 - n
      /\ \A i \in 1 .. Len(s) + 1 - n : Left(Append(s, e), n)[i] = Append(s, e)[n + i]
  BY <1>1, <1>2 DEF Left
<1>5. /\ Len(Left(s, n)) = Len(s) - n
      /\ \A i \in 1 .. Len(s) - n : Left(s, n)[i] = s[n + i]
  BY <1>1 DEF Left
<1> HIDE DEF Left
<1>6. /\ Left(s, n) \o <<e>> \in Seq(Commands)
      /\ Len(Left(s, n) \o <<e>>) = Len(s) + 1 - n
  BY <1>0, <1>1, <1>3, <1>5
<1>7. ASSUME NEW i \in 1 .. Len(s) + 1 - n
      PROVE  (Left(s, n) \o <<e>>)[i] = Append(s, e)[n + i]
  <2>1. CASE i = Len(s) + 1 - n
    BY <1>0, <1>1, <1>5, <2>1
  <2>2. CASE i # Len(s) + 1 - n
    BY <1>0, <1>1, <1>5, <2>2
  <2> QED
    BY <2>1, <2>2
<1> DEFINE a == Left(Append(s, e), n)
           b == Left(s, n) \o <<e>>
<1>8. /\ a \in Seq(Commands) /\ b \in Seq(Commands) /\ Len(a) = Len(s) + 1 - n /\ Len(b) = Len(a)
      /\ \A i \in 1 .. Len(s) + 1 - n : a[i] = b[i]
  BY <1>4, <1>6, <1>7
<1> HIDE DEF a, b
<1>9. a = b
  BY <1>8
<1> QED
  BY <1>9 DEF a, b

(* The texts of what the main loop holds, and the inductive invariant: it  *)
(* names the places one by one, for each step moves something from one to  *)
(* the next.                                                               *)
Holding == main # <<>> /\ main[1].at = "held"
HeldTexts == IF Holding THEN TextOf(main[1].cmd) ELSE <<>>
SentInv ==
    /\ IsSeq(sent) /\ TextsAmong(sent) \in Seq(TextRange)
    /\ Holding => main[1].cmd \in Commands
    /\ TextLines(typed) =
           TextsAmong(sent) \o (TextLines(sendq) \o (HeldTexts \o TextLines(Left(typed, taken))))

(* Joining texts, for the steps of the invariant.                          *)
LEMMA TextsJoin ==
    /\ <<>> \in Seq(TextRange)
    /\ \A a, b \in Seq(TextRange) : a \o b \in Seq(TextRange)
    /\ \A a \in Seq(TextRange) : <<>> \o a = a /\ a \o <<>> = a
    /\ \A a, b, c \in Seq(TextRange) : (a \o b) \o c = a \o (b \o c)
<1>1. /\ \A a, b \in Seq(TextRange) : a \o b \in Seq(TextRange)
      /\ \A a, b, c \in Seq(TextRange) : (a \o b) \o c = a \o (b \o c)
  BY ConcatFacts
<1>2. \A S : <<>> \in Seq(S) /\ \A a \in Seq(S) : <<>> \o a = a /\ a \o <<>> = a
  OBVIOUS
<1> QED
  BY <1>1, <1>2, Zenon

LEMMA TextOfType ==
    ASSUME NEW c \in Commands
    PROVE  TextOf(c) \in Seq(TextRange) /\ TextLines(<<c>>) = TextOf(c)
<1>1. <<c>> \in Seq(Commands)
  OBVIOUS
<1> QED
  BY <1>1, TextLinesOne, TextLinesJoin

LEMMA InitSent == Init => SentInv
<1> SUFFICES ASSUME Init PROVE SentInv
  OBVIOUS
<1>1. TextLines(<<>>) = <<>>
  <2>1. <<>> \in Seq(Commands)
    OBVIOUS
  <2> QED
    BY <2>1, TextLinesMap, FlatMapEmpty
<1>2. typed = <<>> /\ sent = <<>> /\ sendq = <<>> /\ ~Holding /\ Left(typed, taken) = <<>>
  BY DEF Init, Holding, Left
<1>3. <<>> \o (<<>> \o (<<>> \o <<>>)) = <<>>
  OBVIOUS
<1> QED
  BY <1>1, <1>2, <1>3, TextsAmongFew, EmptyIsSeq, TextsJoin DEF SentInv, HeldTexts

(* The places one by one: what they hold is made of TextRange.             *)
LEMMA PlacesType ==
    ASSUME IInv, SentInv
    PROVE  /\ TextLines(typed) \in Seq(TextRange) /\ TextsAmong(sent) \in Seq(TextRange)
           /\ TextLines(sendq) \in Seq(TextRange) /\ HeldTexts \in Seq(TextRange)
           /\ TextLines(Left(typed, taken)) \in Seq(TextRange)
<1>1. /\ typed \in Seq(Commands) /\ sendq \in Seq(Commands) /\ Left(typed, taken) \in Seq(Commands)
  BY LeftFacts DEF IInv, TypeOK
<1>2. \A u \in Seq(Commands) : TextLines(u) \in Seq(TextRange)
  BY TextLinesJoin
<1>3. HeldTexts \in Seq(TextRange)
  BY TextOfType, TextsJoin DEF HeldTexts, SentInv
<1> QED
  BY <1>1, <1>2, <1>3 DEF SentInv

(* The next unread command leaves the socket.                              *)
LEMMA NextTaken ==
    ASSUME IInv, Unread
    PROVE  /\ Next1 \in Commands
           /\ Left(typed, taken) = <<Next1>> \o Left(typed, taken + 1)
           /\ TextLines(Left(typed, taken)) = TextOf(Next1) \o TextLines(Left(typed, taken + 1))
           /\ TextLines(Left(typed, taken + 1)) \in Seq(TextRange)
<1>1. typed \in Seq(Commands) /\ taken \in 0 .. Len(typed) /\ taken < Len(typed)
  BY DEF IInv, TypeOK, Unread
<1>2. /\ Next1 \in Commands
      /\ Left(typed, taken) = <<Next1>> \o Left(typed, taken + 1)
      /\ Left(typed, taken + 1) \in Seq(Commands)
  BY <1>1, LeftFacts DEF Next1
<1>3. <<Next1>> \in Seq(Commands)
  BY <1>2
<1>4. /\ TextLines(<<Next1>> \o Left(typed, taken + 1)) =
             TextLines(<<Next1>>) \o TextLines(Left(typed, taken + 1))
      /\ TextLines(Left(typed, taken + 1)) \in Seq(TextRange)
  BY <1>2, <1>3, TextLinesJoin
<1>5. TextLines(<<Next1>>) = TextOf(Next1)
  BY <1>2, TextLinesOne
<1> QED
  BY <1>2, <1>4, <1>5, Zenon

LEMMA SentUntouched ==
    ASSUME SentInv, UNCHANGED <<typed, taken, sendq, main, sent>>
    PROVE  SentInv'
  BY DEF SentInv, HeldTexts, Holding

LEMMA TypeKeepsSent == ASSUME IInv, SentInv, Type PROVE SentInv'
<1>1. PICK c \in Commands : typed' = Append(typed, c)
  BY DEF Type
<1>2. typed \in Seq(Commands) /\ taken \in 0 .. Len(typed) /\ <<c>> \in Seq(Commands)
      /\ UNCHANGED <<taken, sendq, main, sent>>
  BY DEF Type, IInv, TypeOK
<1>3. typed' = typed \o <<c>> /\ Left(typed', taken) = Left(typed, taken) \o <<c>>
  <2>1. typed' = typed \o <<c>>
    BY <1>1, <1>2
  <2>2. Left(Append(typed, c), taken) = Left(typed, taken) \o <<c>>
    BY <1>2, LeftAppend
  <2> QED
    BY <1>1, <1>2, <2>1, <2>2
<1>4. /\ TextLines(typed') = TextLines(typed) \o TextOf(c)
      /\ TextLines(Left(typed', taken)) = TextLines(Left(typed, taken)) \o TextOf(c)
  <2>1. \A u, v \in Seq(Commands) : TextLines(u \o v) = TextLines(u) \o TextLines(v)
    BY TextLinesJoin
  <2>2. Left(typed, taken) \in Seq(Commands) /\ TextLines(<<c>>) = TextOf(c)
    BY <1>2, LeftFacts, TextLinesOne
  <2> QED
    BY <1>2, <1>3, <2>1, <2>2
<1> DEFINE B == TextsAmong(sent)
           Q == TextLines(sendq)
           H == HeldTexts
           L == TextLines(Left(typed, taken))
           x == TextOf(c)
<1>5. (B \o (Q \o (H \o L))) \o x = B \o (Q \o (H \o (L \o x)))
  <2>1. /\ B \in Seq(TextRange) /\ Q \in Seq(TextRange) /\ H \in Seq(TextRange)
        /\ L \in Seq(TextRange) /\ x \in Seq(TextRange)
    BY PlacesType, TextOfType
  <2> HIDE DEF B, Q, H, L, x
  <2> DEFINE u == H \o L
             v == Q \o u
  <2>2. u \in Seq(TextRange)
    BY <2>1, TextsJoin
  <2> HIDE DEF u
  <2>3. v \in Seq(TextRange) /\ v \o x = Q \o (u \o x)
    BY <2>1, <2>2, TextsJoin, SMTT(30)
  <2> HIDE DEF v
  <2>4. (B \o v) \o x = B \o (v \o x)
    BY <2>1, <2>3, TextsJoin, ZenonT(30)
  <2>5. (H \o L) \o x = H \o (L \o x)
    BY <2>1, TextsJoin
  <2> QED
    BY <2>3, <2>4, <2>5, Zenon DEF u, v
<1> QED
  BY <1>2, <1>4, <1>5 DEF SentInv, HeldTexts, Holding

LEMMA InitThreadKeepsSent == ASSUME IInv, SentInv, InitThread PROVE SentInv'
<1>1. main = <<>> /\ ~Holding /\ HeldTexts = <<>> /\ UNCHANGED <<typed, main, sent>>
  BY DEF InitThread, IInv, NobodyBeforeInit, NoneBefore001, Holding, HeldTexts
<1>2. ~Holding' /\ HeldTexts' = <<>>
  BY <1>1 DEF Holding, HeldTexts
<1>3. CASE Eof /\ UNCHANGED <<taken, sendq>>
  BY <1>1, <1>3, SentUntouched
<1>4. CASE Unread /\ taken' = taken + 1
           /\ sendq' = (IF IsNick(Next1) \/ IsUser(Next1) THEN sendq ELSE Queued(Next1))
  <2> DEFINE B == TextsAmong(sent)
             Q == TextLines(sendq)
             L == TextLines(Left(typed, taken + 1))
             x == TextOf(Next1)
  <2>1. Next1 \in Commands /\ TextLines(Left(typed, taken)) = x \o L /\ L \in Seq(TextRange)
    BY <1>4, NextTaken
  <2>2. TextLines(typed) = B \o (Q \o (<<>> \o (x \o L)))
    BY <1>1, <2>1 DEF SentInv
  <2>3. TextLines(sendq') = Q \o x
    <3>1. CASE IsNick(Next1) \/ IsUser(Next1)
      <4>1. x = <<>>
        BY <3>1 DEF TextOf, IsNick, IsUser, Texts
      <4>2. Q \o <<>> = Q
        BY PlacesType, TextsJoin
      <4> QED
        BY <1>4, <3>1, <4>1, <4>2
    <3>2. CASE ~(IsNick(Next1) \/ IsUser(Next1))
      <4>1. sendq \in Seq(Commands) /\ <<Next1>> \in Seq(Commands)
        BY <2>1 DEF IInv, TypeOK
      <4>2. sendq' = sendq \o <<Next1>>
        BY <1>4, <2>1, <3>2, <4>1 DEF Queued
      <4>3. TextLines(sendq \o <<Next1>>) = Q \o TextLines(<<Next1>>)
        BY <4>1, TextLinesJoin
      <4> QED
        BY <2>1, <4>2, <4>3, TextLinesOne
    <3> QED
      BY <3>1, <3>2
  <2>4. B \o (Q \o (<<>> \o (x \o L))) = B \o ((Q \o x) \o (<<>> \o L))
    <3>1. B \in Seq(TextRange) /\ Q \in Seq(TextRange) /\ L \in Seq(TextRange) /\ x \in Seq(TextRange)
      BY <2>1, PlacesType, TextOfType
    <3> HIDE DEF B, Q, L, x
    <3>2. x \o L \in Seq(TextRange) /\ <<>> \o L = L
      BY <3>1, TextsJoin
    <3>3. <<>> \o (x \o L) = x \o L /\ (Q \o x) \o L = Q \o (x \o L)
      BY <3>1, <3>2, TextsJoin
    <3> QED
      BY <3>2, <3>3, Zenon
  <2>5. TextLines(Left(typed, taken)') = L
    BY <1>1, <1>4
  <2> QED
    BY <1>1, <1>2, <2>2, <2>3, <2>4, <2>5 DEF SentInv
<1> QED
  BY <1>3, <1>4 DEF InitThread

(* There is one main loop at most; no other is changed.                    *)
LEMMA OneElement ==
    ASSUME NEW S, NEW s \in Seq(S), Len(s) <= 1, s # <<>>
    PROVE  DOMAIN s = {1} /\ Len(s) = 1
<1>1. Len(s) \in Nat /\ Len(s) # 0 /\ DOMAIN s = 1 .. Len(s)
  OBVIOUS
<1>2. Len(s) = 1
  BY <1>1
<1>3. 1 .. 1 = {1}
  OBVIOUS
<1> QED
  BY <1>1, <1>2, <1>3

LEMMA FirstMain ==
    ASSUME IInv, main # <<>>
    PROVE  DOMAIN main = {1} /\ Len(main) = 1 /\ sendq = <<>>
<1>1. IsSeq(main)
  BY SeqIsSeq DEF IInv, TypeOK
<1>2. DOMAIN main = {1} /\ Len(main) = 1
  BY <1>1, OneElement DEF IInv, OneMain, IsSeq
<1> QED
  BY <1>2 DEF IInv, TypeOK

LEMMA OnlyMain ==
    ASSUME IInv, NEW m \in DOMAIN main
    PROVE  /\ m = 1 /\ main # <<>> /\ sendq = <<>> /\ DOMAIN main = {1} /\ Len(main) = 1
           /\ \A r : LET changed == [main EXCEPT ![m] = r]
                    IN  changed # <<>> /\ changed[1] = r
<1>1. main # <<>>
  BY EmptyIsSeq
<1>2. m = 1 /\ main # <<>> /\ DOMAIN main = {1} /\ Len(main) = 1
  BY <1>1, FirstMain
<1>3. sendq = <<>>
  BY <1>1, FirstMain
<1>4. ASSUME NEW r PROVE [main EXCEPT ![m] = r] # <<>> /\ [main EXCEPT ![m] = r][1] = r
  <2> DEFINE changed == [main EXCEPT ![m] = r]
  <2>1. DOMAIN changed = {1} /\ changed[1] = r
    BY <1>2
  <2>2. DOMAIN <<>> = {}
    BY EmptyIsSeq
  <2> HIDE DEF changed
  <2>3. changed # <<>> /\ changed[1] = r
    BY <2>1, <2>2
  <2> QED
    BY <2>3 DEF changed
<1> QED
  BY <1>2, <1>3, <1>4

LEMMA MainRecvKeepsSent ==
    ASSUME IInv, SentInv, NEW m \in DOMAIN main, MainRecv(m) PROVE SentInv'
<1>1. /\ m = 1 /\ main # <<>> /\ sendq = <<>>
      /\ main[1].at = "recv" /\ ~Holding /\ HeldTexts = <<>>
      /\ UNCHANGED <<typed, sendq, sent>>
  BY OnlyMain DEF MainRecv, Holding, HeldTexts
<1>2. CASE Unread /\ taken' = taken + 1
           /\ main' = [main EXCEPT ![m] = [at |-> "held", cmd |-> Next1]]
  <2> DEFINE L == TextLines(Left(typed, taken + 1))
             x == TextOf(Next1)
  <2>1. Next1 \in Commands /\ TextLines(Left(typed, taken)) = x \o L
        /\ x \in Seq(TextRange) /\ L \in Seq(TextRange)
    BY <1>2, NextTaken, TextOfType
  <2>2. main'[1] = [at |-> "held", cmd |-> Next1] /\ Holding'
    BY <1>2, OnlyMain DEF Holding
  <2>3. HeldTexts' = x /\ main'[1].cmd \in Commands
    BY <2>1, <2>2 DEF HeldTexts, TextOf
  <2>4. <<>> \o (x \o L) = x \o L
    BY <2>1, TextsJoin
  <2> QED
    BY <1>1, <1>2, <2>1, <2>2, <2>3, <2>4 DEF SentInv
<1>3. CASE main' = [main EXCEPT ![m].at = "done"] /\ UNCHANGED taken
  <2>1. main' = [main EXCEPT ![m] = [main[m] EXCEPT !.at = "done"]]
    BY <1>3
  <2>2. main'[1] = [main[m] EXCEPT !.at = "done"]
    BY <2>1, OnlyMain
  <2>3. main'[1].at # "held"
    <3>1. [main[m] EXCEPT !.at = "done"].at # "held"
      <4>1. MainsTypeOK(main)
        BY DEF IInv, TypeOK, MainsTypeOK
      <4> DEFINE Mains == [at : {"recv", "held", "done", "crashed"}, cmd : Commands \cup {NoCommand}]
      <4>2. main[m] \in Mains
        BY <4>1, ElementType DEF MainsTypeOK
      <4>3. \A r \in Mains : [r EXCEPT !.at = "done"].at # "held"
        OBVIOUS
      <4> QED
        BY <4>2, <4>3
    <3> QED
      BY <2>2, <3>1
  <2>4. ~Holding'
    BY <2>3 DEF Holding
  <2> QED
    BY <1>1, <1>3, <2>4 DEF SentInv, HeldTexts
<1> QED
  BY <1>2, <1>3 DEF MainRecv

LEMMA MainSendKeepsSent ==
    ASSUME IInv, SentInv, NEW m \in DOMAIN main, MainSend(m) PROVE SentInv'
<1> DEFINE c == main[1].cmd
           B == TextsAmong(sent)
           L == TextLines(Left(typed, taken))
           x == TextOf(c)
<1>0. m = 1 /\ main # <<>> /\ sendq = <<>>
  BY OnlyMain
<1>1. /\ sendq = <<>> /\ Holding
      /\ UNCHANGED <<typed, taken, sendq>>
      /\ sent' = sent \o GivenTo(c)
      /\ \E at \in {"recv", "crashed"} : main' = [main EXCEPT ![m] = [at |-> at, cmd |-> NoCommand]]
  BY <1>0 DEF MainSend, Holding, Reading
<1>2. c \in Commands /\ HeldTexts = x
  BY <1>1 DEF SentInv, HeldTexts
<1>3. ~Holding' /\ HeldTexts' = <<>>
  <2>1. PICK at \in {"recv", "crashed"} : main' = [main EXCEPT ![m] = [at |-> at, cmd |-> NoCommand]]
    BY <1>1
  <2>2. main'[1] = [at |-> at, cmd |-> NoCommand]
    BY <2>1, OnlyMain
  <2> QED
    BY <2>2 DEF Holding, HeldTexts
<1>4. /\ B \in Seq(TextRange) /\ L \in Seq(TextRange) /\ x \in Seq(TextRange)
      /\ TextLines(sendq) = <<>>
  <2>1. TextLines(<<>>) = <<>>
    <3>1. <<>> \in Seq(Commands)
      OBVIOUS
    <3> QED
      BY <3>1, TextLinesMap, FlatMapEmpty
  <2> QED
    BY <1>1, <1>2, <2>1, PlacesType, TextOfType
<1>5. IsSeq(sent') /\ TextsAmong(sent') = B \o x
  BY <1>1, <1>2, SentMore DEF SentInv
<1>6. TextLines(typed) = B \o (<<>> \o (x \o L))
  BY <1>2, <1>4 DEF SentInv
<1>7. TextLines(sendq') = <<>> /\ TextLines(Left(typed', taken')) = L
      /\ TextLines(typed') = TextLines(typed)
  BY <1>1, <1>4
<1> HIDE DEF B, L, x, c
<1>8. B \o x \in Seq(TextRange) /\ B \o (<<>> \o (x \o L)) = (B \o x) \o (<<>> \o (<<>> \o L))
  <2>1. x \o L \in Seq(TextRange) /\ <<>> \o L = L
    BY <1>4, TextsJoin
  <2>2. <<>> \o (x \o L) = x \o L /\ (B \o x) \o L = B \o (x \o L)
    BY <1>4, <2>1, TextsJoin
  <2>3. B \o x \in Seq(TextRange)
    BY <1>4, TextsJoin
  <2> QED
    BY <2>1, <2>2, <2>3, Zenon
<1> QED
  BY <1>3, <1>5, <1>6, <1>7, <1>8 DEF SentInv

LEMMA FlushKeepsSent == ASSUME IInv, SentInv, Flush PROVE SentInv'
<1>1. main = <<>> /\ ~Holding /\ HeldTexts = <<>> /\ UNCHANGED <<typed, taken>>
  BY DEF Flush, IInv, NoneWhileFlushing, Holding, HeldTexts
<1>2. CASE AllSent /\ main' = Append(main, Reading) /\ UNCHANGED <<sendq, sent>>
  <2>1. main' = <<Reading>> /\ ~Holding'
    BY <1>1, <1>2 DEF Holding, Reading
  <2> QED
    BY <1>1, <1>2, <2>1 DEF SentInv, HeldTexts
<1>3. CASE /\ ~AllSent /\ sendq' = Tail(sendq) /\ sent' = sent \o GivenTo(Head(sendq))
           /\ UNCHANGED main
  <2> DEFINE c == Head(sendq)
             B == TextsAmong(sent)
             Q == TextLines(Tail(sendq))
             L == TextLines(Left(typed, taken))
             x == TextOf(c)
  <2>1. sendq \in Seq(Commands) /\ sendq # <<>>
    BY <1>3 DEF AllSent, IInv, TypeOK
  <2>2. /\ c \in Commands /\ Tail(sendq) \in Seq(Commands)
        /\ <<c>> \in Seq(Commands) /\ sendq = <<c>> \o Tail(sendq)
    BY <2>1
  <2>3. TextLines(sendq) = x \o Q /\ Q \in Seq(TextRange) /\ x \in Seq(TextRange)
    <3>1. TextLines(<<c>> \o Tail(sendq)) = TextLines(<<c>>) \o Q /\ Q \in Seq(TextRange)
      BY <2>2, TextLinesJoin
    <3>2. TextLines(<<c>>) = x /\ x \in Seq(TextRange)
      BY <2>2, TextOfType
    <3> QED
      BY <2>2, <3>1, <3>2, Zenon
  <2>4. IsSeq(sent') /\ TextsAmong(sent') = B \o x
    BY <1>3, <2>2, SentMore DEF SentInv
  <2>5. TextLines(typed) = B \o ((x \o Q) \o (<<>> \o L))
    BY <1>1, <2>3 DEF SentInv
  <2>6. B \in Seq(TextRange) /\ L \in Seq(TextRange)
    BY PlacesType
  <2>7. TextLines(sendq') = Q /\ TextLines(Left(typed', taken')) = L
        /\ TextLines(typed') = TextLines(typed) /\ ~Holding' /\ HeldTexts' = <<>>
    BY <1>1, <1>3 DEF Holding, HeldTexts
  <2> HIDE DEF B, Q, L, x, c
  <2>8. B \o x \in Seq(TextRange) /\ B \o ((x \o Q) \o (<<>> \o L)) = (B \o x) \o (Q \o (<<>> \o L))
    <3>1. Q \o L \in Seq(TextRange) /\ <<>> \o L = L
      BY <2>3, <2>6, TextsJoin
    <3>2. (x \o Q) \o L = x \o (Q \o L)
      BY <2>3, <2>6, TextsJoin
    <3>3. (B \o x) \o (Q \o L) = B \o (x \o (Q \o L))
      <4> DEFINE u == Q \o L
      <4>1. u \in Seq(TextRange)
        BY <3>1
      <4> HIDE DEF u
      <4>2. (B \o x) \o u = B \o (x \o u)
        BY <2>3, <2>6, <4>1, TextsJoin, ZenonT(30)
      <4> QED
        BY <4>2 DEF u
    <3>4. B \o x \in Seq(TextRange)
      BY <2>3, <2>6, TextsJoin
    <3> QED
      BY <3>1, <3>2, <3>3, <3>4, Zenon
  <2> QED
    BY <2>4, <2>5, <2>7, <2>8 DEF SentInv
<1> QED
  BY <1>2, <1>3 DEF Flush

LEMMA StepKeepsSent == ASSUME IInv, SentInv, [Next]_vars PROVE SentInv'
<1>1. CASE Type
  BY <1>1, TypeKeepsSent
<1>2. CASE InitThread
  BY <1>2, InitThreadKeepsSent
<1>3. CASE MainLoop
  BY <1>3, MainRecvKeepsSent, MainSendKeepsSent DEF MainLoop
<1>4. CASE Flush
  BY <1>4, FlushKeepsSent
<1>5. CASE ClientLeaves \/ TakeJob \/ Welcome \/ Server \/ ServerSends \/ ServerCloses
           \/ UNCHANGED vars
  <2>1. UNCHANGED <<typed, taken, sendq, main, sent>>
    BY <1>5
    DEF ClientLeaves, TakeJob, Welcome, Server, ServerAnswersLogin, Reconnect, ServerSends,
        ServerCloses, vars
  <2> QED
    BY <2>1, SentUntouched
<1> QED
  BY <1>1, <1>2, <1>3, <1>4, <1>5 DEF Next, Worker, Ended

(* What is on its way is the queue, what the main loop holds and what      *)
(* nobody read.                                                            *)
LEMMA PlacesOfWay ==
    ASSUME IInv, SentInv
    PROVE  TextLines(OnItsWay) =
               TextLines(sendq) \o (HeldTexts \o TextLines(Left(typed, taken)))
<1> DEFINE h == IF Holding THEN <<main[1].cmd>> ELSE <<>>
           l == Left(typed, taken)
<1>1. Held = h
  <2>1. CASE main = <<>>
    <3>1. [m \in DOMAIN main |-> IF main[m].at = "held" THEN <<main[m].cmd>> ELSE <<>>] = <<>>
      BY <2>1
    <3> QED
      BY <2>1, <3>1, FlattenEmpty DEF Held, Holding
  <2>2. CASE main # <<>>
    <3>1. DOMAIN main = 1 .. 1
      <4>1. 1 .. 1 = {1}
        OBVIOUS
      <4> QED
        BY <2>2, <4>1, FirstMain
    <3>2. [m \in DOMAIN main |-> IF main[m].at = "held" THEN <<main[m].cmd>> ELSE <<>>] = <<h>>
      BY <2>2, <3>1 DEF Holding
    <3> HIDE DEF h
    <3> QED
      BY <3>2, FlattenSingle DEF Held
  <2> QED
    BY <2>1, <2>2
<1>2. sendq \in Seq(Commands) /\ l \in Seq(Commands) /\ h \in Seq(Commands)
  <2>1. \A e \in Commands : <<e>> \in Seq(Commands)
    OBVIOUS
  <2>2. <<>> \in Seq(Commands)
    OBVIOUS
  <2>3. h \in Seq(Commands)
    BY <2>1, <2>2 DEF SentInv
  <2>4. sendq \in Seq(Commands) /\ typed \in Seq(Commands) /\ taken \in 0 .. Len(typed)
    BY DEF IInv, TypeOK
  <2> QED
    BY <2>3, <2>4, LeftFacts
<1>3. TextLines(h) = HeldTexts
  <2>1. TextLines(<<>>) = <<>>
    <3>1. <<>> \in Seq(Commands)
      OBVIOUS
    <3> QED
      BY <3>1, TextLinesMap, FlatMapEmpty
  <2> QED
    BY <2>1, TextLinesOne DEF HeldTexts, SentInv
<1>4. OnItsWay = (sendq \o h) \o l
  BY <1>1 DEF OnItsWay, Left
<1> HIDE DEF h, l
<1>5. \A u, v \in Seq(Commands) : /\ u \o v \in Seq(Commands)
                                  /\ TextLines(u \o v) = TextLines(u) \o TextLines(v)
                                  /\ TextLines(u) \in Seq(TextRange)
  <2>1. \A u, v \in Seq(Commands) : u \o v \in Seq(Commands)
    OBVIOUS
  <2> QED
    BY <2>1, TextLinesJoin
<1>6. TextLines((sendq \o h) \o l) = (TextLines(sendq) \o TextLines(h)) \o TextLines(l)
  <2>1. TextLines((sendq \o h) \o l) = TextLines(sendq \o h) \o TextLines(l)
    BY <1>2, <1>5
  <2> QED
    BY <1>2, <1>5, <2>1
<1>7. (TextLines(sendq) \o TextLines(h)) \o TextLines(l) =
          TextLines(sendq) \o (TextLines(h) \o TextLines(l))
  <2> DEFINE a == TextLines(sendq)
             b == TextLines(h)
             c == TextLines(l)
  <2>1. a \in Seq(TextRange) /\ b \in Seq(TextRange) /\ c \in Seq(TextRange)
    BY <1>2, <1>5
  <2> HIDE DEF a, b, c
  <2>2. (a \o b) \o c = a \o (b \o c)
    BY <2>1, TextsJoin
  <2> QED
    BY <2>2 DEF a, b, c
<1> QED
  BY <1>3, <1>4, <1>6, <1>7, Zenon DEF l

(* What the client types reaches miniirc once and in the order it was      *)
(* typed: nothing is lost, repeated or overtaken while the init thread,    *)
(* the worker and the main loop hand it over from one to the next, however *)
(* often the link is lost and whoever raises (proxy.py:62-132).            *)
THEOREM AllSentInOrder == Spec => []SentInOrder
<1>1. Init => SentInv
  BY InitSent
<1>2. IInv /\ SentInv /\ [Next]_vars => SentInv'
  BY StepKeepsSent
<1>3. IInv /\ SentInv => SentInOrder
  BY PlacesOfWay DEF SentInv, SentInOrder
<1> QED
  BY <1>1, <1>2, <1>3, IInvAlways, PTL DEF Spec

-----------------------------------------------------------------------------
(* What is read of a text, which is what was typed: send takes the frame   *)
(* of an action away and idc_message_parser puts it back.                  *)
LEMMA LargestOf ==
    ASSUME NEW S, NEW n \in S, S \subseteq Int, \A k \in S : k <= n
    PROVE  Max(S) = n
<1>1. \E x \in S : \A y \in S : x >= y
  OBVIOUS
<1>2. Max(S) \in S /\ Max(S) >= n
  BY <1>1 DEF Max
<1>3. Max(S) \in Int /\ n \in Int
  BY <1>2
<1>4. Max(S) <= n
  BY <1>2
<1> QED
  BY <1>2, <1>3, <1>4

LEMMA ActionParts ==
    ASSUME NEW T, NEW text \in Seq(T), IsAction(text), WellFormed(text)
    PROVE  LET n == Len(text)
               body == ActionBody(text)
           IN  /\ n \in Nat /\ n > 4
               /\ text[1] = SOH /\ text[2] = "ACTION" /\ text[3] = Space /\ text[n] = SOH
               /\ body \in Seq(T) /\ Len(body) = n - 4
               /\ \A i \in 1 .. n - 4 : body[i] = text[i + 3]
<1> DEFINE n == Len(text)
           rest == SubSeq(text, 4, n)
           S == {0} \cup {i \in DOMAIN rest : rest[i] # SOH}
<1>1. n \in Nat /\ n > 4 /\ text[3] = Space /\ text[n] = SOH /\ text[n - 1] # SOH
  BY DEF WellFormed, Last
<1>2. text[1] = SOH /\ text[2] = "ACTION"
  <2>1. SubSeq(Action, 1, Len(Action)) = SubSeq(text, 1, Len(Action)) /\ Len(Action) = 2
    BY DEF IsAction, IsPrefix, Action
  <2>2. SubSeq(text, 1, 2)[1] = text[1] /\ SubSeq(text, 1, 2)[2] = text[2]
    BY <1>1
  <2>3. SubSeq(Action, 1, 2)[1] = SOH /\ SubSeq(Action, 1, 2)[2] = "ACTION"
    BY DEF Action
  <2> QED
    BY <2>1, <2>2, <2>3
<1>3. /\ rest \in Seq(T) /\ Len(rest) = n - 3 /\ DOMAIN rest = 1 .. n - 3
      /\ \A i \in 1 .. n - 3 : rest[i] = text[i + 3]
  BY <1>1
<1> HIDE DEF n, rest
<1>4. n - 4 \in S
  <2>1. n - 4 \in 1 .. n - 3 /\ (n - 4) + 3 = n - 1
    BY <1>1
  <2> QED
    BY <1>1, <1>3, <2>1
<1>5. S \subseteq Int /\ \A k \in S : k <= n - 4
  <2> SUFFICES ASSUME NEW k \in S PROVE k \in Int /\ k <= n - 4
    OBVIOUS
  <2>1. CASE k = 0
    BY <1>1, <2>1
  <2>2. CASE k # 0
    <3>1. k \in 1 .. n - 3 /\ rest[k] # SOH
      BY <1>3, <2>2
    <3>2. k # n - 3
      <4>1. rest[n - 3] = text[(n - 3) + 3] /\ (n - 3) + 3 = n
        BY <1>1, <1>3
      <4> QED
        BY <1>1, <3>1, <4>1
    <3> QED
      BY <1>1, <3>1, <3>2
  <2> QED
    BY <2>1, <2>2
<1>6. Max(S) = n - 4
  <2> DEFINE m == n - 4
  <2> HIDE DEF S, m
  <2>1. Max(S) = m
    BY <1>4, <1>5, LargestOf DEF m
  <2> QED
    BY <2>1 DEF m
<1>7. ActionBody(text) = SubSeq(rest, 1, n - 4)
  BY <1>6 DEF ActionBody, WithoutTrailing, rest, n
<1> DEFINE body == SubSeq(rest, 1, n - 4)
<1>8. body \in Seq(T) /\ Len(body) = n - 4 /\ \A i \in 1 .. n - 4 : body[i] = rest[i]
  BY <1>1, <1>3
<1> HIDE DEF body
<1>9. \A i \in 1 .. n - 4 : body[i] = text[i + 3]
  BY <1>1, <1>3, <1>8
<1> QED
  BY <1>1, <1>2, <1>7, <1>8, <1>9 DEF body, n

LEMMA ActionAgain ==
    ASSUME NEW text, IsSeq(text), "None" \notin ToSet(text), IsAction(text), WellFormed(text)
    PROVE  /\ Action \o <<Space>> \o ActionBody(text) \o <<SOH>> = text
           /\ ActionBody(text) # None
<1> DEFINE n == Len(text)
           body == ActionBody(text)
           front == Action \o <<Space>>
           most == front \o body
           all == most \o <<SOH>>
           T == {text[i] : i \in DOMAIN text} \cup {SOH, "ACTION", Space}
<1>1. text \in Seq(T) /\ SOH \in T /\ "ACTION" \in T /\ Space \in T
  BY DEF IsSeq
<1> HIDE DEF T
<1>2. /\ n \in Nat /\ n > 4
      /\ text[1] = SOH /\ text[2] = "ACTION" /\ text[3] = Space /\ text[n] = SOH
      /\ body \in Seq(T) /\ Len(body) = n - 4
      /\ \A i \in 1 .. n - 4 : body[i] = text[i + 3]
  BY <1>1, ActionParts
<1> HIDE DEF n, body
<1>3. /\ front \in Seq(T) /\ Len(front) = 3
      /\ front[1] = SOH /\ front[2] = "ACTION" /\ front[3] = Space
  BY <1>1 DEF Action
<1> HIDE DEF front
<1>4. /\ most \in Seq(T) /\ Len(most) = n - 1
      /\ \A i \in 1 .. 3 : most[i] = front[i]
      /\ \A i \in 1 .. n - 4 : most[i + 3] = body[i]
  <2>1. front \in Seq(T) /\ body \in Seq(T)
    BY <1>2, <1>3
  <2>2. most \in Seq(T) /\ IsJoin(most, front, body)
    BY <2>1, JoinFacts
  <2> HIDE DEF most
  <2>3. \A i \in 1 .. n - 4 : most[3 + i] = body[i]
    BY <1>2, <1>3, <2>2 DEF IsJoin
  <2>4. Len(most) = n - 1 /\ \A i \in 1 .. 3 : most[i] = front[i]
    BY <1>2, <1>3, <2>2 DEF IsJoin
  <2> QED
    BY <1>2, <2>2, <2>3, <2>4
<1> HIDE DEF most
<1>5. all \in Seq(T) /\ Len(all) = n /\ all[n] = SOH /\ \A i \in 1 .. n - 1 : all[i] = most[i]
  BY <1>1, <1>2, <1>4
<1> HIDE DEF all
<1>6. \A i \in 1 .. n : all[i] = text[i]
  <2> TAKE i \in 1 .. n
  <2>1. CASE i \in 1 .. 3
    BY <1>2, <1>3, <1>4, <1>5, <2>1
  <2>2. CASE i = n
    BY <1>2, <1>5, <2>2
  <2>3. CASE i \in 4 .. n - 1
    <3>1. i - 3 \in 1 .. n - 4 /\ (i - 3) + 3 = i /\ i \in 1 .. n - 1
      BY <1>2, <2>3
    <3>2. most[i] = body[i - 3] /\ body[i - 3] = text[i]
      <4> DEFINE j == i - 3
      <4>1. j \in 1 .. n - 4 /\ j + 3 = i
        BY <3>1
      <4> HIDE DEF j
      <4>2. most[j + 3] = body[j] /\ body[j] = text[j + 3]
        BY <1>2, <1>4, <4>1
      <4> QED
        BY <4>1, <4>2 DEF j
    <3> QED
      BY <1>5, <3>1, <3>2
  <2> QED
    BY <1>2, <2>1, <2>2, <2>3
<1>7. all = text
  BY <1>1, <1>5, <1>6 DEF n
<1>8. body # None
  <2> SUFFICES ASSUME body = None PROVE FALSE
    OBVIOUS
  <2>1. Len(body) = 1 /\ body[1] = "None"
    BY DEF None
  <2>2. text[4] = "None" /\ 4 \in DOMAIN text
    <3>1. 1 \in 1 .. n - 4 /\ 4 \in 1 .. n
      BY <1>2, <2>1
    <3>2. body[1] = text[1 + 3]
      BY <1>2, <3>1
    <3> QED
      BY <1>1, <2>1, <3>1, <3>2 DEF n
  <2> QED
    BY <1>1, <2>2 DEF ToSet
<1> QED
  BY <1>7, <1>8 DEF all, most, front, body

LEMMA GivenIs ==
    ASSUME NEW v, Given(v)
    PROVE  IsSeq(v) /\ "None" \notin ToSet(v) /\ v # None
<1>1. IsSeq(v) /\ "None" \notin ToSet(v)
  BY SeqIsSeq, Zenon DEF Given
<1>2. "None" \in ToSet(None)
  BY DEF None, ToSet
<1> QED
  BY <1>1, <1>2, Zenon

(* The target of a text to a channel, without its first character.         *)
LEMMA ChannelAgain ==
    ASSUME NEW target, IsSeq(target), "None" \notin ToSet(target), target # <<>>, IsChannel(target)
    PROVE  <<"#">> \o Tail(target) = target /\ Tail(target) # None
<1> DEFINE T == {target[i] : i \in DOMAIN target}
<1>1. target \in Seq(T) /\ target[1] = "#"
  BY DEF IsSeq, IsChannel
<1> HIDE DEF T
<1> DEFINE v == Tail(target)
           n == Len(target)
<1>2. n \in Nat /\ n > 0 /\ v \in Seq(T) /\ Len(v) = n - 1 /\ \A i \in 1 .. n - 1 : v[i] = target[i + 1]
  BY <1>1
<1>3. v # None
  <2> HIDE DEF v
  <2> SUFFICES ASSUME v = None PROVE FALSE
    OBVIOUS
  <2>1. Len(v) = 1 /\ v[1] = "None"
    BY DEF None
  <2>2. target[2] = "None" /\ 2 \in DOMAIN target
    BY <1>1, <1>2, <2>1
  <2> QED
    BY <1>1, <2>2 DEF ToSet
<1>4. <<"#">> \o v = target
  BY <1>1
<1> QED
  BY <1>3, <1>4

LEMMA TextRead ==
    ASSUME NEW c \in Commands, c.cmd \in Texts, ~Malformed(c), WellFormed(c.args[2]),
           LinesFor(c) # <<>>
    PROVE  Messages(Forwarded(LinesFor(c)[1], Me), <<"bob">>, FALSE) =
               <<Irc(c.cmd, Me, <<IF IsChannel(c.args[1]) THEN c.args[1] ELSE <<"bob">>,
                                  c.args[2]>>)>>
<1> DEFINE target == c.args[1]
           text == c.args[2]
           action == c.cmd = "PRIVMSG" /\ IsAction(text)
           type == IF c.cmd = "NOTICE" THEN <<"NOTICE">> ELSE IF action THEN <<"ACTION">> ELSE None
           to == IF IsChannel(target) THEN Tail(target) ELSE target
           cmd == IF IsChannel(target) THEN "CHANMSG" ELSE "PRIVMSG"
           message == IF action THEN ActionBody(text) ELSE text
           line == Forwarded(TextLine(c), Me)
<1>1. target # <<"NickServ">> /\ LinesFor(c) = <<TextLine(c)>>
  BY DEF LinesFor
<1>2. Given(target) /\ Given(text) /\ target # <<>>
  <2>1. /\ c.args \in Seq(Seq(STRING)) /\ \A k \in DOMAIN c.args : Given(c.args[k])
        /\ c.args # <<>> => c.args[1] # <<>>
    BY ProxyAssumption
  <2>2. Len(c.args) >= 2
    BY <1>1, <2>1 DEF Malformed
  <2> QED
    BY <2>1, <2>2
<1>3. Me # None /\ Me # <<"bob">>
  BY GivenIs, ProxyAssumption
<1>4. message # None /\ (IsChannel(target) => to # None)
  BY <1>2, GivenIs, ActionAgain, ChannelAgain
<1>5. /\ line.cmd = cmd /\ line.SOURCE = Me /\ line.TARGET = to /\ line.MESSAGE = message
      /\ line.TYPE = IF type = None THEN <<"NORMAL">> ELSE type
  BY DEF Forwarded, TextLine, Idc
<1>6. /\ line.TYPE = <<"NOTICE">> <=> c.cmd = "NOTICE"
      /\ line.TYPE = <<"ACTION">> <=> action
  BY <1>5 DEF None
<1>7. c.cmd = IF line.TYPE = <<"NOTICE">> THEN "NOTICE" ELSE "PRIVMSG"
  BY <1>6 DEF Texts
<1>8. MessageText(line) = text
  <2>1. action => Action \o <<Space>> \o message \o <<SOH>> = text
    BY <1>2, GivenIs, ActionAgain
  <2> QED
    BY <1>5, <1>6, <2>1, Zenon DEF MessageText
<1>9. (IF cmd = "PRIVMSG" THEN <<"bob">> ELSE <<"#">> \o to) = IF IsChannel(target) THEN target ELSE <<"bob">>
  <2>1. IsChannel(target) => <<"#">> \o to = target
    BY <1>2, GivenIs, ChannelAgain
  <2> QED
    BY <2>1
<1> HIDE DEF line, message, to, type
<1>10. Complete(line) /\ ~Dropped(line, <<"bob">>, FALSE) /\ cmd \in {"PRIVMSG", "CHANMSG"}
  BY <1>3, <1>4, <1>5 DEF Complete, Dropped
<1>11. Messages(line, <<"bob">>, FALSE) =
          <<Irc(c.cmd, Me, <<IF cmd = "PRIVMSG" THEN <<"bob">> ELSE <<"#">> \o to, MessageText(line)>>)>>
  BY <1>3, <1>5, <1>7, <1>10, Zenon DEF Messages
<1>12. Forwarded(LinesFor(c)[1], Me) = line
  BY <1>1 DEF line
<1> QED
  BY <1>8, <1>9, <1>11, <1>12, Zenon

(* Whatever text the client of the bouncer types, other users of           *)
(* miniirc_idc read its command, its source, its target and the very text, *)
(* although notices and actions go through an IDC type of message.         *)
THEOREM TextsReadAsTyped == Spec => []ReadAsTyped
<1>1. ASSUME IInv PROVE ReadAsTyped
  <2> SUFFICES ASSUME NEW i \in 1 .. taken, typed[i].cmd \in Texts, ~Malformed(typed[i]),
                      WellFormed(typed[i].args[2]), LinesFor(typed[i]) # <<>>
               PROVE  Messages(Forwarded(LinesFor(typed[i])[1], Me), <<"bob">>, FALSE) =
                          <<Irc(typed[i].cmd, Me,
                                <<IF IsChannel(typed[i].args[1]) THEN typed[i].args[1] ELSE <<"bob">>,
                                  typed[i].args[2]>>)>>
    BY Zenon DEF ReadAsTyped
  <2>1. typed[i] \in Commands
    BY <1>1 DEF IInv, TypeOK
  <2> QED
    BY <2>1, TextRead
<1> QED
  BY <1>1, IInvAlways, PTL
=============================================================================
