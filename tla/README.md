# TLA+ models of the question-and-answer server

The program is an epoll server in C++ in the manner of muduo: a main loop that
accepts connections, a pool of threads with a loop each that serve them, an HTTP
layer on top, and a MySQL database behind it that the clients fill with questions
and answers and that a daily crawler adds to. This directory holds models of its
parts, the configurations that check them with TLC, and machine-checked proofs
about them: every safety property that a passing run checks is also proved, liveness
is model-checked.

    tlc -workers 2 -config EventLoop_calls.cfg MCEventLoop       one run
    tlapm EventLoopProofs.tla                                    one proof module

`PROJECT.json` lists the runs, for every property a mutant of the code that breaks
it, the lines every definition stands for, the hazards and the findings.

## Inventory

| Component | State | Operations | Who it talks to |
|---|---|---|---|
| EventLoop (`EventLoop.cpp`) | `pendingFunctors_` under `mutex_`, `polling_`, `quit_` without a lock, `wakeupFd_` | `loop`, `runInLoop`, `queueInLoop`, `doPendingFunctors`, `quit`, `wakeup` | every thread hands functors to every loop |
| Channel, EPollPoller | `events_` (never initialised), `revents_`, raw pointers in epoll and `activeChannels_` | `enable*`, `disableAll`, `handleEvent`, `poll`, `updateChannel` | callbacks into TcpConnection, Acceptor, TimerQueue |
| EventLoopThread, Thread, Condition | `loop_` under `mutex_`, a condition variable | `startLoop`, `threadFunc` | the main thread waits for the new one |
| TcpServer, Acceptor, EventLoopThreadPool | `connections_`, `next_`, the listening socket | `start`, `newConnection`, `removeConnection`, `removeConnectionInLoop`, `nextLoop` | main loop; hands functors to the io loops and gets them back |
| TcpConnection, Buffer | its socket and channel, `inputBuffer_`, `outputBuffer_`, who refers to it | `connectEstablish`, `handleRead`, `handleClose`, `send`, `shutdownWrite`, `readFd` | its io loop, the peer, TcpServer |
| TimerQueue, Timestamp | `timers_`, a timerfd | `addTimer`, `handleRead`, `resetTimerfd`, `now` | HttpServer's daily tasks |
| HttpServer, daily tasks | `pid_`, child processes, SIGCHLD | `setUpdateTask`, `runSpider`, `updateDataBase`, `handler` | timers of the main loop; `handler` runs on any thread |
| HttpServer, requests | one `HttpRequest`, one `HttpResponse`, one `DataBase` for all threads | `onMessageCallBack` and the handlers of each type | all io threads at once |
| DataBase, DataInfo | four tables, `questionNum_`, `answerNum_`, one connection | insert, query and update of questions, answers and words, `updateDataBase`, `parseQuestion`, `parseAnswers` | io threads, the main thread, the crawler's file |
| spider.py | `zhihu_data.txt` | writes it, may be killed meanwhile | DataBase reads the file |
| cppjieba (vendored) | a trie, a hidden Markov model, both constant | `CutForSearch` | decides which words a question is stored and found by |
| SocketsOps, logging, strings, rapidjson (vendored) | none | | |

What is hard in it, in the order of importance:

1. *Loops handing work to each other.* `queueInLoop` looks at `polling_` under a
   mutex the loop does not hold when it changes `polling_`; functors run while the
   loop's mutex is held; the vector is cleared after the walk.
2. *Lifetimes.* A connection is referred to by `connections_`, by bound functors in
   two queues, and by raw pointers in epoll. Names and descriptors are reused.
3. *One of everything for a hundred threads.* The request, the response, the
   database and its counters are shared without locks (`MutexLock(mutex_);` in
   `nextQuestionId` declares a variable).
4. *Several statements for one operation.* A question is words, answers and a row;
   an answer is a row, a reading and a writing of the question. The process may die
   between any two, and any of them may fail without being noticed; the counters start
   again from the tables.
5. *Time and processes.* `now()` lags by up to a second, and the timerfd is armed
   from it. `pid_` is shared with a signal handler that any thread may run.
6. *Partial sends and receives*, uninitialised `events_`, spurious wakeups.
7. *A file that ends anywhere*, since its writer is killed at three o'clock.
8. *Dynamic programming* whose ties and overflows decide how a text is cut.

What would make each component correct is stated by its properties, below.

## Plan

Done, in this order: EventLoop against FunctorQueue, with proofs; TcpServer against
ConnectionLifecycle, later with its start (EventLoopThread) and with proofs;
TimerQueue, then DailyTasks on top of it, with proofs; QuestionStore, with proofs,
later those of requests that come one at a time (QuestionStoreAlone);
QuestionSearch with the segmenter and the crawled file, later with proofs; HttpServer,
with proofs; TcpConnection, later with Buffer and segments, with proofs.

Left, the most important first:

1. The table `user`: `checkUser`, `insertUser`, `loginUser` of two clients.
2. QuestionStore against an abstract store in which a request is one step, for one
   io thread.

## Modules

| Module | Models | Composition |
|---|---|---|
| FunctorQueue | abstract: functors run at most once, in the order accepted | refined by EventLoop |
| EventLoop | `EventLoop.cpp`, the wakeup channel, `EPollPoller::poll` | |
| ConnectionLifecycle | abstract: created, established, closed, gone; a descriptor has one owner | refined by TcpServer |
| TcpServer | `TcpServer.cpp`, `Acceptor.cpp`, `EventLoopThreadPool::nextLoop`, the lifetime of `TcpConnection` and `Channel`, one coarse EventLoop per thread | |
| EventLoopThread | `EventLoopThreadPool::start`, `startLoop`, `threadFunc`, `Condition` | |
| TcpServerStart | TcpServer from `start` on | EXTENDS TcpServer, INSTANCE EventLoopThread |
| TcpConnection | the data path of one connection: `Buffer::readFd`, `send`, `handleRead`, `handleClose`, `shutdownWrite`, the socket and the peer | |
| TimerQueue | `TimerQueue.cpp`, `Timestamp::now`, `HttpServer::setUpdateTask` | |
| DailyTasks | `runSpider`, `updateDataBase`, `handler`, the child processes | EXTENDS TimerQueue, which it implements |
| QuestionStore | `insertQuestion`, `insertAnswer`, `updateQuestion`, `insertWord`, the counters, `updateDataBase`, restarts | |
| QuestionStoreAlone | the same with a history, `overlapped`, and what holds while it is not set | EXTENDS QuestionStore |
| Selections | numbers in their order, what a sequence holds at chosen places | |
| Segmenter | cppjieba's `CutForSearch` | EXTENDS Selections |
| CrawledFile | what `spider.py` writes, `parseQuestion`, `parseAnswers` | EXTENDS Selections |
| QuestionSearch | `queryQuestion` on what `insertQuestion` and `updateDataBase` stored | EXTENDS Segmenter and CrawledFile |
| HttpServer | `onMessageCallBack`, `parseHeader`, the handlers | |
| *Name*Proofs | theorems | EXTEND the module of their name; TcpServerProofs EXTENDS TcpServerStart, DailyTasksProofs TimerQueueProofs, QuestionStoreProofs QuestionStoreAlone |
| MC* | values for the constants, symmetry | EXTEND the module of their name, MCTcpServer TcpServerStart, MCQuestionStore QuestionStoreAlone |

Names are the code's where TLA+ allows it. Each definition with a name ending in
`_Something` right before a definition is a mutant of it: the same operator with a
plausible error, used to show that a property notices the error.

### EventLoop

`loopPc` is the position in `loop()`; `threadPc` that of every other thread in
`runInLoop`/`queueInLoop` or `quit`. Every access to `pendingFunctors_`, `polling_`,
`quit_` or the eventfd is a step of its own. `Stimulus` and `PollInterrupted` stand
for other descriptors and signals: they may end `epoll_wait` but need not.
`GarbageOut` says whether the uninitialised `events_` of the wakeup channel contains
EPOLLOUT; if it does, the first poll reports an event without EPOLLIN, which
`handleEventWithGuard` takes for a close, and the wakeup channel is gone.

A wakeup can also be missed in the sense of a functor queued by a caller that did
*not* see `polling_`, just after the walk; that is not what `NoMissedWakeup` says (it
would be false) but the subject of the run `TcpServer_lostwakeup`.

### EventLoopThread and TcpServerStart

The main thread makes one thread of the pool after the other and waits in
`startLoop` on the condition variable of each until `loop_` is set. Locking, testing,
waiting and signalling are separate steps; `pthread_cond_wait` may return for no
reason (`SpuriousWakeup`). TcpServerStart composes this with TcpServer: a loop acts
only when its thread is inside `loop()`, the acceptor listens only when the pool is
complete, and clients connect only then.

### TcpServer

All loops have the same four positions. `QueueInLoop` is a single step here: the
caller holds the target's mutex from the append to the wakeup, and EventLoopProofs
shows that nobody else is inside `queueInLoop` or `doPendingFunctors` of that loop
meanwhile (`MutualExclusion`) and that `polling_` is a function of the loop's
position (`PollingInv`). A walk is one step per functor, since a functor may wait for
another loop's mutex. References are not counted: `alive` is what `connections_` and
the queued functors still refer to, which is when `shared_ptr` releases. Descriptors
come from a set as small as the number of connections, so they are reused at once.

An `accept` that fails for another reason than a lack of descriptors is the action
`AcceptFails`: `newConnection` runs all the same, with -1, takes the next loop and
wakes it. The client may be gone from the listen queue or wait on. The connection
object for -1 is left out, with its functor: its name holds the descriptor and so meets
no client's in `connections_`, and its `connectEstablish` registers nothing, since
`epoll_ctl` rejects -1.

### TcpConnection

Units instead of bytes; the kernel's send buffer has `Capacity` of them, a request
has `RequestSize`, and the peer sends any part of the stream of requests at once.
`inputBuffer` is the vector with its two indexes: it starts with `InitSize` places,
`readFd` has `ExBuf` more on the stack, and what a retrieve leaves behind the indexes
stays in the vector, so that a stale unit would be seen. `Poll` captures `revents`,
and the peer acts before the handler does. A `readv` that fails after an RST adds -1
to `writerIndex`. `handleWrite` has no action because nothing can call it:
`handleEventWithGuard` treats every event without EPOLLIN as a close. The release is
one step here; how it comes about is in TcpServer. No constructor sets `events_`, and
`enableReading` only adds EPOLLIN: `GarbageOut` says whether EPOLLOUT may be set from
the start, and the history `stray` that it is. Such a connection is closed, without any
doing of its peer, by the first poll that finds it writable and nothing to read.

### TimerQueue

Real time is a counter of ticks. `now()` adds milliseconds where microseconds are
meant, so it stands nearly still within each second: `Shrink` is that factor. A
callback takes some ticks; so does `setUpdateTask`. Days are scaled to seven seconds
with the two hours inside. Callbacks run one at a time on the main loop, and the
kernel delivers an expiration at its tick or later.

### DailyTasks

The callbacks of the two timers become the steps of `runSpider` (`fork`, the store to
`pid_`) and `updateDataBase` (the test of `pid_`, `kill`, the update). Children run
`spider.py`, or go on as a copy of the server if `execl` fails, and die at any moment.
SIGCHLD is pending or not, whatever the number of deaths; a thread that is not inside
`handler` may take it; `waitpid` and the store to `pid_` are separate steps. A `kill`
uses the value that was tested or `pid_` read again.

Processes and signals act within a tick: time passes only when no signal is pending
or handled and every child that got SIGQUIT is gone. An hour lies between the two
tasks and nearly a day between a kill and the next fork, so this is what a running
system does, but `OneSpider` and `PidIsTheSpider` rest on it, also in their proofs.
`NoZombieStays` does not, as its proof shows.

### QuestionStore

A step is one SQL statement with its result or one access to a counter. That a
statement and `mysql_store_result` are one step is an abstraction, since threads
share one `MYSQL`: what the client library does when two use it at once is not
defined. `Restart` ends the process anywhere: the tables and the crawler's file stay,
the counters are read from the tables again, all jobs are lost. The tables start with
a question and an answer because the server cannot start on an empty table
(`getTableLineNum` takes the id of a last row). Texts with quotation marks are the set
`Quoted`: `updateQuestion` puts them into the statement as they are, so it fails.
Words are the constant `WordsOf`; the file is a sequence of entries.

Every statement may fail (`Fails`): the server escapes a quotation mark and nothing
else, so that a backslash at the end of a text runs on into the statement, and the
connection may be lost. Nothing looks at the result of an INSERT or an UPDATE, and the
request goes on as if it had succeeded. A SELECT without a result makes `insertWord`
pass the word over, and makes `parseQuestion` log and drop the entry, after which the
file is truncated all the same; in `HttpServer::insertAnswer` it ends the request before
anything was changed. What failed is remembered in `failed`: the answer, the word of a
question, the update of a question, and the texts the running update of the database
dropped, which it forgets when the next one begins.

QuestionStoreAlone adds the history `overlapped`: two threads were inside a request
or an update at once. Nothing in the code prevents that; the four properties that need
it say `~overlapped => ...`, and MCQuestionStore bounds the two kinds of behaviours.

### Segmenter, CrawledFile and QuestionSearch

What the two abstractions of QuestionStore stand for. A text is a sequence of runes,
and a cut a set of ranges of it: `Pieces` are what PreFilter finds between separators,
`MPCut` the dynamic programme over the dictionary (`CalcDP`, `CutByDag`), `HMMCut` the
rules for ASCII and `Viterbi`, `Recut` how MixSegment gives what stayed single to the
HMM, `Parts` the shorter words QuerySegment adds. Weights are integers instead of
logarithms in doubles; `Floor` is `MIN_DOUBLE`, and `Plus` absorbs other weights into
it as a double does. The iterations are recursive functions over places; words are
kept or dropped by Selections.

`Contents` is the file as the spider writes it, byte by byte up to the runes, and
`Lines`, `ParseQuestion`, `ParseAnswers` and `Entries` are what the update reads from it.
`Files` are all its prefixes. No text on a page holds the rune that ends texts, a
carriage return (`CrawledTextsAssumption`): the reader could not tell it from the end.
QuestionSearch stores questions by `IndexWords`, for
clients and from such files, and searches for keys. It is sequential: nothing follows
a search, so that the state space is the tables times the keys.

### HttpServer

A message is its method, whether its body is an object, another JSON value or neither,
its type and the names it carries; a response is a code and the arguments it was made
from. A step writes the fields that one `format` function of `HttpRequest` sets, or reads
one of them; the test of `requestValid_` after each is a step of its own (`TestValid`).
For a body that is JSON and no object, `HasMember` fails an assertion, and the Makefile
does not define NDEBUG: the process ends (`AssertionFails`, `running`). What a handler
does to the tables is in QuestionStore.

## Runs

| Run | Shows | Bounds |
|---|---|---|
| EventLoop_calls | TypeOK, NoMissedWakeup, refinement of FunctorQueue, SignalledIsRun, QuitEndsLoop | two threads, two calls each, one stimulus, garbage or not |
| TcpServer_lifetimes | OwnLoops, NoDanglingChannel, NameIsUnique, FunctorsInOrder, refinement of ConnectionLifecycle | from the start on, two io loops, a client that comes twice, any `accept` may fail, garbage or not |
| TcpServer_liveness | PoolStarts, WalkEnds, ServedWhilePolling, ReleasedWhilePolling | one io loop, the same client |
| TcpServer_lostwakeup | *violation* of RequestIsServed: a lone request is never answered | the same |
| TcpConnection_data | ReceivedInOrder, NothingLostWhileOpen, ClosedForAReason, MessagesAreTheStream, FailedReadIsTheLast | send buffer of two units, responses of one to three, two requests of two units, a buffer and an exbuf of one, EPOLLOUT set from the start or not |
| TcpConnection_rest | *violation* of WholeResponseArrives: a large response is cut off | one request |
| DailyTasks_days | OneTimerPerTask, ArmedForEarliest, SpiderFirst, OneSpider, NoZombieStays, PidIsTheSpider | some four days, any start, slow callbacks, two threads |
| TimerQueue_daily | *violation* of RunsDaily: the tasks stop for good | the same without processes |
| QuestionStore_requests | TypeOK, AnswersBelong; with one request or update at a time IdsAreUniqueAlone, FoundByItsWordsAlone, RepliedIsListedAlone and CrawledOnceAlone | two io threads, three questions; alone: three requests, two crawls of three entries, a statement that fails, four of these in all, and a crash; overlapped: two requests, or one and a crawl of one entry |
| QuestionSearch_words | ListedShareAWord, StoredAsCrawled, CutCovers, CutIsHeaviest, StatusIsLikeliest | nine runes, texts of up to six, eight dictionary lines and three of the user, two stored questions, every prefix of a file of three entries |
| HttpServer_threads | TypeOK, AnsweredOnce, AnsweredAsAskedAlone, ShutAsAskedAlone | two threads, three messages of twelve kinds |
| HttpServer_mixed | *violation* of AnsweredAsAsked: an answer to another client's request | two threads, two messages |

Why these bounds. Two callers and two calls let one append before, during and after
the walk and while another is in the critical section; the proofs remove the bound.
Two connections on two loops are needed for a removal and an establishment to cross
and for a descriptor to be reused; a third connection meets the same pairs. One
client is the harder case for names, which contain the client: it leaves and comes
back while the server still holds its first connection. Responses of one to three
units against a send buffer of two are one that fits, one that fills it
and one that exceeds it, before and after a rest. Two requests of two units against a
buffer of one and an exbuf of one need every branch of `readFd`: read within the
buffer, with exbuf, and leaving something in the socket. Three messages let two overlap and
a third come after them. Two threads of QuestionStore need one request each, or one
against one update, to overtake each other at every statement; two texts share a
word. One statement that fails, whichever it is, may be followed by a crash and by two
more requests or crawls; that statements also fail while others overlap is left to the
proof of `AnswersBelong`, which has no such bound. Four days contain the first day, which differs, and a repetition after each
order of callbacks; two threads are enough for a handler to interrupt another. The
dictionary of the search has words that overlap in both directions, a word that is
listed twice, a user's word with and without a weight, and a rune that neither it nor
the model knows; all cuts of a text and all sequences of statuses are enumerated for
comparison.

Most configurations switch the deadlock check off: clients may stop sending and the
bounds end every behaviour, after which the loops sleep, as they do. The properties
that something does happen are stated as liveness properties instead.

### Fairness

- EventLoop (FairSpec): weak fairness of the loop and of a call once begun: the
  operating system schedules threads that can run. No caller has to call, no
  descriptor to become ready, no signal to arrive. Both liveness properties except the
  loops whose wakeup channel was closed by garbage in `events_`: nothing wakes those.
- TcpServerStart (FairStartSpec): weak fairness of main's steps in `start` and of the
  acceptor's start, which nobody can disable again; strong fairness of the steps of
  new threads and of every loop, since such a step may wait for a mutex that others
  take and release again and again. Spurious wakeups need not happen, and clients need
  not do anything. `ServedWhilePolling` and `ReleasedWhilePolling` have the premise that
  loops keep coming out of `epoll_wait`, which the code does not guarantee: without it
  they are false, and that is the finding.
- The other specifications have no fairness; their properties are about safety.
  `RunsDaily` is one too: time is part of the state.

## Findings

1. `queueInLoop` wakes the loop only if `polling_` is set, and `loop()` sets it after
   the walk without looking at the queue again: `connectEstablish` can wait for the
   next unrelated event (`TcpServer_lostwakeup`).
2. `resetTimerfd` computes an `it_value` of zero for a timer that fell due while the
   handler ran; zero disarms a timerfd (`TimerQueue_daily`).
3. All io threads share one HttpRequest, so a client can get the answer to another's
   request (`HttpServer_mixed`).
4. What `send` cannot send at once is never sent: `shutdownWrite` does not wait for
   it, and the EPOLLOUT for it is taken for a close (`TcpConnection_rest`).

Also seen while modelling, without a run of its own: `nextQuestionId` and
`nextAnswerId` are not locked although they look it, so that an io thread and the
update can take the same id, after which `updateQuestion` writes one question over the
other (`IdsAreUnique` and `AllStored` of QuestionStore fail without the restriction to
one at a time); an answer whose INSERT fails is listed by its question all the same,
and after a restart its id is given to another answer, which the question then shows
(`failed.answers`); a question whose SELECT or INSERT fails is lost with the file
(`failed.questions`); a body that is JSON but no object ends the process
(`AssertionFails`); `HttpServer::insertAnswer` takes `questionDetail` from the column
`questionMap`, which does not exist, and so erases it; a copy of the server that is
left when `execl` fails signals its process group, the server included, at three
o'clock (`CopyUpdates` of DailyTasks).

Some properties are stated for less than one would like because the code does not
give more. `IdsAreUnique`, `FoundByItsWords`, `RepliedIsListed` and `CrawledOnce` are
checked with one request or update at a time: two that overlap lose an addition or
one of two writes to a row. `AnswersBelong`, and three of these, except exactly the
answers, words, questions and updates whose own statement failed: that one failure
spoils nothing else is what they say. `RepliedIsListed` also excepts texts with
quotation marks. `ClosedForAReason` excepts connections whose `events_` began with EPOLLOUT.
`AnsweredAsAskedAlone` and `ShutAsAskedAlone` speak of messages no other one
overlapped. `ReceivedInOrder` does not say "and complete": a second response follows
directly the first part of one that was cut. `MessagesAreTheStream` says that what is
taken for requests is what was sent, not that it is cut where requests end: a request
in two segments is taken for two.

## Proofs

All proofs are for every value of the constants, under the named assumptions of the
modules, which TLC evaluates in every run. TLC also checked each invariant on the
instance of its run, `TimerInv` and `TurnInv`, which quantify over Nat, with a bound on the
times, and `RowsAreIndex` for the words that have rows.

**EventLoopProofs** (from `ThreadsAssumption`, `BoundsAssumption`). The invariant is

    IInv == TypeOK /\ LockInv /\ PollingInv /\ OrderInv /\ CallInv /\ SignalInv

`LockInv`: `mutex` is held by exactly the thread that is inside the critical section;
`MutualExclusion` follows at once. `PollingInv`: `polling_` is set exactly from
`setPolling` to `clearPolling`. `OrderInv`: what was executed, followed by what is
pending and not yet walked, is what was accepted; this makes the step of the walk a
step of FunctorQueue, and clearing the vector a stutter. `CallInv`: calls are
numbered in order, so the functor of a call that did not test `polling_` yet is not
among those whose caller saw it set. `SignalInv`: a functor whose caller saw `polling_` set was
run or is pending, and while it is pending the loop is on its way to
`doPendingFunctors`, or in `epoll_wait` with the eventfd raised or about to be. `NoMissedWakeup` and
`ExitedRanSignalled` follow from it. Results: `TypeCorrect`, `NoMissedWakeupHolds`,
`MutualExclusionHolds`, `ExitedRanSignalledHolds`, `Refinement`.

**TcpServerProofs** (from `TcpServerAssumption`). The invariant is

    IInv == TypeOK /\ QueueInv /\ ConnInv /\ EventInv

`QueueInv`: a connection is bound to at most one functor that did not run yet, and to
none while it is registered with epoll; that functor is on the loop and in the stage
of the connection it belongs to (`FunctorOK`). This is what reference counting gives
and no single step shows. `ConnInv`: what `connections_` refers to is alive under its own
name, a connection that was not closed is in `connections_`, and every living
connection owns its descriptor alone. An `accept` that fails disturbs none of it
(`FailedAcceptKeepsInv`). `EventInv`: a batch of events holds one event
per connection, on its own loop. Results: `NoDanglingChannelHolds`,
`NameIsUniqueHolds`, `FunctorsInOrderHolds`, `ImplementsLifecycleHolds` (TcpServer
refines ConnectionLifecycle), and `StartImplementsServer`: a server together with its
start implements TcpServer, which carries the others over to TcpServerStart.

Its last section is about the start itself. `StartInv == ThreadInv /\ PoolInv /\
ListenInv`: a `loop_` that is set is the one its own thread has built; the main thread, which
tests `loop_` again after every wakeup, never returns the null pointer; what `eventLoops`
holds are the loops of the threads made so far, in their order; the server listens,
and so has connections, only when the pool is complete. `OwnLoopsHolds` follows, together
with the invariant of TcpServer that `StartImplementsServer` carries over.

**TcpConnectionProofs** (from `TcpConnectionAssumption`). The invariant is

    IInv == TypeOK /\ ReadInv /\ CloseInv /\ OrderInv /\ LossInv /\ MessagesAreTheStream

`ReadInv`: after a failed read there was an RST, nothing is left
in the socket, and an event still to be handled is a close. `CloseInv`: every captured
event has its cause, which lasts until it is handled, and EPOLLOUT is wanted only for a
rest in `outputBuffer_` or since the start (`stray`); `ClosedForAReason` follows.
`OrderInv`: what is on the wire is in order and of responses already made.
`LossInv`: until the socket is closed or reset, the wire followed by `outputBuffer_` has
every unit of every response made, once and in its order, which `send` keeps although
the socket takes any part of it, and although a second response goes to the wire while
a first one has a rest (their units are then mixed, but no unit of one is passed by
another of the same). `MessagesAreTheStream` is inductive as it stands, once it says
element by element which unit of the peer's stream each place holds; the step that
needs an argument is `readFd`, whose two iovecs together give what is in the socket, up to
their sizes. Results: `TypeCorrect`, `ReceivedInOrderHolds`, `ClosedForAReasonHolds`,
`FailedReadIsTheLastHolds`, `NothingLostWhileOpenHolds`, `MessagesAreTheStreamHolds`.

**HttpServerProofs** (from `HttpAssumption`). `IInv == TypeOK /\ CountInv /\
AloneInv /\ AsAskedInv`. `CountInv`: where a thread is tells how often it answered.
`AloneInv`: a message that no other overlapped has the shared objects to itself.
`AsAskedInv`: for such a message, how far the shared request and response are with it
at every position, whatever an earlier message left in them; what `TestValid` finds
there is the message's own.

**TimerQueueProofs** (from `TimerAssumption`). The invariant is

    IInv == TypeOK /\ NeverEarly /\ TimerInv /\ ArmedInv

`TimerInv`: a timer is in exactly one of `timers_`, the expired ones that wait, and those
that ran, and the two tasks have one each. `now()` is never ahead of the real clock
(`NowLags`), which gives `NeverEarly`. `ArmedInv` says of the timerfd during `setUpdateTask`
what `ArmedForEarliest` says of it afterwards; its step is arithmetic about `now()`, which
divides ticks into seconds and shrinks the rest, and about the tick that
`resetTimerfd` computes from it.

The order of the tasks needs more: `OrderInv == SetupInv /\ TurnInv`. `TurnInv`: there are
seconds `p < q < p + Day` such that the timer of the task whose turn it is expires in `p` and
the other in `q`; the timerfd expires before `q`, so that a `handleRead` finds one timer
expired at most; and the one it ran is repeated a day later, behind the other. This
holds under `SetupWithinTheHour`: `setUpdateTask` reads the clock before it adds the two
timers, and takes no longer than from two to three o'clock. The bound is exact.
If it took longer, both timers would be due in the first `handleRead`, be repeated from
the same instant, and run in any order of the day after; TLC finds that with one tick
more. The code adds two timers there, so a second would do. Results: `TypeCorrect`,
`OneTimerPerTaskHolds`, `NeverEarlyHolds`, `ArmedForEarliestHolds`, `InOrder`,
`SpiderFirstHolds`.

**DailyTasksProofs** (from `TimerAssumption`). DailyTasks implements TimerQueue
(`DailyImplementsTimers`), which carries the results above over. `NoZombieStays` is proved
from the positions of the handlers alone. `ChildInv` gives `OneSpider` and `PidIsTheSpider`:
`pid_` names the only child, or that child died before its pid was stored, or a
handler is about to forget it; and when it is the spider's turn, either no child
is left and no handler runs (`Idle`), or the update has just signalled the child and
time cannot pass before it is gone (`Dying`). That the spider's turn comes after the
update's is `TurnInv`, so these two have the same hypothesis `SetupWithinTheHour`, and
they rest on the guard of `Tick` described above.

**QuestionStoreProofs** (from `StoreAssumption`). `AnswersBelong` is not inductive: it
says nothing of the answers a thread has put into the table, or read from a question,
and not yet written back. The invariant adds for every thread `StageInv` (what its local
variables are at each statement: for which kind of job, how many answers are
inserted, whether a row was read) and `AnswerInv` (the answers it inserted,
and those listed by the row it read, are in the table with that row's text). Answers
are never deleted, so other threads' steps keep it, and `updateQuestion` writes text
and answers back together, so even a row that has meanwhile become another
question's is overwritten by one that is right in itself. An INSERT that fails moves its
answer to `failed.answers`, and the invariant speaks of both together (`Sent`); what
failed is never forgotten (`Kept`), but for the questions of an update when the next one
begins (`AllKept`). Results: `TypeCorrect`, `AnswersBelongHolds`.

Its second half is about QuestionStoreAlone. The invariant there, beside the one above,
is

    AloneInv == ~overlapped => OneAtATime /\ TablesInv
                               /\ (\A t \in Threads : JobInv(t)) /\ UpdateInv

`TablesInv`: both counters are above every id in the tables, ids are unique, and
questions are found and reported answers listed. `JobInv`: what a thread read is what it
would read now, since the others are idle (`OthersIdle`): the value of a counter, the list
of a word, the row of a question; a question that is not in the table yet has an id
above all that are, and is listed already under the words that were written and did
not fail.
`UpdateInv`: the question an update is about to store is not in the table, and every
entry of the file it passed is stored, had no answers, or is among those that failed in
this update. After a crash the counters are
one more than the ids of the last rows, which are the largest, so no id is given
again. An id that leads from a word to nothing may remain, and may later belong to
another question: `FoundByItsWords` does not say the converse. Results: `AloneInductive`,
`IdsAreUniqueAloneHolds`, `FoundByItsWordsAloneHolds`, `RepliedIsListedAloneHolds`, and the
action property `CrawledOnceAloneHolds`.

**QuestionSearchProofs** (from `SegmenterAssumption`, `QuestionSearchAssumption`,
`CrawledTextsAssumption`), for any dictionaries, model, texts and pages. The
algorithms are recursive functions, and `f == CHOOSE g : g = F(g)` is known to satisfy its
equation only when some function does. So the first half of each proof is that one
exists: `FixedPoint` builds it rank by rank, `FromTheEnd` and `FromTheFront` are its cases
for recursion towards the end or the front of a text. What the function computes is
then shown place by place (`Downwards`, `Upwards`).

- `CutCoversHolds`. `Tiles(C, P)`: the ranges `C` lie in `P` and each place of `P` is in
  exactly one. Each stage of the segmenter replaces ranges by ranges that tile the same
  places: the separators, the dictionary's words, the runs of single runes that go
  to the HMM, the ASCII words and what Viterbi ends.
- `CutIsHeaviestHolds`. `CalcDP` has at each place a weight that no word followed by the
  best rest exceeds; by `CutIsLighter`, from the end to the front, no cut of
  `AllCuts` exceeds it, and `CutByDag` takes one that weighs as much.
- `StatusIsLikeliestHolds`. `Plus` absorbs what is added to `Floor` and is monotone only
  where its sum stays above `Floor` (`PlusIsMonotone`), which is why the property
  speaks of sequences that are possible at all. No weight is above 0, so what is above
  `Floor` at the end was above it at every step (`PlusAbove`), where the rows bound any path
  (`RowsAreHeaviest`) and the path that is found attains them (`FoundPathWeighs`).
- `ListedShareAWordHolds`. The invariant is `RowsAreIndex`: the row of a word names
  exactly the questions whose texts it occurs in. `insertQuestion` keeps it for any
  text, and so does an update with any sequence of entries.
- `StoredAsCrawledHolds`. The file is a sequence of records (`AreRecords`), each of texts
  ended by marks at increasing places (`Marks`), as far as the file reaches. Lines are
  ranges between line feeds (`AreLines`). A text may hold line feeds but no carriage
  return, so a line that is `"\r"` is a mark's (`OnlyMarks`) or the first rune of a record's
  end where the file breaks off there (`MarkIsEnd`); only in that case an answer more
  than the record's may be read, and that one is empty and dropped (`AnswersAre`).
  Reading therefore begins, line by line, where records do (`ReadingIsAtRecords`), and
  every entry is of one record: its whole title and the first of its answers. The
  invariant `AreStored` carries this to the tables.

Proved, and in no run: `MutualExclusion`, `ExitedRanSignalled`, `NeverEarly`, and the type
invariants of TcpServer, TcpConnection and TimerQueue.

Only model-checked: liveness, which is outside the prover's reach, as is ENABLED.

## Not modelled

- rapidjson: 16,000 vendored lines of parsing and printing, more than half of the
  repository's code, of which the server uses one call each. The same holds for the
  parts of cppjieba and `limonp` that `CutForSearch` does not reach: the extractors, the
  tagger, the other segmenters, the decoding of UTF-8.
- Logging, strings and addresses; the contents of pages and responses; the loaders
  under `updateData`, which are run by hand.
- Functions nothing calls: `runEvery`, `insertIntoTable`, `deleteFromTable`,
  `updateTable`, `reconnect`, `initMutex`, `handleWrite`, `removeChannel`.
- Failures of `epoll_ctl` on an open descriptor, of `pthread_create`, and of the
  two queries for each counter right after the connection to the database is made
  (`initMySql` aborts if that fails): `getTableLineNum` would go on with 1.
- The branch of `Acceptor::handleRead` for a lack of descriptors: it logs before it uses
  the idle descriptor, and logging opens a file and writes to the null pointer it gets.
- What `handler` allocates and logs, and an update whose file cannot be opened, which
  loops for ever: both certain where they occur.
- The table `user`, see the plan.

`PROJECT.json` gives the reason for each component and each hazard without a property.
