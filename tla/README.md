# A verification of the Grace library

Grace (libgrace, by CloudVPS) is a C++ application framework: strings and
values, files and sockets, threads with event queues, and on top of them an HTTP
server, an SMTP server, a daemon with a log thread, a line editor, a configuration
database, and clients for the same protocols, plain or over SSL. This directory holds TLA+
modules that model its concurrent core, its servers and clients, its streams, the SSL
library they are encrypted with, and the strings, values and formats under them, the TLC configurations that check them, and proofs for
TLAPS.

Paths below are relative to the repository: `src/libgrace/x.cpp` and
`include/grace/x.h`. `PROJECT.json` gives for every definition the lines it models,
for every property the run that checks it and a change of the code (a mutant, in
the modules under a comment `MUTANT`) that breaks it, and the list of hazards.

## 1. The system

### 1.1 Components

| Component | State | Operations | Interacts with |
|---|---|---|---|
| conditional (lock.h, lock.cpp) | pthread mutex and condition, `int queue` | signal, broadcast, wait, wait(timeout) | eventq, thread, httpd, daemon |
| lockbase without rwlocks (lock.cpp 139-398) | status, numlocks, writer, writerupgraded, list of threads | lockr, lockw, trylockr, trylockw, unlock | every `lock<T>` where configure finds no rwlocks |
| lockbase with rwlocks (lock.cpp 19-137) | a pthread_rwlock | the same | every `lock<T>` elsewhere |
| eventq (eventq.cpp) | `lock<value> ipc`, a conditional | send, waitevent, waitevent(timeout), nextevent | thread, daemon |
| thread (thread.h, thread.cpp) | spawned, isrunning, finished, hasfinished; the static THREADLIST | spawn, dorun, shutdown, shutdownall, sendevent, kill | everything that runs |
| threadgroup, groupthread | array of members under a lock | add, remove, gc, broadcastevent, operator[] | httpd, smtpd |
| httpd (httpd.cpp) | pool of workers, tcplock, load; chain of handlers | start, run, shutdown, worker's run, handle | tcplistener, threadgroup |
| smtpd (smtpd.cpp) | the same pool; a session per connection | start, run, shutdown, worker's run | tcplistener, threadgroup |
| smtp client (smtp.cpp) | a socket, the mail being sent | sendmessage, dosmtp | tcpsocket, an SMTP server |
| daemon and logthread (daemon.cpp) | pid file, log targets, backlog, the log thread | daemonize, delayedexit, log, stoplog, signal handlers | eventq, thread |
| statstring, stringrefdb | a search tree of counted nodes under treelock, dirtycount, nuke chain | getref, cpref, unref, reap | every key of every value |
| ringbuffer (ringbuffer.cpp) | array, readcursor, writecursor | add, read, peek, advance, hasline, readline, find | file, codecs |
| file (file.cpp) | descriptor, ringbuffer, feof, nonblocking, codec | gets, waitforline, read, readbuffer, readuntil, puts | sockets, log targets |
| http client (http.cpp) | a tcpsocket that is kept open, host and port | get, post, getChunked, getData, getResult | tcpsocket, value |
| tcpsocket, tcplistener (tcpsocket.cpp) | descriptor, peer, codec; the listening descriptor under a lock | connect, accept, tryaccept, derive, sendfile | file, servers |
| session (session.cpp) | a locked dictionary with times | create, get, set, destroy, expire | httpd |
| socketpool (socketpool.cpp) | list of sockets under a lock | setsize, getsocket, done | http client |
| retain pool (retain.cpp) | lists of fixed-size blocks, a lock each | alloc, free, exit | every returned object |
| configdb (configdb.h, .cpp) | the configuration, a copy per thread | load, watchers, operator[] | daemon |
| str (str.h, str.cpp) | a window on a counted block that strings share, one owner thread per block | copy, cat, insert, crop, cut, pad, replace | everything |
| value, valueindex, dictionary, stringdict | an array of children and a tree over their checksums | look-up, insert, remove, sort, copy | everything |
| codecs of values (value_*.cpp), xmlschema, validator | none between calls | parse, format, check | configdb, clients |
| terminal (terminal.h, terminal.cpp) | the line, the cursor and the window on it, the history | readline, the editing keys, draw | applications, log output |
| strutil, regular expressions, reg.cpp | none | splitting, escaping, masks, substitution | everything |
| filesystem, netdb, system, process, cgi, fswatch | little or none | wrappers of the operating system | applications |
| sslcodec, ssllistener (sslsocket.cpp) | the records not yet decoded and not yet sent, whether the handshake is over, whether plain text passes | setup, addinput, fetchinput, addoutput, doneoutput, tryaccept | tcpsocket, file, matrixssl |
| matrixssl (sslDecode.c, sslEncode.c, matrixSsl.c) | the handshake of each connection, its keys and sequence numbers; the table of sessions of the process | decode, encode, open, delete, and the table's register, resume, update | sslcodec |
| libgrace-pcre, libdbfile, libquerido, udbc | of external libraries | wrappers | applications |

### 1.2 How they interact

An application has one `daemon` whose main thread waits on its own `eventq`. A
server is a `thread` that owns a `threadgroup` of workers. The workers take turns,
under `tcplock`, at accepting a connection, count themselves in a shared `load`
while they serve it, and look at their own `eventq` for `"die"`. Shutdown goes the
other way: an event to the server, events to the workers, `gc` until the group is
empty, and a `conditional` that lets the caller go. Every log line is an event for
the log thread. All of them build on `conditional` and `lock<T>`, and every name in
the program is a `statstring` in one process-wide tree. Every event, session,
configuration and message is a `value`, every `value` and `str` that a function
returns lives in a block of the retain pool, and texts are shared between strings
until one of them writes.

### 1.3 What is hard

- *Lost and doubled wakeups.* `eventq::send` raises the conditional after it has
  left the lock; `thread` waits for a conditional that may have been raised long
  ago. The counter in `conditional` is meant to cover it, and may go negative.
- *Readers and writers by hand.* The fallback lock keeps a status, a count and a
  list that do not always agree; the native one polls.
- *Objects that delete each other.* `gc` deletes a `groupthread` whose pthread is
  still on its way out, and another owner may do the same at once.
- *A pool that sizes itself* from a load that is counted under a shared lock.
- *A tree that is rebuilt while it is in use*, with reference counts that are
  released in one call and taken in another.
- *Text that is shared until it is written*, by strings that are windows on a block
  and by threads that may not touch each other's blocks.
- *Two orders of one set of children*, an array and a tree over checksums that two names
  may share, both kept by hand through sorting and removing.
- *Sessions that are reused.* One connection carries many mails or requests; the
  envelope, the body and the state of the one before are cleared by hand, and the end
  of a body decides where the next request starts.
- *Messages that are kept* until a thread exists that takes them, and files that are
  moved while they are written.
- *Bytes that come in pieces*, a line end in two of them, a full buffer, an old
  `errno`, a timeout in the middle of a chunk, a connection that breaks between a
  mail and the answer to it.
- *Descriptors in two objects*, one of which closes a number that is someone else's.
- *A configuration that changes under its readers*, and watchers that are told of parts
  of it in terms of the part before.
- *A handshake in pieces.* Two ends answer each other's records through a codec that may hold
  half of one, a loop that gives up, and a table of sessions that all connections share.
- *A screen that is changed in place*, from a cursor, a window and a line that move.

### 1.4 What makes each part correct

| Part | Property |
|---|---|
| conditional | no raise is wasted on nobody while a thread sleeps; with one waiter the contract of a remembered raise |
| eventq | each event handed out once, in order, urgent first; a waiter is not left beside an event |
| lock | a writer is alone (a thread that nests locks only up to its first unlock); no thread that could go on is left asleep; writers get their turn |
| thread | started once; `shutdown` returns only after `run`, `shutdownall` too; of the calls of `shutdown` one returns, and every one that sleeps when the thread ends |
| threadgroup | the array is exact through `gc`; no working object is deleted; nobody touches a deleted one |
| httpd and smtpd pools | at least `minthr` workers; a shutdown that is complete and ends |
| session | used in time, it stays, and else it goes; gone, it comes back only by a client that was under way with it: empty by `get`, or with the data the client had got by `set` |
| stringrefdb | a text that is in use has one node, which is found; counts and dirty text exact; no leak |
| retain pool | a block has one object, whoever allocates, frees and extends at once |
| str | a string shows what a real copy would, whoever shares its block |
| value, dictionary | what was put there is found, by name, position and index, and nothing else |
| codecs | what is written is read back as what it was; a text that has lost its end is refused |
| masks | a mask matches what its wildcards mean |
| ring and file | no byte lost, doubled or overtaken; lines whole; the end only at the end |
| getChunked | true only with the whole body, and nothing but the body on the way |
| daemon log | each message logged once and in order, through the start of the log thread; `stoplog` leaves none behind; the files hold the latest, whatever was rotated away |
| smtpd | a mail is delivered with what was agreed for it and nothing of an earlier one; text and commands are never confused |
| smtp client | what it believes of the mail it sent is so |
| httpd session | requests and bodies as they were sent; nothing behind an authentication without it; the Connection header is kept |
| sockets | an open descriptor has one holder, and none is left behind |
| configdb | watchers hear of exactly what is in the new configuration; threads are not behind |
| sslcodec | what one end says the other hears, once and in order, through every handshake |
| matrixssl | ends that are done agree on the secret and the keys; a session in the table has the secret of its id and one user |
| terminal | the line is what the keys say, the history keeps it, and the screen shows it |


## 2. Modules

| Module | Models | State and actions |
|---|---|---|
| `Conditional` | class conditional | `queue`; `sleeping` and `woken` split `pthread_cond_wait`. `CondSignal`, `CondBroadcast`, `CondTake` / `CondSleep` / `CondWake` / `CondTimeout` / `CondSpurious`. Extended by all users of a conditional |
| `RaiseContract` | what lock.h says of it | abstract: remembered raises, blocked and released threads |
| `ConditionalUse` | a conditional with arbitrary users | adds the bound on raises; `Contract` is the refinement mapping |
| `EventQueue` | class eventq | `ipc`, and a program counter per thread; what is inside `exclusivesection` is one action, `raise` and the waits are outside of it |
| `Mailbox` | what eventq.h says of it | abstract: a box, who waits, what was handed out, with the promise `Answered` |
| `FallbackLock` | lockbase without rwlocks | the fields of the class, `asleep`, `pc`; `holds`, what a thread was let into and has not unlocked since, and `owed`, the unlocks it has still to make. An iteration of a loop under the mutex is one action; a call that finds its thread in the list (`addme`) goes on uncounted (`PassedBy`) |
| `NativeLock` | lockbase over pthread_rwlock, in the build with timed locks and the one that polls | the rwlock of the system (external), and what each thread does and believes |
| `ThreadLife` | class thread: one object, its pthreads, its callers | the flags, the list, the steps of `spawn`, `dorun`, `shutdown`, `shutdownall`, `kill` |
| `ThreadGroup` | threadgroup, groupthread, the end of `dorun` | the array with what its free slots still hold, a heap of addresses that are used again, `stray` for accesses to what is gone |
| `WorkerPool` | what httpd and smtpd workers share | `members`, `die`, `tcplock`, `load`; the two halves of each count |
| `Httpd` | httpd::run, shutdown | extends `WorkerPool` with the main thread |
| `Smtpd` | smtpd::run, shutdown | the same for smtpd: its own decision to grow or skim, and a flag that both sides poll |
| `SessionList` | sessionlist | the sessions with their times, and what clients have been given |
| `SmtpSession` | a connection of an smtpworker | `st`, `env`, `mailbody` as in the code, `secrets` for the lines AUTH reads; `client` is what the other side was told. One action per command and state |
| `SmtpClient` | smtpsocket::dosmtp against `SmtpSession` | the step of the exchange, a connection that may break before or behind any line, what the client believes and what the server delivered |
| `HttpSession` | a connection of an httpdworker, httpd::handle | what the client sends as a stream, how much of it is in the ring, the request being read, and `handled`, what `handle` was called with and what it did |
| `DaemonLog` | daemon::log, stoplog, logthread | the messages kept before detaching, the queue of the log thread, its files with their sizes and their rotation |
| `StringRefDb` | stringrefdb, statstring | the tree, the nuke chain, counts, `dirty`, the statstrings |
| `RetainPool` | retainlist, the pools of blocks | the list of size pools, the blocks and their extensions, and each step of `alloc` and `free` between their locks |
| `FileInput` | ringbuffer; reading in file.cpp | operators on a record of the buffer and its two cursors; the stream as the peer sends it, `errno`, `feof`, the call in progress and its stage |
| `ChunkedBody` | httpsocket::getChunked | extends `FileInput`; its steps between the calls it makes. `ChunkAt` says what a response is: chunks, the last of them empty, larger than the limit, or not there because the server hung up |
| `Sockets` | the descriptors of tcpsocket and tcplistener | `filno` of each object, which numbers are open and for whom, and each way a call can fail |
| `Terminal` | terminal::readline, termbuffer | the buffer, its size, the cursor and the window, the history, the screen with its cursor, and beside them the line as the keys describe it |
| `ConfigDb` | configdb | the configuration and its copies, times and reloads; `load` with its watchers is one action, as it is under the lock |
| `StrBlocks` | str: blocks, windows, sharing | the blocks with count and owner thread, the strings as offset and length, and `means`, what each would be if nothing were shared |
| `ValueTree` | the children of a value, valueindex; dictionary, stringdict | names and their checksums, the array, the tree over checksums, names and contents; of a dictionary its tree, the order of its entries, and what was put there |
| `TextFormats` | a value as the codecs see it, strutil as they use it; JSON, serialized PHP, CSV and XML | operators: a writer and a reader each |
| `Serial` | msgpack and SHoX; a text of any format between its writer and its reader | their operators; the value, the format, and what is cut off or added |
| `Scalars` | the data of one value: its types and its union, conversions, comparisons, amounts | the fields of the object beside what it was given last |
| `Wildcard` | masks with wildcards | `_wild_match`, and what a mask means |
| `MatrixSsl` | the SSL library: handshake, records, table of sessions | operators from one step of an end to the next, on a record of its context, the table and the clock; cryptography is symbolic |
| `SslCodec` | sslcodec, ssllistener, the loops of connect and tryaccept, reading and writing with a codec | per connection its two ends with what is on the wire, in the codec's buffers and heard; the table and the clock |
| `MCSync`, `MCProgress`, `MCPools`, `MCServers`, `MCValues`, `MCTexts` | | put several components side by side for TLC: a behaviour is one of `part`, what takes no part stands still |
| `QueueLockProofs`, `ProgressProofs`, `PoolsProofs`, `SyncProofs`, `ServersProofs`, `MailProofs`, `StreamProofs`, `Induction` | | theorems, section 5 |

Choices that hold throughout:

- What runs under a mutex, or inside `exclusivesection` when every other access is
  too, is one action. Each access outside one is a step of its own.
- `exclusiveaccess` takes a *shared* lock (lock.h 333), so `load.o++` is two steps
  in `WorkerPool`.
- The events and messages are model values; the checksum of a name is a number
  that two names may share; a byte is a line feed, a carriage return, a digit or
  anything else. In the formats a number, `true` and the name of a type are one
  character of a text each; in the packed ones a byte is a number below 256.
- An address that was freed may be handed out again (`ThreadGroup`, `StringRefDb`,
  `StrBlocks`), and so may a descriptor (`Sockets`).
- The uninitialised fields of the fallback lock start with any value of `Garbage`.
- `StringRefDb` assumes that no name has the key of the root, 0x80000000. The
  constructor sets `sequence` to 0 after the root has drawn its id from it
  (statstring.h 58), so the root's id may be that of the first node; as the ids
  decide only between equal keys, it matters to such a name alone.
- Where a model restricts what it is used for, the comment of the module says so, and
  section 6 what happens outside of it.

## 3. Runs

| Run | Question | Bounds, and why they are enough |
|---|---|---|
| `sync` (MCSync) | do conditional, eventq, both locks, the retain pool and the log keep their safety with every method in use and more threads than they were made for? | three waiters, four raises: a broadcast, a late signal and a debt below zero meet. Two senders, two receivers, three events: a normal, an urgent and a polled one cross. Three lock users. Two threads that allocate and free blocks of two sizes while the list of pools grows. Up to four messages of each of two threads to two targets, files of one message and two old ones: some are kept, some late, and a file is rotated away |
| `progress` (MCProgress) | used as the library uses them: is one receiver ever asleep beside an event, does eventq implement `Mailbox` with its promise, is a writer alone and does it get its turn, with locks inside of locks, does the raise at the end of a thread wake every shutdown that sleeps and is it lost on none, and does a shutdown return only when the work is over? | three events of two senders overtake both the wait and each other. Four lock users: a writer that waits, one that writes, two readers; two of them take two locks at a time, so that one has unlocked once while others come in. One object with one spawner and three callers of three `shutdown` and of `shutdownall`: all three sleep when it ends, or one comes behind the raise and never returns; two pthreads could be made, one is |
| `pools` (MCPools) | the pools of httpd and smtpd with their shutdown, races on `load` included, and the session list of httpd | minthr 2, maxthr 3: grows, skims, is full; two connections serve at once. Two clients, one uuid that both know, and a thread that expires |
| `servers` (MCServers) | names, streams, chunked bodies, a threadgroup, both protocols and the SMTP client, the editor, descriptors, the configuration | six names, two of one key, five addresses and a limit of three characters: several cleanups, nodes with two subtrees, reuse. A ring of eight cells with a margin of two: every wrap, a line that does not fit and one that is a byte too long for gets, a chunk larger than the ring, a server that hangs up in the place of the last chunk. Three workers at two addresses: one is used again. Mails of two recipients and two lines. Six conversations of two to four requests, with bodies, refusals of each kind, every version and wish, cut at every place. Five keys on a line longer than its window. Four numbers of descriptors over two sockets and a listener. Two loads within and across a second |
| `values` (MCValues) | strings that share blocks, the children of values, dictionaries | three strings of two threads, four calls: a copy of a copy is written by either side. Names of which two have one checksum, up to four children: the tree has nodes with two subtrees and equal keys. Three entries in two dictionaries |
| `texts` (MCTexts) | do six formats return what was written, do masks match what they mean, is the data of a value what was assigned? | every pair of thirteen kinds of data, within each other and beside each other, named and unnamed, with attributes and classes, sixteen children where msgpack needs a wider opcode; each text cut at each place. Masks up to four characters over texts up to four. Ints of four bits and longs of sixteen, their first and last numbers, three calls: a union that was written as one type, overwritten as another and copied |
| `secure` (SslCodec) | connections over SSL to one server: do both ends hear what was said and agree on their keys, are the sessions kept apart? | two connections and a table of one or two sessions, so that the second client resumes, is refused its old session, or meets a full table; clients of Grace, of the library itself and of plain text; certificates that are trusted, or not, or not looked at; reads cut at the head of every record; three rounds of the loop that accepts (16 in the code), so that it gives up; a buffer of two records that grows to eight. The second connection is always of the library's own client (`Brief`), and the table is never asked for an entry it has not (`Crowded`) |
| `conditional_doc` (ConditionalUse) | "sleep until the condition is raised": violated, see 6 | three waiters |
| `fallback_try` (FallbackLock) | exclusion with `trylockw`: violated, see 6 | |
| `thread_all` (ThreadLife) | "shutdown all threads": violated, see 6 | |
| `group_tail` (ThreadGroup) | does a worker that ends touch its deleted object? violated, see 6 | |
| `chunked_timeout` (MCServers) | the bodies of `servers`, with a timeout: violated, see 6 | |

A mutant of each property, and of each part of one that several parts share, is in
`PROJECT.json`: the run that checks the property refutes it.

Bounds are named in the configurations: `MaxRaises`, `MaxDebt`, `QueueDebt`,
`MaxDrift` (counters that nothing in the code bounds), `MaxNest`, `MaxShutdowns`, `MaxMail`,
`MaxConnections`, `MaxRcpts`, `MaxBody`, `MaxCalls`, `MaxChanges`, `MaxKeys`, `MaxLoads`,
`MaxMessages` and their like; in `HttpSession` `RingRoom` and `HttpReadbuf` (what the
ring holds and what one read brings, counted in lines), in `FileInput` the sizes
`Count`, `Margin`, `MinRoom`, `Readbuf`, which stand for 16384, 256, 256 and 4096 or
so in the code, and in `Terminal` the sizes of the buffer and of the window. Symmetry
is used only in runs without liveness, over identities that no guard or initial
state distinguishes.

`CHECK_DEADLOCK FALSE` is set where the system may rightly stop: all raises made,
all events sent, all objects over, the connection closed, the text read, or, in
`ThreadLife`, the process killed.

### Fairness

Only threads inside a method are scheduled (weak fairness of the steps they can
take alone), timed waits end, critical sections and sessions end. Nobody is obliged to
call anything, to send, or to connect. `progress` also assumes that `run` takes the
event it is sent, which is the contract of a derived class of thread, and `pools` that
the main thread of smtpd wakes from its sleep. Connections are not obliged to keep
coming, nor to stop by themselves: a worker hears that it is to die only once none
comes for a while (httpd.cpp 638), and `MaxConns` stands for that. In a run of several
parts the fairness of each speaks of its part alone. `sync`, `servers`, `values`,
`texts` and `secure` state no fairness and check safety only.

## 4. Hazards

`PROJECT.json` lists at their lines the ones that a run reaches; a note says what a
property leaves out. Smaller ones, which no property covers: the EDEADLK taken for success
(lock.cpp 25) and the unnormalised timeout (lock.cpp 436); spawn after a failed
pthread_create (thread.cpp 125); the statements about a failed worker in httpd (httpd.cpp
660); signal handlers that take locks (daemon.cpp 563), the pid file that two daemons may
both pass (daemon.cpp 85), rotation over failed moves (daemon.cpp 693); a kill that ends
the process (thread.h 191); fork with locks held (process.cpp 27); setsize returning with
the lock (socketpool.cpp 127); the second assignment of a statstring to itself
(statstring.cpp 422), its comparison with a string (statstring.h 395); a ring below 256
bytes (ringbuffer.cpp 88); the headers deleted twice (http.cpp 700); sendfile and timeout
arithmetic (tcpsocket.cpp 1111, 1031).

## 5. Proofs

Checked by TLAPS for all values of the constants, from the named assumptions in the
modules (finite sets of threads, natural bounds) and no others.

- `QueueLockProofs`: of the event queue the types; `NoLossNoDuplicate` by the properties of
  appending, prepending and taking (`PutProperties`, `TakeProperties`);
  `ImplementsMailbox`, step by step; and `NoLostWakeup` for one receiver. The last is not inductive: it needs
  that the signals counted, those still to come and the one just used cover what is
  pending (`SignalsCoverEvents`, lemma `AccountedAlways`).
  Of the fallback lock the types, whatever the methods; for users of lockr,
  lockw and trylockr (`TryWriters` and `Upgraders` empty; section 6 says what trylockw and
  an upgrade do), the invariant that `numlocks` is the number of holders and that the
  status says who they are, kept by a turn of either loop and by unlock; from it
  `WritersAreAlone` and `NobodyForgotten`. A thread that locks inside of its own lock
  holds it up to its first unlock (`Owned`: who is in the list holds something or waits),
  and of what it does between that one and its last nothing is claimed. Where each thread is, inside of a method and in the list (`Placed`), comes
  with the types, as a call passes or not by the list. Of the native lock, where it has timeouts and only read locks nest
  (`NativeUse`), `NativeWritersAreAlone`: what a thread believes it has is of one kind
  (`OneKind`), who is inside of a method may be let on by it (`Admissible`), and the
  rwlock counts what all the threads together believe (`Agreed`).
- `ProgressProofs`: of the life of a thread,
  `LivesOnce`, if one thread calls spawn (`OneSpawner`; two of them start the object
  twice, section 6): at most one pthread was made, by the spawner that found none, and
  is marked by it (`MadeOnce`), so that the flags say where that one is (`FlagsFit`), and
  hasfinished was raised after its run only (`RaisedLate`). `ProgressTypes` puts queue,
  lock and thread together, as `MCProgress` does.
- `PoolsProofs`: of httpd, before the collection starts only the first worker of the
  array is ever asked to die, the members are distinct, and more than `MinThr` of them
  are there when one is; from it `HttpdMinimumKept` and `HttpdShutdownIsComplete`,
  whatever the races make of `load`. `SmtpdPoolIsKept` rests on the same facts of the
  array, and on a shutdown that found a worker having set the flag. The sessions: the ids
  of the list are distinct and were issued, and the time of each is that of its last use
  (`TimesAgree`), whatever expire has removed in between; each step then satisfies
  `SessionsKept`, in which a session that a client was under way with comes back empty by
  `get` or with that client's data by `set`, and no other does. `PoolsTypeCorrect` puts the three together, as `MCPools` does.
- `SyncProofs`: of the conditional the types; `RaisesUsed`, that no raise is wasted, from the
  sizes of `sleeping` and `woken` as each step changes them by one thread or empties
  one into the other; with one waiter `OneWaiterCovered`, and `OneWaiterContract`:
  the class implements `RaiseContract`. Of the retain pool, whoever looks for a block is in a size pool that
  was made (`Standing`), and the list leads to none that was not (`Heap`): `RetainTypeCorrect`;
  every block that is wired was made, and a block that is not wired has no owner:
  `BlocksAreNotShared`. Of the log, `LogIsKept`, if nobody logs beside the first thread
  until the kept messages are out (`Early` empty). One invariant (`LogInv`) counts for
  each logger what was sent of the numbers it drew, and places "die" behind all that
  was due. The other (`AllFilesKept`) says that what a target took is some text, empty
  until all rotated files are there, followed by what its files hold. `SyncTypes` puts
  the classes of `MCSync` together, under the assumptions on the native lock and the log.
- `ServersProofs`: `DescriptorsAreHeldOnce`, number by number for those that no two
  hands may close (`Sound`), with the references of each codec counted by the objects
  that have it; of the numbers in two hands it says only how they got there (`TwinsAreFaults`:
  a failed bind, a derive by reference, a listener that does not listen), not what becomes of them; `GroupIsExact` for a group that one thread uses, from what an object
  and its thread know of each other and what a scan may count on (`Steady`).
  `RequestsAreHandled`, for every conversation, every chain of objects and every place
  where the connection may end, if no body is cut for want of room (`BodiesFit`, which
  section 6 is about, and `Asking`, what a client does): the invariant says that what the
  worker took ends at a line of the request whose turn it is, counted in the stream
  (`Sent`), and that the headers it has are those of the lines it passed (`Gathered`); that read leaves at most
  what one more call brought (`Consumed`) is why the body fits. The stream itself is
  taken apart by the lemmas on FlattenSeq (`Flattened`, `StreamJoined`, `Positions`).
- `MailProofs`: `SessionsAgree`, for every client, from what `env` has in each state and
  what the client was told of it (`EnvInv`). `MailsAreKept`, for every set of mails and
  every place where the connection breaks: as long as the mail is under way, what the server
  has taken, what stands in the connection and what is still to be sent are together the
  commands of that mail and its text, in the step that dosmtp is in; the lines behind a dot
  that the escape missed are read as commands and refused, for which the texts are
  assumed to have no line that reads as one (`MessagesAssumption`, section 6). So true
  does not mean that the mail is whole: `SentMeans` says that its text is there up to the first
  dot that the escape missed, hence all of it if there is none.
- `StreamProofs`: `StreamIsExact`, for every stream, every way in which it arrives, and every
  size of ring and read, from the assumptions on those (`FileAssumption`): the bytes of the
  ring are those of the stream behind what was handed out (`Kept`), which add, peek and the
  moves of the cursors keep across every wrap (`AddIs`, `PeekIs`, `AdvanceIs`); a line
  was cut at its end (`LinesWhole`); `feof` is set only when the peer is gone and the
  ring has been filled with all it sent, or with a line that does not fit (`EofIsEnd`). What every
  step of a method does is put into one formula (`Effect`) that keeps this. `BodyIsExact`,
  which is `ReadAsSent` for every chunked response (`ResponsesAssumption`: what it is made
  of, and that a line of two bytes fits the ring), without a timeout as the property has it: getChunked is before
  a chunk, within one, or between one and its line end, and knows how much of it is left (`Place`); gets
  then gives the line that stands there and read a part of the chunk (`GetsOutcome`,
  `ReadOutcome`), or the connection was lost and nothing more is taken into the body.
- `Induction`: induction over the numbers for sets, and from it that a function defined by
  recursion over 0 .. N exists and has the values its steps give it (`StepsExist`,
  `StepsComputed`, `SameSteps`), and that a set of numbers has a least one. `Taken` and
  `Oldest` of `DaemonLog`, the stream of `HttpSession`, the loop of expire and the lowest
  free descriptor are reasoned about with these, as the library's theorems of induction take operators, which no
  prover here instantiates.

Only model-checked: all liveness, which is out of reach of the prover; the bodies of
getChunked with a timeout, which `chunked_timeout` refutes; the invariants of `StrBlocks`, `ValueTree`,
`Scalars` and `SslCodec`; what is computed by RECURSIVE
operators, which the prover does not take: `StringRefDb`, the formats, `Terminal`,
`ConfigDb`, `Wildcard`; and the types of the system of `MCServers`, which uses those.

## 6. Where the code and its documents disagree

Each of these is a run that TLC refutes:

- `conditional_doc`: wait() can return without a raise. Several waiters that are woken
  by one broadcast take one each, the counter goes negative, and "not zero" is taken
  for "raised" (lock.cpp 415).
- `fallback_try`: trylockw does not count itself in `numlocks`, so its unlock leaves a
  count of -1, and later a lock that is given up with a reader still in it.
- `thread_all`: a thread that was spawned and has not reached THREADLIST is not asked
  to shut down, and shutdownall returns.
- `group_tail`: gc deletes the object between `finished = true` and the broadcast of
  `hasfinished` in the same object.
- `chunked_timeout`: with a timeout set, a chunk in several pieces is asked for with
  its full size again (http.cpp 460), so the framing of the next is taken with it; and
  waitforline leaves an empty line in the buffer (file.cpp 839).

The following was seen while modelling. The properties leave it out, each where its
comment says so, because it lies outside of what they claim or of how the library
itself uses the class.

**Locks, threads, pools**

- An upgrade in the fallback lock that finds a writer pending goes on at once, because
  `numlocks = 1` is an assignment; a pending writer is overtaken by readers that come
  when it is let in (lock.cpp 261, lock.h 155).
- A thread that calls lockr or lockw inside of its own lock is found in the list by addme()
  and goes on uncounted (lock.cpp 153, 188); its first unlock takes it out of the list and
  gives the lock up, and the second does nothing but wake the others (lock.cpp 244). Between the two
  a writer may come in beside it. `MutualExclusion` is checked with threads that do this
  (`Nesters`) and leaves out what they do from the first unlock to the last; asked of that
  as well, TLC finds the writer beside the reader.
- The native trylockw that polls asks for the read lock (lock.cpp 113): two threads
  believe that they write. No Linux build has it; `NativeLock` does with `Timedlock`
  FALSE.
- A spurious wakeup makes `conditional` lose a raise, and the receiver the wakeup of an
  event; `progress` therefore runs without.
- Two threads that spawn one object start it twice (thread.cpp 120). A shutdown
  that has not slept by the time of the raise may find it used by another caller, and then never
  returns (thread.h 156), nor does one of an object that never
  ran: `ShutdownReturns` is about those asleep at the raise, and about one call at
  least.
- `group[count()]` reads a slot past the end (thread.h 284); two owners that gc at once delete a working object (thread.cpp 169); gc passes by the neighbour of one it
  deletes (thread.cpp 165).
- The retain pool says "Free all memory" (retain.h 89); its exit leaves the blocks in use.
- `get` of a session makes the one it does not find: an expired or destroyed session comes
  back, empty, under its old name (session.cpp 73). `set` puts in what it is given, whether the
  session is there or not: one that expired or was destroyed since the client's `get` comes back
  with its old data and the client's change, and of two clients with one session the last
  `set` wins (session.cpp 87). `SessionsKept` permits these, and no other way back.
- `setsize` of a socketpool never sets `first`, so getsocket finds no socket, and it
  returns with the lock held when the new count is larger (socketpool.cpp 127).
- The daemon loses the messages it kept when nothing is logged after it has detached
  (daemon.cpp 437), and logs them twice when two threads log first at once; a second
  `stoplog` never returns, and messages after the first vanish (daemon.cpp 585).

**Streams, servers and clients**

- gets takes a buffer full of one line for the end of the file (file.cpp 640), and one byte
  earlier too: with room for a single byte it asks for none, and the answer of 0 is that of the
  end. `EofIsEnd` speaks of streams whose lines fit (`LinesFit`, which the proof showed to need
  that byte). waitforline and gets cut a line at the limit and
  return its line end as an empty line later.
- The httpd worker takes a body with one `read`, which is cut to the room in the ring of 16 KB
  (httpd.cpp 764, file.cpp 979), while defaults.h 87 allows posts of 2 MB: the page gets a
  part, and the rest is read as the next request. `BodiesFit` excludes these bodies.
- A DELETE with a body: it is not read, so it is taken for the next request, which the
  conversations of `servers` leave out; a Content-length behind the 48th header is not
  seen (httpd.cpp 713); a post cut by the end of the connection is handled with what
  came; exceptions of a worker are reported with the class "errpr" (httpd.cpp 855).
- smtpd::shutdown before the first worker returns and changes nothing (smtpd.cpp 96);
  there is no RSET; two workers may draw one transaction id when both seed in one
  second (smtpd.cpp 570).
- The dot escape of the client (smtp.cpp 312) misses a dot on the first and the last line
  and one behind another line of a dot, and smtpd never undoes it: such a mail ends
  early or arrives with dots doubled. A connection cut within a line that begins with a
  dot delivers a cut mail; an answer lost behind the last dot makes dosmtp return false
  for a mail that was delivered. What stands behind a missed dot is read as commands; the
  texts of the model have no line that reads as one (`MessagesAssumption`).
- `derive` from a reference leaves the number in the source, where the header says that
  it takes it over (tcpsocket.cpp 713); a failed bind leaves a closed number; a listener
  that never listened closes descriptor 0, one whose listento failed closes it again;
  uconnect and derive onto an open socket leak its descriptor; connect returns false with
  the socket open when the codec throws; tryaccept multiplies the fraction of its
  timeout by 10000 (tcpsocket.cpp 1031).

**SSL**

- A connection that got no entry in the session table, because all were in use, writes its
  secret into entry 0 when it is updated (matrixSsl.c); the search for the "oldest unused
  entry" starts from the time of entry 0 and finds none older when that is in use.
- `connect` takes the handshake for over when a read ends between two records, and when the
  server closes in the middle of it; a codec that throws leaves the descriptor open. A
  server that resumes a session takes the handshake for over only when data comes: a client that
  waits for it to speak first is given up after 16 rounds (sslsocket.cpp 327).
- fetchinput with less room than the record in the ring hands out the end of it twice; it drops
  the alert that the library wrote for the peer, and an alert that came stays in the input; close
  sends no close_notify; a part of the output that was not sent is not tried again; tryaccept uses
  a socket that it has deleted when the peer closes or the rounds are over, and openwrite writes
  the codec's output without taking it from there.
- The lock of the session table does nothing in this build, so that two threads may change it at once.

**Configuration, editor, masks**

- ConfigDb: a path with a star compares every new item with the first old one; a path
  that is in neither tree hears create and remove, a removed item change and remove;
  only the last star iterates; a second load within one second leaves threads with the
  copy of the first; a section that gets children but keeps its own data has not changed
  (configdb.h 332-400).
- Terminal: clearleft in mid-line leaves the old tail (terminal.h 161), clearright the
  character under the cursor; a buffer filled from the middle has no terminator, and set
  may write one character behind it; backspace tears UTF-8 characters; draw compares the
  first byte of each; wordright may leave the window; crup pushes drafts into the
  history and crdown past its end appends empty entries.
- Wildcard masks: a `?` before the first star or percent sign stands for itself; masks that mix
  `%` with `*` or `?` miss matches (reg.cpp 94).

**Strings**

- crop of a negative size where more than `cropcopylimit` goes moves the text to the start of
  the block and not of the window (str.cpp 1728), though str.h 616 says that it keeps
  the rightmost part. The run `values` crops such strings only from windows that begin their block.
- escape and unescape read past a window; cutafterlast stops when its first match is at 0,
  copyafterlast of a string skips one character; striplf and trim keep one character of a
  blank string; a write through operator[] beyond the end is lost; counts have 16 bits; a
  block emptied by strcat is leaked.

**Values**

- `v = v["a"]` clears `v` before it copies, `v["a"] = v` recurses (value.cpp 599); an index
  below minus the size reads outside of the array (value.cpp 1410); getposition beyond the
  named children appends one without a name behind them; zip copies where it should swap
  (value.h 1092); treecmp is not symmetric; removal by the key 31337 removes the last
  child; sort does nothing to children of mixed kinds; naturalLabelSort assigns in its
  loop condition; the first() of an empty valueindex reads NULL; a dictionary leaks what
  it removes, its demand by number links on the wrong side, and stringdict's get is one
  off.
- The assignment of a returned value of the same thread loses an amount (value.cpp 675);
  `<=`, `>=`, `==` and `!=` with a long or an amount on the right read a long out of the
  union of the left, whatever it is (value.cpp 2302), where `<` and `>` convert, and those
  compare whole amounts; ulval of an amount counts thousandths, dval knows no date; an
  assigned date takes the class of the value. Amounts below zero have texts that are
  not read again, and between -0.005 and -0.995 lose their sign (currency.cpp 418).

**Formats**

- msgpack: ints from -1 to -32 are written from 0xe0 downwards, so only -16 survives; larger
  ones have no opcode; an empty string is read as all the text behind it; the count of a cut
  text is not initialised.
- JSON: an array that ends in a fraction, a space before `]`, and anything but an array
  or an object at the top are refused; a string without its end is read past the text;
  `\u` is not read; unset is written as an empty string.
- SHoX: an address that was cut is not noticed; the number behind the text reads as 0;
  the class of a number of four bytes is marked as three; amounts are written without data.
- PHP: the reader does not say whether it succeeded, puts a scalar at the top into a child
  without a name, and gives doubles as strings.
- CSV: without headers no column is read; unset, unsigned, long and date cells write
  nothing and shift their row; savecsv writes line ends raw, which loadcsv does not read.
- XML: a root without children is refused; a text that ends in `<` is read until its
  index wraps; what was cut behind the header is accepted as empty; of several values of
  an attribute of the root the first is kept, empty ones are dropped; classes are lost
  below the root.


## 7. Plan

The theorem that is left is the invariant of the trees of `ValueTree`: that below each node
the checksums lie on their sides, which what demand and the removals make keeps, so that every
name is found.

Components that are left: socketpool once it finds its sockets, writing of files with a
codec, fork in process, and the parts that section 8 leaves out of partly modelled ones.

## 8. Not modelled

- Wrappers of the operating system and of external libraries, whose state is theirs:
  filesystem, netdb, system, udpsocket, fswatch, libgrace-pcre, libdbfile, libquerido, udbc.
- Of matrixssl the ciphers, the digests and the certificates, the lengths inside of messages,
  client authentication and the SSL 2 hello; `mozillacerts.cpp` is data.
- One pass over input with nothing kept: application, cgi, the presentation of httpd
  fileshare.
- The declarations of the headers, and overloads that only forward.
- Of partly modelled components: transaction ids and events of smtpd, the templates and virtual
  hosts of httpd, the connecting and redirects of the http client, headers, wrapping and
  paths in strutil, formatting and searches of str, the signal handlers and the pid file of
  daemon, command completion of the terminal. `PROJECT.json` says it of each.
- Build scripts, tests and packaging; the tests were read for what they expect.
