# suil in TLA+

suil is a C++ framework for network services. It runs on libmill: a process
has one thread and many *coroutines*, which give up the processor only at
channel operations, at waits for a descriptor or a timer, at `yield()` and at
`go()`. Several worker processes may be forked, which share memory. This
project models the parts of suil whose correctness depends on how coroutines
and processes interleave, checks them with TLC on small instances, and proves
the central properties with TLAPS for every instance.

How libmill schedules matters everywhere:

- `go(f())` runs `f` at once; the caller goes to the end of the ready queue
  and continues when its turn comes;
- `yield()` puts the caller at the end of the ready queue;
- timers and descriptors make coroutines ready, they do not run them; events
  of descriptors are taken before expired timers (`deps/libmill/poller.c:103-119`);
- at most one coroutine may wait to read and one to write a descriptor
  (`deps/libmill/epoll.inc:92-100`), otherwise the process panics.

The models do not fix the order of the ready queue: an action runs any ready
coroutine to its next suspension. That allows every order that depends on
what else the process does.

## Inventory

| component | state | operations | what is hard | what makes it correct |
|---|---|---|---|---|
| Ticket lock (`worker.cpp:423-481`) | `Serving`, `Next`, `On` in shared memory | `reset`, `Lock`, `~Lock`, `cancel` | processes interleave at every access; a 64-bit counter kept in an `int` | one caller inside, in order of arrival, everybody served |
| Worker group (`worker.cpp:26-417`, `init.cpp`) | table of workers, `nActive`, pids | `init`, `launch`, `exit`, signal handlers | forks, deaths, signals that come early or merge | counts match the living; the super process ends when the workers have |
| PostgreSQL pool (`sql/pgsql.*`) | deque of idle connections, `cleaning`, reference counts, the cleaner's locals | `connection`, `open`, `get`, `put`, `free`, `cleanup`, destructor | the cleaner sleeps and yields while others borrow and return; its time-out races with the destructor | one owner per connection, idle ones closed in time, no cleaner lost, destructor returns |
| Channel (`channel.h`) | libmill channel, count and deadline of the next wait | `<<`, `>>`, `()`, `[]`, `\|`, `!` | a wait for 0, a time-out that races with a writer | a wait ends after n values, a termination or the deadline |
| Web socket hub (`http/wsock.*`) | map of sockets and their number, one coroutine per socket, broadcast and `bsend()` | `handle`, `send`, `broadcast`, `bsend` | the map changes while a broadcast walks over it; several writers per socket | exact registry, one copy to each, the message freed after the last use |
| HTTP connection (`http/connection.h`, `request.cpp`, `response.cpp`) | parser, body offload, `close_`, middleware contexts | receive headers and body, before/after, send | requests cut into reads anywhere, pipelined, keep-alive with errors at each stage | one response per request, in order; a handler gets the whole body; every wait of a connection ends |
| HTTP server (`net.h`, `http/endpoint.h`) | `exiting`, listening socket | `run`, `stop`, `handle` | reference to a local of the accept loop, stop during accept | every accepted socket handled and closed once |
| File server (`http/fserver.*`) | cache of files | `get`, `head`, `load_file`, `read_file` | reload while a response points to the old data | a response sends one version |
| Redis client (`redis.*`) | socket, entries of a response, `in_multi` | `dosend`, `recvresp`, `multi`, `exec`, `discard` | nested replies, late replies after a time-out, transactions that fail half way | reply n answers command n; a transaction runs as a whole or not |
| RPC (`rpc/*`) | id generator, method tables | request, batch, response | batches, errors | response ids are the request ids |
| Child processes (`process.*`) | table of pids, notification pipe, readers | `start`, `waitExit`, `terminate`, SIGCHLD | signal before or after the flag is set, readers that outlive the object | a wait ends when the child does |
| HTTP client (`http/client*`) | session, socket | `perform`, `connect` | reuse of a socket after a time-out | response n answers request n |
| Routing (`http/routing.*`) | rules, trie, one object of parameters per search | add, optimize, find, before, handle | merging of edges, parameters shared by the branches of a search | the first rule that fits, with its own parameters |
| Sessions (`http/auth.*`, `http/middlewares.h`) | a context per request, a Redis hash shared by all | before, after, authorize, revoke | other logins and logouts between two Redis commands, commands that run late, expiry | only a current token opens a route, a logout deletes the session |
| Query strings, validators | tables | parse, verify | pure | agree with a reference |
| Codecs and containers | buffers | encode, decode | boundaries | decode inverts encode |
| Templates, mail, configuration, logging, ORM, tools | little | text and I/O | - | - |

The components call each other as libraries do: an endpoint owns a server,
whose coroutines run connections; handlers use the database middleware, which
borrows a connection from the pool before the handler and returns it after;
a handshake turns a connection into a web socket. Channels carry the results
of coroutines. Only the lock and the worker table are shared by processes.

## Modules

**`SpinLock`** models `Lock_t` and `Lock`. Each access of shared memory is an
action: `Draw` (the fetch-and-add of `Lock::spin_lock`), `ReadOn` and `Compare`
(the two operands of the loop condition; a failed comparison is the `yield()`),
`Unlock`, `Cancel`. `ToInt` and `ToCtr` are the implicit conversions between
the `uint64_t` counters and the `int` ticket. `Proc` stands for coroutines of
any process. The time-out of `spin_lock` is left out: the function is private
and its only caller passes -1. **`FifoLock`** says what a user of the lock may
rely on, without tickets.

**`PgSqlPool`** models `PgSqlDb` and the life of a `PgSqlConnection`.
`Connect`/`Retry` are `connection()` up to and after its `yield()`s, with the
three outcomes of `open()`; `Share` is `get()`, `Put` is `put()`, `close()` or
the destructor, with `destroy()` and `free()` and, where `free()` starts it,
the first part of `cleanup()`. `TimerFires`, `StartPrune`, `ResumePrune` and
`Notified` are `cleanup()` between its suspensions. `Destroy`/`DestroySpin` are
`~PgSqlDb`; it starts when no coroutine uses the database, as the lifetime of
the object demands. A `PGconn` is a member of `Conn`, `open` the set the server
sees. A connection that `open()` forgets when `PQsetnonblocking` fails
(`pgsql.cpp:179-181`) is recorded in `leaked`. The prune loop keeps an iterator
over a `yield()`; it is taken to be the front of the deque.

**`WebSockHub`** models `WebSock::handle()`, the writers of a socket and
broadcasts. `Walk` is the loop of `WebSockApi::broadcast` from one suspension
to the next; `Collect` is the wait on the channel, with the count semantics of
`Channel::operator()` and `operator|`. A broadcast may be made by `onMessage`
or by `onConnect`, where the socket is not in the map yet. `out[s]` is the one
writer libmill lets wait; a second one is a panic, closing a socket somebody
waits for is a failed assertion of libmill, and resuming a walk whose element
was erased ends the loop or the process: `fate` records which. A new entry of
the map may land before or behind an iterator, and a rehash reorders
everything (`Grown`). `hits` and `owed` are history: how often a message was
written to a socket, and to which it had to be. The bytes of the frames are
not modelled.

**`HttpServer`** models the accept loop of `Server`, a `Connection` for every
socket, its `Request` and the parser. Bytes are grouped into numbered units of a
header and of a body, so that lost, doubled and foreign ones show; a client
sends them one by one and a read returns what has arrived, up to `Stage`.
`ReadHeaders` is one turn of the loop of `receive_headers` and, at the end of
the header, `process_headers` and `receive_body` up to its first read;
`ReceiveBody` one turn of the loop there. `Feed` is `parser::feed`, which calls
`ParseUnit` for every unit; `Cleared` is what `on_message_begin` leaves. `Handle`
is everything between the body and the response: the router, the middlewares and
the handler, with an open result: any request may be answered with a switch of
protocols, as `wsock.cpp:29-80` does not ask for an Upgrade header. `ProtoEnds` is
the return of the protocol handler, which may never come. `SendResponse` and
`SendFails` are `send_response`. `Accept`, `RunLoop`, `AcceptFails` and `Stop` are `Server`; a
connection that the backlog holds when the listening socket is shut is dropped.
`overlap` is history: whether the client ever sent a request before it had the
answer to the one before.

**`WorkerGroup`** models the processes behind `Worker::init`, `launch` and
`exit`. Worker 1 is the child of the process that calls `init` (the super
process), the others are children of worker 1. Every access of the shared table
is an action: `Fork` and `StorePid` of worker 1, `Flag` and `Count` of the new
process, the handlers of SIGCHLD, and in the super process `Check` and `Reap`
for the loop at `worker.cpp:388`. `chld` is the one SIGCHLD that can be pending.
`Loaded` says that `load()` installed `suil_sah`, by which the super process
calls `Worker::exit` from a signal handler.

**`JwtSession`** models requests that pass the middlewares `Redis`,
`JwtAuthorization` and `JwtSession`. An action of a request runs from one reply
of Redis to the next command: `Begin` is `JwtAuthorization::before` and the start
of what comes next, `Exists` and `GetInBefore` are `JwtSession::before`,
`GetInResume` is `authorize(user)`, `Login` and `Saved` are `authorize(Jwt&&)`,
`Deleted` is `revoke`, `Throw` is any failure or time-out. `After` is the
`after()` that decides what goes out. Every request has a connection to Redis of
its own, as a context has in the code; that the reply a request gets is that of
its command is what `OwnReply` of `RedisClient` states for a connection that
has not failed, and a request whose command fails does not use its connection
again. History: `seen` is what the user's entry held while a request was served,
`ctx[r].revoked` the tokens of the logouts that had been answered with 200 when the
request began.

**`RedisClient`** models one connection and a `Transaction` on it. Replies are
sequences of units, lines and strings, numbered with the command they answer;
`Read` takes the next unit as `recvresp` does at that point (`expect` is where
in the recursion it is, `pending` how many replies are still to come; the stack
of nested arrays adds up to that number). `TimesOut` is a failure at any read.
The server executes commands in order and keeps the queue of a transaction.

**`Router`** is the trie as data: `Walk` and `Add` are `Trie::add`, one `Descend` per
turn of its loop. `Optimize` is `optimize_node` with its pending calls as a sequence;
the subtrees of parameters are optimized after a node was merged, not before, which
gives the same trie, since neither looks at the other. `Find` is `find`, a recursive
function of the node, the position and the container of parameters that all
branches share: `Search` is its body, `Enter` and `Leave` what it does before and
after a recursive call. `AddRule`, `Validate`, `Before` and `Handle` are the operations
of `Router`. The properties compare it with a reference that has no trie: `Table`,
the patterns added, `Fits`, which urls a pattern takes, and `Spelled`, the
patterns that the trie spells. Where a url leads to the index of the redirect,
the code dereferences a null pointer (`routing.cpp:342`): phase `"dead"`.

`MCPgSqlPool` and `MCWebSockHub` give TLC a set of options and a symmetry,
`MCHttpServer` the requests and `MCRouter` the rules and urls.
The definitions introduced as slips are variants of an operation with a plausible
mistake; replacing the operation by its slip makes TLC report the property the
slip is meant for, which shows that the property can fail.

## Runs

| run | instance | result |
|---|---|---|
| `spinlock` | 3 callers, 6 tickets, `int` of 16 values | all properties hold, 7,726 states |
| `spinlock_wrap` | 2 callers, `int` of 8 values, 6 tickets | `EveryoneServed` fails |
| `pgsql_pool` | 2 coroutines, 3 connections, keep alive -1, 0, clamped, 5 | all hold, 193,803 states |
| `pgsql_dtor` | 1 coroutine, 1 connection | `DestructorReturns` fails |
| `websock_hub` | 3 sockets, 2 broadcasts, sockets interchangeable | all hold, about 190,000 states |
| `websock_lone` | 2 sockets, 1 broadcast | `MessageFreed` fails |
| `websock_writers` | 2 sockets, 2 broadcasts | `OneWriter` fails |
| `http_server` | 2 clients, 2 requests of 7 kinds, reads of up to 3 units | all hold, about 132,000 states |
| `worker_group` | 2 workers | `ExitReturns` fails |
| `jwt_session` | 3 requests, 1 user, 3 seconds | all hold, 207,854 states |
| `router` | up to 3 of 10 rules, urls of up to 4 characters, 2 bases | all hold, 177,622 states |
| `redis_client` | 4 commands, 6 shapes of reply | all hold, about 154,000 states |

What the passing runs show:

- `MutualExclusion`, `TicketsInOrder`, `EveryoneServed`, `ImplementsFifo`: the
  lock is exclusive, first come first served and starvation free, with
  `cancel()` at any point, as long as tickets fit an `int`.
- `OneOwner`, `RefsCountUsers`: no connection is handed to a second borrower,
  closed while borrowed, closed twice or forgotten, except by the throw in
  `open()`. `SortedByExpiry`: stopping at the first handle that is not due is
  right. `CleanerPresent`: until the destructor is called, an idle connection has
  a cleaner, and one only, also when `cleanup()` yielded in the middle of a prune.
  `ClosedInTime`, `IdleReleased`: idle connections are closed, at the latest
  2.5 seconds and the scheduler's lag after they expire.
- `Registry`, `WrittenOnce`, `FreedLast`, `AnswersBalance`: the map is exact;
  a finished walk has written once to every socket that was there throughout,
  unless the map was rehashed or the iterator lost; the message is freed after
  the last `bsend()` has reported, and no answer is lost.
- `WholeBody`: wherever a request is cut, the handler sees all of its body and
  nothing else. `BodyBounded`: the limits hold up to one read. `OwnAnswer`: a
  client that waits for its answers gets the n-th for its n-th request, also when
  it is refused half way. `AnswersInOrder`: a pipelining client may lose answers
  (the parser clears a complete request when the next one begins in the same
  read) but never gets them in another order, twice, or for half a request.
  `WholeBody`, `OwnAnswer` and `AnswersInOrder` are false of an upgrade request
  with a body (see Proofs), of which the run has none.
- `ConnectionEnds`: a connection whose client sends nothing any more is closed in
  the end, whatever failed and wherever the client stopped, unless a protocol
  handler has it. It says no more than that: `start()` loops while it is asked
  (`connection.h:240`) and never looks at `exiting`, and a web socket waits without
  a deadline by default (`wsock.h:43`), so that a client that goes on asking or a
  silent web socket keeps its connection for ever. `StopReturns`: `stop()` ends
  `run()`, whatever fails; connections are not drained.
- `HandledIsCurrent`: a protected route is opened only by a token that the hash
  held while the request was served, and by one that a logout had revoked before
  only if two logins of the user made it in the same second. The exception is real:
  the first login gives up, its HSET is on the wire, the second gets the same
  token, the logout deletes it, the late HSET brings it back and the token opens a
  page. That takes four requests; with `N = 4` the property holds (checked by hand,
  414,146 states with `MaxTime = 0`, 4,356,092 with 1), and fails without the exception.
  `SentIsStored`, `LogoutTakesEffect`, `RefusedWithReason`: what is answered agrees
  with what the hash held while the request was served; that a session stays
  deleted, or is not replaced by a late command, is not said. `Answered`: every
  request is answered, also without Redis.
- `OwnReply`: as long as nothing failed, a connection is in step with the server
  after every shape of reply, an empty array excepted by its time-out.
  `TransactionIsAtomic`, `DestroyedLeavesNoMulti`: `in_multi` is a good enough
  guess of the server's state until a call fails or MULTI is refused; after
  that neither holds, nor does the code claim it. `CallReturns`: every call
  ends.
- `TrieSpells`, `BestRule`: merging loses no rule, and the search finds the first
  that fits. `OwnParams`: no handler is called with a value of another branch.
  `UnambiguousServed`: a handler is called unless another pattern, or the
  beginning of one, takes the whole url; then the parameters may have been moved
  away (`routing.cpp:72`) and the request fails with 500.

What the others show:

- `spinlock_wrap`: after 2^31 acquisitions tickets are negative as an `int`,
  become huge again when compared with `Serving`, and the lock is stuck.
- `pgsql_dtor`: the cleaner's timer expires, the destructor runs before it and
  blocks in `notify << true`; the cleaner prunes the last connection and ends.
- `websock_lone`: a broadcast with nobody to send to calls `async(0)`, which
  waits without end.
- `websock_writers`: a reply and a broadcast, or two broadcasts, both find the
  socket full.
- `worker_group`: the super process waits for two children and has one; the
  loop of `Worker::exit` spins when all workers have ended. It also spins with
  one worker that ends before it was marked active (by hand, with `N = 1`).

### Bounds

`MaxTickets` bounds the acquisitions: six give each of three callers two turns
and, in the wrap run, pass the largest `int`. Times are scaled: `MinWait` 4 for
3000 ms, `Slack` 2 for 500 ms, `Grace` 1 for 5 ms, in the order the code has
them (`Grace + Slack < MinWait`). `LastUse` is the last time coroutines call the
pool, chosen so that connections returned at different times and a second life
of the cleaner occur; `Horizon` lets time pass until everything must be gone;
`MaxLag` is how late the scheduler may run a due cleaner. `PruneBatch` 1 makes
the cleaner yield after every close, 2 in the destructor's run lets it finish a
pass. `MaxBcasts` bounds the broadcasts; with three sockets a broadcast has two
`bsend()`s in flight while another one overlaps with it. Deadlock is not
checked: callers need not call, time stops at the horizon, and a process that
panicked does nothing more.

`HttpServer`: `Menu` lets the first request be any of seven (without body, with a
body that the limit accepts only when part of it comes with the header, always
too large, `Connection: Close`, not persistent, upgrade, bad), the second one
without or with a body, so that every way a request can end is followed by
another; `Window` 2 allows pipelining; `Stage` 3 makes a read return a part of a
header, a header with part of its body, or the end of one request with the
beginning of the next. A second client only connects, which is what `stop()` and
a failing `accept()` race with. `JwtSession`: three requests are a login before,
and two that race; `expiry` 1 and `MaxTime` 2 let tokens expire before, while and
after a request is served. Two users were checked by hand (752,620 states): the
entries of two users do not touch. `RedisClient`: `MaxCalls` 4 is MULTI, a
command, EXEC and one more that would get what is left over; an array has two
elements, nil and a string. `Router`: three rules are two that overlap and one
whose beginning they share; urls of four characters reach two parameters and
three edges; `MaxDigits` makes a number out of range. `WorkerGroup`: two workers
are the least with a child that is not the super process's.

### Fairness

The lock: every process is scheduled, a coroutine that yields runs again, and
critical sections end. Nobody has to ask for the lock. The pool: time passes,
timers fire and ready coroutines run; nobody has to return a connection.
The hub: ready coroutines run, and a write ends, as it does with
`api.timeout > 0`; `websock_lone` needs none of the latter.
The HTTP server: every wait of `Connection::start()` itself has a deadline, the
handlers of requests return, the accept loop is scheduled, and `accept()` fails on
a socket that was shut (`StartStep`, `RunLoop`, `AcceptFails`). Nothing is asked of
clients, and nothing of protocol handlers: `ProtoEnds` has no fairness. Sessions and the Redis client: coroutines that can go on do,
and every read has a deadline; nothing is asked of Redis. Worker group: the
kernel runs every process and delivers its signals; workers need not end.

## Proofs

`SpinLock_proofs`: `TypeCorrect`; `TicketOrder`, the inductive invariant
`IInv`: tickets in use are distinct and below `Next` also after a cancel
(`Distinct`), and while the lock is on they start at `Serving`, which only the
caller inside holds (`TicketsInOrder`). `MutualExclusion` alone is not
inductive: it does not exclude a second caller with the same ticket.
`TicketsOrdered` and `LockExcludes` follow, and `LockIsFifo`: under the mapping in
`SpinLock` every step is a step of `FifoLock` or a stutter. The last four assume
`MaxTickets <= IntMod \div 2`, that is, tickets fit a non-negative `int`;
`spinlock_wrap` shows that the assumption is needed.

`PgSqlPool_proofs`, for any number of coroutines and connections, any option
and any times with `Grace + Slack < MinWait`:
`TypesKept` adds to the types that a coroutine holds a connection exactly while
it uses one (`TInv`), which gives `TypeCorrect`. `DequeSorted` strengthens the
order by "nothing in the deque expires after `now + keep_alive`" (`EInv`), as
otherwise `push_back` could break it; time only advances. `CleanerAlways`
rests on `Scheduled`, which covers the destructor too: where `cleanup()` stands,
what `cleaning` says and what is left in the deque have to agree at every
suspension. `Ownership` proves
`OneOwner` and `RefsCountUsers` together (`OInv`): that the last `put()` frees
the connection depends on the count, and that the count is right on who holds
it; `RefsCounted` is its second half. `ClosedOnTime` proves `ClosedInTime`, which
says nothing of the cleaner and is not inductive. `Timely` relates its deadline
to every handle in the deque and to one that would be put back now (the deque may
be emptied and filled again while it sleeps), bounds how late it runs, and says of a
cleaner that yielded that its `t` is not from before its deadline. The bound adds
up from the least sleep, the slack, a lag before it wakes and one while it prunes.

`JwtSession_proofs`, for any number of requests and users and any expiry, with
no assumption about when, or whether, Redis executes a command: `Safe` proves
the inductive invariant `IInv`, from which `TypeCorrect`, `OnlyCurrentHandled`,
`SentStored`, `LogoutWorks` and `RefusalsJustified` follow. The five properties
speak of answers only, so none of them is inductive. `IInv` adds, for every
place a request can wait at: that nothing has been answered (`Unanswered`), that
the command on the wire is the one the coroutine waits for (`OwnCommand`), which
checks brought it there (`Place`), and that the reply tells what the history of
the user's entry records (`ReplySeen`). `SendKeeps`, `AnswerKeeps` and
`AfterKeeps` state once what a step has to show when it sends a command or a
response; each handler has a lemma that shows it. Redis executes a command for
one request and extends the history of every request of the same user
(`SeenGrows`). `OnlyCurrentHandled` needs a second invariant, `RInv`, for revoked
tokens: what the hash holds was put there by a login that made it (`Stores`), a
login sends one HSET, of what it made (`Commands`), and a token that was stored and
then deleted is not in the hash again unless two logins made it (`Gone`), also not
while a request is served that began after the logout (`History`).

`HttpServer_proofs`, for any connections, requests, stage and limits. `IInv` says,
connection by connection, that the units not yet read follow each other to the end
of the last request (`Chained`), that parser and `Request` fit the first of them
(`Parsed`: before a request, in its header, in its body with what was received so
far, at its end), and what each wait of `Connection::start()` relies on
(`Receiving`, `InTheBody`, `Handling`, `Responding`; `Answered` for the client). None of
the properties is inductive: they speak of a handler or of the answers, and what
makes them true is what the parser was in the middle of when a read ended.
`ParseKeeps` shows that one unit keeps `Parsed`; `parser::feed` is a recursive
function over the units of a read, which `FeedRuns` unfolds and `FeedKeeps` follows by
a least counterexample, as the induction rules of the library are out of reach.
`PassedKeeps` is the argument for the limits: what came behind the header is shorter
than the read, which is at most a stage. `TypeCorrect` and `BodiesBounded`
hold for all requests. `WholeBodies`, `AnswersOrdered` and `OwnAnswers` assume
`BareUpgrades`, that a request with an Upgrade header has no body. The assumption is
needed: `http_parser_execute` completes an upgrade at the end of its header
(`parser.cpp:1663`), so the handler runs without the body, and the body is taken for
the next message, which is refused: the same request is answered a second time. No request of the run has
both.

`RedisClient_proofs`, for replies of any shape and any number of calls: `IInv` states
how much of a reply `recvresp` has still to take when it is at a given entry
(`Framed`), that replies come in the order of the commands (`InStep`), and when
`in_multi` and the state of the connection in Redis may differ (`Atomic`). From it
`TypeCorrect`, `OwnReplies`, `TransactionAtomic` and `NoMultiLeft`. `OwnReply` speaks of
the moments between two calls; that nothing is left over then needs the framing at
every moment in between.

`WebSockHub_proofs`, for any number of sockets and broadcasts: `IInv` adds to `TypeOK`
and `Registry` that a coroutine waits only for sockets in the map (`Waiters`), that
`wait` is what was reported and not collected plus the `bsend()`s that write
(`Counted`), and that an owed socket is either ahead of the walk and not written to, or
behind it and written to once (`Marked`). From it `TypeCorrect`, `RegistryKept`,
`AnswersCounted`, `FreedAtTheEnd` and `EachOnce`.

`RouterTrie_proofs` and `Router_proofs`, for any alphabet, any rules of any length
and any urls. They assume of the constants what `CharAssumption` and
`MenuAssumption` say: rules begin with a slash, and a parameter is not a character
(in the code `{` never becomes an edge, so a fragment and a parameter cannot be
confused). The trie has no history of its own, so the invariant `IInv` says that
there are spellings `sp`, one pattern for each node, with which it is `Good`: edges
extend spellings and lead to later nodes, no two nodes are spelled alike, no edge of
a node begins another one, and from every node an edge leads on towards every rule
below it. The last two are what `find` relies on, and what a merge could break.
Further, the rules of the trie are `Table` (`Entries`), and every node lies on the
way to one of them (`Used`).

- `AddKeeps`: `Trie::add` keeps the stronger `Young`, where every edge is one token and
  leads towards all nodes and not only the rules, and adds one entry. `MergeKeeps`:
  one merge keeps `Good`, at whatever node, if the children are simple; so every
  turn of `optimize_node` does (`OptimizeKeeps`). That the properties hold does not
  depend on how often it is called. `SpelledIs` ties the recursive `Spelled` of the
  property to the spellings.
- `FindRuns` shows that the recursive function `find` exists: its calls advance in the url,
  and functions that are right for the last m positions are built from those for
  one less. `FindAnswers` is the contract of a call, by a least counterexample on the
  position: called for a node that the reference parser reaches at that position,
  `find` returns the least index among the rules below the node that fit, with
  values that are an end of the rule's own, all of them unless the url also ends at
  another node below; and the shared container is left as it was or, if the
  url ended somewhere, empty (`Answer`, `Leaves`). `TryAnswer` and `LeaveAnswer` show that
  a branch extends the contract to the nodes behind its edges, `ParamServes` and
  `FragmentServes` that what a branch passes over does not fit.
- `AnswerIsBest` and `AnswerGives` turn the contract into the properties: `TypeCorrect`,
  `TrieSpelled`, `BestRuleFound`, `OwnValues` and `Unambiguous`.

Only model-checked: liveness (`EveryoneServed`, `IdleReleased`,
`ConnectionEnds`, `StopReturns`, `Answered`, `CallReturns`, the destructor and
the message), which needs fairness and `ENABLED`. Every invariant of a passing run
and every action property is proved.

## Not modelled

libmill, libpq, Redis and the standard library are assumed to do what the code
uses them for. A process that dies holding the lock blocks the others for ever;
the code has no provision for it. SQL statements and results, the text of
messages, logging and TLS are left out. `tmsp/` is not built, its messages are
generated: the two generated files are 43 % of the implementation's lines, the
vendored parser combinators of the code generator (`tools/scc/mpc.c`), the JSON
library and the byte-level HTTP parser another 12 %; these five are why the map
stays small. The tools are sequential programs.

Left out of the parts that are modelled: `BaseClient::commit`, which nothing
calls; chunked bodies, forms and `get_body()`; the middlewares as separate steps
of a connection; the redirect that `Router::handle` would send if `before` let it;
the frame codec of web sockets; `PgSqlTransaction`; the pipes between workers.

Child processes, the file server, RPC and the HTTP client are not modelled.
What was met there, and in modelled code where no property speaks of it:

- `sql/pgsql.cpp:213`: the prune loop's iterator is kept over a `yield()` in which
  `push_back` may invalidate it;
- `sql/pgsql.cpp:116-120`, `:202`: the destructor's notification is meant to make the
  cleaner exit, but `if (status) continue` (`:200`) sends it back to wait
  as long as a connection is left;
- `http/connection.h:240`, `http/wsock.h:43`: `stop()` leaves keep-alive connections
  and web sockets as they are, for as long as their clients like;
- `http/middlewares.h:95`: a HSET that was given up and runs behind a logout's HDEL
  restores the session;
- `http/wsock.cpp:295`: header and payload are written separately, and a broadcast
  may come between them;
- `worker.cpp:381`, `:390`: a pid that is not stored yet, or the entry behind the
  table, makes `kill(0, SIGABRT)` reach the super process itself;
- `net.h:75`: the coroutine takes a reference to a local of the accept loop and
  relies on `go()` running it first;
- `http/connection.h:292`: when a middleware ends the response, `after()` of the
  middlewares runs on the way back and again in the after pass;
- `http/request.cpp:447`: a chunked body has no length, `receive_body` waits for a
  full buffer; `:505`: `get_body()` of an offloaded body returns what came with the
  header, as `msg_complete()` sets `body_read`;
- `http/middlewares.h:115`: `authorize(user)` revokes what is stored now, perhaps
  the token of a later login; `:95`: HSET returns 0 when it replaces a session, so
  that a second login is refused although its token was stored;
- `http/routing.cpp:223`: a rule with an unknown parameter type makes `Trie::add`
  loop for ever;
- `redis.cpp:106`: a pipeline that fails leaves replies behind; `:132`: replies point
  into a buffer that may move; `redis.h:777`: `Transaction::operator()` expects OK
  where Redis answers QUEUED;
- `process.cpp:197`: a child killed by a signal keeps its pid, which `terminate()`
  signals later;
- `http/fserver.cpp:275`: a range is sent with its end as length; `:420`: a file
  truncated between `stat` and `read` makes the read loop spin;
- `http/client.cpp:419`: a late response is taken for that of the next request;
- `rpc/suilrpc.cpp:73`: the id of a response is assigned to itself.

## Plan

1. Child processes: signals, the notification pipe and readers; `PgSqlTransaction`
   as a user of the pool.
2. Pure algorithms: the frame codec, wire and varint, ranges.
