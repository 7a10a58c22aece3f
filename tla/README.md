# Platypus in TLA+

Platypus answers memcached `get`s from *sources* (HTTP, files, AWS secrets,
merges of these), keeps what it fetched in a warm cache, and writes every
fetched value into a *target* memcached. This directory holds TLA+ modules that
model it, configurations that let TLC check them on small instances, and proofs
that TLAPS checks for instances of every size.

Paths are relative to the root of the repository; `monitor.rs`, `service.rs`,
`server.rs` and `writer.rs` are those of `platypus/src/`, `main.rs` is that of
`server/src/`.

## 1. The system

```
 clients --> connection tasks --[mutex, 5 s timeout]--> Service
                 (server.rs)                         |         |
                                         MonitorTasks cache   Router -> Source
                                            (monitor.rs)      (outside answers)
                                                     |
                                              WriteJob channel
                                                     |
             main --(shutdown, join)--> writer thread --> target memcached
```

| Component | State | Operations | Interacts by | Hard because | Correct if |
|---|---|---|---|---|---|
| Target writer, `writer.rs` | job channel, shutdown channel, `Result<Client>` | `new`, `send`, `shutdown`, drop, the thread's loop, `process` | unbounded mpsc channel; `join`; the memcached protocol | the target fails, hangs, restarts empty; jobs are lost with a connection, or with the process; shutdown races with queued jobs | jobs take effect in order, at most once; nothing queued is left behind by a join; one outage costs one job |
| Cache of monitor tasks, `monitor.rs` | moka cache key -> `MonitorTask` | `get_or_create_task`, `tick`, `MonitorTask::get`, `touch`, `poll` (which has no caller) | awaited by Service; sends to the writer | check, fetch and insert are separate awaits; any may be the last one; three clocks: the TTL here, the TTL at the target, the expiry | what is cached is what was last sent; nothing goes back to an older value; what the target keeps is stale, or unused, for a bounded time only |
| Service, `service.rs` | router, sources, cache, `Arc<Writer>` | one call per command; `shutdown` | behind a tokio mutex and a tower timeout | partly answered multi-key commands, timeouts in the middle | every reply carries the newest values ever fetched |
| Server, `server.rs` | listener, `Notify`, connection tasks | `serve`, `handle_connection`, signals | spawns, mutex, notification | lock held over a slow source and a slow client; wake-ups that find nobody waiting | every command is answered; a signal ends the server |
| Process, `main.rs` | one service clone kept for shutdown | start, `serve`, `shutdown`, exit | reference counts of the Writer | who still holds the Writer decides whether it is joined; a start that fails half-way; threads that the exit waits for; a signal before its handler is registered; a crash and the next start, at the same target | jobs queued at shutdown are not lost; no start brings an older value back |
| Wire protocols, `protocol/` | a `BufReader`'s buffer | `recv_command`, parsers, serializers | a stream cut anywhere | packets that arrive in pieces, or whose lengths do not add up; pipelining, three protocols on one port | a conversation: one reply per request, in order, in its protocol |
| Router, requests, `router.rs`, `request.rs`, `config.rs` | rules in order | `rule`, `match_regex`, `to_router` | called once per miss | groups come out of a `HashMap` | a key's source does not depend on the start |
| Sources, `source/`, `lib.rs`, `response.rs` | templates, headers | `call`, `replace_placeholders`, merge of answers | awaited by `MonitorTask::get` | partial failure, conflicting paths, captures replaced on the way through merges | a source is asked for its template's expansion; a merge holds what its rules' sources said |
| AWS pool, `pool/` | r2d2 pool | `build`, `get`, `connect`, a connection's return | blocks a runtime thread | blocking inside async tasks; calls dropped with their connection | no thread waits for another call; no connection is lost |
| Configuration, `server/src/config.rs` | - | deserialisation, `to_router`, `to_sources`, pools | at start | a `HashMap` orders the groups | see Router |

`PROJECT.json` names the hazards line by line and the properties that watch
each of them.

## 2. The modules

| Module | What it is |
|---|---|
| `WriteJobs` | The jobs that both sides of the channel share, and what it means for a version to be the last or the newest one sent |
| `Delivery` | Abstract specification of the writer: attempt in order, at most once, all or nothing |
| `Writer` | `writer.rs`: the thread step by step, its owner, and the target as an environment that fails |
| `FreshReads` | Abstract specification of the answering side: a reply is the newest version ever sent to the target |
| `Service` | Connections, mutex, timeout, commands, cache, sources |
| `Monitor` | One `MonitorTask` against the clock, with `poll`, its jobs in the queue, and what a TTL becomes at memcached |
| `Platypus` | The process from its start to its end and its next start: `main`, `serve`'s select loop, signals; composed of `Service` and `Writer` |
| `Conversation` | Abstract specification of a connection: requests settled in order, one reply each |
| `Wire` | `protocol/` and the loop of `handle_connection`: one connection's stream in pieces, three protocols, replies |
| `Router` | `to_router` and `Router::rule` over restarts |
| `Placeholders` | `replace_placeholders` |
| `Leaf` | The sources that ask nobody else: echo, http, file, AWS, functions |
| `Merge` | `source/merge.rs`: rules, nested merges, captures, `set_nested_value`; extends `Leaf`, and so `Placeholders` |
| `Fetch` | From a key to a value: composes `Router` and `Merge` with the timeout and restarts |
| `Pool` | The AWS sources' r2d2 pool under the service's mutex |
| `MC...` | Values for TLC, one for each module that has a run |
| `WriteJobsProofs`, `WriterProofs`, `ServiceProofs`, `MonitorProofs`, `PlatypusProofs`, `WireProofs`, `FetchProofs`, `PoolProofs` | Theorems, also those of `Delivery` (in `WriterProofs`) and `FreshReads` (in `ServiceProofs`) |

### State and actions against the code

**Data.** A value is the *version* of the source's answer: how many times it has
changed. That is all the properties tell apart (older, newer, none); texts,
lengths and TTLs are abstracted away. `NoValue` is Rust's `None`. The channel is
`jobs`, the sequence of everything ever sent, and `taken`, the receiver's
position in it, so that history stays available to properties.

**Writer.** `wpc` is where the thread is: `start` (dialling for the first time),
`check` (`shutdown_rx.try_recv`), `recv` (`rx.recv_timeout`), `write` (`process`
in the loop), `drain` and `flush` (`try_recv` and `process` after the loop),
`done`. `process` is split by outcome: `Written`, `IoError` (the command may or
may not have taken effect), `Rejected` (any other error: the client is kept),
`NotConnected` (there was no client: the job is dropped, and only then is one
dialled). `client` is the `Result<memcache::Client>`: `err`, `ok`, or `stale`
for a client whose connections have broken without the code knowing. `handle` is
what the owner did with the `Writer` value: kept it, consumed it in `shutdown`,
or dropped its last `Arc`. A hung target blocks commands (there is no read
timeout) but not dialling (1 s timeout). The target itself, `Fault` and
`Expire`, is not in the repository and is modelled as memcached behaves: it
drops items, restarts empty, is cut off, hangs. `Restart` is the end of the
process, wherever the thread is, and the next `Writer::new`: the queue is gone
(`taken` jumps to its end, which is `Delivery`'s `Abandon`), what was applied
stays at the target, and a command under way may still take effect. One
assumption is made about the target: a command that was left on a broken
connection, or by a process that has ended, is executed before the thread goes on
(before the next process sends anything), or never. A target that executed it
after a later command would bring back what that one replaced, and
`TargetIsLastApplied`, `DeliveryRefined` and `TargetNeverGoesBack` would be false:
nothing in `writer.rs` would keep it from that. `ReconnectCostsOneJob` counts the
jobs that the loss of a connection costs; those that the target refuses, or for
which the client's pool has no connection in time (`Rejected`), it does not count.

**Service.** `pc[c]` is where the task of connection `c` is: `idle` (in
`recv_command`), `hungup` (the client is gone, and every read yields
`NoCommand`, which the loop ignores), `waiting` (for the mutex), `lookup`,
`fetch` and `store` (in `get_or_create_task`: before `tasks.get`, in
`source.call`, in `tasks.insert`), `reply` (in `write_all`, mutex held). An
async function is split exactly at its awaits. `lockq` is tokio's FIFO mutex.
`task[c]` is the call's own copy of the `MonitorTask`; `items[c]` the items
collected so far. `SourceAnswer` is the one poll in which the source's future
completes and the value is sent to the writer, before the insert. `Timeout` is
the tower layer: it drops the call at any await, also in the middle of a
multi-key command, and leaves what was sent and inserted in place. `Maintain`
is the moka cache: it evicts what it likes until the weights fit. `Restart`
empties everything but what lies outside of the process: the sources, what
clients have been given, and (as history) the jobs.

**Monitor.** Time is counted in instants, `Second` of them in a second. `task` is
the `MonitorTask` (`last_touch`, and its response's value and `updated_at`), `call`
a call of its source under way and who began it, `queue` the jobs that the writer
thread has not dealt with, `item` what the target holds and until when. `Create`
and `Touch` are `get_or_create_task`, `PollRefreshes` is `poll` where it does
anything; nothing in the repository calls `poll`, and here it may be called at any
time and be dropped at any time. `Drop` is the 5 s timeout in the source's call,
`DropInsert` the same after the value was sent and before the task is in the cache,
`Forget` the cache's eviction. A value that is there has `updated_at` of the moment
it came, none that of the moment it was asked for: that is what `Response::new` and
`with_value` do. `Until` is `Writer::send`'s `as_secs() as u32` and what memcached
makes of it, from the instant in which the job is executed (`Written`); a job may as
well have no effect (`Lost`: no client, an IO error, a refusal), and the target may
drop its item (`Evict`). A job waits for `MaxDelay` at most, which is an assumption:
the code bounds its wait by nothing. Where the properties need it they say it, with
the term `MaxDelay`.

**Platypus.** `main` is where `main` and `serve` are. `Build` is everything up to
the service, with which the writer thread starts, and `Bind` the listener; both
may end the process instead. The signals' handlers are registered by tasks that
`serve` spawns (`Catch`); a signal that comes before its handler ends the process
at once (`SignalKills`). `Restart` is a crash at any moment, or the start after an
end. tokio's
`Notify::notify_waiters` readies the `Notified` futures that exist at that
moment and stores no permit, and both `select!` loops create a new one in every
round; hence `Signal` readies those parked (`main = "select"`, `pc[c]` idle or
hung up) and nobody else. `SoleOwner` is `Arc::try_unwrap`'s condition: the
service clones held by connections and the `target` of every cached
`MonitorTask` are the other owners. `main` returns into the drop of the runtime
that `#[tokio::main]` made (`DropRuntime`), in which no task is polled any more, and
the `Writer` goes with the last task that holds it (`DropLastOwner`). That drop
waits for threads that are `blocking`: tokio reads a file (`source/file.rs:58`) on a
thread of its own, which neither the 5 s timeout nor the end of the call stops, and
r2d2's `get` (`source/aws_secrets_manager.rs:78`) blocks one of the runtime's.
Only then is the process over (`Exit`), and the writer thread with it.

**Wire.** A request is a line, by its words, or a packet, by what its magic byte
says it is, its opcode and the lengths of its parts; it arrives as pieces, one per word and newline, or two
halves of the header and the body. `sent` is everything the client writes;
`consumed` is how many requests the `BufReader` has handed out, `inFlight` how
many pieces have been written of those that follow and `have` how many of these
it holds. The client may go away after any piece (`Finish`), so the last request
may lack its end. `Fill` is `fill_buf`, which reads only when the buffer is empty,
and `read_line`, which reads on to the newline; that difference is why a line may
come in pieces and a packet may not. `RefusePacket` writes an error and consumes
nothing. `Panic` is the subtraction of `parse_binary` for lengths that are more
than their total: in a release build it wraps, and the allocation fails. A packet
that says it is a response is refused before that. What the service does is one
step with any of its outcomes. There is one connection: what a panic means for
others is not modelled. A reply is the list of its lines' first words or of its packets' headers. For
`Conversation`, a request is settled when it is consumed and not being served
any more, and the server is stuck (`Refused`) once it has replied to a request
that it has not consumed; a panic hangs up.

**Placeholders.** `ReplacePlaceholders` reads a text symbol by symbol, with the
stack of open placeholders; the reference `Expanded` rewrites the leftmost
innermost placeholder, as often as the text has symbols, and drops what follows
a brace that is left open. It quotes the braces of what replaces a placeholder (they
become two other symbols, and braces again at the end), because the code never reads
a replacement again: a key's own braces are text, also through the arguments of
several merges.

**Leaf.** `asked` is the call of a leaf: its kind and the text that its template
has become. `Responses` is what each kind may respond with: echo its text, a text
that is no URL nothing, any other the outside's answer or nothing. A merge parses
what any source responds as JSON; what a text is then, an object if its braces are
such, is the constant `JsonOf`.

**Merge.** `frames` is the stack of merges that are being called: each has its
`captures`, the `parts` its rules have got so far and `ret`, the object built
so far (`merged_results`). JSON is scalars and objects; text that does not parse
is a scalar too. `SetNested` has the recursive calls of `set_nested_value` as two
functions, what each call is given and what it leaves behind. The reference does
without objects being changed: it looks at one path at a time. `InForce` are the
rules that have had an effect so far (their sources gave something, their keys are
not empty and lead through no scalar that is there already), and at a path is what
the last of these has `Put` there. `MergedIsStanding` compares the scalars of the
two.

**Fetch.** `Ask` is the part of `get_or_create_task` that follows a miss: the
router's first match, the source it names, and the call with what the route
captured. `Call` is a step of a merge; `Timeout` drops the call and `Restart`
ends the process, which starts again with the same configuration.

**Router.** `Restart` rebuilds `rules` from the groups in any order, which is what
the `HashMap` promises. **Pool**: where each task is in `AwsSecretsManager::call`,
and how many connections the pool has, has ready and is opening; `Blocked <
Threads` guards the steps that need a thread of the runtime. `Reap` closes what
was idle or open too long; r2d2 then opens what `min_idle` asks for
(`Replenish`). r2d2 is not in the repository: its part is modelled from how it is
used here, and its health checks, which find no fault, are left out.

**Faulty variants.** Definitions whose comment begins "Faulty variant" are not
part of the specification: each is a plausible mistake in the definition that
follows it, and shows that a property would notice.

## 3. The runs

| Run | Question | Instance | Result |
|---|---|---|---|
| `writer` | Does the thread keep `Delivery`'s promises, attempt every job, drain before it ends, lose at most one job per outage? Does the join return? | 2 keys, 3 jobs, set and delete, 2 faults, any initial health, restarts, `FairSpec` | holds |
| `service` | Do answers, jobs and cache agree, whatever times out, is evicted or restarts, and is every command answered? | 2 connections, 1 of 2 keys routed, 2 versions, 2 jobs, 1 tick, commands of up to 2 keys, a cache with room for a task without a value, restarts, `FairSpec` | holds |
| `service_expired` | Is nothing served past its expiry? | 2 connections, 1 key, expiry 1 | violated |
| `service_refresh` | Does a new answer reach the target while clients keep asking? | 1 connection, 1 key, `FairSpec` | violated |
| `monitor` | For how long may the target keep what its source has replaced, or what nobody asks for? Do polls spare the source? | 1 key, 5 TTLs (none, below a second, a whole second and not, too long), expiry of 1 s, 2 versions, calls of up to 1 instant, 2 jobs that wait up to 1, 12 instants, lost jobs, dropped calls, evictions | holds |
| `platypus` | Does the target ever go back to an older version? Is the thread stopped only when nobody can send, and does a joined exit lose nothing? | 1 connection, 1 key, 2 versions, 2 jobs, any initial health, a signal, failing starts, crashes and restarts | holds |
| `platypus_exit` | Does the process end once `serve` has returned? | 1 connection, 1 of 2 keys routed, 1 job, 1 fault, threads that block, restarts, `FairSpec` | holds |
| `platypus_join` | Is the thread joined at exit? | 1 connection, 1 job | violated |
| `platypus_signal` | Does a signal end `serve`? | 1 connection, 2 signals, `FairSpec` | violated |
| `wire` | Is a connection a `Conversation`, with one reply to each request, in order? Do lines in pieces get through? What does a refused packet do? | 15 requests of three protocols, 3 sent, the last perhaps in part, 4 replies, `FairSpec` | holds |
| `fetch` | Which source does a key get, whatever order the groups come in? What is that source asked for, and what comes of the answers? Does a merge of merges return? | 3 keys; 2 groups of up to 2 of 4 routes; 125 lists of 3 rules with keys of up to 3 names, 100 lists of 2 that ask a file or an echo of an object's text, and a merge of merges of merges with a missing source; 4 values or none, looked at along every path of up to 5 names; an echo of every template of up to 6 symbols; 5 captures, of which one is empty, one holds a placeholder and one an object; `FairSpec` | holds |
| `pool` | Can the blocking `get` ever wait for another call? Is a connection ever lost? | 3 clients, 1 thread, a pool of up to 2 connections with 1 ready, 4 calls, `FairSpec` | holds |

**Why these bounds.** A value can be older or newer than another, so two
versions are the least and, since only the order counts, enough; `writer`'s
three jobs give a first, a middle and a last one, or two of one key with one of
another between them, and `service`'s two an older and a newer one. Two
connections are what an interleaving takes. With two faults the target can go
away and come back, and hang after a restart. The cache of the `service` run has
room for a task without a value (weight 2) but not for one with a value (3 > 2),
which is evicted at any moment; its second key has no route, so that commands
mix keys that are fetched with keys that are not, or ask twice for the same one.
Keys share nothing but the mutex, the queue and the cache's room: what two
cached keys add is covered by `ServiceProofs`, for any number of them. In
`platypus` one connection is enough to send an older and a newer version (the
first call times out, or its task is evicted, or the process has restarted; there
is no other way to fetch a key twice); the races between connections are checked
in `service`. Two jobs are an older and a newer one; that more change nothing is
proved (`PlatypusProofs`). Its target
starts in any health and stays there; that faults do no more than lose jobs is
what `Delivery` says and `DeliveryHolds` proves. Three requests put one of any
kind between any two others, and a request's fate depends on the one
before it only by what that one leaves in the buffer; `WireProofs` has any number.
Three rules let a rule undo what another one did to a first. Six symbols nest two
placeholders with a name of one symbol inside, or leave one open. One thread is the
least the pool can do with, and of two connections one is ready and the other has
to be opened. In `monitor` a second is three instants, so that a TTL may be less
than one or not whole, and two seconds stand for memcached's month, so that one may
be more; four seconds are longer than any of the bounds that its properties name, and
two jobs, each late by an instant, put a stale one before a newer or a lost one; for
any number of jobs, any delay and any clock there is `MonitorProofs`.
Every bound is a named constant (`MaxVersion`,
`MaxJobs`, `MaxFaults`, `MaxKeys`, `MaxTime`, `MaxLatency`, `MaxDelay`, `MaxSent`, `MaxCalls`,
`MaxLookups`, `MaxTemplate`) that appears in the guard of an action of the
environment, never of the code, with these exceptions: `Receive` admits a command
only while its fetches fit `MaxJobs`, and is an input of the environment too;
`SourceAnswer` has the same bound as a guard, which `Receive`'s makes redundant;
`MaxQueue` holds back the end of a call in `Monitor` while so many jobs wait;
and `MaxReplies` bounds `Wire`'s replies, of which a refused packet gets one
after the other without end (one more than there are requests shows it).
Deadlock is not checked: with the bounds used up, or the process ended, nothing
need happen.

### What the violated runs show

Each contradicts a sentence of the repository, quoted in `PROJECT.json`.

* `ExpiredNotServed`: `get_or_create_task` returns whatever is cached; the
  expiry that `tick`'s comment relies on is only in `MonitorTask::poll`, which
  nothing calls.
* `RefreshedInBackground`: for the same reason nothing is fetched in the
  background; a cached answer is served unchanged for as long as it stays
  cached.
* `ExitJoinsWriter`: a single cached task, or a single open connection, makes
  `try_unwrap` fail, and the process ends under the writer thread.
* `SignalStopsServe`: a signal that arrives while the body of an arm of the
  `select!` runs finds nobody waiting and is lost.

`RefusedPacketBlocks` holds, and is worth a reader's attention: a binary client
whose packet is cut by the network, or has an unknown opcode, gets text errors
without end and no other answer on that connection.

More differences were met while reading, and no violated run is about them:

* a hit sends no job (`monitor.rs:147`), so an item that the target has dropped
  is not written there again while it is cached here, although `README.md:11`
  has the client come back for it;
* the replies to binary `version`, `stats`, `delete` and to errors have opaque 0
  (`protocol/binary.rs:312`), although `protocol/binary.rs:146` has it copied;
* a rule's `replace` (`source/merge.rs:142`) is all the captures its source
  gets, although `README.md:205` has it override specific variables;
* `README.md:152`, `:160`, `:174`, `:179`, `:232` and `:238` write `%(variable)` for
  the placeholders of an HTTP source's url and of an AWS secret's key;
  `replace_placeholders` (`lib.rs:59`) replaces `{variable}` only, and such a text is
  asked for as it stands. `AskedIsExpansion` is about the code's own placeholders and
  holds; in its run the AWS source's template has a `%(a)`, which stays;
* `README.md:173-174` calls that source `awssm` and its text `key`, where
  `server/src/config.rs:94-96` reads `aws_secrets_manager` and `secret_id`: such a
  configuration ends the start (`Build`);
* a ttl below one second, or none, becomes 0 (`writer.rs:65`), which memcached
  takes as never, and one of more than thirty days a date long gone. The first are the
  ttls that `StaleForTtlOnly` and `UnusedIsForgotten` have to exclude: what was written
  with one is there until a delete, a later set or an eviction.

### Fairness

`Writer`: weak fairness of the thread and of `process` (an operating system
thread runs on); nothing of the target. `EveryJobAttempted`, `ShutdownCompletes`
and `StopLeadsToExit` are conditional on a target that does not hang for good,
because the code has no read timeout, and on the process not being restarted in
between; `StopLeadsToExit` also on every thread that a source blocks going on in the
end (there is no fairness of `EndBlocking`: a file's read may hang for ever, and then
the process does not end). `Service`: weak fairness of each call's own steps and of its timeout
(tokio polls ready tasks and fires timers); nothing of sources, which may never
answer, nor of clients, so `EveryCommandAnswered` is conditional on every client
reading its replies. The mutex needs no fairness of its own: it is a FIFO queue.
`Platypus`: the same, of `main`'s own steps, and of the tasks that register the
handlers; nothing of signals, crashes and restarts. `Wire`: weak fairness of the
loop, for what was sent arrives and, by `Service`, is answered. `Fetch`: sources
answer, in the end; nothing of the timeout. `Pool`: r2d2's threads open
connections and wake whoever waits; nothing of AWS, and nothing of `get`'s own
timeout. `Monitor` has only safety properties; instead of fairness, its clock does
not pass an answer that is later than `MaxLatency`, nor a job that waits for longer
than `MaxDelay`.

## 4. The proofs

All theorems hold for every value of the constants that satisfies the named
assumptions: `VersionAssumption` (there is at least one version),
`WriterAssumption` (the bounds are natural numbers), `ServiceAssumption` and
`PlatypusAssumption` (the sizes and bounds are natural numbers, routed keys are
keys, and the mark of an empty cache slot is not a task), `PoolAssumption` (there
are finitely many clients, at least one thread and one connection, and no more
connections are kept ready than there may be), `WireAssumption` (a request is a
packet or a line of words), `MonitorAssumption` (instants and TTLs are natural
numbers, and a second has at least one instant), `FetchAssumption` (there are
finitely many groups of routes, lists are lists, and keys, templates, captures and
their names are sequences of characters, as the types of `config.rs` and `request.rs`
have it; no character is one of the two symbols that quote braces). No number of keys,
connections, jobs, requests, faults, sources, rules or instants is fixed, and no
assumption is one that an input or a configuration could break. What the target
and the writer's delay are assumed to do is said with `Writer` and `Monitor` above.

* `WriterProofs`: `TypeCorrect`; `DoneMeansDrainedHolds` and
  `ReconnectCostsOneJobHolds` from an inductive invariant (once the thread is in
  its drain the handle no longer sends, so an empty channel stays empty; while
  the target is up, a loss implies that the client has just been dialled again);
  `DeliveryHolds`, the refinement: `taken` minus the job in hand is the abstract
  position, and every step of the thread, its owner, the target and the process's
  end is a `Submit`, `Deliver`, `Lose`, `Forget` or `Abandon` (in which the command
  under way has taken effect or not), or a stutter. `TargetIsLastAppliedHolds` is then `Delivery`'s own theorem.
* `ServiceProofs`: `TypeCorrect`, then `InvHolds`. `CacheMatchesLastJob` and the
  refinement of `FreshReads` are not inductive by themselves: a value on its way
  into the cache or into a reply has to be known to be the newest as well.
  `Inv` says so part by part: whoever is in a call or writes a reply is the head
  of the mutex queue (`CallerHasLock`), so there is one such connection; what is
  cached (`CachedIsLast`), about to be inserted (`StoredIsLast`) or collected for
  the reply (`ItemsAreNewest`) was sent last and is the newest; a source is only
  asked for what the cache does not have (`FetchedIsMissing`), which is why a
  newer version sent by a fetch makes nothing cached stale; and nothing sent is
  newer than the source (`SentIsOld`), which is what a restart keeps.
  `FreshReadsHold` is the refinement, `MonotonicReadsHold` and
  `JobsNeverGoBackHolds` follow from it and `FreshReads`' own theorem.
* `MonitorProofs`: `TypeCorrect`, `StaleForTtlOnlyHolds`, `UnusedIsForgottenHolds` and
  the action property `SourceIsSparedHolds`, for every TTL, expiry, latency, delay,
  length of the queue and resolution of the clock. The invariant follows a value from
  the call that asks for it to the item: a call began while the last request had not
  expired, and is no older than `MaxLatency` (`CallOK`); a job was sent by the end of
  such a call, and, if what it carries has been replaced, by the end of one that began
  before that (`JobOK`); an item ends a TTL after its job took effect, which is
  `MaxDelay` later at most (`ItemOK`). `TaskOK` says that a task was touched by a
  request and that its response is younger than its call. Lost jobs, dropped calls and
  evictions only take away what the invariant is about.
* `PlatypusProofs`: the components' specifications hold in the composition.
  `ServiceHolds` maps every step of the process to one of `Service`.
  `WriterHolds` does so for `Writer`, which is harder: `Writer` sends nothing after
  its shutdown, and in the process anybody might. `OnlyOwnerShuts` is the
  invariant that excludes it: once the thread has been told to stop, every
  connection is closed and `serve` has returned, so that none is accepted, and once
  the last owner is gone the runtime is, with everything that sends. Then
  `TargetNeverGoesBackHolds` needs no invariant of its own: by `JobsNeverGoBack`
  the jobs of a key are in order of age, and by `TargetIsLastApplied` what the
  target holds is the last of those that took effect. `JoinedExitLosesNothingHolds`
  follows from `DoneMeansDrained` and `JoinedIsDone` (main ends after a shutdown
  only when the thread has), `TypeCorrect` from the components' invariants.
* `WireProofs`: `TypeCorrect`, `ConversationKeptHolds`, the refinement,
  `OneReplyEachHolds` and `RefusedPacketBlocksHolds`, from one invariant. Its key is `StuckAtPacket`: a loop
  that has refused a packet has it in its buffer still, as it was, because it
  reads nothing more while the buffer is not empty; so it can only refuse it again.
  `RepliesOK` says that every reply is to a settled request or is a refusal of the
  next, `InOrder` and `NoneForgotten` that the settled ones have one each.
* `PoolProofs`: `AccountedHolds` and `NeverShortHolds`. The invariant says that at
  most one task is in a call (`OneCall`, which is the mutex), and counts: the
  connections are those idle and those sent with, and a thread is in `get` only
  while one is idle or opening.
* `FetchProofs`: the three properties of `fetch`, which all compare what the code
  does with a reference, where both sides are recursive functions. The library's
  induction theorems cannot be used (they take an operator as a parameter, which none
  of the provers can instantiate); instead `NatMin`, that every set of natural
  numbers which is not empty has a least element, is derived from the
  well-foundedness of the subset ordering of finite sets, which the library states
  for sets, and gives `NatSets` (induction over a set), `Recursion` (a recursive
  function exists) and `SameRecursion` (two that take the same steps are equal).
  - `GroupDecidesHolds`: in a flattened list of lists the first match is the first
    match of one of them.
  - `ExpandedIs`: one pass with a stack makes of every text what rewriting makes of
    it. `Reads` says from which state to which a pass over a text leads. A rewriting
    changes the text, but not where the pass over it leads (`RewriteKeeps`), and each
    leaves a closing brace less, so that none is left at the end. This is for
    replacements without braces (`RewrittenIs`); for others, the pass with quoted
    replacements shows, symbol by symbol, the pass with the replacements themselves
    (`Shown`, `PlainRead`), and finds a quoted name where that one finds the name.
    `AskedIsExpansionHolds` adds the calls: the frames are a chain, each at the rule
    that has called the next and each with the captures that this rule has handed on
    (`Chained`), and what is being asked is from the end of the chain (`AskedFrom`).
    That the merges do not reach themselves is not assumed.
  - `MergedIsStandingHolds`: what `set_nested_value` leaves at a path, `SetNestedIs`,
    is followed name by name, beside what each of its calls has been given and what
    it leaves behind: along the key the new value, beside it what was there, and
    nothing changed if the key is blocked by a scalar. Then `GoesOnStanding` says that
    a rule in force is the last one from then on, that one which is not changes
    neither side, and that rules that are done keep their places.
* `WriteJobsProofs` has the facts about appending to the queue that the first three
  use.

Only model-checked: the liveness properties (`EveryJobAttempted`,
`ShutdownCompletes`, `EveryCommandAnswered`, `StopLeadsToExit`, `LinesGetThrough`,
`MergeFinishes`, `GetReturns`), which TLAPS cannot prove under fairness, and that the
disagreements above are reached. Every invariant and action property that a passing
run checks is proved.

## 5. Not modelled, and the plan

Not modelled: parsing of arguments and configuration files, logging, socket
set-up, the contents of values and what a request carries besides its text
(method, headers), `parse_any` (no caller), the layout of packets and their opaque,
the stub replies of `gat`, `gats`, `stats` and `touch` beyond the fact that they
look nothing up, merges that reach themselves (their recursion has no end), HTTP, file and AWS access
beyond whether they answer and block a thread. The demo, the test configuration and the tests were read for
what they say.

What could come next, most important first:

1. Several connections of `Wire` over one `Service`: pipelined commands of several
   clients, with a panic of one while others wait for the mutex.
2. Who polls a `MonitorTask`: if the repository comes to call `poll`, `Monitor`'s
   owner becomes part of `Service`, and its reads have to stay monotonic.
3. A configuration whose merges reach themselves, and what rejects it.
4. The safety half of the liveness properties, which is within reach of TLAPS: a
   measure that every step lowers, such as the rules that are left to a merge whose
   calls do not reach themselves (`MergeFinishes`), or the work that is left of the
   writer's drain (`ShutdownCompletes`).
5. The layout of packets, in particular the opaque of replies.
