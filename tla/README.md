# A TLA+ model of PyGuardDNS

PyGuardDNS is a filtering DNS server in Python: one process, many threads, an
SQLite database that may live in memory, one JSON file per upstream resolver,
and a web interface. This directory holds TLA+ modules that model the parts of
it in which several threads, files and clocks meet, TLC configurations that
check the models on small instances, and proofs checked by TLAPS. Line numbers
refer to the files under `src/`.

* Parse: `tlasany M.tla`. Check: `tlc -workers 2 -config X.cfg M`.
  Prove: `tlapm M_proofs.tla`.
* `PROJECT.json` maps every definition that models code to its lines, lists the
  runs, the seeded bugs each property must catch, the hazards and the theorems.

## 1. Inventory of the system

| Component (source) | State | Operations | What is hard | What makes it correct |
|---|---|---|---|---|
| Upstream health and recovery (`upstream_manager.py`; callers in `app.py`) | one file per upstream, `_cache`, health objects shared by reference, `_probe_locks`, `_cache_lock` | health reports, latency, recovery probes, pause, enable, reset, delete, create, two workers | lost updates between file and cache, one temporary file for all writers, which opening empties, lock held across a save, crash in a probe | one probe at a time; consistent records; every automatic pause ends; upstreams come back |
| DNS worker limiter (`dynamic_worker_limiter.py`) | limits, counter, list of start times, condition variable | `acquire`, `release`, `maintenance`, `update_limits`, `reset_statistics`, `snapshot` | lost wake-ups, timeouts beside notifies, limits changed under load | counter = requests at work; burst limit kept; nobody waits beside a free slot; burst ends |
| Listeners, worker statistics (`app.py` 270-570, 875-952, 6170-6371, 14595-14720) | connection semaphores, tracked workers, active requests, timeline | accept, read, begin and end a request, load settings, sample | permits of a semaphore that was replaced; rows built from two snapshots | what is taken is given back; the page is whole |
| Server start, stop, restart (`app.py` 14500-14900, 15408) | lists of servers, sockets, timers, status | start by main, restart by timer, button, console, stop, shutdown | main without the lock, DoQ that starts or closes late, ports that are taken | listed servers are those that answer; the status is true |
| Updater (`app.py` 4840-5000) | files, `.last_commit`, cached result | check, update | a copy that breaks off, two updates | what `.last_commit` says is installed |
| Filter reload and background jobs (`app.py` 1085-1160, 2680-2790, 8020-8330) | `_active_engine`, counters and flags of four workers, two bounded queues | edits, enqueue, build, swap | worker leaves while work arrives; overlapping builds; failing jobs | what is edited reaches the hot path; one worker of a kind |
| Clients and profiles (`client_manager.py`, `app.py` 2600-2700) | tables, snapshot, TTL set, queue | look-up, changes, record an unknown client | two rebuilds overlap; forgotten when the queue is full | copies follow the tables; who asks gets known |
| Memory database (`app.py` 100-150, 1360-1500) | database in RAM, generation, dirty flag, `<db>.ramtmp`, database file | commit, sync loop, sync at shutdown | snapshot beside commits, two syncs with one temporary file, a transaction left open, crash | a clean flag is true; the file is whole; commits reach the disk |
| Query log, restore, audit log, shutdown (`app.py` 2240, 5830-5960, 13110-13300, 14745-14812) | one SQLite connection, bounded queue, batch | log, flush, clear, restore, audit, stop | a transaction belongs to the connection, not to a thread; a stop takes back what was not synced | nothing is written twice; no half of a restore |
| Settings and their copies (`app.py` 1880-1960) | table, `_settings_cache`, `_hot_settings`, values latched in globals | get, set, invalidate, restore | a reader stores an old value after a writer replaced it | a setting takes effect |
| Sessions and login (`app.py` 12860-12920) | dictionary and table | log in, use, log out | log-out beside a request, crash | a session that ended stays ended |
| DNS response cache, request path (`app.py` 5080-5420, 5960-6330) | 64 shards of entries, latched settings | get, set, prefetch, stale refresh, negative entries, purge, clear | purge beside an answer under way, second request during a refresh | no answer outlives the rule or the name |
| Connection pools (`app.py` 3353-3560; `upstream_manager.py` 640-960) | slots, locks, sockets | lease, replace, rebuild, maintenance | two leases of a slot fail at once | no socket serves two queries |
| QUIC sessions (`app.py` 3014-3188) | session, lock on an event loop, penalty | query, reset, idle sweep | a cancelled caller, a reset without the lock | a failure has a cause; every query ends |
| Forwarding modes (`app.py` 5450-5813) | semaphore, selected upstreams, futures, throttle | sequential, race, strict order, fastest, load balance | losers run on; the semaphore is replaced | slots return; a failure is true and noticed |
| Filter engine (`dns_engine.py`, `client_manager.py`) | tries, profile rules, negative cache | build, decide, explain | order of allow, rewrite, block, services; cache beside reload | the documented priority |
| Rule conversion, user rules (`rules_engine.py`) | none; `user_rules.pgrules` and its backups | parse, convert; read, edit, replace, migrate | lines that switch others off; read-modify-write of a file | no rule is lost or changes its side |
| Blocklist manager (`blocklist_manager.py`) | rows, cache files, jobs | add, update, edit, toggle, delete, update all | row committed before its file; update beside delete; rules counted in one way and stored in another | a row's ETag belongs to the file on disk; an update keeps the last working rules |
| DNSSEC (`dnssec_validator.py`) | trust anchors with RFC 5011 states, their file, caches | validate, update anchors | hold-down, revocation, outages, what a denial proves | trusted keys were held; secure is signed; bogus was contradicted |
| Schema migrations, DNSCrypt, service catalog, web pages, console | tables, constants | formatting, cryptography | | |

How they interact. A listener thread calls the limiter, then the request path,
and releases the limiter's slot in a `finally` clause. The request path reads
`_active_engine` without a lock, the cache by shard, the selected upstreams from
the upstream manager's cache, and reports each outcome to the health record;
the health check, the recovery worker and the web interface write the same
record. The web interface commits to the database and then tells a worker (or
reloads by itself); every commit marks the memory database as dirty. The main
thread stops the workers, syncs the database and ends.

## 2. Plan

Modelled so far, in the order of how much of the service depends on the part:
upstream health with proofs; the limiter with proofs; reload and clients; what
the server keeps (memory database, shared connection, settings, sessions); the
response cache; the filter engine and what it is built from (lists, conversion,
user rules); DNSSEC; the transport (pools, QUIC, forwarding modes); the life of
the program (listeners, servers, updater).

Left:

1. Refinements: `MemoryDb` against an atomic copy, the pools against a set of
   leased connections.
2. The log-in rate limit, the instance lock, the retention of the log, and the
   restore and pruning of rule backups.

Every module takes its threads and bounds as CONSTANTS, has one action per
critical section, no RECURSIVE operator, and properties that are conjunctions of
named parts, so that it can be proved about. Assumptions about constants are
named; those of a module that only a composition instantiates stand there.

## 3. Modules and the code they model

### UpstreamHealth, UpstreamManager, CircuitBreaker

`UpstreamHealth` holds the health record and the pure part of every operation
on it (`update_health`, `refresh_backoff_state`, `begin_probe`, `finish_probe`,
`set_health_paused`, reset). `UpstreamManager` is one upstream under all threads
that touch it. Upstreams do not share state other than the two dictionaries
they are kept in, so one is enough.

| Model | Code |
|---|---|
| `disk`, `tmp` | `data/upstreams/<id>.json` and `<id>.json.tmp`: a record, `Empty` after `open(tmp, "w")`, or `Torn` (the tail of a longer record stays after a shorter one) |
| `handle` | the name the file a thread has open has by now: another writer's `os.replace` may have moved it over the real one, or a later one over that |
| `cache`, `heap` | `_cache[id]`; the `health` dictionaries it and others refer to. `get()` copies the outer dictionary only, so `begin_probe` and `finish_probe` change the object readers see before they save it |
| `probeLock`, `cacheLock` | `_probe_locks[id]`; `_cache_lock` while `active_upstreams` saves under it |
| `pc`, `after`, `data`, `flag` | program point, continuation, outer dictionary and outcome of each thread; `"off"` is a thread that is not at work in a behaviour |
| `OpenTmp`, `WriteTmp`, `Replace`, `ReplaceFails`, `Publish` | `_save_file` (open, write, `os.replace`, its exception) and `_update_cache` |
| `Readable` | `_load_file`, which gives up on a file it cannot parse |
| `Select`, `SelectExpired`, `Check`, `Answer`, `UpdateLatency`, `UpdateHealth` | `active_upstreams`, the health-check pass, `maybe_update_upstream_status`, `maybe_update_latency`, `update_health` |
| `Scan`, `RefreshProbe`, `BeginProbe`, `MarkInFlight`, `ExecuteProbe`, `FinishProbe`, `CompleteProbe` | `recoverable_upstreams`, `run_recovery_probe`, `begin_probe` (to the lock; after it), the probe, `finish_probe` (to the unlock; after it) |
| `TogglePause`, `SetHealthPaused`, `SetEnabled`, `ResetHealth`, `DeleteFile`, `RemoveFromCache`, `Create` | the handlers of the web interface and the functions they call |
| `Tick`, `Restart` | the clock; crash and `_load_cache` |

Opening and writing are two steps, and what is written goes to the file that was
opened, wherever that has been moved (as on a POSIX system). A record is smaller
than the 8 KB buffer of the file object, so it is written at once, when the file is
closed. Times are kept as the time that is left, latencies, counters and texts are left
out (no condition that is modelled reads them), and the failure streak saturates
at 10, the last value the code tells apart. An object of the heap that nobody
refers to is reset, so that it can be reused.

### WorkerLimiter

The condition variable guards the whole state, so each call is one action;
`acquire` gives the lock up in `Wait` only. A thread whose timeout expires
(`DeadlinePasses`) stays in the set `notify` chooses from until it has the lock
again, as in `threading.Condition`. `recent` stands for "the last overload is
less than `shrink_after` old". Of the statistics only `_active_start_times` is
kept. `release` drops the oldest start time whichever request ended, so
`oldest_active_seconds` can leave out the longest request; `update_limits` wakes
nobody, so after the limits were raised waiting handlers stay asleep until a
release or their deadline.

### FilterReload

The three sources a build reads (`rules`, `lists`, `profiles`) are version
numbers; `build_filter_engine` reads them one after the other (`Read`) and
`reload_filter_engine` swaps (`Swap`) or keeps the old engine (`BuildFails`).
The two coalescing workers differ: `FinishRules` clears counter and flag in one
critical section, `FinishToggle` leaves the flag to a later `finally` (`Leave`),
as the queue workers do. `Start` is the test of the running flag. A batch that
does not fit into its queue is cut (`EnqueueJobs`).

### MemoryDb

A file is an inode with a content, so that a writer that still has the file open
after it was moved writes into the database file, as it would on a POSIX system.
`serialize` chooses between the two ways of `sync_memory_db_to_disk`: a copy by
`db.serialize()` that is written outside `db_lock`, and `db.backup()` under it.
`Careless` threads commit without `db_lock` (VACUUM and `PRAGMA optimize` of
`db_maintenance_loop` do). `Stop` tells the loop to end and does not wait.
`CommitFails` is a failure before the commit (a batch of the log writer, a restore):
nobody rolls back, and the transaction of the one connection stays open
(`uncommitted`) until somebody's commit. `db.backup()` waits for its end
(`Writable`): SQLite answers a backup of a connection in a transaction with "busy",
which Python's module tries again without an end, and `sync_memory_db_to_disk` has
`db_lock` all the while.

### DnsCache

One shard of the cache and the requests that use it. `Hit`, `Miss`,
`LookupNegative`, `Forward`, `ForwardFails`, `BlockTarget` and `Store` are the
steps of `_handle_dns_request_inner` from `get_cached` on; a request that hits is
one step, as it holds the lock of the shard. `Forward` takes the engine as the
code does, after the answer arrived. `PrefetchEnds` and `RefreshEnds` are the
background threads, with an answer, no answer or an exception (only the last
takes the mark `stale_refresh` back). `Reload` swaps the engine; what it still
has to do to the cache is `reload`: the rules worker purges the answers with
CNAME records, `invalidate_rules_cache` clears the cache, the import, toggle and
delete workers do nothing. `SetCached` counts the bytes of the answer that is
replaced and of those that have to go. The mark, the remaining time and the
existence of the name are all an entry says.

### FilterRules, FilterEngine

`FilterRules` holds three things side by side: the rules as they are stored
(`Config`), the engine the code builds from them (`Build`: `add_pg_rule` and
`build_indexes_from_cache` for rules for everybody; `get_entries`,
`_reconstruct_rule` and `add_rule`, with its conversion of simple expressions,
for those of a profile) and asks (`Check`, `Explain`, with the literal index in
`Candidates`), and what the documentation promises of them (`Promised`), written
over `Config` without a look at the engine. A name is a sequence of labels.
`FilterEngine` puts it to work: `Ask` to `Trim` are the steps of `check` that
touch the shared negative cache (an engine is not changed once it is active, so
the look-ups between them are one step, `Decide`), `Reload` swaps the engine.

### Blocklists, RuleImport, RulesFile

What the engine is built from; MCFilterEngine composes them with it.

`Blocklists`: a list is a row (ETag, count, type, enabled, error) and a file;
a version of its content is a number, which is its ETag as well. `Ask...` to
`Save` are the steps of `update` between two uses of `_update_lock`: read the
row, download, commit the row, write the file, report; `AskAll` is `update_all`
with the rows it makes from stray files; `Load...` is the build of the engine
from the enabled lists. `blamed` remembers lists on which something met that the
code does not keep apart: two jobs with one list, a fault at a file, a crash. A version has two
numbers: `Counted`, the entries `parse_filter_list` finds, on which the checks of an
update and the row rest, and `Stored`, the rules `convert_blocklist_text` makes of
the text, which are what the file gets. `losses` remembers each update that replaced
rules by none, or many by fewer than half of them, judged by what is stored.

`RuleImport` is `convert_blocklist_text`: `ParseLine` is what one line becomes,
`Converted` drops the lines that a `$badfilter` line switches off, then the rules
that are there, and turns all of them in an allow list. The recognition of a
line in its text is left out: a line is given with its kind, domains and options.

`RulesFile` is `read_rules`, `write_rules` (lock, backup, `os.replace`) and the
migration at the start, with the two callers in `app.py` that read, change and
write. `meant` is the text if each edit had been made to the newest one.

### Clients

Tables of clients and profiles, the rebuild of the engine and then of the
snapshot after each change (`BuildEngine`, `BuildSnapshot`, which swallows its
errors), and `ensure_client` with its set of addresses seen in the last five
minutes, its bounded queue and its worker. Composed with `FilterReload`.

### SharedConnection, Settings, Sessions

Composed with `MemoryDb` in MCMemoryDb, as what the server keeps.
`SharedConnection` has the one connection's uncommitted and committed contents
(`log`, `data` and `saved`); its actions are the writer's batch, the pages,
the audit log (which commits without `db_lock`), the restore table by table, the
syncs, and a stop, which empties the queue because `shutdown_runtime_servers` imports
a module that does not exist (`import um`, app.py:14757). `storage` is where the
database is. With "file" a commit is in the database file (`synced`). In memory
(`DB_IN_MEMORY`, the default) it is not: `Sync` saves a snapshot with what is not yet
committed in it ("serialize"), `BeginBackup` and `EndBackup` hold `db_lock` until no
transaction is open ("backup"). After a stop `connect_db` loads the file as the last
sync left it, and every commit since is taken back (`reverted`); entries that were
cleared since are there again. The copy of the file that MemoryDb takes apart step
by step is one step here. `Settings` has the four
places a setting is kept in, with look, read and fill as steps of their own.
`Sessions` has the dictionary, the table and the table on disk.

### Listeners, Servers, Updater

Composed with `WorkerLimiter` in MCWorkerLimiter, as how the program runs.
`Listeners`: `holds` is the semaphore a connection's permit was taken from,
`slots` the limiter's count, `number` the worker's number in `WorkerDetailTracker`
(the lowest that is free), `open` the active requests; `LoadSettings` replaces the
semaphores, `RestartServer` the listening sockets. The rows of the worker page are
an operator of the limit, since the page asks the limiter before it looks at the
tracker. `Servers`: `dns`, `enc` are the lists of the program, `ports`, `kinds`
the sockets that are open, `job` and `step` who holds `runtime_restart_lock`
and where. The DoQ server has a thread of its own: it may open after the start gave
up waiting for it (`BindLate`) and close after the stop did (`closing`, `QuicCloses`),
when no list has it any more and the start that follows may find its port taken.
`Updater`: versions of files, `.last_commit`, the result of the last check. Each item
is cleared and then copied, be it a file, which is emptied before it is written, or a
directory, which is removed; version 0 is an item that is not all there.

### ConnectionPool, QuicSession, ForwardingModes

Composed in MCTransport. `ConnectionPool`: a query leases a slot (`Lease`), takes
the connection's lock, ensures a socket, sends, receives, tries once more, and
after a failure discards the connection and puts a fresh one into the slot
without the connection's lock. Maintenance and rebuild close what nobody uses under
its lock, in one step. What discards a connection (`Discard`, `Drop`) and what a
rebuild closes when its grace period is over (`CloseBusy`, `ForgetBusy`) is closed
without the lock, in two: the socket is closed, and then forgotten whichever it is by
then. `overrun` remembers the queries whose fresh connection, their last, others
closed in this way. `pipe` has the answers that are
still under way on a socket. `QuicSession`: tasks of one event loop, a first-come
lock, `Sweep` and `Cancel` outside of it, the penalty after a failure, the
fall-back to TLS. `ForwardingModes`: the semaphore a handler is bound to, the
upstreams it asks by turns or all at once, the check and the write of the
five-second throttle as two steps, and the last resort of a refresh.

### TrustAnchors, DnssecValidator, DenialProof

Composed in MCDnssec. `TrustAnchors`: handlers that read, write and replace
`trust_anchors.json` without a lock and with one temporary file, the RFC 5011
states, restarts, and an operator of the root zone who rolls its key over.
`DnssecValidator`: one thread, a chain of zones, look-ups that are good, stripped,
forged, foreign, absent or lost by turns, three caches that expire one by one, a
deadline. `DenialProof`: `_prove_nsec3_denial` with its candidates, matching and
covering records, against every small zone, order of hashes and set of records.

## 4. Runs

Every run is exhaustive for its instance. `CHECK_DEADLOCK FALSE` is set
everywhere because every system here may really stop: bounds run out, the server
exits, or nobody asks for anything. Where a run composes several modules, each
behaviour belongs to one of them (`part`), and the variables of the others keep
one value: the modules do not share state, the run asks one question of them.

| Run | Question | Instance, and why it is enough |
|---|---|---|
| UpstreamSafety | Is the upstream probed by one thread at a time, and is every copy of its record consistent, whoever wrote last? | the pairs recovery worker with probe-all, with a forwarder, with the web interface; 2 failing queries, 2 web operations, 1 crash; three objects (one cached and one for each thread). Starts: three failures in a row (one short of a pause) and a pause under way. What threads do to each other they do in pairs; the theorems hold for any number |
| UpstreamRecovery | Does an upstream come back once the network is good, and does the file implement the abstract circuit breaker? | the recovery worker with the health check, and alone; 2 faults and 2 crashes, under fairness |
| Limiter | Counters, wake-ups, burst limit, return of every request, end of the burst; true lists, status, versions and worker page | four handlers: two at work at the burst limit, one woken, one asleep; two changes of the base limit or resets. Servers: two ports, two encrypted kinds, three requests, two failures. Listeners: two connections for one permit and a third thread, two slots, three messages, two events of each kind (settings, restart, samples). Updater: two updaters, two items, two versions, one fault |
| Reload | Do edits reach the engine, is there one worker of a kind, do clients and profiles follow their tables, does every client get known? | one thread that reloads in each behaviour (every kind of them), five edits at any moment, two faults, a queue of two. Clients: two admins, two changes, two profiles, an address inside and one outside of a network, a queue of one |
| MemoryDb | Is the file whole and current when the flag says so, does every commit get there; is the shared connection used so that nothing is written twice or half; are the copies current? | loop and last syncs, one committer with and one without `db_lock`, two commits, any of which may fail and leave its transaction open, one fault, one crash, both modes; four inodes: database, temporary file, and one open file for each syncer. Connection: a queue of two, three entries, one fault, one stop, a restore with and without lists, the database in its file, in memory with snapshots, and in memory with backups. Settings: two threads, a hot key and a plain one, two changes. Sessions: two of them, two readers |
| DnsCache | Does the byte count hold, and do changes of rules and names reach the cache? | one request at a time beside two refreshes of a name and a prefetch of each, two profiles, two names (one with a CNAME record) that do not fit into the shard together, in each of four modes; a change of the rules or two of the names; an answer lives two units of time and one more as stale, so that it is fresh, due for a prefetch, stale, and too old |
| FilterEngine | Do answers follow the documented priority, does the explanation agree, does the cache keep its bound; is what the engine is built from kept? | any two settings (each kind of rule at each place it can be stored, each switch) with seven names and three kinds of clients, one query each, since a decision depends on the query and the rules alone and priority is a matter of pairs; two threads with three queries each over a reload, with room for one entry. Lists: two jobs, one list with up to three operations and one fault, or two lists; five versions, one of them large, one empty, and one whose lines are counted and not stored. Import: every text of up to three of 23 lines (each option where it changes what a line becomes), as a block and as an allow list. Rules file: two editors, three edits of two rules, one failure or crash |
| Dnssec | Are trusted keys held, is a rollover followed, what makes an answer secure or bogus, what does a denial prove? | two handlers, or one and a restart, over seven days of a rollover with a hold-down of two days; a chain of three zones with one look-up at a time that is bad, and all lost; zones of up to three names, every order of the hashes, every set of records |
| Transport | Does a socket serve one query at a time, does every query over a pool succeed while the upstream is up, does a failure have a cause, are slots and failures accounted for, does every query end? | two queries on one connection of a pool (the case of two leases of a slot) with an outage and a rebuild, with maintenance and aging, or two agings; three kinds of trouble for two handlers of a QUIC session; two handlers with one slot, two upstreams and an unsupported one in each mode, with one replacement of the semaphore and up to three changes of the upstreams |
| UpstreamLockLeak, DnssecNoData, TransportAnswers | see section 6 | what each needs |

`ProbesFollowBreaker` is checked with one prober. With two it fails if the second
one gets through its whole probe between the release of the lock in
`finish_probe` and the last save of the first. `SettledIsCurrent` is checked with
one reloading thread at a time: when two reloads overlap, the one that read the
older data may swap last, and the engine stays behind the database until the
next edit. Both are listed as hazards.

Several properties except by name what the code does not keep apart; section 6
lists these. The exceptions are history variables that are set where the trouble
happens (`blamed`, `overtaken`, `restored`, `reverted`, `torn`, `overlap`, `overrun`,
`closing`, `disturbed`, ...), so
that the property still speaks of every other state of the same behaviour. Five of
them matter most, because they stand for a promise the code breaks in its default
configuration: `Lost` (a file of an upstream that two writers left unreadable, and
nothing the recovery worker can start from), `Stuck` (a backup that waits for an open
transaction), `reverted` (commits since the last sync, after a stop), `Miscounted`
(a version of which fewer rules are stored than were counted) and `closing` (a DoQ
server that outlasts the wait for its end). Each is needed: without it TLC finds the
property violated under the same configuration.

### Fairness

* `UpstreamManager`: the recovery worker and the health check loop for the life
  of the process (`_health_recovery_worker`, `_healthcheck_worker`), every
  operation that began runs on, time passes. Nothing is assumed of clients, of
  the web interface or of crashes. `faults` bounds the failing queries: the
  property speaks of a network that is good in the end.
* `WorkerLimiter`: a handler ends its request (each upstream query has a
  timeout), a thread that was woken gets the lock, deadlines pass, and
  `maintenance` is called every three seconds.
* `FilterReload`: a request that committed an edit goes on to tell the worker, a
  worker and a build go on.
* `Clients`: the worker of unknown clients goes on, and a client that goes on
  asking does so also when there is room in the queue (strong fairness of
  `EnsureClient` and of the five minutes that pass: without it a client could ask
  only when the queue is full, which no server could help).
* `MemoryDb`: the loop wakes up, and a commit that began ends or fails. Nothing is
  assumed of a backup while a transaction is open: it does not end. No strong fairness
  is needed for `db_lock`, because commits are bounded.
* `DnsCache`: requests, prefetches and refreshes end, because queries time out;
  a reload that swapped the engine goes on to the cache; time passes. Nobody has
  to ask for anything.
* `DnssecValidator`: entries of the caches expire.
* `QuicSession`: the event loop runs every task that can go on, and timers fire.

### Seeded bugs

Each property of a passing run has a mutant: a definition named `...Unlocked`,
`...GivesUp` and so on, introduced by "A bug:", that stands before the definition
it would replace. No specification uses these; they show that the property
breaks when the code is changed in that way.

## 5. What is proved

The proofs assume only the named assumptions of the modules (disjoint kinds of
threads, positive durations, `base <= max` in every setting, finite sets of
threads, one more file name than can be in use, more names of connections and
sockets than can be in use, an installed anchor, rules and queries of the types of
the code). What a run enumerates and a theorem need not - the scenes of a
composition, its kinds of trouble, the queries at work, the rules of the engine, the
lists of upstreams - are CONSTANTS, which the `.cfg` gives the definitions named
`Some...`, `ThreeUpstreams` and `OneBudget`; the theorems hold for all values the
assumptions allow. Where a run composes parts that never meet (`PartsSpec` and its
like: in each behaviour one part runs and the others keep their state), a theorem is
of `PartsSpec` if its property speaks of several parts, and of the part's own `Spec`
otherwise.

`UpstreamManager_proofs` first shows that each pure operation of `UpstreamHealth`
keeps a record *sound*: typed, `PausedIsOpen`, `ManualIsPaused` and
`AutoPauseEnds`. It uses the inductive invariant `IInv`: every record in the
file, the temporary file and the heap is sound, a thread in the middle of a save
has a record, and the other variables have their types. No property of the
cached record alone is inductive, because records travel: a thread saves what it
loaded long ago from an object of its own, through a temporary file that others
use, so all copies have to be sound at once, and with all their fields (an
operation that keeps the reason "manual" or a level relies on the others). From it:

* `TypeCorrect`: `Spec => []TypeOK`
* `PausedAreOpenAlways`, `AutoPausesAlwaysEnd`: no interleaving, stale save or
  crash yields an inconsistent copy of the record.
* `ProbesExcludeEachOther`: with `LockInv` (while a thread is between the lock
  and its release the lock is taken, and no other thread is there), two threads
  never probe at once, for any number of recovery workers and probe-all requests.
* `ProbesFollow`: `Spec => ProbesFollowBreaker`, the refinement of `CircuitBreaker`,
  if there is at most one prober (a hypothesis on the constants; with two TLC finds
  it false, see section 4), for any forwarders, checkers and admins beside it, of
  whom the property speaks as long as they are not at work, any failures, restarts
  and backoffs. The file alone does not say that its circuit moves as it should: the
  new one comes from the cached object, by way of the temporary file. `BreakerInv`
  says at each place of the probe how the two circuits may differ (`Moves`: the move
  of the breaker that is being saved) and that the temporary file holds the new one;
  a restart in the middle of a save finds the move done or not done. That a pause
  that ends was an open circuit (`PausedIsOpen`) comes from `IInv`.

`WorkerLimiter_proofs`:

* `AccountsBalance`: `active` is the number of handlers at work and
  `base <= current <= max`, for all changes of the settings.
* `NoLostWakeups` and `BurstLimitKept`: under the named hypothesis
  `OneBurstLimit` (all settings have the same burst limit; the base may change)
  a handler waits only when every slot is taken or promised to a woken handler,
  and nobody is admitted beyond the limit. The hypothesis is needed: without it
  `WithinBurstLimit` does not hold (section 6). `WorkConserving` is
  inductive together with `Accounting`: a release frees one slot and wakes one
  waiter, and a woken handler that is late still takes a free slot, because the
  loop of `acquire` looks for one before it looks at the deadline.

and of the servers, the updater and the listeners that `MCWorkerLimiter` puts beside
it:

* `StatusHonest`, of `PartsSpec`, from `PartsInv`, with an invariant per part:
  * `ServersInv`: as long as no job ran while main started the servers, the open
    sockets are those that are listed, a job that is half-way has closed or opened
    what its step says (`JobIsAt`) but for a DoQ server that is still closing
    (`closing`, which a start that follows may find in its way), and the page that asks to wait is only there while
    a restart is scheduled or has failed (`PageIsTrue`). The status alone is not
    inductive: a restart takes away the servers it calls ready and brings others.
  * `UpdateInv`: while one updater works, what it copied is of its archive, and that
    is no older than the commit the program takes for the installed one
    (`CopyingIsNewer`, `NewOrRemoved`); an item that is not all there is the exception.
  * `ListenersInv`: everything that is counted follows from what the threads do:
    slots, permits and entries are numbers of threads in certain stages (`GoesIs`,
    `HoldersIs`), also of semaphores nobody is given any more. The lowest free number
    is no greater than the workers there are then (`LowestFreeIs`, by the pigeonhole),
    so the page has a row for each; the samples add up to what was reported.

`MCMemoryDb_proofs`, of `MemoryDb` (versions are natural numbers, so no bound on
commits enters):

* `TypeCorrect`; `DiskIsWhole`: with `Files` (the files under the two names and
  the open ones are not mixed up) what was still being written is never moved.
* `CleanSaved`: `IInv` adds to it, while the server is up, that a sync which noted
  the present generation and finds nobody between the commit and the count has
  captured the present database. That is what makes the clearing of the flag
  right, although it comes long after the lock was given up.
* `BackupSaves`, for `db.backup()` and `MaxFaults <= 1`: `BackupInv` follows the
  last syncs (the main thread's and the one of `atexit`) and the loop, which still
  runs. With two failures the property is false.

and of the connection and the settings that `MCMemoryDb` puts beside it:

* `ConnectionShared`, from `ConnectionInv`: the entries in the queue, the batch and
  the open and committed log are in order, disjoint and all that was produced
  (`EntriesInv`), and the steps of a restore account for each table (`RestoreInv`), in
  the tables and in the file, wherever the database is. The file is part of it because
  a stop makes it the database: what `RestoreIsWhole` says of it is what keeps the next
  process from half of a restore, and `RestoreIsServed` speaks of a restore that
  reported success until a stop takes it back (`reverted`).
* `CopiesCurrent`, from `SettingsInv` (the latest value of a key is in the table or
  with the thread that brings it, and so is each copy) and `SessionsInv`.

`MCFilterReload_proofs`:

* `OneWorker`, from `WorkerInv`: jobs and edits that are owed are counted as well.
* `SettledCurrent`, from `ActorInv`: what the worker has not read yet is still to be
  told to it or counted. It holds where one kind of thread reloads; with two, an
  older engine can be swapped in last (section 4).
* `ClientsCurrent`, from `ClientsInv`: there is a latest change everybody who will
  rebuild knows of (`EngineFollows`, `SnapshotFollows`).

`MCFilterEngine_proofs` first shows, without a state, that the engine decides as the
documentation says. `ProfileTables` tells what the tables built from the rules hold;
`ProfileAgrees` and `GlobalAgrees` that a look-up in them finds a name exactly when a
rule matches it in the words of README.md:233-250; `StepsAgree` the same of the
switches of a profile. Each uses one conjunct of `~Deviates` and so shows where the
code would go its own way: an expression the index lets through (`Tried`), an exact
line that is not widened. `Decided` puts the steps in the order of `Priority`, for
all rules and all queries; `ExplainIsCheck` holds for every engine. The threads come
in with `EngineInv`:

* `PromisesKept`, `ExplanationsTrue`: what a cache remembers is what its own engine
  decided for the name and profile that are its key (`RememberedIsTrue`), and a thread
  between the look and the answer has a query its engine has no rule for
  (`AnswersAreTrue`). A key without the profile would break it, and so would an entry
  that is put into the cache of the engine that is active by then.
* `CachesBounded`, from `Bounded`: every key that was added is in the cache, was
  evicted, or belongs to a thread that did not make room yet (`MakingIs` counts
  them) or failed; an eviction may take the key of another thread.
* `PartsKeepRules`: `PartsSpec => []RulesAreKept`, for what the engine is built from,
  with an invariant for each part, for all pairs of sequences `Counted` and `Stored`.
  *Lists* (`ListsInv`): of a list that is not in `blamed` the file is the version and
  the type its row says (`Honest`), except while the one job that has it is between
  the commit of the row and the file, and then the job has what the file will be
  (`InHand`). That the engine follows is `Followed`: what the enabled row asks for is
  in the engine, or a reload is due, or a list yet to be loaded, or a job whose end
  will ask for one. Neither half is inductive alone: a "304" keeps the file, so the
  row must not promise what the file does not have, and the build reads row and file
  at different times. `LastRulesKept` needs that the old number the checks compare
  with is that of the version in the file (`RowIs` with `Honest`); then a download they
  let pass loses no stored rules unless one of the two versions is `Miscounted`
  (`AcceptedIsKept`).
  *Import* (`ImportInv`): `converted` is `Converted` of the text, so the four claims
  are lemmas about that function for all texts. `NoRuleIsLost`: a rule of a live line
  is in the result, for there is a first line that has it (the least of a set of
  numbers); `SwitchedOff` that the comparison of canonical lines is `IsSwitchFor`.
  `Converted` and the places of the rules are written as functions, without folds.
  *File* (`FileInv`): who is about to replace the file holds the lock, and has copied
  what is there now into a backup; an edit made to an older text is `disturbed`.
  Assumed are ids from 1, sizes that are numbers, lines that can be read
  (`Readable`), and that `None` is none of the values it stands beside.

`MCTransportPool_proofs`:

* `SocketsServeOne`, from `PoolInv`: what a thread can reach (`UsedConns`: the lists in
  use, the list a rebuild has yet to close, the connections threads hold) is fewer
  than there are names (`UsedIsFinite`), so there are new ones for a whole pool and a
  new socket (`FreeConnsAre`, `FreeSockIs`); whoever is in the middle of a query holds
  the lock of its connection (`LeaseInv`), whatever has become of its slot; and
  connections in use have sockets of their own (`SocketInv`). The lock alone would not
  do: it says nothing of the fresh connection that a failed query puts in the slot,
  and discarding and closing after the grace period change a socket without the lock,
  in two steps, of which the second may forget another socket than the first closed.
  All they do is take it away.

`MCTransport_proofs`:

* `QuicFailures`, from `QuicInv`: who waits for the lock stands in line once, the
  lock has one holder, and who was disturbed knows by whom.
* `ForwardingSound`, from `ForwardInv`: each handler holds a slot of the semaphore
  it was bound to (`SlotInv`), what it believes of an upstream was true when it
  asked (`TruthInv`), and the throttle's time is no later than now.

`MCDnssec_proofs`, of all three parts of DNSSEC validation:

* `AnchorsHeld`, from `HeldInv`: not the anchors in memory alone but every file
  that is or was a state file, and what each thread is about to write, is *honest*:
  a pending key was published when it says it was first seen or before, an active
  one was held. As threads share the temporary file, any content may end up under
  the name, so all of them have to be honest.
* `RolloverFollows`, from `HeldInv` and, as long as no file was given up, `RollInv`:
  the operator leaves a key every validator had the time to trust (`OldKeyStays`); a
  file under one of the two names that is not whole has a writer (`WritersWrite`);
  what is about to be saved knows today's keys, and the state file those of
  yesterday, and today's once a thread is past its replacement (`FilesKept`); a held
  key that the state file knows is in memory or is about to be loaded
  (`KeysTrusted`). The last part rests on a detail of the code: a thread that saves
  without a change skips the reload, which is right only because the file, and
  with it the memory, knew the key before.

* `BogusContradicted`, from `ValidatorInv` (the types and the property itself), and
  `SecureSigned`, from the same invariant. The step that matters is a validation:
  `ChainIs` says that the walk from the root ends with keys or with the first link
  that fails, `InvalidIsFetched` and `KeysAreFetched` what a walk must have asked for
  (`WalkedIs`) and so left in the cache, `ValidatedIs` why the kinds of answers are
  bogus or secure. "The first one that fails" is the least number of a set; that it
  exists, `LeastExists` gets from the library's well-founded order of the numbers,
  without induction. For this the module has no fold over sets or signatures: the
  sets that decide keep their positions, and `FirstBut` takes the first that matters.
* `DenialsExact`, from `ProofInv`, for every zone whose owners include the ancestors
  of each (RFC 5155 has records for empty non-terminals), every injective hash and every
  name. `RecordsAreTrue`: a record never covers a name that has one (`NextIs`).
  `AcceptedAreTrue`: the denied next closer name rules out all names below it
  (`OwnersReachUp`), so the closest encloser the code found is the real one, and its
  wildcard the one that matters. `MissingAreAccepted`: the owner with the last hash
  before a name (`GreatestExists`, from the count of those after it) covers it, also
  where the circle of the hashes closes; a zone of one record is the exception.

Only model-checked so far: `SteadyUpstreamAnswers` of the pools (of two queries:
the proof would have to show that a fresh connection nobody closes gives an answer at
the second try at the latest, over everything an outage left on it), and `CacheFits`, whose byte count is a fold over
the shard: a fact about folds needs induction over data, which
is out of the prover's reach. So are the liveness properties (`Recovers`, `RequestsReturn`, `BurstEnds`,
`RulesReachEngine`, `ClientsGetKnown`, `CommitsReachDisk`, `AnswersCatchUp`,
`RulesReachPlainCache`, `OutagesPass`, `QueriesEnd`), as liveness under fairness
and ENABLED cannot be proved here, and RECURSIVE operators.

## 6. Where the code and its documentation disagree

* UpstreamLockLeak: all writers of a record share `<id>.json.tmp`. The one that
  is second at `os.replace` gets an exception in the middle of its operation; in
  `begin_probe` it leaves the probe lock taken, and the upstream is never probed
  again. The same happens when an upstream is deleted during its probe
  (`finish_probe` returns before it releases), and the next upstream that gets
  the id inherits the lock.
* DnssecNoData: an NSEC3 proof that a name has no record of a type is the one
  record of that name; the code asks for the denial of a wildcard below the name
  as well, and such honest answers become bogus.
* TransportAnswers: a query whose second try fails gives the connection's lock
  back before it closes the socket. A query that waits for the lock sends its
  question on it and reads the late answer to the other one.

Seen while modelling, without a run. Upstreams, limiter, reload:

* `update_health` saves a copy it loaded before a manual pause, and the pause is
  gone; `finish_probe` can do the same.
* Two writers of one upstream also meet in the content of `<id>.json.tmp`: one
  opens it, which empties it, and the other moves it into place. If the first
  dies before it writes, or writes less than another one did before, the file of the
  upstream is empty or has a tail, and `_load_file` (38-46) gives up on it:
  reports of queries change nothing any more, the health check cannot help, and
  after a restart the upstream is gone. The recovery worker writes the file
  anew from the cached record, if it has one with an end of its pause and can
  take the lock (`Lost` names where it cannot).
* A success, a late failed probe and the first failure of a new streak leave the
  circuit of an upstream open without a backoff. Neither queries nor the recovery
  worker look at it; the health check rescues it, which is why `Recovers` still
  holds - with the health check switched off the upstream stays away.
* The threshold is a single comparison: README.md:394 speaks of five failures in a
  row, the code pauses at the fourth, as `tests/test_upstream_health_backoff.py`
  expects. `should_allow_request` and `upstream_worker_slot` are used by nobody.
* After the limits of the worker limiter were lowered under load and raised again,
  `acquire` adds one to the current limit and admits the request without comparing
  the two again, so that more requests run than the burst limit allows
  (README.md:320). Take settings with different burst limits in `Limiter.cfg`.
* The import and the delete worker decide to leave in one critical section and
  clear their flag in a later one; a job queued in between stays in the queue,
  reported as running, until the next job comes. The toggle worker has the same
  gap; the rules worker does not.
* A snapshot of the clients that fails to build is an empty one, and every client
  is answered by the default until the next change; where the engine's build
  fails, the old snapshot stays. Overlapping rebuilds may leave the older one.

Cache and filter:

* A prefetch stores what the upstream says without a look at the CNAME targets.
  One that was under way during the purge of a rule change, or that comes later,
  brings a blocked answer back; it is served, and prefetched again, for as long as
  it is asked for. Refreshes of expired answers do the same (`RulesReachCache`
  fails in these modes).
* The cache has one entry for all profiles: a profile that blocks the target of an
  answer gets it when another one asked first. `Obeyed` therefore speaks of
  targets that are blocked for everybody. A change of the blocklists alone does
  not touch the cache: answers whose CNAME target is newly blocked are served
  until they expire.
* A second request for an expired answer that is being refreshed removes the
  entry the first was served from. A refresh without an answer leaves the mark
  behind. As the entry may be stored again meanwhile, two refreshes of a name can
  run at once, though the docstring (app.py:5257) says "Only triggers one refresh
  per key".
* The literal index of the filter engine compares the words of an expression with
  whole labels and endings of a name: `br::tracker` is never tried on
  `mytracker.net`, though README.md:248 has expressions "tested against the entire
  domain". Rewrites with a star (README.md:225) do not pass `normalize_domain` and
  are dropped; rewrites of a profile (step 3 of README.md:232-240) are never
  loaded; an exact line of a list applies to all names under it for a profile that
  has the list (README.md:245 says "only the exact domain, not subdomains");
  SafeSearch of one search engine is enforced on the names of all. These are the
  exceptions `Deviates` names; everything else the engine does as documented.
* A thread whose entry of the negative cache is evicted between the look and
  `move_to_end` gets a KeyError, and its query fails (`result = "error"`). It takes
  as many other names in between as the cache holds.
* `$badfilter` is recognised only as the first option of a line: with
  `||d^$important,badfilter` the rule for `d` is made, not switched off. Options
  that are not known are ignored, so that a rule for some sites blocks everywhere.
* Two edits of the user's rules that meet lose the earlier one; a file that cannot
  be read counts as empty, and the next edit writes that. The old text is in a
  backup, unless a second backup of the same second replaced it.
* An update of a list is accepted by what `parse_filter_list` counts
  (blocklist_manager.py:656-671) and stores what `convert_blocklist_text` makes of
  the text (684-685). Lines such as `||x.com^$script` or `example.com##.ad` are
  counted and not stored, so that a list with nothing else empties the file, although
  README.md:371-377 says that updates "keep the last working rules" if a download has
  no valid rules or a large list shrinks suspiciously (`LastRulesKept` without
  `Miscounted`).
* Blocklists: the ETag is committed before the file is written, and a download
  that answers 304 keeps the old rules for good; a list deleted during its update
  is made again by the next `update_all`; a list added beside others is not told
  to the engine when the download fails; a list deleted between two steps of
  `update_all` ends that thread, and its flag stays set.

What the server keeps:

* In the default way of keeping the database (/dev/shm and `db.backup()`), a write
  that fails before its commit, in a batch of the query log (app.py:5893) or in a
  restore (13277), leaves the transaction of the shared connection open. The next sync
  waits for its end inside `db.backup()` (1416-1422), with `db_lock`, so that no writer
  can commit and nothing reaches the disk; the sync at shutdown waits for the same lock,
  and the process hangs. Only a commit of a thread that does not ask for `db_lock`
  (the audit log, VACUUM) ends it. README.md:618 says that changes are synchronized
  "every `60` seconds and again during normal shutdown", and that saves "are not
  blocked" (`CommitsReachDisk` without `Stuck`).
* With `db.serialize()` the sync of the loop may move its older snapshot over the
  one of the last sync; the commits in between are lost. `BackupShutdownSaves`
  holds for `db.backup()` only.
* In memory, a stop of the process takes back every commit since the last sync: a
  restore that reported success, settings, log-outs. The upstreams have files of
  their own and keep the state of after the restore, so that the two may not fit
  together; entries of the log that were cleared come back. A snapshot by
  `db.serialize()` saves what another thread has not committed yet: after a crash the
  half of a change that failed is in the database.
* Every start of app.py runs `connect_db` while the module is loaded (1397), the
  command line and a second window included, which asks for the instance lock only
  later (15413). With /dev/shm this copies the file on disk over the database the
  running server works on, and the commits of the last minute are lost; with
  `:memory:` the next sync of the server overwrites what the command line saved.
* Restore: with a blocklist in the backup the second pass asks for a column that
  the table does not have (app.py:13281), so that every such restore fails after
  most of its work; nothing is rolled back, and the next commit makes it durable.
  The restored rules go to a table, not to the file the engine reads. Its direct
  writes leave the hot copies of the settings as they were.
* A fill of `_settings_cache` that overlaps a change keeps the old value until the
  next change. Values latched in globals never change.
* A request that looked at the row of a session in the middle of a log-out brings
  the session back to memory; a crash before the next sync undoes a log-out.
* The module imported at shutdown does not exist (app.py:14757): the workers are
  never stopped, and the queue of the log is emptied, not written.

DNSSEC and transport:

* A revoked key has a key tag of its own (README.md:269): the anchor in use is not
  marked as revoked by it; it goes when the key is no longer published. While the
  anchors' file cannot be replaced, honest answers may become bogus, though
  dnssec_validator.py:35 calls this no cryptographic failure.
* A DS look-up that is lost counts as an unsigned delegation (README.md:267);
  an alias with an NSEC denial is bogus; an NXDOMAIN without signatures is kept.
* The idle sweep of the QUIC sessions resets a session during its first query; a
  failure to connect is not recorded as a failure.
* The fresh connection a query tries after its own one failed is in the slot already,
  so that another query can lease it, fail on it and discard it, or a rebuild close
  it after its grace period. Both close without the lock, in two steps, and so can cost
  it both tries: the query gets an error while the upstream is up (`overrun`).
* A race with a single usable upstream never records a failure; modes that ask in
  turn let an exception other than OSError through without a report; the losers of
  a race run on after the slot was given back.

Life of the program:

* A restart beside main's first start leaves servers that no list has
  (app.py:15473); a DoQ server that starts late keeps its port for good; one whose end
  takes longer than the waits of a stop (1 s and 3 s, app.py:14681-14700) is dropped
  from the list with its socket still open, and a restart finds the port taken and
  goes on without DoQ; a stop
  does not cancel a restart whose timer runs; after a restart that failed the page
  "Reboot DNS ..." stays.
* Connections keep the permit of the semaphore they took it from: after a load of
  the settings more connections than the new limit may be open.
* Updates that overlap, and the first check without `.last_commit`, may name a
  commit that is not installed; an update that breaks off inside a file leaves a part
  of it, with which the program may not start; the restart after an update loses what was not
  synced (app.py:4984).

## 7. Not modelled

`PROJECT.json` lists every component and what is left out of each. Left out for
good: socket and TLS input and output (a client that stalls in the TLS handshake,
for one, blocks the accept loop, and with it a restart), cryptography (DNSSEC
signatures, DNSCrypt), pages and formatting, the service catalog (constants),
schema migrations (straight-line SQL before any thread runs), the recognition of
a rule in its text, tests, benchmarks and diagnostics. In the modelled parts:
counters, latencies, averages and texts of a record, the fallback resolver's
choice, the bytes of a download, migration of upstreams from SQLite, the limit on
log-in attempts, the lock file of the instance and a second process beside the server, the watchdog's operations (nothing
registers one), the order of names of NSEC proofs (NSEC3 proofs are modelled) and
two validations that share one deadline.
