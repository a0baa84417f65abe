# A TLA+ model of authkeys

authkeys answers one question for sshd: *which public keys open this account?* It is run
per login as an `AuthorizedKeysCommand` (`authkeys resolve`), or kept running as a
threaded HTTP server (`authkeys serve`); cron runs `authkeys cache purge` beside either.
This directory models the program from the line of `authorized_keys` to the exit status,
checks the models with TLC, and proves with TLAPS what matters most for every number of
threads, sources and users and every configuration.

Source paths below are relative to the repository (`src/src/authkeys/` in `PROJECT.json`).
Definitions carry the names of the code; `PROJECT.json` maps each of them to the lines it
stands for.

* [1. The system](#1-the-system)
* [2. The modules](#2-the-modules)
* [3. The runs](#3-the-runs)
* [4. Fairness](#4-fairness)
* [5. The proofs](#5-the-proofs)
* [6. Where the code and its documents disagree](#6-where-the-code-and-its-documents-disagree)
* [7. What the models leave out](#7-what-the-models-leave-out)
* [8. Plan](#8-plan)

## 1. The system

A request for an account goes through the parts like this:

```
sshd / curl ──> Command ──> resolve ──> [delegation]  ──> for every source, for every user:
             or Server         │        users map, lock       cached source lookup
               (slots)         │                              lock ── AuthKeysCache ── backend
                               └─ load_user_config            no lock ── source ── KeyLine
                                  group lookups (lock)                   (LDAP, HTTP, file)
```

One `AuthKeys` object is shared by all threads of the server. Its `RLock` guards the map
of loaded user configurations and the reads and writes of the cache. A file cache is
shared further, by every process of the host that is given its directory; no lock reaches
that far.

| component | state | operations | what is hard | what makes it right |
|---|---|---|---|---|
| **Cached source lookup**: `_resolve_source_user`, `_cached_keys`, `AuthKeysCache` (`__init__.py`, `cache.py`) | cache entries (value, time), the lock | look up, fetch, store, rescue from an expired entry | the lock is given up over the fetch, so a slow answer is stored late, over a newer one or after a purge; three TTLs and `max_stale`; the backend and the source fail independently | an entry is something its source said; keys a source gave up stop working in bounded time; an outage is not taken for "no keys" and locks nobody out who could be served; a hanging source holds up nobody else |
| **Delegation**: `resolve`, `load_user_config` | `AuthKeys.users`, the lock, the file on disk | pop, read, load (with group lookups), use | requests for one user share one slot of the map, and drop and write it at any point of each other; one group of several fails | the file as it is now decides; a grant is used whole, and lost for a reason only |
| **Resolver**: `authorized_keys`, user maps (`__init__.py`, `usermaps.py`) | what is left of the loops, the keys so far | sources × users, one lookup each | two parts with critical sections of their own under one lock; one lookup of several fails in the middle; names are mapped per source | who is let in was named and known to a source under the mapped name; the error of one source costs its own keys only; each part still does what it does alone |
| **Key lines**: `AuthorizedKey.parse`, `__str__`, `parse_all`, `default_sanitize`, deduplication | none | parse, sanitise, print, compare | a tokenizer of quotes and backslashes tells restrictions from keys; the cache stores printed keys and parses them again | no restriction is cut off; printing and parsing is the identity; no line costs another |
| **File cache**: `FileCache` (`cache.py`) | one file per entry, temporary files | get, set, delete, keys | several processes, kills, power loss, a full disk; the read and the `stat` look the name up separately | a reader never sees an entry before it is written; value and time belong together |
| **Memory cache**: `MemoryCache` | a dictionary | the same, atomically | nothing on its own | a special case of the cached lookup (`Shared = FALSE`) |
| **Cache command**: `authkeys cache show/purge/warm` (`cli/cache.py`) | what it has listed and chosen | list, age, delete, resolve | decides first and deletes later, by name, beside running writers and other commands; entries it may not read or cannot decode | removes all it was asked to and no more, keeps what is still in use, and does nothing when it fails half-way through its choice |
| **LDAP source** and its two clients (`_ldap.py`, `_ldapclients.py`) | a connection; the keytab variable of the process | check options, choose a client, connect, StartTLS, bind, search, convert | every mixture of scheme, StartTLS, mechanism and client; replies of the server; a certificate that does not convert | nothing secret is sent and nothing believed over an open connection; an error is never an empty or a partial answer |
| **Commands** `resolve`, `check` (`cli/`), with **configuration** and **registries** (`config.py`, `_plugins.py`) | the sources built, the keys collected | load, plugins, build, ask, print | any of many steps fails; sshd believes an exit status of 0 | status 0 means that everything enabled was built and asked, and all answers printed; nothing is asked or printed too early |
| **HTTP and file sources**: `KeyClient`, `http`, `github`, `file` | none | fetch, read under ownership checks | status handling, the checks | an error is an error, not an empty answer |
| **Key server**: `KeyServer`, `KeyHandler`, `bind_servers`, `serve` (`server.py`, `cli/serve.py`) | sockets, accept loops, slots, handler threads | bind, accept, take or refuse a slot, handshake, answer, shut down | many ways for a connection to end; slow clients; one lock under all requests; one address of several that cannot be bound; loops on several threads to stop | no slot leaks; the loop is never stalled by a client; no keys without the API key; Ctrl-C ends it |
| **Arguments and completion** | none | done by the `duho` library before a command runs | | |

The file cache, the HTTP and file sources, the configuration, the registries and the
server are modelled in part, the last line not at all; `PROJECT.json` says of each what is
left out, and section 7 why. Its `hazards` list names, at their lines, the things in this
code that a test would hardly reach, with the properties that cover them.

## 2. The modules

| module | what it is |
|---|---|
| `SourceCache` | the cached source lookup, any number of threads |
| `BoundedStaleness` | what a login is promised about an answer; `SourceCache` implements it (`KeepsPromise`) |
| `Delegation` | `resolve` up to the fetch: file, map, lock, groups |
| `Resolver` | `resolve` from the call to the keys: `Delegation` and `SourceCache` over one set of threads and one lock; it implements both (`Delegates`, `LooksUp`) |
| `KeyLine` | a line from the source through the parser, the cache and the deduplication to the output |
| `FileCache` | one entry of the file cache, system call by system call |
| `PairStore` | what a cache backend is to `AuthKeysCache`; `FileCache` implements it when operations do not overlap (`IsPairStore`) |
| `CacheCommand` | `authkeys cache show`, `purge` and `warm` over several entries, beside logins and each other |
| `Ldap` | the ldap sources of one process: constructor, choice of the client, a search with either |
| `Command` | `authkeys resolve` from the configuration file to the exit status; extends `Ldap` |
| `Server` | the key server from the first bind to the exit |
| `…Proofs` | theorems about `SourceCache`, `Delegation`, `Resolver`, `KeyLine`, `FileCache`, `CacheCommand`, `Command` (with `Ldap`) and `Server` |
| `MC…` | constants for TLC: model values, functions, the symmetry set |

The machines fit together at atomic steps. `Resolver` composes `Delegation` and
`SourceCache` by `INSTANCE`, with all their steps. Elsewhere one machine has one step for
what another takes apart: of what `Resolver` does `Server` keeps, for each user of a
request, when the shared lock is taken, kept and given back; `SourceCache` has
`SourceReplies` and `SourceFails` for a search of `Ldap`, and treats the backend as the
atomic `PairStore` that `FileCache` is shown to be when nothing overlaps, and a key list
as a value, which `KeyLine` shows a stored text to be (`RoundTrip`); `CacheCommand`
stores, reads and deletes an entry in one step; `Command` asks in sequence what a
`Resolver` without delegation asks, with the sources of `Ldap` in place of opaque ones.

An operator `X_Something` before an operator `X` is a faulty variant of `X`: a bug a
change to this code could plausibly bring. No specification uses it; `PROJECT.json` lists
with each property the variant that breaks it.

### SourceCache

| variable | in the code |
|---|---|
| `now` | `time()` |
| `upstream`, `held` | what the source of a (uid, source) pair holds now; history of all it ever held |
| `cache` | `AuthKeysCache.backend[key]`: a list and its time stamp |
| `lock` | `AuthKeys._lock` |
| `pc`, `asked`, `fetched` | where a thread is in `_resolve_source_user`, with which `cache_key` and which `keys` |
| `answer` | what it returned last, and on which path (`via`) |

The actions follow the function: `Ask` is the call and the choice of `use_cache`;
`LookupLock`, `Hit`, `Miss` the first `_cached_keys`; `SourceReplies`, `SourceFails` the
`try` around the backend; `Fetched` (`Deliver` for an uncached source, else `StoreLock`),
`Store`, `StoreFails` the part after it; `AfterError` (`RescueLock` with
`expired_on_error`, else `GiveUp`), `Rescue`, `NoRescue`, `RescueFails` the handler of the
exception. `Serves` is `AuthKeysCache.get`, with its three TTLs: `negative_ttl` for the
negative marker, else the source's `expire` if the call passes one, else `[cache] expire`.
The rescue passes none, as in the code. `Purge` is another process; `Change` is the
administrator of the source; `Tick` is time.

A key list is a model value; the text it is stored as, and the parsing of that text, are
in `KeyLine` (a text that does not parse is the same outcome as a backend that raises:
`Miss`, `RescueFails`).

`Latency` bounds the time from the moment a source answers to the write. The code sets no
such bound: it is a parameter of the environment, and every bound on staleness counts it.
It shows how the guarantees depend on the fact that an entry is stamped when it is written
and not when the source was asked.

### Delegation

`users` is `AuthKeys.users`, `grant` and `draft` are what a thread has read and what
`load_user_config` has built of it, `todo` the groups it has still to look up. `Pop`,
`ReadGrant`/`ReadNothing`, `LoadLock`, `GroupAnswers`/`GroupFails`/`GroupBreaks`,
`Publish`, `Use` and `Finish` are the statements of `resolve` in their order. A group
whose lookup raises is left out (`GroupFails`); one whose members raise while they are
taken in, or are `None`, is outside of that `try` and costs the whole configuration
(`GroupBreaks`). A delegation file is a model value that stands for the users and groups
it names; whether it is missing, refused by the ownership checks, or broken is one
outcome, `NoGrant`. `own`, `window` and `mishaps` are history: the states the file had
during a request, those it had during the requests it overlaps, and what went wrong with a
request's configuration (it was not read, a group broke it, or another request popped it
from the map before it was used).

The lock of the code is reentrant. No path of `Delegation`, `SourceCache` or `Resolver`
takes it twice in one thread, so a plain lock is the same here.

### Resolver

| variable | in the code |
|---|---|
| `lock` | `AuthKeys._lock`, one for both parts |
| `dpc`, `file`, `users`, `req`, `grant`, `draft`, `todo`, `own`, `window`, `mishaps` | as in `Delegation` (its `pc` is `dpc`, its `answer` is `who`) |
| `cpc`, `now`, `upstream`, `held`, `cache`, `asked`, `fetched` | as in `SourceCache` (its `pc` is `cpc`, its `answer` is `got`) |
| `plan` | the combinations of source and user the two loops of `authorized_keys` have yet to reach |
| `keys` | the keys collected so far, as (options, type, key) |
| `failed` | history: the lookups that ended with an error |

`Begin`, `Delegate` and `Finish` are steps of `Delegation`; `Use` is its `Use` and fills
the plan from the configuration it finds in the map; `Ask` takes the next combination, in
the order of the sources (`Rank`), and starts a lookup under the name the user map gives
(`Uid`); `Lookup` is any step of `SourceCache`, and the keys of a lookup that returns join
`keys`. So what an error costs, and under which name a key was found, is decided here.

The two parts were written and are checked each with a lock of its own. For the
composition to be each of them, a part must not notice that the lock is taken on the
other's behalf. `DView` and `SView` map it so: the lock of `Delegation` is held by whom it
is held by while groups are looked up (`Loading`), the lock of `SourceCache` at all other
times.

### KeyLine

A line is a sequence over seven classes of characters: what the tokenizer and the parser
tell apart (blank, quote, backslash, `=`, `#`, the beginning of a key type) and one letter
for all others. `After` is the body of the loop in `_split_first_token`, `Scan` what it
knows at each position, and `Cut` where it ends; `IsOptionsPrefix`, `Fields` (`split(" ",
2)`) and `Parse` follow `AuthorizedKey.parse`, `Str` is how a key is printed, `Sanitize`
the default sanitizer. The machine parses each source's lines (`ParseLine`), stores the
text (`Store`), reads it back (`ReadLine`), and prints the keys of all sources, from the
cache or not (`PrintKey`). `OptionsWhole` compares the tokenizer with a definition that
does not scan (`Toggles`): a set of quotes that open or close, each told by the number of
backslashes before it.

### FileCache and PairStore

The state is one file name (`path`), the temporary file of each writer (`tmp`), and what a
reader has read before it stats (`read`). A file has a value, a modification time, how
much of its text is there (`"none"`, `"part"`, `"all"`), and whether that reached the
disk. Each action is a system call, or several that nothing can come between to any
effect. `Crash` kills a process at any step, `PowerLoss` stops them all and empties
unsynced files. `exclusive`, chosen at the start from `Modes` and then fixed, makes
operations wait for each other, as the lock does for the threads of one process.

`PairStore` is an atomic store of one `(value, timestamp)` pair; the refinement maps a
file to its value and modification time, and the last read to the pair it returned.

### CacheCommand

`entry` is the file of each (uid, source) pair: when it was stored, what it holds (keys,
the marker of a known-empty result, or bytes that are no text), and whether its owner and
mode let the cache use it; `foreign` are the directories it may not use. A command lists
source directory by source directory (`List`), looks at what it listed entry by entry
(`Look`, `Read`), and a purge deletes afterwards what it has chosen (`Check`, `Unlink`):
`exists()` and the read, and `exists()` and the `unlink`, are two steps each. `Listed` has
the condition of `_purge` with its options, `Selected` what they select. An entry that is
not trusted reads as none (`Ignored`), which `purge --expired` takes for one of the year
1970. A command fails over an entry that does not decode (`Undecodable`) or is gone
between two steps (`Vanished`), and for any other reason at any step (`Aborts`): a refused
call, the `ValueError` of a file name in the cache that is no uid, a signal.

Meanwhile `warm` and the logins resolve: both find an entry they may use, by the three
lifetimes of `AuthKeysCache.get` (`Usable`), or miss it (`WarmMiss`, `LoginMiss`), ask the
source without a lock, and store what it answers (`WarmFetched`, `LoginFetched`), perhaps
long after. Which pairs `warm` asks for is any part of what delegation and user map can
lead to (`Reach`). `before` and `touched` are history: the entries when a purge began, and
those that somebody else has stored or deleted since.

### Ldap and Command

`Ldap` runs any number of ldap sources: `Construct` is `LDAPSource.__init__` with the
options it refuses (`Accepts`), `use_machine_keytab` and `make_client` (`Chosen`); `Ask`,
`Connect`, `StartTLS`, `Bind`, `Search`, `Refuse` and `NoPassword` are a search of either
client, in the places where the two differ as each does it; `Convert` and `Converted` turn
the certificates of the one entry into keys. `channel` says how the connection is
protected, `heard` and `found` are what the server replied. Options, libraries and the
environment are free, within the sets a configuration gives; so are the replies.

`Command` extends it: `Load` to `User` set the command up, with the plugins loaded when
the first class is looked up (`NeedsPlugins`); `AskLdap`, `AskOther`, `Collect` are the
loop over the sources; `PrintLine` and `Printed` the output. Every exception on the way
goes to `Stop`, a user map that raises between two sources included (`MapFails`).
`SystemExit` keeps the status it was raised with: `Own` is the one a plugin or a user map
may give to `sys.exit` while it runs (`ForeignExit`). `check` takes the same way with more
logging. A document is a table per source; a source of another kind is an outcome at each
place: built or not, lines or an error.

### Server

`main`, `loop` and `conn` are the program counters of the main thread, of each accept
loop, and of each connection (with its handler thread); `sock`, `stop`, `taken` and
`slots` are the sockets, the shutdown requests, the connection a loop has in hand, and the
`BoundedSemaphore`s. The handler's steps are those of `finish_request`, `do_GET` and
`process_request_thread`, the end of a connection by a timeout, an error or a disconnect
being `Break`. For each user a request names (`left` counts them) the handler takes the
lock all handlers share, keeps it while it looks up groups (`Lock`, `Loaded`), asks
without it (`Fetch`), and needs it once more to store (`Resolve`): `Free` is that nobody
has it. A handler that was started runs before the loop is back from starting it (`Spawn`,
`Return`), and a Ctrl-C may come between the two (`Interrupt`). The parts of
`socketserver` and of the kernel that this needs (`Accept`, `Close`, `LoopStops`,
`Connect`) are modelled as `server.py` relies on them.

## 3. The runs

| run | expected | shows | bounds |
|---|---|---|---|
| `SourceCache` | passes | `EntryGenuine`, `FreshBound`, `StaleBound`, `OutageTolerated`, `FetchedIsAnswered`, and `KeepsPromise`: the lookup implements `BoundedStaleness` | 2 threads, 1 pair with an `expire` of its own (2) beside `[cache] expire` 1, `negative_expire` 0, `max_stale` 1, latency 1, clock 0..4, faulty and shared backend |
| `SourceCacheStalePast` | violation | `StaleBoundPerSource` (section 6) | `expire` 1 under `[cache] expire` 3 |
| `Delegation` | passes | `GrantFromOverlap`, `GrantHonoured`, `WholeGrant` | 3 threads for alice, her file with two groups of which some members are in both, or none, reads and lookups fail |
| `DelegationStale` | violation | `NoGrantSurvives` | 2 threads for alice, whose file changes |
| `Resolver` | passes | `Entitled`, `NothingLost`, `Ends`, and `Delegates`, `LooksUp`: the whole implements each of its parts | one thread for alice, whose file changes, and one for bob; 2 sources, one of them cached and one with a single name for both users, whose list changes; bob's pair of the first source and his group may hang; the clock stands |
| `KeyLine` | passes | `OptionsWhole`, `Verbatim`, `RoundTrip`, `EachOnce` | one source with one line: every beginning of up to 4 characters, with each of 6 ends; one with 3 kinds of list |
| `KeyLineDedup` | violation | `DifferentKeysPrinted` | keys after two spaces |
| `Command` | passes | `Protected`, `HeardOut`, `AllOrNothing`, `StatusTrue`, `SetUpFirst`, `PluginsIndependent`, `Ends` | two ldap sources around one other; 9 settings, every set of libraries, 4 certificates in 2 entries, 6 documents, 3 plugins |
| `CacheCommand` | passes | `PurgeComplete`, `PurgeOnlyNamed`, `UsableSurvives`, `FailsWhole` | 2 commands beside a login; 2 entries, one not trusted at first, the other damaged or with a longer `expire`; `[cache] expire` 0, `negative_expire` 1; a root that is trusted or not; 3 command lines of purge, clock 0..1 |
| `CacheCommandLimits` | violation | `PurgeLimited` | `purge --expired --user alice` |
| `FileCache` | passes | `TypeOK`, `NeverTruncated`, `ReadsCurrent`, `IsPairStore` | 2 processes, with and without a common lock, 2 values, TTL 0, clock 0..1 |
| `Server` | passes | `SlotsAccounted`, `FailClosed`, `NothingLeftOpen`, `TakenUp`, `Served`, `Stops` | 2 listeners with 1 slot each, TLS, 2 connections with up to 2 users each, one of which trickles and asks a source, or for a group, that hangs |

Why these bounds are enough for what they show:

* *SourceCache.* The races are between two threads on one pair: a late write over a newer
  one, a fetch that outlives an entry or a purge, an outage meanwhile. The clock reaches
  every comparison on both sides of its limit: an entry written at 1 is served up to 3, by
  the lookup and by the rescue alike, and refused by both at 4. A source that inherits
  `[cache] expire` is the case in which the two TTLs coincide. Uncached sources and
  `expired_on_error = false` are in `Resolver`. For other numbers the theorems speak.
* *Delegation.* An overlap in which one thread is between two others needs three; two
  groups in one grant are needed for one to fail, or to break, while the other answers. A
  file that has the grant and one that has none are the kinds that differ.
* *Resolver.* Two threads are what the lock has to order, and each user's grant names the
  other, so that both ask the same pairs. The group and the source that hang belong to one
  of the two: the other must get through. The parts have runs with larger bounds of their
  own; what the composition adds, the loops, the user map and the common lock, does not
  depend on the clock.
* *KeyLine.* The tokenizer has two bits of state, so that four characters lead into and
  out of each; the ends add a key, one after two spaces, one whose type has a quote, and a
  quoted value that goes on. The second list has a line of each kind that is treated
  apart: malformed, a comment, a duplicate, one with options that contain a space.
* *Command.* The settings are the accepted and refused ones of each mechanism; the first
  source decides about the keytab the second one finds; the other source is built in, a
  plugin's, one of a plugin that does not load, or none. A certificate is wanted,
  unwanted, unreadable, or without an OpenSSH form. Foreign code may leave wherever it
  runs.
* *CacheCommand.* A purge trips over a login or over a second command; two entries are
  needed for one to be left out. A login that has missed stores at any later point, and
  one is enough to do so again and again. With a TTL of 0 two values of the clock tell a
  fresh entry from an expired one, and a lifetime of 1 the entries that only `[cache]
  expire` calls expired, keys of one source and known-empty results.
* *FileCache.* A torn read needs a reader and a writer. Two clock values tell an old stamp
  from a new one.
* *Server.* Two listeners are needed for the loops on other threads, for a bind that fails
  after another, and for the order of shutdown; one slot each is the smallest full server.
  With two connections a listener can be full and turn one away, and one can wait for the
  lock the other has; with two users a request comes back for the lock after its first.

Symmetry: threads or processes are interchangeable where no constant tells them apart
(`SourceCache`, `Delegation`, `FileCache`, `CacheCommand`); it is used in no run that
checks a property under fairness. `CHECK_DEADLOCK FALSE` is set for `Server`, `Command`
and `KeyLine`, whose programs really end; everywhere else a deadlock is an error.

How the properties answer the hazards, beyond what their comments say:

* `EntryGenuine` is what fails if an error is ever stored as an empty list, and it counts
  the delayed write: a second thread's older answer may overwrite a newer one, but it
  cannot make an entry older than `Latency`.
* `OutageTolerated` is the other side of `StaleBound`: the one says that an outage does
  not keep revoked keys alive too long, the other that it does not lock out those whom the
  rules entitle to an answer. A rescue that could not read the cache at all (`via =
  "unread"`) is outside of it.
* `GrantFromOverlap` bounds what two requests for one user can do to each other, given
  that the stronger `NoGrantSurvives` does not hold between them.
* `GrantHonoured` is the other direction: a request for a file that kept its grant loses
  it only over a failure of its own or over another request's pop. `WholeGrant` says the
  same of the groups of a grant: each that answered counts, whichever of the others
  failed.
* `Entitled` and `NothingLost` are the two directions of one statement about the answer of
  a login: no key that no named user has, and every key that a named user has. `Entitled`
  speaks of threads that serve different users; what two requests for one user do to each
  other is what `Delegation` is about, and section 6.
* `EachOnce` compares key material, the first word behind the key type, and not the fields
  the code compares; it excepts the keys for which the two differ, those with two spaces
  behind the type, which are the subject of `KeyLineDedup`.
* `ReadsCurrent` says what is left of `PairIntact` under concurrency: value and stamp are
  each from the time of the read, if not from the same file.
* `PurgeComplete` and `PurgeOnlyNamed` bound a purge from both sides, with `touched` as
  the excuse: for an entry that others use meanwhile, neither is promised.
  `UsableSurvives` says what of it a login may rely on: what it could still use is left,
  if no lifetime but `[cache] expire` makes it usable. `FailsWhole` covers a purge
  `--expired` that fails before its first deletion: it reads everything first, so nothing
  is half done.
* `HeardOut` is how far an empty answer of LDAP can be trusted, and names the one reply
  that passes for one without being one. With `EntryGenuine` it says what an empty entry
  means.
* `SetUpFirst` and `StatusTrue` say what sshd may conclude from status 0: the documents
  promise it (`README.md:57-59` of the repository), and any step of the set-up may break
  it.
* `SlotsAccounted` quantifies over every way a connection ends, including Ctrl-C in the
  accept loop with a slot in hand. It excepts the loop such a Ctrl-C has ended, whose slot
  may be given back twice or not at all, and which needs none any more.
* `Served` promises a request its end beside clients and sources that hang, not beside a
  group lookup that does: that one has the lock every request needs (`Stalled`).

## 4. Fairness

* *Locks* (`Resolver`). `SF` on the steps that take the lock, for the map (`D!Pop`,
  `D!LoadLock`) and for the cache (`S!LockSteps`): Python's locks do not promise a waiting
  thread its turn, but the operating system's scheduler gives it in the long run; without
  that assumption even two threads that both proceed could starve a third.
* *Own steps.* `WF` on what a running thread does next.
* *Sources and groups.* `WF` on "answers or raises", except for those in `Hung` and
  `HungGroups`: the clients of the code have timeouts by default, but a plugin need not,
  so `Ends` is stated with some that never come back.
* *Command.* `WF` on the program's own next step (`Proceed`): it is sequential, and every
  wait for a server ends, by the timeouts of the LDAP clients and the deadline of the HTTP
  client. No user map has to raise, and no foreign code to call `sys.exit`.
* *Server.* Start-up and shutdown go on; each accept loop goes on (one `WF` for all it can
  do next, so no connection is promised to be accepted before others: the number of
  connections is finite, which takes the place of the kernel's queue order); a handler
  goes on (`Forward`) unless its client trickles, or its source or a group lookup of its
  hangs (`Stuck`). A silent client is not stuck: the socket timeout ends it (`Break`).
  `WF` is enough for the lock here, where `Resolver` needs `SF`: a handler takes it a
  bounded number of times, so that in the end nobody takes it before one that waits.
* Nobody must ask, connect, edit, or press Ctrl-C, no time must pass, nothing must fail.

## 5. The proofs

The proof modules are for arbitrary constants that satisfy the named assumptions of their
machines (`ConfigAssumption`, `NoneAssumption`, `DelegationAssumption`,
`ResolverAssumption`, `KeyLineAssumption`, `FileCacheAssumption`, `LdapAssumption`,
`ServerAssumption`, and the `CommandAssumption` of `CacheCommand` and of `Command`):
types, that an empty list has no keys, that a table of the backend `ldap` belongs to an
ldap source, that there is a source whose lines can be printed, and that `None`, `Failed`,
`Refused`, `Inherit` and `Unbounded` are not ordinary values. TLC evaluates the
assumptions on every run.

### SourceCacheProofs

The invariant the runs check is not inductive. `EntryGenuine` says that an entry was held
by its source shortly before its stamp; whether a `Store` preserves that depends on what a
thread carries and for how long. Hence

    IInv == TypeOK /\ PcAgrees /\ HistoryAgrees /\ NoFuture /\ FetchGenuine /\ EntryGenuine

* `FetchGenuine`: what is on its way to the cache was held by the source of the pair asked
  for, at most `Latency` ago. This is where the guard of `Tick` is used.
* `PcAgrees`: where a thread is tells what it carries (`fetched` is set exactly between
  the reply and the store), so that other steps cannot disturb `FetchGenuine`.
* `HistoryAgrees`: the history knows the present and nothing later.
* `NoFuture`: no entry and no answer has a stamp later than the clock.

`InitInv` and `StepInv` (one lemma per kind of action) give `Invariance`; from it follow

| theorem | says |
|---|---|
| `TypeCorrect` | `Spec => []TypeOK` |
| `GenuineEntries` | `Spec => []EntryGenuine` |
| `FreshBounded` | `Spec => []FreshBound` |
| `StaleBounded` | `Spec => []StaleBound` |
| `StaleBoundedPerSource` | `Spec => []StaleBoundPerSource`, if no source's own `expire` is shorter than `[cache] expire` |
| `OutageBridged` | `Spec => []OutageTolerated` |
| `FetchedKept` | `Spec => FetchedIsAnswered` |
| `Refinement` | `Spec => KeepsPromise`: every step of the lookup is a step of `BoundedStaleness` or none |

For `FreshBounded` and `StaleBounded` the lemmas `HitBound` and `RescueBound` add the two
ages up, from the source to the stamp (`EntryGenuine`) and from the stamp to the answer
(`Serves`); an answer that stands is not disturbed, since history only grows
(`HistoryGrows`). `OutageBridged` needs that entries written after a refusal have a stamp
that is not earlier than it (`NoFuture`, `CacheMoves`). `StaleBoundedPerSource` tells how
far the counterexample of `SourceCacheStalePast` reaches: what the guide says of
`max_stale` is true of every installation but those with a source that expires sooner than
the cache. That `Cached` is arbitrary here covers a case the runs leave out: the fallback
reads the cache even for a source with `cached = false`.

### DelegationProofs

| theorem | says |
|---|---|
| `TypeCorrect` | `Spec => []TypeOK` |
| `OverlapBound` | `Spec => []GrantFromOverlap` |
| `LossExplained` | `Spec => []GrantHonoured` |
| `ExclusiveDecides` | if no two threads serve one user, no grant survives its file (`NoGrantSurvives`) and none is lost to a pop by another request |
| `GrantsWhole` | `Spec => []WholeGrant` |

`GrantFromOverlap` speaks of answers, and an answer comes from the map, where another
request may have put it. Its inductive invariant `IInv` therefore also says that what any
request has read (`ReadShared`), and what the map holds for a user whose request is past
its pop (`MapShared`), is in the `window` of every request for that user; `PcAgrees` and
`HistoryAgrees` tie what a thread carries to where it is and to its own history, and
`MapHoldsGrants` says that a missing grant is never published. `MapKept` adds for
`LossExplained` that a request which is about to use its configuration finds it in the
map, or had one of the `mishaps`, or a file without a grant. `ExclusiveDecides` adds
`MapOwn`: the map's entry of a user comes from the one thread that serves the user. Its
premise is what the code would have to ensure, for example by handing the configuration to
`authorized_keys` instead of reading it back from the shared map.

`GrantsWhole` has an invariant of its own, `WInv`: a draft holds the users of its file and
the members of the groups that are neither still to do nor failed (`DraftWhole`). So what
is published, when no group is left to do, is whole (`MapWhole`), and so is what is
answered.

### FileCacheProofs

| theorem | says |
|---|---|
| `TypeCorrect` | `Spec => []TypeOK` |
| `WholeEntries` | `Spec => []NeverTruncated` |
| `CurrentEntries` | `Spec => []ReadsCurrent` |
| `PairsKept` | `Spec => []PairIntact` |
| `PairRefinement` | `Spec => IsPairStore` |

The first three hold for every interleaving, kill and loss of power. What a reader gets
was under the entry's name once, so `IInv` follows a file on its way there: a temporary
file is written before it is synced and synced before it is renamed (`PcAgrees`), hence
what has the name is written and on the disk (`PathWhole`), and a loss of power does not
empty it. `ReaderAgrees` says that whoever reads knows all files that had the name
meanwhile.

The last two say something where `exclusive` holds, and nothing elsewhere; the note on
`cache.py:215` in section 6 shows why. It holds for the threads of one process, which use
the cache under the lock, and for processes that happen not to meet. Their invariant
`XInv` adds, for that case, that at most one process is under way (`Alone`), that what it
has read is still so, and that stamps are of the past; so a read is of one file. In the
refinement a rename is the abstract write and a `stat` the abstract read; the other steps
are stutters, kills and power losses among them.

### ServerProofs

| theorem | says |
|---|---|
| `TypeCorrect` | `Spec => []TypeOK` |
| `SlotsBalance` | `Spec => []SlotsAccounted` |
| `KeyRequired` | `Spec => []FailClosed` |
| `ClosedClean` | `Spec => []NothingLeftOpen` |
| `BusyIsFull` | `Spec => BusyOnlyWhenFull`: 503 only while all slots of the listener are held; this one is proved and not in a run |

`SlotsAccounted` is not inductive: a loop that gives a slot back must hold one, and which
connection it holds it for is known from where loop and connection are. `JInv` says how
the program counters belong together: a loop has a connection in hand exactly between
accept and handler, and no two loops the same one (`LoopsAgree`); connections wait where a
socket is open, and nobody is answered before the handler is done (`ConnsAgree`); loops
run, sockets are open and handlers live in certain phases of the main thread only
(`MainAgrees`); and what the api key decides is still decided so when the reply is sent
(`KeyAgrees`). With `SInv`, the count itself and the finiteness of what is counted, this
is inductive. The range of `slots` in `TypeOK` rests on the count, so `StepInv` proves the
count first (`KeepSlots`, `MoveSlot`) and the other types after it (`StepType`). A Ctrl-C
may spoil the count of the loop it ends (`Interrupted`), for good (`StopsForGood`): nobody
takes a slot there again, and the bounded semaphore keeps the type. The lemma `BusySteps`
singles out the one step that answers 503, and the count says what that step has seen.

### ResolverProofs

| theorem | says |
|---|---|
| `TypeCorrect` | `Spec => []TypeOK` |
| `KeysKept` | `Spec => []NothingLost` |
| `DelegationHolds` | `Spec => Delegates`: every step is one of `Delegation` or none |
| `LookupsHold` | `Spec => LooksUp`: every step is one of `SourceCache` or none |
| `LetIn` | `Spec => []Entitled` |

`RInv` says where a thread is and what it carries, in both parts at once (`PcAgrees`), who
may have the lock (`LockAgrees`), that entries and fetched lists come from their source
(`Genuine`), and that each combination of source and user is still to be looked up, being
looked up, failed, or in the answer (`Collected`). The last is `NothingLost` before the
request is over.

For the two refinements `LookupApart` and `DelegationApart` show that a step of one part
that takes or gives back the lock is a stutter of the other's view of it; `LockAgrees`
says that the two never hold it at once. Through `Delegates` and `LooksUp` what is proved
about the parts holds of the whole.

`LetIn` needs the premise that no two threads serve one user, and an invariant about what
the map holds: a thread's configuration comes from a file of its own request
(`AllFaithful`), and its keys from lookups of users that configuration names (`Owned`).

### CacheCommandProofs

| theorem | says |
|---|---|
| `TypeCorrect` | `Spec => []TypeOK` |
| `PurgeCompletes` | `Spec => PurgeComplete` |
| `PurgeNamedOnly` | `Spec => PurgeOnlyNamed` |
| `PurgeWithinLimits` | `Spec => LimitsKept`: without `--expired` and `--all`, a purge deletes nothing of another user or source |
| `UsableKept` | `Spec => UsableSurvives`: an untouched entry that `purge --expired` deletes is of no use to a lookup, unless it lives longer than `[cache] expire` |
| `FailsWithNothingDone` | `Spec => FailsWhole` |

For each process `IInv` has two statements that mirror each other. `Complete`: an entry
the options name, that nobody touched, is yet to be listed, looked at or deleted, or gone;
when nothing is left to do this is `PurgeComplete`. `Sound`: what is chosen for deletion
is named by the options or was touched; at the `unlink` this is `PurgeOnlyNamed`. Both
need `Untouched`, that an entry nobody else touched is as it was when the command began,
unless this command deleted it, which it does in its last phase only: this is
`FailsWhole`. `PurgeWithinLimits` bounds the counterexample of `CacheCommandLimits`: what
a purge without `--expired` has chosen meets its limits (`Chosen`), whatever becomes of
the entries meanwhile. `Turns` and `Deletes` read off which step a step of the action
properties must be.

### CommandProofs

| theorem | says |
|---|---|
| `TypeCorrect` | `Spec => []TypeOK` |
| `ConnectionsProtected` | `Spec => []Protected` |
| `SearchesHeard` | `Spec => []HeardOut` |
| `AnswersWhole` | `Spec => []AllOrNothing` |
| `StatusMeans` | `Spec => []StatusTrue` |
| `SetUpComesFirst` | `Spec => []SetUpFirst` |
| `PluginsApart` | `Spec => []PluginsIndependent` |

Its first part is about `Ldap` alone: `LdapInv` is inductive for any number of sources
that act in any order, and implies the three properties of `Ldap` (`LdapSafe`). A source
that has a client was accepted with its options (`Constructed`); a connection is protected
as those options and the step it is at require (`Secured`); what is still to be converted
and what became a key make up the entry (`Halfway`). `Heard` and `Whole` are `HeardOut`
and `AllOrNothing` of one source.

The second part uses it for the steps that are searches and adds `CInv`: which values
belong to which step (`StepAgrees`), that all enabled sources before the current position
are built while building (`BuiltSoFar`), that all before it have answered and the keys are
theirs while asking (`CollectedSoFar`), and what the registry holds (`RegistryAgrees`). A
command that is cut short keeps all of it (`CutShortInv`); one that foreign code has left
has printed nothing, since only printing is left when the last of that code has run. The
document, the order of its tables and the plugins are arbitrary.

### KeyLineProofs

| theorem | says |
|---|---|
| `TypeCorrect` | `Spec => []TypeOK` |
| `OptionsStayWhole` | `Spec => []OptionsWhole` |
| `PrintedVerbatim` | `Spec => []Verbatim` |
| `CacheRoundTrip` | `Spec => []RoundTrip` |
| `EachPrintedOnce` | `Spec => []EachOnce` |

The lines may have any length here, in any number of lists. Most of the module is about
the operators; the machine comes last.

What `Scan` computes is a matter of induction over the length of a line. The library's
induction theorems take a formula as a parameter, which no installed prover can put in;
`SetInduction` takes the *set* of the numbers for which the formula holds instead, and
follows from the well-foundedness of `<`. By it a scan exists and is unique (`AScan`,
`ScanIs`), two lines that begin alike are scanned alike (`SameBeginning`), and the two
flags are parities: `quoted` of the quotes that open or close (`InsideIsOdd`), `escaped`
of the backslashes just before (`EscapedIsOdd`). The quotes the tokenizer turns at are
therefore the set that `OptionsWhole` asks for (`QuotesToggle`, `OptionsEnd`).

`FieldsCases` says where `split(" ", 2)` cuts; `Rejoined` puts what it has cut together
again, so that a key is written as the line it came from (`KeyText`). The other direction
is `Reparsed`: what is written parses as the key that was written. For a key with a
comment that is the same line once more. For one that was given `uid(src=name)` the
comment holds a `=`, and the scan goes on into it: if the line ended outside quotes, it is
cut where it was, and the comment is a third field (`LongCut`, `LongPlain`); if it ended
inside, all of it becomes one token that looks like options, and it does not parse
(`LongQuoted`). The latter takes a quote in the key type, which is the exception
`RoundTrip` makes.

`Invariant` says of the machine that the keys of a source are exactly its parsing lines
that were looked at (`KeysAreLines`, `LinesHaveKeys`), that an entry holds their text
(`EntryIsText`), that what was read of it so far are the keys so far, or nothing
(`KeysReadBack`), and that what was printed are keys, each once, and all so far. It was
checked with TLC on the instance of the run before it was proved.

`EachPrintedOnce` is about key material, so it also bounds the counterexample of
`KeyLineDedup`: with no two spaces behind the type no key is dropped for another one. A
parsed key field has no space (`KeyHasNoSpace`), so that where it is not empty it is the
first word of what follows the type (`MaterialIsKey`); hence two keys are the same to the
code only if they have the same material (`SameIdentity`), and the printed one of the same
fields is the same key (`PrintedKeyIs`).

### Only model-checked

Liveness (`Ends` of `Resolver` and of `Command`, `TakenUp`, `Served`, `Stops`) is beyond
the prover and is checked on the instances above. Every other property of a passing run is
a theorem. The properties of the runs that end in a violation are none; theorems say of
each under which condition it holds (`StaleBoundedPerSource`, `PurgeWithinLimits`,
`EachPrintedOnce`, and `ExclusiveDecides` for `NoGrantSurvives`).

## 6. Where the code and its documents disagree

Four runs end in a counterexample to a sentence of the repository:

* `DelegationStale`. `__init__.py:294-295`: "a grant from an earlier load must not survive
  the file being removed or broken". Request 1 reads the file and waits; the file is
  removed; request 2 begins and pops the map; request 1 publishes; request 2 finds no
  file, looks into the map, and uses the grant.
* `SourceCacheStalePast`. `docs/guide/configuration.md:69-70`: `max_stale` is counted from
  the entry's TTL. The fallback does not pass the source's `expire` (`__init__.py:402`),
  so it is counted from `[cache] expire`: longer for a source that expires sooner, and
  shorter for one that expires later.
* `CacheCommandLimits`. `cli/cache.py:22,26`: `--user` and `--source` "limit purge to
  this" user or source. With `--expired` neither is looked at (`cli/cache.py:73`).
* `KeyLineDedup`. `__init__.py:436-438`: the same public key is emitted once. Keys are
  compared by fields cut at single spaces (`__init__.py:124`), so two different keys that
  follow their type after two spaces have the same, empty, key field, and the second is
  dropped (`__init__.py:450`).

Met on the way, and written into the models as the code has them:

*Delegation and the server*

* `docs/guide/server.md:70-72`: the server honours delegation "exactly as `authkeys
  resolve` does". Two requests for one user lose a grant: request 1 publishes, request 2
  pops (`__init__.py:297`), request 1 reads the map back and finds nothing, and serves the
  user's own keys only. `GrantHonoured` names this as the one way to lose a grant that is
  no failure of the request itself.
* A group whose members raise as they are iterated (`__init__.py:341`) is outside the
  `try` that passes over a failing group (`__init__.py:338`), and costs the whole grant
  (`GroupBreaks`).
* The docstring of `resolve` (`__init__.py:287-290`) says that only the change of the map
  is done under the lock. `load_user_config` also asks the group resolver under it
  (`__init__.py:336`), so a group lookup that hangs stalls every request; `Ends` of
  `Resolver` and `Served` excuse exactly this (`Stalled`).
* A Ctrl-C between the start of a handler thread and the return of `process_request`
  (`server.py:162-166`) gives the slot back that the handler gives back again. If every
  slot is free by then, the release raises `ValueError`; the loop takes it for a failed
  request, and goes on serving.
* `docs/guide/server.md:65-66`: "at most `max_connections` … requests run at once". Each
  listen address has a semaphore of its own (`server.py:111`); `SlotsAccounted` counts per
  listener.
* A slot is given back after the client has seen its connection closed (`server.py:172`),
  so a client that asks one request after the other can get a 503 from a server with one
  slot; `BusyOnlyWhenFull` counts a handler until its slot is back.

*Cache*

* `docs/guide/configuration.md:39` says that `expire = 0` of a source means "do not cache
  it". A negative answer of such a source still lives for `negative_expire`
  (`cache.py:300`), and its keys are stored and served again by the fallback
  (`__init__.py:402`, `413`).
* `cache.py:222-224` says a reader never sees a truncated entry. `os.write` may write less
  than it is given (`cache.py:229`), and the short file is then renamed into place;
  `NeverTruncated` states the rest of that promise. Temporary files of writers that fail
  or die stay (`cache.py:227`, `litter`).
* `cache.py:4-5` says that backends keep `(value, timestamp)` pairs. A replace between
  `read_text` and `stat` (`cache.py:215`) gives the old text the new stamp, so an expired
  value looks fresh; `PairIntact` holds only where operations do not overlap.
* `cli/cache.py:30`: "purge: only remove expired entries". The decision and the deletion
  are two steps (`cli/cache.py:75`); what another process stored between them is deleted
  (`PurgeOnlyNamed`). Besides, expired is counted from `[cache] expire` for every entry,
  while a lookup counts a known-empty one from `negative_expire` and keys from the
  `expire` of their source (`cache.py:298-301`): where these are longer, `purge --expired`
  deletes what would still be served (`UsableSurvives` says: nothing else).
* An entry that does not decode ends `show` and `purge --expired` with
  `UnicodeDecodeError` each time; one that another process deletes meanwhile ends them
  with `FileNotFoundError`. Where the running user does not own the root, or others may
  write it, `purge` deletes nothing, and reports how many entries it has purged
  (`PurgeComplete` excepts this). `purge` without any option purges everything, and
  `--all` overrides `--user` and `--source` beside it.
* `docs/guide/cli.md:67-69` has `show` and `purge` exit with 3 on a memory cache. Its
  `keys()` returns a list and raises nothing, so they report an empty cache and exit with
  0.

*LDAP*

* `docs/guide/sources.md:113`: "A refused bind or search is an error". python-ldap's
  `NO_SUCH_OBJECT` is no keys also as the answer of StartTLS or of the bind, which are in
  the same `try` (`_ldapclients.py:316`); with either client the answer "noSuchObject" of
  the search, which a base that is gone gives too, is no keys. `HeardOut` states this.
* `docs/guide/sources.md:136`: `anonymous` is "no bind". python-ldap does not bind, ldap3
  binds anonymously; the model has both (`Binding`).
* `use_machine_keytab` sets a variable of the process (`_ldapclients.py:84`), so that the
  keytab of the first Kerberos source is the one of all, and one that is refused later has
  set it too.
* `cli/resolve.py:28-30` says that whatever fails is no empty answer to sshd. `SystemExit`
  is raised again with its own status (`cli/resolve.py:36-37`), which a plugin or a user
  map that calls `sys.exit(0)` makes 0, with nothing printed; `StatusTrue` speaks of the 0
  the command itself ends with.
* A constructor that raises `ImportError` where no library is there is not a configuration
  error but an internal one, with the same status 3.

*Key lines*

* Two spaces between the options and the key type make `parse` find an empty type: the
  line is skipped.
* Outside quotes a backslash is an ordinary character here; sshd takes `\"` there, too,
  for an escaped quote.

## 7. What the models leave out

* *Text.* Names, paths, the format of stored entries beyond its lines, wording, logging.
  Where the code branches on text the outcomes are kept; key lines have a module of their
  own.
* *Trust checks* of the file cache (`_trusted`, `_within_root`, `_check_component`) and of
  user files (`read_user_file`): a refused file is `NoGrant` or a source without lines; in
  `CacheCommand` the checks of the cache are an attribute of an entry and a set of
  directories, fixed while a command runs; elsewhere a refused cache directory is a cache
  that never has an entry. A file that is swapped between `lstat` and `open`
  (`utils.py:75`) is one of the files `ReadGrant` may find.
* *One entry at a time.* `FileCache` has one name, system call by system call;
  `CacheCommand` has several and a step for each operation.
* *Directories and disks.* A rename that the disk has not recorded when power fails may be
  undone; `PowerLoss` keeps it.
* *Clocks set back.* Time only advances.
* *KeyboardInterrupt* is modelled where `serve` expects it, in the loop of the main
  thread, but not before that loop has started and not during the shutdown itself.
* *The 503 on a TLS listener* is written in clear, since the handshake has not taken
  place; the model has the reply and not its encoding.
* *Bounded latency.* See `Latency` in section 2. In `Resolver` a group lookup that hangs
  holds the lock and can stretch the way from a source to the cache: what `LooksUp`
  inherits from `SourceCache` holds for the `Latency` that includes such waits.
* *A user map that raises* is modelled in `Command` (`MapFails`) and `Server` (`Break`),
  but not in `Resolver`, where a request ends by itself or hangs: all that is lost with it
  is its own answer, after whole lookups, since no lock is held at the call
  (`__init__.py:448`).
* *Lookups in `CacheCommand`.* Each asks for one pair and stores what the source answers,
  or nothing; the fallback to an expired entry changes no entry and is left out.
* *LDAP.* TLS options, an `ssl_context` given by a caller, Windows. *HTTP.* Redirects,
  retries and the deadline are those of the library: a lookup ends with lines or an error.
* *Configuration.* The types and ranges of single options, unknown keys (a warning), and
  the substitution of environment variables: a file is valid or broken, a source is built
  or not.
* *`Command`* assumes an empty memory cache and one user without a delegation; the other
  cases are those of `SourceCache` and `Resolver`. The registry of caches is one outcome
  of `BuildCache`.
* *`CacheBackend.sweep`*: nothing in the program calls it.
* *Arguments and completion*, the `url` property, warnings about addresses.

## 8. Plan

Done, in this order: `SourceCache` with `BoundedStaleness` (the behaviour logins depend on
most), `Delegation`, `FileCache` with `PairStore`, `Server`; then `Resolver` over the
first two, `CacheCommand`, `KeyLine`, `Ldap` and `Command`, each with its theorems.

What could follow:

1. `UserFile`: the checks of `read_user_file` call by call (`lstat`, `open`, `fstat`, the
   walk over the parent directories), with a user who swaps files in between; the trust
   checks of the cache directory in the same way.
2. Several entries of the file cache system call by system call, so that `CacheCommand`
   becomes a theorem about `FileCache` and not a module beside it.
3. `Settings`: the types and defaults of the options, and what an unknown one does.
4. `Command` over a `Resolver` in place of its own loop, with a cache that outlives the
   command.
