# A verification of wollee in TLA+

wollee keeps a table of hosts on a local network, learns from the heartbeats of
agents which of them are up, and wakes the others with a magic packet, from a
web UI or a Telegram bot. Its server is one process with a goroutine per
request, a few background goroutines, and one YAML file that is both its
configuration and its database.

The modules in this directory model the parts of server and agent in which order,
overlap and failure matter; TLC checks them on small instances, and TLAPS proves
the main results for every value of the constants.

## 1. The system

| component | state | operations | interacts with | hard about it | correct when |
|---|---|---|---|---|---|
| host registry (`internal/server/registry.go`) and its handlers (`handlers.go`) | map of hosts, `RWMutex` | heartbeat, add, delete, disable, enable, wake from web and bot, list | agents, UI and bot call it; every write saves the configuration file under the lock | a handler looks up in one critical section and writes in another; a save may fail after the map changed | a heartbeat keeps the administrator's flag, a deleted host stays deleted, `LastSeen` does not go back, a disabled host is not woken from the UI |
| configuration file, manager (`internal/config/manager.go`), registry save | `config.yaml`, `config.yaml.tmp`, `Manager.config` | `Update`, `Reload`, `saveLocked`, the password and settings handlers, the periodic reload, start | two savers share the file and the temporary name but no lock | read-modify-write races, crashes, failing calls, a reload that loses a race | one whole document on disk at all times, what was answered is kept, no section lost, memory catches up |
| rate limiter (`ratelimit.go`) | bucket per client, lock | `Allow`, sweep | in front of `/register` and `/wake` | window boundaries, lazy reset against sweep | quota neither exceeded nor withheld |
| configuration loading (`internal/config/config.go`, `cmd/server/main.go`) | none of its own | load, defaults, validation, JWT secret, environment, first file, seeding | called at start and at every reload | what one load changes for the next; the host list is read twice at a start, under different keys | a start changes nothing of what was saved |
| server lifecycle (`server.go`) and bot (`internal/telegram`) | `a.telegram`, its context, HTTP server, ticker | start, reload, settings change, shutdown | reload goroutine, settings handler and shutdown share `a.telegram` without a lock | restart races, a poller nobody can stop, double shutdown | at most one bot polls, with the current token; none after shutdown |
| service program (`internal/service/program.go`) | cancel function, done channel | `Start`, `Stop` | service manager; runs server or agent | stop during start, 10 s limit, two shutdown paths | `Stop` ends the runner and returns, and nothing polls afterwards |
| agent (`internal/agent`) | interval, back-off | beat, failover, back-off | posts to `/register`; interval comes back | upstreams that fail, late answers, interval changes | a reachable upstream hears from it within bounds |
| authentication and routing (`internal/auth`, `server/auth.go`, `router.go`) | password hash, secret, cookies | set up, log in, log out, change, check | uses the manager; secret may change at reload | sessions against reload and restart; the environment goes before the file | a session outlives reloads and restarts, the password answered for is the one that counts, a server that is set up is not set up again while no call is overtaken, and does not stay open to it |
| packets and addresses (`internal/wol`) | none | normalise, broadcast of a network, packet | wake handlers | prefix edges, spelling of addresses | a packet reaches every host of the network that is set |
| favicon, logo (`favicon.go`, `resolveLogo`) | none | crop, scale | at start | rounding at edges | every pixel read is inside the image |
| logger, templates, assets, flags | none worth modelling | output and layout | | | |

## 2. What is modelled now

| module | models | kind |
|---|---|---|
| `HostTable` | the table as its users think of it: each request one indivisible operation | abstract specification |
| `HostRegistry` | registry and handlers, lookup, decision, write and save as separate steps | detailed |
| `MCHostRegistry`, `HostRegistryProofs` | TLC instances; theorems | |
| `DurableConfig` | `config.yaml` as one durable record with two sections | abstract specification |
| `ConfigStore` | both files, system call by system call, with everything that reads or replaces them | detailed |
| `MCConfigStore`, `ConfigStoreProofs` | TLC instances; theorems | |
| `FixedWindow` | the quota: windows that open with a request and close by themselves | abstract specification |
| `RateLimiter` | buckets, lazy reset, sweep | detailed |
| `MCRateLimiter`, `RateLimiterProofs` | TLC instances; theorems | |
| `BotSlot` | the bot as its users think of it: one slot, turned on and off as the settings want it and left alone while they stay | abstract specification |
| `BotLifecycle` | start, run and stop of the server process, and the restarts of the Telegram bot inside it, access by access to the shared fields | detailed |
| `MCBotLifecycle`, `BotLifecycleProofs` | TLC instances; theorems | |
| `Sessions` | password, secret and sessions over login, setup, change, save, reload and restart, with the environment's overrides | detailed |
| `MCSessions`, `SessionsProofs` | TLC instance; theorems | |
| `WakeNetwork` | a network's broadcast address, with a reference definition | pure operators |
| `Startup` | the host list from one life of the server to the next, with packets sent to `WakeNetwork`'s address | detailed |
| `MCStartup`, `StartupProofs` | TLC instance; theorems | |
| `AgentHeartbeat` | the agent's loop over its upstreams | detailed |
| `MCAgentHeartbeat`, `AgentHeartbeatProofs` | TLC instances; theorems | |

`PROJECT.json` maps each definition to the lines it stands for.

### HostRegistry

The state is the map (`hosts`), the lock's writer (`mu`), the clock, the last
magic packet, and for each request slot what the request will do next with the
record it carries (`task`). `Begin...` actions are the first critical section of
each handler; requests that end there (malformed, unknown host, flag already as
wanted, disabled host in the UI) change nothing and are not steps. `handleRegister`
reads the clock after the lookup, so that is a step of its own (`Stamp`). `Write`
takes the lock and changes the map, `Save` ends the critical section whether the
save worked or not, because the code does the same to memory in both cases.
A reader's critical section changes nothing and is one step, possible when no
writer is inside. `Send` ends a wake; the packet may fail to go out.

Addresses are normalised values, since every handler normalises first. The IP
address is left out: it travels with the name and nothing depends on it. Names
matter because a wake may go by name, the bot tries a name first, and a host
without one is listed under its address. The bot's two lookups are taken as one step. Time is a counter; `0` is
`time.Unix(0, 0)`, what the add form stores. `raced` is a history field nobody
reads: it marks a request whose host was written by another since its lookup.

### ConfigStore

A process is whoever works on the file: any of `Requests` (set up a password,
change it, change settings), `Registry` (the request inside the table's lock,
of which there is one at a time), `Reloader` (the ticker's goroutine, or a
request to `/config/reload`). Reading the file,
opening the temporary file, writing it, renaming it, storing the configuration
in memory, loading and storing it again for verification are steps in that
order. Every one that calls the operating system may fail (`FailIO`); a failed
write leaves the file damaged; the process may be killed between any two
(`Crash`) and started again (`Restart`), which a damaged file prevents.

Descriptors are modelled because the temporary name is shared: a writer whose
file was renamed by somebody else goes on writing into `config.yaml`, and one
whose file was replaced writes into nothing. A file is a document (two sections,
each possibly missing) or `Garbled`. Writing over bytes another writer has put
there gives the writer's document or `Garbled`, depending on the lengths.

The hosts section is a value of `Tables` (what the table holds is HostRegistry's
subject), the server section a password and a token. The other settings change
through the same form in the same way. A crash is a crash of the process: the
code never calls `fsync`, and what a power failure does is not modelled. Hand edits,
environment overrides and the JWT secret are in Sessions and Startup, the seeding of
hosts at a start in Startup; the text of the file a first start writes is left out.

### RateLimiter

`Allow` and the sweep hold the lock and read the clock inside it, so each is one
step; the four outcomes of `Allow` are actions. The sweep may run at any time.
`log` is a history variable: each admitted request with its time, the begin of
its window and its number in it.

### BotLifecycle

The process is `Runner` (the goroutine of `Program.Start`, which is in `App.Run`),
`Stopper` (`Program.Stop`), `OnContext` (`shutdownOnContext`), the ticker and the
requests. Run makes the HTTP server (`MakeServer`), starts the bot, launches the
ticker's goroutine and that of `shutdownOnContext`, and listens (`Launch`,
`Listen`). `Stop` may come before, between or after these: it cancels the program's
context and shuts down what it finds (`ShutdownBot`, `CloseServer`; there may be no
server yet), waits for Run (`AwaitRun`) or for 10 s (`StopTimesOut`), and returns
(`End`). A `shutdownOnContext` launched after the stop does its part at once, and that closes
a server made too late for the first look. The 10 s are taken to pass only
while a call to Telegram keeps Run or a request waiting, as no other step
of theirs waits for anyone. Run may also fail, because the bot cannot
connect or the port is taken: then it returns, and the process stays.

The shared fields are `telegram` (which of the `services` made so far is in
place) and `telegramCtx`. `reloadConfig` (run by the ticker's goroutine or a
request) and the settings form share the steps `Load`, `Compare`, `Cancel`,
`ShutdownBot`, `Replace`, `NewContext`, `Start`, `Connect`, because the two
pieces of code have the same order; they differ in what comes before (`SaveSettings`)
and when there is no token (`AfterShutdown`: the form then stops the bot and
replaces nothing). `Start` reads both fields and `Connect` uses what it
read: the call to Telegram in between takes as long as the network does. `Update`
and `Reload` are one step here, ConfigStore has their insides. Two contexts matter:
the one `Run` made is a child of the program's, every later one is not, so the
stop cancels only the first.

The library is modelled from what the code needs of it: a connected bot polls
until `StopReceivingUpdates` closes a channel, which a second call must not do.
A panic is recovered by `net/http` in a request and ends the process elsewhere
(`Panic`: *crashed* before a stop, *aborted* during one). `Program.Stop` and
`shutdownOnContext` both shut the server down, so the second of them finds the
channel closed whenever a bot was running; what the model leaves open is
only whether the process has ended before.

`BotSlot` says what this is all for. Its `wanted` is the configuration in memory, `polling`
the bots that poll now, `behind` that the last attempt was missed. A bot is turned on only
where none is, and turned off only if the settings are no longer those it has, one was missed, or
the server stops: so there is never a second bot, and settings that are saved or
reloaded unchanged do not restart it. `wanted` may change while the bot stays what it is,
because `Update` and `Reload` come before the restart. After a stop Run may still turn on its first bot.

Settings are a token and an `access` value for users and `whoami`, which are
compared together. `missed` is a history variable nobody reads: why the bot may
rightly lag behind the configuration. Left out: what the bot answers, and
messages that are on their way when it is restarted. Whoever edits the file does
so while nothing runs, in the run without overlap.

### AgentHeartbeat

The loop's variables are `interval`, `backoff` and the timer (`wait`); `target`
is the upstream being asked. `up` is the set of upstreams that would answer
properly, which changes at any moment: a failing name or address lookup, a
refused connection, a timeout and a status that is not 2xx are all *not up*,
because the code treats them alike. An answer lost after the server registered
the host is *not up* too; that the next server is then told as well does no harm
to either. Durations wrap at `Half`, as int64 does; the instance
has 5 bits. `Unusable` is an answer without a positive interval: it counts as success
and changes nothing.

### Sessions

`file`, `env` and `mem` each hold a secret and the password whose hash it is (or
`None`); `cookie` is each browser's session, named by the secret that signed it,
because that is all its check depends on; its expiry and a logout are one step
(`DropCookie`). `Loaded` is `Load`: a variable that is set goes before the file, and
without a secret in either a new one is made. A request that needs a session is
checked when it enters (`Enter`), reads the configuration later (`BeginChange`, ...), saves
(`Save`), publishes (`Publish`) and reloads (`Load`, `SetConfig`) later still. A login
signs with the configuration it read before it verified the password (`SignLogin`); a setup
with the one it reads when everything else is done (`Answer`). `Restart` ends the
process at any step and starts it with a possibly different environment; the
browsers keep their cookies. Wrong passwords, refused and malformed requests change nothing and are
not steps; Argon2 and the token library are taken to do what they promise.

Three history variables nobody reads: `pinned` (a secret was on file or in the
environment at the start), `calm` (no call has been overtaken since) and
`promised` (the password last answered 200, while the promise stands).

Calls overlap freely, and mostly it does no harm. A call is *overtaken* when the file or the
memory changes between its reading of the one and its saving, publishing, storing or signing of what it
read, or when another password is saved before it has answered for its own; or when it copies a memory
that is about to be replaced by what another call has just saved. `Copying`,
`Writing` and `Storing` end `calm` in just these cases, so a tick beside a request that changes neither's copy
is covered by everything that is stated under `calm`.

### WakeNetwork and Startup

An address is a sequence of bits, so that every width can be proved about; `Mask`,
`NetworkIP` and `CIDRToBroadcast` are the code's, `Members` and `IsBroadcastOf` the
reference. `Startup` is one life of the server after the other: a hand-written list (`EditFile`, only
while the server is down), `Open` (validation, which may refuse the file,
and `OpenRegistry`), one `Seed` per host of the configuration, each with its save,
`Run`, the handlers as single steps, and `Down` at any moment, between two seeds
and after a failed save included. A MAC has three spellings: `OpenRegistry` keeps the one
of the file in lower case as the key, validation normalises dashes too, and
`seedRegistry` looks the normal one up, so a host written with dashes gets a twin.

## 3. Properties and runs

| run | instance | checks |
|---|---|---|
| `registry_serial` | 2 hosts, 2 requests at a time, never about the same host | inductive invariant, `DisabledSurvivesHeartbeat`, `DeletedStaysDeleted`, `LastSeenNeverGoesBack`, `ImplementsTable` |
| `registry_overlap` | 1 host, 2 requests in any overlap, fairness | `OnlyTheOvertakenDepart`, `RequestsFinish` |
| `registry_flag_lost` | 1 host, 2 requests in any overlap | `DisabledSurvivesHeartbeat` is violated |
| `config_calm` | one request, table saves, periodic reload; savers do not overlap | `FileWhole`, `AnsweredMeansPersisted`, `RegistryPreservesSettings`, `ImplementsDurable`, inductive invariant |
| `config_overlap` | the same in any overlap, fairness | `Converges` |
| `config_file_torn` | any overlap | `FileWhole` is violated |
| `limiter` | 2 clients, 3 requests per window of 2, clock to 4 | inductive invariant, `BurstBound`, `RefusedOnlyWhenSpent`, `ImplementsFixedWindow` |
| `bot_calm` | one request, the ticker, 3 edits or forms, 2 tokens, which take turns; the stop between any two of these and at any moment of Run; fairness | inductive invariant, `ImplementsSlot`, `StopReachesRun`, `FollowsWhenQuiet`, `ServerSurvives`, `NothingLeftPolling`, `NoLoopSpins`, `CatchesUp`, `StopInTime` |
| `bot_crash` | the same in any overlap, 1 token | `ServerSurvives` is violated |
| `agent` | 2 upstreams that come and go, intervals 1, 3 and 8, cap 5, 5-bit durations; fairness | inductive invariant, `PausesGrow`, `Recovers`, `FollowsServer`, `StopsWhenCancelled` |
| `sessions` | 2 browsers, one request at a time in any overlap with the ticker; a secret and a password on file, in the environment or nowhere; fairness | inductive invariant, `PromiseKept`, `SessionsSurvive`, `NewSessionsWork`, `SetupReplacesNothing`, `SetupCloses` |
| `startup` | 2 MACs, up to 3 hand-written entries in 3 spellings, every IPv4 network of 3 bits | inductive invariant, `WakeReachesAll`, `StartupChangesNothing` |

`MayOverlap` is a constant of HostRegistry, ConfigStore and BotLifecycle. `FALSE` describes the workload
for which the code is right: in HostRegistry no two requests about one host, in
ConfigStore no settings request beside another saver or a reload (a periodic
reload beside a table save is allowed), in BotLifecycle one restart at a time. Under
it all three refine their abstract specifications. `TRUE` is everything the code
allows: there the weaker properties still hold and the stronger ones fail. How far the
registry falls short is exact: `OnlyTheOvertakenDepart` holds in any overlap, so whatever is not one
of `HostTable`'s operations is done by a request whose entry another wrote since its lookup.

What the violations show:

- **`registry_flag_lost`**: a heartbeat looks a host up, an administrator
  disables it, the heartbeat stores its older flag: the host is enabled again,
  which the comment in `handlers.go` (line 200) says cannot happen. Holding the lock from
  lookup to write would repair it. The same gap lets enable and disable bring a
  deleted host back or put an older `LastSeen` in place.
- **`config_file_torn`**: registry and manager write the same `config.yaml.tmp`.
  One truncates it between the other's write and rename, and the truncated file
  becomes `config.yaml`. A crash then leaves defaults, or a file the server does
  not start from. For the same reason, no common lock, a table save that
  read the file before a settings change and renames its document after it undoes
  the change on disk, and in memory at the next reload.
- **`bot_crash`**: `config.yaml` is edited; the tick and a request to
  `/config/reload` both notice, both shut down the service in place, and the
  second closes its channel again. In the ticker's goroutine nothing recovers
  the panic. Without overlap the bot is right: what `FollowsWhenQuiet` has to
  except are two single failures nobody repairs, a form whose verification failed
  and a restart that could not reach Telegram. Later reloads compare
  configurations, find them equal, and leave the old bot, or none, in place.

Where the code and what is said of it differ otherwise:

- The README says that users can be added in the settings; the form's handler
  never changes the users.
- `configRefresh` is read and validated, and the ticker's period is a constant 300 s.
- The comments on the two limiters (`server.go`) say 10 registrations and 30 wakes per
  minute. The limit of registrations is 60; and since windows are fixed, up to 59 wakes fit into less
  than a minute (`BurstBound` is the exact bound: less than twice the quota).
- With `WOLLEE_PASSWORD_HASH` set, a password change answers 200 and has no
  effect, because each load puts the environment's hash back; the next settings
  save writes that hash to the file. `PromiseKept` is stated without that variable.
- "If password is already set, deny further setup" (`handlers.go`, line 829): setup
  looks in memory only. A tick loads the file, a first setup is saved, published and answered, the
  tick stores what it loaded, and memory has no password again: a second setup passes
  and replaces the first one's hash on file. Two setups that both looked before either saved do the same.
  `SetupReplacesNothing` is stated as long as no call has been overtaken; `SetupCloses`
  says that the next whole reload closes the server again, whatever happened.
- A host written by hand with dashes in its MAC is listed twice after a start,
  the second time enabled, and the handlers find the second only.
  `StartupChangesNothing` is stated for lists without such a spelling.
- An IPv6 network passes the validation, and packets for it go to the address made
  of its first four bytes. `WakeReachesAll` is about IPv4.

### Bounds

- Two request slots: each property relates one request to one other that
  interferes; a third could only do what the second does. Two hosts in
  `registry_serial` so that requests overlap at all; with one host in the
  overlapping runs, all of them collide. One name is enough for two hosts to
  share it. `MaxTime` is 2, so that a time on record can be the epoch, older than now, or now.
- Two tables, two passwords and, in `config_calm`, two tokens: old and new must
  differ. One settings request, the registry and the reloader already give the
  overlaps of two savers with a reload. The violation runs use one password.
- Rate 3 and window 2: a window has a first, a middle and a last request and
  ends strictly after its first unit; the clock to 4 gives an adjacent window, a
  gap and a sweep (age greater than the window).
- Three changes in `bot_calm`: set up a bot, change it, and change it again after
  the second change failed; two tokens and two access values, so that each can
  change alone. The number of services, bots and contexts is not bounded by
  itself: each change causes at most one restart.
- Agent: the interval 1 doubles below the cap, 3 reaches it in one step, 8 is above
  it and wraps to a negative pause and to zero. One upstream before and one after
  give all of failover. The ASSUME `2 * MaxBackoff < Half` is far from
  sharp in the code (5 minutes against 292 years).
- Sessions: two browsers, so that one's session meets the other's change of password or
  setup; two secrets besides the environment's, an old and a new one. One
  request at a time beside the ticker (`MaxCalls = 1`): all of a request against a reload.
  Two browsers' requests at a time are some 20 million states, more than a run should take; all safety
  properties are proved for them, and `SetupCloses` has not been checked there.
- Startup: two hosts and one name let a host be known under one key, both or none;
  three entries give two of one host and one of another. With 3 bits there are
  prefixes 0, 1, 2 and 3. `Cidr6` is in the definitions and the proofs, not in the instance.
- The bot, agent and startup runs do not check deadlock: a stopped program does nothing, and a
  server whose file is refused does not start.
- The overlapping `ConfigStore` runs do not check deadlock: once the process is dead and the file
  damaged, nothing can happen. All others check it.

Symmetry is used for hosts, slots and clients in runs without liveness.

### Fairness

`RequestsFinish`: a goroutine that can run does (weak fairness of each step
outside the lock and of `Save`); `sync.RWMutex` does not starve a waiting writer
(strong fairness of `Write`, which needs the lock). The start of a request is
not fair. `Converges`: the ticker fires again and again (weak), the reload
goroutine runs, and reading the file does not fail for ever (strong fairness of
`LoadFile` for the reloader); nothing else is assumed, and a file that has
become unreadable is the stated exception.

`CatchesUp`: a call that has begun goes on (weak), the ticker fires (strong only
because `MayOverlap = FALSE` lets it wait for others), and the file can be read now
and then (strong); nothing is assumed of Telegram or of forms, edits are bounded.
`Recovers`, `FollowsServer`, `StopsWhenCancelled`: timers fire and requests time
out, so a beat goes on (weak); `select` prefers no ready case for ever
(strong fairness of `Return`). Nothing is assumed of the servers beyond
each property's own premise.

`StopInTime`: Run, once launched, and the two calls of `Shutdown` go on (weak fairness of
`RunStep`, of each stopper's steps and of the end of the wait); the call to Telegram that may
be under way is answered one way or the other, or the 10 s pass. `SetupCloses`: a call that has
begun goes on and the ticker ticks (weak), and now and then a tick finds the file
readable (strong); nobody is assumed to make a request.

Every property of a passing run has a mutant in the module (comment *Mutant*)
that a plausible slip in the code would amount to, and with which TLC finds it violated.

## 4. What is proved

For every number of hosts, clients, requests, values and every bound:

- **HostRegistry.** `IInv` is inductive (`Invariance`), with or without overlap.
  Its core is `SnapshotFresh`: a record on its way is based on the current entry
  unless its request is marked as overtaken. It is preserved by a write because
  the writer is alone in the lock (`LockHeldWhileSaving`) and marks everybody it
  overtakes, by `Stamp` because the clock is ahead of the table (`ClockAhead`),
  and it says something because requests are what they should be
  (`RequestsWellFormed`). A write or a packet that rests on the current entry is the abstract
  operation; so in any overlap a step departs from `HostTable` only if its own request was
  overtaken (`OthersAreOperations`), and only such a step loses a flag, brings a deleted host
  back or takes `LastSeen` back (`OthersDoNoHarm`). Without overlap nobody is ever overtaken
  (`OneRequestPerHost`): `SerialRegistryImplementsTable` and the three action properties are
  the same lemmas in that case.
- **ConfigStore.** `CalmInv` is inductive without overlap (`CalmInvariance`). It
  says where each process can be while another is busy, that what a saver has
  encoded is the current file with its own section replaced, that the temporary
  file holds that document when it is renamed, and that memory equals the file
  except between rename and publication. `FileIntegrity`, `AnswersAreDurable`,
  `SavesKeepSettings` and `CalmStoreImplementsDurable` follow.
  Under every interleaving: `TypeCorrectness`, and `QuietDoesSettle`: once nobody writes, the file
  stays, what a reload has read of it stays true, storing it makes memory agree, and
  nothing parts them again, whatever was torn, lost or overtaken before. `Converges` adds to this only that
  fairness brings such a reload about.
- **RateLimiter.** `IInv` says of the log that admissions of a window are numbered
  without gaps and that windows begin at least `Window` apart, and of a bucket
  that it is the last window of the log, or over. It is stated for pairs of
  entries, so that appending one needs no induction. `BurstsAreBounded` (the
  exact bound is 2 * Rate - 1), `RefusalsAreDeserved` and
  `LimiterImplementsFixedWindow` follow; in the last, a sweep is a stutter.

- **AgentHeartbeat.** `IInv` relates timer, back-off, interval and cap: the timer
  shows the back-off, or the interval where that is not positive; the back-off is below the
  cap or the interval, and negative only for an interval above the cap. The last part is why wrapping is
  harmless: below the cap doubling cannot wrap (`Doubling`), above it a
  wrapped pause falls back on the interval. `PausesAreBounded` and
  `PausesDoNotShrink` follow for every width and cap. `ReachableIsReached` is the part of `Recovers` and
  `FollowsServer` without fairness: a beat does not go past an upstream it can reach, and the
  first one it can reach sets the interval, whatever happens to the others meanwhile.
- **BotLifecycle.** `TypeCorrectness` holds under every interleaving. While restarts
  take turns `CalmInv` is inductive (`Invariance`). `BotInPlace` says that only the bot of
  the service in place can be open, and that it is, with the context in place and
  not cancelled, unless a restart is between closing and starting; but it is
  preserved only because every restart knows how far it is (`Restarting`:
  what it found and noticed, that the context was cancelled before the bot is closed and nothing
  is open when a service is started), because nobody else acts meanwhile (`Turns`), and because
  Run starts the first bot before it launches anything that could restart it
  (`Starting`). `Suits` is what makes the comparison of two configurations enough:
  the service in place is the one that the configuration before the reload asked for,
  unless something was missed. `OneBotAtATime`, `Survival`, `LoopsEnd`, `Following` and
  `NothingLeft` follow, for every failure and a stop at any moment.
  `LifecycleImplementsSlot` shows that every step is one of `BotSlot`'s or a stutter: closing is
  allowed because the restart noticed a difference or was missed before (`Suits` again), connecting because
  nothing is open then, and a failed restart is a `Miss` because nobody suits any more.
- **The stop of the server, under any overlap.** `ServerEnds`, also a part of `IInv`, relates the HTTP
  server, Run, `Program.Stop` and `shutdownOnContext`. `StopReaches`: once the stop was asked for,
  Run does not serve with nobody left to shut its server, wherever in Run the stop came. `StopNotStuck`: until the
  stop is over, Run, one of the two shutdowns or a request under way has a step to take,
  so nobody waits for somebody who waits. `StopEnds`: each step of Run and of the stop decreases
  a measure (`StopStepsLeft`) that nobody else increases, and once the server is shut each
  step of a request decreases its own. What remains of `StopInTime` is that steps which can be taken are.
- **Sessions.** `IInv` is inductive for any overlap. `SecretSettled`: once the secret is on file or in the
  environment at the start, every copy of the configuration that a call still
  works with has it, so no order of saves and reloads brings a second one in. `CalmSecrets`
  and `CalmHashes` say the same while no call has been overtaken, for a file that began
  without a secret, and of the password, which is in memory as on file except between the
  halves of a save; `CalmTurns` says that then no two calls that set a password are between saving and answering at once,
  which is why the promises of one are not another's to break. `PromisesAreKept`, `SessionsDoSurvive`, `NewSessionsDoWork` and
  `SetupsReplaceNothing` follow.
- **Startup.** `BroadcastReaches`: for every width, address and prefix `CIDRToBroadcast` is a
  member of the network with every bit another member has. `IInv` relates the file to the table
  (`FileIsTable`), the table to its keys (`Keyed`), and the hosts still to be seeded to
  both (`SeedsAreKnown`), for any hosts, names and files; `WakesReachAll`,
  `RunningFileIsTable` and `StartsChangeNothing` follow. The latter is about tidy lists, and
  `TidyListsStayTidy` shows that only an edit by hand makes one untidy: beside a tidy file no host
  is under a key with dashes (`TablesAreTidy`), not even while the table has changes that
  were not saved. If all that people write is tidy, the condition always holds (`AlwaysTidy`).

Assumptions are the named `ASSUME`s: markers are not values (`NoHost`, `Free`,
`Missing`, `Garbled`, `Absent`, `NoBucket`), process names differ, rate, window and
intervals are positive, the doubled cap is a duration, somebody may use the bot
(`SomeAccess`), the environment's values are secrets and passwords, addresses have at least one bit.

Some theorems state properties that no run lists: `SnapshotFresh`, `OnlyTheOvertakenHarm`,
`QuietSettles`, `NoneIsPassed`, `TidyStays`, `OneBot`, `StopNeverStuck` and `StopWindsDown`. They hold for
every value of the constants, and TLC finds no violation of them in the instances above either
(of the last two also with `bot_crash`'s constants).

Only model-checked: the eight liveness properties (`RequestsFinish`, `Converges`, `CatchesUp`,
`StopInTime`, `Recovers`, `FollowsServer`, `StopsWhenCancelled`, `SetupCloses`), as the prover does not treat
fairness or `ENABLED`, and the violations. Every other property of a run is the statement of a theorem. The theorems about `MayOverlap = FALSE` do
not say that the code keeps requests apart: nothing in it does, and the
violation runs show what follows.

## 5. Not modelled

- Logo and favicon: a crop and a scale at start, on images a library decodes; no
  state, and nothing depends on the result.
- Logger, templates, embedded files, command-line flags and the installation as a service:
  output, layout and libraries.
- The text of the default file, the environment's variables other than the two
  above, and the validation of port, durations and user ids: checks of one value each, whose failure ends the start or the request.
- The bytes of a magic packet, Argon2, the signing of tokens, HTTP and Telegram's protocol: libraries. A token's
  expiry is only the step that drops it.
- How the agent finds its name and address: part of whether a beat succeeds.
- The bot's answers, but for `/wake`, which is HostRegistry's.
- Edits by hand of the host list while the server runs: nothing takes them up, and the next save undoes them.

## 6. Plan

Done: HostRegistry, ConfigStore and RateLimiter, each with its abstract
specification and proofs; BotLifecycle with Run and Stop, AgentHeartbeat, Sessions and Startup,
checked and proved, BotLifecycle with an abstract slot. To come, most important first:

1. What `CatchesUp` and `SetupCloses` rest on, fairness apart, as `QuietDoesSettle` is for
   `Converges`.
2. A run of Sessions with two requests at a time, on a smaller set of credentials, for
   `SetupCloses` in particular.
3. AgentHeartbeat composed with HostRegistry's clock: how late a host may be
   heard of against the server's timeout.
4. The favicon's arithmetic against a reference definition.
