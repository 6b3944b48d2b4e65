# Peapod in TLA+

Peapod runs agent-written code in disposable sandboxes: containers it creates,
runs commands in, pauses, snapshots and destroys through a container runtime's
command line. This directory holds TLA+ models of its core, the TLC runs that
model-check them on small instances, and TLAPS proofs of the properties that
matter most for every instance. Paths below are relative to `src/`.

## The system

| component | state | operations | talks to |
|---|---|---|---|
| **Núcleo**, `internal/sandbox/manager.go` | one audit file (JSON lines) per sandbox; nothing else: containers and their labels are the truth | Create, List, Exec, Destroy, Pause, Resume, Reap, PauseIdle, SweepOrphans, Snapshot, Fork, PruneSnapshots, Checkpoint, Restore, WriteFile, ReadFile, Logs, Stats, History, DiffSnapshots | a Driver (calls); the file system |
| **OCI driver**, `internal/driver/oci/oci.go` | none of its own; containers, networks, images in the engine | one or a few `docker ...` processes per operation; the firewall: `setupFirewall`, `teardownFirewall`, `Sweep` | the engine |
| **MCP server**, `internal/mcpserver/server.go` | two goroutines (reap loop, idle-pause loop), one per tool call | one tool per núcleo operation; a deadline on exec | the núcleo |
| **CLI**, `cmd/peapod/main.go` | none; one process per command | `sandbox ...`, `snapshot ...`, `up`/`down`/`ps` (groups), `preview`, `mcp`, `ui`, `proxy` | the núcleo |
| **Native app**, `ui-native/Peapod.swift` | view model: list, status, flash, three flags | refresh, act (create, destroy, pause, resume, snapshot), detail window | the CLI, as child processes with two pipes |
| **Egress proxy**, `internal/proxy/proxy.go` | allowlist | HTTP forwarding, CONNECT tunnels | runs in the firewall's sidecar |
| **Dashboard** `internal/web`, **mock** and **apple-container** drivers, **backend selector** | none, an in-memory map, none, none | forward to the núcleo; implement Driver | the núcleo |

Any number of CLI processes, MCP servers and dashboards work on one engine at
the same time. There is no lock and no daemon of Peapod's own: every operation
is a sequence of separate runtime calls and file operations, any other process
can run between two of them, and any process can die between two of them. What
is hard about this code follows from that:

* the loops (Reap, PauseIdle, Sweep) decide on a list that is old when they act;
* the audit file and the container it belongs to change separately;
* an exec can end by itself, by the watchdog inside the sandbox, by the
  client's deadline, or because its container died, was frozen or was removed;
* a time limit is kept by two clocks at once, one of which sleeps in a sandbox
  that may be frozen, and its arithmetic is that of 64-bit nanoseconds;
* a snapshot is a tag that any caller may move while another one judges it by
  age or forks it;
* the firewall is built in six calls before its sandbox exists, and a sweep can
  tell it from a leftover only by its age;
* `up` and `preview up` list first and create later, and nothing reserves names;
* the app's listings are other processes whose answers may be late, and its
  child's two pipes have limited room;
* a tunnel of the proxy is two goroutines over the same two connections, each
  closing the one the other reads, with no deadline.

`PROJECT.json` lists these hazards line by line with the properties that cover
them, and maps every definition to the lines it models.

What makes each component correct:

* **núcleo**: a removed sandbox stays removed; its trail loses nothing while it
  exists and gets no line twice; commands that ran are recorded; loops touch
  only what has existed for their limit; every call with a deadline returns;
  idle sandboxes go.
* **exec's limit**: a limit kills the command, not before its time, whoever has
  gone meanwhile; the caller hears of the command's end before of the deadline.
* **snapshots**: prune takes what is old and nothing else, goes on after a
  removal that fails, and says what it took.
* **firewall**: a live sandbox has its network and its proxy; a creation's
  resources are never taken for orphans; what the engine tells the age of is not
  left behind for ever.
* **groups**: a name belongs to one sandbox; up completes, and down clears.
* **app**: the screen never goes back in time and in the end shows what was
  done; a run of the CLI comes back with its output, each stream whole or none of it.
* **proxy**: what it answers is why it refused, and only public addresses are
  dialed; a tunnel or a relay loses and cuts nothing and leaves nothing open.

## The modules

| module | models | with |
|---|---|---|
| `SandboxLifecycle` | the promise: a sandbox's life runs forward, its trail grows one command at a time and is erased only once the sandbox is gone | |
| `Manager` | the núcleo over the OCI driver's container calls: callers, reapers, pausers, engine, time | `MCManager`, `ManagerProofs` |
| `Firewall` | firewall set-up, teardown and orphan sweep | `FirewallProofs` |
| `ExecTimeout` | one peapod_exec: `timeout_seconds` to a duration, the watchdog in the sandbox, the client's deadline | `MCExecTimeout`, `ExecTimeoutProofs` |
| `Snapshots` | commit, fork, list, remove and prune of snapshots | `MCSnapshots`, `SnapshotsProofs` |
| `Groups` | up, down, preview up, preview down | `MCGroups`, `GroupsProofs` |
| `App` | class Model of the native app | `MCApp`, `AppProofs` |
| `RunPeapod` | runPeapod and the CLI's exec at the two ends of two pipes | `RunPeapodProofs` |
| `Proxy` | one request, CONNECT or plain: allowlist, dial, the copies, the client and the server | `MCProxy`, `ProxyProofs` |

`Manager` implements `SandboxLifecycle`: `Life == INSTANCE SandboxLifecycle WITH
phase <- ..., log <- trail`, and `LifecycleSpec` is the property. The MC modules
only add the instance's constants and symmetry sets. Definitions commented
*Mutant* are plausible mistakes in the definition that follows them; nothing
uses them, they document what each property would notice.

### Manager

State: `box` (the container; `pulling`, `created` and `stopped` are the partial
outcomes of `docker run`), `created` (its label), `mtime`, `trail` and `torn` (the
audit file: when it was written, its lines, and whether it ends within one),
`job`/`at` (what became of each command), and per process `pc`, `tgt`, `cmd`, and
for a loop `pending` and `cutoff`. Three history variables serve the properties
only: `lost`, the commands that ran and have no line of their own because their
caller died, their file could not be opened, their line was not written, cut
short or appended to one cut short, or their answer came at the very deadline;
`spared`, the sandboxes that are there because the engine refused a reaper's rm;
and `seen`, what a loop's list had in it. A process is at one `pc` per runtime
call or file operation:

    Exec     idle -> [resume ->] exec -> wait -> record -> idle
    Destroy  idle -> rm -> unlink -> idle
    Create   idle -> run -> idle            (EngineCreate, EngineStart beside it)
    Reap     idle -> inspect -> cutoff -> scan -> (rm -> unlink -> scan)* -> idle
    PauseIdle idle -> inspect -> cutoff -> scan -> (freeze -> scan)* -> idle

`ExecGiveUp` is the client-side deadline, `JobExit` the command's own end or the
watchdog's, `ExecResultLost` the case where `exec.Cmd.Run` returns the context's
error although docker exec exited with 0. Faults are a constant: processes
crash, the audit file cannot be opened or not be written (wholly, or after a part
of the line), runtime calls fail, containers die, an exec answers in the instant
of its deadline.

A loop's list is two runtime calls (`List`, then `Inspect`, from which what
vanished meanwhile is absent), and its cutoff is read from the clock after them
(`FixCutoff`): between any two of these others create, use and destroy sandboxes
and time passes, for as long as it takes. A sandbox made after the list is not in
the round, however old the cutoff finds it; `ReapIsThorough` is about those that are
(`seen`).

Reductions: Resolve only reads, so it is the first half of the step that starts
a call (what it read is stale from the next step on); `record` is one step,
because its file is opened with O_APPEND and its line is one write, whole, in part
or not at all (`WriteLine`, `WriteFails`); the list's order is
arbitrary; a due sandbox that is no longer there makes Destroy's Resolve fail,
which is the skip of `ReapSkip`. Commands carry a name of their own, so that
"recorded twice" has a meaning.

### Firewall

State: per sandbox the network, the sidecar's stage, the box and the creator's
place in Create; per destroyer and per sweeper its place and what it works on.
`CreateBound` and `SweepBound` are the longest a creation may take from its
network on and a sweep from its list on. The code bounds neither; they are the
assumption under which the two-minute `sweepGrace` is enough, and `Tick` keeps
to them. The sweep's inspections of one kind are one step (`Pick`): a later
inspection can only find more of them old enough. One that fails, or tells a time
that does not parse, makes its resource count as young (`Silent`): any inspection
may fail (the fault "inspect"), and those of the kinds in `Ageless` always do,
because the engine prints their time in another form than RFC 3339. `untold` is a
history variable, the resources a sweep could not learn the age of. A cancelled context and a
crash are both modelled as the end of a creation's calls (`Interrupted`), since
`teardownFirewall` runs under the context of Create. A destroyer that dies
stays where it died. `leaky` is a history variable: the sandboxes for which a
removal of the teardown or the sweep failed; both ignore that error and go on.

### ExecTimeout

`Manager` treats the limit of an exec as something that may pass at any time;
`ExecTimeout` is the time itself. Durations are ticks, `Second` of them a second,
and wrap around at `Half` as int64 nanoseconds do at 2^63 (`Wrap`). `Timeout` is
the switch of the exec tool, `Secs` the whole seconds timeoutWrap passes to
sleep, `Deadline` what Manager.Exec hands to the driver. The command starts or is
refused (`docker exec` refuses a paused container), ends by itself, or is killed
by the watchdog; docker exec answers, or is killed at the deadline; the server
may die at any time, and the sandbox may be frozen and thawed by the idle-pause
loop or any other caller. `Lag` is the longest the engine takes to start, to kill
and to answer while the sandbox is not frozen, and `Tick` keeps to it.

### Snapshots

A snapshot is an image, and its ref the tag `peapod-snapshot:<name>`. `tag` says
what each name stands for, `at` and `stamp` when each image was committed and its
CreatedUnix, `used` which images have containers, which `rmi` refuses.
PruneSnapshots is a list (`PruneList`), a cutoff (`PruneCutoff`) and one runtime
call per name, which may also fail for reasons of the engine's (`RmiFails`).
Callers save, fork, remove and destroy forks in between, and prune themselves. The
engine's clock differs from the callers' by up to `MaxSkew`, times are cut to whole
seconds on both sides, and a creation time that does not parse is a stamp of 0.

### Groups

A name is the sequence of its words, so `strings.HasPrefix(b.Name, group+"-")`
is a strict prefix of sequences, and a group called `app-web` is the sequence
`<<app, web>>`. The end of docker run and Create's return are one step. A
failing List is an empty one for up, preview up and preview down (the code ignores
its error); a group's down exits with it, which is no step.
`troubles` is a history variable: a listing that failed, a command interrupted
in the middle of a creation (docker run goes on without it), a removal that
failed. The properties that such an event breaks in the code are stated up to
the first one.

### App, RunPeapod

Sandboxes are abstracted to the number of changes they have seen, so that
"older" is "smaller". `Flights` is the number of listings that could be in
flight; that there is only ever one is a result (`OneListing`), not an
assumption. In `RunPeapod` output is counted in chunks and a pipe holds `Room`; each
of the two streams is UTF-8 or not, and of one that is not the run hands over
nothing (`Decoded`).

### Proxy

A host is the sequence of its labels, so the allowlist match is a suffix of
sequences. What a host resolves to is a sequence of IPv4 addresses, four octets
each; `IsPublic` is isPublicIP, whose masks are divisions, over the library's
predicates (`Special`). `Verdict` does not use it: it speaks of `Routable`, the
blocks as ranges of octets, so a wrong mask or bound would show. An address that
does not answer, a lookup that fails and a hijack that fails are faults.

The dial leads to a tunnel (`form` = "connect") or, for a plain request, to
http.Transport's RoundTrip, which fails (`RoundTripFails`) when the server dies
or the client's death cancels the request, and otherwise answers when the
server does (`RoundTripAnswers`, no fairness). The handler then relays the body:
the copy "down" of the tunnel, alone. When it stops, for whatever reason, the
handler returns (`RelayEnd`): net/http cuts the client off if the answer is
short of the length it announced (`form` = "sized"), and ends it like a whole
one if it announced none ("chunked"). `open` of a relay says whether the
exchange on a connection is over: the transport may keep the connection itself.

In the tunnel, data is counted in chunks: `left` (not sent),
`near` (in the connection the proxy reads), `hand` (in io.Copy's buffer), `far`
(in the connection it writes) and `got`, for each direction. Each io.Copy reads,
writes, or stops and closes (`CopyRead`, `CopyWrite`, `CopyEnd`). A TCP
connection closed with input unread is reset and may lose what was written on it
last (`cut`). The ends send, end their sending, read, leave and die as they
like.

## The runs

| run | checks | instance |
|---|---|---|
| `manager_loops` | `TypeOK`, `LifecycleSpec` (refinement), `AuditComplete`, `ReapIsThorough` | 1 sandbox, 2 commands, 2 clients, one with deadlines, reaper, every fault, limit 0, clock to 1; 745 k states |
| `manager_live` | `EveryCallReturns`, `IdleIsReaped`, `AutoResumes`, `LoopsRespectAge` | 1 sandbox, 1 command, 1 client with deadlines, reaper, pauser, dying containers, limits 1, clock to 3; 238 k |
| `firewall` | `TypeOK`, `LiveFirewall`, `SetupIntact`, `SweepIsThorough`, `TornDownTogether`, `OrphansSwept` | 1 sandbox, 2 destroyers, 1 sweeper, every fault, grace 3 > 1 + 1, clock to 4; 165 k |
| `snapshots` | `TypeOK`, `ReportIsTrue`, `PruneSparesYoung`, `PruneIsThorough` | 2 names, 2 images, 2 pruners, seconds of 2 ticks, skew 1, limit 1; 2.2 M |
| `exec_timeout` | `TypeOK`, `KilledInTime`, `WatchdogWins`, `LimitHolds` | `timeout_seconds` -1, 0, 1, 2, 6, 8, 15 in durations of 22 ticks, seconds of 3, lag 4, grace 15; 217 k |
| `app_screen` | `TypeOK`, `NeverGoesBack`, `ShowsWhatWasDone` | 2 flights, 3 changes, every fault; 3.5 k |
| `pipes_any` | `TypeOK`, `NothingLost`, `WedgedByStderr`, `FittingRunEnds` | pipes of 2, stdout to 5, stderr to 3, UTF-8 or not; 1.9 k |
| `groups_alone` | `TypeOK`, `OnePerName`, `DownClears`, `UpCompletes` | 1 user, 4 sandboxes, groups `app` and `app-web`, 1 preview, every fault; 710 k |
| `proxy_tunnel` | `TypeOK`, `Verdict`, `WholeStream`, `NotWedged`, `TunnelCloses` | 3 hosts, 2 addresses at the edges of blocks, CONNECT and plain, to 3 chunks each way through room for 1, every fault; 424 k |
| `manager_reap_active` | violates `ReapKeepsActive` | see below |
| `manager_trail_left` | violates `TrailDiesWithSandbox` | see below |
| `firewall_nets_stay` | violates `EveryOrphanSwept` | see below |

Why these bounds are enough to be of interest. The processes of `Manager` meet
only at one sandbox and its file, so one sandbox with two callers and a reaper has
every pairwise race over its life and trail, and one with a caller and both loops
every race of calls and loops. Two commands make an order in the trail, and a line
cut short that another one follows. With a limit of 0 a listing of one tick is
slower than the limit; a clock to 3 with limits of 1 leaves room for a cutoff to
pass and to age. Two destroyers and a sweeper race each other and a creation in
`Firewall`; an id has one creator by construction. The grace exceeds the two bounds
by the smallest possible step, and a creation begins so early that its leftovers
can be swept before the clock stops (`LastStart`); a second sweeper adds nothing a
destroyer beside a sweeper does not do; `FirewallSafe` is for any number of them.
Two names and two images let a name be moved, removed
and saved again under a prune, two pruners race for them, and a second of two ticks, a skew of
one and a limit of one put stamps on both sides of a cutoff. The values of
`timeout_seconds` are one of each kind: no limit, the default, limits that fit,
one whose grace does not fit (6), and two that overflow, to less than zero (8)
and to a fraction of what was asked (15). Two flights let answers overtake each
other. Four sandboxes let every name of `Groups` have one and one more be tried;
the two groups share the name `app-web-db`, so their commands meet. Three chunks fill all of a tunnel's
places with one to spare, and less than that lets either end finish first. The
two addresses are the last of a block that may not be dialed (198.19.255.255) and
the first after one (100.128.0.0). What the instances cannot say about larger
ones, the theorems do.

CHECK_DEADLOCK is off where the modelled programs may all be finished: clocks,
sandbox ids, images and commands are used up, the app has nothing to do, the CLI
exited.

The inductive invariants (`IInv`, `Audited` and `InHand` of `Manager`, `FwInv` and
`InHand` of `Firewall`, `AppInv`, `NameInv`, `StoreInv`, `OnTime`,
`TunnelInv`, `Closing`, `Conserved`) are not in the configurations, since what
follows from them is. Each holds in its component's run; to check one, add it
there as an INVARIANT.

### Fairness

Only what schedulers and tickers give: a call in flight goes on to its next
runtime call, the loops' tickers fire (one goroutine each in `Serve`), docker
run ends, listings end, callbacks run on the main thread, the firewall's clock
moves. Nobody has to call, no command has to end, no container has to be
resumed, no Destroy has to be finished, no timer helps the app. The sweep of
`firewall` assumes more: with an engine that always refuses a listing, a removal
or an inspection an orphan is never swept, so a call that can succeed again and
again does in the end (strong fairness of the sweep's successful calls,
`SweepsGoOn`). Of the kinds in `Ageless` no inspection ever succeeds, and nothing
is promised. The proxy's
handler and its goroutine run on; the ends owe nothing, not even an answer.

Where liveness is proved, weak fairness of a step is written out: infinitely
often the step's guard is false, or infinitely often the step is taken. That is
`WF_vars` with the guard in the place of ENABLED, which TLAPS does not reason
about. `Manager!CallGoesOn` does so for the calls of a client (the guard is
`CanGoOn`), `App!ListingsGoOn` and `CallbackRuns` for the app. The guards are
those of the code: a call has a next operation unless it waits for a command.

* `EveryCallReturns` therefore rests on the client-side deadline: the watchdog
  sleeps with its frozen container. It is stated for callers with a deadline
  (the MCP server's); the CLI's exec has none and waits.
* `LimitHolds` lets a frozen command live on: the watchdog is frozen with it. Its
  caller is answered all the same, by the deadline, if limit and grace fit a
  duration. Nothing makes a command end, and the server need not live.
* `IdleIsReaped` rests on rm succeeding: its run has no failing engine.
* `TunnelCloses` is conditional on no living end stalling for ever: the tunnel
  has no deadline, and an end that stops reading holds it open.
* `ShowsWhatWasDone` allows that a listing fails, if the screen says so.

## The proofs

All theorems hold for any sets of sandboxes, commands, processes and users and
any values of the other constants, under the named assumptions on constants
(kinds of processes are disjoint, "no sandbox" is not a sandbox, times are
naturals, a manifest has no service twice and its sandboxes' names begin with its
own).

| module | theorem | says |
|---|---|---|
| `ManagerProofs` | `TypeCorrect`, `InvariantHolds` | `[]TypeOK`, `[]IInv` |
| | `AgeRespected` | `LoopsRespectAge`: however stale its readings, a loop removes or freezes only what has existed for the whole limit |
| | `Refinement` | `Manager` implements `SandboxLifecycle`, whatever fails or crashes |
| | `TrailsTrue` | what follows for a reader of the trails: `WrittenOnce` and `OneLife` of `SandboxLifecycle` |
| | `AuditHolds` | `[]AuditComplete` under every fault: a command that ran is in the trail unless it is in `lost`: its caller died, its file could not be opened, a line was not written or cut short, or it answered at the deadline |
| | `ReapsThorough` | `[]ReapIsThorough`: a round of Reap leaves no sandbox it has listed and that was due at its cutoff, however long the listing took and whatever others do meanwhile, unless the engine refused |
| | `ResumesFirst` | `AutoResumes`: a command meets a paused sandbox only if somebody paused it under its call |
| | `CallsReturn` | `EveryCallReturns` (liveness), whatever fails, crashes, is frozen or dies |
| `FirewallProofs` | `FirewallTypes` | `[]TypeOK` |
| | `FirewallInv`, `FirewallSafe`, `CreationsIntact` | `[]FwInv`, `[]LiveFirewall`, `[]SetupIntact` if `CreateBound + SweepBound < Grace` |
| | `SweepsThorough` | `[]SweepIsThorough`, under the same bound: a sweep leaves no leftover that was old, unless the engine refused or did not tell its age; for any `Ageless` |
| | `FirewallTorn` | `[]TornDownTogether`, with no assumption about time |
| `SnapshotsProofs` | `SnapshotTypes`, `StoreHolds` | `[]TypeOK`, `[]StoreInv` |
| | `ReportTrue`, `PruneSafe`, `PruneThorough` | `[]ReportIsTrue`, `PruneSparesYoung`, `PruneIsThorough` |
| `ExecTimeoutProofs` | `ExecTypes`, `KillInTime`, `WatchdogFirst` | `[]TypeOK`, `[]KilledInTime`, `[]WatchdogWins`, for any `timeout_seconds` and any width of a duration |
| `GroupsProofs` | `GroupsTyped`, `NamesReserved`, `OneSandboxPerName` | `[]TypeOK`; `[]NameInv` and `[]OnePerName` if ups take turns (`[]UpsInTurn`), whoever types them and however many downs run beside them |
| | `UpFinishes` | `UpCompletes` for any number of users at once, if no down runs beside an up (`[]Undisturbed`) |
| | `DownFinishes` | `DownClears` for any number of downs at once, if ups take turns and none runs beside a down |
| `AppProofs` | `AppSafe`, `AppTyped`, `ScreenMovesOn` | `[](TypeOK /\ AppInv)`; `NeverGoesBack` |
| | `WhatWasDoneShows` | `ShowsWhatWasDone` (liveness), for any number of flights |
| `RunPeapodProofs` | `PipesConserve`, `PipesTyped`, `DeliversAll` | `[](TypeOK /\ Conserved)`; `[]NothingLost`: each stream whole, or nothing of one that is not UTF-8 |
| | `OnlyStderrWedges`, `WedgeIsForEver` | `[]WedgedByStderr`: a run is stuck only on an stderr that a pipe does not hold; `WedgedForEver`: then it stays so |
| | `EveryRunEnds` | `RunsOut`: each step leaves a run fewer to come |
| `ProxyProofs` | `ProxyTyped`, `TunnelHolds`, `StreamsWhole` | `[]TypeOK`; `[]TunnelInv`; `[]WholeStream`, for any streams and room |
| | `NeverWedged`, `CopiesEnd` | `[]NotWedged`; `CopiesRunOut`: what the copies still have to do only falls |
| | `VerdictRight`, `PublicIsRoutable` | `[]Verdict`, for any resolution of the host; isPublicIP is `Routable` for every IPv4 address |

The inductive invariants, and why the properties need them:

* `Manager!IInv` = `Born` (calls, listings and trails are about sandboxes that
  have existed, and an unlink about one that is gone: without it Destroy's
  unlink could erase a living trail), `Aged` (no activity is dated before the
  creation or after now, so what a stale cutoff found due is due a fortiori
  when the loop acts), `Owned` (a command belongs to one Exec and is in no trail
  before that Exec records it: without it the refinement's `Note` could write
  one twice) and `Called` (a client that waits waits for a command of its own
  that was started, and a creation for a container that was asked for: so the
  guard of its next step holds). `Audited` adds the commands an Exec has given up
  on: they are in the trail, or lost, before they end. `InHand` says of a reaper in
  its loop that a sandbox it has listed is still to be looked at, or is the one it is
  about to remove, or is not due at its cutoff.
* `Firewall!FwInv` = the two properties, `Timely` (a box a sweep has not listed
  came up after the list, so its network is at most `CreateBound` older: with
  the grace this is what keeps `Pick` off it) and `Ordered` (removals are for
  sandboxes that are not there and will not be). `InHand` adds what a sweep still
  has to remove: sidecars first, so that a network it comes to has none on it,
  and anything too young for it when it began, or of an age it was not told, is
  not its to take.
* `TornDownTogether` does not depend on time, so it has an invariant of its own in
  `FirewallProofs`: where each creator and destroyer is in its calls, what is
  already gone (`Placed`, `Undone`).
* `Snapshots!StoreInv` = `Stamped` (a stamp is the second of a time within the
  clocks' difference of the commit), `Judging` (a cutoff is of a moment after the
  list, and what a prune holds are images that were made) and `ReportIsTrue`: an
  image leaves a name for good, because a commit makes a new one.
* `ExecTimeout!OnTime` = how late the start, the kill and the answer may be while
  the sandbox has never been frozen. With `3 * Lag + Second <= Grace` (the start,
  the rounding up, the kill and the answer) the deadline is then still to come.
  For a grace of five seconds that is a lag of up to 1.3 s. A limit that fits is
  whole seconds, so rounding adds nothing to it (`SleepExact`).
* `Groups!NameInv` = while nothing has gone wrong with a listing or in the
  middle of a creation: uniqueness, `Reserved` (a name still in the queue has a
  sandbox only if the listing found it) and `Alone` (a container being pulled is
  the one being created). Crashes at other places, failing creations and failing
  removals are all in.
* `App!AppInv` = `OneListing`, `Forward` (no answer is older than the screen),
  `Serial`.
* `Proxy!TunnelInv` = `Conserved` (every chunk is in one place), `Announced` (a
  relay that is over is cut off or has passed on all that was announced) and
  `Reasons` (the first copy to end does so because a stream is finished or an end died,
  and connections are closed, ends gone and connections reset only after that):
  with both, an end that sees the end of its stream and has not ended its own
  faces a stream that is finished, hence received. `Closing` adds that a copy
  that is over has closed what it wrote to: the other one's reads then fail, so
  it stops, or it is writing to an end that does not read (`NotWedged`).

For `UpCompletes` and `DownClears`, `GroupsProofs` adds `Covered` (a wanted name is
listed or still in the queue) and `Marked` (a listed sandbox of the goal is still
to be removed). The hypotheses of these theorems hold of one user and are needed
with more: two ups at once list before either creates, and make namesakes; a down
beside an up takes what the up found. Downs need no turns: they only take away,
and one that finds a sandbox gone goes on. A listing that a preview's down could
not read counts among the things that went wrong (`troubles`).

Two liveness properties are proved. `CallsReturn` needs no invariant about time: a
call has at most four operations left (`StepsLeft`), each step of its own leaves
fewer or brings it back (`CallStepCounts`), no step of another process leaves
more (`NeverFurther`), and there is always one to take (`CalledStep`). So the
fairness of the call's steps takes it from four to three, and so on to its end.
`WhatWasDoneShows` follows a change through the app: the command that made it
returns (`Done`), a refresh waits for the listing in flight (`Queued`) or starts
one that has still to read (`Asked`), which reads the change (`Known`) and shows it
(`Told`). Only the one listing in flight can move any of these.

Model-checked only: `IdleIsReaped`, `OrphansSwept`, `LimitHolds`, `FittingRunEnds`
and `TunnelCloses`, and that the violations exist. Each takes a number of steps
that depends on a constant (how many sandboxes a sweep goes through, how far the
clock is from a limit, how many chunks there are), so its proof is an induction
over that number inside a temporal formula, which the provers do not do: the
library's induction theorems take a state-level predicate. What is
proved of them is each step of that induction:

* `IdleIsReaped`: a round of Reap that gets to its end leaves nothing that was due
  (`ReapsThorough`).
* `FittingRunEnds`: a run that is not over has a step to take unless its stderr
  does not fit (`OnlyStderrWedges`), and every step leaves fewer (`EveryRunEnds`).
* `TunnelCloses`: once an end has finished or died, a copy has a step to take, or
  is writing to a living end that does not read (`NeverWedged`), and its steps are
  numbered (`CopiesEnd`).
* `OrphansSwept`: a sweep that gets to its end leaves nothing old whose age it was
  told (`SweepsThorough`).
* `LimitHolds`: what the watchdog kills it kills in time (`KillInTime`).

Every safety property of the passing runs is proved.

## Divergences

Three runs show that the code does something else than its documentation says:

* `manager_reap_active`: "a long-lived but active sandbox is kept"
  (`manager.go:187-188`), but activity is the end of the last command, so a
  sandbox whose command runs for longer than the limit is destroyed with it.
* `manager_trail_left`: the trail "some quando o sandbox é destruído"
  (`docs/MANUAL.md:65`), but an exec in flight records after the unlink and so
  makes the file again, and nothing removes it.
* `firewall_nets_stay`: Sweep "removes firewall sidecars and networks whose sandbox
  no longer exists" (`oci.go:271`), but an age that does not parse counts as young
  (`oci.go:332`), and what docker network inspect prints for `{{.Created}}` is Go's
  time format, not the RFC 3339 that is parsed: the network that a killed creator
  leaves stays for ever. `Ageless` is {"network"} here and empty in `firewall`: the
  engine is not part of the repository, and another one may print it otherwise.

Others were met while modelling and have no run of their own:

* run "delivers the result" (`Peapod.swift:143`; exec comes to the same runPeapod
  through execCmd), but stdout is read to its end before stderr (`:64`), and a child
  that writes more to stderr than a pipe holds blocks both for ever.
  `OnlyStderrWedges` says that nothing else does, `WedgeIsForEver` that nothing frees
  them.
* What a command prints on a stream that is not UTF-8 is handed over as nothing
  (`Peapod.swift:67-68`).
* down takes its group down (`docs/MANUAL.md:163-164`), but goes by the prefix
  `<name>-` (`main.go:708`), which the sandboxes of a group `<name>-<word>`, and
  any sandbox called so, match too.
* preview's "`down` destrói" (`docs/MANUAL.md:147-148`), but find ignores the error of
  its listing (`main.go:311`): it says that there is no preview, and exits with 0.
* SnapshotDiff "lists files added/removed between two snapshots" (`types.go:100`), but
  the errors of the listing's find are thrown away and the status is that of the
  sort (`oci.go:665`): what find could not read, or all if the image has none, is
  told as added or removed.
* A large `timeout_seconds` overflows (`server.go:39`): from about 9.2e9 on the
  product is negative, which means no limit at all, or some other number of
  seconds; a limit whose grace overflows has no deadline (`manager.go:109`).
* "exit code 137 on timeout" (`server.go:250`): a sandbox that the idle-pause loop
  froze during the command answers with -1, at the deadline, and the command lives
  on until it is thawed. `WatchdogWins` says when 137 comes first.
* "PruneSnapshots removes snapshots older than maxAge" (`manager.go:245`): it goes
  by the name it listed, so a snapshot saved under that name after the list is
  removed in its stead (`manager.go:257`), however young.
* Saving under a name in use moves the tag: the ref that Snapshot returned before
  then denotes the new image, and the old one is in no list and not pruned
  (`oci.go:505`, `oci.go:525`). The mock driver makes a new ref each time.
* snapshot diff tells "what changed between them" (`server.go:163`): a file whose
  contents changed is neither added nor removed, and is not told.
* PauseIdle freezes a sandbox whose command is still running, for the same
  reason as the first; `manager.go:377` says "no activity".
* "They auto-resume on the next exec" (`manager.go:378`): a pause between Exec's
  Resolve and docker exec turns the command away with docker's error.
  `ResumesFirst` shows that nothing else does.
* "Todo comando que rodou fica registrado" (`README.md:82`): not if the process
  dies before `record`, the file cannot be opened, the write fails
  (`manager.go:365`, its error is ignored) or is cut short, which spoils the next line
  too, or docker exec exits with 0 in the instant its deadline fires. `AuditHolds`
  shows that there is no other way in the model, whose faults these are.
* The teardown of a creation whose context was cancelled runs under that
  context, so its calls never start (`oci.go:84`, `oci.go:223`); the sweep gets
  the leftovers (`OrphansSwept`), if a server with PEAPOD_REAP_TTL runs.
* A creation slower than two minutes from its network on may lose its firewall
  to the sweep (`oci.go:174`); `FirewallSafe` says when it does not.
* A failed listing overwrites the flash that "the periodic refresh never
  overwrites" (`Peapod.swift:127`, `:167`).
* A container docker run made and could not start is "already up" to the next
  up (`main.go:680`); Create removes the firewall of such a container but not
  the container (`oci.go:87-89`).
* Two preview up commands at once make two sandboxes for one branch
  (`main.go:326-330`), against "um sandbox por branch" (`README.md:178`).
* An end of a tunnel that closes only its writing half loses the rest of the
  answer: the copy that sees the end of its stream closes the connection it
  wrote to in both directions (`proxy.go:177`). `WholeStream` is about ends that
  have not ended their sending.
* What a client sends right after its CONNECT, without waiting for the answer,
  is in the buffer that Hijack returns and is dropped (`proxy.go:171`).
* A plain-HTTP body of unannounced length whose copy fails half way ends like a
  whole one (`proxy.go:148`); `WholeStream` covers it only if the server lives or
  the length was announced.

## Not modelled

* Checkpoint and Restore: no caller in the repository.
* DiffSnapshots: it lists two images and compares the lists, and changes nothing; what
  is wrong with it is said above.
* The connections that the proxy's transport keeps for reuse, and its retry on
  one that went stale: a request of `Proxy` has a new connection. Bodies of plain
  requests, IPv6 addresses, and a proxy request whose target is not absolute (it
  has no host to dial and is answered 502). `Firewall` knows only whether the
  proxy was started.
* DetailView's overlapping loads: each replaces a piece of text; nothing else
  depends on it.
* The apple-container driver is experimental and has the OCI driver's calls
  without pause, snapshot and firewall; the mock driver is a test double, whose
  every call is one locked step.
* The backend selector and the dashboard's handlers have no state; the
  dashboard's requests are clients like any other.
* Flag parsing, printing, markdown, icons, build scripts: no state.

## Plan

Done, in this order: `SandboxLifecycle`, `Manager`, `Firewall`, `App`,
`RunPeapod`, `Groups`, `Proxy`, `Snapshots`, `ExecTimeout`, each with its instance
and its proofs; then the two liveness proofs, and how runs of the CLI, tunnels and
sweeps end. What would add most next:

1. `Proxy`: the connections the transport keeps, with two requests that share one.
2. A `Driver` contract that the container calls of `Manager`, the
   apple-container driver and the mock driver implement.
3. `DetailView`: overlapping loads and samples of one sandbox.
