# localswim in TLA+

localswim is a ticket board that lives in one JSON file. A board service owns
the file and offers it over HTTP to a browser page, a command line and monitors;
a workspace gateway starts and fronts the services of many boards; background
threads commit and push the files with git. This directory holds TLA+ modules of
its state machines, TLC configurations that check them on small instances, and
TLAPS proofs of what matters most for every size. Paths below are relative to
`src/src/localswim/`.

## Inventory

| Part | State | Operations | Talks to |
|---|---|---|---|
| **Board domain** (`board_state.py`, class `Board`) | cards with ticket, lane, priority, parent, archive flag; relationship rows; seven audit histories; the embedded permission table | create, link / replace / unlink, set priority (one or many), parent, archive, move, approve, comment, assign, edit texts, attach, cover, grant | called by the store under its lock; `verify()` replays every history |
| **Dependency order** (`board_state.py` 1604-1867) | none, derived | components of the blocks graph, inheritance of urgency, depth, triage score, lane order | read by the domain, the page and the reports |
| **Permission policy** (`TransitionPolicy`) | lanes, users, create and move grants, retired lanes; a reload observer of a standalone file | load, validate, may_create, may_move, reload | board, store, page |
| **Board file** (`locked`, `edit`, `save`) | `board.json`, its lock file, a temporary file | take the lock, steal a stale one, load, replace with retry, release | every writer process |
| **Offline maintenance** (`initialize_board` .. `migrate_lane`) | the same file | init, embed a policy, add / retire / rename / migrate a lane | needs the board's port to be free |
| **BoardStore** (`api_endpoint.py` 1222-1548) | accepted board, admitted bytes, policy observation, mutex | execute, upload, snapshot, reconcile, status | HTTP handler above, board file below, activity feed beside |
| **HTTP service** (`Handler`, `BoardHttpServer`) | sockets still being read, drain deadline, `_command_gate` | GET, POST, drain | clients, store |
| **Service lifecycle** (`request_service_shutdown`, `_handoff_board`, `request_code_restart`) | shutdown flag, restart flag, reserved launch gate | shutdown, restart when the code changes, hand over to a replacement | ownership, autopush, HTTP service |
| **Writer ownership** (`service_ownership.py`) | writer lease (an OS lock), launch gate, launch ticket, service descriptor | claim, release, launch, consume a ticket, probe | board services, gateway |
| **Autopush** (`api_endpoint.py` 750-1091) | push status, repository lock | commit a snapshot, push, retry with back-off, flush at shutdown | git, lifecycle |
| **Attachments** (`attachments.py`) | blob files beside the board | validate, write, audit | store, audits |
| **Activity feed** (`activity_feed.py`) | records since a baseline, stamp of the file | observe, append, publish, query | store, monitors |
| **Workspace gateway** (`workspace.py`) | children it launched, endpoints, catalog cache, preferences | discover, launch, await, proxy, close | ownership, services, publisher |
| **Gateway preferences** (`workspace_config.py`) | one JSON document with a revision | read, apply under a lock | gateway, publisher |
| **Gateway publisher** (`gateway_publish.py`) | last published stamp, status | poll, flush, stop | git |
| **Monitor and monitor pool** (`monitor.py`, `monitor_pool.py`) | subscriptions, dirty boards, entries, cursors | poll, observe, cycle, drain, stop | activity feed |
| **Write protocol** (`write_protocol.py`) | tokens of the coming schema | parse, require | not used by the service yet |
| **Command line** (`cli.py`, the second half of `board_state.py`) | none | choose offline or remote, report | service, board file |
| **Pages** (JavaScript in `api_endpoint.py`, `workspace.js`) | rendered snapshot, pending edits | poll, post, retry | service, gateway |

The hard behaviours: two processes rewriting the whole file; commands repeated
after uncertain answers; hand edits and restored files under a running service;
failures between two file-system calls; a lock whose holder died; a service
being replaced while another starts; a shutdown during a push; urgency that must
stay propagated under every order of commands; and audits that must keep
accepting what the commands write.

## Modules

| Module | Models | Role |
|---|---|---|
| `DependencyOrder` | `priority_ranks` .. `blocking_order`, `parent_cycle` | operators: downstream sets, inheritance of urgency |
| `BoardOrder` | `blocking_order`, `_ordered_lane_items`, `total_order_problems` | the search, its components and the queue of a lane as the code computes them, on every board of `Board`; only TLC uses it (it is recursive) |
| `Board` | class `Board`, `add_lane`, `retire_lane`, `migrate_lane_id` | one action per command, with what it does to the audit histories |
| `AtomicBoard` | - | abstract promise: compare-and-set with honest verdicts |
| `BoardStore` | `BoardStore`, `edit`, `save`, `_replace_with_retry` | one step per call that can fail; implements `AtomicBoard` |
| `BoardFileLock` | `locked`, `edit` | one step per file-system call of competing processes |
| `WriterOwnership` | `service_ownership.py` and its users: `_serve_board`, `_handoff_board`, `Workspace._endpoint`, `_maintenance_locked` | processes that start, replace and wait for services |
| `ServiceShutdown` | `Handler`, `BoardHttpServer`, `request_service_shutdown`, `request_code_restart`, `_push_loop` | the threads of one service, from its first request to the end of its writer claim |
| `PageCommands` | `apiPost`, `acknowledgeSnapshot`, `tick` (JavaScript of the page) | the page's command client over an unreliable network, against what `AtomicBoard` promises |
| `ActivityFeed` | `activity_feed.py` and its calls in `execute` | what the service records of its own writes, and what it tells monitors |
| `Monitor` | `monitor.py`, `monitor_pool.py`, `monitor_activity_client.py` | one member of a pool, its status file and its successors, against what `ActivityFeed` promises |
| `GatewaySettings` | the settings queue of `workspace.js`, `workspace_config.py`, `gateway_publish.py` | windows, the locked file, the publishing thread |
| `BoardProofs`, `BoardStoreProofs`, `WriterOwnershipProofs`, `ServiceShutdownProofs`, `MonitorProofs`, `GatewaySettingsProofs`, `PageCommandsProofs` | - | theorems about the module each is named for |
| `BoardFileProofs` | - | theorems about `BoardFileLock` and `ActivityFeed` |
| `MCBoard`, `MCBoardStore`, `MCPageCommands`, `MCGatewaySettings` | - | values of the constants |

### Board and DependencyOrder

A state of `Board` is the board on disk between two accepted commands: a command
that raises inside `BoardStore.execute` leaves no trace, so only accepted ones
are steps, and their guards are the conditions under which the code does not
raise. The histories are kept as `trail`, the values that replaying them yields,
together with the flag `broken` that is set when an entry does not leave where
its predecessor arrived. That is exactly how `verify()`, `replayed_state`,
`_parent_history_problems` and `_archive_history_problems` read them. Entries are
appended by the commands (`LaneEntry`, `ParentEntry`, `ArchiveEntry`, ...); the
audits are `LanesReplay`, `ParentsReplay` and `ArchivesReplay`. `HistoriesVerify`
asks in addition that priorities and relationships follow from their histories,
which `verify()` does not look at.

Left out: texts, owners, attachments and times, because no property is about
them. `blocking_order` collapses cycles into components and folds them in
topological order; `DependencyOrder` states what that computes (the most urgent
priority downstream of a card). Which of several priority ids of one rank is
inherited is a CHOOSE; the code orders them by length and text, and no property
depends on it.

A person may keep the id of a removed lane or an unknown card in a request; the
model's guards refuse these like the code, and the sets `KindRef`, `ParentRef`,
... only say which requests the callers of a run make.

Offline, `AddLane`, `RetireLane` and `MigrateLaneId` change the policy that later
commands are judged by and that `verify()` judges the histories by; the last one
renames a lane in the policy, the cards and every history entry at once
(`RewrittenTrail`). Commands and maintenance exclude each other
(`WriterOwnership`), so they are alternatives of one `Next`. `BatchRef` bounds
the cards of one bulk change; the other `...Ref` sets likewise. `AddLane`'s
`connected` operators are empty in the run (one grant lets the bot in instead)
and arbitrary in the proofs.

### BoardOrder

`Board` says what urgency is; `BoardOrder` is how the code computes it: a
depth-first search over sets, whose iteration order differs from process to
process, so `Groupings` is the set of all results it may have. `Counts`, `Depths`
and `InheritedRanks` fold over the components, `Emitted` is the queue that
`_ordered_lane_items` takes cards from, and `LaneOrder` what a lane shows.
`OrderAsDefined` compares them with `DependencyOrder` and `LanesAreInOrder`
with the rule `total_order_problems` audits, which says nothing of loops; there
the property says what the code makes of them.

### BoardStore

`op` is the one operation that holds the store's mutex. `BeginCommand`, `Load`,
`RunCommand`, `Verify`, `Save`, `Replace`, `Unlock`, `Publish` and `Failed` are
`execute` and `upload` (`WriteBlob`); `ReadFile`, `Reconcile`, `Repair` are
`_admit`, begun by a client's snapshot (`BeginRead`), the constructor (`Start`)
or the status route (`Status`). A client is the page, whose edits are `bound` to
a card version, or the command line, which reads the revision, posts once and
reports an unknown outcome when it gives up (`_service_json`). Every call may
raise: a `BoardError` becomes the verdict "refused" (HTTP 409 or 412), an `OSError` becomes "unknown" (503). A replacement that
raises may have happened, which is why `SaveOutcome` exists. A document is its
revision, each card's accepted edits in order, its attachments, whether it passes
the audits (`sound`) and whether a blocker is below its floor (`low`). The world
may edit the file by hand keeping the revision (`HandEdit`), bring back any
earlier file (`Restore`) and kill the process (`Crash`).

The file lock appears here only as "taking it may be refused": exclusion between
processes is the subject of `BoardFileLock`.

### BoardFileLock

Each process performs one edit: create the lock file exclusively, write its pid,
load, save, unlink; or read the age of the lock that is in its way, steal it if
stale, or wait. `old` abstracts the age to the one comparison the code makes.
The code has no identity check before it unlinks, neither when stealing nor when
releasing, and neither has the model.

### WriterOwnership

Processes are board services, gateways and offline maintenance; `pc` is the call
each is about to make. The lease (`.writer.lock`) and the launch gate
(`.workspace.lock`) are operating-system locks, so `Crash` frees what the dead
process held; the ticket and the descriptor are files and stay. A ticket's token
is known to one child only, so the model lets the ticket be that child.

`Run`, `EnterGate`, `Check`, `Claim` are a start by hand (`_serve_board`);
`ReadTicket`, `ProbeGate`, `Consume`, `Claim` are a delegated one
(`_validate_launch`, `consume_launch`). `Load` .. `Exit` are the life of a
service. `Reserve` and `Restart` take the gate and stop the service to replace
it; `Issue`, `Unlease`, `Spawn`, `WatchReplacement` and `Reap` are
`_handoff_board`. `Want`, `Look`, `Probe`, `Launch`, `WatchChild` and
`LeaveGate` are `Workspace._endpoint`; a service of an older build (`Legacy`)
answers but does not offer the browser session a gateway asks for, which is what
makes it wait without the gate. `Maintain`, `ClaimOffline`, `Edit` are
`_maintenance_locked`.

`writer_busy` finds out whether the lease is taken by taking it, so a gateway
holds it for a moment between `Probe` and `Unprobe`. `_validate_launch` does the
same to the gate; there the model only looks, since whoever holds the gate keeps
it and a gate found free refuses the child. Left out: services that predate the
lease, and `Workspace.close`, which nothing in production calls: a gateway that
ends leaves its writers alive, and here it is `Crash` or idle for good.

### ServiceShutdown

One service: connections of one request each (`Conn`), the autopush thread
(`Loop`), the restart thread and the main thread that drains. `Connect`,
`Receive`, `Lose` are the transport; `EnterGate` is the part of `do_POST` that
holds `_command_gate` and looks at the deadline and at the shutdown flag, in that
order; `RunCommand` and `RunGet` are the store operation, atomic here because
`BoardStore` takes it apart. `Ask` sets the flag under the gate; `Lock`, `Commit`
and `Push` flush without it; `Schedule` and `Cancel` are the two ends of
`request_service_shutdown`. `Notice` and `Due` are `_push_loop`, `Drain`,
`Expire`, `Join` and `Leave` are `begin_drain`, `_expire_incomplete`,
`server_close` and the end of `_run_board_server`.

A version of the board is the number of writes so far. A hand edit that leaves a
defect is met by a read, which repairs it (`RunGet`); the edit and its repair are
one write. A commit is atomic, and the repository lock that several boards share
is one of the reasons why it may fail.

### PageCommands

A submission (`Act`) is one call of `apiPost`: an edit of a field, which its
author opened on some version of the card (`Open`, `Save`), or a comment or a new
card (`Submit`). `local` is the set of `localActions`, whose order `earlier` keeps; `unsure` are those
of phase "unknown", `hidden` those whose `project` is off. `Predecessors` is
the last of them on the card of a new one, whose version the new one inherits. The promise chain of a board
makes submissions run one after the other (`Start`); `Succeeds`, `Refused` and
`GivesUp` are the three outcomes of a `fetch`. A readback is read (`ReadBack`, kept in
`back`) and heard of in two steps, so that a poll may bring a newer board in between;
`Reread`, `Finish` and `RereadFails` are its outcomes, `Judge` and `Verify` what the
code concludes from it. At most
one repetition is sent. Requests stay on the `wire` after the page gave up on
them and may still be executed; `Acknowledge` is what every accepted snapshot
does to the submissions, whether a readback or a poll brings it. `Reload` loads
the document anew and restores what `sessionStorage` holds, which may lack the
latest confirmation.

`apiPost` returns to its caller only after the readback that follows a confirmation
(`Finish`), so a reload in between leaves the author of a comment or an edit untold
("lost"); the form of an addition is closed before it (`Confirm`). The author keeps
submitting a card or a comment until told that it is saved, as `submitMake` and
`postComment` do by keeping their drafts; with a new id, although the form keeps the id
of an attempt that is in doubt. An author who was left untold looks at the board, as the
page asks, and finds there what was confirmed: that is what `ConfirmedStaysVisible`
says, and the premise of `Submit`. The service compares both versions and applies
atomically. Left out: a second card, archived cards, the switching of boards, and a
board file brought back to an older revision. A reload keeps the card version a
submission was last sent with. `Lose` is also the workspace gateway between the
two: its `_proxy` answers 502 or 503, which tells the page as little as silence.

### ActivityFeed

`wrote` is the history of who replaced the file and when, which the code does not
have; everything else is the feed: `records` since a `base`, the stamp of the file
as the service last wrote it, and what was evicted. `Begin` .. `Publish` are a
command's steps around the feed, between which hands may replace the file;
`ReadRepair` is an admission that repairs it; a publication may fail after the
file was replaced. A stamp names a version, because device, inode, size and times
change when a file is replaced. `CoverageIsHonest` asks every query there is, by
moment and by cursor, in every state.

Three things it does not claim. A version that was replaced before a command of
the service looked at the file (`lost`) is nobody's evidence, as the
documentation says of transient hand edits. The wall clock does not step back.
And a restart takes longer than a tick of the clock, or the time a service
started would not tell its predecessor's writes from its own.

### Monitor

One member of the pool: `Look`, `Observe` and `SaveThen` are an observation, the
interval it notes and the status it saves; `Query`, `Suppress` and `Alert` are
`flush_pending_alert`; `Control`, `Stopping`, `Drained` and `Leave` what it does
when a target file asks it to stop, reload or drain. What the file asks is read anew
at a reconciliation or after a notification (`Heard`), and may have been asked,
withdrawn or overwritten at any moment before (`Asked`): a stop that is taken back
lets the monitor go on, with the misses counted so far. `Claim` and `Resume` a
successor that goes on from the status file. Every call may fail (`Failing`), the
process may die anywhere (`Crash`), notifications may be late or missing (`Cycle`
reconciles in the end). The feed appears as `CoverageIsHonest` promises it: it may
decline at any time, but a complete answer names whoever wrote. This is the
assume-guarantee cut between the two modules; their product has more than eleven
million states.

`owed` is a history variable: the versions somebody has to be told of. What the
model also shows and no property forbids, since the code promises nothing of it:
a reload request whose pid is out of date is not refreshed and waits for its
timeout; a start overwrites a pending drain; a launcher that dies leaves its
reload request; a launcher that times out cancels, yet the monitor may have
read the request and leave.

### GatewaySettings

A window queues commands, sends the first, and repeats it after a conflict or an
unanswered request (`SendCommand`, `Reread`, `GiveUp`); requests it gave up on
stay in `net` and may be applied late. `Take`, `Work`, `LockTimesOut` and
`WorkFails` are `locked` and `_command`; `BeginFlush`, `LockStore`, `Commit`,
`Push` and `FlushFails` the publisher. `Die` restarts a gateway, whose credential
changes, so that windows reread before they repeat. `applied` is a history
variable: each change, whose it is and what it left in the file.

Abstracted: the forced flush of `stop()` and its limit of attempts; `autopush` is
taken as on. Documented behaviour the properties leave alone: a probe of the
repository that fails once says "off" until the next change; a window may report
as not saved what an abandoned request saves later; and a repetition after a lost
answer is applied again, over what another window did in between.

## Runs

| Run | Question | Bounds |
|---|---|---|
| `BoardPriorities` | does urgency stay propagated, is every promotion owed, and do search and lanes compute it? | 3 cards, priorities P0, P1, P01 (the last two of one rank), blocks links in both spellings, creation with one relationship, bulk changes of two cards, completion and reopening |
| `BoardHistory` | does every board the commands can save pass the audits and load again? | 2 cards, a human and a bot, 4 lane ids of which 1 is added, retired or given to another lane, a grant, symmetric and directed links, mentions, parents |
| `BoardStoreCommands` | does the store keep its promise to clients? | 2 clients, 2 requests in all, a failure at any call, 1 crash, a file that may start below its floors |
| `BoardStoreTampering` | and when the file changes under it; does every operation end? | 1 client, 1 request, 1 hand edit, any number of restored files and of status reads |
| `BoardFileLockSafe` | when does the lock exclude, and can it wedge? | 3 processes, 1 crash, 1 leaked lock file |
| `Ownership` | is there one writer, can clients find it, is a launch undisturbed, is the gate given back? | 3 services (1 of an older build), 1 gateway, 1 maintenance, 1 crash |
| `Shutdown` | what is left running, executed or unpushed at the end of a service; do shutdowns, drains and pushes end? | 2 requests, 1 repair by a read |
| `PageCommands` | is the page honest about outcomes it may not know? | 2 submissions, 2 values, 1 change by others, 1 reload |
| `PageOverwrite` | can an edit overwrite a change its author never saw? (yes) | the same, no reload |
| `ActivityFeed` | does a complete answer leave anybody out? | 2 actors, 4 versions, 3 ticks, 2 records, 1 restart |
| `Monitor` | is a change that matters ever forgotten, is it alerted in the end? | 3 versions, 2 ticks, 2 monitors one after the other, 2 misses end a monitor |
| `GatewaySettings` | are settings lost or undone, is "pushed" true, does every change settle? | 2 windows (1 with pins of its own), 2 boards, 2 changes, 1 trouble of any kind |

Three cards make every shape of cycle, diamond edge and chain that inheritance
distinguishes between a card, what it blocks and what that blocks; two ranks
suffice because inheritance only compares, and the proofs cover every number of
both. Two requests are a command and its repetition, or two competing commands;
three processes are a dead holder and two thieves. Two cards suffice for the
audits, which read one card or one pair at a time; only a chain of parents can be
longer, and the code walks it with the same `parent_cycle` whatever its length.
Three services are an old one, its replacement and an intruder. Two requests are
a command or a second shutdown during the first; the proofs cover every number of
them. Two submissions are a card or comment and the same once more, or an edit
and its predecessor; each is sent up to twice and may be executed late. Two
records of the feed are one that is evicted and one that stays, four versions two
commands with a hand edit on either side. Two monitors are one that dies or leaves
and its successor, with three versions one change before, between and after. Two
windows with one change each, or one window with two, meet every order of two
commands; one trouble is met at every step of them.

`OperationsEnd` assumes weak fairness of the operation under way: it is a
running thread. `EveryWriterFinishes` assumes it of every process that has not
died and of time. Neither assumes anything of the hand, the clients or crashes.
`GateIsReleased` assumes that a process that has begun goes on, and strong
fairness of `GiveUp`: a wait that polls meets its deadline, however often it
looks again in between. `ShutdownIsAnswered` and `DrainsEnd` assume that threads,
git (which is killed after a timeout) and the timer of the drain go on, and
strong fairness of `Lock` for a request, because the loop sleeps between two
pushes. Clients need not send what they began. `WritesArePushed` has one more
premise, inside the property: a commit or a push of the loop that is possible
again and again succeeds in the end. `AlertsComeOut` assumes that the pool's
worker goes on, and strong fairness of two timers: the reconciliation that comes
every thirty seconds, and the quiet window, which elapses once nothing new is
noted. It claims nothing of a monitor that ends or hears that it is asked to; its successor
is the business of `NothingIsForgotten`. `EveryChangeSettles` assumes that
windows and threads go on; what may go wrong is bounded.

The type invariant of `Board` is checked and proved; those of `BoardFileLock`,
`BoardStore`, `WriterOwnership`, `ServiceShutdown`, `ActivityFeed`, `Monitor` and
`PageCommands` are parts of the inductive invariants proved below, or follow from
them. `GatewaySettings` has one in its proofs, which leaves open what the pins are
(see there).

The `ASSUME`s are checked on every run, deadlock in the board and lock runs; the
services of the others may all have ended, so these switch it off.

## Proofs

Every theorem holds for any values of the constants that satisfy the module's
`ASSUME`. Each inductive invariant was checked by TLC on the states of a run
before it was proved. Below, "is inductive" stands for the three facts that it
holds initially, is kept by every step, and implies the property.

### BoardProofs

First the graph, for any cards, edges and ranking: inheritance meets every floor,
never demotes, and is a fixpoint exactly when the floors are met
(`InheritanceMeetsEveryFloor`, `FloorsAreAFixpoint`). A card's component is the
least closed set it is in (`DownstreamClosed`, `DownstreamLeast`); nearly all of
what follows about chains and cycles comes from that, without induction along a
path. That there is a most urgent priority to inherit (`MostUrgentExists`) follows from
ranks being natural numbers; nothing is assumed of how many priorities there are.

`BlockersKeepUp` is inductive only together with types and with "links join
existing cards" (`IInv`), since the priority of a card that does not exist yet is
free to change at its creation. Commands that enforce establish the floors afresh
(`FloorsByEnforcement`); the others only remove edges (`FloorsByInclusion`),
which cannot raise a floor. `RetiredLanesAreHidden` is inductive with the types.

`LoadsAgain` (`BoardsLoadAgain`) needs `LoadInv`: no fact is stored in two
spellings, and no edge from card to parent lies on a loop. The interesting lemma is
`OneLookIsEnough`: `set_parent` walks up from the changed card only, and that
suffices because a loop that was not there before uses the new edge, so the
changed card is on it.

`HistoriesVerify` (`HistoriesAlwaysVerify`) needs `HistoryInv`: what replaying the
histories yields *is* the board (`TrailReplays`), the policy of now grants every
creation and move ever made (`TrailIsGranted`: grants are only added, and
`MigrateLaneId` renames entries and policy alike), and a card has a lane from its
creation on (`LanesAreGiven`), without which `Move` could leave a lane no entry
arrived at. Each kind of entry has a lemma on what it does to a replay without a
break (`CreationReplay`, `ParentReplay`, `UnlinkReplay`, ...), each command one that
chains them in the order in which the command writes.

`PriorityChangesAreOwed` (`ChangesAreAlwaysOwed`) is an action property: a card
that inherits does so from a card below it that kept its rank
(`InheritanceIsOwed`: the most urgent card below is itself not promoted, or a
more urgent one would be below it and so below the first).

### BoardStoreProofs

`StoreInv` is inductive for any number of clients, requests, hand edits, restored
files and crashes. Besides the properties `OnlyAdmittedIsServed` and
`BlobsMatchDocuments` it says: whatever an operation holds was made of a document
that was the file, passed its audits and had the card as its client saw it
(`DocumentsDescend`); a request is in one place and has landed only if its
operation got so far (`RequestsAreUnique`); who owns a blob and until when it may
remove it (`BlobsAreOwned`); and documents name only what landed
(`DocumentsNameLanded`, of which `BoundEditsSitOnWhatWasSeen` is the part about
the file of now). From it follow `DefectsAreNotRewritten`, an action property, and
the others named there.

With `MaxEdits = 0` (nobody edits the file by hand and no old file comes back),
`RevisionsNameDocuments` joins: a revision names one document ever, so a
compare-and-set on it is one on the content. Then no client's edit lands twice
(`RepeatsLandOnce`), and every step of the store is a step of `AtomicBoard` or a
stutter (`StoreIsAtomic`): `Send` is its submission, `Replace` its commit (or
nothing, if the call fails before the rename), `Repair` its repair, `Publish` and
`Failed` its answer, `Crash` its crash, and everything else is invisible. The hypothesis is
no convenience: with hands on the file both are false, which is why the run that
checks them allows none and the other run checks what remains. It is the value
`BoardStoreCommands` gives the constant.

The assumptions say that there are finitely many clients, because the bound on
requests counts those that were sent, and that `None` is not one of the values it
stands beside.

### BoardFileProofs

The lock. For any number of processes, crashes and leaks, two processes are inside the lock
only after a race of two thieves (`ExclusiveUnlessRaced`), and until then no saved
edit is lost. The inductive invariant says that whoever holds the lock owns the
lock file, which is then not old, and that what it loaded is still on disk.

The feed. `CoverageIsHonest` (`CoverageStaysHonest`) for any number of actors, versions,
restarts, moments and any retention. `FeedInv` says that moments ascend with
versions (`TimesAscend`), that what the feed forgot is older than what it says it
forgot (`RetentionIsHonest`), that each record is of a replacement behind the one
before and names its author if it claims to be complete (`RecordsAreSound`), that
a replacement without a record is followed by one that does not claim to be complete
(`GapsAreMarked`), and that a command under way knows whether the file was as the
feed left it (`CommandsAreSound`). The last one carries the proof: the stamp names
the version of the newest record or nothing, so a gap is noticed by the next
command, whoever made it.

### WriterOwnershipProofs

For any number of processes and crashes a server that may write and maintenance
that edits hold the lease (`WritersAreOwners`): types and "who is at a step between
`Claim` and the end of the claim holds the lease" are inductive. On top of it, a
server that answers is the one the descriptor names (`AnsweringServersAreFound`):
only the holder of the lease publishes, and others remove a descriptor only if it
names them or their killed child.

Two properties speak of runs in which nobody has crashed so far, and so does their
invariant (`LaunchInv`): whoever is at a step inside the launch gate holds it
(`GateIsHeld`), a child starts only while its parent watches it (`KinAreKept`), the
parent leaves the lease to it from the end of its own claim on (`LeaseIsReserved`), and the
descriptor goes from the parent to the child or to nobody (`DescriptorFollows`).
They need each other: the gate keeps other parents away from the lease, the watch
keeps the child from outliving the gate. `LaunchesAreUndisturbed` and
`HandoffsLeaveNoCorpse` follow. After a crash these need not hold: the operating
system frees the gate of a parent whose child goes on.

### ServiceShutdownProofs

For any number of connections nothing runs afterwards, who was cut off did not run,
and the final push holds every accepted command (`FinalPushIsComplete`).
`SafetyInv` adds to the properties who holds the gate and the push lock
(`Holders`), that an admitted request is never cut off (`Admitted`), and that the
shutdown flag has one owner, while which no command runs and whose commit is
therefore the newest command (`Quiesced`).

### MonitorProofs

`NothingIsForgotten` (`NothingIsEverForgotten`) and `StatusIsRecoverable`
(`StatusStaysRecoverable`) for any number of versions, writers, successors and
tolerated misses. `MonitorInv` bounds what a memory does not know: everything
written behind its signature, or behind the low end of its pending interval, is no
older than the moment it asks the feed for (`MemoriesAreSound`, and the same of an
observation under way, `LooksAreSound`). Hence an answer that is complete names
everybody the monitor may be about to forget (`AnswersAreSound`), and only changes
of the automation are suppressed. `FlowIsSound` says at which steps there is an
interval at all.

### GatewaySettingsProofs

`NoSettingIsLost` (`SettingsStay`), `WindowOrderKept` (`OrderIsKept`) and
`OkMeansPushed` (`OkIsPushed`) for any number of windows, boards, changes, conflicts,
losses and restarts. The file is the effect of every change ever applied, one after
the other: whoever holds the lock works on the file as it is (`LockIsSound`), so each
change starts from what its predecessor left, and nothing else writes. For the order,
`SettingsInv` says of every request on the way that if a later change of its window
has been applied, it names a revision the file has left behind
(`RequestsAreOvertaken`), so the comparison of revisions refuses it. For the publisher
it says that a push follows a commit at least as new as what the flush set out with.

The invariant leaves open what the pins are: `Remove` is a recursive selection, and
that it yields boards again would need induction over the sequence. No property
proved here depends on it; `NoSettingIsLost` compares what a change left with the same
selection of what was there before.

### PageCommandsProofs

`VerdictsAreHonest` (`AuthorsAreToldTheTruth`), `WantedOnce` (`NothingIsMadeTwice`) and
`ConfirmedStaysVisible` (`ConfirmationsStay`) for any number of submissions, values,
changes by others and reloads, with requests and answers lost, late or overtaken. No
submission is executed twice (`SubmissionsLandOnce`), a repetition included.

`PageInv` is inductive. Its parts say: what the page has heard of is a board of the
past (`NothingIsAhead`), and so is what a readback brings, which is
there for as long as it is judged (`ReadBackIsPast`); what was executed shows on the board, an addition by its
name and anything else by the version of the card (`LandingsShow`); a request on the
wire whose submission was executed already names a revision the board has left behind
(`RequestsAreBound`), so the service's comparison refuses it; there is one answer and
one submission that waits for it (`AnswersAreAwaited`); and what each step of
`apiPost` may rely on (`StepsAreSound`). In the last part, `Undoubted` is what makes
"refused" true: until an answer has been missed, only the request waited for exists,
so its refusal speaks of all there were. Once one was missed, the page may say only
"ok", after a board that shows the command, or "unknown". `OneIsWanted` is what makes
`WantedOnce` follow: an author who submits a card or comment again was told that the
earlier one was refused, which was true.

`EditsOverwriteOwnChangesOnly` is not among them: it is false, and the finding below.

### What the proofs assume

The `ASSUME`s of the modules, each evaluated by TLC on every run, and the hypothesis
`MaxEdits = 0` of the two theorems of `BoardStoreProofs` that state it. Beyond finite sets and
natural bounds the `ASSUME`s say that values that stand for "none", "hand" and the
like are none of the values they stand beside, and that the policy fits the users.
Of ranks they say only that they are natural numbers.

## Where the code and its words differ

- `PageOverwrite`: an edit whose card has an earlier submission in flight inherits
  the card version that one leaves (`Current`), even when the edit was opened
  before a change by others that the earlier submission was based on.

Four more are known from the models and are stated where the properties leave
room for them. A waiter unlinks by name the lock it once judged stale, so two
waiters behind a dead holder can both enter; `ExclusiveUnlessRaced` is what
remains true, and proved. A second shutdown is answered as scheduled while the
first still flushes, and a failed flush cancels both. The flush asks for
`--autopush` only, not whether the board can be pushed, so a board without a
remote cannot be shut down through `/shutdown`, and its status turns from "off"
to "failed".

`_validate_launch` only finds out that somebody holds the launch gate, not that
the launcher does, so an orphaned child may consume its ticket under a stranger's
gate; the lease still keeps it from writing beside another
(`WritersHoldTheLease`). A comment whose outcome stays unknown is never settled
by a snapshot, so the page refuses the same text until its tab is closed.

A page that reloads itself between the confirmation of a comment and the end of its
readback restores the draft of a comment that is on the board already, because
`postComment` deletes the draft only after `apiPost` has returned; the comment above
that line (`api_endpoint.py:3915`) says what this invites. Where the confirmation was
stored, the snapshot settles the action and with it the check for duplicates. Hence
the premise of `Submit`.

A read may also repair the file after the final push (`RunGet` is outside the
gate); that repair waits for the next service's loop. Every service starts with an
unpushed file (`dirty` in `Init`), so `WritesArePushed` speaks of it too.

## Only model-checked, and not modelled

Checked by TLC only, and why:

- Liveness (`OperationsEnd`, `EveryWriterFinishes`, `GateIsReleased`,
  `ShutdownIsAnswered`, `DrainsEnd`, `WritesArePushed`, `AlertsComeOut`,
  `EveryChangeSettles`): fairness and ENABLED are beyond the prover.
- `OrderAsDefined` and `LanesAreInOrder`: `BoardOrder` is recursive, as the search
  is, and what it computes for every board would need induction over data.
- The violated property of `PageOverwrite`.

Not modelled, and why:

- Parsing, validation and formatting: of policies, boards, requests, arguments and
  reports. They keep no state; a request that does not parse is one no action
  takes.
- `embed_policy` and `migrate_lane`: they read boards of earlier schemas, which no
  command of this build accepts, once.
- `write_protocol.py`: tokens of a coming schema that no service uses.
- Texts, owners, covers and the audit of attachment files of a card: independent
  fields, each written by one command.
- Discovery and the catalog of a gateway: read-only scans of directories;
  `Workspace.close`, which production never calls.
- The exchange of target files between launchers of a monitor pool beyond the
  notes above.
- Rendering, dialogs and the switching of boards in the pages.
- `service_output.py`: redirects standard streams.

## Plan

Done: dependency order and the algorithms that compute it, board and its offline
maintenance, store, file lock, ownership, shutdown with drain and autopush, the
page's commands, the activity feed, the monitor, the gateway's settings and
their publication. Every safety property that a passing run checks is proved,
except the two of `BoardOrder`. Next:

1. `ServiceShutdown`: the second shutdown that is answered while the first may still
   be cancelled, stated as what a client may conclude from its answer.
2. `GatewaySettings`: the type of the pins, if the selection is written as a
   function on positions.
