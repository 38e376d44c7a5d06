# Kanna in TLA+

TLA+ models of the parts of Kanna in which several processes, machines or
callbacks share state: who may start a task, how machines copy task records,
how a task moves to another machine, how the keeper holds the terminals'
processes, and how a pipeline's run goes from stage to stage. TLC checks the
models on small instances, and TLAPS proves the permission protocol for every
number of machines.

Run a model with `tlc -workers 2 -config Shelf.cfg MCShelf` and check
the proofs with `tlapm GrantsProofs.tla`.

## 1. The system

Kanna runs coding agents in terminals. On one machine a **daemon**
(`crates/kanna-daemon`) serves commands of the `kanna` command line, the apps
and the agents themselves. It runs one event loop: a handler runs to its end
before the next one starts, and whatever takes long (git, a terminal that
opens, a request to another machine) goes to a thread or another process and
comes back as an event. What must survive a restart is in SQLite
(`kanna.db`), and a change of it is one transaction.

The terminals' processes are children of a second process, the **keeper**
(`crates/kanna-keeper`), so that they survive the daemon. It hands the daemon
the ptys' file descriptors and can replace its own binary by `exec`.

Daemons of several **machines** that trust each other (`crates/kanna-net`) share the Shelf
of a project: tasks waiting for a runner. They exchange records of the tasks,
grant each other the permission to start one, and move started ones.

| Part | State it keeps | Operations | Talks to | Model |
| --- | --- | --- | --- | --- |
| Authority (`replica.rs`) | a row per task: epoch, permit, recipient | hold, start, grant, hand, reclaim, take, receive, acked, yielded | the Shelf, transfers | `Permits`, `Grants` |
| Records (`replica.rs`, sync in `tasks.rs`) | op log, hybrid clock, version vector, latest fields | write, push, sync, answer, take ops, load | other daemons | `ReplicaSync` |
| Shelf (`tasks.rs`, `machines.rs`) | task rows; in memory entries, pending starts, asks | ask, grant, refuse, resend, adopt, start, launch, take over, give up, edit, done, restart | agents, other daemons | `Shelf` |
| Moving a task (`tasks/moving.rs`, `transfer.rs`) | transfer rows on both ends, packed files, worktrees | move, pack, send, resend, take, unbundle, start, answer, call off, return | the other daemon, threads | `Transfer` |
| Keeper (`server.rs`, `upgrade.rs`, `sig.rs`) | ptys, pending spawns, closed processes, connections, the signal pipe | spawn, close, ack, adopt, hello, stop, upgrade, reap, time out, idle exit | children, the daemon | `Keeper` |
| Pipeline runs (`runs.rs`, `kanna-pipe`) | a run's row, rows of its visits; in memory visits and callbacks | start, step, report, conclude, pause, resume, stop, close | terminals, agents | `Runs` |
| Schedules, messages (`schedule.rs`, `messages.rs`) | schedules, firings, mailboxes | fire, skip, deliver, retry | agents | plan, §9 |
| Terminals, app link, pane tree (`terminals.rs`, `app_link.rs`, `kanna-mux`) | terminals' serials, outboxes, the tree of panes | open, drain, fall behind, catch up, forward, split, close | keeper, apps | plan, §9 |
| Trusted machines (`kanna-net/src/log.rs`) | a log of who trusts whom | add, remove, merge, sync | other daemons | plan, §9 |
| Guests (`kanna-guest`) | jobs and their phases | run, cancel, attach, recover | daemon, virtual machines | plan, §9 |

`PROJECT.json` lists every part, the ones left out with the reason, and the hazards: the
places where an order of events that nobody wrote a test for could go wrong.

What makes these parts hard:

- messages between daemons are lost, repeated and reordered, and a sender can't
  tell a lost request from a lost answer (grants, syncs, transfers);
- a daemon stops between any two handlers, or between two transactions of one (transfers,
  pipeline runs), and what was only in memory (a start under way, an ask, an unbundle) is gone;
- a check is made in one handler and used in the callback of another (a task
  that may move, a start that ends, indices kept from a poll);
- machines' clocks differ, and a machine thought away may only be slow.

## 2. Modules

| Module | Models | Extends |
| --- | --- | --- |
| `Permits` | one machine's authority row for a task, one operator per function of `replica.rs` that writes it | |
| `Grants` | the permission protocol between machines: the abstract specification of the Shelf | `Permits` |
| `GrantsProofs` | theorems about `Grants` | `Grants` |
| `Shelf` | one task on the replicated Shelf, handler by handler; implements `Grants` | `Permits` |
| `Transfer` | a started task that moves and moves back | `Permits` |
| `ReplicaSync` | the op log under the records | |
| `Keeper` | the keeper's loop, its children and clients | |
| `Runs` | one run of a pipeline: its visits, workers, callbacks and rows | |
| `MC…` | instances for TLC | the module named |

`PROJECT.json` maps every definition to its lines of the source.

**Permits.** `Authority` is a row `[epoch, permit, to]`. An operator gives the
row a function writes; its guard is stated by the caller, as in the source. A grant
or a hand-over raises the epoch (`GiveTo`), a receiver takes an epoch only if
it is newer than its own (`Receive`), an acknowledgement counts only for the
epoch it names (`Acked`).

**Grants.** Machines' rows and two sets of messages, grants and acks. A message stays in its
set when it is delivered, so it can be delivered again; `Lose` removes one.
Takeovers (`TakeOver`, `GiveUp`) give up on a single holder on purpose: the
history variable `apart` remembers the first one, and what holds only before it says so.

**Shelf.** Adds to the rows the task's row in `kanna.db` (`row`), the record
with its stamps (`rec`, `clock`), and what is only in memory: where the task is
shown (`open`), a pick that waits for room (`picking`), starts under way
(`starting`) and an ask (`asking`). Starting a task is three steps in the code
and here: `Prepare` (the permit becomes `running`, `run.DEVICE` is written), then
the worktree and the terminal are made elsewhere, then `Launched`, `StartFails`
or `StartConflicts`. A runner and `start` prepare a task in the handler that
finds it waiting (`StartHere`). `pick` finds it waiting (`Pick`), asks the app for its tasks, and
`room` prepares it in a later handler (`Picked`) that looks only at the permission:
the task may have been granted away, ended or started meanwhile. `TakeOps` is the whole of
`take_ops`: the records are joined, and copies that ran elsewhere are given up
in the same handler. `Restart` forgets the memory and rebuilds it from the rows. The refinement is
`Permission == INSTANCE Grants` with its rows and messages as they are here;
`ImplementsGrants` says every step of a handler is a step of `Grants` or none.

**Transfer.** A worktree is the number of the last piece of work in it, so
that losing work, or having it twice, shows. `moves` holds both ends' rows.
The sender: `MoveTask`, `HeadsCame`, `Pack`, `Packed` (permission handed over
in the transaction that saves the row), `Sent`, `SendAgain`, `Replied` with
`MovedAway` or `CallOff`. The receiver: `TakeTransfer`, `Unbundle` (a thread),
`Unbundled`, `CarryOn`, `Launched`, `Reply`. An unbundle may fail and yet leave
its worktree, or find an earlier one and fast-forward it. `Break` ends a connection, `Restart` either daemon;
`breaks` counts the connections that ended while their sender waited and its peer went on.
A handler that writes in several transactions has a second action named `…Cut`: its
daemon stops between two of them and starts again, with the rows written so far (`Reopen`).
`MovedAwayCut` and `CallOffCut` stop a sender; `TakeAgainCut`, `UnbundledCut` and
`LaunchedCut` a receiver. `torn` remembers a sender stopped before its call-off took the permission back.

**ReplicaSync.** `log` and `hlc` are on disk, `clock`, `seen` and `rec` in
memory. `Sync` sends a vector, `AnswerSync` answers with at most `MaxOps` ops
per message, `Synced` takes them and pushes what the other lacks. The wall clock is any
number: `Tick` goes past the clock, whatever it says.

**Keeper.** The loop's sections are its program counter (`pc`), in the order of the
source, working from what the poll returned (`ready`); children, clients and
signals act between any two sections. Handlers are operators from a keeper
record to a keeper record. An upgrade keeps exactly the fields that `State` has.

**Runs.** A run's memory and rows are one record, and a handler is an operator
from a record to the next: `Begin`, `Conclude`, `Stop`, `Park`, `Quit`,
`TimedOut`, `Interrupted`. Callbacks that are awaited are `calls`: a terminal
that opens answers in two steps (`OpenPane`, then `Opened`), an agent that quits
answers once it has exited (`QuitDone`). `Does` adds to a handler the restart inside it:
the visit's row is saved and the run's isn't, or, in `conclude`, the run is saved between two
stages and not yet ended. `Reloads` is `Runs::open`; any terminal may be lost with a keeper.

## 3. Runs that pass

| Run | Shows |
| --- | --- |
| `Grants` | lossy, repeated, reordered messages: until a takeover one holder and never none, acks only after taking; no old epoch held again; a grant arrives |
| `Shelf` | only holders have the task; until a takeover it is always somewhere; a started task stays started; `Shelf` implements `Grants` |
| `Transfer` | no work is lost, with stops inside handlers too; unless a connection broke, one copy goes on; unless a call-off was cut as well, only with the permission |
| `KeeperUpgrade` | each child waited for once and each request answered at most once, across upgrades |
| `KeeperClients` | every client hears of exits; the idle exit abandons nothing |
| `KeeperStop` | a stop is final and ends the keeper, with every child waited for once and every request answered |
| `Sync` | a machine has an unbroken run of another's writes, shows the latest write it has, and its own new write; machines that stop writing end with the same log and records |
| `Runs` | verdicts stay, reports count, the budget holds, workers don't overlap, a running run settles |

Each of their properties has a mutant: a plausible bug in a mapped definition
(named `Definition_What`, placed before it) under which TLC finds it violated.

## 4. Runs that find a disagreement

These check what a document says of the program against what the code does.

| Run | What happens |
| --- | --- |
| `ShelfDoneWhileStarting` | Done ends a task whose start is under way; the start's callback stores it again. |
| `TransferTwoCopies` | A stream ends while the receiver unbundles; the transfer is sent again, two unbundles run, and one's failure overwrites the other's row. Both machines keep the task. |
| `KeeperStopPanics` | A stop empties `pending` in a round in which an exec was heard; the loop indexes it and the keeper dies. |
| `RunsRestart` | A restart while a resumed visit's terminal opens leaves a running run on a paused visit; no tick and no resume carries it on. |

`PROJECT.json` quotes the lines under `findings`. The modules state a few more
properties that the code doesn't keep; a configuration that checks one gives the trace:

- `Shelf!TaskKept`, with `Shelf.cfg`'s constants: after a takeover both machines' starts fail, but each has
  written `run.DEVICE`; each takes the other's for a run and gives its copy up. Nobody has the task.
- `Shelf!OwnerSettles`, with three machines and maker 3: the owner field is written by
  machines with different clocks, and a past owner's write wins for good.
- `Transfer!AtMostOneHolder`, with one move: the handed permission is resent as a
  plain grant, taken, and reclaimed by the sender after a refusal.
- `Transfer!CarriesHolds`, with one move and no break: the sender stops between the transaction
  that marks a refused move failed and the one that takes the permission back (`call_off`). It goes on with the
  task but has given the permission away for good, where `docs/specs/task-transfer.md` says of a
  refusal that the sender takes its permission back. `CarriesHoldsUntorn` leaves this stop out.
- `Transfer!MovingIsStill`, with one move: a task is started again between the check that it may move and
  the save of its move.
- `Keeper!StopIsFinal`, with `"upgrade"` among `Ops`: an upgrade drops `stopping`; the new keeper spawns.
- `Runs!Settles` without `closes`: a worker's terminal that is closed while its agent quits
  reports no exit to `Tasks::quitting`, so the run waits for a callback that never comes.

## 5. Bounds

- Epochs: `MaxEpoch` 3 in `Grants` is a task given away, back and away again; old grants meet
  new rows at epoch 2 already, `MaxEpoch` in `Shelf`. Two machines; the theorems of §7 are for any number.
- `MaxClock` 4: a record made, ended, written again elsewhere and adopted; every order of two machines' writes.
- `MaxMessages` 2 in `Shelf`: a message is sent only while fewer are on their way. Late, lost, repeated
  and crossing messages all happen with two. Of them one is a sync (`MaxSyncs` 1), one pick waits on a
  machine, and only machine 1's user picks (`Pickers`). With `MaxSyncs` 2 and both as `Pickers`, all five properties
  hold as well: 7.6 million states, 18 minutes.
- `MaxMoves` 2 (preparations included), `MaxSends` 3 in all, `MaxBreaks` 1, `MaxWork` 2: a move, its return, a resend,
  a broken connection, and work done after the move.
- `MaxPid` 2, `MaxLine` 3, `MaxConn` 1 or 2: a second child while the first is
  closing, a request before and after a stop or an upgrade, a client that left.
- `MaxTime` 2, `MaxOps` 1, `MaxPushes` 1 in `ReplicaSync`: batches of a single op, so that
  every answer is cut, and a clock ahead and one behind. Two machines: a write passed on by a third isn't reached.
- `Runs`: build (agent), check (command), review (agent with a verdict); a failed check goes back to build
  if it fails differently. `Budget` 2 is used up by one loop. One resume, one closed terminal
  and one restart, each at any point. Both agents' stages have a `within`: an agent without one may work for ever, and
  `Settles` promises nothing of it.

Symmetry isn't used: machines' keys break ties. `CHECK_DEADLOCK FALSE` appears for `Keeper` and `Runs` only:
the keeper's process and a run come to an end.

## 6. Fairness

- `Grants`: a daemon resends every 3 s (`WF` of `Resend`), and of grants and acks sent again and
  again one arrives (`SF`, per sender and its outstanding epoch). No fairness of granting or taking over.
- `ReplicaSync`: a daemon syncs with each machine it isn't waiting for (`WF`), and
  of endless requests and answers some arrive (`SF`). Pushes are never relied on.
- `Keeper`: the loop runs (`WF`), a killed process exits (`WF`), and deadlines pass: spawn
  timeouts, kills and writes to clients that read are each taken if possible again and again (`SF`),
  as they wait for a section of the loop that comes round.
- `Runs`: the loop ticks when it is due, a `within` included (`WF`); calls are answered (`WF`); an agent told to quit is hung up
  after `QUIT_WAIT` and a command ends by its timeout (`WF` of their exits). Nothing is assumed of an agent that works.

## 7. Proofs

`GrantsProofs` has three theorems, for every set of machines, every maker and every
`MaxEpoch`, from the assumptions that machines are natural numbers other than
`NoOne` and that the maker is one of them:

- `TypeCorrect`: `Spec => []TypeOK`.
- `HeldAgain`: `Spec => HeldAgainIsNewer`, takeovers included. A step that makes a
  machine a holder takes an epoch greater than its row's (`Receive`, `Take`), by cases on `Next`.
- `Safety`: `Spec => [](AtMostOneHolder /\ NeverLost /\ AckedWasTaken)`.

None of the three invariants of `Safety` is inductive: a grant on its way says
nothing about who else has one. `IInv` adds that the claims to the permission, grants
on their way and rows `sent`, name at most one receiver per epoch (`OneReceiver`), that a
holder's epoch is no less than any other's (`HolderIsLatest`), that a claim not yet taken
is the latest epoch of all (`UntakenIsLatest`), and that an acknowledgement, on its way or stored,
names an epoch its sender has reached (`AcksAreTaken`, `AckedRowsAreTaken`). So a machine
that takes a grant takes the latest epoch while nobody holds. Lemmas
about the operators of `Permits` carry the types and the epochs; a lemma
per action preserves `IInv` as long as `apart` is false. `apart` stays true once it is (`ApartStays`), so
`apart \/ IInv` is invariant, and the three claims are about `~apart`.

Only model-checked: everything about `Shelf`, `Transfer`, `Keeper`, `ReplicaSync` and `Runs`, and all liveness
(fairness is out of the prover's reach).

## 8. What the models leave out

- **Shelf**: one task and one project. Whether a runner has a place, the task waits for
  others, its name is ambiguous or `on` excludes a machine is an arbitrary refusal. How long a
  machine is away isn't counted: a takeover may come at any point. A handler stamps its writes once.
  A handler's transactions are one step, and failing database writes are left out. An agent that ends, its teardown and Done are one step.
- **Transfer**: quitting the agent, its handoff text and the lookup of its session are
  one step. Whether an earlier worktree is clean, or its work an ancestor of what came, isn't kept:
  an unbundle may fail over it or not. An agent whose terminal opens as its daemon stops is taken for the one the
  row names. Done isn't modelled.
- **Keeper**: connection limits, peers' user IDs, malformed and overlong lines, failing
  `listen`. A deadline may pass at any point. Output to clients is counted in lines.
- **Runs**: one run. Time is a tick that may come late: `within` passes and the time budget is spent at any
  point, and a report or a need settles at any point. Prompts, answers, feedback and the worktree's commits and resets
  are left out; failing database writes too. Closing a terminal takes effect at once.
- **ReplicaSync**: one record, one field per write; a stamp's milliseconds and count are one number.

## 9. Plan

Done: `Permits`, `Grants`, `GrantsProofs`, `Shelf`, `Transfer`, `Keeper`, `ReplicaSync`, `Runs`. To do, in order:

1. `Messages` and `Schedules`: a message is delivered at most once to an agent that lives; a schedule
   fires once per due time, caught up once.
2. `Terminals` with the keeper's client: serials, draining after an exit, a lost keeper; composed with `Keeper`.
3. `AppLink`: the outbox' lanes keep each terminal's order; an app that fell behind ends with the right screen.
4. `PeerLog`: merges commute and a removal stays. `Guests`: a job's phases across restarts.
5. `Mux`: operations on the tree of panes keep it well formed.

Proofs to come: `UnbrokenRun` of `ReplicaSync` (invariant: a message's ops leave no gap for its
receiver), `OnlyHoldersHaveIt` and the refinement of `Grants` by `Shelf`, `WaitedForOnce` of `Keeper`,
`EndedStays`, `ReportCounts` and `WithinBudget` of `Runs`.
