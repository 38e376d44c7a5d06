------------------------------ MODULE Transfer ------------------------------
(***************************************************************************)
(* A started task moves between machines (kanna-daemon's tasks/moving.rs   *)
(* and transfer.rs): its agent quits, its work is packed on another        *)
(* thread, the permission is handed over in the transaction that saves the *)
(* transfer, the transfer is sent until the receiver answers, and the      *)
(* receiver unbundles the work on a thread and starts a new agent.         *)
(* Either daemon may stop at any point, and a connection may end while the *)
(* receiver works on what it was sent.                                     *)
(*                                                                         *)
(* A handler runs to its end on the daemon's single event loop, but one    *)
(* that makes several transactions may be stopped between two of them:     *)
(* its action <Handler>Cut makes the first ones and restarts the daemon.   *)
(*                                                                         *)
(* A worktree is the number of the work it holds, 0 for none: the work the *)
(* agents do is numbered 1, 2, ... in the order they do it.                *)
(***************************************************************************)
EXTENDS Permits, FiniteSets, Sequences

CONSTANTS Maker,      \* the machine the task started on
          MaxMoves,   \* bound: transfers, packed or in preparation
          MaxBreaks,  \* bound: streams that end while their send is awaited
          MaxSends,   \* bound: requests that carry one
          MaxWork     \* bound: the last piece of work

ASSUME TransferAssumption ==
  /\ Maker \in Machines
  /\ MaxBreaks \in Nat
  /\ {MaxMoves, MaxSends, MaxWork} \subseteq Nat \ {0}

VARIABLES auth,      \* each machine's authority row (kanna.db)
          row,       \* is its `tasks` row on the Shelf? (kanna.db)
          moves,     \* the transfers, with both ends' `transfers` rows (kanna.db)
          tree,      \* the task's worktree
          agents,    \* how many agents run in it (they outlive the daemon)
          work,      \* the last piece of work done
          here,      \* is the task in `entries`? (memory)
          moving,    \* moves being prepared (memory)
          asked,     \* the send of a transfer that awaits its reply, or 0 (memory)
          sends,     \* how many requests carried a transfer
          taking,    \* unbundle threads, and their results (memory)
          starting,  \* launches that a transfer's reply waits for (memory)
          requests, replies,  \* on their way
          breaks,    \* history: streams that ended while the sender awaited the reply
          torn       \* history: a sender was stopped inside call_off

vars == <<auth, row, moves, tree, agents, work, here, moving,
          asked, sends, taking, starting, requests, replies, breaks, torn>>

\* `out` and `in` are the states of the sender's and the receiver's rows; `fits`
\* says that the receiver can take it: it has a clone, the agent and the branch.
Moves == [from : Machines, to : Machines, work : 1..MaxWork, fits : BOOLEAN,
          out : {"sending", "done", "failed"},
          in : {"none", "receiving", "installed", "started", "failed"},
          epoch : Nat]
Ids == 1..MaxMoves
Send == [id : Ids, n : 1..MaxSends]

Init ==
  /\ auth = [m \in Machines |->
               IF m = Maker THEN HoldUnlessHeld(NoAuthority, "running")
                            ELSE NoAuthority]
  /\ row = [m \in Machines |-> m = Maker]
  /\ moves = <<>>
  /\ tree = [m \in Machines |-> IF m = Maker THEN 1 ELSE 0]
  /\ agents = [m \in Machines |-> IF m = Maker THEN 1 ELSE 0]
  /\ work = 1
  /\ here = row
  /\ moving = [m \in Machines |-> {}]
  /\ asked = [i \in Ids |-> 0]
  /\ sends = 0
  /\ taking = {} /\ starting = {} /\ requests = {} /\ replies = {}
  /\ breaks = 0
  /\ torn = FALSE

-----------------------------------------------------------------------------
(* A daemon that stops *)

\* Tasks::open: m's daemon stops, with the rows as this step leaves them, and starts
\* again: threads, moves being prepared, launches and streams are gone, and its
\* entries are its rows.  The replies in `heard` had come.
Reopen(m, heard) ==
  LET away(i) == i \in DOMAIN moves /\ moves[i].from = m
      back(i) == i \in DOMAIN moves /\ moves[i].to = m
      broken == \E i \in Ids \ heard : away(i) /\ asked[i] # 0
  IN /\ broken => breaks < MaxBreaks
     /\ breaks' = IF broken THEN breaks + 1 ELSE breaks
     /\ here' = [here EXCEPT ![m] = row'[m]]
     /\ moving' = [moving EXCEPT ![m] = {}]
     /\ asked' = [i \in Ids |-> IF away(i) \/ back(i) THEN 0 ELSE asked[i]]
     /\ taking' = {t \in taking : ~back(t.id)}
     /\ starting' = {t \in starting : ~back(t.id)}
     /\ requests' = {q \in requests : ~back(q.id)}
     /\ replies' = {r \in replies : ~back(r.id) /\ ~away(r.id)}
     /\ UNCHANGED <<work, sends>>

-----------------------------------------------------------------------------
(* The sender *)

\* moving_to: a transfer of the task away from m is saved and not ended.
MovingOut(m) ==
  \E i \in DOMAIN moves : moves[i].from = m /\ moves[i].out = "sending"

Movable(m) == here[m] /\ tree[m] # 0 /\ ~MovingOut(m)

\* move_task: the receiver's heads are asked for first.
MoveTask(m, to) ==
  /\ m # to
  /\ Movable(m)
  /\ Len(moves) + Cardinality(moving[m]) < MaxMoves
  /\ moving' = [moving EXCEPT ![m] = @ \cup {[to |-> to, stage |-> "heads", work |-> 0]}]
  /\ UNCHANGED <<auth, row, moves, tree, agents, work, here,
                 asked, sends, taking, starting, requests, replies, breaks, torn>>

\* heads_came to stopped_to_move: the agent, if it runs, quits.
HeadsCame(m, x) ==
  /\ x \in moving[m]
  /\ x.stage = "heads"
  /\ Movable(m)
  /\ agents' = [agents EXCEPT ![m] = 0]
  /\ moving' = [moving EXCEPT ![m] = (@ \ {x}) \cup {[x EXCEPT !.stage = "handoff"]}]
  /\ UNCHANGED <<auth, row, moves, tree, work, here,
                 asked, sends, taking, starting, requests, replies, breaks, torn>>

\* pack_to_move's thread: the handoff is written, then the work committed and
\* bundled as it is now.
Pack(m, x) ==
  /\ x \in moving[m]
  /\ x.stage = "handoff"
  /\ tree[m] # 0
  /\ moving' = [moving EXCEPT ![m] =
                  (@ \ {x}) \cup {[x EXCEPT !.stage = "packed", !.work = tree[m]]}]
  /\ UNCHANGED <<auth, row, moves, tree, agents, work, here,
                 asked, sends, taking, starting, requests, replies, breaks, torn>>

\* The receiver is away or has no clone, the task isn't movable any more, no
\* handoff was written, packing failed, or (in packed) the permission is gone.
MoveFails(m, x) ==
  /\ x \in moving[m]
  /\ x.stage = "packed" => ~Held(auth[m])
  /\ moving' = [moving EXCEPT ![m] = @ \ {x}]
  /\ UNCHANGED <<auth, row, moves, tree, agents, work, here,
                 asked, sends, taking, starting, requests, replies, breaks, torn>>

\* send_transfer, with the epoch the sender has now
Sent(i, epoch) ==
  /\ sends < MaxSends
  /\ sends' = sends + 1
  /\ asked' = [asked EXCEPT ![i] = sends + 1]
  /\ requests' = requests \cup {[id |-> i, n |-> sends + 1, epoch |-> epoch]}

\* packed: the permission, the transfer and the row in one transaction.
Packed(m, x) ==
  LET i == Len(moves) + 1
      a == GiveTo(auth[m], x.to)
  IN /\ x \in moving[m]
     /\ x.stage = "packed"
     /\ Held(auth[m])
     /\ i <= MaxMoves
     /\ auth' = [auth EXCEPT ![m] = a]
     /\ \E fits \in BOOLEAN :
          moves' = Append(moves, [from |-> m, to |-> x.to, work |-> x.work, fits |-> fits,
                                  out |-> "sending", in |-> "none", epoch |-> 0])
     /\ row' = [row EXCEPT ![m] = TRUE]
     /\ moving' = [moving EXCEPT ![m] = @ \ {x}]
     /\ Sent(i, a.epoch)
     /\ UNCHANGED <<tree, agents, work, here, taking, starting, replies, breaks, torn>>

\* resend_transfers
SendAgain(i) ==
  /\ moves[i].out = "sending"
  /\ asked[i] = 0
  /\ Sent(i, auth[moves[i].from].epoch)
  /\ UNCHANGED <<auth, row, moves, tree, agents, work, here, moving,
                 taking, starting, replies, breaks, torn>>

\* replied
Replied(r) ==
  /\ asked' = [asked EXCEPT ![r.id] = 0]
  /\ replies' = replies \ {r}

\* transferred: of a transfer that isn't ended, for the send that is awaited
\* (replied's token).
Transferred(r, ok) ==
  /\ r \in replies
  /\ asked[r.id] = r.n
  /\ r.ok = ok
  /\ moves[r.id].out = "sending"

\* transferred, Ok, and moved_away; removing the worktree (transfer::remove) may
\* fail, and is over before a task could come back with a new handoff.
MovedAway(r) ==
  LET m == moves[r.id].from
  IN /\ Transferred(r, TRUE)
     /\ Replied(r)
     /\ moves' = [moves EXCEPT ![r.id].out = "done"]
     /\ auth' = [auth EXCEPT ![m] = Acked(@, @.epoch)]
     /\ IF here[m]
        THEN /\ row' = [row EXCEPT ![m] = FALSE]
             /\ here' = [here EXCEPT ![m] = FALSE]
             /\ agents' = [agents EXCEPT ![m] = 0]
             /\ tree' \in {tree, [tree EXCEPT ![m] = 0]}
        ELSE UNCHANGED <<row, here, agents, tree>>
     /\ UNCHANGED <<work, moving, sends, taking, starting, requests, breaks, torn>>

\* Stopped after the transaction that ends the task here: the permission isn't
\* acked, the pane not closed, the worktree not removed.
MovedAwayCut(r) ==
  LET m == moves[r.id].from
  IN /\ Transferred(r, TRUE)
     /\ moves' = [moves EXCEPT ![r.id].out = "done"]
     /\ row' = [row EXCEPT ![m] = @ /\ ~here[m]]
     /\ UNCHANGED <<auth, tree, agents, torn>>
     /\ Reopen(m, {r.id})

\* Mutant of CallOff: the permission isn't taken back.
CallOff_Given(r) ==
  /\ Transferred(r, FALSE)
  /\ Replied(r)
  /\ moves' = [moves EXCEPT ![r.id].out = "failed"]
  /\ UNCHANGED <<auth, row, tree, agents, work, here, moving, sends,
                 taking, starting, requests, breaks, torn>>

\* transferred, refused, and call_off: the permission is back at the epoch it
\* was given at, whatever became of it since.
CallOff(r) ==
  LET m == moves[r.id].from
  IN /\ Transferred(r, FALSE)
     /\ Replied(r)
     /\ moves' = [moves EXCEPT ![r.id].out = "failed"]
     /\ auth' = [auth EXCEPT ![m] = Reclaim(@.epoch)]
     /\ row' = [row EXCEPT ![m] = @ \/ here[m]]
     /\ UNCHANGED <<tree, agents, work, here, moving, sends,
                    taking, starting, requests, breaks, torn>>

\* Stopped after the transfer is saved as failed, or once the permission is back
\* too, and the task isn't stored.
CallOffCut(r) ==
  LET m == moves[r.id].from
  IN /\ Transferred(r, FALSE)
     /\ moves' = [moves EXCEPT ![r.id].out = "failed"]
     /\ \/ auth' = auth /\ torn' = TRUE
        \/ auth' = [auth EXCEPT ![m] = Reclaim(@.epoch)] /\ UNCHANGED torn
     /\ UNCHANGED <<row, tree, agents>>
     /\ Reopen(m, {r.id})

-----------------------------------------------------------------------------
(* The receiver *)

Reply(t, ok) == replies' = replies \cup {[id |-> t.id, n |-> t.n, ok |-> ok]}

\* Mutant of CarryOn: the row isn't stored.
CarryOn_Unstored(t, epoch) ==
  LET m == moves[t.id].to
  IN /\ auth' = [auth EXCEPT ![m] = Receive(@, epoch)]
     /\ here' = [here EXCEPT ![m] = TRUE]
     /\ starting' = starting \cup {t}
     /\ UNCHANGED <<row, replies>>

\* carry_on: the permission is taken; a task whose agent runs is there already,
\* any other goes onto the Shelf and its agent is launched.
CarryOn(t, epoch) ==
  LET m == moves[t.id].to
  IN /\ auth' = [auth EXCEPT ![m] = Receive(@, epoch)]
     /\ IF here[m] /\ agents[m] > 0
        THEN Reply(t, TRUE) /\ UNCHANGED <<row, here, starting>>
        ELSE /\ row' = [row EXCEPT ![m] = TRUE]
             /\ here' = [here EXCEPT ![m] = TRUE]
             /\ starting' = starting \cup {t}
             /\ UNCHANGED replies

\* take_transfer of one taken before
TakeAgain(q) ==
  LET t == [id |-> q.id, n |-> q.n]
  IN /\ q \in requests
     /\ requests' = requests \ {q}
     /\ \/ /\ moves[q.id].in = "started"
           /\ Reply(t, TRUE)
           /\ UNCHANGED <<auth, row, here, starting>>
        \/ /\ moves[q.id].in = "installed"
           /\ CarryOn(t, moves[q.id].epoch)
     /\ UNCHANGED <<moves, tree, agents, work, moving, asked, sends, taking, breaks, torn>>

\* Stopped inside carry_on, with the permission taken and the task not stored.
TakeAgainCut(q) ==
  LET m == moves[q.id].to
  IN /\ q \in requests
     /\ moves[q.id].in = "installed"
     /\ auth' = [auth EXCEPT ![m] = Receive(@, moves[q.id].epoch)]
     /\ UNCHANGED <<row, moves, tree, agents, torn>>
     /\ Reopen(m, {})

\* Mutant of RefuseTransfer: also a task that came by this very transfer.
RefuseTransfer_Here(q) ==
  /\ q \in requests
  /\ here[moves[q.id].to] \/ ~moves[q.id].fits
  /\ requests' = requests \ {q}
  /\ Reply(q, FALSE)
  /\ UNCHANGED <<auth, row, moves, tree, agents, work, here, moving,
                 asked, sends, taking, starting, breaks, torn>>

\* take_transfer of one to take: refused for a task that is here, or for want
\* of a clone, a known agent or a branch.
RefuseTransfer(q) ==
  /\ q \in requests
  /\ moves[q.id].in \in {"none", "receiving", "failed"}
  /\ here[moves[q.id].to] \/ ~moves[q.id].fits
  /\ requests' = requests \ {q}
  /\ Reply(q, FALSE)
  /\ UNCHANGED <<auth, row, moves, tree, agents, work, here, moving,
                 asked, sends, taking, starting, breaks, torn>>

\* take_transfer: saved as receiving, and a thread begins to unbundle it.
TakeTransfer(q) ==
  /\ q \in requests
  /\ moves[q.id].in \in {"none", "receiving", "failed"}
  /\ ~here[moves[q.id].to] /\ moves[q.id].fits
  /\ requests' = requests \ {q}
  /\ moves' = [moves EXCEPT ![q.id].in = "receiving", ![q.id].epoch = q.epoch]
  /\ taking' = taking \cup {[id |-> q.id, n |-> q.n, made |-> "not yet"]}
  /\ UNCHANGED <<auth, row, tree, agents, work, here, moving,
                 asked, sends, starting, replies, breaks, torn>>

\* transfer::unbundle: a worktree that holds exactly what was sent is reused, and
\* one with earlier work, if it is clean and behind, goes forward to it; any
\* other is refused.  Any git command may fail, the worktree made or not.
Unbundle(t) ==
  LET m == moves[t.id].to
      w == moves[t.id].work
  IN /\ t \in taking
     /\ t.made = "not yet"
     /\ \E made \in {"made", "failed"}, has \in {tree[m], w} :
          /\ made = "made" => has = w
          /\ has # tree[m] => tree[m] < w
          /\ tree' = [tree EXCEPT ![m] = has]
          /\ taking' = (taking \ {t}) \cup {[t EXCEPT !.made = made]}
     /\ UNCHANGED <<auth, row, moves, agents, work, here, moving,
                    asked, sends, starting, requests, replies, breaks, torn>>

\* unbundled
Unbundled(t) ==
  /\ t \in taking
  /\ taking' = taking \ {t}
  /\ \/ /\ t.made = "made"
        /\ moves' = [moves EXCEPT ![t.id].in = "installed"]
        /\ CarryOn([id |-> t.id, n |-> t.n], moves[t.id].epoch)
     \/ /\ t.made = "failed"
        /\ moves' = [moves EXCEPT ![t.id].in = "failed"]
        /\ Reply(t, FALSE)
        /\ UNCHANGED <<auth, row, here, starting>>
  /\ UNCHANGED <<tree, agents, work, moving, asked, sends, requests, breaks, torn>>

\* Stopped after the transfer is saved as installed (KANNA_TRANSFER_EXIT), or
\* inside carry_on, as in TakeAgainCut.
UnbundledCut(t) ==
  LET m == moves[t.id].to
  IN /\ t \in taking
     /\ t.made = "made"
     /\ moves' = [moves EXCEPT ![t.id].in = "installed"]
     /\ auth' \in {auth, [auth EXCEPT ![m] = Receive(@, moves[t.id].epoch)]}
     /\ UNCHANGED <<row, tree, agents, torn>>
     /\ Reopen(m, {})

\* running_here: the row is stored even if the entry is gone.
RunningHere(m) ==
  /\ agents' = [agents EXCEPT ![m] = @ + 1]
  /\ row' = [row EXCEPT ![m] = TRUE]

\* launch's reply, and carry_on's `then`: started, whether or not the agent runs,
\* and answered.
Launched(t) ==
  LET m == moves[t.id].to
  IN /\ t \in starting
     /\ starting' = starting \ {t}
     /\ RunningHere(m) \/ UNCHANGED <<agents, row>>
     /\ moves' = [moves EXCEPT ![t.id].in = "started"]
     /\ Reply(t, TRUE)
     /\ UNCHANGED <<auth, tree, work, here, moving, asked, sends,
                    taking, requests, breaks, torn>>

\* Stopped with the agent running and the transfer not saved as started.
LaunchedCut(t) ==
  LET m == moves[t.id].to
  IN /\ t \in starting
     /\ RunningHere(m)
     /\ UNCHANGED <<auth, moves, tree, torn>>
     /\ Reopen(m, {})

-----------------------------------------------------------------------------
(* Either *)

\* The agent of a machine's worktree does something there.
Work(m) ==
  /\ agents[m] > 0
  /\ tree[m] # 0
  /\ work < MaxWork
  /\ work' = work + 1
  /\ tree' = [tree EXCEPT ![m] = work + 1]
  /\ UNCHANGED <<auth, row, moves, agents, here, moving,
                 asked, sends, taking, starting, requests, replies, breaks, torn>>

\* start and wake of a stopped task (startable), and stop.
StartAgain(m) ==
  /\ here[m]
  /\ agents[m] = 0
  /\ tree[m] # 0
  /\ ~MovingOut(m)
  /\ \A t \in starting : moves[t.id].to # m
  /\ agents' = [agents EXCEPT ![m] = 1]
  /\ UNCHANGED <<auth, row, moves, tree, work, here, moving,
                 asked, sends, taking, starting, requests, replies, breaks, torn>>

\* Mutant of Stop: of an agent that is gone.
Stop_Twice(m) ==
  /\ here[m]
  /\ agents' = [agents EXCEPT ![m] = @ - 1]
  /\ UNCHANGED <<auth, row, moves, tree, work, here, moving,
                 asked, sends, taking, starting, requests, replies, breaks, torn>>

Stop(m) ==
  /\ agents[m] > 0
  /\ here[m]
  /\ agents' = [agents EXCEPT ![m] = @ - 1]
  /\ UNCHANGED <<auth, row, moves, tree, work, here, moving,
                 asked, sends, taking, starting, requests, replies, breaks, torn>>

\* sync_all's plain grant of a permission that is out (outbox), taken by the
\* receiver (take_grant; nothing is adopted, the record says started) and acked,
\* the ack perhaps lost.
GrantAgain(m) ==
  LET to == auth[m].to
      taken == [auth EXCEPT ![to] = Receive(@, auth[m].epoch)]
  IN /\ auth[m].permit = "sent"
     /\ auth' \in {taken, [taken EXCEPT ![m] = Acked(@, @.epoch)]}
     /\ UNCHANGED <<row, moves, tree, agents, work, here, moving,
                    asked, sends, taking, starting, requests, replies, breaks, torn>>

\* A transfer's stream ends unanswered: it is unreachable for the sender.
Break(i) ==
  /\ asked[i] # 0
  /\ breaks < MaxBreaks
  /\ breaks' = breaks + 1
  /\ asked' = [asked EXCEPT ![i] = 0]
  /\ UNCHANGED <<auth, row, moves, tree, agents, work, here, moving,
                 sends, taking, starting, requests, replies, torn>>

\* The daemon stops between two handlers.
Restart(m) ==
  /\ UNCHANGED <<auth, row, moves, tree, agents, torn>>
  /\ Reopen(m, {})

Next ==
  \/ \E m, to \in Machines : MoveTask(m, to)
  \/ \E m \in Machines :
       \/ \E x \in moving[m] :
            HeadsCame(m, x) \/ Pack(m, x) \/ MoveFails(m, x) \/ Packed(m, x)
       \/ Work(m) \/ StartAgain(m) \/ Stop(m)
       \/ GrantAgain(m) \/ Restart(m)
  \/ \E i \in DOMAIN moves : SendAgain(i) \/ Break(i)
  \/ \E r \in replies : MovedAway(r) \/ MovedAwayCut(r) \/ CallOff(r) \/ CallOffCut(r)
  \/ \E q \in requests :
       TakeAgain(q) \/ TakeAgainCut(q) \/ RefuseTransfer(q) \/ TakeTransfer(q)
  \/ \E t \in taking : Unbundle(t) \/ Unbundled(t) \/ UnbundledCut(t)
  \/ \E t \in starting : Launched(t) \/ LaunchedCut(t)

Spec == Init /\ [][Next]_vars

-----------------------------------------------------------------------------
(* Properties *)

\* Both ends' tables, worktrees and memory, and what is on its way, keep their
\* shape.
TypeOK ==
  /\ auth \in [Machines -> Authority]
  /\ row \in [Machines -> BOOLEAN]
  /\ moves \in Seq(Moves) /\ Len(moves) <= MaxMoves
  /\ tree \in [Machines -> 0..MaxWork]
  /\ agents \in [Machines -> Nat]
  /\ work \in 1..MaxWork
  /\ here \in [Machines -> BOOLEAN]
  /\ \A m \in Machines :
       moving[m] \subseteq [to : Machines, stage : {"heads", "handoff", "packed"},
                            work : 0..MaxWork]
  /\ asked \in [Ids -> 0..MaxSends]
  /\ sends \in 0..MaxSends
  /\ taking \subseteq [id : Ids, n : 1..MaxSends, made : {"not yet", "made", "failed"}]
  /\ starting \subseteq Send
  /\ requests \subseteq [id : Ids, n : 1..MaxSends, epoch : Nat]
  /\ replies \subseteq [id : Ids, n : 1..MaxSends, ok : BOOLEAN]
  /\ breaks \in 0..MaxBreaks
  /\ torn \in BOOLEAN

\* A machine may go on with the task: it has it and isn't sending it away.
Carries(m) == row[m] /\ ~MovingOut(m)

\* A move ends with one copy: the task may go on on one machine at most,
\* whoever stops and whatever is sent again (take_transfer's states, call_off
\* and moved_away together).
OneCopy ==
  \A m, n \in Machines : Carries(m) /\ Carries(n) => m = n

\* As long as no stream ended while its sender waited, a move ends with one copy,
\* whatever the receiver's restarts made the sender send again.
OneCopyUnbroken == breaks = 0 => OneCopy

\* Work that was sent is never lost: unless the move was called off, a machine
\* that has the task has a worktree with that work or with later work in it
\* (packed, unbundle, moved_away and its removal of the worktree).
SentKept ==
  \A i \in DOMAIN moves : moves[i].out # "failed" =>
    \E m \in Machines : row[m] /\ tree[m] >= moves[i].work

\* The permission goes with the task: a machine that may go on with it holds the
\* permission (hand with packed, receive with carry_on, reclaim with call_off).
CarriesHolds ==
  \A m \in Machines : Carries(m) => Held(auth[m])

\* As long as no stream ended while its sender waited and no sender stopped
\* between call_off's two transactions, the permission goes with the task,
\* through refusals, resends and stops inside any other handler.
CarriesHoldsUntorn == breaks = 0 /\ ~torn => CarriesHolds

\* While machines can reach each other, two of them can't both hold the
\* permission (hand, receive and reclaim).
AtMostOneHolder ==
  \A m, n \in Machines : Held(auth[m]) /\ Held(auth[n]) => m = n

\* While a task is moving it doesn't run on the sender (heads_came, packed and
\* startable).
MovingIsStill ==
  \A m \in Machines : MovingOut(m) => agents[m] = 0
=============================================================================
