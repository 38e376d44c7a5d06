-------------------------------- MODULE Shelf --------------------------------
(***************************************************************************)
(* One task on the replicated Shelf: the daemons of a project's machines   *)
(* keep a copy of its record (last write wins, by hybrid clock), the       *)
(* permission to start it, and, on at most one of them normally, the task  *)
(* itself.  Runners ask the owner for it, the owner grants it, grants are  *)
(* resent, starts happen in several steps, daemons restart at any point,   *)
(* and a machine away too long has its task taken over.                    *)
(*                                                                         *)
(* An action is one handler of kanna-daemon's tasks.rs, run to its end on  *)
(* the daemon's single event loop.  Records travel as snapshots of the     *)
(* sender's fields; ReplicaSync.tla models the op log they are made of.    *)
(***************************************************************************)
EXTENDS Permits, FiniteSets, FiniteSetsExt

CONSTANTS Maker, MaxEpoch,   \* as in Grants
          MaxClock,          \* bound: the largest clock reading
          MaxMessages,       \* bound: messages on their way when another is sent
          MaxSyncs,          \* bound: of them, records synced
          Pickers            \* bound: the machines whose users pick tasks

ASSUME ShelfAssumption ==
  /\ Maker \in Machines
  /\ MaxEpoch \in Nat
  /\ MaxClock \in Nat \ {0}
  /\ MaxMessages \in Nat
  /\ MaxSyncs \in Nat
  /\ Pickers \subseteq Machines

VARIABLES auth,       \* each machine's authority row (kanna.db)
          row,        \* where its `tasks` row has the task (kanna.db)
          rec,        \* its copy of the task's record (kanna.db)
          clock,      \* its hybrid clock
          open,       \* where its `entries` and `running` have it (memory)
          picking,    \* the machines where a pick waits for room's answer (memory)
          starting,   \* starts of it in `pending` or `launching` (memory)
          asking,     \* the owner it has asked and not heard from (memory)
          asks, answers, grants, acks, ops,   \* requests on their way
          apart,      \* history, as in Grants: the task was taken over
          ended       \* history: a user ended the task

vars == <<auth, row, rec, clock, open, picking, starting, asking,
          asks, answers, grants, acks, ops, apart, ended>>
wire == <<asks, answers, grants, acks, ops>>

\* A task is off this machine (Done, or never here), on it and not started, or
\* started: it has a worktree or a pane, on the Shelf or on a Desk.
Place == {"off", "waiting", "started"}
State == {"none", "waiting", "started", "done"}
Stamp == Nat \X (Machines \cup {NoOne})
Record == [state : [v : State, at : Stamp],
           owner : [v : Machines \cup {NoOne}, at : Stamp],
           runs : SUBSET Machines]

Unknown == [state |-> [v |-> "none", at |-> <<0, NoOne>>],
            owner |-> [v |-> NoOne, at |-> <<0, NoOne>>],
            runs |-> {}]

-----------------------------------------------------------------------------
(* Records *)

\* Hlc's order: the time, then the device.
Later(s, t) == s[1] > t[1] \/ (s[1] = t[1] /\ s[1] > 0 /\ s[2] > t[2])

\* Record::see on each field; a run.DEVICE field is written once.
See(f, g) == IF Later(g.at, f.at) THEN g ELSE f
Join(r, s) == [state |-> See(r.state, s.state),
               owner |-> See(r.owner, s.owner),
               runs |-> r.runs \cup s.runs]

\* Replica::stage: only a field whose value changes is written.
Write(r, f, v, s) == IF r[f].v = v THEN r ELSE [r EXCEPT ![f] = [v |-> v, at |-> s]]

\* Tasks::stage: what storing a task held here writes to its record.
Stored(r, m, state, s) == Write(Write(r, "state", state, s), "owner", m, s)

\* Replica::ran
Ran(r, m) == [r EXCEPT !.runs = @ \cup {m}]

\* Replica::commit and ::applied: m's record becomes r, stamped t; the clock
\* moves exactly when something is written, to any later reading (tick).
Commit(m, t, r) ==
  /\ (t = clock[m]) <=> (r = rec[m])
  /\ rec' = [rec EXCEPT ![m] = r]
  /\ clock' = [clock EXCEPT ![m] = t]

Readings(m) == clock[m]..MaxClock

\* Another message may go out.
Room == Cardinality(asks) + Cardinality(answers) + Cardinality(grants) + Cardinality(acks)
          + Cardinality(ops) < MaxMessages

Init ==
  /\ auth = [m \in Machines |->
               IF m = Maker THEN HoldUnlessHeld(NoAuthority, "ready")
                            ELSE NoAuthority]
  /\ row = [m \in Machines |-> IF m = Maker THEN "waiting" ELSE "off"]
  /\ rec = [m \in Machines |->
              IF m = Maker THEN Stored(Unknown, m, "waiting", <<1, m>>) ELSE Unknown]
  /\ clock = [m \in Machines |-> IF m = Maker THEN 1 ELSE 0]
  /\ open = row
  /\ picking = {}
  /\ starting = [m \in Machines |-> 0]
  /\ asking = [m \in Machines |-> NoOne]
  /\ asks = {} /\ answers = {} /\ grants = {} /\ acks = {} /\ ops = {}
  /\ apart = FALSE
  /\ ended = FALSE

-----------------------------------------------------------------------------
(* Asking and granting *)

\* candidates: another machine's waiting task that isn't open or asked for here.
Eligible(m, o) ==
  /\ rec[m].state.v = "waiting"
  /\ rec[m].owner.v = o
  /\ o \in Machines \ {m}
  /\ open[m] = "off"
  /\ asking[m] = NoOne

\* fill, Candidate::There
Ask(m, o) ==
  /\ Eligible(m, o)
  /\ Room
  /\ asking' = [asking EXCEPT ![m] = o]
  /\ asks' = asks \cup {[by |-> m, to |-> o]}
  /\ UNCHANGED <<auth, row, rec, clock, open, picking, starting, answers, grants, acks, ops, apart, ended>>

\* Mutant of CanGrant: a permission in use may be granted.
CanGrant_Running(o) == open[o] = "waiting" /\ starting[o] = 0 /\ Held(auth[o])

\* grant_to's checks of what this machine has, and Replica::grant's.
CanGrant(o) ==
  /\ open[o] = "waiting"
  /\ starting[o] = 0
  /\ auth[o].permit = "ready"

\* grant_to: the permission, the record and the row change in one transaction.
GrantTo(q) ==
  LET o == q.to
      m == q.by
  IN /\ q \in asks
     /\ CanGrant(o)
     /\ auth[o].epoch < MaxEpoch
     /\ auth' = [auth EXCEPT ![o] = GiveTo(@, m)]
     /\ \E t \in Readings(o) : Commit(o, t, Write(rec[o], "owner", m, <<t, o>>))
     /\ row' = [row EXCEPT ![o] = "off"]
     /\ open' = [open EXCEPT ![o] = "off"]
     /\ asks' = asks \ {q}
     /\ answers' = answers \cup {[from |-> o, to |-> m, epoch |-> auth[o].epoch + 1]}
     /\ UNCHANGED <<picking, starting, asking, grants, acks, ops, apart, ended>>

\* grant_to refuses what it may not grant, and a task that waits for others, is
\* for other machines or has an ambiguous ID.  A refusal is an answer without
\* an epoch.
Refuse(q) ==
  /\ q \in asks
  /\ asks' = asks \ {q}
  /\ answers' = answers \cup {[from |-> q.to, to |-> q.by, epoch |-> 0]}
  /\ UNCHANGED <<auth, row, rec, clock, open, picking, starting, asking, grants, acks, ops, apart, ended>>

\* Mutant of Adopts: without the permission.
Adopts_AnyPermit(m, a, r) == open[m] = "off" /\ r.state.v = "waiting"

\* adopt: a granted task known to wait goes onto this machine's Shelf.
Adopts(m, a, r) == a.permit = "ready" /\ open[m] = "off" /\ r.state.v = "waiting"

AdoptWith(m, a, r, t) ==
  LET adopts == Adopts(m, a, r)
  IN /\ auth' = [auth EXCEPT ![m] = a]
     /\ Commit(m, t, IF adopts THEN Stored(r, m, "waiting", <<t, m>>) ELSE r)
     /\ row' = IF adopts THEN [row EXCEPT ![m] = "waiting"] ELSE row
     /\ open' = IF adopts THEN [open EXCEPT ![m] = "waiting"] ELSE open

\* take_grant: received if it is news (and the record's owner written), adopted,
\* and acknowledged in any case.
TakeGrant(g) ==
  LET m == g.to
  IN /\ \E t \in Readings(m) :
          AdoptWith(m, Receive(auth[m], g.epoch),
                    IF IsNews(auth[m], g.epoch)
                    THEN Write(rec[m], "owner", m, <<t, m>>) ELSE rec[m], t)
     /\ acks' = acks \cup {[by |-> m, to |-> g.from, epoch |-> g.epoch]}

\* replied, Asked::Ask: the answer that the ask in flight waits for.
Granted(g) ==
  /\ g \in answers
  /\ g.epoch > 0
  /\ asking[g.to] = g.from
  /\ TakeGrant(g)
  /\ answers' = answers \ {g}
  /\ asking' = [asking EXCEPT ![g.to] = NoOne]
  /\ UNCHANGED <<picking, starting, asks, grants, ops, apart, ended>>

Refused(g) ==
  /\ g \in answers
  /\ g.epoch = 0
  /\ asking[g.to] = g.from
  /\ answers' = answers \ {g}
  /\ asking' = [asking EXCEPT ![g.to] = NoOne]
  /\ UNCHANGED <<auth, row, rec, clock, open, picking, starting, asks, grants, acks, ops, apart, ended>>

\* The ask's stream broke or its 20 s are up (machines.rs exchange): it is
\* unreachable here, whatever the owner did with it, and a late answer is dropped.
Unreachable(m) ==
  /\ asking[m] # NoOne
  /\ asking' = [asking EXCEPT ![m] = NoOne]
  /\ answers' = {g \in answers : g.to # m}
  /\ UNCHANGED <<auth, row, rec, clock, open, picking, starting, asks, grants, acks, ops, apart, ended>>

\* Mutant of Resend: what was never given goes out too.
Resend_Any(o) ==
  /\ Room
  /\ grants' = grants \cup {[from |-> o, to |-> auth[o].to, epoch |-> auth[o].epoch]}
  /\ UNCHANGED <<auth, row, rec, clock, open, picking, starting, asking, asks, answers, acks, ops, apart, ended>>

\* sync_all: a grant not yet acked goes out again.
Resend(o) ==
  /\ auth[o].permit = "sent"
  /\ Room
  /\ grants' = grants \cup {[from |-> o, to |-> auth[o].to, epoch |-> auth[o].epoch]}
  /\ UNCHANGED <<auth, row, rec, clock, open, picking, starting, asking, asks, answers, acks, ops, apart, ended>>

\* replica_command "grant"
GrantComes(g) ==
  /\ g \in grants
  /\ TakeGrant(g)
  /\ grants' = grants \ {g}
  /\ UNCHANGED <<picking, starting, asking, asks, answers, ops, apart, ended>>

\* replica_command "ack", and replied, Asked::Grant
AckComes(a) ==
  /\ a \in acks
  /\ auth' = [auth EXCEPT ![a.to] = Acked(@, a.epoch)]
  /\ acks' = acks \ {a}
  /\ UNCHANGED <<row, rec, clock, open, picking, starting, asking, asks, answers, grants, ops, apart, ended>>

\* A request is lost with its connection.
Lose ==
  /\ \/ \E q \in asks : asks' = asks \ {q} /\ UNCHANGED <<answers, grants, acks, ops>>
     \/ \E g \in answers : answers' = answers \ {g} /\ UNCHANGED <<asks, grants, acks, ops>>
     \/ \E g \in grants : grants' = grants \ {g} /\ UNCHANGED <<asks, answers, acks, ops>>
     \/ \E a \in acks : acks' = acks \ {a} /\ UNCHANGED <<asks, answers, grants, ops>>
     \/ \E s \in ops : ops' = ops \ {s} /\ UNCHANGED <<asks, answers, grants, acks>>
  /\ UNCHANGED <<auth, row, rec, clock, open, picking, starting, asking, apart, ended>>

-----------------------------------------------------------------------------
(* Syncing records *)

\* A sync's answer, or the ops sent back after one: p's writes as they are now.
Publish(p, m) ==
  /\ p # m
  /\ Room
  /\ Cardinality(ops) < MaxSyncs
  /\ ops' = ops \cup {[to |-> m, rec |-> rec[p]]}
  /\ UNCHANGED <<auth, row, rec, clock, open, picking, starting, asking, asks, answers, grants, acks, apart, ended>>

\* Mutant of RanElsewhere: while it is started here.
RanElsewhere_Started(m, r) == open[m] # "off" /\ starting[m] = 0 /\ r.runs \ {m} # {}

\* give_up: another machine ran the task, and it isn't started or starting here.
RanElsewhere(m, r) == open[m] = "waiting" /\ starting[m] = 0 /\ r.runs \ {m} # {}

\* take_ops: apply, then refresh (give_up); the clock sees every stamp.
TakeOps(s) ==
  LET m == s.to
      r == Join(rec[m], s.rec)
      gives == RanElsewhere(m, r)
  IN /\ s \in ops
     /\ rec' = [rec EXCEPT ![m] = r]
     /\ clock' = [clock EXCEPT ![m] = Max({@, s.rec.state.at[1], s.rec.owner.at[1]})]
     /\ auth' = IF gives THEN [auth EXCEPT ![m] = Yielded(@, Min(r.runs \ {m}))] ELSE auth
     /\ row' = IF gives THEN [row EXCEPT ![m] = "off"] ELSE row
     /\ open' = IF gives THEN [open EXCEPT ![m] = "off"] ELSE open
     /\ ops' = ops \ {s}
     /\ UNCHANGED <<picking, starting, asking, asks, answers, grants, acks, apart, ended>>

-----------------------------------------------------------------------------
(* The task on one machine *)

\* fill starts with adopt: a grant whose record came later is adopted then.
Adopt(m) ==
  /\ Adopts(m, auth[m], rec[m])
  /\ \E t \in Readings(m) : AdoptWith(m, auth[m], rec[m], t)
  /\ UNCHANGED <<picking, starting, asking, apart, ended>> /\ UNCHANGED wire

\* prepare: the permission, the record and this machine's run are written
\* before the worktree is begun on another thread.
Prepare(m) ==
  /\ Held(auth[m])
  /\ auth' = [auth EXCEPT ![m] = Start(@)]
  /\ \E t \in Readings(m) : Commit(m, t, Ran(Write(rec[m], "state", "started", <<t, m>>), m))
  /\ starting' = [starting EXCEPT ![m] = @ + 1]

\* start, and fill's Candidate::Here
StartHere(m) ==
  /\ open[m] = "waiting"
  /\ starting[m] = 0
  /\ Prepare(m)
  /\ UNCHANGED <<row, open, picking, asking, apart, ended>> /\ UNCHANGED wire

\* pick: the task is found waiting, and the app is asked for room.  Bound: one
\* pick waits on a machine, and only a Picker's.
Pick(m) ==
  /\ open[m] = "waiting"
  /\ starting[m] = 0
  /\ m \in Pickers \ picking
  /\ picking' = picking \cup {m}
  /\ UNCHANGED <<auth, row, rec, clock, open, starting, asking, apart, ended>> /\ UNCHANGED wire

\* room's answer: no room, or the task as it was picked is prepared.
Picked(m) ==
  /\ m \in picking
  /\ picking' = picking \ {m}
  /\ Prepare(m) \/ UNCHANGED <<auth, rec, clock, starting>>
  /\ UNCHANGED <<row, open, asking, apart, ended>> /\ UNCHANGED wire

\* fill, Candidate::Take: take, adopt and prepare in one handler, once the owner
\* has been away for takeover_after().
TakeOver(m, o) ==
  /\ Eligible(m, o)
  /\ auth[m].epoch < MaxEpoch
  /\ auth' = [auth EXCEPT ![m] = Start(Take(@))]
  /\ \E t \in Readings(m) :
       Commit(m, t, Ran(Stored(rec[m], m, "started", <<t, m>>), m))
  /\ row' = [row EXCEPT ![m] = "waiting"]
  /\ open' = [open EXCEPT ![m] = "waiting"]
  /\ starting' = [starting EXCEPT ![m] = @ + 1]
  /\ apart' = TRUE
  /\ UNCHANGED <<picking, asking, ended>> /\ UNCHANGED wire

\* running_here (on the Shelf) replaces the entry if it is still there, started
\* (on a Desk) records it anyway; both store it as started.
Started(m, desk) ==
  /\ row' = [row EXCEPT ![m] = "started"]
  /\ open' = [open EXCEPT ![m] = IF desk \/ @ # "off" THEN "started" ELSE "off"]
  /\ auth' = [auth EXCEPT ![m] = HoldUnlessHeld(@, "running")]
  /\ \E t \in Readings(m) : Commit(m, t, Stored(rec[m], m, "started", <<t, m>>))

\* A start is over.
Over(m) ==
  /\ starting[m] > 0
  /\ starting' = [starting EXCEPT ![m] = @ - 1]

\* launch's reply
Launched(m, desk) ==
  /\ Over(m)
  /\ Started(m, desk)
  /\ UNCHANGED <<picking, asking, apart, ended>> /\ UNCHANGED wire

\* worktree_made or launch failed: nothing is stored.
StartFails(m) ==
  /\ Over(m)
  /\ UNCHANGED <<auth, row, rec, clock, open, picking, asking, apart, ended>> /\ UNCHANGED wire

\* store of a task as this machine has it: worktree_made's conflict, and every
\* rename, note and edit (alter); an entry that is starting has no worktree yet.
StoreAs(m, place) ==
  /\ row' = [row EXCEPT ![m] = place]
  /\ auth' = IF place = "off" THEN auth
             ELSE [auth EXCEPT ![m] =
                     HoldUnlessHeld(@, IF place = "started" THEN "running" ELSE "ready")]
  /\ \E t \in Readings(m) :
       Commit(m, t, Stored(rec[m], m, IF place = "off" THEN "done" ELSE place, <<t, m>>))

StartConflicts(m) ==
  /\ Over(m)
  /\ IF open[m] # "off" THEN StoreAs(m, open[m]) ELSE UNCHANGED <<row, auth, rec, clock>>
  /\ UNCHANGED <<open, picking, asking, apart, ended>> /\ UNCHANGED wire

Edit(m) ==
  /\ open[m] # "off"
  /\ StoreAs(m, open[m])
  /\ UNCHANGED <<open, picking, starting, asking, apart, ended>> /\ UNCHANGED wire

\* done, take_off and sweep: the task leaves this machine, ended by its user.
Done(m) ==
  /\ open[m] # "off"
  /\ StoreAs(m, "off")
  /\ open' = [open EXCEPT ![m] = "off"]
  /\ ended' = TRUE
  /\ UNCHANGED <<picking, starting, asking, apart>> /\ UNCHANGED wire

\* The daemon stops and starts again: its memory is made from its rows (open),
\* every task it has is stored (join), and answers to it are dropped.
Restart(m) ==
  /\ open' = [open EXCEPT ![m] = row[m]]
  /\ picking' = picking \ {m}
  /\ starting' = [starting EXCEPT ![m] = 0]
  /\ asking' = [asking EXCEPT ![m] = NoOne]
  /\ IF row[m] # "off" THEN StoreAs(m, row[m]) ELSE UNCHANGED <<row, auth, rec, clock>>
  /\ answers' = {g \in answers : g.to # m}
  /\ UNCHANGED <<asks, grants, acks, ops, apart, ended>>

Next ==
  \/ \E m, o \in Machines : Ask(m, o) \/ TakeOver(m, o) \/ Publish(m, o)
  \/ \E q \in asks : GrantTo(q) \/ Refuse(q)
  \/ \E g \in answers : Granted(g) \/ Refused(g)
  \/ \E g \in grants : GrantComes(g)
  \/ \E a \in acks : AckComes(a)
  \/ \E s \in ops : TakeOps(s)
  \/ Lose
  \/ \E m \in Machines :
       \/ Unreachable(m) \/ Resend(m) \/ Adopt(m)
       \/ StartHere(m) \/ Pick(m) \/ Picked(m) \/ StartFails(m) \/ StartConflicts(m)
       \/ Edit(m) \/ Done(m) \/ Restart(m)
       \/ \E desk \in BOOLEAN : Launched(m, desk)

Spec == Init /\ [][Next]_vars

-----------------------------------------------------------------------------
(* Properties *)

\* Everything a daemon keeps and everything on the wire keeps its shape.
TypeOK ==
  /\ auth \in [Machines -> Authority]
  /\ row \in [Machines -> Place]
  /\ rec \in [Machines -> Record]
  /\ clock \in [Machines -> Nat]
  /\ open \in [Machines -> Place]
  /\ picking \subseteq Machines
  /\ starting \in [Machines -> Nat]
  /\ asking \in [Machines -> Machines \cup {NoOne}]
  /\ asks \subseteq [by : Machines, to : Machines]
  /\ answers \subseteq [from : Machines, to : Machines, epoch : Nat]
  /\ grants \subseteq [from : Machines, to : Machines, epoch : Nat]
  /\ acks \subseteq [by : Machines, to : Machines, epoch : Nat]
  /\ ops \subseteq [to : Machines, rec : Record]
  /\ apart \in BOOLEAN
  /\ ended \in BOOLEAN

\* The permission protocol this module implements: an ask's answer and a
\* resent grant are the same grant.
Permission == INSTANCE Grants WITH grants <- grants \cup {g \in answers : g.epoch > 0}

\* Records, asks, starts, edits and restarts move the permission only as
\* Grants allows: every handler is one of its steps or leaves the permission
\* alone.
ImplementsGrants == Permission!Spec

\* A machine that has the task in its table or in memory, or is making its
\* worktree, holds the permission for it, through restarts between any two
\* steps, late grants, takeovers and give-ups (store and adopt against grant_to
\* and give_up).
OnlyHoldersHaveIt ==
  \A m \in Machines :
    row[m] # "off" \/ open[m] # "off" \/ starting[m] > 0 => Held(auth[m])

\* A task no user ended is on some machine's Shelf or Desk, or a machine that
\* holds the permission will adopt it once it knows the record, or a grant of
\* it is still kept for resending (give_up, grant_to and adopt together).
TaskKept ==
  ~ended =>
    \E m \in Machines :
      \/ row[m] # "off"
      \/ auth[m].permit = "ready" /\ rec[m].state.v \in {"none", "waiting"}
      \/ auth[m].permit = "sent" /\ IsNews(auth[auth[m].to], auth[m].epoch)

\* As long as no machine took it over, a task no user ended is never lost: a
\* grant whose answer, resend or ack is lost, a refusal that comes too late, a
\* failed start or a restart between two steps leaves it somewhere.
KeptTogether == ~apart => TaskKept

\* A started copy stays until its user ends it: no grant, sync, takeover or
\* restart takes it off its machine.
StartedStays ==
  [][\A m \in Machines :
       open[m] = "started" /\ open'[m] # "started" => rec'[m].state.v = "done"]_vars

\* Done ends the task: once a machine's record says it is done, that machine
\* doesn't say otherwise again (done against a start that is under way).
DoneEnds ==
  [][\A m \in Machines :
       rec[m].state.v = "done" => rec'[m].state.v = "done"]_vars

\* Once all machines have the same record, it names as owner the machine that
\* has the task, so that asks for it go there (grant, receive and stage write
\* the field, the later stamp wins).
OwnerSettles ==
  (\A m, n \in Machines : rec[m] = rec[n]) =>
    \A m \in Machines : open[m] # "off" => rec[m].owner.v = m
=============================================================================
