------------------------------- MODULE Keeper -------------------------------
(***************************************************************************)
(* kanna-keeper's server: one thread that polls and then handles, in the   *)
(* order of its loop, signals, clients' requests, children that exec,      *)
(* spawn timeouts, replies, new clients, kills, an upgrade of itself (it   *)
(* re-execs another binary, its state crossing the exec), a stop, and its  *)
(* own idle exit.  Children, clients and signals act between any two       *)
(* steps.                                                                  *)
(*                                                                         *)
(* `k` is the Keeper struct with the children it is the parent of; its     *)
(* handlers are operators from a keeper to a keeper.  Time is left out: a  *)
(* deadline may pass at any point.                                         *)
(***************************************************************************)
EXTENDS Integers, Sequences, FiniteSets, SequencesExt

CONSTANTS Ids,        \* the names clients give ptys
          Ops,        \* the requests clients make
          MaxPid,     \* bound: children forked
          MaxConn,    \* bound: clients that connect
          MaxLine,    \* bound: requests one client sends
          MaxPtys,    \* Settings::max_ptys
          MaxOut,     \* MAX_OUT, in lines
          Terms,      \* may the keeper be sent SIGTERM?
          Owned       \* was it given an owner, which may exit?

ASSUME KeeperAssumption ==
  /\ Ops \subseteq {"hello", "spawn", "adopt", "close", "ack", "stop", "upgrade"}
  /\ {MaxPid, MaxConn, MaxLine, MaxPtys, MaxOut} \subseteq Nat \ {0}
  /\ Terms \in BOOLEAN /\ Owned \in BOOLEAN

VARIABLES k,        \* the keeper and its children
          client,   \* what each client has done
          in,       \* the requests each has sent that aren't handled
          sigs,     \* the signal pipe
          alarm,    \* the handler of a SIGTERM has set an alarm
          socket,   \* is the socket's path there?
          pc, ready,  \* the loop's next step, and what the poll returned
          ended     \* why the process is gone, or "no"

vars == <<k, client, in, sigs, alarm, socket, pc, ready, ended>>

Pids == 1..MaxPid
Conns == 1..MaxConn
NoPty == [pid |-> 0, exit |-> FALSE]
NoUpgrade == [conn |-> 0, tag |-> 0]

\* A child is forked, has exec'd, was sent SIGKILL, is a zombie, or was waited
\* for.  `pipe` is what the keeper would read of its exec pipe.
Keeper == [proc : [Pids -> {"new", "forked", "running", "killed", "zombie", "reaped"}],
           pipe : [Pids -> {"open", "eof", "errno"}],
           ptys : [Ids -> [pid : 0..MaxPid, exit : BOOLEAN]],
           pending : Seq([id : Ids, pid : Pids, conn : Conns, tag : 1..MaxLine,
                          exit : BOOLEAN]),
           closed : SUBSET [pid : Pids, kill : BOOLEAN],
           conns : SUBSET Conns,
           dead : SUBSET Conns,
           out : [Conns -> Nat],
           told : [Conns -> SUBSET Pids],
           answered : [Conns -> Seq(1..MaxLine)],
           stopping : BOOLEAN,
           stop : {"no", "term", "stop", "late", "idle"},
           upgrade : [conn : 0..MaxConn, tag : 0..MaxLine],
           asked : BOOLEAN]   \* history: a stop was handled

Init ==
  /\ k = [proc |-> [p \in Pids |-> "new"], pipe |-> [p \in Pids |-> "open"],
          ptys |-> [i \in Ids |-> NoPty], pending |-> <<>>, closed |-> {},
          conns |-> {}, dead |-> {}, out |-> [c \in Conns |-> 0],
          told |-> [c \in Conns |-> {}], answered |-> [c \in Conns |-> <<>>],
          stopping |-> FALSE, stop |-> "no", upgrade |-> NoUpgrade, asked |-> FALSE]
  /\ client = [c \in Conns |-> [state |-> "none", lines |-> 0]]
  /\ in = [c \in Conns |-> <<>>]
  /\ sigs = {}
  /\ alarm = FALSE
  /\ socket = TRUE
  /\ pc = "poll"
  /\ ready = [conns |-> {}, execs |-> {}, listen |-> FALSE, next |-> "poll"]
  /\ ended = "no"

-----------------------------------------------------------------------------
(* Handlers *)

Live(s, p) == s.proc[p] \in {"forked", "running", "killed"}

\* Conn::send of n lines to a client that is connected; one that doesn't read
\* is dropped.
Send(s, c, n) ==
  IF c \notin s.conns THEN s
  ELSE [s EXCEPT !.out[c] = @ + n,
                 !.dead = IF s.out[c] + n > MaxOut THEN @ \cup {c} ELSE @]

Answer(s, c, tag) ==
  IF c \notin s.conns THEN s
  ELSE [Send(s, c, 1) EXCEPT !.answered[c] = Append(@, tag)]

\* An exited event to every client.
Tell(s, pids) ==
  LET n == Cardinality(pids)
  IN [s EXCEPT !.told = [c \in Conns |-> IF c \in s.conns THEN @[c] \cup pids ELSE @[c]],
               !.out = [c \in Conns |-> IF c \in s.conns THEN @[c] + n ELSE @[c]],
               !.dead = @ \cup {c \in s.conns : s.out[c] + n > MaxOut}]

\* The processes reap waits for: a closed one only once its kill is done.
Begun(s) == {s.pending[i].pid : i \in {j \in DOMAIN s.pending : ~s.pending[j].exit}}
Running(s) == {s.ptys[i].pid : i \in {j \in Ids : ~s.ptys[j].exit}}

\* Mutant of Waits: a closed process is waited for before its kill.
Waits_Closed(s) == Begun(s) \cup Running(s) \cup {x.pid : x \in s.closed}

Waits(s) == Begun(s) \cup Running(s) \cup {x.pid : x \in {y \in s.closed : ~y.kill}}

\* reap
Reap(s) ==
  LET waited == {p \in Waits(s) \ {0} : s.proc[p] = "zombie"}
  IN Tell([s EXCEPT
             !.proc = [p \in Pids |-> IF p \in waited THEN "reaped" ELSE @[p]],
             !.closed = {x \in @ : x.kill \/ x.pid \notin waited},
             !.pending = [i \in DOMAIN @ |-> [@[i] EXCEPT !.exit = @ \/ s.pending[i].pid \in waited]],
             !.ptys = [i \in Ids |-> [@[i] EXCEPT !.exit = @ \/ s.ptys[i].pid \in waited]]],
          waited \cap Running(s))

\* SIGKILL: the process is on its way out, and not yet a zombie.
Kill(s, pids) ==
  [s EXCEPT !.proc = [p \in Pids |-> IF p \in pids /\ Live(s, p) THEN "killed" ELSE @[p]]]

\* Mutants of SpawnFailed: a process that was waited for is waited for again;
\* the client isn't told.
SpawnFailed_Twice(s, p) ==
  Reap(Answer([s EXCEPT !.closed = @ \cup {[pid |-> p.pid, kill |-> FALSE]}], p.conn, p.tag))
SpawnFailed_Silent(s, p) ==
  Reap([s EXCEPT !.closed = IF p.exit THEN @ ELSE @ \cup {[pid |-> p.pid, kill |-> FALSE]}])

\* spawn_failed
SpawnFailed(s, p) ==
  Reap(Answer([s EXCEPT !.closed = IF p.exit THEN @
                                   ELSE @ \cup {[pid |-> p.pid, kill |-> FALSE]}],
              p.conn, p.tag))

\* started
Started(s, p) ==
  LET t == [Answer(s, p.conn, p.tag) EXCEPT !.ptys[p.id] = [pid |-> p.pid, exit |-> p.exit]]
  IN IF p.exit THEN Tell(t, {p.pid}) ELSE t

\* A pending spawn the keeper gives up on.
Abandon(s, p) == SpawnFailed(IF p.exit THEN s ELSE Kill(s, {p.pid}), p)

\* begin_stop: every pty is closed, every pending spawn failed.
BeginStop(s) ==
  IF s.stopping THEN s
  ELSE FoldLeft(Abandon,
                [s EXCEPT !.stopping = TRUE, !.asked = TRUE,
                          !.closed = @ \cup {[pid |-> s.ptys[i].pid, kill |-> TRUE] :
                                             i \in {j \in Ids : s.ptys[j].pid # 0 /\ ~s.ptys[j].exit}},
                          !.ptys = [i \in Ids |-> NoPty],
                          !.pending = <<>>],
                s.pending)

Starting(s, id) == \E i \in DOMAIN s.pending : s.pending[i].id = id
Held(s) == {i \in Ids : s.ptys[i].pid # 0}

\* Mutant of Spawn: while stopping too.
Spawn_Stopping(s, c, r) ==
  LET new == {p \in Pids : s.proc[p] = "new"}
      pid == CHOOSE p \in new : \A q \in new : p <= q
  IN IF new = {} \/ r.id \in Held(s) \/ Starting(s, r.id) THEN Answer(s, c, r.tag)
     ELSE [s EXCEPT !.proc[pid] = "forked",
                    !.pending = Append(@, [id |-> r.id, pid |-> pid, conn |-> c,
                                           tag |-> r.tag, exit |-> FALSE])]

\* spawn: refused, failed, or begun: the reply waits for the exec.
Spawn(s, c, r) ==
  LET new == {p \in Pids : s.proc[p] = "new"}
      pid == CHOOSE p \in new : \A q \in new : p <= q
      refused == \/ s.stopping
                 \/ r.id \in Held(s) \/ Starting(s, r.id)
                 \/ Cardinality(Held(s)) + Len(s.pending) + Cardinality(s.closed) >= MaxPtys
  IN IF refused \/ new = {} THEN Answer(s, c, r.tag)
     ELSE [s EXCEPT !.proc[pid] = "forked",
                    !.pending = Append(@, [id |-> r.id, pid |-> pid, conn |-> c,
                                           tag |-> r.tag, exit |-> FALSE])]

\* Mutant of Close: of a pty that isn't there.
Close_Unknown(s, id) ==
  [s EXCEPT !.ptys[id] = NoPty,
            !.closed = IF s.ptys[id].exit THEN @
                       ELSE @ \cup {[pid |-> s.ptys[id].pid, kill |-> TRUE]}]

\* close: the process gets SIGHUP now and SIGKILL after its grace.
Close(s, id) ==
  IF Starting(s, id) \/ id \notin Held(s) THEN s
  ELSE [s EXCEPT !.ptys[id] = NoPty,
                 !.closed = IF s.ptys[id].exit THEN @
                            ELSE @ \cup {[pid |-> s.ptys[id].pid, kill |-> TRUE]}]

Ack(s, id) == IF s.ptys[id].exit THEN [s EXCEPT !.ptys[id] = NoPty] ELSE s

\* request
Request(s, c, r) ==
  CASE r.op = "spawn" -> Spawn(s, c, r)
    [] r.op = "upgrade" -> [s EXCEPT !.upgrade = [conn |-> c, tag |-> r.tag]]
    [] r.op = "adopt" -> Answer(Send(s, c, Cardinality(Held(s))), c, r.tag)
    [] r.op = "close" -> Answer(Close(s, r.id), c, r.tag)
    [] r.op = "ack" -> Answer(Ack(s, r.id), c, r.tag)
    [] r.op = "stop" -> Answer(BeginStop(s), c, r.tag)
    [] r.op = "hello" -> Answer(s, c, r.tag)

-----------------------------------------------------------------------------
(* The loop *)

At(here, next) == ended = "no" /\ pc = here /\ pc' = next

HasInput(c) == in[c] # <<>> \/ client[c].state = "gone"
Waiting == {c \in Conns : client[c].state = "queued"}

\* The loop's test and poll: what it returns is used until the next one.
Poll ==
  /\ At("poll", IF k.stop = "no" THEN "signals" ELSE "poll")
  /\ IF k.stop = "no"
     THEN /\ ready' = [conns |-> {c \in k.conns : HasInput(c)},
                       execs |-> {i \in DOMAIN k.pending : k.pipe[k.pending[i].pid] # "open"},
                       listen |-> ~k.stopping /\ Waiting # {},
                       next |-> "execs"]
          /\ UNCHANGED <<ended, socket>>
     ELSE /\ ended' = k.stop
          /\ socket' = FALSE
          /\ UNCHANGED ready
  /\ UNCHANGED <<k, client, in, sigs, alarm>>

Signals ==
  /\ At("signals", "read")
  /\ LET s == IF "term" \in sigs /\ k.stop = "no" THEN [k EXCEPT !.stop = "term"] ELSE k
     IN k' = IF "chld" \in sigs THEN Reap(s) ELSE s
  /\ sigs' = {}
  /\ UNCHANGED <<client, in, alarm, socket, ready, ended>>

\* read_conn and handle_lines, a line at a time: none is handled while an
\* upgrade waits.
ReadLine(c) ==
  /\ At("read", "read")
  /\ c \in ready.conns
  /\ \A d \in ready.conns : c <= d
  /\ LET handles == in[c] # <<>> /\ k.upgrade = NoUpgrade
         s == IF c \in k.dead THEN k ELSE Request(k, c, Head(in[c]))
     IN IF handles
        THEN /\ in' = [in EXCEPT ![c] = Tail(@)]
             /\ k' = s
             /\ socket' = (socket /\ (s.stopping = k.stopping))
             /\ UNCHANGED ready
        ELSE /\ ready' = [ready EXCEPT !.conns = @ \ {c}]
             /\ k' = IF in[c] = <<>> /\ client[c].state = "gone" /\ ready.next = "execs"
                     THEN [k EXCEPT !.dead = @ \cup {c}] ELSE k
             /\ UNCHANGED <<in, socket>>
  /\ UNCHANGED <<client, sigs, alarm, ended>>

ReadDone ==
  /\ At("read", ready.next)
  /\ ready.conns = {}
  /\ UNCHANGED <<k, client, in, sigs, alarm, socket, ready, ended>>

\* exec_heard, for the indices polled, from the last: an index past the end of
\* `pending` is a panic.
ExecHeard(i) ==
  /\ At("execs", "execs")
  /\ i \in ready.execs
  /\ \A j \in ready.execs : j <= i
  /\ ready' = [ready EXCEPT !.execs = @ \ {i}]
  /\ IF i > Len(k.pending)
     THEN ended' = "panic" /\ UNCHANGED k
     ELSE LET p == k.pending[i]
              s == [k EXCEPT !.pending = RemoveAt(@, i)]
          IN /\ k' = CASE k.pipe[p.pid] = "open" -> k
                       [] k.pipe[p.pid] = "eof" -> Started(s, p)
                       [] k.pipe[p.pid] = "errno" -> SpawnFailed(s, p)
             /\ UNCHANGED ended
  /\ UNCHANGED <<client, in, sigs, alarm, socket>>

ExecsDone ==
  /\ At("execs", "timeouts")
  /\ ready.execs = {}
  /\ UNCHANGED <<k, client, in, sigs, alarm, socket, ready, ended>>

\* spawn_timeouts: the deadlines of some have passed, the first of them first.
SpawnTimeout(i) ==
  /\ At("timeouts", "timeouts")
  /\ i \in DOMAIN k.pending
  /\ k' = Abandon([k EXCEPT !.pending = RemoveAt(@, i)], k.pending[i])
  /\ UNCHANGED <<client, in, sigs, alarm, socket, ready, ended>>

\* Mutant of Accept: the exits nobody acked aren't told.
Accept_Silent(s) == [s EXCEPT !.conns = @ \cup Waiting]

\* accept: every client that waits; it is told the exits nobody acked.
Accept(s) ==
  LET exits == {s.ptys[i].pid : i \in {j \in Ids : s.ptys[j].exit}}
  IN [s EXCEPT !.conns = @ \cup Waiting,
               !.told = [c \in Conns |-> IF c \in Waiting THEN exits ELSE @[c]],
               !.out = [c \in Conns |-> IF c \in Waiting THEN Cardinality(exits) ELSE @[c]]]

Accepted == client' = [c \in Conns |->
                         IF c \in Waiting THEN [client[c] EXCEPT !.state = "open"]
                         ELSE client[c]]

\* Who has left and is owed a reply: writing to it fails.
Lost(s) == {c \in s.conns : client[c].state = "gone" /\ s.out[c] > 0}

\* Conn::flush of those that can be written to, the dead dropped.
Flush(reading) ==
  /\ At("timeouts", "accept")
  /\ LET s == [k EXCEPT !.out = [c \in Conns |-> IF c \in reading THEN 0 ELSE @[c]]]
     IN k' = [s EXCEPT !.conns = @ \ (s.dead \cup Lost(k)), !.dead = {}]
  /\ UNCHANGED <<client, in, sigs, alarm, socket, ready, ended>>

\* accept, when the poll saw a client; none is polled for while stopping.
AcceptSome ==
  /\ At("accept", "kills")
  /\ IF ready.listen THEN k' = Accept(k) /\ Accepted
     ELSE UNCHANGED <<k, client>>
  /\ UNCHANGED <<in, sigs, alarm, socket, ready, ended>>

\* Mutant of RunKills: the kill is noted and not sent.
RunKills_Unsent(due) ==
  /\ At("kills", "upgrade")
  /\ due \subseteq {x \in k.closed : x.kill}
  /\ k' = [k EXCEPT !.closed = (@ \ due) \cup {[pid |-> x.pid, kill |-> FALSE] : x \in due}]
  /\ UNCHANGED <<client, in, sigs, alarm, socket, ready, ended>>

\* run_kills, for those whose grace is over; then reap.
RunKills(due) ==
  /\ At("kills", "upgrade")
  /\ due \subseteq {x \in k.closed : x.kill}
  /\ LET hit == {x.pid : x \in due}
         s == [k EXCEPT !.closed = (@ \ due) \cup {[pid |-> p, kill |-> FALSE] : p \in hit}]
     IN k' = IF due = {} THEN k ELSE Reap(Kill(s, hit))
  /\ UNCHANGED <<client, in, sigs, alarm, socket, ready, ended>>

\* Mutant of Taken: the request stays.
Taken_Not(s) == s

\* upgrade.take()
Taken(s) == [s EXCEPT !.upgrade = NoUpgrade]

\* upgrade and try_upgrade: reap, flush all (the clients that don't read are
\* dropped), then exec the other binary, whose resume reaps, answers and handles
\* the lines that crossed; or fail, answer and handle them.  What is not in the
\* State is not carried: the signal pipe, `stop` and `stopping`.
Upgrade(stuck) ==
  LET s == Reap(Taken(k))
      t == [s EXCEPT !.conns = @ \ (stuck \cup s.dead \cup Lost(s)),
                     !.dead = {}, !.out = [c \in Conns |-> 0]]
      u == Reap([t EXCEPT !.stopping = FALSE, !.stop = "no"])
  IN /\ ended = "no" /\ pc = "upgrade"
     /\ k.upgrade # NoUpgrade
     /\ pc' = "read"
     /\ \/ /\ k' = Answer(u, k.upgrade.conn, k.upgrade.tag)
           /\ sigs' = {}
           /\ ready' = [conns |-> u.conns, execs |-> {}, listen |-> FALSE, next |-> "poll"]
        \/ /\ k' = Answer(t, k.upgrade.conn, k.upgrade.tag)
           /\ UNCHANGED sigs
           /\ ready' = [conns |-> t.conns, execs |-> {}, listen |-> FALSE, next |-> "end"]
     /\ UNCHANGED <<client, in, alarm, socket, ended>>

NoUpgradeNow ==
  /\ At("upgrade", "end")
  /\ k.upgrade = NoUpgrade
  /\ UNCHANGED <<k, client, in, sigs, alarm, socket, ready, ended>>

\* The owner exited, and nobody is connected.
OwnerGone ==
  /\ At("end", "end")
  /\ Owned /\ ~k.stopping /\ k.conns = {}
  /\ k' = BeginStop(k)
  /\ socket' = FALSE
  /\ UNCHANGED <<client, in, sigs, alarm, ready, ended>>

\* Mutant of StopDone: closed processes aren't waited for.
StopDone_Early(late) ==
  /\ At("end", "poll")
  /\ k.stopping
  /\ k' = [Reap(k) EXCEPT !.stop = IF @ = "no" /\ \A c \in k.conns : k.out[c] = 0 THEN "stop" ELSE @]
  /\ UNCHANGED <<client, in, sigs, alarm, socket, ready, ended>>

\* The end of the loop while stopping.
StopDone(late) ==
  /\ At("end", "poll")
  /\ k.stopping
  /\ LET s == Reap(k)
         done == s.closed = {} /\ s.pending = <<>> /\ \A c \in s.conns : s.out[c] = 0
     IN k' = IF s.stop = "no" /\ done THEN [s EXCEPT !.stop = "stop"]
             ELSE IF s.stop = "no" /\ late THEN [s EXCEPT !.stop = "late"] ELSE s
  /\ UNCHANGED <<client, in, sigs, alarm, socket, ready, ended>>

Idle ==
  /\ k.conns = {} /\ k.pending = <<>> /\ k.closed = {}
  /\ \A i \in Held(k) : k.ptys[i].exit

\* check_idle: not idle, or not for long; or idle for long enough, and the
\* socket's path goes first.
CheckIdle(long) ==
  /\ At("end", IF Idle /\ long THEN "idle" ELSE "poll")
  /\ ~k.stopping
  /\ socket' = (socket /\ ~(Idle /\ long))
  /\ UNCHANGED <<k, client, in, sigs, alarm, ready, ended>>

\* Mutant of IdleExit: who connected meanwhile isn't looked for.
IdleExit_Blind ==
  /\ At("idle", "poll")
  /\ k' = [k EXCEPT !.stop = "idle"]
  /\ UNCHANGED <<client, in, sigs, alarm, socket, ready, ended>>

\* check_idle: who connected before is accepted, and the keeper stays for them.
IdleExit ==
  /\ At("idle", "poll")
  /\ IF Waiting = {}
     THEN /\ k' = [k EXCEPT !.stop = IF @ = "no" THEN "idle" ELSE @]
          /\ UNCHANGED <<client, socket>>
     ELSE /\ k' = Accept(k) /\ Accepted
          /\ socket' = TRUE
  /\ UNCHANGED <<in, sigs, alarm, ready, ended>>

-----------------------------------------------------------------------------
(* Everyone else *)

Exists == ended = "no"

\* A forked child execs; or can't, says so and exits.
Exec(p) ==
  /\ Exists
  /\ k.proc[p] = "forked"
  /\ \/ k' = [k EXCEPT !.proc[p] = "running", !.pipe[p] = "eof"] /\ UNCHANGED sigs
     \/ k' = [k EXCEPT !.proc[p] = "zombie", !.pipe[p] = "errno"] /\ sigs' = sigs \cup {"chld"}
  /\ UNCHANGED <<client, in, alarm, socket, pc, ready, ended>>

\* A child exits, of itself or of a signal.
Exit(p) ==
  /\ Exists
  /\ Live(k, p)
  /\ k' = [k EXCEPT !.proc[p] = "zombie", !.pipe[p] = IF @ = "open" THEN "eof" ELSE @]
  /\ sigs' = sigs \cup {"chld"}
  /\ UNCHANGED <<client, in, alarm, socket, pc, ready, ended>>

Connect(c) ==
  /\ Exists /\ socket
  /\ client[c].state = "none"
  /\ client' = [client EXCEPT ![c].state = "queued"]
  /\ UNCHANGED <<k, in, sigs, alarm, socket, pc, ready, ended>>

Ask(c, op, id) ==
  /\ Exists
  /\ client[c].state = "open"
  /\ c \in k.conns
  /\ client[c].lines < MaxLine
  /\ client' = [client EXCEPT ![c].lines = @ + 1]
  /\ in' = [in EXCEPT ![c] = Append(@, [op |-> op, id |-> id, tag |-> client[c].lines + 1])]
  /\ UNCHANGED <<k, sigs, alarm, socket, pc, ready, ended>>

Leave(c) ==
  /\ Exists
  /\ client[c].state = "open"
  /\ client' = [client EXCEPT ![c].state = "gone"]
  /\ UNCHANGED <<k, in, sigs, alarm, socket, pc, ready, ended>>

\* SIGTERM: the handler writes to the signal pipe and sets an alarm, which
\* outlives an exec and, unhandled, ends the process.
Term ==
  /\ Exists /\ Terms /\ ~alarm
  /\ sigs' = sigs \cup {"term"}
  /\ alarm' = TRUE
  /\ UNCHANGED <<k, client, in, socket, pc, ready, ended>>

Alarm ==
  /\ Exists /\ alarm
  /\ ended' = "alarm"
  /\ UNCHANGED <<k, client, in, sigs, alarm, socket, pc, ready>>

Loop ==
  \/ Poll \/ Signals \/ ReadDone \/ ExecsDone \/ AcceptSome \/ NoUpgradeNow \/ OwnerGone \/ IdleExit
  \/ \E c \in Conns : ReadLine(c)
  \/ \E i \in ready.execs : ExecHeard(i)
  \/ \E i \in DOMAIN k.pending : SpawnTimeout(i)
  \/ \E cs \in SUBSET k.conns : Flush(cs)
  \/ \E due \in SUBSET k.closed : RunKills(due)
  \/ \E cs \in SUBSET {c \in k.conns : k.out[c] > 0} : Upgrade(cs)
  \/ \E b \in BOOLEAN : StopDone(b) \/ CheckIdle(b)

World ==
  \/ \E p \in Pids : Exec(p) \/ Exit(p)
  \/ \E c \in Conns : Connect(c) \/ Leave(c) \/ \E op \in Ops, id \in Ids : Ask(c, op, id)
  \/ Term \/ Alarm

Next == Loop \/ World

Spec == Init /\ [][Next]_vars

\* The loop goes on, a killed process exits, and deadlines pass: a spawn that
\* hasn't exec'd times out, a closed process's grace ends, and clients read.
Fairness ==
  /\ WF_vars(Loop)
  /\ \A p \in Pids : WF_vars(k.proc[p] = "killed" /\ Exit(p))
  /\ SF_vars(\E i \in DOMAIN k.pending : SpawnTimeout(i))
  /\ SF_vars(\E due \in SUBSET k.closed : due # {} /\ RunKills(due))
  /\ SF_vars(k.conns # {} /\ Flush(k.conns))

FairSpec == Spec /\ Fairness

-----------------------------------------------------------------------------
(* Properties *)

\* The keeper, its clients and the loop keep their shape.
TypeOK ==
  /\ k \in Keeper
  /\ client \in [Conns -> [state : {"none", "queued", "open", "gone"}, lines : 0..MaxLine]]
  /\ \A c \in Conns : in[c] \in Seq([op : Ops, id : Ids, tag : 1..MaxLine])
  /\ sigs \subseteq {"chld", "term"}
  /\ alarm \in BOOLEAN /\ socket \in BOOLEAN
  /\ pc \in {"poll", "signals", "read", "execs", "timeouts", "accept", "kills",
             "upgrade", "end", "idle"}
  /\ ended \in {"no", "term", "stop", "late", "idle", "panic", "alarm"}

\* How often the keeper means to wait for p: as a pty's, a pending spawn's or a
\* closed process.
Claims(p) ==
  Cardinality({i \in Ids : k.ptys[i] = [pid |-> p, exit |-> FALSE]})
  + Cardinality({i \in DOMAIN k.pending : k.pending[i].pid = p /\ ~k.pending[i].exit})
  + Cardinality({x \in k.closed : x.pid = p})

\* Every child is waited for once: the keeper has exactly one claim to a child
\* that it hasn't waited for, through spawns, timeouts, closes, stops and
\* upgrades, and none to one it has, so that it signals no pid that may be
\* another process's by now (close, run_kills and begin_stop against reap).
WaitedForOnce ==
  ended = "no" =>
    \A p \in Pids :
      Claims(p) = IF k.proc[p] \in {"new", "reaped"} THEN 0 ELSE 1

\* No request is answered twice: a spawn that was answered is pending no more,
\* and the lines and spawns that cross an upgrade are answered by one of the
\* two programs (started, spawn_failed, upgrade and resume).
AnsweredOnce ==
  \A c \in Conns :
    \A i, j \in DOMAIN k.answered[c] : k.answered[c][i] = k.answered[c][j] => i = j

\* Every client that stays connected knows of every exit nobody acked: it was
\* told on connecting, by reap, or by started of a spawn that was over at once
\* (also across an upgrade).
ExitsTold ==
  \A c \in k.conns, i \in Ids : k.ptys[i].exit => k.ptys[i].pid \in k.told[c]

\* An exit by itself leaves nobody behind: going idle, the keeper has no child
\* and no client that could connect waits for it; stopping, it has no child
\* (check_idle's second accept, and the end of the loop while stopping).
EndsClean ==
  /\ ended \in {"idle", "stop"} => \A p \in Pids : k.proc[p] \in {"new", "reaped"}
  /\ ended = "idle" => Waiting = {}

\* A stop is final: once it is handled, no pty and no spawn is there again.
StopIsFinal ==
  k.asked /\ ended = "no" => Held(k) = {} /\ k.pending = <<>>

\* A keeper that was asked to stop exits once every process it closed is
\* reaped (unless that takes too long, or it is sent a signal).
StopReaps ==
  k.asked /\ ended \notin {"no", "late", "term", "alarm"} =>
    \A p \in Pids : k.proc[p] \in {"new", "reaped"}

\* A request is answered: a spawn too, whatever its child does, and also one
\* that waits for an upgrade (unless the client or the keeper is gone by then).
Answered ==
  \A c \in Conns, tag \in 1..MaxLine :
    client[c].lines >= tag ~>
      \/ \E i \in DOMAIN k.answered[c] : k.answered[c][i] = tag
      \/ c \notin k.conns \/ ended # "no"

\* A stop ends the keeper, though the processes it closes ignore SIGHUP and
\* spawns are under way.
StopEnds == k.asked ~> ended # "no"
=============================================================================
