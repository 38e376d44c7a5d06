----------------------------- MODULE ReplicaSync -----------------------------
(***************************************************************************)
(* How daemons keep each other's task records (kanna-daemon's replica.rs   *)
(* and the sync of tasks.rs): every write is an op stamped by a hybrid     *)
(* clock and kept for ever; a daemon sends its version vector, the latest  *)
(* stamp it has of each device, and gets the ops after it, a limited       *)
(* number at a time; the latest op of a field is its value.                *)
(*                                                                         *)
(* A stamp (ms, n) is one number, and the wall clock, which may be wrong   *)
(* or go back, is any number: tick takes one past the machine's clock.     *)
(***************************************************************************)
EXTENDS Integers, FiniteSets

CONSTANTS Machines,   \* the devices, ordered as their keys are
          Fields, Values,
          MaxOps,     \* MAX_OPS: the most ops one message carries
          MaxTime,    \* bound: the largest stamp
          MaxPushes   \* bound: pushes on their way; more are lost

ASSUME SyncAssumption ==
  /\ Machines \subseteq Nat \ {0}
  /\ MaxOps \in Nat \ {0}
  /\ MaxTime \in Nat
  /\ MaxPushes \in Nat

VARIABLES log,      \* each machine's record_ops (kanna.db)
          hlc,      \* its clock as it was saved (kanna.db)
          clock,    \* its clock
          seen,     \* its version vector (memory)
          rec,      \* the latest op of each field (memory)
          syncing,  \* the machines it waits for an answer from (memory)
          asks, answers, pushes   \* on their way

disk == <<log, hlc>>
wire == <<asks, answers, pushes>>
vars == <<log, hlc, clock, seen, rec, syncing, asks, answers, pushes>>

Time == 0..MaxTime
Op == [at : 1..MaxTime, by : Machines, field : Fields, value : Values]

\* The device's latest stamp, 0 without one: Replica::vector leaves such a device
\* out, and ops_after takes one that is left out to be before every stamp.
Vector == [Machines -> Time]

\* A field nobody wrote.
NoOp == [at |-> 0, by |-> 0]

\* Hlc's order: the time, then the device.
Later(o, p) == o.at > p.at \/ (o.at = p.at /\ o.by > p.by)

Init ==
  /\ log = [m \in Machines |-> {}]
  /\ hlc = [m \in Machines |-> 0]
  /\ clock = [m \in Machines |-> 0]
  /\ seen = [m \in Machines |-> [d \in Machines |-> 0]]
  /\ rec = [m \in Machines |-> [f \in Fields |-> NoOp]]
  /\ syncing = [m \in Machines |-> {}]
  /\ asks = {} /\ answers = {} /\ pushes = {}

-----------------------------------------------------------------------------
(* One replica *)

\* t is the latest of the time c and the stamps of the ops of S.
Latest(c, S, t) ==
  /\ t >= c
  /\ \A o \in S : o.at <= t
  /\ t = c \/ \E o \in S : o.at = t

\* Mutant of Seen: an op that arrives wins.
Seen_Arrival(r, S) ==
  [f \in Fields |-> LET new == {o \in S : o.field = f}
                    IN IF new = {} THEN r[f] ELSE CHOOSE o \in new : TRUE]

\* Record::see for every op of S.
Seen(r, S) ==
  [f \in Fields |->
     LET newer == {o \in S : o.field = f /\ Later(o, r[f])}
     IN IF newer = {} THEN r[f]
        ELSE CHOOSE o \in newer : \A p \in newer : p = o \/ Later(o, p)]

\* project, of every op of S
Project(m, v, r, S) ==
  /\ \E w \in [Machines -> {v[d] : d \in Machines} \cup {o.at : o \in S}] :
       /\ \A d \in Machines : Latest(v[d], {o \in S : o.by = d}, w[d])
       /\ seen' = [seen EXCEPT ![m] = w]
  /\ rec' = [rec EXCEPT ![m] = Seen(r, S)]

\* Mutant of Tick: past the machine's own writes only.
Tick_Own(m, t) == t > seen[m][m]

\* Replica::tick
Tick(m, t) == t > clock[m]

\* Mutant of Stamped: the clock is read before it ticks.
Stamped_Early(m, t, f, v) == [at |-> clock[m], by |-> m, field |-> f, value |-> v]

\* Replica::stage: the op of a clock that has just ticked to t.
Stamped(m, t, f, v) == [at |-> t, by |-> m, field |-> f, value |-> v]

\* Replica::write: a value that changes gets a stamp, and is saved with the clock
\* in one transaction, or isn't, and the clock has ticked.
Write(m, f, v, saved) ==
  LET same == rec[m][f] # NoOp /\ rec[m][f].value = v
  IN /\ ~same
     /\ \E t \in 1..MaxTime :
          LET o == Stamped(m, t, f, v)
          IN /\ Tick(m, t)
             /\ clock' = [clock EXCEPT ![m] = t]
             /\ IF saved
                THEN /\ log' = [log EXCEPT ![m] = @ \cup {o}]
                     /\ hlc' = [hlc EXCEPT ![m] = t]
                     /\ Project(m, seen[m], rec[m], {o})
                ELSE UNCHANGED <<log, hlc, seen, rec>>
     /\ UNCHANGED syncing /\ UNCHANGED wire

\* apply: the clock sees the ops first, then they are saved with it, or not.
Apply(m, S, saved) ==
  /\ \E t \in Time : Latest(clock[m], S, t) /\ clock' = [clock EXCEPT ![m] = t]
  /\ IF saved
     THEN /\ log' = [log EXCEPT ![m] = @ \cup S]
          /\ hlc' = [hlc EXCEPT ![m] = clock'[m]]
          /\ Project(m, seen[m], rec[m], S)
     ELSE UNCHANGED <<log, hlc, seen, rec>>

\* Mutant of OpsAfter: the ops of a message aren't the first ones.
OpsAfter_AnyOrder(l, v) ==
  {S \in SUBSET {o \in l : o.at > v[o.by]} : Cardinality(S) <= MaxOps}

\* ops_after: of each device the first ops past the vector, up to MAX_OPS in all;
\* which device comes first is up to the hash map.
OpsAfter(l, v) ==
  LET missing == {o \in l : o.at > v[o.by]}
  IN {S \in SUBSET missing :
        /\ \A o \in S, p \in missing : p.by = o.by /\ p.at < o.at => p \in S
        /\ Cardinality(S) <= MaxOps
        /\ S = missing \/ Cardinality(S) = MaxOps}

\* Replica::open: the clock as saved, and every op of the table projected.  What
\* the machine asked for is asked by nobody now.
Restart(m) ==
  /\ \E t \in Time : Latest(hlc[m], log[m], t) /\ clock' = [clock EXCEPT ![m] = t]
  /\ Project(m, [d \in Machines |-> 0], [f \in Fields |-> NoOp], log[m])
  /\ syncing' = [syncing EXCEPT ![m] = {}]
  /\ asks' = {q \in asks : q.from # m}
  /\ answers' = {r \in answers : r.to # m}
  /\ UNCHANGED pushes /\ UNCHANGED disk

-----------------------------------------------------------------------------
(* Syncing *)

\* sync_all: one ask at a time to each machine.
Sync(m, p) ==
  /\ m # p
  /\ p \notin syncing[m]
  /\ syncing' = [syncing EXCEPT ![m] = @ \cup {p}]
  /\ asks' = asks \cup {[from |-> m, to |-> p, vector |-> seen[m]]}
  /\ UNCHANGED <<clock, seen, rec, answers, pushes>> /\ UNCHANGED disk

\* replica_command "sync"
AnswerSync(q) ==
  /\ q \in asks
  /\ asks' = asks \ {q}
  /\ \E S \in OpsAfter(log[q.to], q.vector) :
       answers' = answers \cup {[from |-> q.to, to |-> q.from, ops |-> S,
                                 vector |-> seen[q.to]]}
  /\ UNCHANGED <<clock, seen, rec, syncing, pushes>> /\ UNCHANGED disk

\* replied, Asked::Sync: the ops are taken, and what the other lacks, as far as
\* this machine has it now, is sent back.
Synced(r, saved) ==
  LET m == r.to
  IN /\ r \in answers
     /\ r.from \in syncing[m]
     /\ answers' = answers \ {r}
     /\ syncing' = [syncing EXCEPT ![m] = @ \ {r.from}]
     /\ Apply(m, r.ops, saved)
     /\ \E S \in OpsAfter(log'[m], r.vector) :
          pushes' = IF S = {} \/ Cardinality(pushes) = MaxPushes THEN pushes
                    ELSE pushes \cup {[to |-> r.from, ops |-> S]}
     /\ UNCHANGED asks

\* replica_command "ops"
TakeOps(p, saved) ==
  /\ p \in pushes
  /\ pushes' = pushes \ {p}
  /\ Apply(p.to, p.ops, saved)
  /\ UNCHANGED <<syncing, asks, answers>>

\* Mutant of Broken: it isn't over for who asked.
Broken_Waits(m, p) ==
  /\ p \in syncing[m]
  /\ asks' = {q \in asks : q.from # m \/ q.to # p}
  /\ answers' = {r \in answers : r.to # m \/ r.from # p}
  /\ UNCHANGED <<clock, seen, rec, syncing, pushes>> /\ UNCHANGED disk

\* The stream of a sync breaks: it is over for who asked.
Broken(m, p) ==
  /\ p \in syncing[m]
  /\ syncing' = [syncing EXCEPT ![m] = @ \ {p}]
  /\ asks' = {q \in asks : q.from # m \/ q.to # p}
  /\ answers' = {r \in answers : r.to # m \/ r.from # p}
  /\ UNCHANGED <<clock, seen, rec, pushes>> /\ UNCHANGED disk

LosePush(p) ==
  /\ p \in pushes
  /\ pushes' = pushes \ {p}
  /\ UNCHANGED <<clock, seen, rec, syncing, asks, answers>> /\ UNCHANGED disk

Next ==
  \/ \E m \in Machines, f \in Fields, v \in Values, saved \in BOOLEAN : Write(m, f, v, saved)
  \/ \E m, p \in Machines : Sync(m, p) \/ Broken(m, p)
  \/ \E m \in Machines : Restart(m)
  \/ \E q \in asks : AnswerSync(q)
  \/ \E r \in answers, saved \in BOOLEAN : Synced(r, saved)
  \/ \E p \in pushes : LosePush(p) \/ \E saved \in BOOLEAN : TakeOps(p, saved)

Spec == Init /\ [][Next]_vars

\* A daemon syncs every 3 s for ever, and however often streams break, machines
\* restart and kanna.db can't be written, asks are answered and answers taken.
Fairness ==
  \A m \in Machines : \A p \in Machines \ {m} :
    /\ WF_vars(Sync(m, p))
    /\ SF_vars(\E q \in asks : q.from = m /\ q.to = p /\ AnswerSync(q))
    /\ SF_vars(\E r \in answers : r.to = m /\ r.from = p /\ Synced(r, TRUE))

FairSpec == Spec /\ Fairness

-----------------------------------------------------------------------------
(* Properties *)

\* Tables, memory and messages keep their shape.
TypeOK ==
  /\ log \in [Machines -> SUBSET Op]
  /\ hlc \in [Machines -> Time]
  /\ clock \in [Machines -> Time]
  /\ seen \in [Machines -> Vector]
  /\ \A m \in Machines : rec[m] \in [Fields -> Op \cup {NoOp}]
  /\ syncing \in [Machines -> SUBSET Machines]
  /\ asks \subseteq [from : Machines, to : Machines, vector : Vector]
  /\ answers \subseteq [from : Machines, to : Machines, ops : SUBSET Op, vector : Vector]
  /\ pushes \subseteq [to : Machines, ops : SUBSET Op]

\* A machine has an unbroken run of every device's ops: all that the device made
\* up to the vector's entry, so that the vector says exactly what it lacks,
\* although messages carry part of the ops, are lost, cross each other, and
\* machines write and restart meanwhile (tick, ops_after and apply).
UnbrokenRun ==
  \A m, d \in Machines :
    \A o \in log[d] : o.by = d /\ o.at <= seen[m][d] => o \in log[m]

\* The record in memory is the latest write of each field in the table, in
\* whatever order ops came and across restarts: machines with the same ops have
\* the same record (see, apply and open).
RecordIsLatest ==
  \A m \in Machines, f \in Fields :
    /\ rec[m][f] = NoOp \/ rec[m][f] \in log[m]
    /\ \A o \in log[m] : o.field = f => o = rec[m][f] \/ Later(rec[m][f], o)

\* A write shows where it is made: no op the machine has, from a clock ahead of
\* its own or from before a restart, is later (tick after project, apply and
\* open).
OwnWriteShows ==
  [][\A m \in Machines : \A o \in log'[m] \ log[m] :
       o.by = m => rec'[m][o.field] = o]_vars

\* Once nobody writes any more, every machine gets every op: limited messages,
\* lost pushes and restarts only delay it (sync_all, replied and ops_after).
Converges == <>[](\A m, p \in Machines : log[m] = log[p])
=============================================================================
