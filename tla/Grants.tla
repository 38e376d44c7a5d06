------------------------------- MODULE Grants -------------------------------
(***************************************************************************)
(* The permission to start one task, as it moves between machines: what    *)
(* the `authority` tables of all daemons and the grants on their way do    *)
(* together.  This is the abstract specification of the replicated Shelf:  *)
(* Shelf.tla, with the records, asks, starts and restarts, implements it.  *)
(*                                                                         *)
(* An action is one transaction of replica.rs and the message that goes    *)
(* with it.  A grant reaches its machine as the answer to its ask or as a  *)
(* resent `grant` request (sync_all); either may be lost, delivered late   *)
(* or again.                                                               *)
(***************************************************************************)
EXTENDS Permits

CONSTANTS Maker,     \* the machine the task was made on
          MaxEpoch   \* bound: how often the permission may change hands

ASSUME GrantsAssumption ==
  /\ Maker \in Machines
  /\ MaxEpoch \in Nat

VARIABLES auth,     \* each machine's authority row for the task
          grants,   \* grants on their way
          acks,     \* acknowledgements on their way
          apart     \* history: a machine was away so long that the task was taken

vars == <<auth, grants, acks, apart>>

Grant == [from : Machines, to : Machines, epoch : Nat]
Ack == [by : Machines, to : Machines, epoch : Nat]

Init ==
  /\ auth = [m \in Machines |->
               IF m = Maker THEN HoldUnlessHeld(NoAuthority, "ready")
                            ELSE NoAuthority]
  /\ grants = {}
  /\ acks = {}
  /\ apart = FALSE

\* Prepare: a start takes the permission from ready to running.
StartHere(m) ==
  /\ Held(auth[m])
  /\ auth' = [auth EXCEPT ![m] = Start(@)]
  /\ UNCHANGED <<grants, acks, apart>>

\* Replica::grant: given up in one transaction, and sent as the ask's answer.
GrantTo(o, m) ==
  /\ o # m
  /\ auth[o].permit = "ready"
  /\ auth[o].epoch < MaxEpoch
  /\ auth' = [auth EXCEPT ![o] = GiveTo(@, m)]
  /\ grants' = grants \cup {[from |-> o, to |-> m, epoch |-> auth[o].epoch + 1]}
  /\ UNCHANGED <<acks, apart>>

\* Mutant of Resend: what was never given goes out too.
Resend_Any(o) ==
  /\ grants' = grants \cup {[from |-> o, to |-> auth[o].to, epoch |-> auth[o].epoch]}
  /\ UNCHANGED <<auth, acks, apart>>

\* sync_all: every permission still `sent` goes out again, as it was.
Resend(o) ==
  /\ auth[o].permit = "sent"
  /\ grants' = grants \cup {[from |-> o, to |-> auth[o].to, epoch |-> auth[o].epoch]}
  /\ UNCHANGED <<auth, acks, apart>>

\* Mutant of TakeGrant: a grant that is no news isn't acknowledged.
TakeGrant_NewsOnly(g) ==
  /\ auth' = [auth EXCEPT ![g.to] = Receive(@, g.epoch)]
  /\ grants' \in {grants, grants \ {g}}
  /\ acks' = IF IsNews(auth[g.to], g.epoch)
             THEN acks \cup {[by |-> g.to, to |-> g.from, epoch |-> g.epoch]} ELSE acks
  /\ UNCHANGED apart

\* take_grant: taken if it is news here, and acknowledged either way.  The ask's
\* answer and the resent grant may both be on their way: a copy may stay.
TakeGrant(g) ==
  /\ auth' = [auth EXCEPT ![g.to] = Receive(@, g.epoch)]
  /\ grants' \in {grants, grants \ {g}}
  /\ acks' = acks \cup {[by |-> g.to, to |-> g.from, epoch |-> g.epoch]}
  /\ UNCHANGED apart

\* The `ack` request, or the answer to a resent grant.
TakeAck(a) ==
  /\ auth' = [auth EXCEPT ![a.to] = Acked(@, a.epoch)]
  /\ acks' = acks \ {a}
  /\ UNCHANGED <<grants, apart>>

\* Connections break, daemons restart: what was on its way may be gone.
Lose ==
  /\ grants' \in SUBSET grants
  /\ acks' \in SUBSET acks
  /\ UNCHANGED <<auth, apart>>

\* fill, Candidate::Take: the permission is taken without a grant, and the
\* start that follows in the same handler may make it running at once.
TakeOver(m) ==
  /\ auth[m].epoch < MaxEpoch
  /\ \E a \in {Take(auth[m]), Start(Take(auth[m]))} :
       auth' = [auth EXCEPT ![m] = a]
  /\ apart' = TRUE
  /\ UNCHANGED <<grants, acks>>

\* give_up: this machine's unstarted copy goes to a machine that ran it, which
\* only a takeover makes possible.
GiveUp(m, by) ==
  /\ apart
  /\ m # by
  /\ Held(auth[m])
  /\ auth' = [auth EXCEPT ![m] = Yielded(@, by)]
  /\ UNCHANGED <<grants, acks, apart>>

Next ==
  \/ \E m \in Machines : StartHere(m) \/ Resend(m) \/ TakeOver(m)
  \/ \E o, m \in Machines : GrantTo(o, m) \/ GiveUp(o, m)
  \/ \E g \in grants : TakeGrant(g)
  \/ \E a \in acks : TakeAck(a)
  \/ Lose

Spec == Init /\ [][Next]_vars

\* A `sent` grant is resent every 3 s for as long as it isn't acked, and a
\* request resent for ever reaches a machine that isn't away for ever.
Fairness ==
  \A m \in Machines :
    /\ WF_vars(Resend(m) /\ grants' # grants)
    /\ SF_vars(\E g \in grants : g.from = m /\ g.epoch = auth[m].epoch /\ TakeGrant(g))
    /\ SF_vars(\E a \in acks : a.to = m /\ a.epoch = auth[m].epoch /\ TakeAck(a))

FairSpec == Spec /\ Fairness

-----------------------------------------------------------------------------
(* Properties *)

\* The authority rows and the messages keep their shape.
TypeOK ==
  /\ auth \in [Machines -> Authority]
  /\ grants \subseteq Grant
  /\ acks \subseteq Ack
  /\ apart \in BOOLEAN

\* Until the task is taken over, at most one machine may start it or give it
\* away, however grants and acknowledgements are lost, resent and reordered
\* (replica.rs `grant` gives up in the transaction that sends, `receive` takes
\* only a newer epoch).
AtMostOneHolder ==
  ~apart => \A m, n \in Machines : Held(auth[m]) /\ Held(auth[n]) => m = n

\* The permission `o` gave away, and its receiver has yet to take.
Untaken(o) == auth[o].permit = "sent" /\ IsNews(auth[auth[o].to], auth[o].epoch)

\* Until the task is taken over, the permission is never lost: a machine holds
\* it, or one that gave it away keeps resending it to a machine that will take
\* it (`outbox` still lists it).
NeverLost ==
  ~apart => \E m \in Machines : Held(auth[m]) \/ Untaken(m)

\* Until the task is taken over, a grant stops being resent only once its receiver
\* has it: `acked` never outruns `receive`, whatever acknowledgements arrive late.
AckedWasTaken ==
  ~apart => \A m \in Machines :
    auth[m].permit = "acked" => ~IsNews(auth[auth[m].to], auth[m].epoch)

\* A machine that gave the permission up, or never had it, holds it again only
\* at a larger epoch than it ever had: an old grant delivered again gives
\* nothing, with takeovers too.
HeldAgainIsNewer ==
  [][\A m \in Machines :
       /\ auth'[m].epoch >= auth[m].epoch
       /\ Held(auth'[m]) /\ ~Held(auth[m]) => auth'[m].epoch > auth[m].epoch]_vars

\* A grant that is kept for resending reaches its machine and stops being
\* resent in the end (sync_all resends until `acked`), unless a takeover meanwhile
\* makes it old.
GrantArrives ==
  \A o \in Machines : \A m \in Machines \ {o} : \A e \in 1..MaxEpoch :
    LET given == [epoch |-> e, permit |-> "sent", to |-> m]
    IN (auth[o] = given) ~> (auth[o] # given /\ (auth[m].epoch >= e \/ apart))
=============================================================================
