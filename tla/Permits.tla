------------------------------ MODULE Permits ------------------------------
(***************************************************************************)
(* The permission one machine keeps for one task, as kanna-daemon's        *)
(* replica.rs stores it in the table `authority`: an epoch, what the       *)
(* machine may do (the permit) and, for a permission given away, to whom.  *)
(* Every operator is the new row that a function of replica.rs writes in   *)
(* its transaction; a caller pairs it with the guard of the same function. *)
(***************************************************************************)
EXTENDS Integers

CONSTANTS Machines,   \* the daemons' endpoint keys, ordered as the keys are
          NoOne       \* the recipient of a permission that wasn't given away

ASSUME MachinesAssumption ==
  /\ Machines \subseteq Nat
  /\ NoOne \notin Machines

Permit == {"none", "ready", "running", "sent", "acked"}

Authority == [epoch : Nat, permit : Permit, to : Machines \cup {NoOne}]

\* No row in the table: this machine was never given the task.
NoAuthority == [epoch |-> 0, permit |-> "none", to |-> NoOne]

\* The permits a start is allowed from (and a hand-over: Replica::hand).
Held(a) == a.permit \in {"ready", "running"}

Hold(a, permit) == [epoch |-> a.epoch, permit |-> permit, to |-> NoOne]

HoldUnlessHeld(a, permit) ==
  IF a.permit = "none" THEN [epoch |-> 0, permit |-> permit, to |-> NoOne]
                       ELSE a

\* Replica::start: ready becomes running, running stays; guard Held(a).
Start(a) == IF a.permit = "ready" THEN Hold(a, "running") ELSE a

\* Mutants of GiveTo: the permission is given and kept; it isn't kept for resending.
GiveTo_Kept(a, m) == [epoch |-> a.epoch + 1, permit |-> "ready", to |-> m]
GiveTo_Forgotten(a, m) == [epoch |-> a.epoch + 1, permit |-> "none", to |-> NoOne]

\* Replica::grant, guard a.permit = "ready", and Replica::hand, guard Held(a):
\* both give the permission up at the next epoch and remember the receiver.
GiveTo(a, m) == [epoch |-> a.epoch + 1, permit |-> "sent", to |-> m]

\* Replica::reclaim: the permission is back, at the epoch it was given at.
Reclaim(epoch) == [epoch |-> epoch, permit |-> "running", to |-> NoOne]

\* Replica::take: a takeover helps itself to the epoch after its own last one.
Take(a) == [epoch |-> a.epoch + 1, permit |-> "ready", to |-> NoOne]

IsNews(a, epoch) == a.permit = "none" \/ a.epoch < epoch

\* Mutants of Receive: any grant is taken; one that follows at once isn't.
Receive_Any(a, epoch) == [epoch |-> epoch, permit |-> "ready", to |-> NoOne]
Receive_OffByOne(a, epoch) ==
  IF a.permit = "none" \/ a.epoch + 1 < epoch
  THEN [epoch |-> epoch, permit |-> "ready", to |-> NoOne]
  ELSE a

\* Replica::receive: only a grant newer than every epoch seen here counts.
Receive(a, epoch) ==
  IF IsNews(a, epoch)
  THEN [epoch |-> epoch, permit |-> "ready", to |-> NoOne]
  ELSE a

\* Mutant of Acked: an acknowledgement of any epoch counts.
Acked_AnyEpoch(a, epoch) ==
  IF a.permit = "sent" THEN [epoch |-> a.epoch, permit |-> "acked", to |-> a.to] ELSE a

\* Replica::acked: only the grant of that very epoch stops being resent.
Acked(a, epoch) ==
  IF a.permit = "sent" /\ a.epoch = epoch
  THEN [epoch |-> a.epoch, permit |-> "acked", to |-> a.to]
  ELSE a

\* yielded: another machine ran the task, so this one gives its copy up.
Yielded(a, to) == [epoch |-> a.epoch, permit |-> "acked", to |-> to]
=============================================================================
