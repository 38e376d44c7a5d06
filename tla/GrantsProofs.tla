---------------------------- MODULE GrantsProofs ----------------------------
(***************************************************************************)
(* Theorems about Grants, for every set of machines and every bound.       *)
(***************************************************************************)
EXTENDS Grants, TLAPS

\* Some grant, acknowledgement or row says that t was given epoch e.
Claim(t, e) ==
  \/ \E g \in grants : g.to = t /\ g.epoch = e
  \/ \E a \in acks : a.by = t /\ a.epoch = e
  \/ \E o \in Machines :
       auth[o].permit \in {"sent", "acked"} /\ auth[o].to = t /\ auth[o].epoch = e

\* A row that gave the permission away names who got it.
RowOK(a) ==
  /\ a \in Authority
  /\ a.permit = "none" => a.epoch = 0
  /\ a.permit \in {"sent", "acked"} => a.to \in Machines

Types ==
  /\ TypeOK
  /\ \A m \in Machines : RowOK(auth[m])

\* An epoch is given to one machine only.
OneReceiver ==
  \A t, u \in Machines : \A e \in Nat : Claim(t, e) /\ Claim(u, e) => t = u

\* The holder's epoch is the latest of all.
HolderIsLatest ==
  \A m \in Machines : Held(auth[m]) =>
    /\ \A n \in Machines : auth[n].epoch <= auth[m].epoch
    /\ \A t \in Machines : \A e \in Nat :
         Claim(t, e) => e <= auth[m].epoch /\ (e = auth[m].epoch => t = m)

\* A grant its receiver has yet to take is the latest of all, and nobody holds
\* the permission meanwhile.
UntakenIsLatest ==
  \A t \in Machines : \A e \in Nat : Claim(t, e) /\ auth[t].epoch < e =>
    /\ \A m \in Machines : ~Held(auth[m]) /\ auth[m].epoch <= e
    /\ \A u \in Machines : \A f \in Nat : Claim(u, f) => f <= e

\* What is acknowledged was taken.
AcksAreTaken == \A a \in acks : a.epoch <= auth[a.by].epoch
AckedRowsAreTaken ==
  \A m \in Machines : auth[m].permit = "acked" => auth[m].epoch <= auth[auth[m].to].epoch

OneHolder == \A m, n \in Machines : Held(auth[m]) /\ Held(auth[n]) => m = n

SomeoneHas == \E m \in Machines :
  \/ Held(auth[m])
  \/ auth[m].permit = "sent" /\ auth[auth[m].to].epoch < auth[m].epoch

ClaimsArePositive == \A t \in Machines : ~Claim(t, 0)

IInv ==
  /\ Types
  /\ ClaimsArePositive
  /\ OneReceiver
  /\ HolderIsLatest
  /\ UntakenIsLatest
  /\ AcksAreTaken
  /\ AckedRowsAreTaken
  /\ OneHolder
  /\ SomeoneHas

-----------------------------------------------------------------------------
(* Types *)

\* Every operator of Permits yields a well-formed row.
LEMMA RowTypes ==
  ASSUME NEW a, RowOK(a), NEW m \in Machines, NEW e \in Nat
  PROVE  /\ RowOK(Start(a))
         /\ RowOK(GiveTo(a, m))
         /\ RowOK(Receive(a, e))
         /\ RowOK(Acked(a, e))
         /\ RowOK(Take(a))
         /\ RowOK(Yielded(a, m))
BY MachinesAssumption
   DEF RowOK, Authority, Permit, Start, Hold, GiveTo, Receive, IsNews, Acked, Take, Yielded

\* One step keeps the types, takeovers included.
LEMMA TypeStep == Types /\ [Next]_vars => Types'
<1> SUFFICES ASSUME Types, [Next]_vars PROVE Types'
  OBVIOUS
<1> USE GrantsAssumption, MachinesAssumption
<1>0. apart' \in BOOLEAN
  BY Zenon DEF Types, TypeOK, Next, vars, StartHere, Resend, TakeOver, GrantTo, GiveUp,
               TakeGrant, TakeAck, Lose
<1>a. ASSUME NEW m \in Machines, NEW a, RowOK(a), auth' = [auth EXCEPT ![m] = a],
             grants' \subseteq Grant, acks' \subseteq Ack
      PROVE  Types'
  BY <1>0, <1>a DEF Types, TypeOK, RowOK
<1>b. ASSUME UNCHANGED auth, grants' \subseteq Grant, acks' \subseteq Ack PROVE Types'
  BY <1>0, <1>b DEF Types, TypeOK
<1>c. /\ grants \subseteq Grant
      /\ acks \subseteq Ack
      /\ \A m \in Machines : RowOK(auth[m]) /\ auth[m].epoch \in Nat
  BY DEF Types, TypeOK, RowOK, Authority
<1>1. ASSUME NEW m \in Machines, StartHere(m) PROVE Types'
  BY <1>1, <1>a, <1>c, RowTypes DEF StartHere
<1>2. ASSUME NEW m \in Machines, Resend(m) PROVE Types'
  BY <1>2, <1>b, <1>c DEF Resend, RowOK, Grant
<1>3. ASSUME NEW m \in Machines, TakeOver(m) PROVE Types'
  <2>1. PICK a \in {Take(auth[m]), Start(Take(auth[m]))} : auth' = [auth EXCEPT ![m] = a]
    BY <1>3 DEF TakeOver
  <2>2. RowOK(Take(auth[m])) /\ RowOK(Start(Take(auth[m])))
    BY <1>c, RowTypes
  <2>3. QED
    BY <1>3, <1>a, <1>c, <2>1, <2>2 DEF TakeOver
<1>4. ASSUME NEW o \in Machines, NEW m \in Machines, GrantTo(o, m) PROVE Types'
  <2>1. grants' \subseteq Grant
    BY <1>4, <1>c DEF GrantTo, Grant
  <2>2. QED
    BY <1>4, <1>a, <1>c, <2>1, RowTypes DEF GrantTo
<1>5. ASSUME NEW o \in Machines, NEW m \in Machines, GiveUp(o, m) PROVE Types'
  BY <1>5, <1>a, <1>c, RowTypes DEF GiveUp
<1>6. ASSUME NEW g \in grants, TakeGrant(g) PROVE Types'
  <2>1. g.to \in Machines /\ g.from \in Machines /\ g.epoch \in Nat
    BY <1>c DEF Grant
  <2>2. grants' \subseteq Grant /\ acks' \subseteq Ack
    BY <1>6, <1>c, <2>1 DEF TakeGrant, Ack
  <2>3. QED
    BY <1>6, <1>a, <1>c, <2>1, <2>2, RowTypes DEF TakeGrant
<1>7. ASSUME NEW a \in acks, TakeAck(a) PROVE Types'
  <2>1. a.to \in Machines /\ a.epoch \in Nat
    BY <1>c DEF Ack
  <2>2. QED
    BY <1>7, <1>a, <1>c, <2>1, RowTypes DEF TakeAck
<1>8. CASE Lose
  BY <1>8, <1>b, <1>c DEF Lose
<1>9. CASE UNCHANGED vars
  BY <1>9, <1>b, <1>c DEF vars
<1>10. QED
  BY <1>1, <1>2, <1>3, <1>4, <1>5, <1>6, <1>7, <1>8, <1>9 DEF Next

\* The first state has the types.
LEMMA TypeInit == Init => Types
<1> SUFFICES ASSUME Init PROVE Types
  OBVIOUS
<1>1. apart \in BOOLEAN
  BY Zenon DEF Init
<1>2. QED
  BY <1>1, GrantsAssumption, MachinesAssumption
     DEF Init, Types, TypeOK, RowOK, Authority, Permit, NoAuthority, HoldUnlessHeld

\* The authority rows and the messages keep their shape (TypeOK), for any
\* machines and bounds, with and without takeovers.
THEOREM TypeCorrect == Spec => []TypeOK
<1>1. Spec => []Types
  BY TypeInit, TypeStep, PTL DEF Spec
<1>2. QED
  BY <1>1, PTL DEF Types

-----------------------------------------------------------------------------
(* A permission held again is newer *)

\* What a step may do to one machine's row.
NewerOrSame(a, b) == b.epoch >= a.epoch /\ (Held(b) /\ ~Held(a) => b.epoch > a.epoch)

\* No operator of Permits lowers the epoch, or holds again at the same one.
LEMMA RowSteps ==
  ASSUME NEW a, RowOK(a), NEW m \in Machines, NEW e \in Nat
  PROVE  /\ NewerOrSame(a, a)
         /\ Held(a) => NewerOrSame(a, Start(a))
         /\ NewerOrSame(a, GiveTo(a, m))
         /\ e > 0 => NewerOrSame(a, Receive(a, e))
         /\ NewerOrSame(a, Acked(a, e))
         /\ NewerOrSame(a, Take(a))
         /\ NewerOrSame(a, Start(Take(a)))
         /\ NewerOrSame(a, Yielded(a, m))
BY MachinesAssumption
   DEF RowOK, Authority, Permit, NewerOrSame, Held, Start, Hold, GiveTo, Receive, IsNews,
       Acked, Take, Yielded

\* Grants are made at the epoch after one that was held, so never at 0.
GrantsArePositive ==
  /\ \A g \in grants : g.epoch > 0
  /\ \A m \in Machines : auth[m].permit = "sent" => auth[m].epoch > 0

\* One step keeps grants at positive epochs: giving away raises the epoch.
LEMMA PositiveStep == Types /\ GrantsArePositive /\ [Next]_vars => GrantsArePositive'
<1> SUFFICES ASSUME Types, GrantsArePositive, [Next]_vars PROVE GrantsArePositive'
  OBVIOUS
<1> USE DEF GrantsArePositive
<1>c. /\ \A m \in Machines : RowOK(auth[m]) /\ auth[m].epoch \in Nat
      /\ auth \in [Machines -> Authority]
      /\ \A g \in grants : g.to \in Machines /\ g.epoch \in Nat
      /\ \A a \in acks : a.to \in Machines /\ a.epoch \in Nat
  BY DEF Types, TypeOK, RowOK, Authority, Grant, Ack
<1>1. ASSUME NEW m \in Machines, StartHere(m) PROVE GrantsArePositive'
  BY <1>1, <1>c DEF StartHere, Held, Start, Hold
<1>2. ASSUME NEW m \in Machines, Resend(m) PROVE GrantsArePositive'
  BY <1>2, <1>c DEF Resend
<1>3. ASSUME NEW m \in Machines, TakeOver(m) PROVE GrantsArePositive'
  BY <1>3, <1>c DEF TakeOver, Take, Start, Hold
<1>4. ASSUME NEW o \in Machines, NEW m \in Machines, GrantTo(o, m) PROVE GrantsArePositive'
  BY <1>4, <1>c DEF GrantTo, GiveTo
<1>5. ASSUME NEW o \in Machines, NEW m \in Machines, GiveUp(o, m) PROVE GrantsArePositive'
  BY <1>5, <1>c DEF GiveUp, Yielded
<1>6. ASSUME NEW g \in grants, TakeGrant(g) PROVE GrantsArePositive'
  BY <1>6, <1>c DEF TakeGrant, Receive
<1>7. ASSUME NEW a \in acks, TakeAck(a) PROVE GrantsArePositive'
  BY <1>7, <1>c DEF TakeAck, Acked
<1>8. CASE Lose
  BY <1>8 DEF Lose
<1>9. CASE UNCHANGED vars
  BY <1>9 DEF vars
<1>10. QED
  BY <1>1, <1>2, <1>3, <1>4, <1>5, <1>6, <1>7, <1>8, <1>9 DEF Next

\* There are no grants at first.
LEMMA PositiveInit == Init => GrantsArePositive
BY DEF Init, GrantsArePositive, NoAuthority, HoldUnlessHeld

\* A machine that gave the permission up, or never had it, holds it again only
\* at a larger epoch than it ever had, with takeovers too: a grant delivered
\* late or again gives nothing (Replica::receive).
THEOREM HeldAgain == Spec => HeldAgainIsNewer
<1> DEFINE Newer == \A m \in Machines :
             /\ auth'[m].epoch >= auth[m].epoch
             /\ Held(auth'[m]) /\ ~Held(auth[m]) => auth'[m].epoch > auth[m].epoch
<1>1. Types /\ GrantsArePositive /\ [Next]_vars => [Newer]_vars
  <2> SUFFICES ASSUME Types, GrantsArePositive, Next PROVE Newer
    OBVIOUS
  <2>c. /\ \A m \in Machines : RowOK(auth[m]) /\ auth[m].epoch \in Nat
        /\ auth \in [Machines -> Authority]
        /\ \A g \in grants : g.to \in Machines /\ g.epoch \in Nat
        /\ \A a \in acks : a.to \in Machines /\ a.epoch \in Nat
    BY DEF Types, TypeOK, RowOK, Authority, Grant, Ack
  <2>d. \A m \in Machines : NewerOrSame(auth[m], auth[m])
    BY <2>c, RowSteps
  <2>a. ASSUME NEW m \in Machines, NEW b, NewerOrSame(auth[m], b), auth' = [auth EXCEPT ![m] = b]
        PROVE  Newer
    BY <2>a, <2>c, <2>d DEF NewerOrSame
  <2>1. ASSUME NEW m \in Machines, StartHere(m) PROVE Newer
    BY <2>1, <2>a, <2>c, RowSteps DEF StartHere
  <2>2. ASSUME UNCHANGED auth PROVE Newer
    BY <2>2, <2>d DEF NewerOrSame
  <2>3. ASSUME NEW m \in Machines, TakeOver(m) PROVE Newer
    <3>1. NewerOrSame(auth[m], Take(auth[m])) /\ NewerOrSame(auth[m], Start(Take(auth[m])))
      BY <2>c, RowSteps
    <3>2. QED
      BY <2>3, <2>a, <3>1 DEF TakeOver
  <2>4. ASSUME NEW o \in Machines, NEW m \in Machines, GrantTo(o, m) PROVE Newer
    BY <2>4, <2>a, <2>c, RowSteps DEF GrantTo
  <2>5. ASSUME NEW o \in Machines, NEW m \in Machines, GiveUp(o, m) PROVE Newer
    BY <2>5, <2>a, <2>c, RowSteps DEF GiveUp
  <2>6. ASSUME NEW g \in grants, TakeGrant(g) PROVE Newer
    BY <2>6, <2>a, <2>c, RowSteps DEF TakeGrant, GrantsArePositive
  <2>7. ASSUME NEW a \in acks, TakeAck(a) PROVE Newer
    BY <2>7, <2>a, <2>c, RowSteps DEF TakeAck
  <2>8. QED
    BY <2>1, <2>2, <2>3, <2>4, <2>5, <2>6, <2>7 DEF Next, Resend, Lose
<1>2. QED
  BY <1>1, TypeInit, TypeStep, PositiveInit, PositiveStep, PTL DEF Spec, HeldAgainIsNewer

-----------------------------------------------------------------------------
(* At most one holder, and never none for good, while nothing is taken over *)

\* What the typing gives the steps below.
LEMMA Shapes ==
  ASSUME Types
  PROVE  /\ auth \in [Machines -> Authority]
         /\ \A m \in Machines : RowOK(auth[m]) /\ auth[m].epoch \in Nat
         /\ \A g \in grants : g.to \in Machines /\ g.from \in Machines /\ g.epoch \in Nat
         /\ \A a \in acks : a.to \in Machines /\ a.by \in Machines /\ a.epoch \in Nat
BY DEF Types, TypeOK, RowOK, Authority, Grant, Ack

\* A step that moves no row, and makes no claim that wasn't made, keeps IInv.
LEMMA SameRows ==
  ASSUME IInv, Types', UNCHANGED auth,
         \A t \in Machines : \A e \in Nat : Claim(t, e)' => Claim(t, e),
         \A a \in acks' : a.by \in Machines /\ a.epoch \in Nat /\ a.epoch <= auth[a.by].epoch
  PROVE  IInv'
BY DEF IInv, OneReceiver, HolderIsLatest, UntakenIsLatest, AcksAreTaken,
       AckedRowsAreTaken, OneHolder, SomeoneHas, ClaimsArePositive

\* Replica::grant keeps the invariant: the one holder stops holding in the
\* transaction that makes the grant, at an epoch above every other.
LEMMA GrantKeeps ==
  ASSUME IInv, Types', NEW o \in Machines, NEW m \in Machines, GrantTo(o, m)
  PROVE  IInv'
<1> DEFINE e == auth[o].epoch + 1
<1>1. /\ auth \in [Machines -> Authority]
      /\ \A n \in Machines : RowOK(auth[n]) /\ auth[n].epoch \in Nat
      /\ Held(auth[o]) /\ e \in Nat
      /\ \A a \in acks : a.to \in Machines /\ a.by \in Machines /\ a.epoch \in Nat
  BY Shapes DEF IInv, GrantTo, Held
<1>2. /\ auth'[o] = [epoch |-> e, permit |-> "sent", to |-> m]
      /\ \A n \in Machines \ {o} : auth'[n] = auth[n]
  BY <1>1 DEF GrantTo, GiveTo
<1>3. \A n \in Machines : auth[n].epoch < e
  BY <1>1 DEF IInv, HolderIsLatest
<1>4. \A t \in Machines : \A f \in Nat : Claim(t, f) => f < e
  BY <1>1 DEF IInv, HolderIsLatest
<1>5. \A t \in Machines : \A f \in Nat : Claim(t, f)' => Claim(t, f) \/ (t = m /\ f = e)
  BY <1>1, <1>2 DEF Claim, GrantTo
<1>6. \A n \in Machines : ~Held(auth'[n])
  BY <1>1, <1>2 DEF IInv, OneHolder, Held
<1>7. \A t \in Machines : \A f \in Nat : Claim(t, f) => f <= auth[t].epoch
  BY <1>1 DEF IInv, UntakenIsLatest
<1>8. \A n \in Machines : auth'[n].epoch \in Nat /\ auth[n].epoch <= auth'[n].epoch /\ auth'[n].epoch <= e
  BY <1>1, <1>2, <1>3
<1>9. OneReceiver'
  BY <1>4, <1>5 DEF IInv, OneReceiver
<1>10. HolderIsLatest' /\ OneHolder'
  BY <1>6 DEF HolderIsLatest, OneHolder
<1>11. UntakenIsLatest'
  <2> SUFFICES ASSUME NEW t \in Machines, NEW f \in Nat, Claim(t, f)', auth'[t].epoch < f
               PROVE  /\ \A n \in Machines : ~Held(auth'[n]) /\ auth'[n].epoch <= f
                      /\ \A u \in Machines : \A h \in Nat : Claim(u, h)' => h <= f
    BY DEF UntakenIsLatest
  <2>1. f = e
    BY <1>1, <1>5, <1>7, <1>8
  <2>2. QED
    BY <2>1, <1>1, <1>4, <1>5, <1>6, <1>8
<1>12. AcksAreTaken'
  BY <1>1, <1>8 DEF IInv, AcksAreTaken, GrantTo
<1>13. AckedRowsAreTaken'
  BY <1>1, <1>2, <1>8 DEF IInv, AckedRowsAreTaken, RowOK
<1>14. SomeoneHas'
  <2>1. o # m
    BY DEF GrantTo
  <2>2. auth'[o].permit = "sent" /\ auth'[o].to = m /\ auth'[m].epoch < auth'[o].epoch
    BY <2>1, <1>2, <1>3
  <2>3. QED
    BY <2>2 DEF SomeoneHas
<1>15. ClaimsArePositive'
  BY <1>1, <1>5 DEF IInv, ClaimsArePositive
<1>16. QED
  BY <1>9, <1>10, <1>11, <1>12, <1>13, <1>14, <1>15 DEF IInv

\* take_grant keeps the invariant: a grant that is news is the newest one, and
\* one that isn't changes nothing.
LEMMA TakeKeeps ==
  ASSUME IInv, Types', NEW g \in grants, TakeGrant(g)
  PROVE  IInv'
<1> DEFINE m == g.to
           e == g.epoch
<1>1. /\ auth \in [Machines -> Authority]
      /\ \A n \in Machines : RowOK(auth[n]) /\ auth[n].epoch \in Nat
      /\ m \in Machines /\ e \in Nat
      /\ \A a \in acks : a.to \in Machines /\ a.by \in Machines /\ a.epoch \in Nat
  BY Shapes DEF IInv
<1>2. Claim(m, e) /\ e > 0
  BY <1>1 DEF Claim, IInv, ClaimsArePositive
<1>3. IsNews(auth[m], e) <=> auth[m].epoch < e
  BY <1>1, <1>2 DEF IsNews, RowOK
<1>4. acks' = acks \cup {[by |-> m, to |-> g.from, epoch |-> e]} /\ grants' \subseteq grants
  BY DEF TakeGrant
<1>5. CASE ~(auth[m].epoch < e)
  <2>1. UNCHANGED auth
    BY <1>1, <1>3, <1>5 DEF TakeGrant, Receive
  <2>2. \A t \in Machines : \A f \in Nat : Claim(t, f)' => Claim(t, f)
    BY <1>2, <1>4, <2>1 DEF Claim
  <2>3. \A a \in acks' : a.by \in Machines /\ a.epoch \in Nat /\ a.epoch <= auth[a.by].epoch
    BY <1>1, <1>4, <1>5 DEF IInv, AcksAreTaken
  <2>4. QED
    BY <2>1, <2>2, <2>3, SameRows
<1>6. CASE auth[m].epoch < e
  <2>1. /\ auth'[m] = [epoch |-> e, permit |-> "ready", to |-> NoOne]
        /\ \A n \in Machines \ {m} : auth'[n] = auth[n]
    BY <1>1, <1>3, <1>6 DEF TakeGrant, Receive
  <2>2. /\ \A n \in Machines : ~Held(auth[n]) /\ auth[n].epoch <= e
        /\ \A u \in Machines : \A f \in Nat : Claim(u, f) => f <= e
    BY <1>1, <1>2, <1>6 DEF IInv, UntakenIsLatest
  <2>3. \A t \in Machines : \A f \in Nat : Claim(t, f)' => Claim(t, f)
    BY <1>2, <1>4, <2>1 DEF Claim
  <2>4. \A n \in Machines : auth'[n].epoch \in Nat /\ auth[n].epoch <= auth'[n].epoch
    BY <1>1, <1>6, <2>1
  <2>5. \A n \in Machines : Held(auth'[n]) <=> n = m
    BY <1>1, <2>1, <2>2 DEF Held
  <2>6. OneReceiver' /\ ClaimsArePositive'
    BY <2>3 DEF IInv, OneReceiver, ClaimsArePositive
  <2>7. HolderIsLatest'
    <3>1. \A n \in Machines : auth'[n].epoch <= e
      BY <1>1, <2>1, <2>2
    <3>2. \A t \in Machines : \A f \in Nat : Claim(t, f)' => f <= e /\ (f = e => t = m)
      BY <1>1, <1>2, <2>2, <2>3 DEF IInv, OneReceiver
    <3>3. QED
      BY <2>1, <2>5, <3>1, <3>2 DEF HolderIsLatest
  <2>8. UntakenIsLatest'
    <3> SUFFICES ASSUME NEW t \in Machines, NEW f \in Nat, Claim(t, f)', auth'[t].epoch < f
                 PROVE  FALSE
      BY DEF UntakenIsLatest
    <3>1. Claim(t, f) /\ auth[t].epoch < f
      BY <1>1, <2>3, <2>4
    <3>2. f = e
      <4>1. e <= f
        BY <3>1, <1>1, <1>2 DEF IInv, UntakenIsLatest
      <4>2. QED
        BY <4>1, <3>1, <2>2, <1>1
    <3>3. t = m
      BY <3>1, <3>2, <1>1, <1>2 DEF IInv, OneReceiver
    <3>4. QED
      BY <3>2, <3>3, <2>1, <1>1
  <2>9. AcksAreTaken'
    BY <1>1, <1>4, <2>1, <2>4 DEF IInv, AcksAreTaken
  <2>10. AckedRowsAreTaken'
    BY <1>1, <2>1, <2>4 DEF IInv, AckedRowsAreTaken, RowOK
  <2>11. OneHolder' /\ SomeoneHas'
    BY <1>1, <2>5 DEF OneHolder, SomeoneHas
  <2>12. QED
    BY <2>6, <2>7, <2>8, <2>9, <2>10, <2>11 DEF IInv
<1>7. QED
  BY <1>5, <1>6

\* An acknowledgement keeps the invariant: it is of a grant that was taken, and
\* counts only for the row of the same epoch.
LEMMA AckKeeps ==
  ASSUME IInv, Types', NEW a \in acks, TakeAck(a)
  PROVE  IInv'
<1> DEFINE o == a.to
           e == a.epoch
<1>1. /\ auth \in [Machines -> Authority]
      /\ \A n \in Machines : RowOK(auth[n]) /\ auth[n].epoch \in Nat
      /\ o \in Machines /\ a.by \in Machines /\ e \in Nat
      /\ \A b \in acks : b.to \in Machines /\ b.by \in Machines /\ b.epoch \in Nat
  BY Shapes DEF IInv
<1>2. acks' \subseteq acks /\ grants' = grants
  BY DEF TakeAck
<1>3. CASE ~(auth[o].permit = "sent" /\ auth[o].epoch = e)
  <2>1. UNCHANGED auth
    BY <1>1, <1>3 DEF TakeAck, Acked
  <2>2. \A t \in Machines : \A f \in Nat : Claim(t, f)' => Claim(t, f)
    BY <1>2, <2>1 DEF Claim
  <2>3. QED
    BY <1>1, <1>2, <2>1, <2>2, SameRows DEF IInv, AcksAreTaken
<1>4. CASE auth[o].permit = "sent" /\ auth[o].epoch = e
  <2>1. /\ auth'[o] = [epoch |-> e, permit |-> "acked", to |-> auth[o].to]
        /\ \A n \in Machines \ {o} : auth'[n] = auth[n]
    BY <1>1, <1>4 DEF TakeAck, Acked
  <2>2. /\ \A n \in Machines : auth'[n].epoch = auth[n].epoch /\ auth'[n].to = auth[n].to
        /\ \A n \in Machines : Held(auth'[n]) <=> Held(auth[n])
    BY <1>1, <1>4, <2>1 DEF Held
  <2>3. \A t \in Machines : \A f \in Nat : Claim(t, f)' => Claim(t, f)
    BY <1>1, <1>2, <1>4, <2>1, <2>2 DEF Claim
  <2>4. auth[o].to = a.by
    <3>1. Claim(auth[o].to, e) /\ Claim(a.by, e) /\ auth[o].to \in Machines
      BY <1>1, <1>4 DEF Claim, RowOK
    <3>2. QED
      BY <1>1, <3>1 DEF IInv, OneReceiver
  <2>5. e <= auth[auth[o].to].epoch
    BY <1>1, <2>4 DEF IInv, AcksAreTaken
  <2>6. OneReceiver' /\ ClaimsArePositive'
    BY <2>3 DEF IInv, OneReceiver, ClaimsArePositive
  <2>7. HolderIsLatest' /\ OneHolder'
    BY <2>2, <2>3 DEF IInv, HolderIsLatest, OneHolder
  <2>8. UntakenIsLatest'
    BY <2>2, <2>3 DEF IInv, UntakenIsLatest
  <2>9. AcksAreTaken'
    BY <1>1, <1>2, <2>2 DEF IInv, AcksAreTaken
  <2>10. AckedRowsAreTaken'
    <3> SUFFICES ASSUME NEW n \in Machines, auth'[n].permit = "acked"
                 PROVE  auth'[n].epoch <= auth'[auth'[n].to].epoch
      BY DEF AckedRowsAreTaken
    <3>1. auth[n].to \in Machines
      BY <1>1, <1>4, <2>1 DEF RowOK
    <3>2. auth[n].epoch <= auth[auth[n].to].epoch
      BY <1>4, <2>1, <2>5 DEF IInv, AckedRowsAreTaken
    <3>3. QED
      BY <3>1, <3>2, <2>2
  <2>11. SomeoneHas'
    <3>1. PICK n \in Machines :
            \/ Held(auth[n])
            \/ auth[n].permit = "sent" /\ auth[auth[n].to].epoch < auth[n].epoch
      BY DEF IInv, SomeoneHas
    <3>2. CASE Held(auth[n])
      BY <3>2, <2>2 DEF SomeoneHas
    <3>3. CASE auth[n].permit = "sent" /\ auth[auth[n].to].epoch < auth[n].epoch
      <4>1. n # o
        BY <3>3, <2>5, <1>1, <1>4 DEF RowOK
      <4>2. auth[n].to \in Machines /\ auth'[n] = auth[n]
        BY <3>3, <4>1, <1>1, <2>1 DEF RowOK
      <4>3. QED
        BY <3>3, <4>2, <2>2 DEF SomeoneHas
    <3>4. QED
      BY <3>1, <3>2, <3>3
  <2>12. QED
    BY <2>6, <2>7, <2>8, <2>9, <2>10, <2>11 DEF IInv
<1>5. QED
  BY <1>3, <1>4

\* A start keeps the invariant: the permission stays where it is.
LEMMA StartKeeps ==
  ASSUME IInv, Types', NEW m \in Machines, StartHere(m)
  PROVE  IInv'
<1>1. /\ auth \in [Machines -> Authority]
      /\ \A n \in Machines : RowOK(auth[n]) /\ auth[n].epoch \in Nat
      /\ \A b \in acks : b.to \in Machines /\ b.by \in Machines /\ b.epoch \in Nat
  BY Shapes DEF IInv
<1>2. /\ \A n \in Machines : auth'[n].epoch = auth[n].epoch
      /\ \A n \in Machines : Held(auth'[n]) <=> Held(auth[n])
      /\ \A n \in Machines : auth[n].permit \in {"sent", "acked"} => auth'[n] = auth[n]
      /\ \A n \in Machines : auth'[n].permit \in {"sent", "acked"} => auth'[n] = auth[n]
  BY <1>1 DEF StartHere, Start, Hold, Held
<1>3. \A t \in Machines : \A f \in Nat : Claim(t, f)' => Claim(t, f)
  BY <1>2 DEF StartHere, Claim
<1>4. OneReceiver' /\ ClaimsArePositive'
  BY <1>3 DEF IInv, OneReceiver, ClaimsArePositive
<1>5. HolderIsLatest' /\ OneHolder' /\ UntakenIsLatest'
  BY <1>2, <1>3 DEF IInv, HolderIsLatest, OneHolder, UntakenIsLatest
<1>6. AcksAreTaken'
  BY <1>1, <1>2 DEF IInv, AcksAreTaken, StartHere
<1>7. AckedRowsAreTaken'
  BY <1>1, <1>2 DEF IInv, AckedRowsAreTaken, RowOK
<1>8. SomeoneHas'
  BY <1>1, <1>2 DEF IInv, SomeoneHas, RowOK
<1>9. QED
  BY <1>4, <1>5, <1>6, <1>7, <1>8 DEF IInv

\* Until a takeover every step keeps the invariant.
LEMMA SafeStep == ~apart' /\ IInv /\ [Next]_vars => IInv'
<1> SUFFICES ASSUME ~apart', IInv, [Next]_vars PROVE IInv'
  OBVIOUS
<1>1. Types'
  BY TypeStep DEF IInv
<1>2. ASSUME UNCHANGED auth, grants' \subseteq grants, acks' \subseteq acks PROVE IInv'
  <2>1. \A t \in Machines : \A f \in Nat : Claim(t, f)' => Claim(t, f)
    BY <1>2 DEF Claim
  <2>2. \A a \in acks : a.by \in Machines /\ a.epoch \in Nat /\ a.epoch <= auth[a.by].epoch
    BY Shapes DEF IInv, AcksAreTaken
  <2>3. QED
    BY <1>1, <1>2, <2>1, <2>2, SameRows
<1>3. ASSUME NEW m \in Machines, Resend(m) PROVE IInv'
  <2>1. /\ \A n \in Machines : RowOK(auth[n]) /\ auth[n].epoch \in Nat
        /\ \A a \in acks : a.by \in Machines /\ a.epoch \in Nat
    BY Shapes DEF IInv
  <2>2. \A t \in Machines : \A f \in Nat : Claim(t, f)' => Claim(t, f)
    BY <1>3, <2>1 DEF Claim, Resend
  <2>3. QED
    BY <1>1, <1>3, <2>1, <2>2, SameRows DEF Resend, IInv, AcksAreTaken
<1>4. QED
  BY <1>1, <1>2, <1>3, GrantKeeps, TakeKeeps, AckKeeps, StartKeeps
     DEF Next, vars, Lose, TakeOver, GiveUp

\* What was taken over stays so.
LEMMA ApartStays == apart /\ [Next]_vars => apart'
BY DEF Next, vars, StartHere, Resend, TakeOver, GrantTo, GiveUp, TakeGrant, TakeAck, Lose

\* The invariant holds at first: only the maker has a row.
LEMMA SafeInit == Init => IInv
<1> SUFFICES ASSUME Init PROVE IInv
  OBVIOUS
<1>1. Types
  BY TypeInit
<1>2. /\ \A m \in Machines : auth[m].epoch = 0 /\ auth[m].permit \in {"none", "ready"}
      /\ \A m \in Machines : auth[m].permit = "ready" <=> m = Maker
  BY GrantsAssumption DEF Init, NoAuthority, HoldUnlessHeld
<1>3. \A t, e : ~Claim(t, e)
  BY <1>2 DEF Init, Claim
<1>4. OneReceiver /\ UntakenIsLatest /\ ClaimsArePositive
  BY <1>3 DEF OneReceiver, UntakenIsLatest, ClaimsArePositive
<1>5. HolderIsLatest /\ OneHolder
  BY <1>2, <1>3 DEF HolderIsLatest, OneHolder, Held
<1>6. AcksAreTaken /\ AckedRowsAreTaken
  BY <1>2 DEF Init, AcksAreTaken, AckedRowsAreTaken
<1>7. SomeoneHas
  BY <1>2, GrantsAssumption DEF SomeoneHas, Held
<1>8. QED
  BY <1>1, <1>4, <1>5, <1>6, <1>7 DEF IInv

\* Until the task is taken over, at most one machine may start it or give
\* it away (AtMostOneHolder), the permission is never lost (NeverLost), and a
\* grant stops being resent only once it was taken (AckedWasTaken): for any
\* number of machines and grants, whatever is lost, repeated or reordered.
THEOREM Safety == Spec => [](AtMostOneHolder /\ NeverLost /\ AckedWasTaken)
<1>1. apart \/ IInv => AtMostOneHolder /\ NeverLost /\ AckedWasTaken
  <2> SUFFICES ASSUME IInv PROVE AtMostOneHolder /\ NeverLost /\ AckedWasTaken
    BY DEF AtMostOneHolder, NeverLost, AckedWasTaken
  <2>1. \A n \in Machines : RowOK(auth[n]) /\ auth[n].epoch \in Nat
    BY Shapes DEF IInv
  <2>2. AtMostOneHolder
    BY DEF IInv, OneHolder, AtMostOneHolder
  <2>3. NeverLost
    BY <2>1 DEF IInv, SomeoneHas, NeverLost, Untaken, IsNews
  <2>4. AckedWasTaken
    <3> SUFFICES ASSUME NEW m \in Machines, auth[m].permit = "acked"
                 PROVE  ~IsNews(auth[auth[m].to], auth[m].epoch)
      BY DEF AckedWasTaken
    <3>1. auth[m].to \in Machines /\ Claim(auth[m].to, auth[m].epoch)
      BY <2>1 DEF RowOK, Claim
    <3>2. auth[m].epoch > 0 /\ auth[m].epoch <= auth[auth[m].to].epoch
      BY <2>1, <3>1 DEF IInv, ClaimsArePositive, AckedRowsAreTaken
    <3>3. QED
      BY <2>1, <3>1, <3>2 DEF IsNews, RowOK
  <2>5. QED
    BY <2>2, <2>3, <2>4
<1>2. Init => apart \/ IInv
  BY SafeInit
<1>3. (apart \/ IInv) /\ [Next]_vars => (apart \/ IInv)'
  BY SafeStep, ApartStays
<1>4. QED
  BY <1>1, <1>2, <1>3, PTL DEF Spec
=============================================================================
