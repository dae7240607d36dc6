------------------------ MODULE KafkaConsumerProofs -------------------------
(***************************************************************************)
(* Proofs about KafkaConsumer for any number of replicas, partitions,      *)
(* messages and faults.                                                    *)
(***************************************************************************)
EXTENDS KafkaConsumer, TLAPS

\* Some handler call has finished with the message.
Settled(p) == done[p] \cup skipped[p]

\* What every claim has passed is settled, and marks stay behind the claim.
ClaimsSettle ==
  \A m \in Members, p \in Partitions :
    /\ \A o \in Nat : o < next[m][p] => o \in Settled(p)
    /\ marked[m][p] <= next[m][p]

\* What the group has committed is settled.
CommitsSettle ==
  \A p \in Partitions : \A o \in Nat : o < committed[p] => o \in Settled(p)

\* Only the owner of a partition moves its committed offset, and its marks
\* are at or beyond it.
OwnerAhead ==
  \A m \in Members, p \in Partitions : owner[p] = m => committed[p] <= marked[m][p]

IInv == TypeOK /\ ClaimsSettle /\ CommitsSettle /\ OwnerAhead

\* The claims and marks of all members start at zero.
LEMMA InitIInv == Init => IInv
<1> SUFFICES ASSUME Init PROVE IInv
  OBVIOUS
<1>1. TypeOK
  BY DEF Init, TypeOK, Sessions
<1>2. ClaimsSettle /\ CommitsSettle /\ OwnerAhead
  BY DEF Init, ClaimsSettle, CommitsSettle, OwnerAhead
<1> QED BY <1>1, <1>2 DEF IInv

\* The steps of the broker and of sarama keep the invariant.
LEMMA BrokerKeeps ==
  ASSUME IInv,
         \/ \E p \in Partitions : Publish(p)
         \/ Assign
         \/ \E m \in Members : Rebalance(m) \/ Evict(m) \/ AutoCommit(m)
  PROVE  IInv'
<1> USE ConsumerAssumption
<1> USE DEF brokerVars, claimVars
<1>1. CASE \E p \in Partitions : Publish(p)
  <2>1. TypeOK'
    BY <1>1 DEF IInv, TypeOK, Publish
  <2> QED BY <1>1, <2>1 DEF IInv, Publish, ClaimsSettle, CommitsSettle, OwnerAhead, Settled
<1>2. CASE Assign
  <2>1. TypeOK'
    BY <1>2 DEF IInv, TypeOK, Assign, Sessions
  <2>2. \A m \in Members : \/ next'[m] = committed /\ marked'[m] = committed
                           \/ next'[m] = next[m] /\ marked'[m] = marked[m]
    BY <1>2 DEF Assign
  <2>3. ClaimsSettle' /\ CommitsSettle'
    BY <1>2, <2>2 DEF IInv, TypeOK, Assign, ClaimsSettle, CommitsSettle, Settled
  <2>4. OwnerAhead'
    BY <1>2 DEF IInv, TypeOK, Assign, OwnerAhead
  <2> QED BY <2>1, <2>3, <2>4 DEF IInv
<1>3. ASSUME NEW m \in Members, Rebalance(m) PROVE IInv'
  <2>1. TypeOK'
    BY <1>3 DEF IInv, TypeOK, Rebalance, Sessions
  <2> QED BY <1>3, <2>1 DEF IInv, Rebalance, ClaimsSettle, CommitsSettle, OwnerAhead, Settled
<1>4. ASSUME NEW m \in Members, Evict(m) PROVE IInv'
  <2>1. TypeOK'
    BY <1>4 DEF IInv, TypeOK, Evict, Fault
  <2>2. OwnerAhead'
    BY <1>4 DEF IInv, TypeOK, Evict, OwnerAhead
  <2> QED BY <1>4, <2>1, <2>2 DEF IInv, Evict, ClaimsSettle, CommitsSettle, Settled
<1>5. ASSUME NEW m \in Members, AutoCommit(m) PROVE IInv'
  <2>1. TypeOK'
    BY <1>5 DEF IInv, TypeOK, AutoCommit, Flushed
  <2>2. CommitsSettle'
    BY <1>5 DEF IInv, TypeOK, AutoCommit, Flushed, ClaimsSettle, CommitsSettle, Settled
  <2>3. OwnerAhead'
    BY <1>5 DEF IInv, TypeOK, AutoCommit, Flushed, OwnerAhead
  <2> QED BY <1>5, <2>1, <2>2, <2>3 DEF IInv, AutoCommit, ClaimsSettle, Settled
<1> QED BY <1>1, <1>2, <1>3, <1>4, <1>5

\* The steps of Consumer.Consume keep the invariant.
LEMMA ConsumeKeeps ==
  ASSUME IInv, NEW m \in Members, Boot(m) \/ Shutdown(m) \/ EndSession(m) \/ Crash(m)
  PROVE  IInv'
<1> USE ConsumerAssumption
<1> USE DEF brokerVars, claimVars
<1>1. CASE Boot(m) \/ Shutdown(m)
  <2>1. TypeOK'
    <3>1. CASE Boot(m)
      BY <3>1 DEF IInv, TypeOK, Boot, Sessions
    <3>2. CASE Shutdown(m)
      BY <3>2 DEF IInv, TypeOK, Shutdown, Fault, Sessions
    <3> QED BY <1>1, <3>1, <3>2
  <2> QED BY <1>1, <2>1 DEF IInv, Boot, Shutdown, ClaimsSettle, CommitsSettle, OwnerAhead, Settled
<1>2. CASE EndSession(m)
  <2>1. TypeOK'
    BY <1>2 DEF IInv, TypeOK, EndSession, Flushed, Fault, Sessions
  <2>2. CommitsSettle'
    BY <1>2 DEF IInv, TypeOK, EndSession, Flushed, ClaimsSettle, CommitsSettle, Settled
  <2>3. OwnerAhead'
    BY <1>2 DEF IInv, TypeOK, EndSession, Flushed, OwnerAhead
  <2> QED BY <1>2, <2>1, <2>2, <2>3 DEF IInv, EndSession, ClaimsSettle, Settled
<1>3. CASE Crash(m)
  <2>1. TypeOK'
    BY <1>3 DEF IInv, TypeOK, Crash, Fault, Sessions
  <2>2. OwnerAhead'
    BY <1>3 DEF IInv, TypeOK, Crash, OwnerAhead
  <2> QED BY <1>3, <2>1, <2>2 DEF IInv, Crash, ClaimsSettle, CommitsSettle, Settled
<1> QED BY <1>1, <1>2, <1>3

\* The steps of ConsumeClaim keep the invariant: a claim moves on only past a
\* message its handler has finished with, and marks only up to where it is.
LEMMA ClaimKeeps ==
  ASSUME IInv, NEW m \in Members, NEW p \in Partitions, Claim(m, p)
  PROVE  IInv'
<1> USE ConsumerAssumption
<1> USE DEF brokerVars, claimVars
<1>1. CASE Receive(m, p) \/ HandlerInterrupted(m, p) \/ ExitClaim(m, p)
  <2>1. TypeOK'
    <3>1. CASE Receive(m, p)
      BY <3>1 DEF IInv, TypeOK, Receive
    <3>2. CASE HandlerInterrupted(m, p)
      <4>1. session' \in [Members -> Sessions] /\ faults' \in Nat
        BY <3>2 DEF IInv, TypeOK, HandlerInterrupted, Fault, Sessions
      <4>2. claims' \in [Members -> SUBSET Partitions]
        BY <3>2 DEF IInv, TypeOK, HandlerInterrupted
      <4>3. busy' \in [Members -> [Partitions -> BOOLEAN]]
        BY <3>2 DEF IInv, TypeOK, HandlerInterrupted
      <4> QED BY <3>2, <4>1, <4>2, <4>3 DEF IInv, TypeOK, HandlerInterrupted
    <3>3. CASE ExitClaim(m, p)
      BY <3>3 DEF IInv, TypeOK, ExitClaim
    <3> QED BY <1>1, <3>1, <3>2, <3>3
  <2> QED BY <1>1, <2>1 DEF IInv, Receive, HandlerInterrupted, ExitClaim, ClaimsSettle,
                            CommitsSettle, OwnerAhead, Settled
<1>2. CASE HandlerOk(m, p) \/ HandlerError(m, p)
  <2>0. done' \in [Partitions -> SUBSET Nat] /\ skipped' \in [Partitions -> SUBSET Nat]
    <3>1. CASE HandlerOk(m, p)
      BY <3>1 DEF IInv, TypeOK, HandlerOk
    <3>2. CASE HandlerError(m, p)
      BY <3>2 DEF IInv, TypeOK, HandlerError
    <3> QED BY <1>2, <3>1, <3>2
  <2>1. TypeOK'
    <3>1. CASE HandlerOk(m, p)
      <4>1. busy' \in [Members -> [Partitions -> BOOLEAN]]
        BY <3>1 DEF IInv, TypeOK, HandlerOk
      <4>2. /\ next' \in [Members -> [Partitions -> Nat]]
            /\ marked' \in [Members -> [Partitions -> Nat]]
        BY <3>1 DEF IInv, TypeOK, HandlerOk
      <4> QED BY <3>1, <2>0, <4>1, <4>2 DEF IInv, TypeOK, HandlerOk
    <3>2. CASE HandlerError(m, p)
      <4>1. busy' \in [Members -> [Partitions -> BOOLEAN]]
        BY <3>2 DEF IInv, TypeOK, HandlerError
      <4>2. next' \in [Members -> [Partitions -> Nat]]
        BY <3>2 DEF IInv, TypeOK, HandlerError
      <4> QED BY <3>2, <2>0, <4>1, <4>2 DEF IInv, TypeOK, HandlerError
    <3> QED BY <1>2, <3>1, <3>2
  <2>2. \A q \in Partitions : Settled(q) \subseteq Settled(q)'
    <3>1. CASE HandlerOk(m, p)
      BY <3>1 DEF IInv, TypeOK, HandlerOk, Settled
    <3>2. CASE HandlerError(m, p)
      BY <3>2 DEF IInv, TypeOK, HandlerError, Settled
    <3> QED BY <1>2, <3>1, <3>2
  <2>3. next[m][p] \in Settled(p)'
    BY <1>2 DEF IInv, TypeOK, HandlerOk, HandlerError, Settled
  <2>4. \A n \in Members, q \in Partitions :
           next'[n][q] = IF n = m /\ q = p THEN next[n][q] + 1 ELSE next[n][q]
    BY <1>2 DEF IInv, TypeOK, HandlerOk, HandlerError
  <2>5. \A n \in Members, q \in Partitions :
           marked'[n][q] = marked[n][q] \/ (n = m /\ q = p /\ marked'[n][q] = next[n][q] + 1)
    BY <1>2 DEF IInv, TypeOK, HandlerOk, HandlerError
  <2>6. ClaimsSettle'
    <3> SUFFICES ASSUME NEW n \in Members, NEW q \in Partitions
                 PROVE  /\ \A o \in Nat : o < next'[n][q] => o \in Settled(q)'
                        /\ marked'[n][q] <= next'[n][q]
      BY DEF ClaimsSettle, Settled
    <3>1. next[n][q] \in Nat /\ marked[n][q] \in Nat /\ marked[n][q] <= next[n][q]
      BY DEF IInv, TypeOK, ClaimsSettle
    <3>2. \A o \in Nat : o < next[n][q] => o \in Settled(q)'
      BY <2>2 DEF IInv, ClaimsSettle
    <3>3. \A o \in Nat : o < next[n][q] + 1 => o < next[n][q] \/ o = next[n][q]
      BY <3>1
    <3> QED BY <2>3, <2>4, <2>5, <3>1, <3>2, <3>3
  <2>7. CommitsSettle'
    BY <1>2, <2>2 DEF IInv, HandlerOk, HandlerError, CommitsSettle
  <2>8. OwnerAhead'
    BY <1>2, <2>5 DEF IInv, TypeOK, ClaimsSettle, HandlerOk, HandlerError, OwnerAhead
  <2> QED BY <2>1, <2>6, <2>7, <2>8 DEF IInv
<1> QED BY <1>1, <1>2 DEF Claim

\* Every step keeps the invariant.
LEMMA NextKeeps == IInv /\ [Next]_vars => IInv'
<1> SUFFICES ASSUME IInv, [Next]_vars PROVE IInv'
  OBVIOUS
<1>1. CASE UNCHANGED vars
  BY <1>1 DEF vars, brokerVars, claimVars, IInv, TypeOK, ClaimsSettle, CommitsSettle,
              OwnerAhead, Settled
<1>2. CASE Next
  BY <1>2, BrokerKeeps, ConsumeKeeps, ClaimKeeps DEF Next
<1> QED BY <1>1, <1>2

\* The variables keep their types.
THEOREM TypeCorrect == Spec => []TypeOK
<1>1. IInv => TypeOK
  BY DEF IInv
<1> QED BY <1>1, InitIInv, NextKeeps, PTL DEF Spec

\* At-least-once for any number of replicas, partitions and faults: a
\* committed offset leaves no message behind that no handler call has
\* finished with (ConsumeClaim).
THEOREM AtLeastOnceHolds == Spec => []AtLeastOnce
<1>1. IInv => AtLeastOnce
  <2> SUFFICES ASSUME IInv, NEW p \in Partitions, NEW o \in 0 .. committed[p] - 1
               PROVE  o \in done[p] \cup skipped[p]
    BY DEF AtLeastOnce
  <2>1. committed[p] \in Nat
    BY DEF IInv, TypeOK
  <2>2. o \in Nat /\ o < committed[p]
    BY <2>1
  <2> QED BY <2>2 DEF IInv, CommitsSettle, Settled
<1> QED BY <1>1, InitIInv, NextKeeps, PTL DEF Spec

\* The committed offset of a partition never moves back: only the owner's
\* marks are taken, and they start at the committed offset (Flushed, Assign).
THEOREM CommittedNeverBackHolds == Spec => CommittedNeverBack
<1>1. IInv /\ [Next]_vars => [\A p \in Partitions : committed'[p] >= committed[p]]_committed
  <2> SUFFICES ASSUME IInv, [Next]_vars, committed' # committed, NEW p \in Partitions
               PROVE  committed'[p] >= committed[p]
    OBVIOUS
  <2> USE DEF brokerVars, claimVars
  <2>1. PICK m \in Members : committed' = Flushed(m)
    <3>1. ASSUME NEW m \in Members, NEW q \in Partitions, Claim(m, q) PROVE committed' = committed
      BY <3>1 DEF Claim, Receive, HandlerOk, HandlerError, HandlerInterrupted, ExitClaim
    <3>2. ASSUME NEW m \in Members, Rebalance(m) \/ Evict(m) \/ Boot(m) \/ Shutdown(m) \/ Crash(m)
          PROVE  committed' = committed
      BY <3>2 DEF Rebalance, Evict, Boot, Shutdown, Crash
    <3>3. (\E q \in Partitions : Publish(q)) \/ Assign \/ UNCHANGED vars => committed' = committed
      BY DEF Publish, Assign, vars
    <3>4. ASSUME NEW m \in Members, AutoCommit(m) \/ EndSession(m)
          PROVE  committed' = Flushed(m) \/ committed' = committed
      BY <3>4 DEF AutoCommit, EndSession
    <3> QED BY <3>1, <3>2, <3>3, <3>4 DEF Next
  <2> QED BY <2>1 DEF IInv, TypeOK, OwnerAhead, Flushed
<1> QED BY <1>1, InitIInv, NextKeeps, PTL DEF Spec, CommittedNeverBack
=============================================================================
