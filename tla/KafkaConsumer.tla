--------------------------- MODULE KafkaConsumer ----------------------------
(***************************************************************************)
(* The platform's consumer group: Consumer.Consume, which joins the group  *)
(* again after every session, and groupHandler.ConsumeClaim, one goroutine *)
(* per claimed partition, which hands each message to the service's        *)
(* handler and marks its offset only when the handler returns nil          *)
(* (platform/pkg/kafka/consumer).  The order and assembly services run     *)
(* their handlers on it.                                                   *)
(*                                                                         *)
(* The broker and sarama are external and modelled by what this code sees  *)
(* of them: a session starts at the group's committed offsets; marks are   *)
(* flushed to the broker from time to time and at the end of a session;    *)
(* when one ConsumeClaim returns, the whole session is cancelled; a member *)
(* that falls silent is evicted without knowing it, and the broker refuses *)
(* its offset commits from then on.                                        *)
(***************************************************************************)
EXTENDS Naturals, FiniteSets

CONSTANTS
  Members,     \* replicas of the service, all in one consumer group
  Partitions,
  Nobody,      \* a partition without an owner
  MaxLog,      \* bound: messages per partition
  MaxFaults    \* bound: crashes, restarts, evictions, timeouts and lost commits together

ASSUME ConsumerAssumption ==
  /\ Nobody \notin Members
  /\ MaxLog \in Nat
  /\ MaxFaults \in Nat

VARIABLES
  log,        \* messages published on each partition: offsets 0 .. log[p] - 1
  committed,  \* the group's committed offset: where a new session starts
  owner,      \* the member the broker has assigned each partition to
  session,    \* where each member is in the loop of Consume
  claims,     \* the partitions for which each member's ConsumeClaim is running
  next,       \* the offset each claim reads next, or is handling
  marked,     \* the offset up to which each member has marked
  busy,       \* the handler is running in this claim
  done,       \* offsets for which some handler call returned nil
  skipped,    \* offsets for which some handler call returned another error
  faults

brokerVars == <<log, committed, owner>>
claimVars == <<next, marked, busy>>
vars == <<brokerVars, claimVars, session, claims, done, skipped, faults>>

Sessions == {"down", "joining", "open", "closing", "stopping"}

Init ==
  /\ log = [p \in Partitions |-> 0]
  /\ committed = [p \in Partitions |-> 0]
  /\ owner = [p \in Partitions |-> Nobody]
  /\ session = [m \in Members |-> "down"]
  /\ claims = [m \in Members |-> {}]
  /\ next = [m \in Members |-> [p \in Partitions |-> 0]]
  /\ marked = [m \in Members |-> [p \in Partitions |-> 0]]
  /\ busy = [m \in Members |-> [p \in Partitions |-> FALSE]]
  /\ done = [p \in Partitions |-> {}]
  /\ skipped = [p \in Partitions |-> {}]
  /\ faults = 0

Fault == faults < MaxFaults /\ faults' = faults + 1
-----------------------------------------------------------------------------
(* The broker and the producers. *)

Publish(p) ==
  /\ log[p] < MaxLog
  /\ log' = [log EXCEPT ![p] = @ + 1]
  /\ UNCHANGED <<committed, owner, claimVars, session, claims, done, skipped, faults>>

\* The group is balanced among the members that have joined, once nobody
\* owns a partition any more; each claim starts at the committed offset
\* (OffsetOldest when there is none).
Assign ==
  LET joined == {m \in Members : session[m] = "joining"} IN
  /\ joined # {}
  /\ \A p \in Partitions : owner[p] = Nobody
  /\ owner' \in [Partitions -> joined]
  /\ session' = [m \in Members |-> IF m \in joined THEN "open" ELSE session[m]]
  /\ claims' = [m \in Members |->
                 IF m \in joined THEN {p \in Partitions : owner'[p] = m} ELSE claims[m]]
  /\ next' = [m \in Members |-> IF m \in joined THEN committed ELSE next[m]]
  /\ marked' = [m \in Members |-> IF m \in joined THEN committed ELSE marked[m]]
  /\ UNCHANGED <<log, committed, busy, done, skipped, faults>>

\* The heartbeat tells a member that the group is to be rebalanced.
Rebalance(m) ==
  /\ session[m] = "open"
  /\ \/ \E n \in Members : session[n] = "joining"
     \/ \E p \in Partitions : owner[p] # m /\ p \in claims[m]
     \/ \E p \in Partitions : owner[p] = Nobody
  /\ session' = [session EXCEPT ![m] = "closing"]
  /\ UNCHANGED <<brokerVars, claimVars, claims, done, skipped, faults>>

\* The session times out on the broker; the member does not know.
Evict(m) ==
  /\ \E p \in Partitions : owner[p] = m
  /\ Fault
  /\ owner' = [p \in Partitions |-> IF owner[p] = m THEN Nobody ELSE owner[p]]
  /\ UNCHANGED <<log, committed, claimVars, session, claims, done, skipped>>

\* The marks of a member reach the broker, which takes them from an owner only.
Flushed(m) ==
  [p \in Partitions |-> IF owner[p] = m THEN marked[m][p] ELSE committed[p]]

AutoCommit(m) ==
  /\ session[m] \in {"open", "closing", "stopping"}
  /\ committed' = Flushed(m)
  /\ UNCHANGED <<log, owner, claimVars, session, claims, done, skipped, faults>>
-----------------------------------------------------------------------------
(* Consumer.Consume *)

\* The process starts and calls group.Consume.
Boot(m) ==
  /\ session[m] = "down"
  /\ session' = [session EXCEPT ![m] = "joining"]
  /\ UNCHANGED <<brokerVars, claimVars, claims, done, skipped, faults>>

\* The service's context is cancelled: graceful shutdown.
Shutdown(m) ==
  /\ session[m] \in {"open", "closing"}
  /\ Fault
  /\ session' = [session EXCEPT ![m] = "stopping"]
  /\ UNCHANGED <<brokerVars, claimVars, claims, done, skipped>>

\* All claims have returned.  sarama flushes the marks and leaves the
\* generation; group.Consume returns nil and the loop calls it again, unless
\* the context is cancelled.
EndSession(m) ==
  /\ session[m] \in {"closing", "stopping"}
  /\ claims[m] = {}
  /\ \/ committed' = Flushed(m) /\ UNCHANGED faults
     \/ Fault /\ UNCHANGED committed
  /\ owner' = [p \in Partitions |-> IF owner[p] = m THEN Nobody ELSE owner[p]]
  /\ session' = [session EXCEPT ![m] = IF @ = "stopping" THEN "down" ELSE "joining"]
  /\ UNCHANGED <<log, claimVars, claims, done, skipped>>

\* The process dies: its marks are lost, the broker drops it.
Crash(m) ==
  /\ session[m] # "down"
  /\ Fault
  /\ session' = [session EXCEPT ![m] = "down"]
  /\ claims' = [claims EXCEPT ![m] = {}]
  /\ busy' = [busy EXCEPT ![m] = [p \in Partitions |-> FALSE]]
  /\ owner' = [p \in Partitions |-> IF owner[p] = m THEN Nobody ELSE owner[p]]
  /\ UNCHANGED <<log, committed, next, marked, done, skipped>>
-----------------------------------------------------------------------------
(* groupHandler.ConsumeClaim *)

(* Mutant forms stand before the definition they replace. *)

\* Mutant: MarkMessage before the handler.
ReceiveMarks(m, p) ==
  /\ p \in claims[m] /\ ~busy[m][p]
  /\ next[m][p] < log[p]
  /\ busy' = [busy EXCEPT ![m][p] = TRUE]
  /\ marked' = [marked EXCEPT ![m][p] = next[m][p] + 1]
  /\ UNCHANGED <<brokerVars, next, session, claims, done, skipped, faults>>

\* select takes a message; a message and a cancelled session may both be
\* ready, and then select takes either.
Receive(m, p) ==
  /\ p \in claims[m] /\ ~busy[m][p]
  /\ next[m][p] < log[p]
  /\ busy' = [busy EXCEPT ![m][p] = TRUE]
  /\ UNCHANGED <<brokerVars, next, marked, session, claims, done, skipped, faults>>

\* Mutant: the mark is put one message too low.
HandlerOkMarksLow(m, p) ==
  /\ busy[m][p]
  /\ busy' = [busy EXCEPT ![m][p] = FALSE]
  /\ done' = [done EXCEPT ![p] = @ \cup {next[m][p]}]
  /\ marked' = [marked EXCEPT ![m][p] = next[m][p] - 1]
  /\ next' = [next EXCEPT ![m][p] = @ + 1]
  /\ UNCHANGED <<brokerVars, session, claims, skipped, faults>>

\* The handler returns nil: MarkMessage.
HandlerOk(m, p) ==
  /\ busy[m][p]
  /\ busy' = [busy EXCEPT ![m][p] = FALSE]
  /\ done' = [done EXCEPT ![p] = @ \cup {next[m][p]}]
  /\ marked' = [marked EXCEPT ![m][p] = next[m][p] + 1]
  /\ next' = [next EXCEPT ![m][p] = @ + 1]
  /\ UNCHANGED <<brokerVars, session, claims, skipped, faults>>

\* The handler returns an error that is not of the context: continue.
HandlerError(m, p) ==
  /\ busy[m][p]
  /\ busy' = [busy EXCEPT ![m][p] = FALSE]
  /\ skipped' = [skipped EXCEPT ![p] = @ \cup {next[m][p]}]
  /\ next' = [next EXCEPT ![m][p] = @ + 1]
  /\ UNCHANGED <<brokerVars, marked, session, claims, done, faults>>

\* Mutant: the offset is reset to the start of the log.
HandlerInterruptedResets(m, p) ==
  /\ busy[m][p]
  /\ busy' = [busy EXCEPT ![m][p] = FALSE]
  /\ claims' = [claims EXCEPT ![m] = @ \ {p}]
  /\ marked' = [marked EXCEPT ![m][p] = 0]
  /\ \/ session[m] # "open" /\ UNCHANGED <<session, faults>>
     \/ session[m] = "open" /\ Fault /\ session' = [session EXCEPT ![m] = "closing"]
  /\ UNCHANGED <<brokerVars, next, done, skipped>>

\* Mutant: the goroutine of the claim ends and the session stays open.
HandlerInterruptedAlone(m, p) ==
  /\ busy[m][p]
  /\ busy' = [busy EXCEPT ![m][p] = FALSE]
  /\ claims' = [claims EXCEPT ![m] = @ \ {p}]
  /\ session[m] = "open" => Fault
  /\ session[m] # "open" => UNCHANGED faults
  /\ UNCHANGED <<brokerVars, next, marked, session, done, skipped>>

\* The handler returns context.Canceled, since the session is being closed,
\* or DeadlineExceeded: ConsumeClaim returns the error, and with it goes the
\* session.
HandlerInterrupted(m, p) ==
  /\ busy[m][p]
  /\ busy' = [busy EXCEPT ![m][p] = FALSE]
  /\ claims' = [claims EXCEPT ![m] = @ \ {p}]
  /\ \/ session[m] # "open" /\ UNCHANGED <<session, faults>>
     \/ session[m] = "open" /\ Fault /\ session' = [session EXCEPT ![m] = "closing"]
  /\ UNCHANGED <<brokerVars, next, marked, done, skipped>>

\* select sees the cancelled session, or the closed channel.
ExitClaim(m, p) ==
  /\ session[m] \in {"closing", "stopping"}
  /\ p \in claims[m] /\ ~busy[m][p]
  /\ claims' = [claims EXCEPT ![m] = @ \ {p}]
  /\ UNCHANGED <<brokerVars, claimVars, session, done, skipped, faults>>

Claim(m, p) ==
  \/ Receive(m, p)
  \/ HandlerOk(m, p)
  \/ HandlerError(m, p)
  \/ HandlerInterrupted(m, p)
  \/ ExitClaim(m, p)

Next ==
  \/ \E p \in Partitions : Publish(p)
  \/ Assign
  \/ \E m \in Members :
       \/ Rebalance(m) \/ Evict(m) \/ AutoCommit(m)
       \/ Boot(m) \/ Shutdown(m) \/ EndSession(m) \/ Crash(m)
       \/ \E p \in Partitions : Claim(m, p)

Spec == Init /\ [][Next]_vars

\* A handler returns, a goroutine that can go on does, sarama and the broker
\* bring a rebalance to its end, and a process that went down is started again
\* (by the operator: the compose files set no restart policy).
Fairness ==
  /\ WF_vars(Assign)
  /\ \A m \in Members :
       /\ WF_vars(Boot(m)) /\ WF_vars(Rebalance(m)) /\ WF_vars(EndSession(m))
       /\ \A p \in Partitions : WF_vars(Claim(m, p))

FairSpec == Spec /\ Fairness

-----------------------------------------------------------------------------
TypeOK ==
  /\ log \in [Partitions -> Nat]
  /\ committed \in [Partitions -> Nat]
  /\ owner \in [Partitions -> Members \cup {Nobody}]
  /\ session \in [Members -> Sessions]
  /\ claims \in [Members -> SUBSET Partitions]
  /\ next \in [Members -> [Partitions -> Nat]]
  /\ marked \in [Members -> [Partitions -> Nat]]
  /\ busy \in [Members -> [Partitions -> BOOLEAN]]
  /\ done \in [Partitions -> SUBSET Nat]
  /\ skipped \in [Partitions -> SUBSET Nat]
  /\ faults \in Nat

\* At-least-once: the group never commits past a message that no handler call
\* has finished with, whatever crashes, evictions and rebalances happen while
\* handlers run (ConsumeClaim marks after the handler, never before).
AtLeastOnce ==
  \A p \in Partitions : \A o \in 0 .. committed[p] - 1 : o \in done[p] \cup skipped[p]

\* A committed offset never moves back, so a rebalance or an evicted member
\* that wakes up late does not make the group read what it has settled again.
CommittedNeverBack ==
  [][\A p \in Partitions : committed'[p] >= committed[p]]_committed

\* "On handler error the message is logged and skipped - the consumer group
\* will receive it again after a restart, since the offset was not committed."
\* (group_handler.go): a message only ever failed is at or above the committed
\* offset.
FailedIsRedelivered ==
  \A p \in Partitions : \A o \in skipped[p] \ done[p] : committed[p] <= o

\* No message waits for ever: once crashes, restarts and timeouts stop, every
\* published message gets a handler call that finishes, also the ones whose
\* first call was interrupted (Consume joins again, ConsumeClaim reads on).
EveryMessageSettled ==
  \A p \in Partitions : \A o \in 0 .. MaxLog - 1 :
    log[p] > o ~> o \in done[p] \cup skipped[p]
=============================================================================
