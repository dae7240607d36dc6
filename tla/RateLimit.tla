------------------------------ MODULE RateLimit ------------------------------
(***************************************************************************)
(* The rate limiter in front of the order API                              *)
(* (platform/pkg/ratelimit/middleware.go): every instance of the service   *)
(* asks Redis, through redis_rate, whether the request may pass, under a   *)
(* key that is the path of the URL, and lets it pass when Redis does not   *)
(* answer.                                                                 *)
(*                                                                         *)
(* redis_rate is external.  Its script keeps one number per key, the       *)
(* theoretical arrival time of GCRA; backlog is that time less the present *)
(* one, and 0 when the key has expired.  Time is discrete, Emission ticks  *)
(* for one request at the limit's rate.                                    *)
(*                                                                         *)
(* An observer opens a window at any time, and counts, by path, the        *)
(* requests that Redis lets pass until it closes, and how often Redis      *)
(* loses its keys.                                                         *)
(***************************************************************************)
EXTENDS Integers

CONSTANTS
  Instances,  \* the replicas of the service
  Paths,      \* the paths of URLs
  Emission,   \* ticks for which one request uses the rate up
  Burst,      \* requests that may pass at once
  MaxWindow,  \* bound: ticks the observer looks on
  MaxLosses   \* bound: how often Redis loses its keys in that time

ASSUME RateAssumption ==
  /\ Emission \in Nat \ {0}
  /\ Burst \in Nat \ {0}
  /\ MaxWindow \in Nat /\ MaxLosses \in Nat

VARIABLES
  backlog,    \* what Redis holds of each key
  redisUp,    \* Redis answers
  window      \* what the observer has seen

limitVars == <<backlog, redisUp, window>>

\* Mutant: each instance has a key of its own.
LimitKeyOwn(i, path) == <<i, path>>

LimitKey(i, path) == path

LimitKeys == {LimitKey(i, path) : i \in Instances, path \in Paths}

Closed == [open |-> FALSE, ticks |-> 0, losses |-> 0, passed |-> [path \in Paths |-> 0]]

LimitInit ==
  /\ backlog = [key \in LimitKeys |-> 0]
  /\ redisUp \in BOOLEAN
  /\ window = Closed

\* limiter.Allow: the next request has its place within the burst.
Allowed(key) == backlog[key] + Emission <= Emission * Burst

\* Redis takes the request into the key's account, and it passes.
Grant(i, path) ==
  /\ redisUp /\ Allowed(LimitKey(i, path))
  /\ backlog' = [backlog EXCEPT ![LimitKey(i, path)] = @ + Emission]
  /\ window' = IF window.open THEN [window EXCEPT !.passed[path] = @ + 1] ELSE window
  /\ UNCHANGED redisUp

\* res.Allowed = 0: the request is answered with 429.
Refuse(i, path) ==
  /\ redisUp /\ ~Allowed(LimitKey(i, path))
  /\ UNCHANGED limitVars

\* Mutant: without Redis the request waits.
LetThroughNot(i, path) ==
  /\ FALSE
  /\ UNCHANGED limitVars

\* An error of Allow: "letting the request through".
LetThrough(i, path) ==
  /\ ~redisUp
  /\ UNCHANGED limitVars

Tick ==
  /\ backlog' = [key \in LimitKeys |-> IF backlog[key] > 0 THEN backlog[key] - 1 ELSE 0]
  /\ window' = IF window.open /\ window.ticks < MaxWindow
                 THEN [window EXCEPT !.ticks = @ + 1] ELSE Closed
  /\ UNCHANGED redisUp

OpenWindow ==
  /\ ~window.open
  /\ window' = [Closed EXCEPT !.open = TRUE]
  /\ UNCHANGED <<backlog, redisUp>>

RedisFails ==
  /\ redisUp
  /\ redisUp' = FALSE
  /\ UNCHANGED <<backlog, window>>

RedisRecovers ==
  /\ ~redisUp
  /\ redisUp' = TRUE
  /\ UNCHANGED <<backlog, window>>

\* The container is started anew; it has no volume, so every key is gone.
RedisRestarts ==
  /\ ~redisUp
  /\ window.open => window.losses < MaxLosses
  /\ redisUp' = TRUE
  /\ backlog' = [key \in LimitKeys |-> 0]
  /\ window' = IF window.open THEN [window EXCEPT !.losses = @ + 1] ELSE window

LimitNext ==
  \/ \E i \in Instances, path \in Paths : Grant(i, path) \/ Refuse(i, path) \/ LetThrough(i, path)
  \/ Tick \/ OpenWindow \/ RedisFails \/ RedisRecovers \/ RedisRestarts

LimitSpec == LimitInit /\ [][LimitNext]_limitVars
-----------------------------------------------------------------------------
\* "one limit shared by every replica" (README, Resilience): however the
\* requests for a path are spread over the instances, in no stretch of time
\* does Redis let more of them pass than the burst and what the rate gives for
\* the time, and one more burst for each time that Redis lost its keys.  What
\* passes while Redis does not answer comes on top.
RateHolds ==
  \A path \in Paths :
    Emission * window.passed[path] <= (Emission * Burst) * (window.losses + 1) + window.ticks
=============================================================================
