------------------------------ MODULE RateLimits ------------------------------
(***************************************************************************)
(* The rate limiter in front of every route (interfaces/http/limits.py): a *)
(* sliding window per client and tier, kept in the process.  The           *)
(* middleware asks it between two awaits, so a request is one step.        *)
(*                                                                         *)
(* Time is counted in half seconds, since Retry-After is whole seconds of  *)
(* a clock that is not.  One client: the key of another shares nothing.    *)
(***************************************************************************)
EXTENDS Integers, Sequences

CONSTANTS
  Routes,       \* what the client calls: [method, words] of a path; none is exempt
  MaxRequests,  \* of each tier: TIER_CAPTURE ... TIER_DEFAULT (120, 30, 10, 60)
  WindowSeconds,  \* 60 in every tier
  LastTick      \* bound: how long the client is watched

Tiers == {"capture", "bulk_egress", "auth", "default"}
TicksASecond == 2
Window == TicksASecond * WindowSeconds

ASSUME LimitAssumption == /\ MaxRequests \in [Tiers -> Nat \ {0}] /\ WindowSeconds \in Nat \ {0}
                          /\ LastTick \in Nat

Saves == {"sparks", "little-things", "right-now", "voice", "media", "why", "done", "override", "captures"}
\* classify_route_tier: the first test that fits.
TierOf(route) ==
  IF route.method \in {"POST", "PUT"} /\ route.words \cap Saves # {} THEN "capture"
  ELSE IF route.method = "GET" /\ "media" \in route.words THEN "bulk_egress"
  ELSE IF \/ route.method = "POST" /\ "families" \in route.words
          \/ route.words \cap {"pairing", "auth/pair", "auth/token", "auth/claim"} # {} THEN "auth"
  ELSE "default"

None == -1

VARIABLES
  tick,
  bucket,     \* of each tier: when the requests let in during the window came
  waitUntil,  \* of each tier: what the last Retry-After told the client, or None
  refusedAgain,  \* history: refusals in a row that came after waiting as told
  letIn       \* history: when every request let in came, since the process started

limitVars == <<tick, bucket, waitUntil, refusedAgain, letIn>>

\* A slip: a request is forgotten in the tick before it leaves the window.
WithinForgetful(stamps) == SelectSeq(stamps, LAMBDA t : t > tick - Window + 1)

\* The stamps are in the order they came, so those the window has left are the first ones.
First(stamps) == CHOOSE n \in 1 .. Len(stamps) + 1 :
  /\ n <= Len(stamps) => stamps[n] > tick - Window
  /\ \A m \in 1 .. n - 1 : stamps[m] <= tick - Window
Within(stamps) == SubSeq(stamps, First(stamps), Len(stamps))

AtLeastOne(n) == IF n < 1 THEN 1 ELSE n
RetryAfter(stamps) == AtLeastOne((Head(stamps) + Window - tick) \div TicksASecond)

IsAllowed(tier) ==
  /\ Len(Within(bucket[tier])) < MaxRequests[tier]
  /\ bucket' = [bucket EXCEPT ![tier] = Append(Within(@), tick)]
  /\ letIn' = [letIn EXCEPT ![tier] = Append(@, tick)]
  /\ waitUntil' = [waitUntil EXCEPT ![tier] = None]
  /\ refusedAgain' = [refusedAgain EXCEPT ![tier] = 0]

IsRefused(tier) ==
  /\ Len(Within(bucket[tier])) >= MaxRequests[tier]
  /\ bucket' = [bucket EXCEPT ![tier] = Within(@)]
  /\ waitUntil' = [waitUntil EXCEPT ![tier] = tick + TicksASecond * RetryAfter(Within(bucket[tier]))]
  /\ refusedAgain' = IF waitUntil[tier] # None /\ tick >= waitUntil[tier]
                     THEN [refusedAgain EXCEPT ![tier] = @ + 1] ELSE refusedAgain
  /\ UNCHANGED letIn

Request(route) == /\ IsAllowed(TierOf(route)) \/ IsRefused(TierOf(route))
                  /\ UNCHANGED tick

TimeGoesOn == tick < LastTick /\ tick' = tick + 1 /\ UNCHANGED <<bucket, waitUntil, refusedAgain, letIn>>

\* The buckets are the process's own.
Forgets == /\ bucket' = [tier \in Tiers |-> << >>] /\ letIn' = [tier \in Tiers |-> << >>]
           /\ UNCHANGED <<tick, waitUntil, refusedAgain>>

LimitInit == /\ tick = 0 /\ bucket = [tier \in Tiers |-> << >>] /\ letIn = [tier \in Tiers |-> << >>]
             /\ waitUntil = [tier \in Tiers |-> None] /\ refusedAgain = [tier \in Tiers |-> 0]
LimitNext == (\E route \in Routes : Request(route)) \/ TimeGoesOn \/ Forgets
LimitSpec == LimitInit /\ [][LimitNext]_limitVars

LimitTypeOK ==
  /\ tick \in 0 .. LastTick /\ refusedAgain \in [Tiers -> Nat]
  /\ waitUntil \in [Tiers -> Nat \cup {None}]
  /\ \A tier \in Tiers : bucket[tier] \in Seq(0 .. LastTick) /\ letIn[tier] \in Seq(0 .. LastTick)

---------------------------------------------------------------------------
\* LimitsAreFair: in no window, wherever it starts, are more requests of a tier let in than
\* its rule allows, although the window slides and forgets; and a client that waits as it was
\* told is refused once more at most, for the part of a second that int() cut off.
LimitsAreFair ==
  \A tier \in Tiers :
    /\ \A n \in 1 .. Len(letIn[tier]) :
         n > MaxRequests[tier] => letIn[tier][n] - letIn[tier][n - MaxRequests[tier]] >= Window
    /\ refusedAgain[tier] <= 1
=============================================================================
