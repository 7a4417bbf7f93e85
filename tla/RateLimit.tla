----------------------------- MODULE RateLimit -----------------------------
(***************************************************************************)
(* The fixed-window limiter that every process shares through the          *)
(* database.  A bucket belongs to a key (the source or the account) and a  *)
(* window; a request increments the bucket of every key it has, purges     *)
(* buckets past their expiry and is denied when a count exceeds its limit. *)
(* Each process reads its own clock.                                       *)
(***************************************************************************)
EXTENDS Integers, FiniteSets, FiniteSetsExt

CONSTANTS
    Processes, Keys,
    LimitOf,     \* the limit of each key
    Window,      \* rate_limit_window_seconds
    Skew,        \* how far a process clock may run behind
    MaxTime

VARIABLES
    now,       \* real time
    behind,    \* how far each process clock is behind
    bucket,    \* the rate_limit_buckets rows: <<key, window start>> -> count
    granted    \* granted requests: <<key, window start, real time>> -> how many

vars == <<now, behind, bucket, granted>>

Clock(p) == now - behind[p]

_window_start(t) == t - (t % Window)

wrong_expires_at(w) == w + Window
expires_at(w) == w + 2 * Window

Count(k, w) == IF <<k, w>> \in DOMAIN bucket THEN bucket[<<k, w>>] ELSE 0

Grants(g) == IF g \in DOMAIN granted THEN granted[g] ELSE 0

_increment(K, w) ==
    [b \in DOMAIN bucket \cup {<<k, w>> : k \in K} |->
        IF b[2] = w /\ b[1] \in K THEN Count(b[1], w) + 1 ELSE bucket[b]]

purge(B, t) == LET keep == {b \in DOMAIN B : expires_at(b[2]) > t} IN [b \in keep |-> B[b]]

exceeded(K, w) == \E k \in K : Count(k, w) + 1 > LimitOf[k]

Init ==
    /\ now = Skew
    /\ behind \in [Processes -> 0..Skew]
    /\ bucket = << >>
    /\ granted = << >>

check_rate_limit(p, K) ==
    LET w == _window_start(Clock(p)) IN
    /\ bucket' = purge(_increment(K, w), Clock(p))
    /\ granted' = IF exceeded(K, w) THEN granted
                  ELSE LET new == {<<k, w, now>> : k \in K}
                       IN [g \in DOMAIN granted \cup new |-> Grants(g) + (IF g \in new THEN 1 ELSE 0)]
    /\ UNCHANGED <<now, behind>>

Tick == now < MaxTime /\ now' = now + 1 /\ UNCHANGED <<behind, bucket, granted>>

(* Requests are explored while every count is at most one past its limit.  *)
Next ==
    \/ \E p \in Processes, K \in {K \in SUBSET Keys : "source" \in K} :
          /\ \A k \in K : Count(k, _window_start(Clock(p))) <= LimitOf[k]
          /\ check_rate_limit(p, K)
    \/ Tick

Spec == Init /\ [][Next]_vars

-----------------------------------------------------------------------------
TypeOK ==
    /\ now \in 0..MaxTime /\ behind \in [Processes -> 0..Skew]
    /\ \A b \in DOMAIN bucket : b[1] \in Keys /\ b[2] % Window = 0
                                /\ bucket[b] \in 1..(LimitOf[b[1]] + 1)

(* WindowLimit: no key is granted more than its limit in a window, by all  *)
(* processes together, although denied requests and purges by a process    *)
(* whose clock is ahead touch the same rows (purge keeps a bucket for two  *)
(* windows).                                                               *)
WindowLimit ==
    \A k \in Keys : \A w \in {g[2] : g \in DOMAIN granted} :
        MapThenSumSet(Grants, {g \in DOMAIN granted : g[1] = k /\ g[2] = w}) <= LimitOf[k]

(* BurstBound: in any stretch of real time one window long a key is        *)
(* granted at most its limit for each window that the clocks of the        *)
(* processes can be in: two, and one more when clocks differ.              *)
BurstBound ==
    \A k \in Keys : \A t \in 0..MaxTime :
        MapThenSumSet(Grants, {g \in DOMAIN granted : g[1] = k /\ g[3] \in t..(t + Window - 1)})
            <= LimitOf[k] * (IF Skew = 0 THEN 2 ELSE 3)

Safety == TypeOK /\ WindowLimit /\ BurstBound
=============================================================================
