------------------------------ MODULE RateLimit ------------------------------
(* The fixed-window limiter: one document per scope, identifier and window,  *)
(* counted by an atomic upsert; a store that fails lets everything through.  *)
EXTENDS Integers, Sequences, FiniteSets

CONSTANTS Keys,          \* pairs of a scope and an identifier
          Limit,         \* the requests a scope admits in a window
          Window,
          MaxNow, MaxOutages   \* bounds on time and on failures of the store

ASSUME RateLimitAssumption ==
  /\ Window \in Nat \ {0} /\ MaxNow \in Nat /\ MaxOutages \in Nat
  /\ \A k \in Keys : Limit[k[1]] \in Nat

VARIABLES now,
          counts,     \* rate_limits: the requests counted in each window
          outages,    \* history: requests the store failed to count
          admitted    \* history: the instants at which requests were admitted

limiter == <<counts, outages, admitted>>

WindowOf(t) == t - (t % Window)
Windows == {WindowOf(t) : t \in 0..MaxNow}

LimiterInit ==
  /\ counts = [k \in Keys |-> [w \in Windows |-> 0]]
  /\ outages = 0
  /\ admitted = [k \in Keys |-> <<>>]

(* *Mistake:* the request that reaches the limit passes too.                 *)
AllowedOneMore(k) == counts[k][WindowOf(now)] <= Limit[k[1]]
Allowed(k) == counts[k][WindowOf(now)] < Limit[k[1]]

(* A request beyond the limit is answered 429: a step that changes nothing   *)
(* but how far a spent window is overdrawn, which nothing reads. An outage    *)
(* matters where the window is spent: one before is a request uncounted, and *)
(* shows by one more that passes in the end.                                 *)
Admit(k) ==
  /\ admitted' = [admitted EXCEPT ![k] = Append(@, now)]
  /\ \/ /\ Allowed(k)
        /\ counts' = [counts EXCEPT ![k][WindowOf(now)] = @ + 1]
        /\ UNCHANGED outages
     \/ /\ ~Allowed(k) /\ outages < MaxOutages
        /\ outages' = outages + 1
        /\ UNCHANGED counts

LimiterTypeOK ==
  /\ outages \in 0..MaxOutages
  /\ \A k \in Keys : \A w \in Windows : counts[k][w] \in 0..Limit[k[1]]
  /\ admitted \in [Keys -> Seq(0..MaxNow)]

(* What a fixed window promises: in any interval as long as a window no more *)
(* than twice the limit is admitted, and what the failing store let through. *)
RatesAreCapped ==
  \A k \in Keys, t \in 0..MaxNow :
    Cardinality({i \in DOMAIN admitted[k] : admitted[k][i] \in t..(t + Window - 1)})
      <= 2 * Limit[k[1]] + outages
=============================================================================
