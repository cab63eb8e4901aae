-------------------------- MODULE ProviderRequests --------------------------
(***************************************************************************)
(* What request() of the provider promises to a page: a promise for every  *)
(* request, that is settled at most once, and is settled in the end unless *)
(* the page goes or stops to watch what is pending.  Several promises may  *)
(* be settled together.                                                    *)
(***************************************************************************)
CONSTANT Request

VARIABLES
  promise,  \* "none" until the request is made, then "pending", then "settled"
  watched   \* the requests of pages that live and watch what is pending

Init ==
  /\ promise = [r \in Request |-> "none"]
  /\ watched = {}

Make(r) ==
  /\ promise[r] = "none"
  /\ \E now \in {"pending", "settled"} : promise' = [promise EXCEPT ![r] = now]
  /\ UNCHANGED watched

\* Promises are settled, and pages may stop to watch at the same time.
Settle(S) ==
  /\ \A r \in S : promise[r] = "pending"
  /\ promise' = [r \in Request |-> IF r \in S THEN "settled" ELSE promise[r]]
  /\ watched' \subseteq watched

\* A page appears.
Watch(S) ==
  /\ \A r \in S : promise[r] = "none"
  /\ watched' = watched \cup S
  /\ UNCHANGED promise

Next ==
  \/ \E r \in Request : Make(r)
  \/ \E S \in SUBSET Request : Settle(S) \/ Watch(S)

Safety == Init /\ [][Next]_<<promise, watched>>

EverySettled ==
  \A r \in Request : promise[r] = "pending" ~> (promise[r] = "settled" \/ r \notin watched)

Spec == Safety /\ EverySettled
=============================================================================
