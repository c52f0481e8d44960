---------------------------- MODULE RecordedOnce ----------------------------
(***************************************************************************)
(* What the offline-replay machinery promises a till (sales/client-ref.ts):*)
(* a checkout or payment it queued is recorded at most once however often  *)
(* it is replayed, and is reported as recorded only once it is.            *)
(***************************************************************************)
EXTENDS Naturals

CONSTANT Keys   \* idempotency keys of queued checkouts and payments

VARIABLES
    applied,    \* how many times each key's write is in the database
    answer      \* what its till knows

Init ==
    /\ applied = [k \in Keys |-> 0]
    /\ answer = [k \in Keys |-> "none"]

Record(k) ==
    /\ applied[k] = 0
    /\ applied' = [applied EXCEPT ![k] = 1]
    /\ UNCHANGED answer

Tell(k) ==
    /\ answer[k] = "none"
    /\ \/ answer' = [answer EXCEPT ![k] = "recorded"] /\ applied[k] = 1
       \/ answer' = [answer EXCEPT ![k] = "rejected"]
    /\ UNCHANGED applied

Next == \E k \in Keys : Record(k) \/ Tell(k)

Spec == Init /\ [][Next]_<<applied, answer>>
=============================================================================
