---------------------------- MODULE WriteReplay ----------------------------
(***************************************************************************)
(* Dedupe of replayed writes.  A till's outbox sends a write with one      *)
(* idempotency key until it has an answer.  The middleware                 *)
(* (idempotency-middleware.ts) replays a stored response when there is     *)
(* one, and otherwise runs the handler and stores its response without     *)
(* waiting for the store.  Checkouts and payments also keep the key on the *)
(* row they insert, under a unique index (sales/client-ref.ts).  A daily   *)
(* cron deletes the stored responses older than the retention.             *)
(*                                                                         *)
(* A request passes through the phases lookup, check (the clientRef read), *)
(* run (the handler's transaction) and reply; anything may happen between  *)
(* two of them.                                                            *)
(***************************************************************************)
EXTENDS Integers

CONSTANTS
    Keys,       \* idempotency keys, one per logical write
    Guarded,    \* keys of checkouts and payments (clientRef on the row)
    Servers,    \* requests in flight at once
    Retention,  \* RETENTION_HOURS of the cleanup cron
    Window,     \* the outbox replays an unguarded write only this long
    FreshFor,   \* a checkout counts as fresh this long (manual discounts)
    Regimes,    \* how rough the network and the server may be, see below
    MaxApplied, \* bound: no retry of a write applied more often than this
    MaxTime     \* bound: the clock stops here

\* calm: a retry follows its attempt, which ends within the hour.
\* overlapping: a retry may overtake the attempt it repeats.
\* hostile: besides, the server may crash and the database fail.
Regime == {"calm", "overlapping", "hostile"}

ASSUME ReplayAssumption ==
    /\ Keys # {} /\ Guarded \subseteq Keys
    /\ Retention \in Nat /\ Window \in Nat /\ FreshFor \in Nat /\ MaxTime \in Nat
    /\ Regimes \subseteq Regime /\ MaxApplied \in Nat

VARIABLES
    regime,     \* the regime of this behaviour
    now,        \* hours
    queuedAt,   \* when the till queued each write, or NotQueued
    answer,     \* the final answer the till has for it
    applied,    \* how many times the write is in the database
    records,    \* idempotency_record by key, or NoRecord
    pending,    \* responses being stored, fire and forget
    req         \* the request each worker serves

replayVars == <<regime, now, queuedAt, answer, applied, records, pending, req>>

Outcomes  == {"recorded", "rejected", "tooFresh", "failed"}
Answers   == {"none", "recorded", "rejected"}
Phases    == {"idle", "lookup", "check", "run", "reply"}
NotQueued == -1
NoRecord  == [outcome |-> "none", at |-> 0]

\* res is whether res.json has been intercepted to store the response.
Request == [phase: Phases, key: Keys, res: {"plain", "intercepted"},
            outcome: Outcomes \cup {"none"}]
NoRequest == [phase |-> "idle", key |-> CHOOSE k \in Keys : TRUE,
              res |-> "plain", outcome |-> "none"]

ReplayTypeOK ==
    /\ regime \in Regimes
    /\ now \in Nat
    /\ queuedAt \in [Keys -> Nat \cup {NotQueued}]
    /\ answer \in [Keys -> Answers]
    /\ applied \in [Keys -> Nat]
    /\ records \in [Keys -> [outcome: Outcomes \cup {"none"}, at: Nat]]
    /\ pending \subseteq [key: Keys, outcome: Outcomes]
    /\ req \in [Servers -> Request]

ReplayInit ==
    /\ regime \in Regimes
    /\ now = 0
    /\ queuedAt = [k \in Keys |-> NotQueued]
    /\ answer = [k \in Keys |-> "none"]
    /\ applied = [k \in Keys |-> 0]
    /\ records = [k \in Keys |-> NoRecord]
    /\ pending = {}
    /\ req = [w \in Servers |-> NoRequest]

Overlap == regime # "calm"
Faults  == regime = "hostile"

----------------------------------------------------------------------------
(* The till *)

Quiet(k) == /\ \A w \in Servers : req[w].phase # "idle" => req[w].key # k
            /\ \A p \in pending : p.key # k

\* Mutant: an unguarded write is replayed however old it is.
ReplaysForever(k) == TRUE
MayReplay(k) == k \in Guarded \/ now - queuedAt[k] <= Window

\* First attempt or retry of a write that has no final answer yet.
Send(w, k) ==
    /\ req[w].phase = "idle" /\ answer[k] = "none"
    /\ queuedAt[k] = NotQueued \/ MayReplay(k)
    /\ Overlap \/ Quiet(k)
    /\ applied[k] <= MaxApplied
    /\ queuedAt' = [queuedAt EXCEPT ![k] = IF @ = NotQueued THEN now ELSE @]
    /\ req' = [req EXCEPT ![w] = [phase |-> "lookup", key |-> k,
                                  res |-> "plain", outcome |-> "none"]]
    /\ UNCHANGED <<regime, now, answer, applied, records, pending>>

----------------------------------------------------------------------------
(* The server *)

Goto(w, phase, res, outcome) ==
    req' = [req EXCEPT ![w] = [phase |-> phase, key |-> @.key,
                               res |-> res, outcome |-> outcome]]

Handler(k) == IF k \in Guarded THEN "check" ELSE "run"

\* Mutant: the middleware stores that the write was recorded as it starts it.
LookupStoresEarly(w) ==
    LET k == req[w].key IN
    /\ req[w].phase = "lookup"
    /\ \/ /\ records[k] # NoRecord /\ Goto(w, "reply", "plain", records[k].outcome)
          /\ UNCHANGED pending
       \/ /\ records[k] = NoRecord /\ Goto(w, Handler(k), "intercepted", "none")
          /\ pending' = pending \cup {[key |-> k, outcome |-> "recorded"]}
    /\ UNCHANGED <<regime, now, queuedAt, answer, applied, records>>

\* The stored response is sent again as it was, or the handler is entered with
\* res.json intercepted; a failed lookup passes through without intercepting.
Lookup(w) ==
    LET k == req[w].key IN
    /\ req[w].phase = "lookup"
    /\ \/ records[k] # NoRecord /\ Goto(w, "reply", "plain", records[k].outcome)
       \/ records[k] = NoRecord /\ Goto(w, Handler(k), "intercepted", "none")
       \/ Faults /\ Goto(w, Handler(k), "plain", "none")
    /\ UNCHANGED <<regime, now, queuedAt, answer, applied, records, pending>>

\* findSaleIdByClientRef / findPaidSaleIdByClientRef before the transaction.
CheckRef(w) ==
    LET k == req[w].key IN
    /\ req[w].phase = "check"
    /\ IF applied[k] > 0 THEN Goto(w, "reply", req[w].res, "recorded")
                         ELSE Goto(w, "run", req[w].res, "none")
    /\ UNCHANGED <<regime, now, queuedAt, answer, applied, records, pending>>

\* Mutant: CLIENT_REF without its unique index.
NoUniqueRef(k) == FALSE
\* The insert fails with P2002 when the key is on a row already.
RefConflict(k) == k \in Guarded /\ applied[k] > 0

\* The transaction commits, or loses to a replay that did and answers with the
\* row that won.  Reading the sale back for the answer may fail.
Execute(w) ==
    LET k == req[w].key IN
    /\ req[w].phase = "run"
    /\ applied' = IF RefConflict(k) THEN applied ELSE [applied EXCEPT ![k] = @ + 1]
    /\ \/ Goto(w, "reply", req[w].res, "recorded")
       \/ Faults /\ Goto(w, "reply", req[w].res, "failed")
    /\ UNCHANGED <<regime, now, queuedAt, answer, records, pending>>

\* A 4xx that would be the same at any time, and DISCOUNT_ABOVE_LIMIT, which
\* only a fresh checkout gets.
Reject(w) ==
    /\ req[w].phase = "run"
    /\ \/ Goto(w, "reply", req[w].res, "rejected")
       \/ /\ now - queuedAt[req[w].key] < FreshFor
          /\ Goto(w, "reply", req[w].res, "tooFresh")
    /\ UNCHANGED <<regime, now, queuedAt, answer, applied, records, pending>>

\* A 5xx: the clientRef read failed or the transaction rolled back.
Fail(w) ==
    /\ Faults /\ req[w].phase \in {"check", "run"}
    /\ Goto(w, "reply", req[w].res, "failed")
    /\ UNCHANGED <<regime, now, queuedAt, answer, applied, records, pending>>

\* Mutant: every 4xx is stored.
StorableAny(outcome) == outcome # "failed"
Storable(outcome) == outcome \notin {"failed", "tooFresh"}

BeginStore(w) ==
    pending' = IF req[w].res = "intercepted" /\ Storable(req[w].outcome)
               THEN pending \cup {[key |-> req[w].key, outcome |-> req[w].outcome]}
               ELSE pending

\* The response reaches the till, which stops on a final answer ...
Answer(w) ==
    LET k == req[w].key IN
    /\ req[w].phase = "reply"
    /\ BeginStore(w)
    /\ answer' = IF answer[k] = "none" /\ req[w].outcome \in Answers
                 THEN [answer EXCEPT ![k] = req[w].outcome] ELSE answer
    /\ req' = [req EXCEPT ![w] = NoRequest]
    /\ UNCHANGED <<regime, now, queuedAt, applied, records>>

\* ... or is lost on the way back.
LoseReply(w) ==
    /\ req[w].phase = "reply"
    /\ BeginStore(w)
    /\ req' = [req EXCEPT ![w] = NoRequest]
    /\ UNCHANGED <<regime, now, queuedAt, answer, applied, records>>

\* idempotencyRecord.create; a duplicate key is ignored.
Store(p) ==
    /\ p \in pending
    /\ pending' = pending \ {p}
    /\ records' = IF records[p.key] = NoRecord
                  THEN [records EXCEPT ![p.key] = [outcome |-> p.outcome, at |-> now]]
                  ELSE records
    /\ UNCHANGED <<regime, now, queuedAt, answer, applied, req>>

StoreFails(p) ==
    /\ Faults /\ p \in pending
    /\ pending' = pending \ {p}
    /\ UNCHANGED <<regime, now, queuedAt, answer, applied, records, req>>

Crash ==
    /\ Faults
    /\ req' = [w \in Servers |-> NoRequest]
    /\ pending' = {}
    /\ UNCHANGED <<regime, now, queuedAt, answer, applied, records>>

----------------------------------------------------------------------------
(* The cleanup cron *)

Expired(r) == r # NoRecord /\ now - r.at > Retention

Purge ==
    /\ \E k \in Keys : Expired(records[k])
    /\ records' = [k \in Keys |-> IF Expired(records[k]) THEN NoRecord
                                                        ELSE records[k]]
    /\ UNCHANGED <<regime, now, queuedAt, answer, applied, pending, req>>

Tick ==
    /\ now < MaxTime
    /\ ~Overlap => pending = {} /\ \A w \in Servers : req[w].phase = "idle"
    /\ now' = now + 1
    /\ UNCHANGED <<regime, queuedAt, answer, applied, records, pending, req>>

Serve(w) == Lookup(w) \/ CheckRef(w) \/ Execute(w) \/ Reject(w) \/ Fail(w)

ReplayNext ==
    \/ \E w \in Servers : \/ \E k \in Keys : Send(w, k)
                          \/ Serve(w)
                          \/ Answer(w)
                          \/ LoseReply(w)
    \/ \E p \in pending : Store(p) \/ StoreFails(p)
    \/ Crash \/ Purge \/ Tick

ReplaySpec == ReplayInit /\ [][ReplayNext]_replayVars

\* The outbox retries a queued write until it is answered, the server goes on
\* serving, a key whose responses keep coming is not cut off for ever, and
\* time passes up to the bound.
Started(w, k)  == queuedAt[k] # NotQueued /\ Send(w, k)
Concludes(w) == Answer(w) /\ req[w].outcome \in Answers
FairReplaySpec ==
    /\ ReplaySpec /\ SF_replayVars(Tick)
    /\ \A k \in Keys : WF_replayVars(\E w \in Servers : Started(w, k))
    /\ \A w \in Servers : WF_replayVars(Serve(w)) /\ WF_replayVars(Answer(w) \/ LoseReply(w))
                          /\ SF_replayVars(Concludes(w))
    /\ WF_replayVars(\E p \in pending : Store(p) \/ StoreFails(p))

----------------------------------------------------------------------------
(* Properties *)

\* A checkout or payment is in the database at most once: whatever overlaps,
\* crashes, is lost, expires from idempotency_record or fails to be stored
\* there, the clientRef index lets one insert through.
GuardedOnce == \A k \in Guarded : applied[k] <= 1

\* "Recorded" is never said of a write that is not in the database: neither to
\* the till, nor by a stored response, one being stored, or one being sent.
AnswersTrue ==
    \A k \in Keys : applied[k] = 0 =>
        /\ answer[k] # "recorded" /\ records[k].outcome # "recorded"
        /\ \A p \in pending : p # [key |-> k, outcome |-> "recorded"]
        /\ \A w \in Servers : req[w].key = k => req[w].outcome # "recorded"

\* A write the till was told is rejected is not in the database, so keying it
\* in again is safe (when retries follow their attempts: of two overlapping
\* attempts one may be recorded and the other refused).
RejectedNotApplied ==
    ~Overlap => \A k \in Keys : answer[k] = "rejected" => applied[k] = 0

\* Any write is applied at most once, as long as a retry follows its attempt,
\* nothing crashes and the till stops replaying before the cron's retention.
PlainOnce == ~Overlap => \A k \in Keys : applied[k] <= 1

\* What a till is told is true, and what it is told is rejected, or may send
\* again while retries follow their attempts, is not in the database twice.
AnswersHold == AnswersTrue /\ RejectedNotApplied /\ PlainOnce

\* Every checkout or payment a till has queued is answered for good (one
\* queued so late that the clock stops while it is fresh apart), when retries
\* follow their attempts and the requests pause again and again, so that the
\* clock can go on.
Pauses == []<>(\A w \in Servers : req[w].phase = "idle")
EventuallyAnswered ==
    ~Overlap /\ Pauses => \A k \in Guarded :
        queuedAt[k] \in 0 .. MaxTime - FreshFor ~> answer[k] # "none"

\* What makes the two above inductive when retries follow their attempts and
\* nothing fails: a key has one request at a time, which runs only what is not
\* applied and not on record; a plain write that is applied is on record, about
\* to be, or too old to replay; what is applied is nowhere said to be rejected.
Busy(w, k) == req[w].phase # "idle" /\ req[w].key = k
Known(k) ==
    \/ records[k] # NoRecord
    \/ \E p \in pending : p.key = k
    \/ \E w \in Servers : /\ Busy(w, k) /\ req[w].phase = "reply"
                          /\ req[w].res = "intercepted" /\ Storable(req[w].outcome)
Alone(k) ==
    /\ \A w, u \in Servers : Busy(w, k) /\ Busy(u, k) => w = u
    /\ \A w \in Servers : Busy(w, k) =>
        /\ \A p \in pending : p.key # k
        /\ answer[k] = "none" /\ queuedAt[k] # NotQueued
        /\ k \in Guarded \/ now - queuedAt[k] <= Window
        /\ req[w].phase \in {"check", "run"} =>
               records[k] = NoRecord /\ req[w].res = "intercepted"
        /\ req[w].phase = "run" => applied[k] = 0
Remembered(k) ==
    /\ applied[k] <= 1 /\ queuedAt[k] <= now
    /\ records[k] # NoRecord => queuedAt[k] # NotQueued /\ queuedAt[k] <= records[k].at
    /\ \A p \in pending : p.key = k => queuedAt[k] # NotQueued
    /\ applied[k] > 0 =>
        /\ queuedAt[k] # NotQueued
        /\ k \in Guarded \/ Known(k) \/ now - queuedAt[k] > Window
        /\ answer[k] # "rejected" /\ records[k].outcome # "rejected"
        /\ \A p \in pending : p.key = k => p.outcome # "rejected"
        /\ \A w \in Servers : Busy(w, k) => req[w].outcome # "rejected"
SerialCore == \A k \in Keys : Alone(k) /\ Remembered(k)
SerialInv == ~Overlap => SerialCore

\* For checkouts and payments this is the recording RecordedOnce promises.
Once == INSTANCE RecordedOnce WITH
            Keys <- Guarded,
            applied <- [k \in Guarded |-> applied[k]],
            answer <- [k \in Guarded |-> answer[k]]
RecordsOnce == Once!Spec
=============================================================================
