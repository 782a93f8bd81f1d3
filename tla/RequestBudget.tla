--------------------------- MODULE RequestBudget ---------------------------
(***************************************************************************)
(* How often the telemetry worker may write to GitHub: RequestBudget of    *)
(* scripts/publish-rbm-telemetry.py and the part of run_worker's loop that *)
(* asks it.  Telemetry's action Patch leaves open when a request is made;  *)
(* this module says when it may be.                                        *)
(*                                                                         *)
(* The code has Minute = 60 s, Burst = 30, Hour = 3600 s and Quota = 400.  *)
(* The clock (time.monotonic) is in ticks of any size.  The deque of times *)
(* is the set of the writes that are still in it, by number: the clock     *)
(* never goes back, so their order in the deque is that of their numbers.  *)
(***************************************************************************)
EXTENDS Integers, Sequences, FiniteSets

CONSTANTS
    Minute, Burst,  \* the short window and how many writes it may hold
    Hour, Quota     \* the long window and how many writes it may hold

\* The limits the code has are of this kind.
Limits ==
    /\ {Minute, Burst, Hour, Quota} \subseteq Nat \ {0}
    /\ Minute <= Hour

VARIABLES
    clock,    \* time.monotonic()
    sent,     \* history: the times of all writes, the POST among them
    writes,   \* the writes in the budget's deque
    due,      \* next_publish
    refused,  \* the budget has turned the current attempt down
    raised    \* record has raised

vars == <<clock, sent, writes, due, refused, raised>>

TypeOK ==
    /\ clock \in Nat /\ due \in Nat
    /\ sent \in Seq(Nat)
    /\ writes \subseteq 1..Len(sent)
    /\ refused \in BOOLEAN /\ raised \in BOOLEAN

\* The POST has been acknowledged when the budget is made.
Init ==
    /\ clock = 0 /\ due = 0
    /\ sent = <<0>> /\ writes = {1}
    /\ refused = FALSE /\ raised = FALSE

(***************************************************************************)
(* delay                                                                   *)
(***************************************************************************)

Trimmed(deque, now) == {i \in deque : sent[i] > now - Hour}

Recent(deque, now) == {i \in deque : sent[i] > now - Minute}

First(deque) == sent[CHOOSE i \in deque : \A j \in deque : i <= j]

Larger(a, b) == IF a < b THEN b ELSE a

\* How long the short window and the long one are still full, for a trimmed deque.
Wait(deque, now) ==
    Larger(IF Cardinality(Recent(deque, now)) >= Burst
           THEN Larger(0, First(Recent(deque, now)) + Minute - now) ELSE 0,
           IF Cardinality(deque) >= Quota
           THEN Larger(0, First(deque) + Hour - now) ELSE 0)

Delay(deque, now) == Wait(Trimmed(deque, now), now)

(***************************************************************************)
(* run_worker                                                              *)
(***************************************************************************)

\* Time passes between two attempts and within a request.
Elapse ==
    /\ clock' = clock + 1
    /\ UNCHANGED <<sent, writes, due, refused, raised>>

\* A snapshot is due and the budget says when to come back.
Refuse ==
    /\ clock >= due /\ ~raised
    /\ Delay(writes, clock) > 0
    /\ writes' = Trimmed(writes, clock)
    /\ due' = clock + Delay(writes, clock)
    /\ refused' = TRUE
    /\ UNCHANGED <<clock, sent, raised>>

\* record asks for the delay again, and raises outside of the handler of failed requests.
Record(deque) ==
    IF Delay(deque, clock) > 0
    THEN raised' = TRUE /\ writes' = Trimmed(deque, clock) /\ UNCHANGED sent
    ELSE /\ sent' = Append(sent, clock)
         /\ writes' = Trimmed(deque, clock) \cup {Len(sent')}
         /\ UNCHANGED raised

\* The attempt is recorded before the request is made, so a failed request counts too.
\* The interval and the backoff that follow only put the next attempt off.
Publish ==
    /\ clock >= due /\ ~raised
    /\ Delay(writes, clock) = 0
    /\ Record(Trimmed(writes, clock))
    /\ due' = clock
    /\ refused' = FALSE
    /\ UNCHANGED clock

Next == Elapse \/ Refuse \/ Publish

Spec == Init /\ [][Next]_vars

(***************************************************************************)
(* Properties                                                              *)
(***************************************************************************)

\* No window of a minute holds more than Burst writes and none of an hour more than Quota,
\* wherever it begins: a write and the Burst-th after it are a minute apart ("No
\* burst/backlog replay").
WithinLimits ==
    \A i, j \in 1..Len(sent) :
        /\ j >= i + Burst => sent[j] >= sent[i] + Minute
        /\ j >= i + Quota => sent[j] >= sent[i] + Hour

\* The deque never holds more than an hour's writes, and record, which asks for the delay
\* again, never raises in the worker's loop.
BudgetIsSmall == Cardinality(writes) <= Quota /\ ~raised

\* The delay is long enough: an attempt that comes back when it was told is not turned
\* down again.
OneRefusal == [][Refuse => ~refused]_vars
=============================================================================
