----------------------------- MODULE DurableLog -----------------------------
(***************************************************************************)
(* What durable telemetry promises: a claim about a log that somebody else *)
(* keeps.  Snapshots reach the log one by one, in any order after the      *)
(* first.  The claim names a snapshot that the log has kept; it only       *)
(* grows, until it is final.  Leave to go on is given on a claim.          *)
(***************************************************************************)
EXTENDS Integers

CONSTANT Snapshots

VARIABLES kept, claim, final, granted

logSpecVars == <<kept, claim, final, granted>>

Unclaimed == -1

LogInit == kept = {} /\ claim = Unclaimed /\ final = FALSE /\ granted = FALSE

Keep(n) ==
    /\ n = 0 \/ 0 \in kept
    /\ kept' = kept \cup {n}
    /\ UNCHANGED <<claim, final, granted>>

Claim(n) ==
    /\ ~final
    /\ n \in kept /\ n > claim
    /\ claim' = n
    /\ UNCHANGED <<kept, final, granted>>

\* The last claim may be a larger one.
Close(n) ==
    /\ ~final
    /\ n \in kept /\ n >= claim
    /\ claim' = n
    /\ final' = TRUE
    /\ UNCHANGED <<kept, granted>>

Grant ==
    /\ claim # Unclaimed
    /\ granted' = TRUE
    /\ UNCHANGED <<kept, claim, final>>

LogNext == (\E n \in Snapshots : Keep(n) \/ Claim(n) \/ Close(n)) \/ Grant

LogSpec == LogInit /\ [][LogNext]_logSpecVars
=============================================================================
