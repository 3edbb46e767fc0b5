----------------------------- MODULE DeliveryLedger -----------------------------
(***************************************************************************)
(* What the delivery core promises about a row, with no threads, no queue   *)
(* and no SQL: a delivery is worked on only by whoever has claimed it, and  *)
(* a claim is taken only on a new row, on a row waiting for a retry, or on  *)
(* a failed row the user retries.  A row nobody has claimed keeps its       *)
(* status, except that history may be pruned and that a new process adopts  *)
(* the QUEUED rows of the last one.                                         *)
(*                                                                          *)
(* A claim is a licence to write, not an exclusive one: two readers may     *)
(* have claimed the same RETRYING row.  That is what the code gives; see    *)
(* the run Duplicate, which shows what follows from it.                     *)
(***************************************************************************)
EXTENDS Naturals

CONSTANT MaxId   \* bound: deliveries ever made

Ids == 1 .. MaxId
Open == {"QUEUED", "RETRYING"}
Terminal == {"DELIVERED", "FAILED"}

VARIABLES status,   \* the status of each delivery
          claims,   \* deliveries somebody is working on, or has read to do so
          fresh     \* the next delivery id; ids are never used again

lvars == <<status, claims, fresh>>

LedgerTypeOK == /\ status \in [Ids -> Open \union Terminal \union {"ABSENT"}]
                /\ claims \subseteq Ids
                /\ fresh \in 1 .. MaxId + 1

LInit == /\ status = [i \in Ids |-> "ABSENT"]
         /\ claims = {}
         /\ fresh = 1

\* st, less any terminal rows history has no room for or the user clears.
Becomes(st) ==
    \E gone \in SUBSET {i \in Ids : st[i] \in Terminal} :
        status' = [i \in Ids |-> IF i \in gone THEN "ABSENT" ELSE st[i]]

Accept == /\ fresh \in Ids
          /\ Becomes([status EXCEPT ![fresh] = "QUEUED"])
          /\ claims' = claims \union {fresh}
          /\ fresh' = fresh + 1

\* A scheduler claims rows waiting for a retry, the user a failed one.
Claim(i) == /\ status[i] \in {"RETRYING", "FAILED"}
            /\ claims' = claims \union {i}
            /\ UNCHANGED <<status, fresh>>

ClaimDue(S) == /\ \A i \in S : status[i] = "RETRYING"
               /\ claims' = claims \union S
               /\ UNCHANGED <<status, fresh>>

\* Whoever has claimed a row may settle it or postpone it; only a failed row is
\* queued again.
Settle(i, s) == /\ i \in claims /\ status[i] # "ABSENT"
                /\ s = "QUEUED" => status[i] = "FAILED"
                /\ Becomes([status EXCEPT ![i] = s])
                /\ \E kept \in SUBSET claims : claims' = kept
                /\ UNCHANGED fresh

\* Claims end with the work, and all at once with the process; settled rows end
\* when history is pruned or cleared.
Release == /\ Becomes(status)
           /\ \E kept \in SUBSET claims : claims' = kept
           /\ UNCHANGED fresh

\* A new process finds deliveries nobody is working on any more.
Adopt(later) == /\ \A i \in Ids : status[i] = "QUEUED" => i \notin claims
                /\ later \subseteq {i \in Ids : status[i] = "QUEUED"}
                /\ status' = [i \in Ids |-> IF status[i] # "QUEUED" THEN status[i]
                                            ELSE IF i \in later THEN "RETRYING" ELSE "FAILED"]
                /\ UNCHANGED <<claims, fresh>>

LNext == \/ Accept \/ Release
         \/ \E i \in Ids : Claim(i) \/ \E s \in Open \union Terminal : Settle(i, s)
         \/ \E S \in SUBSET Ids : ClaimDue(S) \/ Adopt(S)

LSpec == LInit /\ [][LNext]_lvars

\* A delivery that was made or given up, and that nobody has claimed, stays so until
\* it leaves the history: no step of any thread touches it (NotificationManager).
UnclaimedStays ==
    \A i \in Ids : status[i] \in Terminal /\ i \notin claims
                 => status'[i] \in {status[i], "ABSENT"}

ClaimedOnly == [][UnclaimedStays]_lvars
================================================================================
