----------------------------- MODULE MCCaseStore -----------------------------
(***************************************************************************)
(* A small instance of CaseStore for TLC, from an empty store to the       *)
(* finalized case.                                                         *)
(***************************************************************************)
EXTENDS CaseStore

CONSTANTS p1, p2

NoCase == { <<>> }
ReviewedCase == { [k \in 1..ADVERSARIAL_REVIEWED |-> p1] }

\* Bounds: callers disagree about payloads, and providers are asked, once the
\* three reviews are done; before, competing executions and graphs matter.
LateDisagreement ==
    /\ \A k \in DOMAIN events :
         events[k] = p2 => k > ADVERSARIAL_REVIEWED
    /\ \A record \in invocations : record.id.revision >= ADVERSARIAL_REVIEWED
=============================================================================
