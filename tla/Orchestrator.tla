----------------------------- MODULE Orchestrator -----------------------------
(***************************************************************************)
(* TribunalOrchestrator.invoke_and_advance (roles/orchestrator.py): any    *)
(* number of clients ask role providers on behalf of the same durable case *)
(* and commit what they get.  A call reads the store in several separate   *)
(* connections, then waits for the provider, and only then writes; other   *)
(* clients and code-owned steps run in between, and a client may crash at  *)
(* any point, also between its commit and its return.                      *)
(*                                                                         *)
(* The provider's answer is the outcome of its whole attempt group: an     *)
(* output that passed validation, or a failure of any kind (a              *)
(* ProviderFailure, another exception, an output that validation refused), *)
(* which the code handles alike.                                           *)
(*                                                                         *)
(* A call for the Chair's explanation also carries the final claim graph   *)
(* of its caller, and somebody may save a claim graph of the case          *)
(* meanwhile (save_claim_graph).                                           *)
(***************************************************************************)
EXTENDS WorkflowRules, Integers, Sequences, FiniteSets

CONSTANTS
    Clients,
    MaxCrashes,          \* bound on client crashes
    Payloads, Receipts, Requests, Observations,
    MaxInvocations,      \* bound on invocations of one request
    Foreign, InitialHistories

ASSUME MaxCrashesAssumption == MaxCrashes \in Nat

ASSUME MaxInvocationsAssumption == MaxInvocations \in Nat \ {0}

VARIABLES
    row, events, graphs, invocations, bundles, consumed,   \* the store
    pc,          \* where in invoke_and_advance a client is
    call,        \* its local variables
    returned,    \* outputs that calls have returned, with their revision
    crashes

Store == INSTANCE CaseStore

ASSUME StoreConstants == Store!StoreConstants

storeVars  == <<row, events, graphs, invocations, bundles, consumed>>
clientVars == <<pc, call, returned, crashes>>
vars       == <<storeVars, clientVars>>

Steps == {"idle", "replaying", "numbering", "invoking", "recording", "committed"}

NoAnswer == [status |-> "none"]

\* The state of a call before it has begun.
NoCall == [state |-> NoState, request |-> "none", seen |-> <<>>, number |-> 0,
           answer |-> NoAnswer, graphFits |-> TRUE]

Goto(client, step) == pc' = [pc EXCEPT ![client] = step]

\* The call is over: it has returned or raised.
Leave(client) ==
    /\ Goto(client, "idle")
    /\ call' = [call EXCEPT ![client] = NoCall]

\* reconstruct() at the beginning of a call for the role action of a state.
\* When the case is already in the action's target state the call may be a
\* retry (_immediate_replay); otherwise the builder demands the action's own
\* state and raises in any other.
Reconstruct(client) ==
    /\ pc[client] = "idle"
    /\ Store!Reconstructs(FALSE)
    /\ \E state \in Store!ProviderStates, request \in Requests :
         /\ call' = [call EXCEPT ![client] = [NoCall EXCEPT !.state = state,
                                             !.request = request, !.seen = events]]
         /\ \/ Len(events) = NextState(state) /\ Goto(client, "replaying")
            \/ Len(events) = state /\ Goto(client, "numbering")
    /\ UNCHANGED <<storeVars, returned, crashes>>

\* find_accepted_provider_invocation at the revision before the one read:
\* return its output, or go on to the builder, which raises.
ImmediateReplay(client) ==
    LET found == { record \in Store!Accepted :
                     record.id.revision = Len(call[client].seen) - 1 }
    IN  /\ pc[client] = "replaying"
        /\ returned' = returned \cup
             { [revision |-> record.id.revision, output |-> record.result] : record \in found }
        /\ Leave(client)
        /\ UNCHANGED <<storeVars, crashes>>

\* _next_invocation_id.
NextInvocationId(client) ==
    LET matching == { record \in invocations :
                        /\ record.id.revision = call[client].state
                        /\ record.id.request = call[client].request }
    IN  /\ pc[client] = "numbering"
        /\ call' = [call EXCEPT ![client].number = Cardinality(matching) + 1]
        /\ Goto(client, "invoking")
        /\ UNCHANGED <<storeVars, returned, crashes>>

InvocationId(client) ==
    [ revision |-> call[client].state, request |-> call[client].request,
      number |-> call[client].number ]

\* provider.invoke ends; the code builds the record of the attempt group.  Does
\* the final claim graph that the call brought fit?  It was an argument of the
\* call, and the code looks at it for the first time when it commits.
ProviderAnswersWith(client, graphFits) ==
    /\ pc[client] = "invoking"
    /\ \E output \in Payloads :
         call' = [call EXCEPT ![client].answer =
                                Store!AcceptedRecord(InvocationId(client), output),
                              ![client].graphFits = graphFits]
    /\ Goto(client, "recording")
    /\ UNCHANGED <<storeVars, returned, crashes>>

ProviderAnswers(client) ==
    \E graphFits \in BOOLEAN :
        /\ graphFits \/ call[client].state = VERDICT_ELIGIBILITY_COMPUTED
        /\ ProviderAnswersWith(client, graphFits)

\* The bound keeps the last number for an answer.
ProviderFails(client) ==
    /\ pc[client] = "invoking"
    /\ call[client].number < MaxInvocations
    /\ \E observation \in Observations :
         call' = [call EXCEPT ![client].answer =
                    Store!FailedRecord(InvocationId(client), observation)]
    /\ Goto(client, "recording")
    /\ UNCHANGED <<storeVars, returned, crashes>>

\* Would the store take the record that the client is about to commit?
Storable(client) ==
    LET answer == call[client].answer
        seen   == call[client].seen
    IN  IF answer.status = "accepted"
        THEN Store!VoteStorable(answer, seen, Len(seen), call[client].graphFits)
        ELSE Store!FailureStorable(answer, Len(seen))

\* record_provider_invocation with the workflow event commits.
CommitAccepted(client) ==
    LET answer == call[client].answer
    IN  /\ pc[client] = "recording"
        /\ answer.status = "accepted"
        /\ Store!record_accepted_invocation(answer, call[client].seen,
                                            Len(call[client].seen), call[client].graphFits)
        /\ Goto(client, "committed")
        /\ UNCHANGED <<call, returned, crashes>>

\* The failure is on record and raised again.
CommitFailed(client) ==
    LET answer == call[client].answer
    IN  /\ pc[client] = "recording"
        /\ answer.status = "failed"
        /\ Store!record_failed_invocation(answer, Len(call[client].seen))
        /\ Leave(client)
        /\ UNCHANGED <<returned, crashes>>

\* Mutant: a refused vote is returned as if it had been stored.
CommitRefused_Swallowed(client) ==
    LET answer == call[client].answer
        seen   == call[client].seen
    IN  /\ pc[client] = "recording"
        /\ answer.status = "accepted"
        /\ ~Store!VoteStorable(answer, seen, Len(seen), call[client].graphFits)
        /\ Goto(client, "committed")
        /\ UNCHANGED <<storeVars, call, returned, crashes>>

\* Mutant: a failure that cannot be recorded is tried for ever.
CommitRefused_VotesOnly(client) ==
    LET answer == call[client].answer
        seen   == call[client].seen
    IN  /\ pc[client] = "recording"
        /\ answer.status = "accepted"
        /\ ~Store!VoteStorable(answer, seen, Len(seen), call[client].graphFits)
        /\ Leave(client)
        /\ UNCHANGED <<storeVars, returned, crashes>>

\* The store refuses the record: the call raises the store's error.
CommitRefused(client) ==
    /\ pc[client] = "recording"
    /\ ~Storable(client)
    /\ Leave(client)
    /\ UNCHANGED <<storeVars, returned, crashes>>

Return(client) ==
    /\ pc[client] = "committed"
    /\ returned' = returned \cup { [revision |-> call[client].answer.id.revision,
                                    output   |-> call[client].answer.result] }
    /\ Leave(client)
    /\ UNCHANGED <<storeVars, crashes>>

Crash(client) ==
    /\ pc[client] # "idle"
    /\ crashes < MaxCrashes
    /\ crashes' = crashes + 1
    /\ Leave(client)
    /\ UNCHANGED <<storeVars, returned>>

\* A step that code owns (approval, constitution, evidence, verdict ...):
\* its caller reads the case, advances it and appends the event; a stale
\* append is refused by the expected revision, so read and append are one.
CodeOwnedStep ==
    /\ Len(events) \notin Store!ProviderStates
    /\ \E payload \in Payloads : Store!append_event(events, payload, Len(events))
    /\ UNCHANGED clientVars

\* Somebody saves a claim graph of the case before it is final.
SaveGraph ==
    /\ \E expected \in 1..row.revision : Store!save_claim_graph(expected)
    /\ UNCHANGED clientVars

Init ==
    /\ Store!Init
    /\ pc = [client \in Clients |-> "idle"]
    /\ call = [client \in Clients |-> NoCall]
    /\ returned = {}
    /\ crashes = 0

ClientStep(client) ==
    \/ Reconstruct(client)
    \/ ImmediateReplay(client)
    \/ NextInvocationId(client)
    \/ ProviderAnswers(client)
    \/ ProviderFails(client)
    \/ CommitAccepted(client)
    \/ CommitFailed(client)
    \/ CommitRefused(client)
    \/ Return(client)

Next ==
    \/ \E client \in Clients : ClientStep(client) \/ Crash(client)
    \/ CodeOwnedStep
    \/ SaveGraph

Spec == Init /\ [][Next]_vars

\* Some client keeps calling and every call that has begun goes on; the code
\* that owns the other steps does its part; and a provider that is asked
\* again and again eventually gives an acceptable answer, in a call whose
\* final claim graph fits.
Fairness ==
    /\ \A client \in Clients :
         /\ WF_vars(ClientStep(client))
         /\ SF_vars(ProviderAnswersWith(client, TRUE))
    /\ WF_vars(CodeOwnedStep)

FairSpec == Spec /\ Fairness

(***************************************************************************)
(* Properties.                                                             *)
(***************************************************************************)
\* Whatever races, retries and crashes there were, every output that a call
\* has returned is the event on record after that revision, so two calls for
\* one action never return different outputs.
ReturnedOutputIsOnRecord ==
    \A result \in returned :
        /\ result.revision < Len(events)
        /\ events[result.revision + 1] = result.output

\* An answer, or the record of a failure, is kept out of the store for a cause
\* that the caller can find: the revision has moved on, another record of the
\* same number was stored while the client waited, or the answer is the Chair's
\* and its final claim graph does not fit or is not the first of the case.
RefusedOnlyForCause ==
    \A client \in Clients :
        (pc[client] = "recording" /\ ~Storable(client))
        => \/ row.revision > Len(call[client].seen)
           \/ \E record \in invocations :
                /\ record.id = InvocationId(client)
                /\ record # call[client].answer
           \/ /\ call[client].answer.status = "accepted"
              /\ call[client].state = VERDICT_ELIGIBILITY_COMPUTED
              /\ graphs # {} \/ ~call[client].graphFits

\* A claim graph that was saved before the case was final: no answer of the
\* Chair can be stored any more.
EarlyGraph == \E revision \in graphs : revision < CHAIR_EXPLANATION

\* The case is finalized in the end, through conflicts, failures and crashes,
\* unless somebody saves a claim graph of it too early.
CaseIsFinalized == <>(row.finalized \/ EarlyGraph)

\* A call that has begun ends.
CallsEnd == \A client \in Clients : [](pc[client] # "idle" => <>(pc[client] = "idle"))
===============================================================================
