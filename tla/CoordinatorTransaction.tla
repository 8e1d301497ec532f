----------------------- MODULE CoordinatorTransaction -----------------------
(***************************************************************************)
(* One transaction in the coordinator: the state machine that assembles    *)
(* it, gathers its signatures and endorsements, has its dispatch approved  *)
(* by the originator, prepares and dispatches it, and starts again when    *)
(* anything on the way fails.                                              *)
(*                                                                         *)
(* The transaction talks to its originator and its endorsers over a        *)
(* network that may lose, repeat, delay and reorder: whatever was asked    *)
(* may be answered at any later time, more than once and in different      *)
(* ways, also by an answer to an earlier assembly.  The transactions it    *)
(* depends on appear as the events they send it and as the answers to      *)
(* "are my dependencies ready"; both are free here.                        *)
(*                                                                         *)
(* An assembly is known by the number of the request that asked for it.    *)
(* Request keys are fresh UUIDs in the code; here the key of a request is  *)
(* the number of the assembly it was created for, which tells requests of  *)
(* one kind apart as each kind is created once per assembly.               *)
(***************************************************************************)
EXTENDS Integers, Sequences, FiniteSets, Functions

CONSTANTS
    Parties,                      \* identities that may be asked to endorse
    Requirements,                 \* names of the ENDORSE attestations in the plan
    PlanParties,                  \* the parties of each
    PlanThreshold,                \* its threshold: 0 is unset, everybody
    Constraints,                  \* may an endorsement say its endorser must submit
    SignNames,                    \* SIGN attestations of the originating node
    AssembleErrorRetryThreshold,
    SignErrorRetryThreshold,
    RevertRetryThreshold,         \* baseLedgerRevertRetryThreshold
    FinalizingGracePeriod,        \* in heartbeat intervals
    MaxAssemblies,                \* bound: assembly requests
    MaxDelegations                \* bound: times the transaction is delegated

ASSUME PlanAssumption ==
    /\ IsFiniteSet(Parties) /\ IsFiniteSet(Requirements)
    /\ PlanParties \in [Requirements -> SUBSET Parties]
    /\ PlanThreshold \in [Requirements -> Nat]
    /\ Constraints \in SUBSET BOOLEAN
\* A domain never asks for more endorsements than there are parties to ask.
ASSUME ThresholdAssumption ==
    \A r \in Requirements : PlanThreshold[r] <= Cardinality(PlanParties[r])
ASSUME RetryAssumption ==
    /\ AssembleErrorRetryThreshold \in Nat /\ SignErrorRetryThreshold \in Nat
    /\ RevertRetryThreshold \in Nat /\ FinalizingGracePeriod \in Nat
    /\ MaxAssemblies \in Nat /\ MaxDelegations \in Nat

VARIABLES
    txn,            \* the coordinatorTransaction
    timeouts,       \* how many timer events of each kind wait to be handled
    revertQueued,   \* AssembleRevertEvents the transaction queued to itself
    preparing,      \* the prepare goroutines: id and the assemblies each has read
    prepared,       \* what the prepare of the queued dispatch read
    delegations,    \* times the transaction was delegated
    requested,      \* every endorsement request sent
    confirmations,  \* every pre-dispatch request sent
    approved        \* the assembly the originator last approved, 0 for none

vars == <<txn, timeouts, revertQueued, preparing, prepared, delegations,
          requested, confirmations, approved>>

TxnStates == {"Initial", "PreAssembly_Blocked", "Pooled", "Assembling",
    "Signing", "Endorsement_Gathering", "Blocked", "Confirming_Dispatchable",
    "Preparing", "Ready_For_Dispatch", "Dispatched", "Confirmed", "Reverted",
    "Evicted", "Final"}
\* States that arm the state timeout on entry.
TimedStates == {"Assembling", "Signing", "Endorsement_Gathering",
    "Confirming_Dispatchable"}

\* Signers a transaction can have: none, the identity the coordinator
\* allocates, or an endorser that must submit.
NoSigner == "none"
CoordinatorKey == "coordinator"

\* One entry per party of each requirement: the pendingEndorsementRequests map.
\* 0: no entry; Failed: the nil sentinel; n > 0: the request of assembly n.
Slots == {s \in Requirements \X Parties : s[2] \in PlanParties[s[1]]}
Failed == -1
NoRequests == [s \in Slots |-> 0]
NoCounts == [r \in Requirements |-> 0]

Signatures == [name : SignNames, of : Nat]
Endorsements == [req : Requirements, party : Parties, of : Nat, mustSubmit : BOOLEAN]
\* PostAssembly: id 0 is nil.
Assemblies == [id : Nat, sigs : Seq(Signatures), endorsements : Seq(Endorsements)]
NoAssembly == [id |-> 0, sigs |-> <<>>, endorsements |-> <<>>]
\* A pre-dispatch request and the assembly whose hash it carries: id 0 is nil.
NoConfirmation == [id |-> 0, of |-> 0]

NewTransaction(ids) ==
    [state |-> "Initial", ids |-> ids, requestID |-> 0, post |-> NoAssembly,
     round |-> FALSE, pending |-> NoRequests, tolerances |-> FALSE,
     failures |-> NoCounts, reverts |-> NoCounts, preDispatch |-> NoConfirmation,
     stateTimer |-> FALSE, requestTimer |-> "off", assembleErrors |-> 0,
     signErrors |-> 0, revertCount |-> 0, signer |-> NoSigner, prepareID |-> 0,
     heartbeats |-> 0]

-----------------------------------------------------------------------------
\* What the plan still lacks.

\* A threshold that is unset asks for every party.
Threshold(r) ==
    IF PlanThreshold[r] = 0 THEN Cardinality(PlanParties[r]) ELSE PlanThreshold[r]
Tolerance(r) == Cardinality(PlanParties[r]) - Threshold(r)

Received(a, r) == {i \in DOMAIN a.endorsements : a.endorsements[i].req = r}
EndorsedBy(a, r, p) == \E i \in Received(a, r) : a.endorsements[i].party = p
\* unfulfilledEndorsementRequirements: nothing is missing while PostAssembly is
\* nil, nor of a requirement that has its threshold of endorsements.
Unfulfilled_OneShort(a) ==
    {s \in Slots : /\ a.id # 0
                   /\ Cardinality(Received(a, s[1])) + 1 < Threshold(s[1])
                   /\ ~EndorsedBy(a, s[1], s[2])}
Unfulfilled(a) ==
    {s \in Slots : /\ a.id # 0
                   /\ Cardinality(Received(a, s[1])) < Threshold(s[1])
                   /\ ~EndorsedBy(a, s[1], s[2])}
PlanFulfilled(t) == Unfulfilled(t.post) = {}
SignFulfilled(t) ==
    \/ t.post.id = 0
    \/ \A n \in SignNames : \E i \in DOMAIN t.post.sigs : t.post.sigs[i].name = n

FailureExceedsTolerance(t) ==
    t.tolerances /\ \E r \in Requirements : t.failures[r] > Tolerance(r)
RevertExceedsTolerance(t) ==
    t.tolerances /\ \E r \in Requirements : t.reverts[r] > Tolerance(r)
-----------------------------------------------------------------------------
\* What the actions of the state machine do to the transaction.

ClearTimeouts(t) == [t EXCEPT !.stateTimer = FALSE, !.requestTimer = "off"]
ScheduleStateTimeout(t) == [t EXCEPT !.stateTimer = TRUE]
ScheduleRequestTimeout(t) == [t EXCEPT !.requestTimer = "armed"]

ResetEndorsementRequests(t) ==
    [ClearTimeouts(t) EXCEPT !.round = FALSE, !.pending = NoRequests,
        !.failures = NoCounts, !.reverts = NoCounts, !.tolerances = FALSE]

InitializeForNewAssembly_KeepsPreDispatch(t) ==
    ResetEndorsementRequests([t EXCEPT !.post = NoAssembly])
InitializeForNewAssembly(t) ==
    ResetEndorsementRequests([t EXCEPT !.post = NoAssembly,
                                       !.preDispatch = NoConfirmation])

\* action_CaptureGrapherSnapshot draws the key of the new assembly request.
SendAssembleRequest(t) ==
    ScheduleRequestTimeout([t EXCEPT !.ids = t.ids + 1, !.requestID = t.ids + 1])

\* A new round arms the request timeout; only parties with neither an answer
\* nor an outstanding request get a new one.
SendEndorsementRequests(t) ==
    [t EXCEPT !.requestTimer = IF t.round THEN @ ELSE "armed",
              !.round = TRUE,
              !.pending = [s \in Slots |->
                  IF s \in Unfulfilled(t.post) /\ t.pending[s] = 0
                  THEN t.ids ELSE t.pending[s]]]

SendPreDispatchRequest(t) ==
    IF t.preDispatch.id # 0 THEN t
    ELSE [t EXCEPT !.preDispatch = [id |-> t.ids, of |-> t.post.id],
                   !.requestTimer = "armed"]
CompletePreDispatchRequest(t) ==
    ClearTimeouts([t EXCEPT !.preDispatch = NoConfirmation])

\* applyPostAssembly, up to the point where its effects stay even when
\* resolving or adding the output states then fails.
ApplyPostAssembly(t, id, sigs) ==
    ClearTimeouts([t EXCEPT !.post = [id |-> id, sigs |-> sigs, endorsements |-> <<>>]])

ApplySignature(t, sig) ==
    IF \E i \in DOMAIN t.post.sigs : t.post.sigs[i].name = sig.name
    THEN t ELSE [t EXCEPT !.post.sigs = Append(@, sig)]

\* The endorsement of q's assembly by q's party; its request is answered.
ApplyEndorsement(t, q, mustSubmit) ==
    [t EXCEPT !.pending[<<q.req, q.party>>] = 0,
              !.post.endorsements = Append(@,
                  [req |-> q.req, party |-> q.party, of |-> q.of,
                   mustSubmit |-> mustSubmit])]

RecordEndorseFailure_StaysPending(t, q, isRevert) ==
    [t EXCEPT !.failures[q.req] = @ + 1,
              !.reverts[q.req] = IF isRevert THEN @ + 1 ELSE @]
RecordEndorseFailure(t, q, isRevert) ==
    [t EXCEPT !.pending[<<q.req, q.party>>] = Failed,
              !.failures[q.req] = @ + 1,
              !.reverts[q.req] = IF isRevert THEN @ + 1 ELSE @]

\* updateSigningIdentity: the first endorsement that constrains the submitter.
MustSubmit(t) == {i \in DOMAIN t.post.endorsements : t.post.endorsements[i].mustSubmit}
UpdateSigningIdentity(t) ==
    IF t.signer # NoSigner \/ MustSubmit(t) = {} THEN t
    ELSE LET first == CHOOSE i \in MustSubmit(t) : \A j \in MustSubmit(t) : i <= j
         IN  [t EXCEPT !.signer = t.post.endorsements[first].party]
AllocateSigningIdentity(t) ==
    IF t.signer = NoSigner THEN [t EXCEPT !.signer = CoordinatorKey] ELSE t

-----------------------------------------------------------------------------
\* evaluateTransitions: the state changes first; then what the old state does on
\* the way out, then what the new one does on the way in.
OnTransitionFrom(t, s) ==
    CASE s = "Signing" -> [t EXCEPT !.stateTimer = FALSE]
      [] s = "Preparing" -> [t EXCEPT !.prepareID = 0]
      [] OTHER -> t

OnTransitionTo(t) ==
    CASE t.state \in {"PreAssembly_Blocked", "Pooled"} -> InitializeForNewAssembly(t)
      [] t.state = "Assembling" -> SendAssembleRequest(ScheduleStateTimeout(t))
      [] t.state = "Signing" -> ScheduleStateTimeout(t)
      [] t.state = "Endorsement_Gathering" ->
            SendEndorsementRequests([ScheduleStateTimeout(t) EXCEPT !.tolerances = TRUE])
      [] t.state = "Confirming_Dispatchable" ->
            SendPreDispatchRequest(ScheduleStateTimeout(t))
      [] t.state = "Preparing" ->
            [AllocateSigningIdentity(t) EXCEPT !.prepareID = t.ids]
      [] OTHER -> t

MoveTo_EntryFirst(t, s) ==
    OnTransitionFrom(OnTransitionTo([t EXCEPT !.state = s, !.heartbeats = 0]), t.state)
MoveTo(t, s) ==
    OnTransitionTo(OnTransitionFrom([t EXCEPT !.state = s, !.heartbeats = 0], t.state))

\* Where an attested transaction goes.
ToDispatch(t, notReady) ==
    MoveTo(t, IF notReady THEN "Blocked" ELSE "Confirming_Dispatchable")

\* Where an assembled transaction goes.
Assembled(t, notReady) ==
    IF ~SignFulfilled(t) THEN MoveTo(t, "Signing")
    ELSE IF ~PlanFulfilled(t) THEN MoveTo(t, "Endorsement_Gathering")
    ELSE ToDispatch(t, notReady)

\* The transaction becomes t; its outstanding requests have been sent.
Become(t) ==
    /\ txn' = t
    /\ requested' = requested \cup
        {[req |-> s[1], party |-> s[2], id |-> t.pending[s], of |-> t.post.id] :
            s \in {x \in Slots : t.pending[x] > 0}}
    /\ confirmations' = confirmations \cup
        (IF t.preDispatch.id = 0 THEN {} ELSE {t.preDispatch})
-----------------------------------------------------------------------------
environment == <<timeouts, revertQueued, preparing, prepared, delegations, approved>>

Init ==
    /\ txn = NewTransaction(0)
    /\ timeouts = [state |-> 0, request |-> 0]
    /\ revertQueued = {}
    /\ preparing = {}
    /\ prepared = <<>>
    /\ delegations = 0
    /\ requested = {}
    /\ confirmations = {}
    /\ approved = 0

\* Event_Delegated: where the transaction starts depends on its chained and
\* pre-assembly dependencies.
Delegated ==
    /\ txn.state = "Initial" /\ delegations < MaxDelegations
    /\ \E s \in {"Reverted", "Evicted", "PreAssembly_Blocked", "Pooled"} :
          Become(MoveTo(txn, s))
    /\ delegations' = delegations + 1
    /\ UNCHANGED <<timeouts, revertQueued, preparing, prepared, approved>>

\* A transaction that was cleaned up is delegated again: a new one, to which
\* the coordinator also routes the timers the old one left armed.
Redelegated ==
    /\ txn.state \in {"Evicted", "Final"} /\ delegations < MaxDelegations
    /\ Become(NewTransaction(txn.ids))
    /\ timeouts' = [timeouts EXCEPT !.state = IF txn.stateTimer THEN @ + 1 ELSE @,
                                    !.request = IF txn.requestTimer = "armed" THEN @ + 1 ELSE @]
    /\ approved' = 0
    /\ UNCHANGED <<revertQueued, preparing, prepared, delegations>>

\* The last dependency that had to be assembled first was selected or is gone.
DependencyAssembled ==
    /\ txn.state = "PreAssembly_Blocked"
    /\ Become(MoveTo(txn, "Pooled"))
    /\ UNCHANGED environment

\* The coordinator selects the transaction for assembly.
Selected ==
    /\ txn.state = "Pooled" /\ txn.ids < MaxAssemblies
    /\ Become(MoveTo(txn, "Assembling"))
    /\ UNCHANGED environment

\* validator_MatchesPendingAssembleRequest
MatchesPendingAssembleRequest_Any(id) == txn.requestID # 0
MatchesPendingAssembleRequest(id) == txn.requestID # 0 /\ txn.requestID = id

\* Applying an assembly may fail: ResolveStatesForTransaction queues a revert of
\* this request, AddMinter does not; either way the state stays Assembling.
ApplyFails(t, id) ==
    /\ Become(t)
    /\ \/ revertQueued' = revertQueued \cup {id}
       \/ UNCHANGED revertQueued
    /\ UNCHANGED <<timeouts, preparing, prepared, delegations, approved>>

ReceiveAssembly(id, sigs) ==
    /\ txn.state = "Assembling" /\ MatchesPendingAssembleRequest(id)
    /\ LET t == ApplyPostAssembly(txn, id, sigs)
       IN  \/ /\ \E notReady \in BOOLEAN : Become(Assembled(t, notReady))
              /\ UNCHANGED environment
           \/ ApplyFails(t, id)

\* The response carries the assembly as it is when sent, with the signatures
\* made by then: none the first time, some or all when it is sent again.
AssembleSuccess(id, sigs) == ReceiveAssembly(id, sigs)

\* A SignResponse carries the assembly too, signature included.  It may
\* overtake the AssembleResponse.
SignedWhileAssembling(id, sigs) == sigs # <<>> /\ ReceiveAssembly(id, sigs)

Signed(id, sig) ==
    /\ txn.state = "Signing" /\ MatchesPendingAssembleRequest(id)
    /\ LET t == ApplySignature(txn, sig)
       IN  \E notReady \in BOOLEAN :
              Become(IF ~SignFulfilled(t) THEN t
                     ELSE IF ~PlanFulfilled(t) THEN MoveTo(t, "Endorsement_Gathering")
                     ELSE ToDispatch(t, notReady))
    /\ UNCHANGED environment

SignError(id) ==
    /\ txn.state \in {"Assembling", "Signing"} /\ MatchesPendingAssembleRequest(id)
    /\ LET t == [txn EXCEPT !.signErrors = @ + 1]
       IN  Become(MoveTo(t, IF t.signErrors <= SignErrorRetryThreshold
                            THEN "Pooled" ELSE "Evicted"))
    /\ UNCHANGED environment

AssembleError_OneMore(id) ==
    /\ txn.state = "Assembling" /\ MatchesPendingAssembleRequest(id)
    /\ LET t == [txn EXCEPT !.assembleErrors = @ + 1]
       IN  Become(MoveTo(t, IF t.assembleErrors <= AssembleErrorRetryThreshold + 1
                            THEN "Pooled" ELSE "Evicted"))
    /\ UNCHANGED environment
AssembleError(id) ==
    /\ txn.state = "Assembling" /\ MatchesPendingAssembleRequest(id)
    /\ LET t == [txn EXCEPT !.assembleErrors = @ + 1]
       IN  Become(MoveTo(t, IF t.assembleErrors <= AssembleErrorRetryThreshold
                            THEN "Pooled" ELSE "Evicted"))
    /\ UNCHANGED environment

\* A revert answers the request, whether the originator or this transaction
\* itself raised it; the failure receipt is queued to the database writer.
AssembleRevert(id) ==
    /\ txn.state = "Assembling" /\ MatchesPendingAssembleRequest(id)
    /\ Become(MoveTo(ApplyPostAssembly(txn, id, <<>>), "Reverted"))
    /\ UNCHANGED environment

QueuedRevert(id) ==
    /\ id \in revertQueued
    /\ IF txn.state = "Assembling" /\ MatchesPendingAssembleRequest(id)
       THEN Become(MoveTo(ApplyPostAssembly(txn, id, <<>>), "Reverted"))
       ELSE Become(txn)
    /\ revertQueued' = revertQueued \ {id}
    /\ UNCHANGED <<timeouts, preparing, prepared, delegations, approved>>

\* Rejections of an assemble request are not matched to the pending one.
AssembleRequestRejected(reason) ==
    /\ txn.state = "Assembling"
    /\ Become(CASE reason = "NOT_CURRENT_DELEGATE" -> MoveTo(txn, "Evicted")
                [] reason = "TRANSACTION_UNKNOWN" -> ClearTimeouts(MoveTo(txn, "Final"))
                [] OTHER -> MoveTo(txn, "Pooled"))
    /\ UNCHANGED environment

\* The coordinator gives up the assembly under way on stepping down.
AssembleCancelled ==
    /\ txn.state = "Assembling"
    /\ Become(MoveTo(txn, "Pooled"))
    /\ UNCHANGED environment
-----------------------------------------------------------------------------
\* validator_MatchesPendingEndorsementRequest: the party still owes an answer to
\* exactly this request.
MatchesPendingEndorsementRequest(q) ==
    /\ txn.pending[<<q.req, q.party>>] > 0
    /\ txn.pending[<<q.req, q.party>>] = q.id

\* The endorsement that completes the plan ends the round and may settle the
\* signer before the transaction moves on.
Endorsed(q, mustSubmit) ==
    /\ txn.state = "Endorsement_Gathering" /\ MatchesPendingEndorsementRequest(q)
    /\ LET t == ApplyEndorsement(txn, q, mustSubmit)
       IN  IF PlanFulfilled(t)
           THEN \E notReady \in BOOLEAN :
                   Become(ToDispatch(UpdateSigningIdentity(ResetEndorsementRequests(t)), notReady))
           ELSE Become(t)
    /\ UNCHANGED environment

EndorseRevert(q) ==
    /\ txn.state = "Endorsement_Gathering" /\ MatchesPendingEndorsementRequest(q)
    /\ LET t == RecordEndorseFailure(txn, q, TRUE)
       IN  Become(IF RevertExceedsTolerance(t) THEN MoveTo(t, "Reverted")
                  ELSE IF FailureExceedsTolerance(t)
                       THEN MoveTo(ResetEndorsementRequests(t), "Pooled")
                  ELSE t)
    /\ UNCHANGED environment

\* Event_EndorseError and Event_EndorseRequestRejected
EndorseError_AlwaysResets(q) ==
    /\ txn.state = "Endorsement_Gathering" /\ MatchesPendingEndorsementRequest(q)
    /\ LET t == ClearTimeouts(RecordEndorseFailure(txn, q, FALSE))
       IN  Become(IF FailureExceedsTolerance(t)
                  THEN MoveTo(ResetEndorsementRequests(t), "Pooled") ELSE t)
    /\ UNCHANGED environment
EndorseError(q) ==
    /\ txn.state = "Endorsement_Gathering" /\ MatchesPendingEndorsementRequest(q)
    /\ LET t == RecordEndorseFailure(txn, q, FALSE)
       IN  Become(IF FailureExceedsTolerance(t)
                  THEN MoveTo(ResetEndorsementRequests(t), "Pooled") ELSE t)
    /\ UNCHANGED environment

\* A dependency became ready for dispatch.
DependencyReady ==
    /\ txn.state = "Blocked"
    /\ \E notReady \in BOOLEAN :
          LET t == UpdateSigningIdentity(txn)
          IN  Become(IF notReady THEN t ELSE MoveTo(t, "Confirming_Dispatchable"))
    /\ UNCHANGED environment

\* validator_MatchesPendingPreDispatchRequest
MatchesPendingPreDispatchRequest(q) ==
    txn.preDispatch.id # 0 /\ txn.preDispatch.id = q.id

\* The prepare runs in its own goroutine from here on.
DispatchRequestApproved(q) ==
    /\ txn.state = "Confirming_Dispatchable" /\ MatchesPendingPreDispatchRequest(q)
    /\ LET t == MoveTo(CompletePreDispatchRequest(txn), "Preparing")
       IN  Become(t) /\ preparing' = preparing \cup {[id |-> t.prepareID, reads |-> <<>>]}
    /\ approved' = q.of
    /\ UNCHANGED <<timeouts, revertQueued, prepared, delegations>>

\* Rejections of a pre-dispatch request are not matched to the pending one.
PreDispatchRequestRejected(reason) ==
    /\ txn.state = "Confirming_Dispatchable"
    /\ Become(IF reason = "NOT_CURRENT_DELEGATE" THEN MoveTo(txn, "Evicted")
              ELSE ClearTimeouts(MoveTo(txn, "Final")))
    /\ UNCHANGED environment

\* The goroutine works on the transaction itself, not on a copy: the domain's
\* prepare reads its PostAssembly, and so does building the dispatch afterwards.
PrepareReads(g) ==
    /\ g \in preparing /\ Len(g.reads) < 2 /\ g.reads # <<0>>
    /\ preparing' = (preparing \ {g}) \cup {[g EXCEPT !.reads = Append(@, txn.post.id)]}
    /\ UNCHANGED <<txn, requested, confirmations, timeouts, revertQueued,
                   prepared, delegations, approved>>

\* An error is tried again unless the prepare was cancelled.  A PostAssembly
\* that has gone is an error of the domain's prepare; of the building of the
\* dispatch it is a nil dereference, after which nothing is returned.
PrepareRetries(g) ==
    /\ g \in preparing /\ g.reads # <<>> /\ 0 \notin Range(g.reads)
    /\ txn.prepareID = g.id
    /\ preparing' = (preparing \ {g}) \cup {[g EXCEPT !.reads = <<>>]}
    /\ UNCHANGED <<txn, requested, confirmations, timeouts, revertQueued,
                   prepared, delegations, approved>>

MatchesInFlightPrepareID(g) == txn.prepareID = g.id

\* The result counts only while the transaction still waits for it.  Once the
\* dispatch is queued the PostAssembly is let go.
PrepareSucceeded(g) ==
    /\ g \in preparing /\ Len(g.reads) = 2 /\ 0 \notin Range(g.reads)
    /\ IF txn.state = "Preparing" /\ MatchesInFlightPrepareID(g)
       THEN /\ Become(MoveTo([txn EXCEPT !.post = NoAssembly], "Ready_For_Dispatch"))
            /\ prepared' = g.reads
       ELSE Become(txn) /\ UNCHANGED prepared
    /\ preparing' = preparing \ {g}
    /\ UNCHANGED <<timeouts, revertQueued, delegations, approved>>

PrepareFailed(g) ==
    /\ g \in preparing /\ (g.reads = <<0>> \/ 0 \notin Range(g.reads))
    /\ Become(IF txn.state = "Preparing" /\ MatchesInFlightPrepareID(g)
              THEN MoveTo(txn, "Pooled") ELSE txn)
    /\ preparing' = preparing \ {g}
    /\ UNCHANGED <<timeouts, revertQueued, prepared, delegations, approved>>

\* The dispatch loop takes the prepared dispatch.
Dispatched ==
    /\ txn.state = "Ready_For_Dispatch"
    /\ Become(MoveTo(txn, "Dispatched"))
    /\ UNCHANGED environment

ConfirmedSuccess ==
    /\ txn.state = "Dispatched"
    /\ Become(MoveTo(txn, "Confirmed"))
    /\ UNCHANGED environment

\* A retryable revert is retried while the retries last.
ConfirmedReverted(retryable, unassembled) ==
    /\ txn.state = "Dispatched"
    /\ LET t == [txn EXCEPT !.revertCount = @ + 1]
       IN  Become(MoveTo(t, IF ~(retryable /\ t.revertCount <= RevertRetryThreshold)
                            THEN "Reverted"
                            ELSE IF unassembled THEN "PreAssembly_Blocked" ELSE "Pooled"))
    /\ UNCHANGED environment
-----------------------------------------------------------------------------
\* Dependencies.

\* Event_DependencyReset and Event_DependencyConfirmedReverted: past assembly a
\* dependency that starts again takes the transaction with it, behind a chained
\* dependency or back to the pool.  Before it, only a chained one matters; a
\* dispatched transaction waits for its own outcome.
DependencyReset(chained) ==
    /\ \/ txn.state \in {"Signing", "Endorsement_Gathering", "Blocked",
                         "Confirming_Dispatchable", "Preparing", "Ready_For_Dispatch"}
       \/ chained /\ txn.state \in {"Pooled", "Assembling"}
    /\ Become(MoveTo(txn, IF chained THEN "PreAssembly_Blocked" ELSE "Pooled"))
    /\ UNCHANGED environment

ChainedDependencyFailed ==
    /\ txn.state \in {"PreAssembly_Blocked", "Pooled", "Assembling", "Signing",
            "Endorsement_Gathering", "Blocked", "Confirming_Dispatchable",
            "Preparing", "Ready_For_Dispatch", "Dispatched"}
    /\ Become(MoveTo(txn, "Reverted"))
    /\ UNCHANGED environment

ChainedDependencyEvicted ==
    /\ txn.state \in {"PreAssembly_Blocked", "Pooled", "Assembling"}
    /\ Become(MoveTo(txn, "Evicted"))
    /\ UNCHANGED environment

-----------------------------------------------------------------------------
\* Timers.  A timer that fires queues an event that says neither which state nor
\* which request armed it.

StateTimerFires ==
    /\ txn.stateTimer
    /\ Become([txn EXCEPT !.stateTimer = FALSE])
    /\ timeouts' = [timeouts EXCEPT !.state = @ + 1]
    /\ UNCHANGED <<revertQueued, preparing, prepared, delegations, approved>>

RequestTimerFires ==
    /\ txn.requestTimer = "armed"
    /\ Become([txn EXCEPT !.requestTimer = "expired"])
    /\ timeouts' = [timeouts EXCEPT !.request = @ + 1]
    /\ UNCHANGED <<revertQueued, preparing, prepared, delegations, approved>>

\* Event_StateTimeoutInterval; other states have no handler for it.
StateTimeout_SigningRearms ==
    /\ timeouts.state > 0
    /\ Become(CASE txn.state \in {"Assembling", "Endorsement_Gathering"} ->
                      MoveTo(txn, "Pooled")
                [] txn.state = "Confirming_Dispatchable" ->
                      MoveTo(CompletePreDispatchRequest(txn), "Pooled")
                [] txn.state = "Signing" -> ScheduleStateTimeout(txn)
                [] OTHER -> txn)
    /\ timeouts' = [timeouts EXCEPT !.state = @ - 1]
    /\ UNCHANGED <<revertQueued, preparing, prepared, delegations, approved>>
StateTimeout ==
    /\ timeouts.state > 0
    /\ Become(CASE txn.state \in {"Assembling", "Signing", "Endorsement_Gathering"} ->
                      MoveTo(txn, "Pooled")
                [] txn.state = "Confirming_Dispatchable" ->
                      MoveTo(CompletePreDispatchRequest(txn), "Pooled")
                [] OTHER -> txn)
    /\ timeouts' = [timeouts EXCEPT !.state = @ - 1]
    /\ UNCHANGED <<revertQueued, preparing, prepared, delegations, approved>>

\* Event_RequestTimeoutInterval: nudges the request of the current state, which
\* is sent again only when its own time is up.  The timer is not armed again.
Nudge(t) == IF t.requestTimer = "expired" THEN [t EXCEPT !.requestTimer = "off"] ELSE t
RequestTimeout ==
    /\ timeouts.request > 0
    /\ Become(CASE txn.state \in {"Assembling", "Confirming_Dispatchable"} -> Nudge(txn)
                [] txn.state = "Endorsement_Gathering" -> SendEndorsementRequests(Nudge(txn))
                [] OTHER -> txn)
    /\ timeouts' = [timeouts EXCEPT !.request = @ - 1]
    /\ UNCHANGED <<revertQueued, preparing, prepared, delegations, approved>>

\* Finished transactions are kept for a grace period.
HeartbeatInterval ==
    /\ txn.state \in {"Confirmed", "Reverted"}
    /\ LET t == [txn EXCEPT !.heartbeats = @ + 1]
       IN  Become(IF t.heartbeats > FinalizingGracePeriod THEN MoveTo(t, "Final") ELSE t)
    /\ UNCHANGED environment

-----------------------------------------------------------------------------
\* Signatures the originator can have made for assembly id: its SIGN
\* attestations are signed one at a time, in any order.
SignaturesOf(id) ==
    {s \in UNION {[1..n -> [name : SignNames, of : {id}]] : n \in 0..Cardinality(SignNames)} :
        \A i, j \in DOMAIN s : s[i].name = s[j].name => i = j}

\* Whatever was asked may be answered, at any time and again and again.
Answers ==
    \/ \E id \in 1..txn.ids :
          \/ \E sigs \in SignaturesOf(id) :
                AssembleSuccess(id, sigs) \/ SignedWhileAssembling(id, sigs)
          \/ \E n \in SignNames : Signed(id, [name |-> n, of |-> id])
          \/ SignError(id)
          \/ AssembleError(id)
          \/ AssembleRevert(id)
    \/ \E q \in requested :
          \/ \E mustSubmit \in Constraints : Endorsed(q, mustSubmit)
          \/ EndorseRevert(q)
          \/ EndorseError(q)
    \/ \E q \in confirmations : DispatchRequestApproved(q)
    \/ \E reason \in {"BLOCK_HEIGHT_TOLERANCE", "PRIVATE_STATE_DATA_PENDING",
                      "NOT_CURRENT_DELEGATE", "TRANSACTION_UNKNOWN"} :
          AssembleRequestRejected(reason)
    \/ \E reason \in {"NOT_CURRENT_DELEGATE", "TRANSACTION_UNKNOWN"} :
          PreDispatchRequestRejected(reason)

Timers == StateTimerFires \/ RequestTimerFires \/ StateTimeout \/ RequestTimeout

Next ==
    \/ Delegated \/ Redelegated \/ DependencyAssembled \/ Selected
    \/ AssembleCancelled
    \/ Answers
    \/ \E id \in revertQueued : QueuedRevert(id)
    \/ \E g \in preparing :
          PrepareReads(g) \/ PrepareRetries(g) \/ PrepareSucceeded(g) \/ PrepareFailed(g)
    \/ Dispatched \/ ConfirmedSuccess
    \/ \E retryable, unassembled \in BOOLEAN : ConfirmedReverted(retryable, unassembled)
    \/ DependencyReady
    \/ \E chained \in BOOLEAN : DependencyReset(chained)
    \/ ChainedDependencyFailed \/ ChainedDependencyEvicted
    \/ Timers
    \/ HeartbeatInterval

Spec == Init /\ [][Next]_vars
-----------------------------------------------------------------------------
(***************************************************************************)
(* Properties.                                                             *)
(***************************************************************************)

Counts == [Requirements -> Nat]
TransactionOK ==
    /\ txn.state \in TxnStates
    /\ txn.ids \in Nat /\ txn.requestID \in Nat /\ txn.prepareID \in Nat
    /\ txn.post \in Assemblies
    /\ txn.pending \in [Slots -> Nat \cup {Failed}]
    /\ txn.failures \in Counts /\ txn.reverts \in Counts
    /\ txn.preDispatch \in [id : Nat, of : Nat]
    /\ txn.round \in BOOLEAN /\ txn.tolerances \in BOOLEAN /\ txn.stateTimer \in BOOLEAN
    /\ txn.requestTimer \in {"off", "armed", "expired"}
    /\ txn.assembleErrors \in Nat /\ txn.signErrors \in Nat
    /\ txn.revertCount \in Nat /\ txn.heartbeats \in Nat
    /\ txn.signer \in {NoSigner, CoordinatorKey} \cup Parties

\* The transaction and its queues have the shape the code gives them, and a
\* count of retries never passes its threshold by more than the one that ends
\* the retries.
TypeOK ==
    /\ TransactionOK
    /\ timeouts \in [state : Nat, request : Nat]
    /\ revertQueued \subseteq 1..txn.ids
    /\ \A g \in preparing : g.id \in 1..txn.ids /\ g.reads \in Seq(Nat)
    /\ prepared \in Seq(Nat)
    /\ delegations \in 0..MaxDelegations
    /\ \A q \in requested : <<q.req, q.party>> \in Slots /\ q.id \in 1..txn.ids
    /\ \A q \in confirmations : q.id \in 1..txn.ids
    /\ approved \in Nat
    /\ txn.revertCount <= RevertRetryThreshold + 1
    /\ txn.assembleErrors <= AssembleErrorRetryThreshold + 1
    /\ txn.signErrors <= SignErrorRetryThreshold + 1

\* The parties whose endorsement of the assembly at hand was collected.
EndorsersOf(t, r) ==
    {p \in Parties : \E i \in DOMAIN t.post.endorsements :
        LET e == t.post.endorsements[i]
        IN  e.req = r /\ e.party = p /\ e.of = t.post.id}
SignedNames(t) ==
    {n \in SignNames : \E i \in DOMAIN t.post.sigs :
        t.post.sigs[i].name = n /\ t.post.sigs[i].of = t.post.id}

\* A transaction is past the gathering of attestations only with a threshold of
\* different parties' endorsements, and all signatures, of the assembly it holds:
\* no late, repeated or reordered answer to another assembly or another round
\* counts (validator_MatchesPendingEndorsementRequest, unfulfilled...).
EndorsedByThreshold ==
    txn.state \in {"Blocked", "Confirming_Dispatchable", "Preparing"} =>
        /\ txn.post.id # 0
        /\ \A r \in Requirements : Cardinality(EndorsersOf(txn, r)) >= Threshold(r)
        /\ SignedNames(txn) = SignNames

\* While endorsements are gathered every party of an open requirement has
\* endorsed, failed once or still owes an answer; the failures counted are the
\* parties that failed; and what is outstanding suffices for the threshold, so
\* the transaction never waits for endorsements that cannot come
\* (action_RecordEndorseFailure, guard_EndorseFailureExceedsTolerance).
EndorsementAccounting ==
    txn.state = "Endorsement_Gathering" =>
        \A r \in Requirements :
            LET endorsers == EndorsersOf(txn, r)
                With(n) == {p \in PlanParties[r] : txn.pending[<<r, p>>] = n}
                failed == With(Failed)
                waiting == {p \in PlanParties[r] : txn.pending[<<r, p>>] > 0}
            IN  /\ txn.failures[r] = Cardinality(failed)
                /\ txn.reverts[r] <= txn.failures[r]
                /\ endorsers \cap (failed \cup waiting) = {}
                /\ endorsers \cup failed \cup waiting = PlanParties[r]
                /\ Cardinality(endorsers) + Cardinality(waiting) >= Threshold(r)

\* A dispatch is prepared from the assembly the originator approved, and the
\* dispatch that is queued was built from that assembly alone, although the
\* prepare reads a transaction that the event loop may reset and assemble anew
\* under it (action_StartPrepare, validator_MatchesInFlightPrepareID).
DispatchIsOfApproved ==
    /\ txn.state = "Preparing" => txn.post.id # 0 /\ approved = txn.post.id
    /\ txn.state \in {"Ready_For_Dispatch", "Dispatched"} =>
          prepared = <<approved, approved>> /\ approved # 0

\* States that wait for others never wait without a timeout, armed or on its
\* way (action_ScheduleStateTimeout on entry, action_ClearStateTimeout and
\* clearTimeoutSchedules on the ways out, in the order of evaluateTransitions).
WaitsWithTimeout ==
    txn.state \in TimedStates \ {"Assembling"} => txn.stateTimer \/ timeouts.state > 0
-----------------------------------------------------------------------------
\* What the transaction implements.
phaseBar ==
    CASE txn.state = "Preparing" /\ approved = txn.post.id -> "approved"
      [] txn.state = "Ready_For_Dispatch" -> "prepared"
      [] txn.state = "Dispatched" -> "dispatched"
      [] txn.state = "Confirmed" -> "confirmed"
      [] OTHER -> "open"
\* From the moment the dispatch is queued it is all that is left of the assembly.
assemblyBar ==
    IF phaseBar \in {"prepared", "dispatched", "confirmed"}
    THEN prepared[2] ELSE txn.post.id
Abstract == INSTANCE AttestedDispatch WITH
    Endorsers <- PlanParties, Needed <- [r \in Requirements |-> Threshold(r)],
    assembly <- assemblyBar, signed <- SignedNames(txn),
    endorsed <- [r \in Requirements |-> EndorsersOf(txn, r)], phase <- phaseBar

\* The transaction implements AttestedDispatch: whatever the network does to the
\* answers, only an assembly that is attested and approved as a whole is
\* dispatched (the state machine from State_Assembling to State_Dispatched).
ImplementsAttestedDispatch == Abstract!ASpec

\* Timers fire, and events that were queued are handled: the event loop never
\* stops.
Fairness ==
    /\ WF_vars(StateTimerFires) /\ WF_vars(StateTimeout)
    /\ WF_vars(\E id \in revertQueued : QueuedRevert(id))
FairSpec == Spec /\ Fairness

\* A transaction that waits for signatures, endorsements or the approval of its
\* dispatch does not wait for ever: the answer comes, or the state timeout
\* returns it to the pool (Event_StateTimeoutInterval).
WaitingEnds ==
    \A s \in TimedStates \ {"Assembling"} : txn.state = s ~> txn.state # s

-----------------------------------------------------------------------------
\* What the comments of the code say and the code does not do.

\* "the long timeout is to prevent an unavailable transaction originator/assemble
\* from holding up the entire contract": an assembly under way ends.  It does not
\* when applying the response fails on AddMinter, which comes after the timers
\* were cleared.
AssemblingEnds == txn.state = "Assembling" ~> txn.state # "Assembling"

\* "The private transaction is only ever read": by the prepare, while the event
\* loop resets it.  A prepare reads the assembly it was started for.
PrepareReadsItsAssembly ==
    \A g \in preparing : \A i \in DOMAIN g.reads : g.reads[i] = g.id

=============================================================================
