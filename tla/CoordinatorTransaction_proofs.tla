-------------------- MODULE CoordinatorTransaction_proofs --------------------
(***************************************************************************)
(* The invariants of the coordinator transaction and the refinement of     *)
(* AttestedDispatch.                                                       *)
(*                                                                         *)
(* The first part states the inductive invariant and what its proof needs: *)
(* what entering each state does to the transaction, that the transaction  *)
(* an operation leads to is sound again, and which step the common ways    *)
(* out of a state are.  The second has one lemma per event: it preserves   *)
(* the invariant and is a step of the abstract specification, or none of   *)
(* its.                                                                    *)
(***************************************************************************)
EXTENDS CoordinatorTransaction, FiniteSetTheorems, WellFoundedInduction, TLAPS

Transactions ==
    [state : TxnStates, ids : Nat, requestID : Nat, post : Assemblies,
     round : BOOLEAN, pending : [Slots -> Nat \cup {Failed}], tolerances : BOOLEAN,
     failures : Counts, reverts : Counts, preDispatch : [id : Nat, of : Nat],
     stateTimer : BOOLEAN, requestTimer : {"off", "armed", "expired"},
     assembleErrors : Nat, signErrors : Nat, revertCount : Nat,
     signer : {NoSigner, CoordinatorKey} \cup Parties, prepareID : Nat, heartbeats : Nat]

\* Everything that is kept under the number of an assembly is kept under the
\* number of the assembly at hand: what it consists of ...
OfAssembly(t) ==
    /\ t.requestID \in {0, t.ids}
    /\ t.post.id \in {0, t.requestID}
    /\ t.post.id = 0 => t.post = NoAssembly
    /\ \A i \in DOMAIN t.post.sigs : t.post.sigs[i].of = t.post.id
    /\ \A i \in DOMAIN t.post.endorsements :
          LET e == t.post.endorsements[i]
          IN  e.of = t.post.id /\ e.party \in PlanParties[e.req]
    /\ \A i, j \in DOMAIN t.post.endorsements :
          /\ t.post.endorsements[i].req = t.post.endorsements[j].req
          /\ t.post.endorsements[i].party = t.post.endorsements[j].party
          => i = j
\* ... and what is still to be answered.
Outstanding(t) ==
    /\ \A s \in Slots : t.pending[s] > 0 => t.pending[s] = t.post.id
    /\ t.preDispatch.id # 0 => t.preDispatch = [id |-> t.post.id, of |-> t.post.id]
Coherent(t) == OfAssembly(t) /\ Outstanding(t)

\* What is still in use depends on the state.
Unassembled == {"Initial", "PreAssembly_Blocked", "Pooled", "Ready_For_Dispatch",
    "Dispatched", "Confirmed"}
Ended == {"Reverted", "Evicted", "Final"}
Attested == {"Blocked", "Confirming_Dispatchable", "Preparing"}

Accounts(t) ==
    /\ t.tolerances
    /\ \A s \in Slots : t.pending[s] = 0 <=> EndorsedBy(t.post, s[1], s[2])
    /\ \A r \in Requirements :
          /\ t.failures[r] = Cardinality({p \in PlanParties[r] : t.pending[<<r, p>>] = Failed})
          /\ t.reverts[r] <= t.failures[r]
          /\ t.failures[r] <= Tolerance(r)

ByState(t) ==
    /\ t.state \in Unassembled => t.post = NoAssembly
    /\ t.state \notin Ended \cup {"Endorsement_Gathering"} =>
          t.pending = NoRequests /\ t.failures = NoCounts /\ t.reverts = NoCounts
    /\ t.state \notin Ended \cup {"Confirming_Dispatchable"} =>
          t.preDispatch = NoConfirmation
    /\ t.state \in {"Assembling", "Signing"} => t.post.endorsements = <<>>
    /\ t.state \in {"Signing", "Endorsement_Gathering"} \cup Attested => t.post.id # 0
    /\ t.state \in {"Endorsement_Gathering"} \cup Attested => SignedNames(t) = SignNames
    /\ t.state = "Endorsement_Gathering" => Accounts(t)
    /\ t.state \in Attested =>
          \A r \in Requirements : Cardinality(EndorsersOf(t, r)) >= Threshold(r)
    /\ t.state = "Preparing" => t.prepareID = t.ids

Retries(t) ==
    /\ t.revertCount <= RevertRetryThreshold + 1
    /\ t.state \notin Ended => t.revertCount <= RevertRetryThreshold
    /\ t.assembleErrors <= AssembleErrorRetryThreshold + 1
    /\ t.state # "Evicted" => t.assembleErrors <= AssembleErrorRetryThreshold
    /\ t.signErrors <= SignErrorRetryThreshold + 1
    /\ t.state # "Evicted" => t.signErrors <= SignErrorRetryThreshold

\* The requests that were sent, and the goroutines that were started.
Sent ==
    /\ \A q \in requested :
          /\ <<q.req, q.party>> \in Slots
          /\ q.id \in 1..txn.ids /\ q.of = q.id
    /\ \A q \in confirmations : q.id \in 1..txn.ids /\ q.of = q.id
Running ==
    \A g \in preparing :
        /\ g \in [id : Nat, reads : Seq(Nat)]
        /\ g.id \in 1..txn.ids
        /\ g.id = txn.ids => \A i \in DOMAIN g.reads : g.reads[i] \in {0, txn.ids}
Queues ==
    /\ timeouts \in [state : Nat, request : Nat]
    /\ revertQueued \subseteq 1..txn.ids
    /\ prepared \in Seq(Nat)
    /\ delegations \in 0..MaxDelegations
    /\ approved \in Nat

Sound(t) == t \in Transactions /\ Coherent(t) /\ ByState(t) /\ Retries(t)

\* DispatchIsOfApproved and WaitsWithTimeout of a transaction that is to be.
Approved(t) ==
    /\ t.state = "Preparing" => t.post.id # 0 /\ approved = t.post.id
    /\ t.state \in {"Ready_For_Dispatch", "Dispatched"} =>
          prepared = <<approved, approved>> /\ approved # 0
Timed(t) == t.state \in TimedStates \ {"Assembling"} => t.stateTimer \/ timeouts.state > 0

IInv == Sound(txn) /\ Sent /\ Running /\ Queues /\ Approved(txn) /\ Timed(txn)
-----------------------------------------------------------------------------
Kept(m, t) ==
    /\ m.ids = t.ids /\ m.requestID = t.requestID /\ m.post = t.post
    /\ m.pending = t.pending /\ m.failures = t.failures /\ m.reverts = t.reverts
    /\ m.preDispatch = t.preDispatch
    /\ m.assembleErrors = t.assembleErrors /\ m.signErrors = t.signErrors
    /\ m.revertCount = t.revertCount

\* Leaving a state (OnTransitionFrom) touches none of the fields that count.
LEMMA LeaveState ==
  ASSUME NEW t \in Transactions, NEW s \in TxnStates
  PROVE  LET m == OnTransitionFrom([t EXCEPT !.state = s, !.heartbeats = 0], t.state)
         IN  m \in Transactions /\ m.state = s /\ Kept(m, t)
<1> DEFINE u == [t EXCEPT !.state = s, !.heartbeats = 0]
<1>1. u \in Transactions /\ u.state = s /\ Kept(u, t)
  BY Zenon DEF Transactions, Kept
<1>2. [u EXCEPT !.stateTimer = FALSE] \in Transactions /\ [u EXCEPT !.prepareID = 0] \in Transactions
  BY Zenon, <1>1 DEF Transactions
<1>3. QED
  BY Zenon, <1>1, <1>2 DEF OnTransitionFrom, Transactions, Kept

\* The states that do nothing on entry.
Resting == {"Initial", "Blocked", "Ready_For_Dispatch", "Dispatched", "Confirmed"} \cup Ended

\* A move to a state without entry actions changes nothing but the state.
LEMMA EnterResting ==
  ASSUME NEW t \in Transactions, NEW s \in Resting
  PROVE  /\ MoveTo(t, s) \in Transactions
         /\ MoveTo(t, s).state = s
         /\ Kept(MoveTo(t, s), t)
<1> DEFINE m == OnTransitionFrom([t EXCEPT !.state = s, !.heartbeats = 0], t.state)
<1>1. s \in TxnStates
  BY Zenon DEF Resting, Ended, TxnStates
<1>2. m \in Transactions /\ m.state = s /\ Kept(m, t)
  BY Zenon, <1>1, LeaveState
<1> HIDE DEF m
<1>3. OnTransitionTo(m) = m
  BY Zenon, <1>2 DEF OnTransitionTo, Resting, Ended
<1>4. MoveTo(t, s) = m
  BY Zenon, <1>3 DEF MoveTo, m
<1>5. QED
  BY Zenon, <1>2, <1>4

\* resetEndorsementRequests empties the requests and their counts, and no more.
LEMMA ResetType ==
  ASSUME NEW t \in Transactions
  PROVE  LET m == ResetEndorsementRequests(t)
         IN  /\ m \in Transactions
             /\ m.state = t.state /\ m.ids = t.ids /\ m.requestID = t.requestID
             /\ m.post = t.post /\ m.preDispatch = t.preDispatch
             /\ m.pending = NoRequests /\ m.failures = NoCounts /\ m.reverts = NoCounts
             /\ m.assembleErrors = t.assembleErrors /\ m.signErrors = t.signErrors
             /\ m.revertCount = t.revertCount /\ m.prepareID = t.prepareID
<1>1. NoRequests \in [Slots -> Nat \cup {Failed}] /\ NoCounts \in Counts
  BY Zenon DEF NoRequests, NoCounts, Counts
<1>2. QED
  BY Zenon, <1>1 DEF ResetEndorsementRequests, ClearTimeouts, Transactions

\* Entering the pool (initializeForNewAssembly) drops the assembly and all
\* that was outstanding for it.
LEMMA EnterPool ==
  ASSUME NEW t \in Transactions, NEW s \in {"PreAssembly_Blocked", "Pooled"}
  PROVE  LET m == MoveTo(t, s)
         IN  /\ m \in Transactions
             /\ m.state = s /\ m.ids = t.ids /\ m.requestID = t.requestID
             /\ m.post = NoAssembly /\ m.preDispatch = NoConfirmation
             /\ m.pending = NoRequests /\ m.failures = NoCounts /\ m.reverts = NoCounts
             /\ m.assembleErrors = t.assembleErrors /\ m.signErrors = t.signErrors
             /\ m.revertCount = t.revertCount
<1> DEFINE u == OnTransitionFrom([t EXCEPT !.state = s, !.heartbeats = 0], t.state)
           v == [u EXCEPT !.post = NoAssembly, !.preDispatch = NoConfirmation]
<1>1. s \in TxnStates
  BY Zenon DEF TxnStates
<1>2. u \in Transactions /\ u.state = s /\ Kept(u, t)
  BY Zenon, <1>1, LeaveState
<1> HIDE DEF u
<1>3. NoAssembly \in Assemblies /\ NoConfirmation \in [id : Nat, of : Nat]
  BY DEF NoAssembly, NoConfirmation, Assemblies
<1>4. /\ v \in Transactions /\ v.post = NoAssembly /\ v.preDispatch = NoConfirmation
      /\ v.state = u.state /\ v.ids = u.ids /\ v.requestID = u.requestID
      /\ v.assembleErrors = u.assembleErrors /\ v.signErrors = u.signErrors
      /\ v.revertCount = u.revertCount
  BY Zenon, <1>2, <1>3 DEF Transactions
<1> HIDE DEF v
<1>5. MoveTo(t, s) = ResetEndorsementRequests(v)
  BY Zenon, <1>2 DEF MoveTo, OnTransitionTo, InitializeForNewAssembly, u, v
<1>6. QED
  BY <1>2, <1>4, <1>5, ResetType DEF Kept

\* Entering State_Assembling takes a new request id and keeps the rest.
LEMMA EnterAssembling ==
  ASSUME NEW t \in Transactions
  PROVE  LET m == MoveTo(t, "Assembling")
         IN  /\ m \in Transactions
             /\ m.state = "Assembling" /\ m.ids = t.ids + 1 /\ m.requestID = t.ids + 1
             /\ m.post = t.post /\ m.preDispatch = t.preDispatch
             /\ m.pending = t.pending /\ m.failures = t.failures /\ m.reverts = t.reverts
             /\ m.assembleErrors = t.assembleErrors /\ m.signErrors = t.signErrors
             /\ m.revertCount = t.revertCount
<1> DEFINE u == OnTransitionFrom([t EXCEPT !.state = "Assembling", !.heartbeats = 0], t.state)
<1>1. u \in Transactions /\ u.state = "Assembling" /\ Kept(u, t)
  BY Zenon, LeaveState DEF TxnStates
<1> HIDE DEF u
<1>2. MoveTo(t, "Assembling") = SendAssembleRequest(ScheduleStateTimeout(u))
  BY Zenon, <1>1 DEF MoveTo, OnTransitionTo, u
<1> DEFINE w == [u EXCEPT !.stateTimer = TRUE]
           n == w.ids + 1
           v == [w EXCEPT !.ids = n, !.requestID = n]
<1>3. w \in Transactions /\ w.state = u.state /\ Kept(w, u)
  BY Zenon, <1>1 DEF Transactions, Kept
<1>4. MoveTo(t, "Assembling") = [v EXCEPT !.requestTimer = "armed"]
  BY Zenon, <1>2 DEF SendAssembleRequest, ScheduleStateTimeout, ScheduleRequestTimeout
<1> HIDE DEF w
<1>5. n \in Nat
  BY <1>3 DEF Transactions
<1> HIDE DEF n
<1>6. /\ v \in Transactions
      /\ v.state = w.state /\ v.ids = n /\ v.requestID = n
      /\ v.post = w.post /\ v.preDispatch = w.preDispatch
      /\ v.pending = w.pending /\ v.failures = w.failures /\ v.reverts = w.reverts
      /\ v.assembleErrors = w.assembleErrors /\ v.signErrors = w.signErrors
      /\ v.revertCount = w.revertCount
  BY Zenon, <1>3, <1>5 DEF Transactions
<1> HIDE DEF v
<1>7. /\ [v EXCEPT !.requestTimer = "armed"] \in Transactions
      /\ [v EXCEPT !.requestTimer = "armed"].state = v.state
      /\ [v EXCEPT !.requestTimer = "armed"].ids = v.ids
      /\ Kept([v EXCEPT !.requestTimer = "armed"], v)
  BY Zenon, <1>6 DEF Transactions, Kept
<1>8. QED
  BY <1>1, <1>3, <1>4, <1>6, <1>7, Zenon DEF Kept, n

\* Entering State_Signing arms the state timeout.
LEMMA EnterSigning ==
  ASSUME NEW t \in Transactions
  PROVE  LET m == MoveTo(t, "Signing")
         IN  m \in Transactions /\ m.state = "Signing" /\ m.stateTimer /\ Kept(m, t)
<1> DEFINE u == OnTransitionFrom([t EXCEPT !.state = "Signing", !.heartbeats = 0], t.state)
<1>1. u \in Transactions /\ u.state = "Signing" /\ Kept(u, t)
  BY Zenon, LeaveState DEF TxnStates
<1> HIDE DEF u
<1>2. MoveTo(t, "Signing") = [u EXCEPT !.stateTimer = TRUE]
  BY Zenon, <1>1 DEF MoveTo, OnTransitionTo, ScheduleStateTimeout, u
<1>3. QED
  BY <1>1, <1>2, Zenon DEF Transactions, Kept

\* action_SendEndorsementRequests asks exactly the parties that have not
\* answered and were not asked, under the id of the assembly at hand.
LEMMA SendEndorsementsType ==
  ASSUME NEW t \in Transactions
  PROVE  LET m == SendEndorsementRequests(t)
         IN  /\ m \in Transactions
             /\ m.state = t.state /\ m.ids = t.ids /\ m.requestID = t.requestID
             /\ m.post = t.post /\ m.preDispatch = t.preDispatch
             /\ m.failures = t.failures /\ m.reverts = t.reverts
             /\ \A s \in Slots : m.pending[s] = IF s \in Unfulfilled(t.post) /\ t.pending[s] = 0
                                                THEN t.ids ELSE t.pending[s]
             /\ m.assembleErrors = t.assembleErrors /\ m.signErrors = t.signErrors
             /\ m.revertCount = t.revertCount
             /\ m.stateTimer = t.stateTimer /\ m.tolerances = t.tolerances
<1> DEFINE p == [s \in Slots |-> IF s \in Unfulfilled(t.post) /\ t.pending[s] = 0
                                 THEN t.ids ELSE t.pending[s]]
           q == IF t.round THEN t.requestTimer ELSE "armed"
<1>1. p \in [Slots -> Nat \cup {Failed}]
  BY Zenon DEF Transactions
<1>2. q \in {"off", "armed", "expired"}
  BY Zenon DEF Transactions
<1>3. SendEndorsementRequests(t) = [t EXCEPT !.requestTimer = q, !.round = TRUE, !.pending = p]
  BY Zenon DEF SendEndorsementRequests, Transactions
<1> HIDE DEF p, q
<1>4. LET m == SendEndorsementRequests(t)
      IN  /\ m \in Transactions
          /\ m.state = t.state /\ m.ids = t.ids /\ m.requestID = t.requestID
          /\ m.post = t.post /\ m.preDispatch = t.preDispatch
          /\ m.failures = t.failures /\ m.reverts = t.reverts
          /\ m.pending = p
          /\ m.assembleErrors = t.assembleErrors /\ m.signErrors = t.signErrors
          /\ m.revertCount = t.revertCount
          /\ m.stateTimer = t.stateTimer /\ m.tolerances = t.tolerances
  BY <1>1, <1>2, <1>3, Zenon DEF Transactions
<1>5. \A s \in Slots : p[s] = IF s \in Unfulfilled(t.post) /\ t.pending[s] = 0
                             THEN t.ids ELSE t.pending[s]
  BY Zenon DEF p
<1>6. QED
  BY Zenon, <1>4, <1>5

\* Entering State_Endorsement_Gathering sends those requests, with the state
\* timeout armed and the tolerances computed.
LEMMA EnterGathering ==
  ASSUME NEW t \in Transactions
  PROVE  LET m == MoveTo(t, "Endorsement_Gathering")
         IN  /\ m \in Transactions
             /\ m.state = "Endorsement_Gathering" /\ m.ids = t.ids /\ m.requestID = t.requestID
             /\ m.post = t.post /\ m.preDispatch = t.preDispatch
             /\ m.failures = t.failures /\ m.reverts = t.reverts
             /\ \A s \in Slots : m.pending[s] = IF s \in Unfulfilled(t.post) /\ t.pending[s] = 0
                                                THEN t.ids ELSE t.pending[s]
             /\ m.assembleErrors = t.assembleErrors /\ m.signErrors = t.signErrors
             /\ m.revertCount = t.revertCount
             /\ m.stateTimer /\ m.tolerances
<1> DEFINE u == OnTransitionFrom([t EXCEPT !.state = "Endorsement_Gathering",
                                           !.heartbeats = 0], t.state)
           w == [u EXCEPT !.stateTimer = TRUE]
           v == [w EXCEPT !.tolerances = TRUE]
<1>1. u \in Transactions /\ u.state = "Endorsement_Gathering" /\ Kept(u, t)
  BY Zenon, LeaveState DEF TxnStates
<1> HIDE DEF u
<1>2. MoveTo(t, "Endorsement_Gathering") = SendEndorsementRequests(v)
  BY Zenon, <1>1 DEF MoveTo, OnTransitionTo, ScheduleStateTimeout, u
<1>3. w \in Transactions /\ w.state = u.state /\ w.stateTimer /\ Kept(w, u)
  BY Zenon, <1>1 DEF Transactions, Kept
<1> HIDE DEF w
<1>4. /\ v \in Transactions /\ v.state = w.state /\ v.stateTimer = w.stateTimer /\ v.tolerances
      /\ Kept(v, w)
  BY Zenon, <1>3 DEF Transactions, Kept
<1> HIDE DEF v
<1>5. v.ids = t.ids /\ v.post = t.post /\ v.pending = t.pending
  BY Zenon, <1>1, <1>3, <1>4 DEF Kept
<1>6. \A s \in Slots : SendEndorsementRequests(v).pending[s] =
         IF s \in Unfulfilled(t.post) /\ t.pending[s] = 0 THEN t.ids ELSE t.pending[s]
  BY <1>4, <1>5, SendEndorsementsType, SMT
<1>7. LET m == SendEndorsementRequests(v)
      IN  /\ m \in Transactions
          /\ m.state = v.state /\ m.ids = v.ids /\ m.requestID = v.requestID
          /\ m.post = v.post /\ m.preDispatch = v.preDispatch
          /\ m.failures = v.failures /\ m.reverts = v.reverts
          /\ m.assembleErrors = v.assembleErrors /\ m.signErrors = v.signErrors
          /\ m.revertCount = v.revertCount
          /\ m.stateTimer = v.stateTimer /\ m.tolerances = v.tolerances
  BY Zenon, <1>4, SendEndorsementsType
<1>8. SendEndorsementRequests(v).stateTimer /\ SendEndorsementRequests(v).tolerances
  BY Zenon, <1>3, <1>4, <1>7
<1> DEFINE m == SendEndorsementRequests(v)
<1>9. /\ m.state = "Endorsement_Gathering" /\ m.ids = t.ids /\ m.requestID = t.requestID
      /\ m.post = t.post /\ m.preDispatch = t.preDispatch
      /\ m.failures = t.failures /\ m.reverts = t.reverts
      /\ m.assembleErrors = t.assembleErrors /\ m.signErrors = t.signErrors
      /\ m.revertCount = t.revertCount
  BY <1>1, <1>3, <1>4, <1>7, Zenon DEF Kept
<1>10. QED
  BY <1>2, <1>6, <1>7, <1>8, <1>9, Zenon

\* Entering State_Confirming_Dispatchable asks the originator once, about the
\* assembly at hand.
LEMMA EnterConfirming ==
  ASSUME NEW t \in Transactions
  PROVE  LET m == MoveTo(t, "Confirming_Dispatchable")
         IN  /\ m \in Transactions
             /\ m.state = "Confirming_Dispatchable" /\ m.ids = t.ids /\ m.requestID = t.requestID
             /\ m.post = t.post
             /\ m.preDispatch = IF t.preDispatch.id # 0 THEN t.preDispatch
                                ELSE [id |-> t.ids, of |-> t.post.id]
             /\ m.pending = t.pending /\ m.failures = t.failures /\ m.reverts = t.reverts
             /\ m.assembleErrors = t.assembleErrors /\ m.signErrors = t.signErrors
             /\ m.revertCount = t.revertCount
             /\ m.stateTimer
<1> DEFINE u == OnTransitionFrom([t EXCEPT !.state = "Confirming_Dispatchable",
                                           !.heartbeats = 0], t.state)
           w == [u EXCEPT !.stateTimer = TRUE]
           c == [id |-> w.ids, of |-> w.post.id]
<1>1. u \in Transactions /\ u.state = "Confirming_Dispatchable" /\ Kept(u, t)
  BY Zenon, LeaveState DEF TxnStates
<1> HIDE DEF u
<1>2. MoveTo(t, "Confirming_Dispatchable") = SendPreDispatchRequest(w)
  BY Zenon, <1>1 DEF MoveTo, OnTransitionTo, ScheduleStateTimeout, u
<1>3. w \in Transactions /\ w.state = u.state /\ w.stateTimer /\ Kept(w, u)
  BY Zenon, <1>1 DEF Transactions, Kept
<1> HIDE DEF w
<1>4. w.post \in Assemblies
  BY Zenon, <1>3 DEF Transactions
<1>5. c \in [id : Nat, of : Nat] /\ c = [id |-> t.ids, of |-> t.post.id]
  BY Zenon, <1>1, <1>3, <1>4 DEF Transactions, Assemblies, Kept
<1>6. CASE w.preDispatch.id # 0
  BY Zenon, <1>1, <1>2, <1>3, <1>6 DEF SendPreDispatchRequest, Kept
<1>7. CASE w.preDispatch.id = 0
  <2> DEFINE v == [w EXCEPT !.preDispatch = c, !.requestTimer = "armed"]
  <2>1. MoveTo(t, "Confirming_Dispatchable") = v
    BY Zenon, <1>2, <1>7 DEF SendPreDispatchRequest
  <2> HIDE DEF c
  <2>2. /\ v \in Transactions /\ v.preDispatch = c /\ v.state = w.state
        /\ v.stateTimer = w.stateTimer
        /\ v.ids = w.ids /\ v.requestID = w.requestID /\ v.post = w.post
        /\ v.pending = w.pending /\ v.failures = w.failures /\ v.reverts = w.reverts
        /\ v.assembleErrors = w.assembleErrors /\ v.signErrors = w.signErrors
        /\ v.revertCount = w.revertCount
    BY Zenon, <1>3, <1>5 DEF Transactions
  <2> HIDE DEF v
  <2>3. QED
    BY Zenon, <1>1, <1>3, <1>5, <1>7, <2>1, <2>2 DEF Kept
<1>8. QED
  BY Zenon, <1>6, <1>7

\* Entering State_Preparing records the id the prepare is started under.
LEMMA EnterPreparing ==
  ASSUME NEW t \in Transactions
  PROVE  LET m == MoveTo(t, "Preparing")
         IN  /\ m \in Transactions /\ m.state = "Preparing" /\ Kept(m, t)
             /\ m.prepareID = t.ids
<1> DEFINE u == OnTransitionFrom([t EXCEPT !.state = "Preparing", !.heartbeats = 0], t.state)
           w == AllocateSigningIdentity(u)
<1>1. u \in Transactions /\ u.state = "Preparing" /\ Kept(u, t)
  BY Zenon, LeaveState DEF TxnStates
<1> HIDE DEF u
<1>2. MoveTo(t, "Preparing") = [w EXCEPT !.prepareID = u.ids]
  BY Zenon, <1>1 DEF MoveTo, OnTransitionTo, u
<1>3. w \in Transactions /\ w.state = u.state /\ Kept(w, u)
  BY Zenon, <1>1 DEF AllocateSigningIdentity, Transactions, Kept
<1> HIDE DEF w
<1>4. QED
  BY <1>1, <1>2, <1>3 DEF Transactions, Kept

-----------------------------------------------------------------------------
\* What the plan of an assembly is made of.
LEMMA PlanFacts ==
  ASSUME NEW r \in Requirements
  PROVE  /\ PlanParties[r] \in SUBSET Parties /\ IsFiniteSet(PlanParties[r])
         /\ Cardinality(PlanParties[r]) \in Nat
         /\ Threshold(r) \in Nat /\ Threshold(r) <= Cardinality(PlanParties[r])
         /\ Tolerance(r) \in Nat
         /\ \A p \in PlanParties[r] : <<r, p>> \in Slots /\ Threshold(r) > 0
<1>1. PlanParties[r] \in SUBSET Parties /\ PlanThreshold[r] \in Nat
  BY Zenon, PlanAssumption
<1>2. IsFiniteSet(PlanParties[r])
  BY Zenon, <1>1, FS_Subset, PlanAssumption
<1>3. Cardinality(PlanParties[r]) \in Nat
  BY Zenon, <1>2, FS_CardinalityType
<1>4. PlanThreshold[r] <= Cardinality(PlanParties[r])
  BY Zenon, ThresholdAssumption
<1>5. /\ Threshold(r) \in Nat /\ Threshold(r) <= Cardinality(PlanParties[r])
      /\ Tolerance(r) \in Nat
  BY <1>1, <1>3, <1>4 DEF Threshold, Tolerance
<1>6. ASSUME NEW p \in PlanParties[r]
      PROVE  <<r, p>> \in Slots /\ Threshold(r) > 0
  <2>1. Cardinality(PlanParties[r]) # 0
    BY Zenon, <1>2, <1>6, FS_EmptySet
  <2>2. Threshold(r) > 0
    BY <1>1, <1>3, <2>1 DEF Threshold
  <2>3. QED
    BY Zenon, <1>1, <2>2 DEF Slots
<1>7. QED
  BY Zenon, <1>1, <1>2, <1>3, <1>5, <1>6

\* No unfulfilled ENDORSE requirement (unfulfilledEndorsementRequirements):
\* every requirement has its threshold of different endorsers.
LEMMA Fulfilled ==
  ASSUME NEW t \in Transactions, OfAssembly(t), t.post.id # 0, PlanFulfilled(t)
  PROVE  \A r \in Requirements : Cardinality(EndorsersOf(t, r)) >= Threshold(r)
<1> SUFFICES ASSUME NEW r \in Requirements
             PROVE  Cardinality(EndorsersOf(t, r)) >= Threshold(r)
  BY Zenon
<1> DEFINE E == EndorsersOf(t, r)
           R == Received(t.post, r)
<1>1. t.post \in Assemblies /\ t.post.endorsements \in Seq(Endorsements)
  BY Zenon DEF Transactions, Assemblies
<1>2. /\ PlanParties[r] \in SUBSET Parties /\ IsFiniteSet(PlanParties[r])
      /\ Cardinality(PlanParties[r]) \in Nat
      /\ Threshold(r) \in Nat /\ Threshold(r) <= Cardinality(PlanParties[r])
  BY Zenon, PlanFacts
<1>3. IsFiniteSet(E)
  <2>1. E \in SUBSET Parties
    BY Zenon DEF EndorsersOf
  <2>2. QED
    BY Zenon, <2>1, FS_Subset, PlanAssumption
<1>4. Cardinality(E) \in Nat
  BY Zenon, <1>3, FS_CardinalityType
<1>5. CASE PlanParties[r] \subseteq E
  <2>1. Cardinality(PlanParties[r]) <= Cardinality(E)
    BY Zenon, <1>3, <1>5, FS_Subset
  <2>2. QED
    BY <1>2, <1>4, <2>1
<1>6. ASSUME NEW p \in PlanParties[r], p \notin E
      PROVE  Cardinality(E) >= Threshold(r)
  <2>1. p \in Parties /\ <<r, p>> \in Slots
    BY Zenon, <1>2 DEF Slots
  <2>2. ~EndorsedBy(t.post, r, p)
    BY Zenon, <1>6, <2>1 DEF EndorsedBy, Received, EndorsersOf, OfAssembly
  <2>3. ~(Cardinality(R) < Threshold(r))
    <3>1. <<r, p>> \notin Unfulfilled(t.post)
      BY Zenon DEF PlanFulfilled
    <3>2. QED
      BY Zenon, <2>1, <2>2, <3>1 DEF Unfulfilled
  <2> DEFINE f == [i \in R |-> t.post.endorsements[i].party]
  <2>4. f \in Injection(R, E)
    <3>1. \A i \in R : /\ i \in DOMAIN t.post.endorsements
                       /\ t.post.endorsements[i].req = r
                       /\ t.post.endorsements[i] \in Endorsements
      BY <1>1 DEF Received
    <3>2. \A i \in R : t.post.endorsements[i].party \in E
      BY Zenon, <3>1 DEF OfAssembly, EndorsersOf, Endorsements
    <3>3. \A i, j \in R : t.post.endorsements[i].party = t.post.endorsements[j].party => i = j
      BY Zenon, <3>1 DEF OfAssembly
    <3>4. QED
      BY Zenon, <3>2, <3>3 DEF Injection, IsInjective
  <2>5. IsFiniteSet(R) /\ Cardinality(R) <= Cardinality(E)
    BY Zenon, <1>3, <2>4, FS_Injection
  <2>6. Cardinality(R) \in Nat
    BY Zenon, <2>5, FS_CardinalityType
  <2>7. QED
    BY <1>2, <1>4, <2>3, <2>5, <2>6
<1>7. QED
  BY Zenon, <1>5, <1>6

\* No unfulfilled SIGN requirement: every one of them has its signature.
LEMMA AllSigned ==
  ASSUME NEW t \in Transactions, OfAssembly(t), t.post.id # 0, SignFulfilled(t)
  PROVE  SignedNames(t) = SignNames
<1>1. \A n \in SignNames : \E i \in DOMAIN t.post.sigs :
         t.post.sigs[i].name = n /\ t.post.sigs[i].of = t.post.id
  BY Zenon DEF SignFulfilled, OfAssembly
<1>2. QED
  BY Zenon, <1>1 DEF SignedNames

-----------------------------------------------------------------------------
\* The transaction may still be retried.
Retriable(t) ==
    /\ t.revertCount <= RevertRetryThreshold
    /\ t.assembleErrors <= AssembleErrorRetryThreshold
    /\ t.signErrors <= SignErrorRetryThreshold

\* Nothing is outstanding.
Settled(t) ==
    /\ t.pending = NoRequests /\ t.failures = NoCounts /\ t.reverts = NoCounts
    /\ t.preDispatch = NoConfirmation

\* Coherence depends on the kept fields alone.
LEMMA CoherentKept ==
  ASSUME NEW t, NEW m, Coherent(t), Kept(m, t)
  PROVE  Coherent(m)
BY Zenon DEF Coherent, OfAssembly, Outstanding, Kept

\* So does the first half of it, on the assembly and the ids.
LEMMA SameAssembly ==
  ASSUME NEW t, NEW m, OfAssembly(t),
         m.ids = t.ids, m.requestID = t.requestID, m.post = t.post
  PROVE  OfAssembly(m)
BY Zenon DEF OfAssembly

\* Without an assembly and without requests there is nothing to disagree.
LEMMA CoherentSettled ==
  ASSUME NEW t, Settled(t), t.requestID \in {0, t.ids}, t.post = NoAssembly
  PROVE  Coherent(t)
BY DEF Coherent, OfAssembly, Outstanding, Settled, NoAssembly, NoRequests, NoConfirmation

\* A transaction that may go on retrying is within all the retry bounds.
LEMMA RetriableFacts ==
  ASSUME NEW t \in Transactions, Retriable(t)
  PROVE  Retries(t)
BY RetryAssumption DEF Retries, Retriable, Transactions

\* A transaction is sound again in the pool, whatever state it was left in.
LEMMA PoolSound ==
  ASSUME NEW t \in Transactions, t.requestID \in {0, t.ids}, Retriable(t),
         NEW s \in {"PreAssembly_Blocked", "Pooled"}
  PROVE  LET m == MoveTo(t, s)
         IN  Sound(m) /\ m.ids = t.ids /\ m.state = s
<1> DEFINE m == MoveTo(t, s)
<1>1. /\ m \in Transactions
      /\ m.state = s /\ m.ids = t.ids /\ m.requestID = t.requestID
      /\ m.post = NoAssembly /\ m.preDispatch = NoConfirmation
      /\ m.pending = NoRequests /\ m.failures = NoCounts /\ m.reverts = NoCounts
      /\ m.assembleErrors = t.assembleErrors /\ m.signErrors = t.signErrors
      /\ m.revertCount = t.revertCount
  BY Zenon, EnterPool
<1> HIDE DEF m
<1>2. Coherent(m)
  BY Zenon, <1>1, CoherentSettled DEF Settled
<1>3. Retries(m)
  BY Zenon, <1>1, RetriableFacts DEF Retriable
<1>4. ByState(m)
  BY Zenon, <1>1 DEF ByState, Unassembled, Ended, Attested
<1>5. QED
  BY Zenon, <1>1, <1>2, <1>3, <1>4 DEF Sound, m

\* A transaction that ends keeps what it has, which nobody looks at any more.
LEMMA EndSound ==
  ASSUME NEW t \in Transactions, Coherent(t), NEW s \in Ended,
         t.revertCount <= RevertRetryThreshold + 1,
         t.assembleErrors <= AssembleErrorRetryThreshold + 1,
         t.signErrors <= SignErrorRetryThreshold + 1,
         s # "Evicted" => /\ t.assembleErrors <= AssembleErrorRetryThreshold
                          /\ t.signErrors <= SignErrorRetryThreshold
  PROVE  LET m == MoveTo(t, s)
         IN  Sound(m) /\ m.ids = t.ids /\ m.post = t.post /\ m.state = s
<1> DEFINE m == MoveTo(t, s)
<1>1. m \in Transactions /\ m.state = s /\ Kept(m, t)
  BY Zenon, EnterResting DEF Resting
<1> HIDE DEF m
<1>2. Coherent(m)
  BY Zenon, <1>1, CoherentKept
<1>3. Retries(m)
  BY Zenon, <1>1 DEF Retries, Kept, Ended
<1>4. ByState(m)
  BY Zenon, <1>1 DEF ByState, Unassembled, Ended, Attested
<1>5. QED
  BY Zenon, <1>1, <1>2, <1>3, <1>4 DEF Sound, Kept, m

\* An assembly with signatures to come is sound in State_Signing.
LEMMA SigningSound ==
  ASSUME NEW t \in Transactions, Coherent(t), Settled(t), Retriable(t),
         t.post.id # 0, t.post.endorsements = <<>>
  PROVE  LET m == MoveTo(t, "Signing")
         IN  Sound(m) /\ m.ids = t.ids /\ m.post = t.post /\ m.state = "Signing" /\ m.stateTimer
<1> DEFINE m == MoveTo(t, "Signing")
<1>1. m \in Transactions /\ m.state = "Signing" /\ m.stateTimer /\ Kept(m, t)
  BY Zenon, EnterSigning
<1> HIDE DEF m
<1>2. Coherent(m)
  BY Zenon, <1>1, CoherentKept
<1>3. Retries(m)
  BY Zenon, <1>1, RetriableFacts DEF Retriable, Kept
<1>4. ByState(m)
  <2>1. m.post = t.post /\ Settled(m)
    BY Zenon, <1>1 DEF Kept, Settled
  <2>2. QED
    BY Zenon, <1>1, <2>1 DEF ByState, Unassembled, Ended, Attested, Settled
<1>5. QED
  BY Zenon, <1>1, <1>2, <1>3, <1>4 DEF Sound, Kept, m

\* The attestations depend on the assembly alone.
LEMMA SamePost ==
  ASSUME NEW m, NEW t, m.post = t.post
  PROVE  /\ SignedNames(m) = SignedNames(t)
         /\ \A r : EndorsersOf(m, r) = EndorsersOf(t, r)
<1>1. SignedNames(m) = SignedNames(t)
  BY Zenon DEF SignedNames
<1>2. ASSUME NEW r PROVE EndorsersOf(m, r) = EndorsersOf(t, r)
  BY Zenon DEF EndorsersOf
<1>3. QED
  BY Zenon, <1>1, <1>2

\* An attested assembly is sound in the state guard_HasDependenciesNotReady
\* sends it to.
LEMMA AttestedSound ==
  ASSUME NEW t \in Transactions, Coherent(t), Settled(t), Retriable(t),
         t.post.id # 0, SignedNames(t) = SignNames,
         \A r \in Requirements : Cardinality(EndorsersOf(t, r)) >= Threshold(r),
         NEW notReady \in BOOLEAN
  PROVE  LET m == ToDispatch(t, notReady)
         IN  /\ Sound(m) /\ m.ids = t.ids /\ m.post = t.post
             /\ \/ m.state = "Blocked"
                \/ m.state = "Confirming_Dispatchable" /\ m.stateTimer
<1>1. ASSUME NEW m \in Transactions, m.post = t.post
      PROVE  /\ SignedNames(m) = SignNames
             /\ \A r \in Requirements : Cardinality(EndorsersOf(m, r)) >= Threshold(r)
  BY Zenon, <1>1, SamePost
<1>2. CASE notReady
  <2> DEFINE m == MoveTo(t, "Blocked")
  <2>1. m \in Transactions /\ m.state = "Blocked" /\ Kept(m, t)
    BY Zenon, EnterResting DEF Resting
  <2>2. ToDispatch(t, notReady) = m
    BY Zenon, <1>2 DEF ToDispatch
  <2> HIDE DEF m
  <2>3. Coherent(m)
    BY Zenon, <2>1, CoherentKept
  <2>4. Retries(m)
    BY Zenon, <2>1, RetriableFacts DEF Retriable, Kept
  <2>5. ByState(m)
    <3>1. m.post = t.post /\ Settled(m)
      BY Zenon, <2>1 DEF Kept, Settled
    <3>2. /\ SignedNames(m) = SignNames
          /\ \A r \in Requirements : Cardinality(EndorsersOf(m, r)) >= Threshold(r)
      BY Zenon, <1>1, <2>1, <3>1
    <3>3. QED
      BY Zenon, <2>1, <3>1, <3>2 DEF ByState, Unassembled, Ended, Attested, Settled
  <2>6. QED
    BY Zenon, <2>1, <2>2, <2>3, <2>4, <2>5 DEF Sound, Kept
<1>3. CASE ~notReady
  <2> DEFINE m == MoveTo(t, "Confirming_Dispatchable")
  <2>1. /\ m \in Transactions
        /\ m.state = "Confirming_Dispatchable" /\ m.ids = t.ids /\ m.requestID = t.requestID
        /\ m.post = t.post
        /\ m.preDispatch = IF t.preDispatch.id # 0 THEN t.preDispatch
                           ELSE [id |-> t.ids, of |-> t.post.id]
        /\ m.pending = t.pending /\ m.failures = t.failures /\ m.reverts = t.reverts
        /\ m.assembleErrors = t.assembleErrors /\ m.signErrors = t.signErrors
        /\ m.revertCount = t.revertCount
        /\ m.stateTimer
    BY Zenon, EnterConfirming
  <2>2. ToDispatch(t, notReady) = m
    BY Zenon, <1>3 DEF ToDispatch
  <2> HIDE DEF m
  <2>3. Coherent(m)
    <3>1. t.ids = t.post.id
      BY Zenon DEF Coherent, OfAssembly
    <3>2. m.preDispatch = [id |-> m.post.id, of |-> m.post.id]
      BY <2>1, <3>1 DEF Settled, NoConfirmation
    <3>3. QED
      BY Zenon, <2>1, <3>2, SameAssembly DEF Coherent, Outstanding
  <2>4. Retries(m)
    BY Zenon, <2>1, RetriableFacts DEF Retriable
  <2>5. ByState(m)
    BY Zenon, <1>1, <2>1 DEF ByState, Unassembled, Ended, Attested, Settled
  <2>6. QED
    BY Zenon, <2>1, <2>2, <2>3, <2>4, <2>5 DEF Sound
<1>4. QED
  BY Zenon, <1>2, <1>3

\* A signed assembly without endorsements is sound in
\* State_Endorsement_Gathering: every party is asked, none has failed.
LEMMA GatheringSound ==
  ASSUME NEW t \in Transactions, Coherent(t), Settled(t), Retriable(t),
         t.post.id # 0, t.post.endorsements = <<>>, SignedNames(t) = SignNames
  PROVE  LET m == MoveTo(t, "Endorsement_Gathering")
         IN  /\ Sound(m) /\ m.ids = t.ids /\ m.post = t.post
             /\ m.state = "Endorsement_Gathering" /\ m.stateTimer
<1> DEFINE m == MoveTo(t, "Endorsement_Gathering")
<1>1. /\ m \in Transactions
      /\ m.state = "Endorsement_Gathering" /\ m.ids = t.ids /\ m.requestID = t.requestID
      /\ m.post = t.post /\ m.preDispatch = t.preDispatch
      /\ m.failures = t.failures /\ m.reverts = t.reverts
      /\ \A s \in Slots : m.pending[s] = IF s \in Unfulfilled(t.post) /\ t.pending[s] = 0
                                         THEN t.ids ELSE t.pending[s]
      /\ m.assembleErrors = t.assembleErrors /\ m.signErrors = t.signErrors
      /\ m.revertCount = t.revertCount
      /\ m.stateTimer /\ m.tolerances
  BY Zenon, EnterGathering
<1> HIDE DEF m
<1>2. t.post.id = t.ids /\ t.ids \in Nat
  BY Zenon DEF Coherent, OfAssembly, Transactions
<1>3. ASSUME NEW r \in Requirements, NEW p \in PlanParties[r]
      PROVE  m.pending[<<r, p>>] = t.post.id /\ ~EndorsedBy(t.post, r, p)
  <2>1. Received(t.post, r) = {}
    BY DEF Received
  <2>2. Cardinality(Received(t.post, r)) = 0 /\ ~EndorsedBy(t.post, r, p)
    BY Zenon, <2>1, FS_EmptySet DEF EndorsedBy
  <2>3. <<r, p>> \in Slots /\ Threshold(r) > 0
    BY Zenon, <1>3, PlanFacts
  <2>4. <<r, p>> \in Unfulfilled(t.post)
    BY Zenon, <2>2, <2>3 DEF Unfulfilled
  <2>5. t.pending[<<r, p>>] = 0
    BY Zenon, <2>3 DEF Settled, NoRequests
  <2>6. QED
    BY Zenon, <1>1, <1>2, <2>2, <2>3, <2>4, <2>5
<1>4. \A s \in Slots : m.pending[s] = t.post.id /\ ~EndorsedBy(t.post, s[1], s[2])
  <2> SUFFICES ASSUME NEW s \in Slots
               PROVE  m.pending[s] = t.post.id /\ ~EndorsedBy(t.post, s[1], s[2])
    BY Zenon
  <2>1. s[1] \in Requirements /\ s[2] \in PlanParties[s[1]] /\ s = <<s[1], s[2]>>
    BY DEF Slots
  <2>2. QED
    BY Zenon, <1>3, <2>1
<1>5. Coherent(m)
  <2>1. OfAssembly(m)
    BY Zenon, <1>1, SameAssembly DEF Coherent
  <2>2. Outstanding(m)
    BY <1>1, <1>4 DEF Outstanding, Settled, NoConfirmation
  <2>3. QED
    BY Zenon, <2>1, <2>2 DEF Coherent
<1>6. Accounts(m)
  <2>1. \A s \in Slots : m.pending[s] = 0 <=> EndorsedBy(m.post, s[1], s[2])
    BY Zenon, <1>1, <1>4
  <2>2. ASSUME NEW r \in Requirements
        PROVE  /\ m.failures[r] = Cardinality({p \in PlanParties[r] : m.pending[<<r, p>>] = Failed})
               /\ m.reverts[r] <= m.failures[r]
               /\ m.failures[r] <= Tolerance(r)
    <3>1. {p \in PlanParties[r] : m.pending[<<r, p>>] = Failed} = {}
      BY <1>2, <1>3, <2>2 DEF Failed
    <3>2. m.failures[r] = 0 /\ m.reverts[r] = 0
      BY <1>1 DEF Settled, NoCounts
    <3>3. Cardinality({}) = 0 /\ Tolerance(r) \in Nat
      BY Zenon, <2>2, FS_EmptySet, PlanFacts
    <3>4. m.failures[r] = Cardinality({p \in PlanParties[r] : m.pending[<<r, p>>] = Failed})
      BY Zenon, <3>1, <3>2, <3>3
    <3>5. m.reverts[r] <= m.failures[r] /\ m.failures[r] <= Tolerance(r)
      BY <3>2, <3>3
    <3>6. QED
      BY Zenon, <3>4, <3>5
  <2>3. QED
    BY Zenon, <1>1, <2>1, <2>2 DEF Accounts
<1>7. Retries(m)
  BY Zenon, <1>1, RetriableFacts DEF Retriable
<1>8. ByState(m)
  <2>1. m.preDispatch = NoConfirmation /\ m.post.id # 0 /\ SignedNames(m) = SignNames
    BY Zenon, <1>1, SamePost DEF Settled
  <2>2. QED
    BY Zenon, <1>1, <1>6, <2>1 DEF ByState, Unassembled, Ended, Attested
<1>9. QED
  BY Zenon, <1>1, <1>5, <1>7, <1>8 DEF Sound, m

\* Where an assembled transaction may go to, with its assembly.
Onward(m, t) ==
    /\ Sound(m) /\ m.ids = t.ids /\ m.post = t.post
    /\ \/ m.state = "Blocked"
       \/ m.state \in TimedStates \ {"Assembling"} /\ m.stateTimer

\* Whichever state an assembly goes to, it is sound there and a wait has its
\* timeout.
LEMMA AssembledSound ==
  ASSUME NEW t \in Transactions, Coherent(t), Settled(t), Retriable(t),
         t.post.id # 0, t.post.endorsements = <<>>, NEW notReady \in BOOLEAN
  PROVE  Onward(Assembled(t, notReady), t)
<1>1. CASE ~SignFulfilled(t)
  BY Zenon, <1>1, SigningSound DEF Assembled, Onward, TimedStates
<1>2. CASE SignFulfilled(t) /\ ~PlanFulfilled(t)
  <2>1. SignedNames(t) = SignNames
    BY Zenon, <1>2, AllSigned DEF Coherent
  <2>2. QED
    BY Zenon, <1>2, <2>1, GatheringSound DEF Assembled, Onward, TimedStates
<1>3. CASE SignFulfilled(t) /\ PlanFulfilled(t)
  <2>1. /\ SignedNames(t) = SignNames
        /\ \A r \in Requirements : Cardinality(EndorsersOf(t, r)) >= Threshold(r)
    BY Zenon, <1>3, AllSigned, Fulfilled DEF Coherent
  <2>2. Assembled(t, notReady) = ToDispatch(t, notReady)
    BY Zenon, <1>3 DEF Assembled
  <2>3. QED
    BY <2>1, <2>2, AttestedSound DEF Onward, TimedStates
<1>4. QED
  BY Zenon, <1>1, <1>2, <1>3

\* Soundness survives a change of the fields that do not count.
LEMMA SoundSame ==
  ASSUME NEW t, Sound(t), NEW m \in Transactions, Kept(m, t), m.state = t.state,
         t.state = "Endorsement_Gathering" => m.tolerances = t.tolerances,
         t.state = "Preparing" => m.prepareID = t.prepareID
  PROVE  Sound(m) /\ m.ids = t.ids /\ m.post = t.post
<1>1. Coherent(m)
  BY Zenon, CoherentKept DEF Sound
<1>2. Retries(m)
  BY Zenon DEF Sound, Retries, Kept
<1>3. ByState(m)
  <2>1. /\ m.post = t.post /\ m.pending = t.pending /\ m.failures = t.failures
        /\ m.reverts = t.reverts /\ m.preDispatch = t.preDispatch /\ m.ids = t.ids
    BY Zenon DEF Kept
  <2>2. /\ SignedNames(m) = SignedNames(t)
        /\ \A r \in Requirements : EndorsersOf(m, r) = EndorsersOf(t, r)
    BY Zenon, <2>1, SamePost
  <2>3. t.state = "Endorsement_Gathering" => Accounts(m)
    BY Zenon, <2>1 DEF Sound, ByState, Accounts
  <2>4. QED
    BY Zenon, <2>1, <2>2, <2>3 DEF Sound, ByState
<1>4. QED
  BY Zenon, <1>1, <1>2, <1>3 DEF Sound, Kept

\* applyPostAssembly replaces the assembly.
LEMMA ApplyPostAssemblyType ==
  ASSUME NEW t \in Transactions, NEW id \in Nat, NEW sigs \in Seq(Signatures)
  PROVE  LET m == ApplyPostAssembly(t, id, sigs)
         IN  /\ m \in Transactions
             /\ m.state = t.state /\ m.ids = t.ids /\ m.requestID = t.requestID
             /\ m.post = [id |-> id, sigs |-> sigs, endorsements |-> <<>>]
             /\ m.preDispatch = t.preDispatch
             /\ m.pending = t.pending /\ m.failures = t.failures /\ m.reverts = t.reverts
             /\ m.assembleErrors = t.assembleErrors /\ m.signErrors = t.signErrors
             /\ m.revertCount = t.revertCount
<1> DEFINE a == [id |-> id, sigs |-> sigs, endorsements |-> <<>>]
           u == [t EXCEPT !.post = a]
<1>1. a \in Assemblies
  BY DEF Assemblies
<1>2. ApplyPostAssembly(t, id, sigs) = ClearTimeouts(u)
  BY Zenon DEF ApplyPostAssembly
<1> HIDE DEF a
<1>3. /\ u \in Transactions
      /\ u.state = t.state /\ u.ids = t.ids /\ u.requestID = t.requestID
      /\ u.post = a
      /\ u.preDispatch = t.preDispatch
      /\ u.pending = t.pending /\ u.failures = t.failures /\ u.reverts = t.reverts
      /\ u.assembleErrors = t.assembleErrors /\ u.signErrors = t.signErrors
      /\ u.revertCount = t.revertCount
  BY Zenon, <1>1 DEF Transactions
<1> HIDE DEF u
<1>4. ClearTimeouts(u) \in Transactions /\ ClearTimeouts(u).state = u.state /\ Kept(ClearTimeouts(u), u)
  BY Zenon, <1>3 DEF ClearTimeouts, Transactions, Kept
<1>5. QED
  BY Zenon, <1>2, <1>3, <1>4 DEF Kept, a

\* The assembly that answers the pending request.
LEMMA AppliedAssembly ==
  ASSUME NEW t, Sound(t), t.state = "Assembling", NEW id, id = t.requestID, id # 0,
         NEW sigs \in Seq(Signatures), \A i \in DOMAIN sigs : sigs[i].of = id
  PROVE  LET m == ApplyPostAssembly(t, id, sigs)
         IN  /\ Sound(m) /\ Settled(m) /\ Retriable(m)
             /\ m.state = "Assembling" /\ m.ids = t.ids
             /\ m.post = [id |-> id, sigs |-> sigs, endorsements |-> <<>>]
<1>1. t \in Transactions /\ id \in Nat
  BY Zenon DEF Sound, Transactions
<1> DEFINE m == ApplyPostAssembly(t, id, sigs)
<1>2. /\ m \in Transactions
      /\ m.state = t.state /\ m.ids = t.ids /\ m.requestID = t.requestID
      /\ m.post = [id |-> id, sigs |-> sigs, endorsements |-> <<>>]
      /\ m.preDispatch = t.preDispatch
      /\ m.pending = t.pending /\ m.failures = t.failures /\ m.reverts = t.reverts
      /\ m.assembleErrors = t.assembleErrors /\ m.signErrors = t.signErrors
      /\ m.revertCount = t.revertCount
  BY <1>1, ApplyPostAssemblyType, Zenon
<1> HIDE DEF m
<1>3. Settled(m) /\ Settled(t)
  BY Zenon, <1>2 DEF Sound, ByState, Ended, Settled
<1>4. Retriable(m)
  BY Zenon, <1>2 DEF Sound, Retries, Ended, Retriable
<1>5. OfAssembly(m)
  <2>1. m.requestID \in {0, m.ids} /\ m.post.id = m.requestID /\ m.post.id # 0
    BY <1>2 DEF Sound, Coherent, OfAssembly
  <2>2. m.post.sigs = sigs /\ m.post.endorsements = <<>>
    BY <1>2
  <2>3. QED
    BY <1>2, <2>1, <2>2 DEF OfAssembly
<1>6. Outstanding(m)
  BY <1>3 DEF Outstanding, Settled, NoRequests, NoConfirmation
<1>7. ByState(m)
  BY <1>2, <1>3 DEF ByState, Settled, Unassembled, Ended, Attested
<1>8. Retries(m)
  BY Zenon, <1>2, <1>4, RetriableFacts
<1>9. QED
  BY Zenon, <1>2, <1>3, <1>4, <1>5, <1>6, <1>7, <1>8 DEF Sound, Coherent, m

\* A signature that answers the pending request is of the assembly at hand.
LEMMA AppliedSignature ==
  ASSUME NEW t, Sound(t), t.state = "Signing", NEW n \in SignNames,
         NEW sig, sig = [name |-> n, of |-> t.requestID], t.requestID # 0
  PROVE  LET m == ApplySignature(t, sig)
         IN  /\ Sound(m) /\ Settled(m) /\ Retriable(m)
             /\ m.state = "Signing" /\ m.ids = t.ids /\ m.stateTimer = t.stateTimer
             /\ m.post.id = t.post.id /\ m.post.endorsements = <<>> /\ t.post.endorsements = <<>>
             /\ SignedNames(m) \in {SignedNames(t), SignedNames(t) \cup {n}}
<1> DEFINE m == ApplySignature(t, sig)
<1>1. t \in Transactions /\ t.post \in Assemblies /\ t.post.sigs \in Seq(Signatures)
  BY Zenon DEF Sound, Transactions, Assemblies
<1>2. Settled(t) /\ Retriable(t) /\ t.post.endorsements = <<>> /\ t.post.id = t.requestID
  <2>1. t.post.id # 0 /\ t.post.id \in {0, t.requestID}
    BY Zenon DEF Sound, ByState, Coherent, OfAssembly
  <2>2. Settled(t) /\ t.post.endorsements = <<>>
    BY Zenon DEF Sound, ByState, Ended, Settled
  <2>3. Retriable(t)
    BY Zenon DEF Sound, Retries, Ended, Retriable
  <2>4. QED
    BY Zenon, <2>1, <2>2, <2>3
<1>3. CASE \E i \in DOMAIN t.post.sigs : t.post.sigs[i].name = sig.name
  BY Zenon, <1>2, <1>3 DEF ApplySignature
<1>4. CASE ~\E i \in DOMAIN t.post.sigs : t.post.sigs[i].name = sig.name
  <2> DEFINE ss == Append(t.post.sigs, sig)
             a == [t.post EXCEPT !.sigs = ss]
  <2>1. m = [t EXCEPT !.post = a]
    BY Zenon, <1>1, <1>4 DEF ApplySignature, Transactions
  <2> HIDE DEF m
  <2>2. sig \in Signatures /\ sig.of = t.post.id /\ sig.name = n
    BY Zenon, <1>1, <1>2 DEF Signatures, Assemblies
  <2>3. ss \in Seq(Signatures)
    BY <1>1, <2>2
  <2>4. /\ DOMAIN ss = 1..(Len(t.post.sigs) + 1) /\ DOMAIN t.post.sigs = 1..Len(t.post.sigs)
        /\ Len(t.post.sigs) \in Nat
        /\ \A i \in 1..Len(t.post.sigs) : ss[i] = t.post.sigs[i]
        /\ ss[Len(t.post.sigs) + 1] = sig
    BY <1>1, <2>2
  <2> HIDE DEF ss
  <2>5. /\ a \in Assemblies /\ a.id = t.post.id /\ a.sigs = ss
        /\ a.endorsements = t.post.endorsements
    BY Zenon, <1>1, <2>3 DEF Assemblies
  <2> HIDE DEF a
  <2>6. /\ m \in Transactions
        /\ m.state = t.state /\ m.ids = t.ids /\ m.requestID = t.requestID
        /\ m.post = a /\ m.preDispatch = t.preDispatch
        /\ m.pending = t.pending /\ m.failures = t.failures /\ m.reverts = t.reverts
        /\ m.assembleErrors = t.assembleErrors /\ m.signErrors = t.signErrors
        /\ m.revertCount = t.revertCount /\ m.stateTimer = t.stateTimer
    BY Zenon, <1>1, <2>1, <2>5 DEF Transactions
  <2>7. Settled(m) /\ Retriable(m)
    BY Zenon, <1>2, <2>6 DEF Settled, Retriable
  <2>8. OfAssembly(m)
    <3>1. \A i \in DOMAIN ss : ss[i].of = t.post.id
      BY <2>2, <2>4 DEF Sound, Coherent, OfAssembly
    <3>2. t.post.id # 0 /\ t.requestID \in {0, t.ids}
      BY Zenon, <1>2 DEF Sound, Coherent, OfAssembly
    <3>3. QED
      BY <1>2, <2>5, <2>6, <3>1, <3>2 DEF OfAssembly
  <2>9. Outstanding(m)
    BY <2>7 DEF Outstanding, Settled, NoRequests, NoConfirmation
  <2>10. ByState(m)
    BY Zenon, <1>2, <2>5, <2>6, <2>7 DEF ByState, Settled, Unassembled, Ended, Attested
  <2>11. Retries(m)
    BY Zenon, <2>6, <2>7, RetriableFacts
  <2>12. SignedNames(m) = SignedNames(t) \cup {n}
    <3> DEFINE Has(sq, x) == \E i \in DOMAIN sq : sq[i].name = x /\ sq[i].of = t.post.id
    <3>1. ASSUME NEW x \in SignNames
          PROVE  Has(ss, x) <=> Has(t.post.sigs, x) \/ x = n
      <4>1. ASSUME Has(ss, x) PROVE Has(t.post.sigs, x) \/ x = n
        BY <2>2, <2>4, <4>1
      <4>2. ASSUME Has(t.post.sigs, x) PROVE Has(ss, x)
        BY <2>4, <4>2
      <4>3. ASSUME x = n PROVE Has(ss, x)
        BY <2>2, <2>4, <4>3
      <4>4. QED
        BY Zenon, <4>1, <4>2, <4>3
    <3>2. SignedNames(m) = {x \in SignNames : Has(ss, x)}
      BY Zenon, <2>5, <2>6 DEF SignedNames
    <3>3. SignedNames(t) = {x \in SignNames : Has(t.post.sigs, x)}
      BY Zenon DEF SignedNames
    <3> HIDE DEF Has
    <3>4. QED
      BY Zenon, <3>1, <3>2, <3>3
  <2>13. m.post.id = t.post.id /\ m.post.endorsements = <<>>
    BY Zenon, <1>2, <2>5, <2>6
  <2>14. Sound(m)
    BY Zenon, <2>6, <2>8, <2>9, <2>10, <2>11 DEF Sound, Coherent
  <2>15. QED
    BY Zenon, <1>2, <2>6, <2>7, <2>12, <2>13, <2>14 DEF m
<1>5. QED
  BY Zenon, <1>3, <1>4

\* The request q is outstanding.
Owed(t, q) ==
    /\ <<q.req, q.party>> \in Slots
    /\ t.pending[<<q.req, q.party>>] > 0 /\ t.pending[<<q.req, q.party>>] = q.id
    /\ q.of = q.id

\* What is known of a request that validator_MatchesPendingEndorsementRequest
\* lets through.
LEMMA OwedFacts ==
  ASSUME NEW t, Sound(t), t.state = "Endorsement_Gathering", NEW q, Owed(t, q)
  PROVE  /\ t \in Transactions /\ t.post \in Assemblies /\ t.post.endorsements \in Seq(Endorsements)
         /\ q.req \in Requirements /\ q.party \in Parties /\ q.party \in PlanParties[q.req]
         /\ q.of = t.post.id /\ t.post.id # 0 /\ t.post.id = t.ids /\ t.requestID = t.ids
         /\ ~EndorsedBy(t.post, q.req, q.party)
         /\ Accounts(t) /\ Retriable(t) /\ t.preDispatch = NoConfirmation
         /\ SignedNames(t) = SignNames
<1>1. t \in Transactions /\ t.post \in Assemblies /\ t.post.endorsements \in Seq(Endorsements)
  BY Zenon DEF Sound, Transactions, Assemblies
<1>2. q.req \in Requirements /\ q.party \in Parties /\ q.party \in PlanParties[q.req]
  BY Zenon DEF Owed, Slots
<1>3. Accounts(t) /\ t.preDispatch = NoConfirmation /\ SignedNames(t) = SignNames /\ t.post.id # 0
  BY Zenon DEF Sound, ByState, Ended, Attested
<1>4. q.of = t.post.id /\ t.post.id = t.ids /\ t.requestID = t.ids
  BY Zenon, <1>3 DEF Sound, Coherent, OfAssembly, Outstanding, Owed
<1>5. ~EndorsedBy(t.post, q.req, q.party)
  <2> DEFINE s == <<q.req, q.party>>
  <2>1. s \in Slots /\ t.pending[s] # 0 /\ s[1] = q.req /\ s[2] = q.party
    BY DEF Owed
  <2> HIDE DEF s
  <2>2. QED
    BY Zenon, <1>3, <2>1 DEF Accounts
<1>6. Retriable(t)
  BY Zenon DEF Sound, Retries, Ended, Retriable
<1>7. QED
  BY Zenon, <1>1, <1>2, <1>3, <1>4, <1>5, <1>6

\* An endorsement that is owed moves its party from those that owe an answer
\* to the endorsers, once.
LEMMA AppliedEndorsement ==
  ASSUME NEW t, Sound(t), t.state = "Endorsement_Gathering", NEW q, Owed(t, q),
         NEW mustSubmit \in BOOLEAN
  PROVE  LET m == ApplyEndorsement(t, q, mustSubmit)
         IN  /\ Sound(m) /\ Retriable(m) /\ m.preDispatch = NoConfirmation
             /\ m.state = "Endorsement_Gathering" /\ m.ids = t.ids /\ m.stateTimer = t.stateTimer
             /\ m.post.id = t.post.id /\ SignedNames(m) = SignNames
             /\ \A r \in Requirements : EndorsersOf(m, r) =
                   IF r = q.req THEN EndorsersOf(t, r) \cup {q.party} ELSE EndorsersOf(t, r)
<1> DEFINE m == ApplyEndorsement(t, q, mustSubmit)
           slot == <<q.req, q.party>>
           e == [req |-> q.req, party |-> q.party, of |-> q.of, mustSubmit |-> mustSubmit]
           old == t.post.endorsements
           es == Append(old, e)
           a == [t.post EXCEPT !.endorsements = es]
           pd == [t.pending EXCEPT ![slot] = 0]
<1>1. /\ t \in Transactions /\ t.post \in Assemblies /\ old \in Seq(Endorsements)
      /\ q.req \in Requirements /\ q.party \in Parties /\ q.party \in PlanParties[q.req]
      /\ q.of = t.post.id /\ t.post.id # 0 /\ t.post.id = t.ids /\ t.requestID = t.ids
      /\ ~EndorsedBy(t.post, q.req, q.party)
      /\ Accounts(t) /\ Retriable(t) /\ t.preDispatch = NoConfirmation
      /\ SignedNames(t) = SignNames
  BY Zenon, OwedFacts
<1>2. m = [t EXCEPT !.pending = pd, !.post = a]
  BY Zenon, <1>1 DEF ApplyEndorsement, Transactions
<1> HIDE DEF m
<1>3. slot \in Slots /\ t.pending[slot] > 0 /\ slot[1] = q.req /\ slot[2] = q.party
  BY Zenon DEF Owed
<1>4. t.pending \in [Slots -> Nat \cup {Failed}]
  BY Zenon, <1>1 DEF Transactions
<1> HIDE DEF slot
<1>5. /\ pd \in [Slots -> Nat \cup {Failed}] /\ pd[slot] = 0
      /\ \A s \in Slots : s # slot => pd[s] = t.pending[s]
  BY Zenon, <1>3, <1>4
<1> HIDE DEF pd
<1>6. e \in Endorsements /\ e.req = q.req /\ e.party = q.party /\ e.of = t.post.id
  BY Zenon, <1>1 DEF Endorsements, Assemblies
<1> HIDE DEF e
<1>7. /\ es \in Seq(Endorsements) /\ Len(old) \in Nat
      /\ DOMAIN es = 1..(Len(old) + 1) /\ DOMAIN old = 1..Len(old)
      /\ \A i \in 1..Len(old) : es[i] = old[i]
      /\ es[Len(old) + 1] = e
  BY <1>1, <1>6
<1> HIDE DEF es
<1>8. a \in Assemblies /\ a.id = t.post.id /\ a.sigs = t.post.sigs /\ a.endorsements = es
  BY Zenon, <1>1, <1>7 DEF Assemblies
<1> HIDE DEF a
<1>9. /\ m \in Transactions
      /\ m.state = t.state /\ m.ids = t.ids /\ m.requestID = t.requestID
      /\ m.post = a /\ m.preDispatch = t.preDispatch
      /\ m.pending = pd /\ m.failures = t.failures /\ m.reverts = t.reverts
      /\ m.assembleErrors = t.assembleErrors /\ m.signErrors = t.signErrors
      /\ m.revertCount = t.revertCount /\ m.stateTimer = t.stateTimer
      /\ m.tolerances = t.tolerances
  BY Zenon, <1>1, <1>2, <1>5, <1>8 DEF Transactions
<1>10. ASSUME NEW r, NEW p
       PROVE  EndorsedBy(a, r, p) <=> EndorsedBy(t.post, r, p) \/ (r = q.req /\ p = q.party)
  <2> DEFINE Has(sq) == \E i \in DOMAIN sq : sq[i].req = r /\ sq[i].party = p
  <2>1. ASSUME Has(es) PROVE Has(old) \/ (r = q.req /\ p = q.party)
    BY <1>6, <1>7, <2>1
  <2>2. ASSUME Has(old) PROVE Has(es)
    BY <1>7, <2>2
  <2>3. ASSUME r = q.req, p = q.party PROVE Has(es)
    BY <1>6, <1>7, <2>3
  <2>4. EndorsedBy(a, r, p) <=> Has(es)
    BY Zenon, <1>8 DEF EndorsedBy, Received
  <2>5. EndorsedBy(t.post, r, p) <=> Has(old)
    BY Zenon DEF EndorsedBy, Received
  <2> HIDE DEF Has
  <2>6. QED
    BY Zenon, <2>1, <2>2, <2>3, <2>4, <2>5
<1>11. OfAssembly(m)
  <2>1. \A i \in DOMAIN es : es[i].of = t.post.id /\ es[i].party \in PlanParties[es[i].req]
    BY <1>1, <1>6, <1>7 DEF Sound, Coherent, OfAssembly
  <2>2. \A i \in DOMAIN old : ~(old[i].req = q.req /\ old[i].party = q.party)
    BY Zenon, <1>1 DEF EndorsedBy, Received
  <2>3. \A i, j \in DOMAIN old : old[i].req = old[j].req /\ old[i].party = old[j].party => i = j
    BY Zenon DEF Sound, Coherent, OfAssembly
  <2>4. \A i, j \in DOMAIN es : es[i].req = es[j].req /\ es[i].party = es[j].party => i = j
    <3> SUFFICES ASSUME NEW i \in DOMAIN es, NEW j \in DOMAIN es,
                        es[i].req = es[j].req, es[i].party = es[j].party
                 PROVE  i = j
      BY Zenon
    <3>1. \A k \in DOMAIN es : k \in DOMAIN old \/ k = Len(old) + 1
      BY <1>7, SMTT(40)
    <3>2. \A k \in DOMAIN old : es[k] = old[k]
      BY Zenon, <1>7
    <3>3. CASE i \in DOMAIN old /\ j \in DOMAIN old
      BY Zenon, <2>3, <3>2, <3>3
    <3>4. CASE i \in DOMAIN old /\ j = Len(old) + 1
      BY Zenon, <1>6, <1>7, <2>2, <3>2, <3>4
    <3>5. CASE i = Len(old) + 1 /\ j \in DOMAIN old
      BY Zenon, <1>6, <1>7, <2>2, <3>2, <3>5
    <3>6. QED
      BY Zenon, <3>1, <3>3, <3>4, <3>5
  <2>5. \A i \in DOMAIN t.post.sigs : t.post.sigs[i].of = t.post.id
    BY Zenon DEF Sound, Coherent, OfAssembly
  <2>6. QED
    BY <1>1, <1>8, <1>9, <2>1, <2>4, <2>5, Zenon DEF OfAssembly
<1>12. Outstanding(m)
  BY <1>1, <1>5, <1>8, <1>9 DEF Outstanding, Sound, Coherent, NoConfirmation
<1>13. Accounts(m)
  <2>1. \A s \in Slots : m.pending[s] = 0 <=> EndorsedBy(m.post, s[1], s[2])
    <3> SUFFICES ASSUME NEW s \in Slots
                 PROVE  pd[s] = 0 <=> EndorsedBy(a, s[1], s[2])
      BY Zenon, <1>9
    <3>1. s = slot <=> s[1] = q.req /\ s[2] = q.party
      BY DEF Slots, slot
    <3>2. t.pending[s] = 0 <=> EndorsedBy(t.post, s[1], s[2])
      BY Zenon, <1>1 DEF Accounts
    <3>3. QED
      BY Zenon, <1>5, <1>10, <3>1, <3>2
  <2>2. ASSUME NEW r \in Requirements
        PROVE  {p \in PlanParties[r] : m.pending[<<r, p>>] = Failed} =
               {p \in PlanParties[r] : t.pending[<<r, p>>] = Failed}
    <3>1. ASSUME NEW p \in PlanParties[r]
          PROVE  m.pending[<<r, p>>] = Failed <=> t.pending[<<r, p>>] = Failed
      <4>1. <<r, p>> \in Slots
        BY Zenon, <2>2, <3>1, PlanFacts
      <4>2. pd[slot] # Failed /\ t.pending[slot] # Failed
        BY <1>3, <1>5 DEF Failed
      <4>3. QED
        BY Zenon, <1>5, <1>9, <4>1, <4>2
    <3>2. QED
      BY Zenon, <3>1
  <2>3. ASSUME NEW r \in Requirements
        PROVE  /\ m.failures[r] = Cardinality({p \in PlanParties[r] : m.pending[<<r, p>>] = Failed})
               /\ m.reverts[r] <= m.failures[r]
               /\ m.failures[r] <= Tolerance(r)
    <3>1. {p \in PlanParties[r] : m.pending[<<r, p>>] = Failed} =
          {p \in PlanParties[r] : t.pending[<<r, p>>] = Failed}
      BY Zenon, <2>2, <2>3
    <3>2. m.failures = t.failures /\ m.reverts = t.reverts
      BY Zenon, <1>9
    <3>3. QED
      BY Zenon, <1>1, <2>3, <3>1, <3>2 DEF Accounts
  <2>4. m.tolerances
    BY Zenon, <1>1, <1>9 DEF Accounts
  <2>5. QED
    BY Zenon, <2>1, <2>3, <2>4 DEF Accounts
<1>14. SignedNames(m) = SignNames
  BY <1>1, <1>8, <1>9, Zenon DEF SignedNames
<1>15. Retriable(m) /\ Retries(m)
  BY Zenon, <1>1, <1>9, RetriableFacts DEF Retriable
<1>16. m.post.id # 0 /\ m.post.id = t.post.id /\ m.preDispatch = NoConfirmation
  BY Zenon, <1>1, <1>8, <1>9
<1>17. ByState(m)
  BY Zenon, <1>9, <1>13, <1>14, <1>16 DEF ByState, Unassembled, Ended, Attested
<1>18. ASSUME NEW r \in Requirements
       PROVE  EndorsersOf(m, r) =
                IF r = q.req THEN EndorsersOf(t, r) \cup {q.party} ELSE EndorsersOf(t, r)
  <2>1. EndorsersOf(m, r) = {p \in Parties : EndorsedBy(a, r, p)}
    <3>1. \A i \in DOMAIN m.post.endorsements : m.post.endorsements[i].of = m.post.id
      BY Zenon, <1>11 DEF OfAssembly
    <3>2. QED
      BY Zenon, <1>9, <3>1 DEF EndorsersOf, EndorsedBy, Received
  <2>2. EndorsersOf(t, r) = {p \in Parties : EndorsedBy(t.post, r, p)}
    <3>1. \A i \in DOMAIN t.post.endorsements : t.post.endorsements[i].of = t.post.id
      BY Zenon DEF Sound, Coherent, OfAssembly
    <3>2. QED
      BY Zenon, <3>1 DEF EndorsersOf, EndorsedBy, Received
  <2>3. QED
    BY Zenon, <1>1, <1>10, <2>1, <2>2
<1>19. Sound(m)
  BY Zenon, <1>9, <1>11, <1>12, <1>15, <1>17 DEF Sound, Coherent
<1>20. QED
  BY Zenon, <1>9, <1>14, <1>15, <1>16, <1>18, <1>19 DEF m

\* A failure that is owed moves its party to those that failed; the
\* transaction stays sound while the failures are within the tolerance.
LEMMA RecordedFailure ==
  ASSUME NEW t, Sound(t), t.state = "Endorsement_Gathering", NEW q, Owed(t, q),
         NEW isRevert \in BOOLEAN
  PROVE  LET m == RecordEndorseFailure(t, q, isRevert)
         IN  /\ m \in Transactions /\ Coherent(m) /\ Retriable(m)
             /\ m.state = "Endorsement_Gathering" /\ m.ids = t.ids /\ m.post = t.post
             /\ m.stateTimer = t.stateTimer
             /\ ~FailureExceedsTolerance(m) => Sound(m)
<1> DEFINE m == RecordEndorseFailure(t, q, isRevert)
           slot == <<q.req, q.party>>
           pd == [t.pending EXCEPT ![slot] = Failed]
           fs == [t.failures EXCEPT ![q.req] = @ + 1]
           rs == [t.reverts EXCEPT ![q.req] = IF isRevert THEN @ + 1 ELSE @]
<1>1. /\ t \in Transactions
      /\ q.req \in Requirements /\ q.party \in Parties /\ q.party \in PlanParties[q.req]
      /\ t.post.id # 0 /\ ~EndorsedBy(t.post, q.req, q.party)
      /\ Accounts(t) /\ Retriable(t) /\ t.preDispatch = NoConfirmation
      /\ SignedNames(t) = SignNames
  BY Zenon, OwedFacts
<1>2. m = [t EXCEPT !.pending = pd, !.failures = fs, !.reverts = rs]
  BY Zenon, <1>1 DEF RecordEndorseFailure, Transactions
<1> HIDE DEF m
<1>3. slot \in Slots /\ t.pending[slot] > 0 /\ slot[1] = q.req /\ slot[2] = q.party
  BY Zenon DEF Owed
<1>4. /\ t.pending \in [Slots -> Nat \cup {Failed}]
      /\ t.failures \in [Requirements -> Nat] /\ t.reverts \in [Requirements -> Nat]
  BY Zenon, <1>1 DEF Transactions, Counts
<1> HIDE DEF slot
<1>5. /\ pd \in [Slots -> Nat \cup {Failed}] /\ pd[slot] = Failed
      /\ \A s \in Slots : s # slot => pd[s] = t.pending[s]
  BY Zenon, <1>3, <1>4
<1>6. /\ fs \in Counts /\ fs[q.req] = t.failures[q.req] + 1
      /\ \A r \in Requirements : r # q.req => fs[r] = t.failures[r]
  BY <1>1, <1>4 DEF Counts
<1>7. /\ rs \in Counts /\ rs[q.req] \in {t.reverts[q.req], t.reverts[q.req] + 1}
      /\ \A r \in Requirements : r # q.req => rs[r] = t.reverts[r]
  BY <1>1, <1>4 DEF Counts
<1> HIDE DEF pd, fs, rs
<1>8. /\ m \in Transactions
      /\ m.state = t.state /\ m.ids = t.ids /\ m.requestID = t.requestID
      /\ m.post = t.post /\ m.preDispatch = t.preDispatch
      /\ m.pending = pd /\ m.failures = fs /\ m.reverts = rs
      /\ m.assembleErrors = t.assembleErrors /\ m.signErrors = t.signErrors
      /\ m.revertCount = t.revertCount /\ m.stateTimer = t.stateTimer
      /\ m.tolerances = t.tolerances
  BY Zenon, <1>1, <1>2, <1>5, <1>6, <1>7 DEF Transactions
<1>9. Coherent(m)
  <2>1. OfAssembly(m)
    BY Zenon, <1>8, SameAssembly DEF Sound, Coherent
  <2>2. Outstanding(m)
    BY <1>1, <1>5, <1>8 DEF Outstanding, Sound, Coherent, NoConfirmation, Failed
  <2>3. QED
    BY Zenon, <2>1, <2>2 DEF Coherent
<1>10. Retriable(m) /\ Retries(m)
  BY Zenon, <1>1, <1>8, RetriableFacts DEF Retriable
<1>11. ASSUME ~FailureExceedsTolerance(m) PROVE Accounts(m)
  <2>1. \A s \in Slots : m.pending[s] = 0 <=> EndorsedBy(m.post, s[1], s[2])
    <3> SUFFICES ASSUME NEW s \in Slots
                 PROVE  pd[s] = 0 <=> EndorsedBy(t.post, s[1], s[2])
      BY Zenon, <1>8
    <3>1. t.pending[s] = 0 <=> EndorsedBy(t.post, s[1], s[2])
      BY Zenon, <1>1 DEF Accounts
    <3>2. QED
      BY <1>1, <1>3, <1>5, <3>1 DEF Failed
  <2>2. ASSUME NEW r \in Requirements
        PROVE  /\ m.failures[r] = Cardinality({p \in PlanParties[r] : m.pending[<<r, p>>] = Failed})
               /\ m.reverts[r] <= m.failures[r]
    <3> DEFINE F == {p \in PlanParties[r] : t.pending[<<r, p>>] = Failed}
               G == {p \in PlanParties[r] : m.pending[<<r, p>>] = Failed}
    <3>1. \A p \in PlanParties[r] : /\ <<r, p>> \in Slots
                                    /\ <<r, p>> = slot <=> r = q.req /\ p = q.party
      BY Zenon, <2>2, PlanFacts DEF slot
    <3>2. G = IF r = q.req THEN F \cup {q.party} ELSE F
      BY <1>1, <1>5, <1>8, <3>1
    <3>3. r = q.req => q.party \notin F
      BY <1>3, <3>1 DEF Failed
    <3>4. t.failures[r] = Cardinality(F) /\ t.reverts[r] <= t.failures[r]
      BY Zenon, <1>1, <2>2 DEF Accounts
    <3>5. IsFiniteSet(F)
      <4>1. IsFiniteSet(PlanParties[r]) /\ F \in SUBSET PlanParties[r]
        BY Zenon, <2>2, PlanFacts
      <4>2. QED
        BY Zenon, <4>1, FS_Subset
    <3> HIDE DEF F, G
    <3>6. m.failures[r] = Cardinality(G)
      <4>1. CASE r = q.req
        <5>1. Cardinality(F \cup {q.party}) = Cardinality(F) + 1
          BY Zenon, <3>3, <3>5, <4>1, FS_AddElement
        <5>2. G = F \cup {q.party} /\ m.failures[r] = t.failures[r] + 1
          BY Zenon, <1>6, <1>8, <3>2, <4>1
        <5>3. QED
          BY Zenon, <3>4, <5>1, <5>2
      <4>2. CASE r # q.req
        BY Zenon, <1>6, <1>8, <2>2, <3>2, <3>4, <4>2
      <4>3. QED
        BY Zenon, <4>1, <4>2
    <3>7. m.reverts[r] <= m.failures[r]
      BY <1>4, <1>6, <1>7, <1>8, <2>2, <3>4
    <3>8. QED
      BY Zenon, <3>6, <3>7 DEF G
  <2>3. m.tolerances
    BY Zenon, <1>1, <1>8 DEF Accounts
  <2>4. \A r \in Requirements : m.failures[r] <= Tolerance(r)
    <3> SUFFICES ASSUME NEW r \in Requirements PROVE m.failures[r] <= Tolerance(r)
      BY Zenon
    <3>1. ~(m.failures[r] > Tolerance(r))
      BY Zenon, <1>11, <2>3 DEF FailureExceedsTolerance
    <3>2. m.failures[r] \in Nat /\ Tolerance(r) \in Nat
      BY Zenon, <1>6, <1>8, PlanFacts DEF Counts
    <3>3. QED
      BY <3>1, <3>2
  <2>5. QED
    BY Zenon, <2>1, <2>2, <2>3, <2>4 DEF Accounts
<1>12. ASSUME ~FailureExceedsTolerance(m) PROVE Sound(m)
  <2>1. SignedNames(m) = SignNames /\ m.post.id # 0 /\ m.preDispatch = NoConfirmation
    BY Zenon, <1>1, <1>8, SamePost
  <2>2. ByState(m)
    BY Zenon, <1>8, <1>11, <1>12, <2>1 DEF ByState, Unassembled, Ended, Attested
  <2>3. QED
    BY Zenon, <1>8, <1>9, <1>10, <2>2 DEF Sound
<1>13. QED
  BY Zenon, <1>8, <1>9, <1>10, <1>12 DEF m

\* updateSigningIdentity changes the signer at most.
LEMMA UpdateSigner ==
  ASSUME NEW t \in Transactions
  PROVE  LET m == UpdateSigningIdentity(t)
         IN  /\ m \in Transactions /\ m.state = t.state /\ Kept(m, t)
             /\ m.stateTimer = t.stateTimer /\ m.prepareID = t.prepareID
             /\ m.tolerances = t.tolerances
<1> DEFINE M == MustSubmit(t)
           first == CHOOSE i \in M : \A j \in M : i <= j
           p == t.post.endorsements[first].party
           m == UpdateSigningIdentity(t)
<1>1. CASE t.signer # NoSigner \/ M = {}
  BY Zenon, <1>1 DEF UpdateSigningIdentity, Kept
<1>2. CASE ~(t.signer # NoSigner \/ M = {})
  <2>1. t.post.endorsements \in Seq(Endorsements)
    BY Zenon DEF Transactions, Assemblies
  <2>2. M \subseteq DOMAIN t.post.endorsements /\ M \subseteq Nat
    BY <2>1 DEF MustSubmit
  <2>3. \E i \in M : \A j \in M : i <= j
    <3>1. PICK k \in M : \A j \in M : <<j, k>> \notin OpToRel(<, Nat)
      BY Zenon, <1>2, <2>2, NatLessThanWellFounded, WFMin
    <3>2. \A j \in M : ~(j < k)
      BY Zenon, <2>2, <3>1 DEF OpToRel
    <3>3. \A j \in M : k <= j
      BY <2>2, <3>2
    <3>4. QED
      BY Zenon, <3>3
  <2>4. first \in M
    BY Zenon, <2>3
  <2> HIDE DEF first
  <2>5. p \in {NoSigner, CoordinatorKey} \cup Parties
    <3>1. first \in DOMAIN t.post.endorsements
      BY Zenon, <2>2, <2>4
    <3>2. t.post.endorsements[first] \in Endorsements
      BY <2>1, <3>1
    <3>3. QED
      BY Zenon, <3>2 DEF Endorsements
  <2>6. m = [t EXCEPT !.signer = p]
    BY Zenon, <1>2 DEF UpdateSigningIdentity, first
  <2> HIDE DEF m, p
  <2>7. /\ m \in Transactions /\ m.state = t.state /\ Kept(m, t)
        /\ m.stateTimer = t.stateTimer /\ m.prepareID = t.prepareID
        /\ m.tolerances = t.tolerances
    BY Zenon, <2>5, <2>6 DEF Transactions, Kept
  <2>8. QED
    BY Zenon, <2>7 DEF m
<1>3. QED
  BY Zenon, <1>1, <1>2

\* The answer to the pre-dispatch request clears it.
LEMMA CompletePreDispatchType ==
  ASSUME NEW t \in Transactions
  PROVE  LET m == CompletePreDispatchRequest(t)
         IN  /\ m \in Transactions
             /\ m.state = t.state /\ m.ids = t.ids /\ m.requestID = t.requestID
             /\ m.post = t.post /\ m.preDispatch = NoConfirmation
             /\ m.pending = t.pending /\ m.failures = t.failures /\ m.reverts = t.reverts
             /\ m.assembleErrors = t.assembleErrors /\ m.signErrors = t.signErrors
             /\ m.revertCount = t.revertCount
<1>1. NoConfirmation \in [id : Nat, of : Nat]
  BY Zenon DEF NoConfirmation
<1>2. QED
  BY Zenon, <1>1 DEF CompletePreDispatchRequest, ClearTimeouts, Transactions

\* clearTimeoutSchedules touches none of the fields that count.
LEMMA ClearTimeoutsType ==
  ASSUME NEW t \in Transactions
  PROVE  /\ ClearTimeouts(t) \in Transactions /\ ClearTimeouts(t).state = t.state
         /\ Kept(ClearTimeouts(t), t)
BY Zenon DEF ClearTimeouts, Transactions, Kept

\* A nudge of the endorsement requests changes none of them.
LEMMA NudgedEndorsements ==
  ASSUME NEW t, Sound(t), t.state = "Endorsement_Gathering"
  PROVE  LET m == SendEndorsementRequests(Nudge(t))
         IN  /\ Sound(m) /\ m.state = t.state /\ m.ids = t.ids /\ m.post = t.post
             /\ m.stateTimer = t.stateTimer
<1> DEFINE u == Nudge(t)
           m == SendEndorsementRequests(u)
<1>1. t \in Transactions /\ Accounts(t)
  BY Zenon DEF Sound, ByState
<1>2. /\ u \in Transactions /\ u.state = t.state /\ Kept(u, t)
      /\ u.stateTimer = t.stateTimer /\ u.tolerances = t.tolerances
  BY Zenon, <1>1 DEF Nudge, Transactions, Kept
<1> HIDE DEF u
<1>3. /\ m \in Transactions
      /\ m.state = u.state /\ m.ids = u.ids /\ m.requestID = u.requestID
      /\ m.post = u.post /\ m.preDispatch = u.preDispatch
      /\ m.failures = u.failures /\ m.reverts = u.reverts
      /\ m.assembleErrors = u.assembleErrors /\ m.signErrors = u.signErrors
      /\ m.revertCount = u.revertCount
      /\ m.stateTimer = u.stateTimer /\ m.tolerances = u.tolerances
  BY Zenon, <1>2, SendEndorsementsType
<1>4. \A s \in Slots : m.pending[s] = IF s \in Unfulfilled(u.post) /\ u.pending[s] = 0
                                      THEN u.ids ELSE u.pending[s]
  BY Zenon, <1>2, SendEndorsementsType
<1> HIDE DEF m
<1>5. u.pending = t.pending /\ u.post = t.post
  BY Zenon, <1>2 DEF Kept
<1>6. \A s \in Slots : m.pending[s] = t.pending[s]
  <2> SUFFICES ASSUME NEW s \in Slots PROVE m.pending[s] = t.pending[s]
    BY Zenon
  <2>1. t.pending[s] = 0 => EndorsedBy(t.post, s[1], s[2])
    BY Zenon, <1>1 DEF Accounts
  <2>2. ~(s \in Unfulfilled(t.post) /\ t.pending[s] = 0)
    BY Zenon, <2>1 DEF Unfulfilled
  <2>3. QED
    BY Zenon, <1>4, <1>5, <2>2
<1>7. m.pending = t.pending
  <2>1. m.pending \in [Slots -> Nat \cup {Failed}] /\ t.pending \in [Slots -> Nat \cup {Failed}]
    BY Zenon, <1>1, <1>3 DEF Transactions
  <2>2. QED
    BY <1>6, <2>1
<1>8. Kept(m, t)
  BY Zenon, <1>2, <1>3, <1>7 DEF Kept
<1>9. m.state = t.state /\ m.tolerances = t.tolerances /\ m.stateTimer = t.stateTimer
  BY Zenon, <1>2, <1>3
<1>10. Sound(m) /\ m.ids = t.ids /\ m.post = t.post
  BY Zenon, <1>3, <1>8, <1>9, SoundSame
<1>11. QED
  BY Zenon, <1>9, <1>10 DEF m, u

\* A transaction the selector picked from the pool is sound in State_Assembling.
LEMMA SelectedSound ==
  ASSUME NEW t, Sound(t), t.state = "Pooled"
  PROVE  LET m == MoveTo(t, "Assembling")
         IN  Sound(m) /\ m.state = "Assembling" /\ m.ids = t.ids + 1 /\ m.post = t.post
<1> DEFINE m == MoveTo(t, "Assembling")
<1>1. t \in Transactions /\ t.post = NoAssembly /\ Settled(t) /\ Retriable(t)
  BY Zenon DEF Sound, ByState, Retries, Unassembled, Ended, Settled, Retriable
<1>2. /\ m \in Transactions
      /\ m.state = "Assembling" /\ m.ids = t.ids + 1 /\ m.requestID = t.ids + 1
      /\ m.post = t.post /\ m.preDispatch = t.preDispatch
      /\ m.pending = t.pending /\ m.failures = t.failures /\ m.reverts = t.reverts
      /\ m.assembleErrors = t.assembleErrors /\ m.signErrors = t.signErrors
      /\ m.revertCount = t.revertCount
  BY Zenon, <1>1, EnterAssembling
<1> HIDE DEF m
<1>3. Settled(m) /\ Retriable(m) /\ m.post = NoAssembly
  BY Zenon, <1>1, <1>2 DEF Settled, Retriable
<1>4. Coherent(m) /\ Retries(m)
  BY Zenon, <1>2, <1>3, CoherentSettled, RetriableFacts
<1>5. ByState(m)
  BY <1>2, <1>3 DEF ByState, Settled, Unassembled, Ended, Attested, NoAssembly
<1>6. QED
  BY Zenon, <1>2, <1>4, <1>5 DEF Sound, m

\* An approved transaction is sound in State_Preparing.
LEMMA PreparingSound ==
  ASSUME NEW t, Sound(t), t.state = "Confirming_Dispatchable"
  PROVE  LET m == MoveTo(CompletePreDispatchRequest(t), "Preparing")
         IN  /\ Sound(m) /\ m.state = "Preparing" /\ m.ids = t.ids /\ m.post = t.post
             /\ m.prepareID = t.ids
<1> DEFINE u == CompletePreDispatchRequest(t)
           m == MoveTo(u, "Preparing")
<1>1. t \in Transactions /\ t.post.id # 0 /\ SignedNames(t) = SignNames
  BY Zenon DEF Sound, ByState, Attested
<1>2. \A r \in Requirements : Cardinality(EndorsersOf(t, r)) >= Threshold(r)
  BY Zenon DEF Sound, ByState, Attested
<1>3. t.pending = NoRequests /\ t.failures = NoCounts /\ t.reverts = NoCounts
  BY Zenon DEF Sound, ByState, Ended
<1>4. Retriable(t)
  BY Zenon DEF Sound, Retries, Ended, Retriable
<1>5. /\ u \in Transactions
      /\ u.ids = t.ids /\ u.requestID = t.requestID
      /\ u.post = t.post /\ u.preDispatch = NoConfirmation
      /\ u.pending = t.pending /\ u.failures = t.failures /\ u.reverts = t.reverts
      /\ u.assembleErrors = t.assembleErrors /\ u.signErrors = t.signErrors
      /\ u.revertCount = t.revertCount
  BY Zenon, <1>1, CompletePreDispatchType
<1> HIDE DEF u
<1>6. m \in Transactions /\ m.state = "Preparing" /\ Kept(m, u) /\ m.prepareID = u.ids
  BY Zenon, <1>5, EnterPreparing
<1> HIDE DEF m
<1>7. /\ m.ids = t.ids /\ m.requestID = t.requestID /\ m.post = t.post
      /\ m.prepareID = m.ids
  BY Zenon, <1>5, <1>6 DEF Kept
<1>8. Settled(m) /\ Retriable(m)
  BY Zenon, <1>3, <1>4, <1>5, <1>6 DEF Kept, Settled, Retriable
<1>9. Coherent(m) /\ Retries(m)
  <2>1. OfAssembly(m)
    BY Zenon, <1>7, SameAssembly DEF Sound, Coherent
  <2>2. Outstanding(m)
    BY <1>8 DEF Outstanding, Settled, NoRequests, NoConfirmation
  <2>3. QED
    BY Zenon, <1>6, <1>8, <2>1, <2>2, RetriableFacts DEF Coherent
<1>10. ByState(m)
  <2>1. /\ SignedNames(m) = SignNames /\ m.post.id # 0
        /\ \A r \in Requirements : Cardinality(EndorsersOf(m, r)) >= Threshold(r)
    BY Zenon, <1>1, <1>2, <1>7, SamePost
  <2>2. QED
    BY Zenon, <1>6, <1>7, <1>8, <2>1 DEF ByState, Settled, Unassembled, Ended, Attested
<1>11. QED
  BY Zenon, <1>6, <1>7, <1>9, <1>10 DEF Sound, m, u

\* A prepared transaction has given its assembly away.
LEMMA ReadySound ==
  ASSUME NEW t, Sound(t), t.state = "Preparing"
  PROVE  LET m == MoveTo([t EXCEPT !.post = NoAssembly], "Ready_For_Dispatch")
         IN  Sound(m) /\ m.state = "Ready_For_Dispatch" /\ m.ids = t.ids /\ m.post = NoAssembly
<1> DEFINE u == [t EXCEPT !.post = NoAssembly]
           m == MoveTo(u, "Ready_For_Dispatch")
<1>1. t \in Transactions /\ Settled(t) /\ Retriable(t) /\ t.requestID \in {0, t.ids}
  BY Zenon DEF Sound, Coherent, OfAssembly, ByState, Retries, Ended, Settled, Retriable
<1>2. NoAssembly \in Assemblies
  BY DEF NoAssembly, Assemblies
<1>3. /\ u \in Transactions /\ u.post = NoAssembly
      /\ u.ids = t.ids /\ u.requestID = t.requestID /\ u.preDispatch = t.preDispatch
      /\ u.pending = t.pending /\ u.failures = t.failures /\ u.reverts = t.reverts
      /\ u.assembleErrors = t.assembleErrors /\ u.signErrors = t.signErrors
      /\ u.revertCount = t.revertCount
  BY Zenon, <1>1, <1>2 DEF Transactions
<1> HIDE DEF u
<1>4. m \in Transactions /\ m.state = "Ready_For_Dispatch" /\ Kept(m, u)
  BY Zenon, <1>3, EnterResting DEF Resting
<1> HIDE DEF m
<1>5. /\ Settled(m) /\ Retriable(m) /\ m.post = NoAssembly /\ m.ids = t.ids
      /\ m.requestID \in {0, m.ids}
  BY Zenon, <1>1, <1>3, <1>4 DEF Kept, Settled, Retriable
<1>6. Coherent(m) /\ Retries(m)
  BY Zenon, <1>4, <1>5, CoherentSettled, RetriableFacts
<1>7. ByState(m)
  BY Zenon, <1>4, <1>5 DEF ByState, Settled, Unassembled, Ended, Attested
<1>8. QED
  BY Zenon, <1>4, <1>5, <1>6, <1>7 DEF Sound, m, u

\* A dispatched transaction, and a confirmed one, has no assembly either.
LEMMA DispatchedSound ==
  ASSUME NEW t, Sound(t), NEW s,
         \/ t.state = "Ready_For_Dispatch" /\ s = "Dispatched"
         \/ t.state = "Dispatched" /\ s = "Confirmed"
  PROVE  LET m == MoveTo(t, s)
         IN  Sound(m) /\ m.state = s /\ m.ids = t.ids /\ m.post = NoAssembly /\ t.post = NoAssembly
<1> DEFINE m == MoveTo(t, s)
<1>1. /\ t \in Transactions /\ Settled(t) /\ Retriable(t) /\ t.post = NoAssembly
      /\ t.requestID \in {0, t.ids}
  BY Zenon DEF Sound, Coherent, OfAssembly, ByState, Retries, Unassembled, Ended, Settled, Retriable
<1>2. m \in Transactions /\ m.state = s /\ Kept(m, t)
  BY Zenon, <1>1, EnterResting DEF Resting
<1> HIDE DEF m
<1>3. /\ Settled(m) /\ Retriable(m) /\ m.post = NoAssembly /\ m.ids = t.ids
      /\ m.requestID \in {0, m.ids}
  BY Zenon, <1>1, <1>2 DEF Kept, Settled, Retriable
<1>4. Coherent(m) /\ Retries(m)
  BY Zenon, <1>2, <1>3, CoherentSettled, RetriableFacts
<1>5. ByState(m)
  BY Zenon, <1>2, <1>3 DEF ByState, Settled, Unassembled, Ended, Attested
<1>6. QED
  BY Zenon, <1>1, <1>2, <1>3, <1>4, <1>5 DEF Sound, m

\* A new transaction is sound, with ids that go on from those used before.
LEMMA NewSound ==
  ASSUME NEW ids \in Nat
  PROVE  LET m == NewTransaction(ids)
         IN  /\ Sound(m) /\ m.state = "Initial" /\ m.ids = ids /\ m.post = NoAssembly
             /\ m.pending = NoRequests /\ m.preDispatch = NoConfirmation
<1> DEFINE m == NewTransaction(ids)
<1>1. /\ NoAssembly \in Assemblies /\ NoConfirmation \in [id : Nat, of : Nat]
      /\ NoRequests \in [Slots -> Nat \cup {Failed}] /\ NoCounts \in Counts
  BY DEF NoAssembly, NoConfirmation, Assemblies, NoRequests, NoCounts, Counts
<1>2. /\ m.state = "Initial" /\ m.ids = ids /\ m.requestID = 0 /\ m.post = NoAssembly
      /\ m.pending = NoRequests /\ m.failures = NoCounts /\ m.reverts = NoCounts
      /\ m.preDispatch = NoConfirmation
      /\ m.assembleErrors = 0 /\ m.signErrors = 0 /\ m.revertCount = 0
  BY Zenon DEF NewTransaction
<1>3. m \in Transactions
  BY Zenon, <1>1 DEF NewTransaction, Transactions, TxnStates
<1> HIDE DEF m
<1>4. Settled(m) /\ Retriable(m)
  BY <1>2, RetryAssumption DEF Settled, Retriable
<1>5. Coherent(m) /\ Retries(m)
  BY Zenon, <1>2, <1>3, <1>4, CoherentSettled, RetriableFacts
<1>6. ByState(m)
  BY Zenon, <1>2 DEF ByState, Unassembled, Ended, Attested
<1>7. QED
  BY Zenon, <1>2, <1>3, <1>5, <1>6 DEF Sound, m
-----------------------------------------------------------------------------
\* A step to a sound transaction with the same or a later assembly preserves
\* the invariant when it does the queues, the prepares and the timers no harm:
\* the requests that Become sends are of the assembly at hand.
LEMMA Step ==
  ASSUME IInv, NEW t, Sound(t), txn.ids <= t.ids, Become(t),
         Running', Queues', Approved(txn)', Timed(txn)'
  PROVE  IInv'
<1>1. txn' = t /\ t \in Transactions /\ txn \in Transactions
  BY Zenon DEF IInv, Sound, Become
<1>2. t.ids \in Nat /\ txn.ids \in Nat /\ t.pending \in [Slots -> Nat \cup {Failed}]
  BY Zenon, <1>1 DEF Transactions
<1>3. Sound(txn)'
  BY Zenon, <1>1
<1>4. t.post.id \in {0, t.ids} /\ t.preDispatch \in [id : Nat, of : Nat] /\ t.post.id \in Nat
  BY Zenon, <1>1 DEF Sound, Coherent, OfAssembly, Transactions, Assemblies
<1>5. ASSUME NEW q \in requested'
      PROVE  <<q.req, q.party>> \in Slots /\ q.id \in 1..t.ids /\ q.of = q.id
  <2>1. CASE q \in requested
    BY <1>2, <2>1 DEF IInv, Sent
  <2>2. ASSUME NEW s \in Slots, t.pending[s] > 0,
               q = [req |-> s[1], party |-> s[2], id |-> t.pending[s], of |-> t.post.id]
        PROVE  <<q.req, q.party>> \in Slots /\ q.id \in 1..t.ids /\ q.of = q.id
    <3>1. t.pending[s] = t.post.id /\ s = <<s[1], s[2]>>
      BY <2>2 DEF Sound, Coherent, Outstanding, Slots
    <3>2. t.pending[s] \in 1..t.ids
      BY <1>2, <1>4, <2>2, <3>1
    <3>3. QED
      BY Zenon, <2>2, <3>1, <3>2
  <2>3. QED
    BY Zenon, <1>5, <2>1, <2>2 DEF Become
<1>6. ASSUME NEW q \in confirmations'
      PROVE  q.id \in 1..t.ids /\ q.of = q.id
  <2>1. CASE q \in confirmations
    BY <1>2, <2>1 DEF IInv, Sent
  <2>2. CASE t.preDispatch.id # 0 /\ q = t.preDispatch
    BY <1>2, <1>4, <2>2 DEF Sound, Coherent, Outstanding
  <2>3. QED
    BY Zenon, <1>6, <2>1, <2>2 DEF Become
<1>7. Sent'
  BY Zenon, <1>1, <1>5, <1>6 DEF Sent
<1>8. QED
  BY Zenon, <1>3, <1>7 DEF IInv

\* No prepare was started and the assembly at hand is not an older one.
LEMMA RunningOn ==
  ASSUME IInv, NEW t \in Transactions, txn.ids <= t.ids, txn' = t, preparing' \subseteq preparing
  PROVE  Running'
<1>1. txn.ids \in Nat /\ t.ids \in Nat
  BY Zenon DEF IInv, Sound, Transactions
<1>2. \A g \in preparing : /\ g \in [id : Nat, reads : Seq(Nat)] /\ g.id \in 1..txn.ids
                           /\ g.id = txn.ids =>
                                 \A i \in DOMAIN g.reads : g.reads[i] \in {0, txn.ids}
  BY Zenon DEF IInv, Running
<1>3. \A g \in preparing' : /\ g \in [id : Nat, reads : Seq(Nat)] /\ g.id \in 1..t.ids
                            /\ g.id = t.ids =>
                                  \A i \in DOMAIN g.reads : g.reads[i] \in {0, t.ids}
  <2> SUFFICES ASSUME NEW g \in preparing'
               PROVE  /\ g \in [id : Nat, reads : Seq(Nat)] /\ g.id \in 1..t.ids
                      /\ g.id = t.ids =>
                            \A i \in DOMAIN g.reads : g.reads[i] \in {0, t.ids}
    BY Zenon
  <2>1. g \in preparing /\ g \in [id : Nat, reads : Seq(Nat)] /\ g.id \in 1..txn.ids
    BY Zenon, <1>2
  <2>2. g.id = t.ids => t.ids = txn.ids
    BY <1>1, <2>1
  <2>3. QED
    BY <1>1, <1>2, <2>1, <2>2, SMTT(40)
<1>4. QED
  BY Zenon, <1>3 DEF Running

-----------------------------------------------------------------------------
\* The step is one of the abstract specification, or none.
Simulated == Abstract!ANext \/ UNCHANGED Abstract!avars
Phased == {"Preparing", "Ready_For_Dispatch", "Dispatched", "Confirmed"}

\* The abstract phase and assembly of a transaction that nobody approved ...
LEMMA Bars ==
  /\ txn.state \notin Phased => phaseBar = "open"
  /\ txn.state \notin Phased \ {"Preparing"} => assemblyBar = txn.post.id
BY Zenon DEF phaseBar, assemblyBar, Phased

\* ... and of its next state.
LEMMA NextBars ==
  /\ txn'.state \notin Phased => phaseBar' = "open"
  /\ txn'.state \notin Phased \ {"Preparing"} => assemblyBar' = txn'.post.id
BY Zenon DEF phaseBar, assemblyBar, Phased

\* No endorsements: no endorsers.
LEMMA NobodyAttested ==
  ASSUME NEW t, t.post.endorsements = <<>>
  PROVE  [r \in Requirements |-> EndorsersOf(t, r)] = [r \in Requirements |-> {}]
<1>1. \A r \in Requirements : EndorsersOf(t, r) = {}
  BY DEF EndorsersOf
<1>2. QED
  BY Zenon, <1>1

\* No assembly: no attestations.
LEMMA NothingAttested ==
  ASSUME NEW t, t.post = NoAssembly
  PROVE  /\ t.post.id = 0 /\ SignedNames(t) = {}
         /\ [r \in Requirements |-> EndorsersOf(t, r)] = [r \in Requirements |-> {}]
<1>1. t.post.id = 0 /\ t.post.sigs = <<>> /\ t.post.endorsements = <<>>
  BY DEF NoAssembly
<1>2. SignedNames(t) = {}
  BY <1>1 DEF SignedNames
<1>3. QED
  BY Zenon, <1>1, <1>2, NobodyAttested

\* Leaving the approved phases with the same assembly, or with none, is the
\* abstract GiveUp.
LEMMA GivesUp ==
  ASSUME Sound(txn), txn'.state \notin Phased, txn'.post \in {txn.post, NoAssembly}
  PROVE  Simulated
<1>1. phaseBar' = "open" /\ assemblyBar' = txn'.post.id
  BY Zenon, NextBars DEF Phased
<1>2. CASE txn'.post = NoAssembly
  <2>1. /\ txn'.post.id = 0 /\ SignedNames(txn') = {}
        /\ [r \in Requirements |-> EndorsersOf(txn', r)] = [r \in Requirements |-> {}]
    BY Zenon, <1>2, NothingAttested
  <2>2. Abstract!GiveUp
    BY Zenon, <1>1, <2>1 DEF Abstract!GiveUp, Abstract!Nobody
  <2>3. QED
    BY Zenon, <2>2 DEF Simulated, Abstract!ANext
<1>3. CASE txn'.post = txn.post /\ txn.state \in Phased \ {"Preparing"}
  BY Zenon, <1>2, <1>3 DEF Sound, ByState, Phased, Unassembled
<1>4. CASE txn'.post = txn.post /\ txn.state \notin Phased \ {"Preparing"}
  <2>1. assemblyBar' = assemblyBar
    BY Zenon, <1>1, <1>4, Bars
  <2>2. /\ SignedNames(txn') = SignedNames(txn)
        /\ \A r \in Requirements : EndorsersOf(txn', r) = EndorsersOf(txn, r)
    BY Zenon, <1>4, SamePost
  <2>3. [r \in Requirements |-> EndorsersOf(txn', r)] = [r \in Requirements |-> EndorsersOf(txn, r)]
    BY Zenon, <2>2
  <2>4. Abstract!GiveUp
    BY Zenon, <1>1, <2>1, <2>2, <2>3 DEF Abstract!GiveUp
  <2>5. QED
    BY Zenon, <2>4 DEF Simulated, Abstract!ANext
<1>5. QED
  BY Zenon, <1>2, <1>3, <1>4

\* A step that keeps state, assembly and dispatch is a stutter of the abstract
\* specification.
LEMMA Stays ==
  ASSUME txn'.state = txn.state, txn'.post = txn.post, approved' = approved, prepared' = prepared
  PROVE  Simulated
<1>1. /\ SignedNames(txn') = SignedNames(txn)
      /\ \A r \in Requirements : EndorsersOf(txn', r) = EndorsersOf(txn, r)
  BY Zenon, SamePost
<1>2. [r \in Requirements |-> EndorsersOf(txn', r)] = [r \in Requirements |-> EndorsersOf(txn, r)]
  BY Zenon, <1>1
<1>3. phaseBar' = phaseBar
  BY Zenon DEF phaseBar
<1>4. assemblyBar' = assemblyBar
  BY Zenon, <1>3 DEF assemblyBar
<1>5. QED
  BY Zenon, <1>1, <1>2, <1>3, <1>4 DEF Simulated, Abstract!avars
-----------------------------------------------------------------------------
\* What an event that starts no prepare may do to the rest.
Calm ==
    /\ timeouts' \in [state : Nat, request : Nat]
    /\ revertQueued' \subseteq 1..txn.ids
    /\ preparing' \subseteq preparing
    /\ prepared' \in Seq(Nat)
    /\ delegations' \in 0..MaxDelegations
    /\ approved' \in Nat

\* An event that leaves the environment alone is calm.
LEMMA UnchangedIsCalm ==
  ASSUME IInv, UNCHANGED environment
  PROVE  Calm
BY Zenon DEF IInv, Queues, Calm, environment

\* A calm event preserves the invariant if the transaction it leads to is sound.
LEMMA CalmStep ==
  ASSUME IInv, NEW t, Sound(t), txn.ids <= t.ids, Become(t), Calm,
         Approved(txn)', Timed(txn)'
  PROVE  IInv'
<1>1. txn' = t /\ t \in Transactions /\ t.ids \in Nat /\ txn.ids \in Nat
  BY Zenon DEF IInv, Sound, Become, Transactions
<1>2. Running'
  BY Zenon, <1>1, RunningOn DEF Calm
<1>3. Queues'
  BY <1>1, SMTT(40) DEF Queues, Calm
<1>4. QED
  BY Zenon, <1>2, <1>3, Step

\* What is known of a transaction that has not ended.
LEMMA LiveFacts ==
  ASSUME NEW t, Sound(t), t.state \notin Ended
  PROVE  /\ t \in Transactions /\ Coherent(t) /\ Retriable(t)
         /\ t.requestID \in {0, t.ids} /\ t.ids \in Nat
BY Zenon DEF Sound, Coherent, OfAssembly, Retries, Ended, Retriable, Transactions

\* Back to the pool.
LEMMA ToPool ==
  ASSUME IInv, NEW t \in Transactions, t.requestID \in {0, t.ids}, Retriable(t), t.ids = txn.ids,
         NEW s \in {"PreAssembly_Blocked", "Pooled"}, Become(MoveTo(t, s)), Calm
  PROVE  IInv' /\ Simulated
<1> DEFINE m == MoveTo(t, s)
<1>1. Sound(m) /\ m.ids = t.ids /\ m.state = s /\ t.ids \in Nat
  BY Zenon, PoolSound DEF Transactions
<1>2. txn' = m
  BY Zenon DEF Become
<1>3. Become(m)
  BY Zenon
<1> HIDE DEF m
<1>4. m.post = NoAssembly
  BY Zenon, <1>1 DEF Sound, ByState, Unassembled
<1>5. Approved(txn)' /\ Timed(txn)'
  BY <1>1, <1>2 DEF Approved, Timed, TimedStates
<1>6. IInv'
  BY <1>1, <1>3, <1>5, CalmStep
<1>7. Simulated
  BY Zenon, <1>1, <1>2, <1>4, GivesUp DEF IInv, Phased
<1>8. QED
  BY Zenon, <1>6, <1>7

\* To the end.
LEMMA ToEnd ==
  ASSUME IInv, NEW t \in Transactions, Coherent(t), t.ids = txn.ids, NEW s \in Ended,
         t.revertCount <= RevertRetryThreshold + 1,
         t.assembleErrors <= AssembleErrorRetryThreshold + 1,
         t.signErrors <= SignErrorRetryThreshold + 1,
         s # "Evicted" => /\ t.assembleErrors <= AssembleErrorRetryThreshold
                          /\ t.signErrors <= SignErrorRetryThreshold,
         Become(MoveTo(t, s)), Calm
  PROVE  /\ IInv' /\ txn'.post = t.post /\ txn'.state = s
         /\ t.post = txn.post => Simulated
<1> DEFINE m == MoveTo(t, s)
<1>1. Sound(m) /\ m.ids = t.ids /\ m.post = t.post /\ m.state = s /\ t.ids \in Nat
  BY Zenon, EndSound DEF Transactions
<1>2. txn' = m
  BY Zenon DEF Become
<1>3. Become(m)
  BY Zenon
<1> HIDE DEF m
<1>4. Approved(txn)' /\ Timed(txn)'
  BY Zenon, <1>1, <1>2 DEF Approved, Timed, TimedStates, Ended
<1>5. IInv'
  BY <1>1, <1>3, <1>4, CalmStep
<1>6. t.post = txn.post => Simulated
  BY Zenon, <1>1, <1>2, GivesUp DEF IInv, Phased, Ended
<1>7. QED
  BY Zenon, <1>1, <1>2, <1>5, <1>6

\* To the end, with retries left.
LEMMA LiveToEnd ==
  ASSUME IInv, NEW t \in Transactions, Coherent(t), Retriable(t), t.ids = txn.ids,
         NEW s \in Ended, Become(MoveTo(t, s)), Calm
  PROVE  /\ IInv' /\ txn'.post = t.post /\ txn'.state = s
         /\ t.post = txn.post => Simulated
<1>1. /\ t.revertCount <= RevertRetryThreshold + 1
      /\ t.assembleErrors <= AssembleErrorRetryThreshold + 1
      /\ t.signErrors <= SignErrorRetryThreshold + 1
      /\ t.assembleErrors <= AssembleErrorRetryThreshold
      /\ t.signErrors <= SignErrorRetryThreshold
  BY RetryAssumption DEF Retriable, Transactions
<1>2. QED
  BY Zenon, <1>1, ToEnd

\* The event changes nothing that counts.
LEMMA ToSame ==
  ASSUME IInv, NEW m, Sound(m), m.state = txn.state, m.ids = txn.ids, m.post = txn.post,
         Become(m), Calm, approved' = approved, prepared' = prepared,
         \/ m.stateTimer = txn.stateTimer /\ timeouts'.state = timeouts.state
         \/ timeouts'.state > 0
         \/ m.state \notin TimedStates \ {"Assembling"}
  PROVE  IInv' /\ Simulated
<1>1. txn' = m /\ m.ids \in Nat
  BY Zenon DEF Become, Sound, Transactions
<1>2. Approved(txn)'
  BY Zenon, <1>1 DEF IInv, Approved
<1>3. Timed(txn)'
  BY Zenon, <1>1 DEF IInv, Timed
<1>4. QED
  BY <1>1, <1>2, <1>3, CalmStep, Stays, SMTT(40)

\* From an assembly to the state it goes to.
LEMMA ToOnward ==
  ASSUME IInv, NEW t, NEW m, Onward(m, t), t.ids = txn.ids, Become(m), UNCHANGED environment
  PROVE  IInv' /\ txn'.state \notin Phased /\ txn'.post = t.post
<1>1. txn' = m /\ m.ids = txn.ids /\ m.ids \in Nat /\ Sound(m)
  BY Zenon DEF Become, Onward, Sound, Transactions
<1>2. Approved(txn)' /\ Timed(txn)'
  BY Zenon, <1>1 DEF Approved, Timed, Onward, TimedStates
<1>3. IInv'
  BY <1>1, <1>2, CalmStep, UnchangedIsCalm
<1>4. QED
  BY Zenon, <1>1, <1>3 DEF Onward, Phased, TimedStates

-----------------------------------------------------------------------------
(* The events.                                                               *)

\* Event_Delegated: a new transaction ends at once or joins the pool.
LEMMA DelegatedStep == IInv /\ Delegated => IInv' /\ Simulated
<1> SUFFICES ASSUME IInv, Delegated PROVE IInv' /\ Simulated
  BY Zenon
<1>1. PICK s \in {"Reverted", "Evicted", "PreAssembly_Blocked", "Pooled"} : Become(MoveTo(txn, s))
  BY Zenon DEF Delegated
<1>2. /\ txn \in Transactions /\ Coherent(txn) /\ Retriable(txn)
      /\ txn.requestID \in {0, txn.ids}
  BY Zenon, LiveFacts DEF IInv, Delegated, Ended
<1>3. Calm
  BY RetryAssumption DEF IInv, Queues, Calm, Delegated
<1>4. CASE s \in {"PreAssembly_Blocked", "Pooled"}
  BY Zenon, <1>1, <1>2, <1>3, <1>4, ToPool
<1>5. CASE s \in {"Reverted", "Evicted"}
  BY Zenon, <1>1, <1>2, <1>3, <1>5, LiveToEnd DEF Ended
<1>6. QED
  BY Zenon, <1>4, <1>5

\* A delegation of a transaction that has ended begins a new one, whose ids
\* are none of the ids used before.
LEMMA RedelegatedStep == IInv /\ Redelegated => IInv' /\ Simulated
<1> SUFFICES ASSUME IInv, Redelegated PROVE IInv' /\ Simulated
  BY Zenon
<1> DEFINE m == NewTransaction(txn.ids)
<1>1. txn.ids \in Nat
  BY Zenon DEF IInv, Sound, Transactions
<1>2. Sound(m) /\ m.state = "Initial" /\ m.ids = txn.ids /\ m.post = NoAssembly
  BY Zenon, <1>1, NewSound
<1>3. Become(m) /\ txn' = m
  BY Zenon DEF Redelegated, Become
<1> HIDE DEF m
<1>4. timeouts' \in [state : Nat, request : Nat]
  <2>1. timeouts \in [state : Nat, request : Nat]
    BY Zenon DEF IInv, Queues
  <2> DEFINE a == IF txn.stateTimer THEN timeouts.state + 1 ELSE timeouts.state
             b == IF txn.requestTimer = "armed" THEN timeouts.request + 1 ELSE timeouts.request
  <2>2. a \in Nat /\ b \in Nat
    BY <2>1
  <2>3. timeouts' = [timeouts EXCEPT !.state = a, !.request = b]
    BY Zenon DEF Redelegated
  <2> HIDE DEF a, b
  <2>4. QED
    BY Zenon, <2>1, <2>2, <2>3
<1>5. Calm
  BY Zenon, <1>4 DEF IInv, Queues, Calm, Redelegated
<1>6. Approved(txn)' /\ Timed(txn)'
  BY Zenon, <1>2, <1>3 DEF Approved, Timed, TimedStates
<1>7. IInv'
  BY <1>1, <1>2, <1>3, <1>5, <1>6, CalmStep
<1>8. Simulated
  BY Zenon, <1>2, <1>3, GivesUp DEF IInv, Phased
<1>9. QED
  BY Zenon, <1>7, <1>8

\* Event_Selected: the next assembly is requested under a new id.
LEMMA SelectedStep == IInv /\ Selected => IInv' /\ Simulated
<1> SUFFICES ASSUME IInv, Selected PROVE IInv' /\ Simulated
  BY Zenon
<1> DEFINE m == MoveTo(txn, "Assembling")
<1>1. Sound(m) /\ m.state = "Assembling" /\ m.ids = txn.ids + 1 /\ m.post = txn.post
  BY Zenon, SelectedSound DEF IInv, Selected
<1>2. Become(m) /\ txn' = m
  BY Zenon DEF Selected, Become
<1> HIDE DEF m
<1>3. txn.ids \in Nat
  BY Zenon DEF IInv, Sound, Transactions
<1>4. Approved(txn)' /\ Timed(txn)'
  BY Zenon, <1>1, <1>2 DEF Approved, Timed, TimedStates
<1>5. Calm
  BY Zenon, UnchangedIsCalm DEF Selected
<1>6. IInv'
  BY <1>1, <1>2, <1>3, <1>4, <1>5, CalmStep
<1>7. Simulated
  BY Zenon, <1>1, <1>2, GivesUp DEF IInv, Phased
<1>8. QED
  BY Zenon, <1>6, <1>7

\* The events that send the transaction back to the pool or to its end as it is.
LEMMA ResetStep ==
  ASSUME IInv, \/ DependencyAssembled \/ AssembleCancelled
               \/ \E chained \in BOOLEAN : DependencyReset(chained)
  PROVE  IInv' /\ Simulated
<1>1. /\ txn \in Transactions /\ Coherent(txn) /\ Retriable(txn)
      /\ txn.requestID \in {0, txn.ids}
  BY Zenon, LiveFacts DEF IInv, DependencyAssembled, AssembleCancelled, DependencyReset, Ended
<1>2. Calm
  BY Zenon, UnchangedIsCalm DEF DependencyAssembled, AssembleCancelled, DependencyReset
<1>3. PICK s \in {"PreAssembly_Blocked", "Pooled"} : Become(MoveTo(txn, s))
  BY Zenon DEF DependencyAssembled, AssembleCancelled, DependencyReset
<1>4. QED
  BY Zenon, <1>1, <1>2, <1>3, ToPool

\* Event_ChainedDependencyFailed and Event_ChainedDependencyEvicted end it.
LEMMA ChainedDependencyStep ==
  ASSUME IInv, ChainedDependencyFailed \/ ChainedDependencyEvicted
  PROVE  IInv' /\ Simulated
<1>1. /\ txn \in Transactions /\ Coherent(txn) /\ Retriable(txn)
      /\ txn.requestID \in {0, txn.ids}
  BY Zenon, LiveFacts DEF IInv, ChainedDependencyFailed, ChainedDependencyEvicted, Ended
<1>2. Calm
  BY Zenon, UnchangedIsCalm DEF ChainedDependencyFailed, ChainedDependencyEvicted
<1>3. PICK s \in Ended : Become(MoveTo(txn, s))
  BY Zenon DEF ChainedDependencyFailed, ChainedDependencyEvicted, Ended
<1>4. QED
  BY Zenon, <1>1, <1>2, <1>3, LiveToEnd
-----------------------------------------------------------------------------
\* An assembly takes the place of the one before.
LEMMA Assembles ==
  ASSUME txn.state = "Assembling", txn'.state \notin Phased,
         NEW id \in Nat, id # 0, txn'.post.id = id, txn'.post.endorsements = <<>>
  PROVE  Simulated
<1>1. phaseBar = "open" /\ phaseBar' = "open" /\ assemblyBar' = id
  BY Zenon, Bars, NextBars DEF Phased
<1>2. [r \in Requirements |-> EndorsersOf(txn', r)] = [r \in Requirements |-> {}]
  BY Zenon, NobodyAttested
<1>3. SignedNames(txn') \in SUBSET SignNames
  BY Zenon DEF SignedNames
<1>4. Abstract!Assemble
  BY Zenon, <1>1, <1>2, <1>3 DEF Abstract!Assemble, Abstract!Nobody
<1>5. QED
  BY Zenon, <1>4 DEF Simulated, Abstract!ANext

\* The signatures an assemble response carries are of its own assembly.
LEMMA SignaturesFacts ==
  ASSUME NEW id \in Nat, NEW sigs \in SignaturesOf(id)
  PROVE  sigs \in Seq(Signatures) /\ \A i \in DOMAIN sigs : sigs[i].of = id
<1>1. PICK n \in 0..Cardinality(SignNames) : sigs \in [1..n -> [name : SignNames, of : {id}]]
  BY Zenon DEF SignaturesOf
<1>2. n \in Nat
  BY <1>1
<1>3. sigs \in [1..n -> Signatures]
  BY Zenon, <1>1 DEF Signatures
<1>4. QED
  BY <1>1, <1>2, <1>3

\* Event_AssembleSuccess, and the signatures that come with it: late responses
\* are dropped, and one that cannot be applied may queue a revert.
LEMMA ReceiveAssemblyStep ==
  ASSUME IInv, NEW id \in 1..txn.ids, NEW sigs \in SignaturesOf(id), ReceiveAssembly(id, sigs)
  PROVE  IInv' /\ Simulated
<1> DEFINE t == ApplyPostAssembly(txn, id, sigs)
<1>1. Sound(txn) /\ txn.ids \in Nat /\ id \in Nat /\ id # 0
  BY DEF IInv, Sound, Transactions
<1>2. sigs \in Seq(Signatures) /\ \A i \in DOMAIN sigs : sigs[i].of = id
  BY Zenon, <1>1, SignaturesFacts
<1>3. txn.state = "Assembling" /\ id = txn.requestID
  BY Zenon DEF ReceiveAssembly, MatchesPendingAssembleRequest
<1>4. /\ Sound(t) /\ Settled(t) /\ Retriable(t)
      /\ t.state = "Assembling" /\ t.ids = txn.ids
      /\ t.post = [id |-> id, sigs |-> sigs, endorsements |-> <<>>]
  BY <1>1, <1>2, <1>3, AppliedAssembly
<1>5. \/ (\E notReady \in BOOLEAN : Become(Assembled(t, notReady))) /\ UNCHANGED environment
      \/ ApplyFails(t, id)
  BY Zenon DEF ReceiveAssembly
<1> HIDE DEF t
<1>6. t \in Transactions /\ Coherent(t) /\ t.post.id = id /\ t.post.endorsements = <<>>
  BY <1>4 DEF Sound
<1>7. CASE (\E notReady \in BOOLEAN : Become(Assembled(t, notReady))) /\ UNCHANGED environment
  <2>1. PICK notReady \in BOOLEAN : Become(Assembled(t, notReady))
    BY Zenon, <1>7
  <2>2. Onward(Assembled(t, notReady), t)
    BY Zenon, <1>1, <1>4, <1>6, AssembledSound
  <2>3. IInv' /\ txn'.state \notin Phased /\ txn'.post = t.post
    BY Zenon, <1>4, <1>7, <2>1, <2>2, ToOnward
  <2>4. QED
    BY Zenon, <1>1, <1>3, <1>6, <2>3, Assembles
<1>8. CASE ApplyFails(t, id)
  <2>1. Become(t) /\ txn' = t
    BY Zenon, <1>8 DEF ApplyFails, Become
  <2>2. Calm
    BY Zenon, <1>8 DEF ApplyFails, IInv, Queues, Calm
  <2>3. Approved(txn)' /\ Timed(txn)'
    BY <1>4, <2>1 DEF Approved, Timed, TimedStates
  <2>4. IInv'
    BY <1>1, <1>4, <2>1, <2>2, <2>3, CalmStep
  <2>5. Simulated
    BY Zenon, <1>1, <1>3, <1>4, <1>6, <2>1, Assembles DEF Phased
  <2>6. QED
    BY Zenon, <2>4, <2>5
<1>9. QED
  BY Zenon, <1>5, <1>7, <1>8

\* A revert that answers the pending request ends the transaction.
LEMMA RevertedAssembly ==
  ASSUME IInv, NEW id \in 1..txn.ids, txn.state = "Assembling", MatchesPendingAssembleRequest(id),
         Become(MoveTo(ApplyPostAssembly(txn, id, <<>>), "Reverted")), Calm
  PROVE  IInv' /\ Simulated
<1> DEFINE t == ApplyPostAssembly(txn, id, <<>>)
<1>1. Sound(txn) /\ txn.ids \in Nat /\ id \in Nat /\ id # 0 /\ id = txn.requestID
  BY Zenon DEF IInv, Sound, Transactions, MatchesPendingAssembleRequest
<1>2. /\ Sound(t) /\ Retriable(t) /\ t.ids = txn.ids
      /\ t.post = [id |-> id, sigs |-> <<>>, endorsements |-> <<>>]
  <2>1. <<>> \in Seq(Signatures) /\ \A i \in DOMAIN <<>> : <<>>[i].of = id
    OBVIOUS
  <2>2. QED
    BY <1>1, <2>1, AppliedAssembly, Zenon
<1> HIDE DEF t
<1>3. t \in Transactions /\ Coherent(t) /\ t.post.id = id /\ t.post.endorsements = <<>>
  BY <1>2 DEF Sound
<1>4. IInv' /\ txn'.post = t.post /\ txn'.state = "Reverted"
  BY Zenon, <1>2, <1>3, LiveToEnd DEF Ended, t
<1>5. QED
  BY Zenon, <1>1, <1>3, <1>4, Assembles DEF Phased

\* Event_AssembleRevert from the originator ...
LEMMA AssembleRevertStep ==
  ASSUME IInv, NEW id \in 1..txn.ids, AssembleRevert(id)
  PROVE  IInv' /\ Simulated
BY Zenon, RevertedAssembly, UnchangedIsCalm DEF AssembleRevert

\* ... and the one that the coordinator queued for itself.
LEMMA QueuedRevertStep ==
  ASSUME IInv, NEW id \in revertQueued, QueuedRevert(id)
  PROVE  IInv' /\ Simulated
<1>1. id \in 1..txn.ids /\ Sound(txn)
  BY Zenon DEF IInv, Queues
<1>2. Calm
  BY Zenon DEF QueuedRevert, IInv, Queues, Calm
<1>3. CASE txn.state = "Assembling" /\ MatchesPendingAssembleRequest(id)
  BY Zenon, <1>1, <1>2, <1>3, RevertedAssembly DEF QueuedRevert
<1>4. CASE ~(txn.state = "Assembling" /\ MatchesPendingAssembleRequest(id))
  <2>1. Become(txn) /\ UNCHANGED <<timeouts, prepared, approved>>
    BY Zenon, <1>4 DEF QueuedRevert
  <2>2. QED
    BY <1>1, <1>2, <2>1, ToSame
<1>5. QED
  BY Zenon, <1>3, <1>4

\* Errors of the assembler and of the signer are retried up to their limits.
LEMMA AssemblyErrorStep ==
  ASSUME IInv, NEW id, SignError(id) \/ AssembleError(id)
  PROVE  IInv' /\ Simulated
<1>1. /\ txn \in Transactions /\ Coherent(txn) /\ Retriable(txn)
      /\ txn.requestID \in {0, txn.ids}
  BY Zenon, LiveFacts DEF IInv, SignError, AssembleError, Ended
<1>2. Calm
  BY Zenon, UnchangedIsCalm DEF SignError, AssembleError
<1>3. /\ txn.signErrors \in Nat /\ txn.assembleErrors \in Nat /\ txn.revertCount \in Nat
  BY Zenon, <1>1 DEF Transactions
<1>4. CASE SignError(id)
  <2> DEFINE n == txn.signErrors + 1
             t == [txn EXCEPT !.signErrors = n]
  <2>1. n \in Nat /\ n <= SignErrorRetryThreshold + 1
    BY <1>1, <1>3, RetryAssumption DEF Retriable
  <2>2. Become(MoveTo(t, IF n <= SignErrorRetryThreshold THEN "Pooled" ELSE "Evicted"))
    BY Zenon, <1>1, <1>4 DEF SignError, Transactions
  <2> HIDE DEF n
  <2>3. /\ t \in Transactions /\ t.signErrors = n
        /\ t.ids = txn.ids /\ t.requestID = txn.requestID /\ t.post = txn.post
        /\ t.pending = txn.pending /\ t.preDispatch = txn.preDispatch
        /\ t.assembleErrors = txn.assembleErrors /\ t.revertCount = txn.revertCount
    BY Zenon, <1>1, <2>1 DEF Transactions
  <2> HIDE DEF t
  <2>4. Coherent(t)
    BY Zenon, <1>1, <2>3, SameAssembly DEF Coherent, Outstanding
  <2>5. CASE n <= SignErrorRetryThreshold
    <3>1. Retriable(t)
      BY Zenon, <1>1, <2>3, <2>5 DEF Retriable
    <3>2. QED
      BY <1>1, <1>2, <2>2, <2>3, <2>5, <3>1, ToPool
  <2>6. CASE ~(n <= SignErrorRetryThreshold)
    <3>1. /\ t.revertCount <= RevertRetryThreshold + 1
          /\ t.assembleErrors <= AssembleErrorRetryThreshold + 1
          /\ t.signErrors <= SignErrorRetryThreshold + 1
      BY <1>1, <1>3, <2>1, <2>3, RetryAssumption DEF Retriable
    <3>2. Become(MoveTo(t, "Evicted"))
      BY Zenon, <2>2, <2>6
    <3>3. QED
      BY Zenon, <1>2, <2>3, <2>4, <3>1, <3>2, ToEnd DEF Ended
  <2>7. QED
    BY <2>5, <2>6
<1>5. CASE AssembleError(id)
  <2> DEFINE n == txn.assembleErrors + 1
             t == [txn EXCEPT !.assembleErrors = n]
  <2>1. n \in Nat /\ n <= AssembleErrorRetryThreshold + 1
    BY <1>1, <1>3, RetryAssumption DEF Retriable
  <2>2. Become(MoveTo(t, IF n <= AssembleErrorRetryThreshold THEN "Pooled" ELSE "Evicted"))
    BY Zenon, <1>1, <1>5 DEF AssembleError, Transactions
  <2> HIDE DEF n
  <2>3. /\ t \in Transactions /\ t.assembleErrors = n
        /\ t.ids = txn.ids /\ t.requestID = txn.requestID /\ t.post = txn.post
        /\ t.pending = txn.pending /\ t.preDispatch = txn.preDispatch
        /\ t.signErrors = txn.signErrors /\ t.revertCount = txn.revertCount
    BY <1>1, <2>1, Zenon DEF Transactions
  <2> HIDE DEF t
  <2>4. Coherent(t)
    BY <1>1, <2>3, SameAssembly DEF Coherent, Outstanding
  <2>5. CASE n <= AssembleErrorRetryThreshold
    <3>1. Retriable(t)
      BY <1>1, <2>3, <2>5 DEF Retriable
    <3>2. QED
      BY Zenon, <1>1, <1>2, <2>2, <2>3, <2>5, <3>1, ToPool
  <2>6. CASE ~(n <= AssembleErrorRetryThreshold)
    <3>1. /\ t.revertCount <= RevertRetryThreshold + 1
          /\ t.assembleErrors <= AssembleErrorRetryThreshold + 1
          /\ t.signErrors <= SignErrorRetryThreshold + 1
      BY <1>1, <1>3, <2>1, <2>3, RetryAssumption DEF Retriable
    <3>2. Become(MoveTo(t, "Evicted"))
      BY Zenon, <2>2, <2>6
    <3>3. QED
      BY <1>2, <2>3, <2>4, <3>1, <3>2, ToEnd DEF Ended
  <2>7. QED
    BY Zenon, <2>5, <2>6
<1>6. QED
  BY Zenon, <1>4, <1>5

\* To the end, with the timers stopped.
LEMMA ToFinal ==
  ASSUME IInv, txn.state \notin Ended, Become(ClearTimeouts(MoveTo(txn, "Final"))),
         UNCHANGED environment
  PROVE  IInv' /\ Simulated
<1> DEFINE u == MoveTo(txn, "Final")
           m == ClearTimeouts(u)
<1>1. /\ txn \in Transactions /\ Coherent(txn) /\ Retriable(txn) /\ txn.ids \in Nat
  BY Zenon, LiveFacts DEF IInv
<1>2. /\ txn.revertCount <= RevertRetryThreshold + 1
      /\ txn.assembleErrors <= AssembleErrorRetryThreshold + 1
      /\ txn.signErrors <= SignErrorRetryThreshold + 1
      /\ txn.assembleErrors <= AssembleErrorRetryThreshold
      /\ txn.signErrors <= SignErrorRetryThreshold
  BY <1>1, RetryAssumption DEF Retriable, Transactions
<1>3. Sound(u) /\ u.ids = txn.ids /\ u.post = txn.post /\ u.state = "Final"
  BY Zenon, <1>1, <1>2, EndSound DEF Ended
<1>4. Become(m)
  BY Zenon
<1> HIDE DEF u
<1>5. m \in Transactions /\ m.state = u.state /\ Kept(m, u)
  BY Zenon, <1>3, ClearTimeoutsType DEF Sound
<1> HIDE DEF m
<1>6. Sound(m) /\ m.ids = u.ids /\ m.post = u.post
  BY Zenon, <1>3, <1>5, SoundSame
<1>7. txn' = m
  BY Zenon, <1>4 DEF Become
<1>8. Approved(txn)' /\ Timed(txn)'
  BY Zenon, <1>3, <1>5, <1>7 DEF Approved, Timed, TimedStates
<1>9. IInv'
  BY <1>1, <1>3, <1>4, <1>6, <1>8, CalmStep, UnchangedIsCalm
<1>10. Simulated
  BY Zenon, <1>3, <1>5, <1>6, <1>7, GivesUp DEF IInv, Phased
<1>11. QED
  BY Zenon, <1>9, <1>10

\* A rejection by the originator ends the transaction or repools it.
LEMMA RejectedStep ==
  ASSUME IInv, NEW reason, AssembleRequestRejected(reason) \/ PreDispatchRequestRejected(reason)
  PROVE  IInv' /\ Simulated
<1>1. /\ txn \in Transactions /\ Coherent(txn) /\ Retriable(txn)
      /\ txn.requestID \in {0, txn.ids}
  BY Zenon, LiveFacts DEF IInv, AssembleRequestRejected, PreDispatchRequestRejected, Ended
<1>2. UNCHANGED environment /\ txn.state \notin Ended
  BY Zenon DEF AssembleRequestRejected, PreDispatchRequestRejected, Ended
<1>3. Calm
  BY Zenon, <1>2, UnchangedIsCalm
<1>4. \/ Become(MoveTo(txn, "Evicted"))
      \/ Become(ClearTimeouts(MoveTo(txn, "Final")))
      \/ Become(MoveTo(txn, "Pooled"))
  BY Zenon DEF AssembleRequestRejected, PreDispatchRequestRejected
<1>5. CASE Become(MoveTo(txn, "Evicted"))
  BY Zenon, <1>1, <1>3, <1>5, LiveToEnd DEF Ended
<1>6. CASE Become(ClearTimeouts(MoveTo(txn, "Final")))
  BY <1>2, <1>6, ToFinal
<1>7. CASE Become(MoveTo(txn, "Pooled"))
  BY Zenon, <1>1, <1>3, <1>7, ToPool
<1>8. QED
  BY Zenon, <1>4, <1>5, <1>6, <1>7

\* Event_Signed: the abstract Sign, or a signature nobody waits for.
LEMMA SignedStep ==
  ASSUME IInv, NEW id \in 1..txn.ids, NEW n \in SignNames, Signed(id, [name |-> n, of |-> id])
  PROVE  IInv' /\ Simulated
<1> DEFINE sig == [name |-> n, of |-> id]
           t == ApplySignature(txn, sig)
<1>1. Sound(txn) /\ txn.state = "Signing" /\ id = txn.requestID /\ txn.requestID # 0
  BY Zenon DEF IInv, Signed, MatchesPendingAssembleRequest
<1>2. /\ Sound(t) /\ Settled(t) /\ Retriable(t)
      /\ t.state = "Signing" /\ t.ids = txn.ids /\ t.stateTimer = txn.stateTimer
      /\ t.post.id = txn.post.id /\ t.post.endorsements = <<>> /\ txn.post.endorsements = <<>>
      /\ SignedNames(t) \in {SignedNames(txn), SignedNames(txn) \cup {n}}
  BY Zenon, <1>1, AppliedSignature
<1>3. UNCHANGED environment /\ \E notReady \in BOOLEAN :
         Become(IF ~SignFulfilled(t) THEN t
                ELSE IF ~PlanFulfilled(t) THEN MoveTo(t, "Endorsement_Gathering")
                ELSE ToDispatch(t, notReady))
  BY Zenon DEF Signed
<1> HIDE DEF t
<1>4. t \in Transactions /\ Coherent(t) /\ t.post.id # 0 /\ t.ids \in Nat
  BY <1>2 DEF Sound, ByState, Transactions
<1>5. IInv' /\ txn'.state \notin Phased /\ txn'.post = t.post
  <2>1. CASE ~SignFulfilled(t)
    <3>1. Become(t) /\ txn' = t
      BY Zenon, <1>3, <2>1 DEF Become
    <3>2. Approved(txn)' /\ Timed(txn)'
      <4>1. Timed(txn)
        BY Zenon DEF IInv
      <4>2. timeouts' = timeouts /\ txn'.stateTimer = txn.stateTimer /\ txn'.state = txn.state
        BY <1>1, <1>2, <1>3, <3>1 DEF environment
      <4>3. Timed(txn)'
        BY Zenon, <4>1, <4>2 DEF Timed
      <4>4. Approved(txn)'
        BY Zenon, <1>2, <3>1 DEF Approved
      <4>5. QED
        BY Zenon, <4>3, <4>4
    <3>3. IInv'
      BY <1>2, <1>3, <1>4, <3>1, <3>2, CalmStep, UnchangedIsCalm
    <3>4. QED
      BY Zenon, <1>2, <3>1, <3>3 DEF Phased
  <2>2. CASE SignFulfilled(t) 
    <3>1. PICK notReady \in BOOLEAN : Become(Assembled(t, notReady))
      BY Zenon, <1>3, <2>2 DEF Assembled
    <3>2. Onward(Assembled(t, notReady), t)
      BY Zenon, <1>2, <1>4, AssembledSound
    <3>3. QED
      BY Zenon, <1>2, <1>3, <3>1, <3>2, ToOnward
  <2>3. QED
    BY Zenon, <2>1, <2>2
<1>6. /\ SignedNames(txn') = SignedNames(t)
      /\ [r \in Requirements |-> EndorsersOf(txn', r)] = [r \in Requirements |-> EndorsersOf(txn, r)]
  BY Zenon, <1>2, <1>5, SamePost, NobodyAttested
<1>7. phaseBar = "open" /\ phaseBar' = "open" /\ assemblyBar' = assemblyBar
      /\ assemblyBar = txn.post.id
  BY <1>1, <1>2, <1>5, Bars, NextBars DEF Phased
<1>8. CASE SignedNames(t) = SignedNames(txn)
  BY Zenon, <1>5, <1>6, <1>7, <1>8 DEF Simulated, Abstract!avars
<1>9. CASE SignedNames(t) = SignedNames(txn) \cup {n}
  <2>1. Abstract!Sign(n)
    BY <1>2, <1>4, <1>6, <1>7, <1>9 DEF Abstract!Sign
  <2>2. QED
    BY Zenon, <1>5, <2>1 DEF Simulated, Abstract!ANext
<1>10. QED
  BY Zenon, <1>2, <1>8, <1>9
-----------------------------------------------------------------------------
\* Event_Endorsed: the abstract Endorse, and the step on to the dependencies
\* or the confirmation when the plan is fulfilled.
LEMMA EndorsedStep ==
  ASSUME IInv, NEW q \in requested, NEW mustSubmit \in Constraints, Endorsed(q, mustSubmit)
  PROVE  IInv' /\ Simulated
<1> DEFINE t == ApplyEndorsement(txn, q, mustSubmit)
<1>1. Sound(txn) /\ txn.state = "Endorsement_Gathering" /\ Owed(txn, q) /\ mustSubmit \in BOOLEAN
  BY Zenon, PlanAssumption DEF IInv, Sent, Owed, Endorsed, MatchesPendingEndorsementRequest
<1>2. /\ Sound(t) /\ Retriable(t) /\ t.preDispatch = NoConfirmation
      /\ t.state = "Endorsement_Gathering" /\ t.ids = txn.ids /\ t.stateTimer = txn.stateTimer
      /\ t.post.id = txn.post.id /\ SignedNames(t) = SignNames
      /\ \A r \in Requirements : EndorsersOf(t, r) =
            IF r = q.req THEN EndorsersOf(txn, r) \cup {q.party} ELSE EndorsersOf(txn, r)
  BY <1>1, AppliedEndorsement
<1>3. /\ q.req \in Requirements /\ q.party \in PlanParties[q.req] /\ txn.post.id # 0
      /\ SignedNames(txn) = SignNames
  BY Zenon, <1>1, OwedFacts
<1>4. /\ UNCHANGED environment
      /\ IF PlanFulfilled(t)
         THEN \E notReady \in BOOLEAN :
                 Become(ToDispatch(UpdateSigningIdentity(ResetEndorsementRequests(t)), notReady))
         ELSE Become(t)
  BY Zenon DEF Endorsed
<1> HIDE DEF t
<1>5. t \in Transactions /\ Coherent(t) /\ t.ids \in Nat
  BY Zenon, <1>2 DEF Sound, Transactions
<1>6. IInv' /\ txn'.state \notin Phased /\ txn'.post = t.post
  <2>1. CASE PlanFulfilled(t)
    <3> DEFINE u == ResetEndorsementRequests(t)
               w == UpdateSigningIdentity(u)
    <3>1. /\ u \in Transactions
          /\ u.ids = t.ids /\ u.requestID = t.requestID
          /\ u.post = t.post /\ u.preDispatch = t.preDispatch
          /\ u.pending = NoRequests /\ u.failures = NoCounts /\ u.reverts = NoCounts
          /\ u.assembleErrors = t.assembleErrors /\ u.signErrors = t.signErrors
          /\ u.revertCount = t.revertCount
      BY Zenon, <1>5, ResetType
    <3>2. PICK notReady \in BOOLEAN : Become(ToDispatch(w, notReady))
      BY Zenon, <1>4, <2>1
    <3> HIDE DEF u
    <3>3. w \in Transactions /\ Kept(w, u)
      BY Zenon, <3>1, UpdateSigner
    <3> HIDE DEF w
    <3>4. w.ids = t.ids /\ w.requestID = t.requestID /\ w.post = t.post
      BY Zenon, <3>1, <3>3 DEF Kept
    <3>5. Settled(w) /\ Retriable(w)
      BY Zenon, <1>2, <3>1, <3>3 DEF Kept, Settled, Retriable
    <3>6. Coherent(w)
      <4>1. OfAssembly(w)
        BY Zenon, <1>5, <3>4, SameAssembly DEF Coherent
      <4>2. Outstanding(w)
        BY <3>5 DEF Outstanding, Settled, NoRequests, NoConfirmation
      <4>3. QED
        BY Zenon, <4>1, <4>2 DEF Coherent
    <3>7. /\ SignedNames(w) = SignNames /\ w.post.id # 0
          /\ \A r \in Requirements : Cardinality(EndorsersOf(w, r)) >= Threshold(r)
      <4>1. \A r \in Requirements : Cardinality(EndorsersOf(t, r)) >= Threshold(r)
        BY Zenon, <1>2, <1>3, <1>5, <2>1, Fulfilled DEF Coherent
      <4>2. SignedNames(w) = SignedNames(t) /\ \A r : EndorsersOf(w, r) = EndorsersOf(t, r)
        BY Zenon, <3>4, SamePost
      <4>3. w.post.id # 0
        BY <1>2, <1>3, <3>4
      <4>4. QED
        BY Zenon, <1>2, <4>1, <4>2, <4>3
    <3>8. Onward(ToDispatch(w, notReady), w)
      BY Zenon, <3>3, <3>5, <3>6, <3>7, AttestedSound DEF Onward, TimedStates
    <3>9. QED
      BY Zenon, <1>2, <1>4, <3>2, <3>4, <3>8, ToOnward
  <2>2. CASE ~PlanFulfilled(t)
    <3>1. Become(t) /\ txn' = t
      BY Zenon, <1>4, <2>2 DEF Become
    <3>2. timeouts' = timeouts /\ txn'.stateTimer = txn.stateTimer /\ txn'.state = txn.state
      BY Zenon, <1>1, <1>2, <1>4, <3>1 DEF environment
    <3>3. Timed(txn)'
      BY Zenon, <3>2 DEF IInv, Timed
    <3>4. Approved(txn)'
      BY Zenon, <1>2, <3>1 DEF Approved
    <3>5. IInv'
      BY <1>2, <1>4, <1>5, <3>1, <3>3, <3>4, CalmStep, UnchangedIsCalm
    <3>6. QED
      BY Zenon, <1>2, <3>1, <3>5 DEF Phased
  <2>3. QED
    BY Zenon, <2>1, <2>2
<1>7. phaseBar = "open" /\ phaseBar' = "open" /\ assemblyBar' = assemblyBar
      /\ assemblyBar = txn.post.id
  BY Zenon, <1>1, <1>2, <1>6, Bars, NextBars DEF Phased
<1>8. SignedNames(txn') = SignedNames(txn)
  BY Zenon, <1>2, <1>3, <1>6, SamePost
<1>9. [r \in Requirements |-> EndorsersOf(txn', r)] =
      [[r \in Requirements |-> EndorsersOf(txn, r)] EXCEPT ![q.req] = @ \cup {q.party}]
  <2>1. \A r \in Requirements : EndorsersOf(txn', r) = EndorsersOf(t, r)
    BY Zenon, <1>6, SamePost
  <2>2. QED
    BY <1>2, <1>3, <2>1, Zenon
<1>10. Abstract!Endorse(q.req, q.party)
  BY Zenon, <1>3, <1>7, <1>8, <1>9 DEF Abstract!Endorse
<1>11. QED
  BY Zenon, <1>3, <1>6, <1>10 DEF Simulated, Abstract!ANext

\* Event_EndorseRevert and Event_EndorseError: the failure is counted and,
\* beyond the tolerance, the transaction gives up.
LEMMA EndorseFailureStep ==
  ASSUME IInv, NEW q \in requested, EndorseRevert(q) \/ EndorseError(q)
  PROVE  IInv' /\ Simulated
<1>1. Sound(txn) /\ txn.state = "Endorsement_Gathering" /\ Owed(txn, q) /\ UNCHANGED environment
  BY Zenon DEF IInv, Sent, Owed, EndorseRevert, EndorseError, MatchesPendingEndorsementRequest
<1>2. PICK isRevert \in BOOLEAN :
         LET t == RecordEndorseFailure(txn, q, isRevert)
         IN  \/ Become(MoveTo(t, "Reverted"))
             \/ Become(MoveTo(ResetEndorsementRequests(t), "Pooled"))
             \/ ~FailureExceedsTolerance(t) /\ Become(t)
  <2>1. CASE EndorseRevert(q)
    BY Zenon, <2>1 DEF EndorseRevert
  <2>2. CASE EndorseError(q)
    BY Zenon, <2>2 DEF EndorseError
  <2>3. QED
    BY Zenon, <2>1, <2>2
<1> DEFINE t == RecordEndorseFailure(txn, q, isRevert)
<1>3. /\ t \in Transactions /\ Coherent(t) /\ Retriable(t)
      /\ t.state = "Endorsement_Gathering" /\ t.ids = txn.ids /\ t.post = txn.post
      /\ t.stateTimer = txn.stateTimer
      /\ ~FailureExceedsTolerance(t) => Sound(t)
  BY Zenon, <1>1, RecordedFailure
<1>4. \/ Become(MoveTo(t, "Reverted"))
      \/ Become(MoveTo(ResetEndorsementRequests(t), "Pooled"))
      \/ ~FailureExceedsTolerance(t) /\ Become(t)
  BY <1>2
<1> HIDE DEF t
<1>5. Calm
  BY Zenon, <1>1, UnchangedIsCalm
<1>6. CASE Become(MoveTo(t, "Reverted"))
  BY Zenon, <1>3, <1>5, <1>6, LiveToEnd DEF Ended
<1>7. CASE Become(MoveTo(ResetEndorsementRequests(t), "Pooled"))
  <2> DEFINE u == ResetEndorsementRequests(t)
  <2>1. Become(MoveTo(u, "Pooled"))
    BY Zenon, <1>7
  <2>2. /\ u \in Transactions
        /\ u.ids = t.ids /\ u.requestID = t.requestID
        /\ u.assembleErrors = t.assembleErrors /\ u.signErrors = t.signErrors
        /\ u.revertCount = t.revertCount
    BY Zenon, <1>3, ResetType
  <2> HIDE DEF u
  <2>3. Retriable(u) /\ u.requestID \in {0, u.ids}
    BY <1>3, <2>2 DEF Retriable, Coherent, OfAssembly
  <2>4. QED
    BY <1>3, <1>5, <2>1, <2>2, <2>3, ToPool
<1>8. CASE ~FailureExceedsTolerance(t) /\ Become(t)
  <2>1. /\ approved' = approved /\ prepared' = prepared /\ timeouts'.state = timeouts.state
    BY Zenon, <1>1 DEF environment
  <2>2. QED
    BY Zenon, <1>1, <1>3, <1>5, <1>8, <2>1, ToSame
<1>9. QED
  BY <1>4, <1>6, <1>7, <1>8

\* Event_DependencyReady leaves State_Blocked with the attestations it has.
LEMMA DependencyReadyStep ==
  ASSUME IInv, DependencyReady
  PROVE  IInv' /\ Simulated
<1> DEFINE t == UpdateSigningIdentity(txn)
<1>1. Sound(txn) /\ txn \in Transactions /\ txn.state = "Blocked"
  BY Zenon DEF IInv, Sound, DependencyReady
<1>2. /\ t \in Transactions /\ t.state = txn.state /\ Kept(t, txn)
      /\ t.stateTimer = txn.stateTimer
  BY Zenon, <1>1, UpdateSigner
<1>3. UNCHANGED environment /\ \E notReady \in BOOLEAN :
         Become(IF notReady THEN t ELSE MoveTo(t, "Confirming_Dispatchable"))
  BY DEF DependencyReady
<1> HIDE DEF t
<1>4. Sound(t) /\ t.ids = txn.ids /\ t.post = txn.post
  BY <1>1, <1>2, SoundSame
<1>5. CASE Become(t)
  <2>1. approved' = approved /\ prepared' = prepared
    BY <1>3 DEF environment
  <2>2. QED
    BY Zenon, <1>1, <1>2, <1>3, <1>4, <1>5, <2>1, ToSame, UnchangedIsCalm DEF TimedStates
<1>6. CASE Become(MoveTo(t, "Confirming_Dispatchable"))
  <2>1. /\ Settled(t) /\ t.post.id # 0 /\ SignedNames(t) = SignNames
        /\ \A r \in Requirements : Cardinality(EndorsersOf(t, r)) >= Threshold(r)
    BY Zenon, <1>1, <1>2, <1>4 DEF Sound, ByState, Settled, Ended, Attested
  <2>2. Coherent(t) /\ Retriable(t)
    BY <1>1, <1>2, <1>4, LiveFacts DEF Ended
  <2>3. Onward(ToDispatch(t, FALSE), t)
    BY Zenon, <1>2, <2>1, <2>2, AttestedSound DEF Onward, TimedStates
  <2>4. ToDispatch(t, FALSE) = MoveTo(t, "Confirming_Dispatchable")
    BY Zenon DEF ToDispatch
  <2>5. IInv' /\ txn'.state \notin Phased /\ txn'.post = t.post
    BY <1>3, <1>4, <1>6, <2>3, <2>4, ToOnward, Zenon
  <2>6. QED
    BY Zenon, <1>1, <1>4, <2>5, GivesUp
<1>7. QED
  BY Zenon, <1>3, <1>5, <1>6
-----------------------------------------------------------------------------
\* Event_DispatchRequestApproved: the abstract Approve, of the attested
\* assembly the request was about.
LEMMA ApprovedStep ==
  ASSUME IInv, NEW q \in confirmations, DispatchRequestApproved(q)
  PROVE  IInv' /\ Simulated
<1> DEFINE m == MoveTo(CompletePreDispatchRequest(txn), "Preparing")
<1>1. Sound(txn) /\ txn \in Transactions /\ txn.state = "Confirming_Dispatchable"
  BY Zenon DEF IInv, Sound, DispatchRequestApproved
<1>2. /\ Sound(m) /\ m.state = "Preparing" /\ m.ids = txn.ids /\ m.post = txn.post
      /\ m.prepareID = txn.ids
  BY <1>1, PreparingSound, SMTT(40)
<1>3. /\ Become(m) /\ txn' = m /\ approved' = q.of
      /\ preparing' = preparing \cup {[id |-> m.prepareID, reads |-> <<>>]}
      /\ UNCHANGED <<timeouts, revertQueued, prepared, delegations>>
  BY Zenon DEF DispatchRequestApproved, Become
<1> HIDE DEF m
<1>4. txn.post.id # 0 /\ txn.post.id = txn.ids /\ txn.ids \in Nat /\ q.of = txn.post.id
  <2>1. txn.post.id # 0
    BY Zenon, <1>1 DEF Sound, ByState, Attested
  <2>2. txn.post.id = txn.ids /\ txn.ids \in Nat
    BY Zenon, <1>1, <2>1 DEF Sound, Coherent, OfAssembly, Transactions
  <2>3. txn.preDispatch.id # 0 /\ txn.preDispatch.id = q.id
    BY Zenon DEF DispatchRequestApproved, MatchesPendingPreDispatchRequest
  <2>4. txn.preDispatch.id = txn.post.id
    BY <1>1, <2>3, SMTT(40) DEF Sound, Coherent, Outstanding
  <2>5. q.of = q.id
    BY Zenon DEF IInv, Sent
  <2>6. QED
    BY Zenon, <2>1, <2>2, <2>3, <2>4, <2>5
<1>5. Running'
  <2>1. \A g \in preparing : /\ g \in [id : Nat, reads : Seq(Nat)] /\ g.id \in 1..txn.ids
                             /\ g.id = txn.ids =>
                                   \A i \in DOMAIN g.reads : g.reads[i] \in {0, txn.ids}
    BY Zenon DEF IInv, Running
  <2> DEFINE n == [id |-> m.prepareID, reads |-> <<>>]
  <2>2. n \in [id : Nat, reads : Seq(Nat)] /\ n.id \in 1..txn.ids /\ n.reads = <<>>
    BY <1>2, <1>4
  <2>3. DOMAIN n.reads = {}
    BY <2>2
  <2> HIDE DEF n
  <2>4. preparing' = preparing \cup {n} /\ txn'.ids = txn.ids
    BY Zenon, <1>2, <1>3 DEF n
  <2>5. QED
    BY Zenon, <2>1, <2>2, <2>3, <2>4 DEF Running
<1>6. Queues'
  BY Zenon, <1>2, <1>3, <1>4 DEF IInv, Queues
<1>7. Approved(txn)' /\ Timed(txn)'
  BY Zenon, <1>2, <1>3, <1>4 DEF Approved, Timed, TimedStates
<1>8. IInv'
  BY <1>2, <1>3, <1>4, <1>5, <1>6, <1>7, Step, SMTT(40)
<1>9. /\ SignedNames(txn) = SignNames
      /\ \A r \in Requirements : Cardinality(EndorsersOf(txn, r)) >= Threshold(r)
  BY Zenon, <1>1 DEF Sound, ByState, Attested
<1>10. /\ SignedNames(txn') = SignedNames(txn)
       /\ \A r \in Requirements : EndorsersOf(txn', r) = EndorsersOf(txn, r)
  BY Zenon, <1>2, <1>3, SamePost
<1>11. [r \in Requirements |-> EndorsersOf(txn', r)] = [r \in Requirements |-> EndorsersOf(txn, r)]
  BY Zenon, <1>10
<1>12. phaseBar = "open" /\ assemblyBar = txn.post.id /\ assemblyBar' = txn.post.id
  BY <1>1, <1>2, <1>3, Bars, NextBars DEF Phased
<1>13. phaseBar' = "approved"
  BY Zenon, <1>2, <1>3, <1>4 DEF phaseBar
<1>14. Abstract!Attested
  <2>1. \A S : Abstract!Cardinality(S) = Cardinality(S)
    BY Zenon DEF Abstract!Cardinality, Cardinality
  <2>2. QED
    BY Zenon, <1>9, <2>1 DEF Abstract!Attested
<1>15. Abstract!Approve
  BY <1>4, <1>10, <1>11, <1>12, <1>13, <1>14 DEF Abstract!Approve
<1>16. QED
  BY Zenon, <1>8, <1>15 DEF Simulated, Abstract!ANext

\* The prepare goroutine reads the assembly, or starts again.
LEMMA PrepareRunsStep ==
  ASSUME IInv, NEW g \in preparing, PrepareReads(g) \/ PrepareRetries(g)
  PROVE  IInv' /\ Simulated
<1>1. UNCHANGED <<txn, requested, confirmations, timeouts, revertQueued, prepared,
                  delegations, approved>>
  BY Zenon DEF PrepareReads, PrepareRetries
<1>2. \A h \in preparing : /\ h \in [id : Nat, reads : Seq(Nat)] /\ h.id \in 1..txn.ids
                           /\ h.id = txn.ids =>
                                 \A i \in DOMAIN h.reads : h.reads[i] \in {0, txn.ids}
  BY Zenon DEF IInv, Running
<1>3. txn.post.id \in Nat /\ txn.post.id \in {0, txn.ids}
  BY Zenon DEF IInv, Sound, Coherent, OfAssembly, Transactions, Assemblies
<1>4. PICK h : /\ preparing' = (preparing \ {g}) \cup {h}
               /\ h \in [id : Nat, reads : Seq(Nat)] /\ h.id = g.id
               /\ g.id = txn.ids => \A i \in DOMAIN h.reads : h.reads[i] \in {0, txn.ids}
  <2>1. CASE PrepareReads(g)
    <3> DEFINE rs == Append(g.reads, txn.post.id)
               h == [g EXCEPT !.reads = rs]
    <3>1. preparing' = (preparing \ {g}) \cup {h}
      BY Zenon, <1>2, <2>1 DEF PrepareReads
    <3>2. g.reads \in Seq(Nat) /\ g.id \in Nat
      BY Zenon, <1>2
    <3>3. rs \in Seq(Nat)
      BY <1>3, <3>2
    <3>4. g.id = txn.ids => \A i \in DOMAIN rs : rs[i] \in {0, txn.ids}
      <4>1. /\ DOMAIN rs = 1..(Len(g.reads) + 1) /\ DOMAIN g.reads = 1..Len(g.reads)
            /\ Len(g.reads) \in Nat /\ rs[Len(g.reads) + 1] = txn.post.id
            /\ \A i \in 1..Len(g.reads) : rs[i] = g.reads[i]
        BY <1>3, <3>2
      <4> HIDE DEF rs
      <4>2. QED
        BY <1>2, <1>3, <4>1
    <3> HIDE DEF rs
    <3>5. h \in [id : Nat, reads : Seq(Nat)] /\ h.id = g.id /\ h.reads = rs
      BY Zenon, <1>2, <3>3
    <3>6. QED
      BY Zenon, <3>1, <3>4, <3>5
  <2>2. CASE PrepareRetries(g)
    <3> DEFINE h == [g EXCEPT !.reads = <<>>]
    <3>1. preparing' = (preparing \ {g}) \cup {h}
      BY Zenon, <2>2 DEF PrepareRetries
    <3>2. h \in [id : Nat, reads : Seq(Nat)] /\ h.id = g.id /\ h.reads = <<>>
      <4>1. g \in [id : Nat, reads : Seq(Nat)] /\ <<>> \in Seq(Nat)
        BY <1>2
      <4>2. QED
        BY Zenon, <4>1
    <3>3. DOMAIN h.reads = {}
      BY <3>2
    <3>4. QED
      BY Zenon, <3>1, <3>2, <3>3
  <2>3. QED
    BY <2>1, <2>2
<1>5. Running'
  BY Zenon, <1>1, <1>2, <1>4 DEF Running
<1>6. Sound(txn)' /\ Sent' /\ Queues'
  BY Zenon, <1>1 DEF IInv, Sent, Queues
<1>7. Approved(txn)' /\ Timed(txn)'
  BY Zenon, <1>1 DEF IInv, Approved, Timed
<1>8. IInv'
  BY Zenon, <1>5, <1>6, <1>7 DEF IInv
<1>9. QED
  BY Zenon, <1>1, <1>8, Stays

\* Event_PrepareSucceeded: only the prepare that is in flight counts, and it
\* read no assembly but the approved one: the abstract Prepare.
LEMMA PrepareSucceededStep ==
  ASSUME IInv, NEW g \in preparing, PrepareSucceeded(g)
  PROVE  IInv' /\ Simulated
<1>1. Sound(txn) /\ txn \in Transactions /\ txn.ids \in Nat
  BY Zenon DEF IInv, Sound, Transactions
<1>2. CASE ~(txn.state = "Preparing" /\ MatchesInFlightPrepareID(g))
  <2>1. Become(txn) /\ UNCHANGED <<timeouts, prepared, approved>>
    BY Zenon, <1>2 DEF PrepareSucceeded
  <2>2. Calm
    BY Zenon, <2>1 DEF PrepareSucceeded, IInv, Queues, Calm
  <2>3. QED
    BY Zenon, <1>1, <2>1, <2>2, ToSame
<1>3. CASE txn.state = "Preparing" /\ MatchesInFlightPrepareID(g)
  <2> DEFINE m == MoveTo([txn EXCEPT !.post = NoAssembly], "Ready_For_Dispatch")
  <2>1. Sound(m) /\ m.state = "Ready_For_Dispatch" /\ m.ids = txn.ids /\ m.post = NoAssembly
    BY Zenon, <1>1, <1>3, ReadySound
  <2>2. /\ Become(m) /\ txn' = m /\ prepared' = g.reads /\ preparing' = preparing \ {g}
        /\ Len(g.reads) = 2 /\ 0 \notin Range(g.reads)
        /\ UNCHANGED <<timeouts, revertQueued, delegations, approved>>
    BY Zenon, <1>3 DEF PrepareSucceeded, Become
  <2> HIDE DEF m
  <2>3. /\ txn.post.id # 0 /\ approved = txn.post.id /\ txn.post.id = txn.ids
        /\ g.id = txn.ids
    <3>1. txn.post.id # 0 /\ approved = txn.post.id
      BY <1>3 DEF IInv, Approved
    <3>2. txn.post.id = txn.ids
      BY Zenon, <1>1, <3>1 DEF Sound, Coherent, OfAssembly
    <3>3. g.id = txn.prepareID /\ txn.prepareID = txn.ids
      BY Zenon, <1>1, <1>3 DEF MatchesInFlightPrepareID, Sound, ByState
    <3>4. QED
      BY Zenon, <3>1, <3>2, <3>3
  <2>4. g.reads \in Seq(Nat) /\ \A i \in DOMAIN g.reads : g.reads[i] \in {0, txn.ids}
    BY <2>3 DEF IInv, Running
  <2>5. prepared' = <<approved, approved>>
    <3>1. 1 \in DOMAIN g.reads /\ 2 \in DOMAIN g.reads
      BY <2>2, <2>4
    <3>2. g.reads[1] # 0 /\ g.reads[2] # 0
      BY Zenon, <2>2, <3>1 DEF Range
    <3>3. g.reads[1] = approved /\ g.reads[2] = approved
      BY <2>3, <2>4, <3>1, <3>2
    <3>4. QED
      BY <2>2, <2>4, <3>3
  <2>6. Calm
    BY Zenon, <2>2, <2>4 DEF IInv, Queues, Calm
  <2>7. Approved(txn)' /\ Timed(txn)'
    BY Zenon, <2>1, <2>2, <2>3, <2>5 DEF Approved, Timed, TimedStates
  <2>8. IInv'
    BY <1>1, <2>1, <2>2, <2>6, <2>7, CalmStep
  <2>9. phaseBar = "approved" /\ phaseBar' = "prepared"
    BY Zenon, <1>3, <2>1, <2>2, <2>3 DEF phaseBar
  <2>10. assemblyBar = approved /\ assemblyBar' = approved
    BY Zenon, <2>3, <2>5, <2>9 DEF assemblyBar
  <2>11. /\ SignedNames(txn') = {}
         /\ [r \in Requirements |-> EndorsersOf(txn', r)] = [r \in Requirements |-> {}]
    BY Zenon, <2>1, <2>2, NothingAttested
  <2>12. Abstract!Prepare
    BY Zenon, <2>9, <2>10, <2>11 DEF Abstract!Prepare, Abstract!Nobody
  <2>13. QED
    BY Zenon, <2>8, <2>12 DEF Simulated, Abstract!ANext
<1>4. QED
  BY Zenon, <1>2, <1>3

\* Event_PrepareFailed: back to the pool, if it is of the prepare in flight.
LEMMA PrepareFailedStep ==
  ASSUME IInv, NEW g \in preparing, PrepareFailed(g)
  PROVE  IInv' /\ Simulated
<1>1. Sound(txn) /\ txn \in Transactions /\ UNCHANGED <<timeouts, prepared, approved>>
  BY Zenon DEF IInv, Sound, PrepareFailed
<1>2. Calm
  BY Zenon DEF PrepareFailed, IInv, Queues, Calm
<1>3. CASE txn.state = "Preparing" /\ MatchesInFlightPrepareID(g)
  <2>1. Retriable(txn) /\ txn.requestID \in {0, txn.ids}
    BY Zenon, <1>1, <1>3, LiveFacts DEF Ended
  <2>2. Become(MoveTo(txn, "Pooled"))
    BY Zenon, <1>3 DEF PrepareFailed
  <2>3. QED
    BY <1>1, <1>2, <2>1, <2>2, ToPool
<1>4. CASE ~(txn.state = "Preparing" /\ MatchesInFlightPrepareID(g))
  <2>1. Become(txn)
    BY Zenon, <1>4 DEF PrepareFailed
  <2>2. QED
    BY <1>1, <1>2, <2>1, ToSame
<1>5. QED
  BY Zenon, <1>3, <1>4

\* Event_Dispatched and Event_ConfirmedSuccess: the abstract Dispatch and Confirm.
LEMMA DispatchStep ==
  ASSUME IInv, Dispatched \/ ConfirmedSuccess
  PROVE  IInv' /\ Simulated
<1> DEFINE s == IF txn.state = "Ready_For_Dispatch" THEN "Dispatched" ELSE "Confirmed"
           m == MoveTo(txn, s)
<1>1. /\ txn.state \in {"Ready_For_Dispatch", "Dispatched"}
      /\ Become(m) /\ txn' = m /\ UNCHANGED environment
  BY Zenon DEF Dispatched, ConfirmedSuccess, Become
<1>2. /\ Sound(m) /\ m.state = s /\ m.ids = txn.ids /\ m.post = NoAssembly
      /\ txn.post = NoAssembly
  BY <1>1, DispatchedSound DEF IInv
<1> HIDE DEF m
<1>3. txn.ids \in Nat
  BY Zenon DEF IInv, Sound, Transactions
<1>4. prepared' = prepared /\ approved' = approved
  BY Zenon, <1>1 DEF environment
<1>5. prepared = <<approved, approved>> /\ approved # 0
  BY Zenon, <1>1 DEF IInv, Approved
<1>6. Approved(txn)' /\ Timed(txn)'
  BY <1>1, <1>2, <1>4, <1>5 DEF Approved, Timed, TimedStates
<1>7. IInv'
  BY <1>1, <1>2, <1>3, <1>6, CalmStep, UnchangedIsCalm
<1>8. SignedNames(txn') = SignedNames(txn)
  BY Zenon, <1>1, <1>2, SamePost
<1>9. [r \in Requirements |-> EndorsersOf(txn', r)] = [r \in Requirements |-> EndorsersOf(txn, r)]
  BY Zenon, <1>1, <1>2, NothingAttested
<1>10. CASE txn.state = "Ready_For_Dispatch"
  <2>1. phaseBar = "prepared" /\ phaseBar' = "dispatched"
    BY <1>1, <1>2, <1>10 DEF phaseBar
  <2>2. assemblyBar' = assemblyBar
    BY Zenon, <1>4, <2>1 DEF assemblyBar
  <2>3. Abstract!Dispatch
    BY Zenon, <1>8, <1>9, <2>1, <2>2 DEF Abstract!Dispatch
  <2>4. QED
    BY Zenon, <1>7, <2>3 DEF Simulated, Abstract!ANext
<1>11. CASE txn.state = "Dispatched"
  <2>1. phaseBar = "dispatched" /\ phaseBar' = "confirmed"
    BY Zenon, <1>1, <1>2, <1>11 DEF phaseBar
  <2>2. assemblyBar' = assemblyBar
    BY Zenon, <1>4, <2>1 DEF assemblyBar
  <2>3. Abstract!Confirm
    BY <1>8, <1>9, <2>1, <2>2 DEF Abstract!Confirm
  <2>4. QED
    BY <1>7, <2>3 DEF Simulated, Abstract!ANext
<1>12. QED
  BY Zenon, <1>1, <1>10, <1>11

\* Event_ConfirmedReverted: back to the pool, or the end when the retries are
\* used up.
LEMMA ConfirmedRevertedStep ==
  ASSUME IInv, NEW retryable \in BOOLEAN, NEW unassembled \in BOOLEAN,
         ConfirmedReverted(retryable, unassembled)
  PROVE  IInv' /\ Simulated
<1> DEFINE n == txn.revertCount + 1
           t == [txn EXCEPT !.revertCount = n]
<1>1. /\ txn \in Transactions /\ Coherent(txn) /\ Retriable(txn)
      /\ txn.requestID \in {0, txn.ids}
  BY Zenon, LiveFacts DEF IInv, ConfirmedReverted, Ended
<1>2. Calm
  BY Zenon, UnchangedIsCalm DEF ConfirmedReverted
<1>3. /\ txn.signErrors \in Nat /\ txn.assembleErrors \in Nat /\ txn.revertCount \in Nat
  BY Zenon, <1>1 DEF Transactions
<1>4. n \in Nat /\ n <= RevertRetryThreshold + 1
  BY <1>1, <1>3, RetryAssumption DEF Retriable
<1>5. \/ Become(MoveTo(t, "Reverted"))
      \/ /\ n <= RevertRetryThreshold
         /\ \E s \in {"PreAssembly_Blocked", "Pooled"} : Become(MoveTo(t, s))
  <2>1. Become(MoveTo(t, IF ~(retryable /\ n <= RevertRetryThreshold) THEN "Reverted"
                         ELSE IF unassembled THEN "PreAssembly_Blocked" ELSE "Pooled"))
    BY Zenon, <1>1 DEF ConfirmedReverted, Transactions
  <2> HIDE DEF t, n
  <2>2. QED
    BY Zenon, <2>1
<1> HIDE DEF n
<1>6. /\ t \in Transactions /\ t.revertCount = n
      /\ t.ids = txn.ids /\ t.requestID = txn.requestID /\ t.post = txn.post
      /\ t.pending = txn.pending /\ t.preDispatch = txn.preDispatch
      /\ t.assembleErrors = txn.assembleErrors /\ t.signErrors = txn.signErrors
  BY <1>1, <1>4, Zenon DEF Transactions
<1> HIDE DEF t
<1>7. Coherent(t)
  BY <1>1, <1>6, SameAssembly DEF Coherent, Outstanding
<1>8. CASE Become(MoveTo(t, "Reverted"))
  <2>1. /\ t.revertCount <= RevertRetryThreshold + 1
        /\ t.assembleErrors <= AssembleErrorRetryThreshold + 1
        /\ t.signErrors <= SignErrorRetryThreshold + 1
        /\ t.assembleErrors <= AssembleErrorRetryThreshold
        /\ t.signErrors <= SignErrorRetryThreshold
    BY <1>1, <1>3, <1>4, <1>6, RetryAssumption DEF Retriable
  <2>2. QED
    BY Zenon, <1>2, <1>6, <1>7, <1>8, <2>1, ToEnd DEF Ended
<1>9. ASSUME n <= RevertRetryThreshold, NEW s \in {"PreAssembly_Blocked", "Pooled"},
             Become(MoveTo(t, s))
      PROVE  IInv' /\ Simulated
  <2>1. Retriable(t)
    BY Zenon, <1>1, <1>6, <1>9 DEF Retriable
  <2>2. QED
    BY <1>1, <1>2, <1>6, <1>9, <2>1, ToPool
<1>10. QED
  BY Zenon, <1>5, <1>8, <1>9
-----------------------------------------------------------------------------
\* A timer that fires puts its event on the queue.
LEMMA TimerFiresStep ==
  ASSUME IInv, StateTimerFires \/ RequestTimerFires
  PROVE  IInv' /\ Simulated
<1>1. Sound(txn) /\ txn \in Transactions /\ timeouts \in [state : Nat, request : Nat]
  BY Zenon DEF IInv, Sound, Queues
<1>2. /\ approved' = approved /\ prepared' = prepared
      /\ UNCHANGED <<revertQueued, preparing, delegations>>
  BY DEF StateTimerFires, RequestTimerFires
<1>3. CASE StateTimerFires
  <2> DEFINE m == [txn EXCEPT !.stateTimer = FALSE]
             n == timeouts.state + 1
  <2>1. Become(m) /\ timeouts' = [timeouts EXCEPT !.state = n]
    BY Zenon, <1>3 DEF StateTimerFires
  <2>2. /\ m \in Transactions /\ m.state = txn.state /\ Kept(m, txn)
        /\ m.tolerances = txn.tolerances /\ m.prepareID = txn.prepareID
    BY <1>1, Zenon DEF Transactions, Kept
  <2> HIDE DEF m
  <2>3. Sound(m) /\ m.ids = txn.ids /\ m.post = txn.post
    BY Zenon, <1>1, <2>2, SoundSame
  <2>4. timeouts' \in [state : Nat, request : Nat] /\ timeouts'.state > 0
    BY <1>1, <2>1
  <2>5. Calm
    BY <1>2, <2>4 DEF IInv, Queues, Calm
  <2>6. QED
    BY Zenon, <1>2, <2>1, <2>2, <2>3, <2>4, <2>5, ToSame
<1>4. CASE RequestTimerFires
  <2> DEFINE m == [txn EXCEPT !.requestTimer = "expired"]
             n == timeouts.request + 1
  <2>1. Become(m) /\ timeouts' = [timeouts EXCEPT !.request = n]
    BY Zenon, <1>4 DEF RequestTimerFires
  <2>2. /\ m \in Transactions /\ m.state = txn.state /\ Kept(m, txn)
        /\ m.tolerances = txn.tolerances /\ m.prepareID = txn.prepareID
        /\ m.stateTimer = txn.stateTimer
    BY Zenon, <1>1 DEF Transactions, Kept
  <2> HIDE DEF m
  <2>3. Sound(m) /\ m.ids = txn.ids /\ m.post = txn.post
    BY Zenon, <1>1, <2>2, SoundSame
  <2>4. timeouts' \in [state : Nat, request : Nat] /\ timeouts'.state = timeouts.state
    BY <1>1, <2>1
  <2>5. Calm
    BY Zenon, <1>2, <2>4 DEF IInv, Queues, Calm
  <2>6. QED
    BY Zenon, <1>2, <2>1, <2>2, <2>3, <2>4, <2>5, ToSame
<1>5. QED
  BY Zenon, <1>3, <1>4

\* Event_StateTimeoutInterval returns a waiting transaction to the pool; an
\* event of a timer that was cleared in the meantime does so as well.
LEMMA StateTimeoutStep ==
  ASSUME IInv, StateTimeout
  PROVE  IInv' /\ Simulated
<1>1. Sound(txn) /\ txn \in Transactions /\ timeouts \in [state : Nat, request : Nat]
  BY Zenon DEF IInv, Sound, Queues
<1>2. /\ approved' = approved /\ prepared' = prepared /\ timeouts.state > 0
      /\ UNCHANGED <<revertQueued, preparing, delegations>>
      /\ timeouts' = [timeouts EXCEPT !.state = @ - 1]
  BY Zenon DEF StateTimeout
<1>3. timeouts' \in [state : Nat, request : Nat]
  BY <1>1, <1>2
<1>4. Calm
  BY Zenon, <1>2, <1>3 DEF IInv, Queues, Calm
<1>5. CASE txn.state \in {"Assembling", "Signing", "Endorsement_Gathering"}
  <2>1. Become(MoveTo(txn, "Pooled"))
    BY Zenon, <1>5 DEF StateTimeout
  <2>2. Retriable(txn) /\ txn.requestID \in {0, txn.ids}
    BY Zenon, <1>1, <1>5, LiveFacts DEF Ended
  <2>3. QED
    BY Zenon, <1>1, <1>4, <2>1, <2>2, ToPool
<1>6. CASE txn.state = "Confirming_Dispatchable"
  <2> DEFINE t == CompletePreDispatchRequest(txn)
  <2>1. Become(MoveTo(t, "Pooled"))
    BY Zenon, <1>6 DEF StateTimeout
  <2>2. Retriable(txn) /\ txn.requestID \in {0, txn.ids}
    BY Zenon, <1>1, <1>6, LiveFacts DEF Ended
  <2>3. /\ t \in Transactions /\ t.ids = txn.ids /\ t.requestID = txn.requestID
        /\ t.assembleErrors = txn.assembleErrors /\ t.signErrors = txn.signErrors
        /\ t.revertCount = txn.revertCount
    BY Zenon, <1>1, CompletePreDispatchType
  <2> HIDE DEF t
  <2>4. Retriable(t)
    BY <2>2, <2>3 DEF Retriable
  <2>5. QED
    BY Zenon, <1>4, <2>1, <2>2, <2>3, <2>4, ToPool
<1>7. CASE txn.state \notin TimedStates
  <2>1. Become(txn)
    BY Zenon, <1>7 DEF StateTimeout, TimedStates
  <2>2. QED
    BY Zenon, <1>1, <1>2, <1>4, <1>7, <2>1, ToSame
<1>8. QED
  BY Zenon, <1>5, <1>6, <1>7 DEF TimedStates

\* Event_RequestTimeoutInterval repeats what was asked, under the same ids.
LEMMA RequestTimeoutStep ==
  ASSUME IInv, RequestTimeout
  PROVE  IInv' /\ Simulated
<1>1. Sound(txn) /\ txn \in Transactions /\ timeouts \in [state : Nat, request : Nat]
  BY Zenon DEF IInv, Sound, Queues
<1>2. /\ approved' = approved /\ prepared' = prepared /\ timeouts.request > 0
      /\ UNCHANGED <<revertQueued, preparing, delegations>>
      /\ timeouts' = [timeouts EXCEPT !.request = @ - 1]
  BY Zenon DEF RequestTimeout
<1>3. timeouts' \in [state : Nat, request : Nat] /\ timeouts'.state = timeouts.state
  BY <1>1, <1>2
<1>4. Calm
  BY Zenon, <1>2, <1>3 DEF IInv, Queues, Calm
<1>5. PICK m : /\ Become(m) /\ Sound(m) /\ m.state = txn.state /\ m.ids = txn.ids
               /\ m.post = txn.post /\ m.stateTimer = txn.stateTimer
  <2>1. CASE txn.state \in {"Assembling", "Confirming_Dispatchable"}
    <3> DEFINE m == Nudge(txn)
    <3>1. Become(m)
      BY Zenon, <2>1 DEF RequestTimeout
    <3>2. /\ m \in Transactions /\ m.state = txn.state /\ Kept(m, txn)
          /\ m.tolerances = txn.tolerances /\ m.prepareID = txn.prepareID
          /\ m.stateTimer = txn.stateTimer
      BY Zenon, <1>1 DEF Nudge, Transactions, Kept
    <3> HIDE DEF m
    <3>3. Sound(m) /\ m.ids = txn.ids /\ m.post = txn.post
      BY Zenon, <1>1, <3>2, SoundSame
    <3>4. QED
      BY Zenon, <3>1, <3>2, <3>3
  <2>2. CASE txn.state = "Endorsement_Gathering"
    <3> DEFINE m == SendEndorsementRequests(Nudge(txn))
    <3>1. Become(m)
      BY Zenon, <2>2 DEF RequestTimeout
    <3>2. /\ Sound(m) /\ m.state = txn.state /\ m.ids = txn.ids /\ m.post = txn.post
          /\ m.stateTimer = txn.stateTimer
      BY Zenon, <1>1, <2>2, NudgedEndorsements
    <3> HIDE DEF m
    <3>3. QED
      BY Zenon, <3>1, <3>2
  <2>3. CASE txn.state \notin {"Assembling", "Confirming_Dispatchable", "Endorsement_Gathering"}
    BY Zenon, <1>1, <2>3 DEF RequestTimeout
  <2>4. QED
    BY Zenon, <2>1, <2>2, <2>3
<1>6. QED
  BY Zenon, <1>2, <1>3, <1>4, <1>5, ToSame

\* Event_HeartbeatInterval counts, and the last of the grace period ends it.
LEMMA HeartbeatStep ==
  ASSUME IInv, HeartbeatInterval
  PROVE  IInv' /\ Simulated
<1> DEFINE n == txn.heartbeats + 1
           t == [txn EXCEPT !.heartbeats = n]
<1>1. /\ Sound(txn) /\ txn \in Transactions /\ Coherent(txn)
      /\ txn.state \in {"Confirmed", "Reverted"}
  BY Zenon DEF IInv, Sound, HeartbeatInterval
<1>2. Calm /\ approved' = approved /\ prepared' = prepared
  BY Zenon, UnchangedIsCalm DEF HeartbeatInterval, environment
<1>3. n \in Nat
  BY <1>1 DEF Transactions
<1>4. Become(t) \/ Become(MoveTo(t, "Final"))
  BY Zenon DEF HeartbeatInterval
<1> HIDE DEF n
<1>5. /\ t \in Transactions /\ t.state = txn.state /\ Kept(t, txn)
      /\ t.tolerances = txn.tolerances /\ t.prepareID = txn.prepareID
  BY Zenon, <1>1, <1>3 DEF Transactions, Kept
<1> HIDE DEF t
<1>6. Sound(t) /\ t.ids = txn.ids /\ t.post = txn.post
  BY Zenon, <1>1, <1>5, SoundSame
<1>7. CASE Become(t)
  BY Zenon, <1>1, <1>2, <1>5, <1>6, <1>7, ToSame DEF TimedStates
<1>8. CASE Become(MoveTo(t, "Final"))
  <2>1. /\ Coherent(t)
        /\ t.revertCount <= RevertRetryThreshold + 1
        /\ t.assembleErrors <= AssembleErrorRetryThreshold + 1
        /\ t.signErrors <= SignErrorRetryThreshold + 1
        /\ t.assembleErrors <= AssembleErrorRetryThreshold
        /\ t.signErrors <= SignErrorRetryThreshold
    BY Zenon, <1>1, <1>5, <1>6 DEF Sound, Retries
  <2>2. QED
    BY <1>2, <1>5, <1>6, <1>8, <2>1, ToEnd DEF Ended
<1>9. QED
  BY Zenon, <1>4, <1>7, <1>8
-----------------------------------------------------------------------------
\* The invariant holds of the transaction as it is created.
LEMMA InitIInv == Init => IInv
<1> SUFFICES ASSUME Init PROVE IInv
  BY Zenon
<1>1. Sound(NewTransaction(0)) /\ NewTransaction(0).state = "Initial"
  BY Zenon, NewSound
<1>2. Sound(txn) /\ txn.state = "Initial"
  BY Zenon, <1>1 DEF Init
<1>3. Sent /\ Running /\ Queues
  BY RetryAssumption DEF Init, Sent, Running, Queues
<1>4. Approved(txn) /\ Timed(txn)
  BY Zenon, <1>2 DEF Approved, Timed, TimedStates
<1>5. QED
  BY Zenon, <1>2, <1>3, <1>4 DEF IInv

\* Every step preserves the invariant and is a step of the abstract
\* specification, or none of its.
LEMMA NextStep == IInv /\ [Next]_vars => IInv' /\ Simulated
<1> SUFFICES ASSUME IInv, [Next]_vars PROVE IInv' /\ Simulated
  OBVIOUS
<1>1. CASE UNCHANGED vars
  <2>1. Sound(txn)' /\ Sent' /\ Queues' /\ Running'
    BY Zenon, <1>1 DEF IInv, Sent, Queues, Running, vars
  <2>2. Approved(txn)' /\ Timed(txn)'
    BY <1>1 DEF IInv, Approved, Timed, vars
  <2>3. QED
    BY Zenon, <1>1, <2>1, <2>2, Stays DEF IInv, vars
<1>2. CASE Answers
  <2>1. CASE \E id \in 1..txn.ids :
               \/ \E sigs \in SignaturesOf(id) :
                     AssembleSuccess(id, sigs) \/ SignedWhileAssembling(id, sigs)
               \/ \E n \in SignNames : Signed(id, [name |-> n, of |-> id])
               \/ SignError(id)
               \/ AssembleError(id)
               \/ AssembleRevert(id)
    BY Zenon, <2>1, ReceiveAssemblyStep, SignedStep, AssemblyErrorStep, AssembleRevertStep
       DEF AssembleSuccess, SignedWhileAssembling
  <2>2. CASE \E q \in requested :
               \/ \E mustSubmit \in Constraints : Endorsed(q, mustSubmit)
               \/ EndorseRevert(q)
               \/ EndorseError(q)
    BY <2>2, EndorsedStep, EndorseFailureStep
  <2>3. CASE \E q \in confirmations : DispatchRequestApproved(q)
    BY Zenon, <2>3, ApprovedStep
  <2>4. CASE \E reason \in {"BLOCK_HEIGHT_TOLERANCE", "PRIVATE_STATE_DATA_PENDING",
                            "NOT_CURRENT_DELEGATE", "TRANSACTION_UNKNOWN"} :
                AssembleRequestRejected(reason)
    BY Zenon, <2>4, RejectedStep
  <2>5. CASE \E reason \in {"NOT_CURRENT_DELEGATE", "TRANSACTION_UNKNOWN"} :
                PreDispatchRequestRejected(reason)
    BY <2>5, RejectedStep
  <2>6. QED
    BY <1>2, <2>1, <2>2, <2>3, <2>4, <2>5 DEF Answers
<1>3. CASE \E id \in revertQueued : QueuedRevert(id)
  BY Zenon, <1>3, QueuedRevertStep
<1>4. CASE \E g \in preparing :
             PrepareReads(g) \/ PrepareRetries(g) \/ PrepareSucceeded(g) \/ PrepareFailed(g)
  BY Zenon, <1>4, PrepareRunsStep, PrepareSucceededStep, PrepareFailedStep
<1>5. CASE Delegated \/ Redelegated \/ Selected
  BY Zenon, <1>5, DelegatedStep, RedelegatedStep, SelectedStep
<1>6. CASE \/ DependencyAssembled \/ AssembleCancelled
           \/ \E chained \in BOOLEAN : DependencyReset(chained)
  BY Zenon, <1>6, ResetStep
<1>7. CASE Dispatched \/ ConfirmedSuccess
  BY Zenon, <1>7, DispatchStep
<1>8. CASE \E retryable, unassembled \in BOOLEAN : ConfirmedReverted(retryable, unassembled)
  BY Zenon, <1>8, ConfirmedRevertedStep
<1>9. CASE DependencyReady
  BY <1>9, DependencyReadyStep
<1>10. CASE ChainedDependencyFailed \/ ChainedDependencyEvicted
  BY Zenon, <1>10, ChainedDependencyStep
<1>11. CASE Timers
  BY Zenon, <1>11, TimerFiresStep, StateTimeoutStep, RequestTimeoutStep DEF Timers
<1>12. CASE HeartbeatInterval
  BY Zenon, <1>12, HeartbeatStep
<1>13. QED
  BY Zenon, <1>1, <1>2, <1>3, <1>4, <1>5, <1>6, <1>7, <1>8, <1>9, <1>10, <1>11, <1>12 DEF Next

\* The invariant of the coordinator transaction.
LEMMA Invariant == Spec => []IInv
<1>1. IInv /\ [Next]_vars => IInv'
  BY Zenon, NextStep
<1>2. QED
  BY <1>1, InitIInv, PTL DEF Spec
-----------------------------------------------------------------------------
\* Ids, counters, timers and queues keep their types; the retry counts pass
\* their thresholds by one at most, and no answer can be to a request with an
\* id that was never given out (the whole state machine of the transaction).
THEOREM TypeCorrect == Spec => []TypeOK
<1>1. IInv => TypeOK
  <2> SUFFICES ASSUME IInv PROVE TypeOK
    BY Zenon
  <2>1. txn \in Transactions
    BY Zenon DEF IInv, Sound
  <2>2. TransactionOK
    BY <2>1, Zenon DEF TransactionOK, Transactions
  <2>3. /\ txn.revertCount <= RevertRetryThreshold + 1
        /\ txn.assembleErrors <= AssembleErrorRetryThreshold + 1
        /\ txn.signErrors <= SignErrorRetryThreshold + 1
    BY SMTT(40) DEF IInv, Sound, Retries
  <2>4. QED
    BY Zenon, <2>2, <2>3 DEF IInv, Sent, Running, Queues, TypeOK
<1>2. QED
  BY <1>1, Invariant, PTL

\* Whatever order the answers come in, a transaction is past the gathering only
\* with all signatures and a threshold of different endorsers of the assembly it
\* holds (action_Endorsed, hasUnfulfilledEndorsementRequirements).
THEOREM EndorsedByThresholdAlways == Spec => []EndorsedByThreshold
<1>1. IInv => EndorsedByThreshold
  BY Zenon DEF IInv, Sound, ByState, Attested, EndorsedByThreshold
<1>2. QED
  BY <1>1, Invariant, PTL

\* The prepare goroutine reads the transaction without its lock, but the result
\* that is accepted was built from the assembly the originator approved
\* (action_StartPrepare, validator_MatchesInFlightPrepareID).
THEOREM DispatchIsOfApprovedAlways == Spec => []DispatchIsOfApproved
<1>1. IInv => DispatchIsOfApproved
  BY DEF IInv, Approved, DispatchIsOfApproved
<1>2. QED
  BY <1>1, Invariant, PTL

\* No state that waits for others is entered without its timeout, and no
\* handler clears it without leaving the state (action_ScheduleStateTimeout).
THEOREM WaitsWithTimeoutAlways == Spec => []WaitsWithTimeout
<1>1. IInv => WaitsWithTimeout
  BY Zenon DEF IInv, Timed, WaitsWithTimeout
<1>2. QED
  BY <1>1, Invariant, PTL

\* The accounts of the invariant, summed up: a party that neither endorsed nor
\* failed still owes its answer, so what is outstanding suffices.
LEMMA AccountingHolds == IInv => EndorsementAccounting
<1> SUFFICES ASSUME IInv, txn.state = "Endorsement_Gathering", NEW r \in Requirements
             PROVE  LET endorsers == EndorsersOf(txn, r)
                        With(n) == {p \in PlanParties[r] : txn.pending[<<r, p>>] = n}
                        failed == With(Failed)
                        waiting == {p \in PlanParties[r] : txn.pending[<<r, p>>] > 0}
                    IN  /\ txn.failures[r] = Cardinality(failed)
                        /\ txn.reverts[r] <= txn.failures[r]
                        /\ endorsers \cap (failed \cup waiting) = {}
                        /\ endorsers \cup failed \cup waiting = PlanParties[r]
                        /\ Cardinality(endorsers) + Cardinality(waiting) >= Threshold(r)
  BY Zenon DEF EndorsementAccounting
<1> DEFINE E == EndorsersOf(txn, r)
           F == {p \in PlanParties[r] : txn.pending[<<r, p>>] = Failed}
           W == {p \in PlanParties[r] : txn.pending[<<r, p>>] > 0}
<1>1. Sound(txn) /\ txn \in Transactions /\ Accounts(txn)
  BY Zenon DEF IInv, Sound, ByState
<1>2. /\ PlanParties[r] \in SUBSET Parties /\ IsFiniteSet(PlanParties[r])
      /\ Cardinality(PlanParties[r]) \in Nat /\ Threshold(r) \in Nat
      /\ \A p \in PlanParties[r] : <<r, p>> \in Slots
  BY Zenon, PlanFacts
<1>3. /\ txn.failures[r] = Cardinality(F) /\ txn.reverts[r] <= txn.failures[r]
      /\ txn.failures[r] <= Tolerance(r)
  BY Zenon, <1>1 DEF Accounts
<1>4. E = {p \in PlanParties[r] : EndorsedBy(txn.post, r, p)}
  <2>1. \A i \in DOMAIN txn.post.endorsements :
           /\ txn.post.endorsements[i].of = txn.post.id
           /\ txn.post.endorsements[i].party \in PlanParties[txn.post.endorsements[i].req]
    BY Zenon, <1>1 DEF Sound, Coherent, OfAssembly
  <2>2. QED
    BY Zenon, <1>2, <2>1 DEF EndorsersOf, EndorsedBy, Received
<1>5. \A p \in PlanParties[r] : EndorsedBy(txn.post, r, p) <=> txn.pending[<<r, p>>] = 0
  <2> SUFFICES ASSUME NEW p \in PlanParties[r]
               PROVE  EndorsedBy(txn.post, r, p) <=> txn.pending[<<r, p>>] = 0
    BY Zenon
  <2> DEFINE s == <<r, p>>
  <2>1. s \in Slots /\ s[1] = r /\ s[2] = p
    BY Zenon, <1>2
  <2> HIDE DEF s
  <2>2. QED
    BY Zenon, <1>1, <2>1 DEF Accounts, s
<1>6. \A p \in PlanParties[r] : txn.pending[<<r, p>>] \in Nat \cup {Failed}
  BY <1>1, <1>2 DEF Transactions
<1>7. E \cap (F \cup W) = {} /\ E \cup F \cup W = PlanParties[r] /\ F \cap (E \cup W) = {}
  BY <1>4, <1>5, <1>6, SMTT(40) DEF Failed
<1>8. IsFiniteSet(E) /\ IsFiniteSet(F) /\ IsFiniteSet(W)
  BY Zenon, <1>2, <1>4, FS_Subset
<1> HIDE DEF E, F, W
<1>9. Cardinality(E) \in Nat /\ Cardinality(F) \in Nat /\ Cardinality(W) \in Nat
  BY Zenon, <1>8, FS_CardinalityType
<1>10. /\ IsFiniteSet(E \cup W)
       /\ Cardinality(E \cup W) = Cardinality(E) + Cardinality(W) - Cardinality(E \cap W)
  BY Zenon, <1>8, FS_Union
<1>11. Cardinality(E \cap W) = 0
  <2>1. E \cap W = {}
    BY Zenon, <1>7
  <2>2. QED
    BY <2>1, FS_EmptySet
<1>12. Cardinality((E \cup W) \cup F) =
         Cardinality(E \cup W) + Cardinality(F) - Cardinality((E \cup W) \cap F)
  BY Zenon, <1>8, <1>10, FS_Union
<1>13. Cardinality((E \cup W) \cap F) = 0
  <2>1. (E \cup W) \cap F = {}
    BY Zenon, <1>7
  <2>2. QED
    BY Zenon, <2>1, FS_EmptySet
<1>14. (E \cup W) \cup F = PlanParties[r]
  BY Zenon, <1>7
<1>15. Cardinality(E) + Cardinality(W) >= Threshold(r)
  <2>1. Cardinality(PlanParties[r]) = Cardinality(E \cup W) + Cardinality(F)
    <3>1. Cardinality(E \cup W) \in Nat
      BY Zenon, <1>10, FS_CardinalityType
    <3>2. Cardinality((E \cup W) \cup F) = Cardinality(PlanParties[r])
      BY Zenon, <1>14
    <3>3. QED
      BY <1>2, <1>9, <1>12, <1>13, <3>1, <3>2
  <2>2. Cardinality(E \cup W) = Cardinality(E) + Cardinality(W)
    BY <1>9, <1>10, <1>11
  <2>3. Cardinality(F) <= Cardinality(PlanParties[r]) - Threshold(r)
    BY Zenon, <1>3 DEF Tolerance
  <2>4. QED
    BY <1>2, <1>9, <2>1, <2>2, <2>3
<1>16. QED
  BY Zenon, <1>3, <1>7, <1>15 DEF E, F, W

\* Each party of a requirement is in exactly one of the three accounts, and the
\* transaction stops gathering as soon as the threshold is out of reach
\* (action_RecordEndorseFailure, guard_EndorseFailureExceedsTolerance).
THEOREM EndorsementAccountingAlways == Spec => []EndorsementAccounting
BY AccountingHolds, Invariant, PTL

\* The coordinator transaction implements AttestedDispatch, for every plan and
\* every threshold: each event is one step of it, or none (the state machine
\* from State_Assembling to State_Dispatched).
THEOREM Refinement == Spec => ImplementsAttestedDispatch
<1>1. Init => Abstract!AInit
  <2> SUFFICES ASSUME Init PROVE Abstract!AInit
    BY Zenon
  <2>1. txn.state = "Initial" /\ txn.post = NoAssembly
    BY Zenon DEF Init, NewTransaction
  <2>2. phaseBar = "open" /\ assemblyBar = txn.post.id
    BY Zenon, <2>1, Bars DEF Phased
  <2>3. /\ txn.post.id = 0 /\ SignedNames(txn) = {}
        /\ [r \in Requirements |-> EndorsersOf(txn, r)] = [r \in Requirements |-> {}]
    BY Zenon, <2>1, NothingAttested
  <2>4. QED
    BY Zenon, <2>2, <2>3 DEF Abstract!AInit, Abstract!Nobody
<1>2. IInv /\ [Next]_vars => [Abstract!ANext]_(Abstract!avars)
  BY Zenon, NextStep DEF Simulated
<1>3. QED
  BY <1>1, <1>2, Invariant, PTL DEF Spec, ImplementsAttestedDispatch, Abstract!ASpec
=============================================================================
