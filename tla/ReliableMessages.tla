--------------------------- MODULE ReliableMessages ---------------------------
(* Reliable messages between two nodes (core/go/internal/transportmgr): the    *)
(* sending node writes a message in the caller's database transaction, the     *)
(* sender goroutine of the peer scans the table and sends, the receiving node  *)
(* stores what it is sent in batches of its flush writer and answers with acks *)
(* and nacks, which the sending node writes to its ack table.                  *)
(*                                                                             *)
(* A message is its database sequence number.  Sequence numbers are handed out *)
(* when the row is inserted, so transactions commit out of sequence order.     *)
EXTENDS Integers, FiniteSets, Sequences, FiniteSetsExt

CONSTANTS
    MaxSeq,        \* bound: rows ever inserted
    MaxTx,         \* bound: messages of one SendReliable call
    PageSize,      \* reliableMessagePageSize
    Threshold,     \* sendFailureResetThreshold
    BatchSize,     \* the receiving flush writer's batchMaxSize
    KindChoices,   \* what the kinds of the messages may be, by sequence
    Faults,        \* the faults that may happen, a subset of AllFaults
    MaxFaults      \* bound: faults in a behaviour

\* state: any message the receiver stores and acks by itself; badState: one whose
\* state it rejects; group: a privacy group, stored only with its genesis state;
\* prepared: RMTPreparedTransaction.
AllKinds == {"state", "badState", "group", "prepared"}

\* failure: a query or a send of the sending node fails; loss: a message is lost
\* or a batch rolled back; reap: the peer is found inactive; restart: of a node.
AllFaults == {"failure", "loss", "reap", "restart"}

ASSUME BoundsAssumption ==
    /\ MaxSeq \in Nat /\ MaxTx \in Nat /\ PageSize \in Nat \ {0} /\ BatchSize \in Nat \ {0}
    /\ Threshold \in Nat \ {0} /\ KindChoices \subseteq [1 .. MaxSeq -> AllKinds]
    /\ Faults \subseteq AllFaults /\ MaxFaults \in Nat

Seqs == 1 .. MaxSeq
NoSeq == MaxSeq + 1            \* math.MaxUint64: no sequence is pending

VARIABLES
    kind,          \* the kind of the message with each sequence
    \* the sending node's database
    lastSeq,       \* the last sequence handed out
    rows,          \* committed rows of reliable_msgs
    acks,          \* reliable_msg_acks
    \* the sending node's memory
    open,          \* transactions that have called SendReliable and not ended
    hooks,         \* post-commit notifications still to run
    peer,          \* whether there is a peer object for the node in tm.peers
    floor,         \* lowestPendingSeq of that object
    token,         \* persistedMsgsAvailable holds a notification
    scanned,       \* lastFullScan is set
    errors,        \* consecutiveSendErrors
    pc,            \* where the sender goroutine is, "stopped" when there is none
    checkNew,      \* the scan was triggered by a notification
    after,         \* the scan asks for sequences above this one
    page,          \* what remains to send of the page
    more,          \* the page was a full one
    aged,          \* unanswered messages older than reliableMessageResend
    \* the wire, and the receiving node
    wire,          \* messages in flight or in the queue of the receiving flush writer
    applied,       \* what the receiving node has stored
    answers,       \* acks and nacks in flight
    \* history
    seen,          \* unanswered messages a scan has selected
    faults         \* how many faults there have been

sendDb == <<kind, lastSeq, rows>>
sender == <<pc, checkNew, after, page, more>>
object == <<peer, floor, token, scanned, errors>>
calls == <<open, hooks>>
flight == <<wire, answers>>
vars == <<sendDb, acks, calls, object, sender, aged, flight, applied, seen, faults>>

Answers == [of : Seqs, ok : BOOLEAN]

\* A transaction, and its post-commit function, hold the peer object SendReliable
\* was given: the current one, or one that has left tm.peers since.
Transactions == [lo : Seqs, hi : Seqs, current : BOOLEAN]
Notifications == [min : Seqs, current : BOOLEAN]

Init ==
    /\ kind \in KindChoices /\ lastSeq = 0 /\ rows = {}
    /\ acks = [s \in Seqs |-> "none"]
    /\ open = {} /\ hooks = {}
    /\ peer = FALSE /\ floor = NoSeq /\ token = FALSE /\ scanned = FALSE /\ errors = 0
    /\ pc = "stopped" /\ checkNew = FALSE /\ after = 0 /\ page = {} /\ more = FALSE
    /\ aged = {} /\ wire = {} /\ answers = {} /\ applied = {} /\ seen = {}
    /\ faults = 0

Fault(f) == f \in Faults /\ faults < MaxFaults /\ faults' = faults + 1

-------------------------------------------------------------------------------
(* The peer object                                                             *)

\* A scan from the beginning of the table, or the wait for the next event.
EnterScan == pc' = "query" /\ checkNew' = FALSE /\ after' = 0 /\ page' = {} /\ more' = FALSE
EnterWait == pc' = "wait" /\ checkNew' = FALSE /\ after' = 0 /\ page' = {} /\ more' = FALSE
EnterStopped == pc' = "stopped" /\ checkNew' = FALSE /\ after' = 0 /\ page' = {} /\ more' = FALSE

\* connectPeer: a peer that is not in the map is made, with no pending sequence.
ConnectPeer ==
    IF ~peer
    THEN /\ peer' = TRUE
         /\ floor' = NoSeq /\ token' = FALSE /\ scanned' = FALSE /\ errors' = 0
    ELSE UNCHANGED object

\* getPeer(sending = true): connect, and start the sender unless it runs.  A
\* sender that starts begins with a full scan, unless the object's last full
\* scan was less than a resend interval ago.
GetPeerForSend ==
    /\ ConnectPeer
    /\ \/ pc # "stopped" /\ UNCHANGED sender
       \/ pc = "stopped" /\ EnterScan
       \/ pc = "stopped" /\ peer /\ scanned /\ EnterWait

\* getPeer(sending = true) when startSender finds no transport: the object stays
\* in the map with no sender and the caller gets the error.
ConnectFails ==
    /\ pc = "stopped" /\ ~peer
    /\ Fault("failure")
    /\ ConnectPeer
    /\ UNCHANGED <<sendDb, acks, calls, sender, aged, flight, applied, seen>>

\* Mutant: the range of the new rows starts one too low.
SendReliable_LowStart(n) ==
    /\ lastSeq + n <= MaxSeq
    /\ GetPeerForSend
    /\ lastSeq' = lastSeq + n
    /\ open' = open \cup {[lo |-> lastSeq, hi |-> lastSeq + n, current |-> TRUE]}
    /\ UNCHANGED <<kind, rows, acks, hooks, aged, flight, applied, seen, faults>>

\* SendReliable: get the peer, insert the rows, and register the notification
\* of the lowest new sequence with the transaction.
SendReliable(n) ==
    /\ lastSeq + n <= MaxSeq
    /\ GetPeerForSend
    /\ lastSeq' = lastSeq + n
    /\ open' = open \cup {[lo |-> lastSeq + 1, hi |-> lastSeq + n, current |-> TRUE]}
    /\ UNCHANGED <<kind, rows, acks, hooks, aged, flight, applied, seen, faults>>

\* The caller's transaction commits; its post-commit function is still to run.
Commit(t) ==
    /\ open' = open \ {t}
    /\ rows' = rows \cup (t.lo .. t.hi)
    /\ hooks' = hooks \cup {[min |-> t.lo, current |-> t.current]}
    /\ UNCHANGED <<kind, lastSeq, acks, object, sender, aged, flight, applied, seen, faults>>

Rollback(t) ==
    /\ open' = open \ {t}
    /\ UNCHANGED <<sendDb, acks, hooks, object, sender, aged, flight, applied, seen, faults>>

\* Mutant: the floor is set to the new sequence, also when it is higher.
NotifyPersistedMsgAvailable_Overwrites(h) ==
    /\ hooks' = hooks \ {h}
    /\ IF h.current
       THEN floor' = h.min /\ token' = TRUE
       ELSE UNCHANGED <<floor, token>>
    /\ UNCHANGED <<sendDb, acks, open, peer, scanned, errors, sender, aged, flight,
                   applied, seen, faults>>

\* notifyPersistedMsgAvailableFromSeq, on the object SendReliable was given: when
\* that object has been reaped nobody listens to it.
NotifyPersistedMsgAvailable(h) ==
    /\ hooks' = hooks \ {h}
    /\ IF h.current
       THEN floor' = Min({floor, h.min}) /\ token' = TRUE
       ELSE UNCHANGED <<floor, token>>
    /\ UNCHANGED <<sendDb, acks, open, peer, scanned, errors, sender, aged, flight,
                   applied, seen, faults>>

\* Any other traffic to the node (queueFireAndForget) gets the peer for sending.
QueueFireAndForget ==
    /\ pc = "stopped"
    /\ GetPeerForSend
    /\ UNCHANGED <<sendDb, acks, calls, aged, flight, applied, seen, faults>>

\* The reaper finds the peer inactive: the object leaves the map and its sender
\* is stopped and waited for.
ReapPeer ==
    /\ peer
    /\ Fault("reap")
    /\ open' = {[t EXCEPT !.current = FALSE] : t \in open}
    /\ hooks' = {[h EXCEPT !.current = FALSE] : h \in hooks}
    /\ peer' = FALSE /\ floor' = NoSeq /\ token' = FALSE /\ scanned' = FALSE /\ errors' = 0
    /\ EnterStopped
    /\ UNCHANGED <<sendDb, acks, aged, flight, applied, seen>>

-------------------------------------------------------------------------------
(* The sender goroutine                                                        *)

\* Mutant: the timer starts a scan for new messages only.
ResendTimer_NewOnly ==
    /\ pc = "wait"
    /\ pc' = "consume" /\ checkNew' = TRUE /\ UNCHANGED <<after, page, more>>
    /\ UNCHANGED <<sendDb, acks, calls, object, aged, flight, applied, seen, faults>>

ResendTimer ==
    /\ pc = "wait"
    /\ EnterScan
    /\ UNCHANGED <<sendDb, acks, calls, object, aged, flight, applied, seen, faults>>

TriggeredScan ==
    /\ pc = "wait" /\ token
    /\ token' = FALSE
    /\ pc' = "consume" /\ checkNew' = TRUE
    /\ UNCHANGED <<after, page, more, sendDb, acks, calls, peer, floor, scanned, errors,
                   aged, flight, applied, seen, faults>>

\* A triggered scan takes lowestPendingSeq; when it is unset the notification
\* was stale.
ConsumeFloor ==
    /\ pc = "consume"
    /\ floor' = NoSeq
    /\ IF floor = NoSeq
       THEN EnterWait
       ELSE pc' = "query" /\ after' = floor - 1 /\ UNCHANGED <<checkNew, page, more>>
    /\ UNCHANGED <<sendDb, acks, calls, peer, token, scanned, errors, aged, flight,
                   applied, seen, faults>>

\* The lowest PageSize of the sequences S.
PageOf(S) == {s \in S : Cardinality({t \in S : t < s}) < PageSize}

Unacked == {s \in rows : acks[s] = "none"}

\* One page is read and its messages are built.  A full scan leaves the young
\* ones out; a type with no builder is given an error ack.
QueryPage ==
    LET found == PageOf({s \in Unacked : s > after})
        selected == IF checkNew THEN found ELSE found \cap aged
        unsupported == {s \in selected : kind[s] = "prepared"}
    IN  /\ pc = "query"
        /\ acks' = [s \in Seqs |-> IF s \in unsupported THEN "nack" ELSE acks[s]]
        /\ page' = selected \ unsupported
        /\ after' = IF found = {} THEN after ELSE Max(found)
        /\ more' = (Cardinality(found) = PageSize)
        /\ pc' = "send"
        /\ seen' = (seen \cup selected) \ unsupported
        /\ aged' = aged \ unsupported
        /\ UNCHANGED <<checkNew, sendDb, calls, object, flight, applied, faults>>

Send ==
    /\ pc = "send" /\ page # {}
    /\ wire' = wire \cup {Min(page)}
    /\ page' = page \ {Min(page)}
    /\ errors' = 0
    /\ UNCHANGED <<pc, checkNew, after, more, sendDb, acks, calls, peer, floor, token,
                   scanned, aged, answers, applied, seen, faults>>

\* A page that is not a full one ends the scan.
PageDone ==
    /\ pc = "send" /\ page = {}
    /\ IF more
       THEN pc' = "query" /\ UNCHANGED <<checkNew, after, page, more, scanned>>
       ELSE EnterWait /\ scanned' = (scanned \/ ~checkNew)
    /\ UNCHANGED <<sendDb, acks, calls, peer, floor, token, errors, aged, flight,
                   applied, seen, faults>>

\* The scan is retried with the same checkNew: a triggered one from a floor that
\* has been consumed already.
RetryScan ==
    IF checkNew
    THEN pc' = "consume" /\ UNCHANGED <<checkNew, after>> /\ page' = {} /\ more' = FALSE
    ELSE EnterScan

QueryFails ==
    /\ pc = "query"
    /\ Fault("failure")
    /\ IF errors >= Threshold THEN EnterStopped ELSE RetryScan
    /\ UNCHANGED <<sendDb, acks, calls, object, aged, flight, applied, seen>>

\* A send fails after its short retries: the page is abandoned, and with enough
\* consecutive errors the sender returns.
SendFails ==
    /\ pc = "send" /\ page # {}
    /\ Fault("failure")
    /\ errors' = errors + 1
    /\ IF errors + 1 >= Threshold THEN EnterStopped ELSE RetryScan
    /\ UNCHANGED <<sendDb, acks, calls, peer, floor, token, scanned, aged, flight,
                   applied, seen>>

\* The same for a fire and forget message taken from the send queue.
FireAndForgetFails ==
    /\ pc = "wait"
    /\ Fault("failure")
    /\ errors' = errors + 1
    /\ IF errors + 1 >= Threshold THEN EnterStopped ELSE UNCHANGED sender
    /\ UNCHANGED <<sendDb, acks, calls, peer, floor, token, scanned, aged, flight,
                   applied, seen>>

Age(s) ==
    /\ s \in Unacked \ aged
    /\ aged' = aged \cup {s}
    /\ UNCHANGED <<sendDb, acks, calls, object, sender, flight, applied, seen, faults>>

-------------------------------------------------------------------------------
(* The wire, and the receiving node                                            *)

Lose ==
    /\ Fault("loss")
    /\ \/ \E s \in wire : wire' = wire \ {s} /\ UNCHANGED answers
       \/ \E a \in answers : answers' = answers \ {a} /\ UNCHANGED wire
    /\ UNCHANGED <<sendDb, acks, calls, object, sender, aged, applied, seen>>

\* What a batch stores.  Its states are inserted together or, when one of them is
\* rejected, one by one; a privacy group is stored only when the states of the
\* batch were inserted together.
Stored(B) ==
    {s \in B : kind[s] = "state" \/ (kind[s] = "group" /\ \A t \in B : kind[t] # "badState")}

\* handleReliableMsgBatch: one transaction for the batch, acks and nacks after it.
HandleReliableMsgBatch(B) ==
    /\ applied' = applied \cup Stored(B)
    /\ answers' = answers \cup {[of |-> s, ok |-> s \in Stored(B)] : s \in B}
    /\ wire' = wire \ B
    /\ UNCHANGED <<sendDb, acks, calls, object, sender, aged, seen, faults>>

\* Mutant: the acks leave before the transaction has committed.
BatchFails_Answered(B) ==
    /\ Fault("loss")
    /\ wire' = wire \ B
    /\ answers' = answers \cup {[of |-> s, ok |-> s \in Stored(B)] : s \in B}
    /\ UNCHANGED <<sendDb, acks, calls, object, sender, aged, applied, seen>>

\* The transaction of the batch fails: nothing is stored and nothing answered.
BatchFails(B) ==
    /\ Fault("loss")
    /\ wire' = wire \ B
    /\ UNCHANGED <<sendDb, acks, calls, object, sender, aged, answers, applied, seen>>

\* The sending node receives an answer: it makes a peer object if there is none,
\* and writes the answer unless the message is unknown or has an answer already.
WriteAck(a) ==
    /\ answers' = answers \ {a}
    /\ ConnectPeer
    /\ acks' = [acks EXCEPT ![a.of] = IF a.of \in rows /\ @ = "none"
                                      THEN IF a.ok THEN "ack" ELSE "nack"
                                      ELSE @]
    /\ aged' = aged \ {a.of} /\ seen' = seen \ {a.of}
    /\ UNCHANGED <<sendDb, calls, sender, wire, applied, faults>>

RestartSender ==
    /\ Fault("restart")
    /\ open' = {} /\ hooks' = {}
    /\ peer' = FALSE /\ floor' = NoSeq /\ token' = FALSE /\ scanned' = FALSE /\ errors' = 0
    /\ EnterStopped
    /\ UNCHANGED <<sendDb, acks, aged, flight, applied, seen>>

\* The receiving node loses what its writer had in the queue.
RestartReceiver(B) ==
    /\ Fault("restart")
    /\ wire' = wire \ B
    /\ UNCHANGED <<sendDb, acks, calls, object, sender, aged, answers, applied, seen>>

-------------------------------------------------------------------------------
\* What the flush writer of the receiving node may find in its queue.
Batches == {B \in SUBSET wire : B # {} /\ Cardinality(B) <= BatchSize}

Next ==
    \/ \E n \in 1 .. MaxTx : SendReliable(n)
    \/ \E t \in open : Commit(t) \/ Rollback(t)
    \/ \E h \in hooks : NotifyPersistedMsgAvailable(h)
    \/ QueueFireAndForget \/ ConnectFails \/ ReapPeer
    \/ ResendTimer \/ TriggeredScan \/ ConsumeFloor \/ QueryPage \/ Send \/ PageDone
    \/ QueryFails \/ SendFails \/ FireAndForgetFails
    \/ \E s \in Seqs : Age(s)
    \/ Lose
    \/ \E B \in Batches : HandleReliableMsgBatch(B) \/ BatchFails(B) \/ RestartReceiver(B)
    \/ \E a \in answers : WriteAck(a)
    \/ RestartSender

\* The goroutines that exist keep running, time passes, and the wire delivers
\* what it does not lose.  Nothing obliges a caller to commit, or anybody to
\* send to the node again.
Fairness ==
    /\ WF_vars(ResendTimer) /\ WF_vars(TriggeredScan) /\ WF_vars(ConsumeFloor)
    /\ WF_vars(QueryPage) /\ WF_vars(Send) /\ WF_vars(PageDone)
    /\ WF_vars(\E h \in hooks : NotifyPersistedMsgAvailable(h))
    /\ \A s \in Seqs : WF_vars(Age(s)) /\ WF_vars(\E B \in Batches : s \in B /\ HandleReliableMsgBatch(B))
    /\ WF_vars(\E a \in answers : WriteAck(a))

Spec == Init /\ [][Next]_vars
FairSpec == Spec /\ Fairness

-------------------------------------------------------------------------------
(* Properties                                                                  *)

\* Sequences are those handed out, a transaction and its notification cover rows
\* it inserted, and the floor is one of them or unset (SendReliable, peer).
TypeOK ==
    /\ kind \in KindChoices /\ lastSeq \in 0 .. MaxSeq
    /\ rows \subseteq 1 .. lastSeq /\ acks \in [Seqs -> {"none", "ack", "nack"}]
    /\ open \subseteq Transactions /\ hooks \subseteq Notifications
    /\ peer \in BOOLEAN
    /\ floor \in 1 .. NoSeq /\ token \in BOOLEAN /\ scanned \in BOOLEAN /\ errors \in Nat
    /\ pc \in {"stopped", "wait", "consume", "query", "send"} /\ checkNew \in BOOLEAN
    /\ after \in 0 .. MaxSeq /\ page \subseteq Seqs /\ more \in BOOLEAN
    /\ aged \subseteq Seqs /\ wire \subseteq Seqs /\ answers \subseteq Answers
    /\ applied \subseteq Seqs /\ seen \subseteq Seqs
    /\ faults \in 0 .. MaxFaults

\* A message that the sending node has recorded as acknowledged is stored in the
\* receiving node's database, whatever was lost, resent, rolled back or restarted
\* on the way (acks are queued by the post-commit function of the batch,
\* reliable_msg_handler.go:99).
AckedIsApplied == \A s \in Seqs : acks[s] = "ack" => s \in applied

\* As long as no scan has failed and no peer or node has gone away, a committed
\* message is never left to the resend interval: a scan has selected it, or its
\* notification has still to run, or the floor is at or below it and a scan that
\* takes the floor is due, or the triggered scan in progress has still to reach
\* it (notifyPersistedMsgAvailableFromSeq and the floor of reliableMessageScan).
NewIsNoticed ==
    faults = 0 =>
        \A s \in Unacked \ seen :
            \/ \E h \in hooks : h.min <= s
            \/ floor <= s /\ (token \/ pc = "consume")
            \/ checkNew /\ s > after /\ (pc = "query" \/ (pc = "send" /\ more))

\* While the sender goroutine of the peer is there, every committed message
\* is in the end acknowledged or refused, in spite of losses, failed batches and
\* restarts of the receiver.
SettledWhileConnected ==
    <>[](pc # "stopped") => \A s \in Seqs : s \in rows ~> acks[s] # "none"

\* A committed message is sent with indefinite retry, over a restart of the node
\* too, until it is answered (components/transportmgr.go:113).
Settled == \A s \in Seqs : s \in rows ~> acks[s] # "none"
===============================================================================
