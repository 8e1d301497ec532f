-------------------------- MODULE AttestedDispatch --------------------------
(***************************************************************************)
(* What a coordinator promises about the dispatch of one transaction: an   *)
(* assembly is dispatched only after every SIGN attestation of its plan    *)
(* has a signature, every ENDORSE attestation has its threshold of         *)
(* different endorsers and the originator has approved it; signatures,     *)
(* endorsements and the approval being all of that one assembly.  Until    *)
(* then, and also afterwards, the assembly may be given up for another.    *)
(***************************************************************************)
EXTENDS Integers, FiniteSets

CONSTANTS
    Requirements,   \* names of the ENDORSE attestations
    Endorsers,      \* the parties each of them may be given by
    Needed,         \* how many of them it takes
    SignNames       \* names of the SIGN attestations

VARIABLES
    assembly,       \* the number of the assembly at hand, 0 for none
    signed,         \* its SIGN attestations that have a signature
    endorsed,       \* who endorsed it, by requirement
    phase           \* "open", "approved", "prepared", "dispatched" or "confirmed"

avars == <<assembly, signed, endorsed, phase>>

Nobody == [r \in Requirements |-> {}]
Attested ==
    /\ SignNames \subseteq signed
    /\ \A r \in Requirements : Cardinality(endorsed[r]) >= Needed[r]

AInit == assembly = 0 /\ signed = {} /\ endorsed = Nobody /\ phase = "open"

Assemble ==
    /\ phase = "open" /\ phase' = "open"
    /\ assembly' \in Nat \ {0}
    /\ signed' \in SUBSET SignNames
    /\ endorsed' = Nobody

Sign(n) ==
    /\ phase = "open" /\ assembly # 0
    /\ signed' = signed \cup {n}
    /\ UNCHANGED <<assembly, endorsed, phase>>

Endorse(r, p) ==
    /\ phase = "open" /\ assembly # 0
    /\ endorsed' = [endorsed EXCEPT ![r] = @ \cup {p}]
    /\ UNCHANGED <<assembly, signed, phase>>

Approve ==
    /\ phase = "open" /\ assembly # 0 /\ Attested
    /\ phase' = "approved"
    /\ UNCHANGED <<assembly, signed, endorsed>>

\* The dispatch is built from the assembly that was approved; who attested it
\* is no longer needed.
Prepare ==
    /\ phase = "approved"
    /\ phase' = "prepared"
    /\ signed' = {} /\ endorsed' = Nobody
    /\ UNCHANGED assembly

Dispatch ==
    /\ phase = "prepared"
    /\ phase' = "dispatched"
    /\ UNCHANGED <<assembly, signed, endorsed>>

Confirm ==
    /\ phase = "dispatched"
    /\ phase' = "confirmed"
    /\ UNCHANGED <<assembly, signed, endorsed>>

\* The attempt is over: the assembly is kept for the record or thrown away.
GiveUp ==
    /\ phase' = "open"
    /\ \/ UNCHANGED <<assembly, signed, endorsed>>
       \/ assembly' = 0 /\ signed' = {} /\ endorsed' = Nobody

ANext ==
    \/ Assemble
    \/ \E n \in SignNames : Sign(n)
    \/ \E r \in Requirements : \E p \in Endorsers[r] : Endorse(r, p)
    \/ Approve \/ Prepare \/ Dispatch \/ Confirm
    \/ GiveUp

ASpec == AInit /\ [][ANext]_avars

=============================================================================
