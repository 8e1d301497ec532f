-------------------------- MODULE MCReliableMessages --------------------------
(* An instance of ReliableMessages for TLC.                                    *)
EXTENDS ReliableMessages

\* A privacy group and a state the receiver rejects, which may meet in a batch;
\* a type the sender cannot build, before one it can.
MCKindChoices == {<<"group", "badState">>, <<"prepared", "state">>}

\* Two messages that are accepted.
MCKindStates == {<<"state", "state">>}
===============================================================================
