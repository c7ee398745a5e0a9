--------------------------- MODULE SettingsStore ---------------------------
(***************************************************************************)
(* What settings/journal.c promises its callers: a map from setting        *)
(* indexes to values that survives power loss.  Only a write call changes   *)
(* it, only at the index that call names, and a call that answers "ok" has  *)
(* stored its value.  A call that answers "failed", or that power loss      *)
(* interrupts, may have left the old value, the new one or a damaged one.   *)
(***************************************************************************)
CONSTANTS Index, Values, NoValue

VARIABLES stored,   \* what a read of each index returns, now or after a reboot
          call,     \* the write call in progress, or NoCall
          reply,    \* the answer of the last completed write call
          online    \* whether settings_journal_initialize has succeeded

vars == <<stored, call, reply, online>>

NoCall == [index |-> NoValue, value |-> NoValue]

Init == /\ stored = [i \in Index |-> NoValue]
        /\ call = NoCall
        /\ reply = "none"
        /\ online = FALSE

PowerUp == /\ ~online
           /\ online' = TRUE
           /\ UNCHANGED <<stored, call, reply>>

PowerLoss == /\ online' = FALSE
             /\ call' = NoCall
             /\ reply' = "none"
             /\ UNCHANGED stored

Write(i, v) == /\ online /\ call = NoCall
               /\ call' = [index |-> i, value |-> v]
               /\ reply' = "none"
               /\ UNCHANGED <<stored, online>>

Store == /\ call # NoCall
         /\ stored' = [stored EXCEPT ![call.index] = call.value]
         /\ UNCHANGED <<call, reply, online>>

Confirm == /\ call # NoCall
           /\ stored[call.index] = call.value
           /\ call' = NoCall
           /\ reply' = "ok"
           /\ UNCHANGED <<stored, online>>

Fail == /\ call # NoCall
        /\ \/ UNCHANGED stored
           \/ \E w \in Values : stored' = [stored EXCEPT ![call.index] = w]
        /\ call' = NoCall
        /\ reply' = "failed"
        /\ UNCHANGED online

Next == \/ PowerUp \/ PowerLoss \/ Store \/ Confirm \/ Fail
        \/ \E i \in Index, v \in Values : Write(i, v)

Spec == Init /\ [][Next]_vars
=============================================================================
