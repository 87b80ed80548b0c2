------------------------------ MODULE VaultRegister ------------------------------
(***************************************************************************)
(* What the vault file promises: a register that always holds a value that *)
(* was written to it as a whole.  A power loss may take back a write that  *)
(* is not yet on the disk; nothing ever leaves a part of a value behind.   *)
(***************************************************************************)
CONSTANTS Values,      \* what can be stored
          Nothing      \* no write is going on

VARIABLES stored,      \* what a reader finds now
          survivors,   \* what it may find after a power loss
          pending      \* the value being written

vars == <<stored, survivors, pending>>

Init ==
    /\ stored \in Values
    /\ survivors = {stored}
    /\ pending = Nothing

Begin(v) ==
    /\ pending = Nothing
    /\ pending' = v
    /\ UNCHANGED <<stored, survivors>>

\* The write takes effect for every reader at once.
Commit ==
    /\ pending # Nothing
    /\ stored' = pending
    /\ survivors' = survivors \cup {pending}
    /\ pending' = Nothing

\* An error, or the end of the process: the old value stays.
Abandon ==
    /\ pending # Nothing
    /\ pending' = Nothing
    /\ UNCHANGED <<stored, survivors>>

\* The disk has caught up.
Settle ==
    /\ survivors' = {stored}
    /\ UNCHANGED <<stored, pending>>

PowerLoss ==
    /\ stored' \in survivors
    /\ survivors' = {stored'}
    /\ pending' = Nothing

Next ==
    \/ \E v \in Values : Begin(v)
    \/ Commit
    \/ Abandon
    \/ Settle
    \/ PowerLoss

Spec == Init /\ [][Next]_vars

-----------------------------------------------------------------------------
(* Properties.                                                             *)

\* What a reader finds, now or after a power loss at any moment, is a value that
\* was written as a whole.
AlwaysWhole ==
    /\ stored \in survivors
    /\ survivors \subseteq Values
    /\ pending \in Values \cup {Nothing}

==============================================================================
