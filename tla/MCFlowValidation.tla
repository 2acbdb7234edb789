-------------------------- MODULE MCFlowValidation --------------------------
(***************************************************************************)
(* A small instance of FlowValidation.  A behaviour stays in one of three  *)
(* corners of it: two admins whose calls overlap, one call with two of a   *)
(* crash, a failing read, a reconnect and a cancelled or revoked entry,    *)
(* and calls in turn with two transactions.  Only the second corner        *)
(* cancels or revokes the entry.                                           *)
(***************************************************************************)
EXTENDS FlowValidation, TLC

CONSTANT MCTx   \* the transaction of the corners with one

VARIABLE scenario

MCInit == Init /\ scenario \in {"races", "faults", "in turn"}

OneTx == \A x \in Txs \ {MCTx} : txs'[x] = txs[x]
MCTxFirst == txs'[MCTx] # "unsent" \/ OneTx
TwoFaults ==
    reconnects' + readFails' + crashes' <= IF entry' \in {"PENDING", "VALIDATED"} THEN 2 ELSE 1
NoFaults ==
    UNCHANGED <<reconnects, readFails, crashes>> /\ entry' \in {"PENDING", "VALIDATED"}

MCNext ==
    /\ Next /\ UNCHANGED scenario
    /\ scenario = "races" => OneTx /\ NoFaults
    /\ scenario = "faults" => CallsInTurn' /\ OneTx /\ calls' <= 1 /\ TwoFaults
    /\ scenario = "in turn" => CallsInTurn' /\ MCTxFirst /\ NoFaults

MCSpec == MCInit /\ [][MCNext]_<<scenario, vars>>

\* No action and no property names an admin.
Symmetry == Permutations(Admins)

-----------------------------------------------------------------------------
\* lookupSubmittedValidation: when calls do not overlap, a record that says
\* SUCCEEDED names a transaction that the chain included.
MCSucceededIsIncluded == scenario # "races" => IncludedInv
=============================================================================
