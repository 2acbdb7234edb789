----------------------------- MODULE FeePreflight -----------------------------
(***************************************************************************)
(* Who pays a transaction of the agent, and whether it can: feeAllowanceOf *)
(* and preflightFee before broadcastMsg signs.  The chain's own rules are  *)
(* modelled as the feegrant module of the Cosmos SDK applies them.  Between*)
(* the reads of the check and the delivery others may spend, grants may    *)
(* change and time passes.                                                 *)
(***************************************************************************)
EXTENDS Integers, FiniteSets, FiniteSetsExt

CONSTANTS
    MaxAmount,    \* bound: amounts
    MaxTime,      \* bound: time
    MaxChanges    \* bound: changes by others

Amounts == 0..MaxAmount
Times == 0..MaxTime
None == -1   \* an unset expiration, or no limit

NoGrant == [kind |-> "none"]

\* The grant of the Corporation: a BasicAllowance, a PeriodicAllowance, either
\* of them inside an AllowedMsgAllowance, which changes nothing here, or one of
\* another kind.
Allowances ==
    {NoGrant, [kind |-> "other"]}
    \cup [kind : {"basic"}, limit : Amounts \cup {None}, expires : Times \cup {None}]
    \cup [kind : {"periodic"}, limit : Amounts \cup {None}, expires : Times \cup {None},
          reset : Times, budget : Amounts, left : Amounts]

VARIABLES
    grant,    \* the fee grant of the Corporation to the agent
    corp, own,\* balances
    now,
    step,     \* the transaction: "idle", then the reads of the check, "signed", "end"
    granter,  \* the transaction names the Corporation
    allow,    \* feeAllowance as it was read
    fee,      \* the fee of the simulation
    reason,   \* why the check stopped it
    fresh,    \* ghost: nothing changed since the check began
    paid,     \* the payer the chain charged, "refused" if it refused the fee
    changes

tx == <<step, granter, allow, fee, reason, paid>>
world == <<grant, corp, own, now>>
vars == <<world, tx, fresh, changes>>

NoAllowance == [unlimited |-> FALSE, remaining |-> None]

Init ==
    /\ grant \in Allowances /\ corp \in {0, MaxAmount} /\ own \in {0, MaxAmount} /\ now = 0
    /\ granter \in BOOLEAN /\ fee = 0 /\ reason = "none" /\ fresh = TRUE
    /\ step = "idle" /\ allow = NoAllowance /\ paid = "none" /\ changes = 0

-----------------------------------------------------------------------------
\* What the agent reads.

hasPassed(t) == t # None /\ t <= now

\* Mutant: the budget of a period that is over is not renewed, and the overall
\* limit is not looked at.
allowancePeriodOnly(g) ==
    IF g.kind \in {"none", "other"} \/ hasPassed(g.expires) THEN NoAllowance
    ELSE IF g.kind = "basic"
         THEN [unlimited |-> g.limit = None, remaining |-> g.limit]
    ELSE [unlimited |-> FALSE, remaining |-> IF hasPassed(g.reset) THEN g.budget ELSE g.left]

feeAllowanceOf(g) ==
    IF g.kind \in {"none", "other"} \/ hasPassed(g.expires) THEN NoAllowance
    ELSE IF g.kind = "basic"
         THEN [unlimited |-> g.limit = None, remaining |-> g.limit]
    ELSE LET inPeriod == IF hasPassed(g.reset) THEN g.budget ELSE g.left
         IN  [unlimited |-> FALSE,
              remaining |-> IF g.limit = None THEN inPeriod ELSE Min({inPeriod, g.limit})]

Stop(why) == step' = "end" /\ reason' = why
Go(s) == step' = s /\ reason' = reason

\* The allowance, if the transaction names the Corporation; the read can fail.
readAllowance ==
    /\ step = "idle"
    /\ \/ granter /\ allow' = feeAllowanceOf(grant)
          /\ IF allow' = NoAllowance THEN Stop("FEEGRANT_EXPIRED") ELSE Go("simulate")
       \/ granter /\ Stop("PREFLIGHT_ERROR") /\ UNCHANGED allow
       \/ ~granter /\ Go("simulate") /\ UNCHANGED allow
    /\ fresh' = TRUE /\ UNCHANGED <<world, granter, fee, paid, changes>>

\* estimateFee simulates the transaction with its granter.
estimateFee ==
    /\ step = "simulate"
    /\ \/ \E f \in Amounts \ {0} :
             /\ fee' = f
             /\ IF granter /\ ~allow.unlimited /\ allow.remaining < f
                THEN Stop("FEEGRANT_EXHAUSTED") ELSE Go("balance")
       \/ Stop("PREFLIGHT_ERROR") /\ UNCHANGED fee
    /\ UNCHANGED <<world, granter, allow, paid, fresh, changes>>

checkBalance ==
    /\ step = "balance"
    /\ \/ granter /\ (IF corp < fee THEN Stop("INSUFFICIENT_FUNDS_CORPORATION") ELSE Go("signed"))
       \/ ~granter /\ (IF own < fee THEN Stop("INSUFFICIENT_FUNDS_AGENT") ELSE Go("signed"))
       \/ Stop("PREFLIGHT_ERROR")
    /\ UNCHANGED <<world, granter, allow, fee, paid, fresh, changes>>

-----------------------------------------------------------------------------
\* The chain: the feegrant module and the bank.

Expired(g) == g.expires # None /\ g.expires < now

\* The allowance after it paid amount f, or NoGrant if it refuses it.
useGrantedFees(g, f) ==
    IF g.kind \in {"none", "other"} \/ Expired(g) THEN NoGrant
    ELSE IF g.kind = "basic"
         THEN IF g.limit = None THEN g
              ELSE IF g.limit >= f THEN [g EXCEPT !.limit = @ - f] ELSE NoGrant
    ELSE LET left == IF now < g.reset THEN g.left
                     ELSE IF g.limit = None THEN g.budget ELSE Min({g.budget, g.limit})
         IN  IF left < f \/ (g.limit # None /\ g.limit < f) THEN NoGrant
             ELSE [g EXCEPT !.left = left - f, !.limit = IF @ = None THEN None ELSE @ - f]

\* signAndBroadcast with the fee of the check; assertIsDeliverTxSuccess.
deliver ==
    /\ step = "signed" /\ step' = "end"
    /\ LET after == useGrantedFees(grant, fee) IN
       \/ /\ granter /\ after # NoGrant /\ corp >= fee
          /\ grant' = after /\ corp' = corp - fee /\ paid' = "corporation" /\ UNCHANGED own
       \/ /\ granter /\ (after = NoGrant \/ corp < fee)
          /\ paid' = "refused" /\ UNCHANGED <<grant, corp, own>>
       \/ ~granter /\ own >= fee /\ own' = own - fee /\ paid' = "agent" /\ UNCHANGED <<grant, corp>>
       \/ ~granter /\ own < fee /\ paid' = "refused" /\ UNCHANGED <<grant, corp, own>>
    /\ UNCHANGED <<now, granter, allow, fee, reason, fresh, changes>>

\* Others spend, the grant is renewed or revoked, time passes.
worldMoves ==
    /\ changes < MaxChanges /\ changes' = changes + 1 /\ fresh' = FALSE
    /\ \/ corp' \in Amounts \ {corp} /\ UNCHANGED <<grant, own, now>>
       \/ own' \in Amounts \ {own} /\ UNCHANGED <<grant, corp, now>>
       \/ grant' = NoGrant /\ grant # NoGrant /\ UNCHANGED <<corp, own, now>>
       \/ now < MaxTime /\ now' = now + 1 /\ UNCHANGED <<grant, corp, own>>
    /\ UNCHANGED tx

\* The next transaction of the agent.
again ==
    /\ step = "end" /\ changes < MaxChanges /\ changes' = changes + 1
    /\ step' = "idle" /\ granter' \in BOOLEAN /\ allow' = NoAllowance /\ fee' = 0
    /\ reason' = "none" /\ paid' = "none" /\ fresh' = TRUE
    /\ UNCHANGED world

Next == readAllowance \/ estimateFee \/ checkBalance \/ deliver \/ worldMoves \/ again

Spec == Init /\ [][Next]_vars

-----------------------------------------------------------------------------
TypeOK ==
    /\ grant \in Allowances /\ corp \in Amounts /\ own \in Amounts /\ now \in Times
    /\ step \in {"idle", "simulate", "balance", "signed", "end"}
    /\ granter \in BOOLEAN /\ fee \in Amounts
    /\ paid \in {"none", "agent", "corporation", "refused"}
    /\ (paid # "none" => reason = "none" /\ step = "end")

\* preflightFee: if nothing changes between the check and the delivery, a
\* transaction that passed the check is never refused for its fee: the reading
\* of every kind of allowance agrees with the rule the chain applies.
CheckedFeeIsPaid == (paid = "refused") => ~fresh

\* feeAllowanceOf: the check does not stop a transaction as out of allowance
\* that the chain would take the fee of.
StopIsJustified ==
    (step = "end" /\ fresh /\ reason = "FEEGRANT_EXHAUSTED") => useGrantedFees(grant, fee) = NoGrant

\* feeGranterFor: "There is no silent fallback from one payer to the other":
\* whatever changed since the check, the named payer pays or nobody does.
NamedPayerPays ==
    /\ (paid = "corporation") => granter
    /\ (paid = "agent") => ~granter
=============================================================================
