---------------------------- MODULE OidVerifierProofs ----------------------------
(***************************************************************************)
(* Proofs about the OpenID4VC plugin, for any sets of sessions, callers,   *)
(* lists, offers and types and any bounds.                                 *)
(*                                                                         *)
(* The trust decision of OpenID4VP (OidVerifier): everyone who asks gets   *)
(* the verdict that is stored, an accepted presentation passed every step, *)
(* a verdict is stored once.  VerdictInv is inductive.  What makes it so   *)
(* is OneDecision, the content of the map decisions: the caller that runs  *)
(* the decision of a session is the one the map names, it waits for        *)
(* itself, and everyone who waits for it has read the same session.  Hence *)
(* no second decision can store while one is past its second read, which   *)
(* is what DecisionSound says.                                             *)
(*                                                                         *)
(* The status lists (StatusList): StatusInv holds under every fault;       *)
(* BindInv, which keeps the indexes of the offers apart, holds as long as  *)
(* no deletion of a list fails halfway.  The issuer (OidIssuer): KeyInv    *)
(* says that a publication writes the document it read, InitOnce that an   *)
(* initialization waits for one replacement, and ServedInv what a          *)
(* replacement that renders nothing found.                                 *)
(***************************************************************************)
EXTENDS MCOpenId, TLAPS

\* The five steps of decidePresentationTrust, in their order, and that only
\* the last one can accept.
LEMMA StepFacts ==
    /\ Len(Steps) = 5 /\ AllSteps = {"did", "key", "type", "trusted", "authorized"}
    /\ Steps[1] = "did" /\ Steps[2] = "key" /\ Steps[3] = "type" /\ Steps[4] = "trusted"
    /\ Steps[5] = "authorized"
    /\ \A i \in 1..5 : Steps[i] \in AllSteps /\ Verdict[i] \in Final
    /\ \A i \in 1..5 : Verdict[i] # "TRUSTED_AUTHORIZED"
    /\ \A S : (S \subseteq AllSteps /\ \A i \in 1..5 : Steps[i] \in S) => S = AllSteps
BY DEF Steps, AllSteps, Verdict, Final

\* The records of a running decision and what replacing their verdict does.
LEMMA JobFacts ==
    /\ NoJob \in Jobs /\ NoJob.at = 0 /\ NoJob.verdict = "none"
    /\ \A i \in 0..6, v \in Final \cup {"none", "reread", "RESOLVER_UNAVAILABLE"} :
         [at |-> i, verdict |-> v] \in Jobs
    /\ \A j \in Jobs : /\ j.at \in 0..6
                       /\ j.verdict \in Final \cup {"none", "reread", "RESOLVER_UNAVAILABLE"}
                       /\ \A v \in Final \cup {"none", "reread", "RESOLVER_UNAVAILABLE"} :
                            /\ [j EXCEPT !.verdict = v] \in Jobs
                            /\ [j EXCEPT !.verdict = v].at = j.at
                            /\ [j EXCEPT !.verdict = v].verdict = v
BY StepFacts DEF Jobs, NoJob

\* What a caller of decide can be told.
Answers == Final \cup {"none", "UNVERIFIED", "RESOLVER_UNAVAILABLE", "error"}

\* A verifier that just started, with no session and no caller.
LEMMA InitInv == Init => VerdictInv
<1> SUFFICES ASSUME Init PROVE VerdictInv
  OBVIOUS
<1> USE SessionsAssumption, CallersAssumption, BoundsAssumption
<1>1. \A c \in Callers : copy[c] \in {Snapshot(s) : s \in Sessions}
  BY DEF Init
<1>2. \A t \in Sessions : /\ Snapshot(t) \in [s : Sessions, state : SessionStates,
                                              stored : Final \cup {"none"}]
                          /\ Snapshot(t).s = t /\ Snapshot(t).state = "none"
                          /\ Snapshot(t).stored = "none"
  BY DEF Init, Snapshot, SessionStates
<1>3. \A c \in Callers : \E t \in Sessions : copy[c] = Snapshot(t)
  BY <1>1
<1>4. TypeOK
  <2>1. \A c \in Callers : copy[c] \in [s : Sessions, state : SessionStates,
                                        stored : Final \cup {"none"}]
    BY <1>2, <1>3
  <2>2. copy = [c \in Callers |-> copy[c]]
    BY DEF Init
  <2>3. copy \in [Callers -> [s : Sessions, state : SessionStates,
                              stored : Final \cup {"none"}]]
    BY <2>1, <2>2
  <2> QED
    BY <2>3, JobFacts DEF Init, TypeOK, SessionStates
<1>5. AnswersAgree /\ AcceptedHeld /\ AnsweredIsTagged
  BY DEF Init, AnswersAgree, AcceptedHeld, AnsweredIsTagged, Final
<1>6. CopiesHold /\ OneDecision /\ DecisionSound
  <2>1. \A c \in Callers :
          copy[c].s \in Sessions /\ copy[c].state = "none" /\ copy[c].stored = "none"
    BY <1>2, <1>3
  <2> QED
    BY <2>1 DEF Init, CopiesHold, OneDecision, DecisionSound, Runs
<1> QED
  BY <1>4, <1>5, <1>6 DEF VerdictInv

\* The end of a decision (the finally of decide) keeps the types.
LEMMA SettleTypes ==
  ASSUME TypeOK, NEW c \in Callers, NEW a \in Answers, Settle(c, a)
  PROVE  /\ pc' \in [Callers -> {"idle", "decide", "wait", "done"}]
         /\ waits' \in [Callers -> Callers \cup {NoCaller}]
         /\ answer' \in [Callers -> Answers]
         /\ decisions' \in [Sessions -> Callers \cup {NoCaller}] /\ job' \in [Callers -> Jobs]
BY JobFacts DEF TypeOK, Settle, Answers

\* The end of a decision removes exactly its own entry of decisions and
\* wakes exactly those who wait for it, so the rest of the map stays right.
LEMMA SettleDecides ==
  ASSUME TypeOK, OneDecision, NEW c \in Callers, Runs(c), NEW a, Settle(c, a), copy' = copy
  PROVE  OneDecision'
<1> USE CallersAssumption DEF TypeOK
<1>1. /\ \A d \in Callers : pc'[d] = IF pc[d] = "wait" /\ waits[d] = c THEN "done" ELSE pc[d]
      /\ \A d \in Callers : waits'[d] = IF waits[d] = c THEN NoCaller ELSE waits[d]
      /\ \A s \in Sessions : decisions'[s] = IF s = copy[c].s THEN NoCaller ELSE decisions[s]
      /\ \A d \in Callers : job'[d] = IF d = c THEN NoJob ELSE job[d]
  BY DEF Settle
<1>2. \A d \in Callers : Runs(d)' <=> (d # c /\ Runs(d))
  BY <1>1 DEF Runs
<1>3. \A d \in Callers : d # c /\ Runs(d) => copy[d].s # copy[c].s /\ waits[d] # c
  BY DEF OneDecision
<1>4. \A d \in Callers : (Runs(d))' => /\ pc'[d] = "wait" /\ waits'[d] = d
                                      /\ decisions'[copy'[d].s] = d
                                      /\ copy'[d].state = "ResponseVerified"
  BY <1>1, <1>2, <1>3 DEF OneDecision
<1>5. \A s \in Sessions : decisions'[s] # NoCaller =>
           (Runs(decisions[s]))' /\ copy'[decisions'[s]].s = s
  <2> SUFFICES ASSUME NEW s \in Sessions, decisions'[s] # NoCaller
               PROVE  (Runs(decisions[s]))' /\ copy'[decisions'[s]].s = s
    OBVIOUS
  <2>1. s # copy[c].s /\ decisions'[s] = decisions[s] /\ decisions[s] \in Callers
    BY <1>1
  <2>2. Runs(decisions[s]) /\ copy[decisions[s]].s = s
    BY <2>1 DEF OneDecision
  <2>3. job'[decisions'[s]] = job[decisions[s]]
    BY <2>1, <2>2, <1>1
  <2> QED
    BY <2>1, <2>2, <2>3 DEF Runs
<1>6. ASSUME NEW d \in Callers
      PROVE  /\ pc'[d] = "wait" <=> waits'[d] # NoCaller
             /\ waits'[d] # NoCaller => (Runs(waits[d]))' /\ copy'[waits'[d]].s = copy'[d].s
  <2>1. pc'[d] = "wait" <=> waits'[d] # NoCaller
    BY <1>1 DEF OneDecision
  <2>2. CASE waits'[d] # NoCaller
    <3>1. waits'[d] = waits[d] /\ waits[d] \in Callers /\ waits[d] # c
      BY <2>2, <1>1
    <3>2. Runs(waits[d]) /\ copy[waits[d]].s = copy[d].s
      BY <3>1 DEF OneDecision
    <3>3. job'[waits'[d]] = job[waits[d]]
      BY <3>1, <1>1
    <3> QED
      BY <2>1, <3>1, <3>2, <3>3 DEF Runs
  <2> QED
    BY <2>1, <2>2
<1> QED
  BY <1>4, <1>5, <1>6 DEF OneDecision, Runs

\* When a decision ends with a final verdict only if that verdict is stored,
\* everyone it wakes is told what is stored for the session it read.
LEMMA SettleAgrees ==
  ASSUME TypeOK, AnswersAgree, OneDecision, NEW c \in Callers, Runs(c), NEW a, Settle(c, a),
         copy' = copy, a \in Final => stored'[copy[c].s] = a,
         \A s \in Sessions : stored[s] # "none" => stored'[s] = stored[s]
  PROVE  AnswersAgree'
<1> SUFFICES ASSUME NEW d \in Callers, answer'[d] \in Final
             PROVE  answer'[d] = stored'[copy[d].s]
  BY DEF AnswersAgree
<1> USE CallersAssumption DEF TypeOK
<1>1. CASE pc[d] = "wait" /\ waits[d] = c
  <2>1. answer'[d] = a
    BY <1>1 DEF Settle
  <2>2. copy[d].s = copy[c].s
    BY <1>1 DEF OneDecision
  <2> QED
    BY <2>1, <2>2
<1>2. CASE ~(pc[d] = "wait" /\ waits[d] = c)
  <2>1. answer'[d] = answer[d]
    BY <1>2 DEF Settle
  <2>2. answer[d] = stored[copy[d].s] /\ stored[copy[d].s] # "none"
    BY <2>1 DEF AnswersAgree, Final
  <2> QED
    BY <2>1, <2>2
<1> QED
  BY <1>1, <1>2

\* The end of a decision leaves every other decision on an undecided session:
\* no two of them work on the same one.
LEMMA SettleSound ==
  ASSUME TypeOK, DecisionSound, OneDecision, NEW c \in Callers, Runs(c), NEW a, Settle(c, a),
         copy' = copy, held' = held,
         \A s \in Sessions \ {copy[c].s} : stored'[s] = stored[s]
  PROVE  DecisionSound'
<1> SUFFICES ASSUME NEW d \in Callers, (Runs(d))'
             PROVE  /\ job'[d].at >= 1
                    /\ job'[d].verdict # "reread" => stored'[copy[d].s] = "none"
                    /\ job'[d].verdict = "TRUSTED_AUTHORIZED" => job'[d].at = Len(Steps) + 1
                    /\ \A k \in 1..Len(Steps) : k < job'[d].at => Steps[k] \in held[copy[d].s]
  BY DEF DecisionSound
<1>1. d # c /\ job'[d] = job[d] /\ Runs(d)
  BY DEF Settle, Runs, TypeOK
<1>2. copy[d].s # copy[c].s
  BY <1>1 DEF OneDecision
<1>3. stored'[copy[d].s] = stored[copy[d].s]
  BY <1>2 DEF TypeOK
<1> QED
  BY <1>1, <1>3 DEF DecisionSound

\* Every step of the verifier keeps the invariant: one case per action, and
\* under it the parts of the invariant the action can disturb.
LEMMA NextInv == VerdictInv /\ [Next]_vars => VerdictInv'
<1> SUFFICES ASSUME VerdictInv, [Next]_vars PROVE VerdictInv'
  OBVIOUS
<1> USE SessionsAssumption, CallersAssumption, BoundsAssumption
    DEF session, request, world, caller, bounds
<1>0. /\ TypeOK /\ AnswersAgree /\ AcceptedHeld /\ AnsweredIsTagged
      /\ CopiesHold /\ OneDecision /\ DecisionSound
  BY DEF VerdictInv
<1>1. ASSUME NEW s \in Sessions, createAuthorizationRequest(s) PROVE VerdictInv'
  <2>1. TypeOK'
    BY <1>0, <1>1 DEF createAuthorizationRequest, TypeOK, SessionStates
  <2>2. AnsweredIsTagged'
    BY <1>0, <1>1 DEF createAuthorizationRequest, AnsweredIsTagged, TypeOK
  <2>3. CopiesHold'
    BY <1>0, <1>1 DEF createAuthorizationRequest, CopiesHold, Answered, TypeOK
  <2>4. AnswersAgree' /\ AcceptedHeld' /\ OneDecision' /\ DecisionSound'
    BY <1>0, <1>1
       DEF createAuthorizationRequest, AnswersAgree, AcceptedHeld, OneDecision,
           DecisionSound, Runs
  <2> QED
    BY <2>1, <2>2, <2>3, <2>4 DEF VerdictInv
<1>2. ASSUME NEW s \in Sessions, tagSession(s) PROVE VerdictInv'
  <2>1. TypeOK'
    BY <1>0, <1>2 DEF tagSession, TypeOK
  <2>2. AnsweredIsTagged'
    BY <1>0, <1>2 DEF tagSession, AnsweredIsTagged, TypeOK
  <2>3. AnswersAgree' /\ AcceptedHeld' /\ CopiesHold' /\ OneDecision' /\ DecisionSound'
    BY <1>0, <1>2
       DEF tagSession, AnswersAgree, AcceptedHeld, CopiesHold, OneDecision,
           DecisionSound, Answered, Runs
  <2> QED
    BY <2>1, <2>2, <2>3 DEF VerdictInv
<1>3. ASSUME NEW s \in Sessions, walletResponds(s) PROVE VerdictInv'
  <2>1. TypeOK'
    <3>1. PICK h \in {AllSteps} \cup {AllSteps \ {x} : x \in AllSteps} :
             holds' = [holds EXCEPT ![s] = h] /\ held' = [held EXCEPT ![s] = h]
      BY <1>3 DEF walletResponds
    <3>2. h \subseteq AllSteps
      OBVIOUS
    <3>3. state' \in [Sessions -> SessionStates]
      BY <1>0, <1>3 DEF walletResponds, TypeOK, SessionStates
    <3> QED
      BY <1>0, <1>3, <3>1, <3>2, <3>3 DEF walletResponds, TypeOK
  <2>2. AcceptedHeld'
    BY <1>0, <1>3, StepFacts
       DEF walletResponds, AcceptedHeld, CopiesHold, Answered, TypeOK
  <2>3. AnsweredIsTagged'
    BY <1>0, <1>3, StepFacts DEF walletResponds, AnsweredIsTagged, TypeOK
  <2>4. CopiesHold'
    BY <1>0, <1>3, StepFacts DEF walletResponds, CopiesHold, Answered, TypeOK
  <2>5. DecisionSound'
    BY <1>0, <1>3, StepFacts
       DEF walletResponds, DecisionSound, OneDecision, CopiesHold, Answered, Runs,
           TypeOK
  <2>6. AnswersAgree' /\ OneDecision'
    BY <1>0, <1>3 DEF walletResponds, AnswersAgree, OneDecision, Runs
  <2> QED
    BY <2>1, <2>2, <2>3, <2>4, <2>5, <2>6 DEF VerdictInv
<1>4. ASSUME NEW s \in Sessions, deleteVerificationSession(s) PROVE VerdictInv'
  <2>1. TypeOK'
    BY <1>0, <1>4 DEF deleteVerificationSession, TypeOK, SessionStates
  <2>2. AnsweredIsTagged'
    BY <1>0, <1>4 DEF deleteVerificationSession, AnsweredIsTagged, TypeOK
  <2>3. CopiesHold'
    BY <1>0, <1>4 DEF deleteVerificationSession, CopiesHold, Answered, TypeOK
  <2>4. AnswersAgree' /\ AcceptedHeld' /\ OneDecision' /\ DecisionSound'
    BY <1>0, <1>4
       DEF deleteVerificationSession, AnswersAgree, AcceptedHeld, OneDecision,
           DecisionSound, Runs
  <2> QED
    BY <2>1, <2>2, <2>3, <2>4 DEF VerdictInv
<1>5. ASSUME NEW s \in Sessions, NEW x \in AllSteps, changeWorld(s, x) PROVE VerdictInv'
  <2>1. TypeOK'
    BY <1>0, <1>5, StepFacts DEF changeWorld, TypeOK
  <2>2. AcceptedHeld'
    BY <1>0, <1>5, StepFacts DEF changeWorld, AcceptedHeld, TypeOK
  <2>3. DecisionSound'
    BY <1>0, <1>5, StepFacts DEF changeWorld, DecisionSound, Runs, TypeOK
  <2>4. AnswersAgree' /\ AnsweredIsTagged' /\ CopiesHold' /\ OneDecision'
    BY <1>0, <1>5
       DEF changeWorld, AnswersAgree, AnsweredIsTagged, CopiesHold, OneDecision,
           Answered, Runs
  <2> QED
    BY <2>1, <2>2, <2>3, <2>4 DEF VerdictInv
<1>6. ASSUME NEW c \in Callers, NEW s \in Sessions, findOwnedSession(c, s)
      PROVE  VerdictInv'
  <2>1. TypeOK'
    BY <1>0, <1>6 DEF findOwnedSession, Snapshot, TypeOK, SessionStates
  <2>2. AnswersAgree'
    <3> SUFFICES ASSUME NEW d \in Callers, answer'[d] \in Final
                 PROVE  answer'[d] = stored'[copy'[d].s]
      BY DEF AnswersAgree
    <3>1. d # c
      BY <1>0, <1>6 DEF findOwnedSession, TypeOK, Final
    <3> QED
      BY <1>0, <1>6, <3>1 DEF findOwnedSession, TypeOK, AnswersAgree
  <2>3. CopiesHold'
    BY <1>0, <1>6
       DEF findOwnedSession, Snapshot, CopiesHold, Answered, OneDecision, TypeOK
  <2>4. OneDecision'
    BY <1>0, <1>6 DEF findOwnedSession, Snapshot, OneDecision, Runs, TypeOK
  <2>5. DecisionSound'
    BY <1>0, <1>6
       DEF findOwnedSession, Snapshot, DecisionSound, OneDecision, Runs, TypeOK
  <2>6. AcceptedHeld' /\ AnsweredIsTagged'
    BY <1>0, <1>6 DEF findOwnedSession, AcceptedHeld, AnsweredIsTagged
  <2> QED
    BY <2>1, <2>2, <2>3, <2>4, <2>5, <2>6 DEF VerdictInv
<1>7. ASSUME NEW c \in Callers, decide(c) PROVE VerdictInv'
  <2>1. TypeOK'
    <3>1. storedDecision(copy[c]) \in Answers
      BY <1>0 DEF storedDecision, TypeOK, Answers
    <3>2. [at |-> 1, verdict |-> "reread"] \in Jobs /\ copy[c].s \in Sessions
      BY <1>0, JobFacts DEF TypeOK
    <3>3. pc' \in [Callers -> {"idle", "decide", "wait", "done"}]
      BY <1>0, <1>7 DEF decide, TypeOK
    <3>4. decisions' \in [Sessions -> Callers \cup {NoCaller}]
      BY <1>0, <1>7, <3>2 DEF decide, TypeOK
    <3>5. waits' \in [Callers -> Callers \cup {NoCaller}]
      <4>1. decisions[copy[c].s] \in Callers \cup {NoCaller}
        BY <1>0, <3>2 DEF TypeOK
      <4> QED
        BY <1>0, <1>7, <4>1 DEF decide, TypeOK
    <3>6. job' \in [Callers -> Jobs] /\ answer' \in [Callers -> Answers]
      BY <1>0, <1>7, <3>1, <3>2 DEF decide, TypeOK, Answers
    <3> QED
      BY <1>0, <1>7, <3>3, <3>4, <3>5, <3>6 DEF decide, TypeOK, Answers
  <2>2. AnswersAgree'
    BY <1>0, <1>7 DEF decide, storedDecision, AnswersAgree, CopiesHold, TypeOK, Final
  <2>3. OneDecision'
    <3> DEFINE s == copy[c].s
               new == [at |-> 1, verdict |-> "reread"]
    <3>0. s \in Sessions /\ pc[c] = "decide" /\ new # NoJob /\ ~Runs(c)
          /\ waits[c] = NoCaller
      BY <1>0, <1>7, JobFacts DEF decide, TypeOK, OneDecision, NoJob
    <3>1. CASE storedDecision(copy[c]) # "none"
      BY <1>0, <1>7, <3>0, <3>1 DEF decide, TypeOK, OneDecision, Runs
    <3>2. CASE storedDecision(copy[c]) = "none" /\ decisions[s] # NoCaller
      <4>1. /\ copy' = copy /\ job' = job /\ decisions' = decisions
            /\ \A d \in Callers : pc'[d] = IF d = c THEN "wait" ELSE pc[d]
            /\ \A d \in Callers : waits'[d] = IF d = c THEN decisions[s] ELSE waits[d]
        BY <1>0, <1>7, <3>0, <3>2 DEF decide, TypeOK
      <4>2. Runs(decisions[s]) /\ copy[decisions[s]].s = s
        BY <1>0, <3>0, <3>2 DEF OneDecision
      <4> QED
        BY <1>0, <3>0, <3>2, <4>1, <4>2 DEF TypeOK, OneDecision, Runs
    <3>3. CASE storedDecision(copy[c]) = "none" /\ decisions[s] = NoCaller
      <4>1. copy[c].state = "ResponseVerified"
        BY <3>3 DEF storedDecision
      <4>2. /\ copy' = copy
            /\ \A d \in Callers : pc'[d] = IF d = c THEN "wait" ELSE pc[d]
            /\ \A d \in Callers : waits'[d] = IF d = c THEN c ELSE waits[d]
            /\ \A d \in Callers : job'[d] = IF d = c THEN new ELSE job[d]
            /\ \A t \in Sessions : decisions'[t] = IF t = s THEN c ELSE decisions[t]
        BY <1>0, <1>7, <3>0, <3>3 DEF decide, TypeOK
      <4>3. \A d \in Callers : (Runs(d))' <=> (d = c \/ Runs(d))
        BY <3>0, <4>2 DEF Runs
      <4>4. \A d \in Callers : Runs(d) => copy[d].s # s
        BY <1>0, <3>3 DEF OneDecision
      <4> HIDE DEF new
      <4>5. \A d \in Callers : (Runs(d))' => /\ pc'[d] = "wait" /\ waits'[d] = d
                                            /\ decisions'[copy'[d].s] = d
                                            /\ copy'[d].state = "ResponseVerified"
        BY <1>0, <3>0, <4>1, <4>2, <4>3, <4>4 DEF OneDecision, TypeOK
      <4>6. \A t \in Sessions : decisions'[t] # NoCaller =>
                job'[decisions'[t]] # NoJob /\ copy'[decisions'[t]].s = t
        BY <1>0, <3>0, <4>2 DEF OneDecision, TypeOK, Runs
      <4>7. \A d \in Callers :
              /\ pc'[d] = "wait" <=> waits'[d] # NoCaller
              /\ waits'[d] # NoCaller =>
                     job'[waits'[d]] # NoJob /\ copy'[waits'[d]].s = copy'[d].s
        BY <1>0, <3>0, <4>2 DEF OneDecision, TypeOK, Runs
      <4> QED
        BY <4>5, <4>6, <4>7 DEF OneDecision, Runs
    <3> QED
      BY <3>1, <3>2, <3>3
  <2>4. DecisionSound'
    BY <1>0, <1>7, StepFacts
       DEF decide, storedDecision, DecisionSound, Runs, NoJob, TypeOK
  <2>5. AcceptedHeld' /\ AnsweredIsTagged' /\ CopiesHold'
    BY <1>0, <1>7 DEF decide, AcceptedHeld, AnsweredIsTagged, CopiesHold, Answered
  <2> QED
    BY <2>1, <2>2, <2>3, <2>4, <2>5 DEF VerdictInv
<1>8. ASSUME NEW c \in Callers, reread(c) PROVE VerdictInv'
  <2>0. Runs(c) /\ copy[c].s \in Sessions
    BY <1>0, <1>8, JobFacts DEF reread, Runs, TypeOK
  <2>a. CASE \E a \in Answers : Settle(c, a) /\ (a \in Final => stored[copy[c].s] = a)
    <3> PICK a \in Answers : Settle(c, a) /\ (a \in Final => stored[copy[c].s] = a)
      BY <2>a
    <3>1. UNCHANGED <<copy, session, world, bounds>>
      BY <1>8 DEF reread
    <3>2. TypeOK'
      BY <1>0, <3>1, SettleTypes DEF TypeOK, Answers
    <3>3. AnswersAgree'
      BY <1>0, <2>0, <3>1, SettleAgrees
    <3>4. OneDecision' /\ DecisionSound'
      BY <1>0, <2>0, <3>1, SettleDecides, SettleSound
    <3>5. AcceptedHeld' /\ AnsweredIsTagged' /\ CopiesHold'
      BY <1>0, <3>1 DEF AcceptedHeld, AnsweredIsTagged, CopiesHold, Answered
    <3> QED
      BY <3>2, <3>3, <3>4, <3>5 DEF VerdictInv
  <2>b. CASE /\ stored[copy[c].s] = "none"
             /\ job' = [job EXCEPT ![c].verdict = "none"]
             /\ UNCHANGED <<pc, answer, waits, decisions>>
    <3>1. UNCHANGED <<copy, session, world, bounds>>
      BY <1>8 DEF reread
    <3>2. /\ job' \in [Callers -> Jobs] /\ \A d \in Callers \ {c} : job'[d] = job[d]
          /\ job'[c].verdict = "none" /\ job'[c].at = job[c].at /\ job[c].at >= 1
      <4>1. job' = [job EXCEPT ![c] = [job[c] EXCEPT !.verdict = "none"]]
            /\ job[c] \in Jobs
        BY <1>0, <2>b DEF TypeOK
      <4>2. job[c].at >= 1
        BY <1>0, <2>0 DEF DecisionSound
      <4>3. [job[c] EXCEPT !.verdict = "none"] \in Jobs
        BY <4>1, JobFacts
      <4>4. job' \in [Callers -> Jobs] /\ job'[c] = [job[c] EXCEPT !.verdict = "none"]
        BY <1>0, <4>1, <4>3 DEF TypeOK
      <4>5. \A d \in Callers \ {c} : job'[d] = job[d]
        BY <1>0, <4>1 DEF TypeOK
      <4> QED
        BY <4>1, <4>2, <4>4, <4>5, JobFacts
    <3>3. \A d \in Callers : (Runs(d))' <=> Runs(d)
      BY <2>0, <3>2, JobFacts DEF Runs
    <3>4. TypeOK' /\ AnswersAgree' /\ AcceptedHeld' /\ AnsweredIsTagged' /\ CopiesHold'
      BY <1>0, <2>b, <3>1, <3>2
         DEF TypeOK, AnswersAgree, AcceptedHeld, AnsweredIsTagged, CopiesHold, Answered
    <3>5. OneDecision'
      <4>1. \A x : x \in Callers => (job'[x] # NoJob <=> job[x] # NoJob)
        BY <3>3 DEF Runs
      <4> QED
        BY <1>0, <2>b, <3>1, <4>1 DEF OneDecision, Runs, TypeOK
    <3>6. DecisionSound'
      BY <1>0, <2>b, <3>1, <3>2, <3>3 DEF DecisionSound
    <3> QED
      BY <3>4, <3>5, <3>6 DEF VerdictInv
  <2> QED
    <3>1. stored[copy[c].s] \in Answers /\ "error" \in Answers /\ "error" \notin Final
      BY <1>0, <2>0 DEF TypeOK, Answers, Final
    <3> QED
      BY <1>8, <2>a, <2>b, <3>1 DEF reread
<1>9. ASSUME NEW c \in Callers, runSteps(c) PROVE VerdictInv'
  <2>1. TypeOK'
    BY <1>0, <1>9, StepFacts DEF runSteps, TypeOK, Jobs, Final
  <2>2. OneDecision'
    BY <1>0, <1>9, StepFacts DEF runSteps, OneDecision, Runs, NoJob, Jobs, Final, TypeOK
  <2>3. DecisionSound'
    <3> DEFINE s == copy[c].s
               i == job[c].at
    <3>0. i \in 1..5 /\ job[c].verdict = "none" /\ Runs(c) /\ job[c] \in Jobs
      BY <1>0, <1>9, StepFacts, JobFacts DEF runSteps, TypeOK, Runs
    <3>1. /\ \A d \in Callers \ {c} : job'[d] = job[d]
          /\ copy' = copy /\ stored' = stored /\ held' = held
      BY <1>0, <1>9 DEF runSteps, TypeOK
    <3>2. CASE Steps[i] \in holds[s]
      <4>1. /\ job'[c].at = i + 1 /\ job'[c].verdict \in {"none", "TRUSTED_AUTHORIZED"}
            /\ job'[c].verdict = "TRUSTED_AUTHORIZED" => i = 5
        BY <1>0, <1>9, <3>2, StepFacts DEF runSteps, TypeOK
      <4>2. Steps[i] \in held[s]
        BY <1>0, <3>2 DEF AcceptedHeld, TypeOK
      <4> QED
        BY <1>0, <3>0, <3>1, <4>1, <4>2, StepFacts DEF DecisionSound, Runs
    <3>3. CASE Steps[i] \notin holds[s]
      <4>1. job'[c] = [job[c] EXCEPT !.verdict = Verdict[i]]
        BY <1>0, <1>9, <3>3, StepFacts DEF runSteps, TypeOK
      <4>2. /\ job'[c].at = i /\ job'[c].verdict = Verdict[i]
        BY <3>0, <4>1, JobFacts, StepFacts
      <4> QED
        BY <1>0, <3>0, <3>1, <4>2, StepFacts DEF DecisionSound, Runs
    <3> QED
      BY <3>2, <3>3
  <2>4. AnswersAgree' /\ AcceptedHeld' /\ AnsweredIsTagged' /\ CopiesHold'
    BY <1>0, <1>9
       DEF runSteps, AnswersAgree, AcceptedHeld, AnsweredIsTagged, CopiesHold, Answered
  <2> QED
    BY <2>1, <2>2, <2>3, <2>4 DEF VerdictInv
<1>10. ASSUME NEW c \in Callers, stepUnavailable(c) PROVE VerdictInv'
  <2>1. TypeOK'
    BY <1>0, <1>10, StepFacts DEF stepUnavailable, TypeOK, Jobs, Final
  <2>2. OneDecision'
    BY <1>0, <1>10 DEF stepUnavailable, OneDecision, Runs, NoJob, Jobs, Final, TypeOK
  <2>3. DecisionSound'
    BY <1>0, <1>10, StepFacts
       DEF stepUnavailable, DecisionSound, Runs, NoJob, Jobs, TypeOK
  <2>4. AnswersAgree' /\ AcceptedHeld' /\ AnsweredIsTagged' /\ CopiesHold'
    BY <1>0, <1>10
       DEF stepUnavailable, AnswersAgree, AcceptedHeld, AnsweredIsTagged, CopiesHold,
           Answered
  <2> QED
    BY <2>1, <2>2, <2>3, <2>4 DEF VerdictInv
<1>11. ASSUME NEW c \in Callers, storeDecision(c) PROVE VerdictInv'
  <2> DEFINE v == job[c].verdict
  <2>0. /\ Runs(c) /\ copy[c].s \in Sessions /\ v \in Final \cup {"RESOLVER_UNAVAILABLE"}
        /\ stored[copy[c].s] = "none" /\ "none" \notin Final /\ "error" \notin Final
        /\ "RESOLVER_UNAVAILABLE" \notin Final
    BY <1>0, <1>11, JobFacts DEF storeDecision, Runs, TypeOK, DecisionSound, Final
  <2>1. \E a \in Answers :
          /\ Settle(c, a)
          /\ \/ a \notin Final /\ stored' = stored
             \/ /\ a = v /\ v \in Final /\ state[copy[c].s] # "deleted"
                /\ stored' = [stored EXCEPT ![copy[c].s] = v]
    BY <1>11, <2>0 DEF storeDecision, Answers
  <2>2. PICK a \in Answers :
          /\ Settle(c, a)
          /\ \/ a \notin Final /\ stored' = stored
             \/ /\ a = v /\ v \in Final /\ state[copy[c].s] # "deleted"
                /\ stored' = [stored EXCEPT ![copy[c].s] = v]
    BY <2>1
  <2>3. UNCHANGED <<copy, state, request, world, bounds>>
    BY <1>11 DEF storeDecision
  <2>4. /\ stored' \in [Sessions -> Final \cup {"none"}]
        /\ a \in Final => stored'[copy[c].s] = a
        /\ \A s \in Sessions : stored[s] # "none" => stored'[s] = stored[s]
        /\ \A s \in Sessions \ {copy[c].s} : stored'[s] = stored[s]
        /\ stored'[copy[c].s] \in {"none", v}
    BY <1>0, <2>0, <2>2 DEF TypeOK
  <2> HIDE DEF v
  <2>5. TypeOK'
    BY <1>0, <2>2, <2>3, <2>4, SettleTypes DEF TypeOK, Answers
  <2>6. AnswersAgree' /\ OneDecision' /\ DecisionSound'
    BY <1>0, <2>0, <2>2, <2>3, <2>4, SettleAgrees, SettleDecides, SettleSound
  <2>7. AcceptedHeld'
    <3>1. v = "TRUSTED_AUTHORIZED" => held[copy[c].s] = AllSteps
      BY <1>0, <2>0, StepFacts DEF v, DecisionSound, TypeOK
    <3> QED
      BY <1>0, <2>0, <2>3, <2>4, <3>1 DEF AcceptedHeld
  <2>8. AnsweredIsTagged' /\ CopiesHold'
    <3>1. Answered(copy[c].s)
      BY <1>0, <2>0 DEF OneDecision, CopiesHold
    <3> QED
      BY <1>0, <2>0, <2>3, <2>4, <3>1 DEF AnsweredIsTagged, CopiesHold, Answered, TypeOK
  <2> QED
    BY <2>5, <2>6, <2>7, <2>8 DEF VerdictInv
<1>12. CASE crash
  <2>1. TypeOK'
    BY <1>0, <1>12, StepFacts DEF crash, TypeOK, Jobs, NoJob
  <2>2. AnswersAgree'
    BY <1>12 DEF crash, AnswersAgree, Final
  <2>3. OneDecision'
    BY <1>0, <1>12 DEF crash, OneDecision, Runs, TypeOK
  <2>4. DecisionSound'
    BY <1>0, <1>12 DEF crash, DecisionSound, Runs, TypeOK
  <2>5. AcceptedHeld' /\ AnsweredIsTagged' /\ CopiesHold'
    BY <1>0, <1>12 DEF crash, AcceptedHeld, AnsweredIsTagged, CopiesHold, Answered
  <2> QED
    BY <2>1, <2>2, <2>3, <2>4, <2>5 DEF VerdictInv
<1>13. CASE UNCHANGED vars
  <2>1. TypeOK' /\ AnswersAgree' /\ AcceptedHeld' /\ AnsweredIsTagged' /\ CopiesHold'
        /\ OneDecision' /\ DecisionSound'
    BY <1>0, <1>13
       DEF vars, TypeOK, AnswersAgree, AcceptedHeld, AnsweredIsTagged, CopiesHold,
           OneDecision, DecisionSound, Answered, Runs
  <2> QED
    BY <2>1 DEF VerdictInv
<1> QED
  BY <1>1, <1>2, <1>3, <1>4, <1>5, <1>6, <1>7, <1>8, <1>9, <1>10, <1>11, <1>12, <1>13
     DEF Next, DecisionStep

\* The trust decision of VerifierService is sound in whichever order
\* reads, events, changes of the issuer's standing, deletions and restarts fall.
THEOREM VerdictInvariance == Spec => []VerdictInv
<1>1. Init => VerdictInv
  BY InitInv
<1>2. VerdictInv /\ [Next]_vars => VerdictInv'
  BY NextInv
<1> QED
  BY <1>1, <1>2, PTL DEF Spec

\* A stored verdict is never replaced: the decision that stores reads the
\* session again first, and no other can have stored since.
THEOREM VerdictStoredOnce == Spec => VerdictOnce
<1> DEFINE Once == \A s \in Sessions : stored[s] # "none" => stored'[s] = stored[s]
<1>1. VerdictInv /\ [Next]_vars => [Once]_vars
  <2> SUFFICES ASSUME VerdictInv, Next PROVE Once
    OBVIOUS
  <2> USE DEF session, request, world, caller, bounds
  <2>1. ASSUME NEW c \in Callers, storeDecision(c) PROVE Once
    <3>1. stored[copy[c].s] = "none"
      BY <2>1, JobFacts
         DEF VerdictInv, TypeOK, DecisionSound, Runs, storeDecision, Final
    <3> QED
      BY <2>1, <3>1 DEF VerdictInv, TypeOK, storeDecision
  <2>2. (\A c \in Callers : ~storeDecision(c)) => stored' = stored
    BY DEF Next, DecisionStep, createAuthorizationRequest, tagSession, walletResponds,
           deleteVerificationSession, changeWorld, findOwnedSession, decide, reread,
           runSteps, stepUnavailable, crash
  <2> QED
    BY <2>1, <2>2
<1>2. Spec => []VerdictInv
  BY VerdictInvariance
<1> QED
  BY <1>1, <1>2, PTL DEF Spec, VerdictOnce

-----------------------------------------------------------------------------
(* Status lists. *)

ListRecords ==
    [state : {"none", "live", "deleted"}, revoked : SUBSET StatusLists!Indexes,
     chain : StatusLists!Chains, iat : 0..MaxTime]
Entries ==
    [bound : BOOLEAN, revoked : BOOLEAN, expiresAt : 0..(MaxTime + OfferTtl + CredTtl)]
OfferSteps ==
    {"none", "bound", "session", "release", "discard", "survives", "offered", "mapping",
     "recorded", "issued", "failed"}
OfferRecords ==
    [pc : OfferSteps, l : Lists, i : StatusLists!Indexes,
     expiresAt : 0..(MaxTime + OfferTtl), exp : 0..(MaxTime + CredTtl)]

\* What the tasks on the lists rely on, whatever fails: the records are what
\* TypeOK says, a list that does not exist has published nothing, and the last
\* token served was usable.
StatusInv ==
    /\ StatusLists!TypeOK
    /\ offer \in [Offers -> OfferRecords]
    /\ \A l \in Lists : list[l].state = "none" => list[l].revoked = {}
    /\ StatusLists!ServedUsable

\* An offer that still counts on its index: createOffer runs, its session
\* survives, or the credential is being issued.
Holding ==
    {"bound", "session", "release", "discard", "survives", "offered", "mapping",
     "recorded", "issued"}

\* The index of such an offer is bound as long as the list exists.
Held(o) ==
    offer[o].pc \in Holding =>
      /\ list[offer[o].l].state # "none"
      /\ list[offer[o].l].state = "live" => entry[offer[o].l][offer[o].i].bound

\* Two such offers have different indexes.
Apart(o, p) ==
    (o # p /\ offer[o].pc \in Holding /\ offer[p].pc \in Holding)
        => (offer[o].l # offer[p].l \/ offer[o].i # offer[p].i)

\* A credential that was recorded does not outlive its binding.
Covered(o) ==
    (offer[o].pc \in {"recorded", "issued"} /\ list[offer[o].l].state = "live")
        => entry[offer[o].l][offer[o].i].expiresAt >= offer[o].exp

\* A binding says revoked only what the token says.
RevokedPublished(l) ==
    list[l].state # "deleted" => \A i \in StatusLists!Indexes :
        entry[l][i].revoked => i \in list[l].revoked

BindInv ==
    /\ \A o \in Offers : Held(o) /\ Covered(o)
    /\ \A o, p \in Offers : Apart(o, p)
    /\ \A l \in Lists : RevokedPublished(l)

\* The second bounds of the times.
LEMMA Times ==
    /\ 0 \in 0..MaxTime /\ 0 \in 0..(MaxTime + OfferTtl) /\ 0 \in 0..(MaxTime + CredTtl)
    /\ 0 \in 0..(MaxTime + OfferTtl + CredTtl) /\ 0 \in StatusLists!Indexes
    /\ \A t \in 0..MaxTime :
         /\ t + OfferTtl \in 0..(MaxTime + OfferTtl) /\ t + CredTtl \in 0..(MaxTime + CredTtl)
         /\ 2 * t < 2 * t + Lifetime
    /\ \A t \in 0..(MaxTime + OfferTtl) : t \in 0..(MaxTime + OfferTtl + CredTtl)
    /\ \A t \in 0..(MaxTime + CredTtl) : t \in 0..(MaxTime + OfferTtl + CredTtl)
BY StatusListBounds DEF StatusLists!Indexes

\* The records a part starts with.
LEMMA StatusNulls ==
    /\ StatusLists!NoList \in ListRecords /\ StatusLists!NoList.state = "none"
    /\ StatusLists!NoList.revoked = {}
    /\ StatusLists!Unbound \in Entries /\ ~StatusLists!Unbound.bound /\ ~StatusLists!Unbound.revoked
    /\ StatusLists!NoOffer \in OfferRecords /\ StatusLists!NoOffer.pc = "none"
<1>1. (CHOOSE l \in Lists : TRUE) \in Lists
  BY StatusListBounds
<1> QED
  BY <1>1, Times DEF StatusLists!NoList, StatusLists!Unbound, StatusLists!NoOffer,
     ListRecords, Entries, OfferRecords, OfferSteps, StatusLists!Chains

\* An update of the token changes neither the state of the list nor what it
\* published before.
LEMMA PublishFacts ==
  ASSUME StatusInv, NEW l \in Lists, NEW newly \in SUBSET StatusLists!Indexes
  PROVE  /\ StatusLists!publish(l, newly) \in ListRecords
         /\ StatusLists!publish(l, newly).state = list[l].state
         /\ StatusLists!publish(l, newly).revoked = list[l].revoked \cup newly
         /\ StatusLists!publish(l, newly).chain = chain
         /\ StatusLists!publish(l, newly).iat = now
<1>1. list[l] \in ListRecords /\ chain \in StatusLists!Chains /\ now \in 0..MaxTime
  BY DEF StatusInv, StatusLists!TypeOK, ListRecords
<1> QED
  BY <1>1 DEF ListRecords, StatusLists!publish

\* The steps of the status lists but for deleteStatusList.
OtherSteps ==
    \/ \E l \in Lists : StatusLists!createStatusList(l) \/ StatusLists!getStatusListToken(l)
    \/ \E l \in Lists, i \in StatusLists!Indexes : StatusLists!revokeCredential(l, i)
    \/ \E o \in Offers, l \in Lists, i \in StatusLists!Indexes : StatusLists!bindIndex(o, l, i)
    \/ \E o \in Offers :
         \/ StatusLists!createCredentialOffer(o) \/ StatusLists!completeBinding(o)
         \/ StatusLists!discardFailedOffer(o) \/ StatusLists!releaseIndex(o)
         \/ StatusLists!deleteIssuanceSession(o) \/ StatusLists!credentialRequest(o)
         \/ StatusLists!mapCredentialRequest(o) \/ StatusLists!signCredential(o)
    \/ StatusLists!restart \/ StatusLists!Tick

\* With fewer faults a list does less.
LEMMA FewerFaults ==
    /\ Bindings!Next => OtherSteps \/ \E l \in Lists : Bindings!deleteStatusList(l)
    /\ \A l \in Lists : Bindings!deleteStatusList(l) => StatusLists!deleteStatusList(l)
    /\ StatusLists!Next <=> OtherSteps \/ \E l \in Lists : StatusLists!deleteStatusList(l)
<1>1. /\ \A l \in Lists : Bindings!createStatusList(l) => StatusLists!createStatusList(l)
      /\ \A l \in Lists : Bindings!deleteStatusList(l) => StatusLists!deleteStatusList(l)
      /\ \A l \in Lists : Bindings!getStatusListToken(l) => StatusLists!getStatusListToken(l)
  BY Zenon DEF Bindings!createStatusList, StatusLists!createStatusList,
     Bindings!deleteStatusList, StatusLists!deleteStatusList,
     Bindings!getStatusListToken, StatusLists!getStatusListToken,
     Bindings!Indexes, StatusLists!Indexes, Bindings!isLive, StatusLists!isLive,
     Bindings!Unbound, StatusLists!Unbound, Bindings!publish, StatusLists!publish,
     Bindings!Serve, StatusLists!Serve, Bindings!statusListTokenNearsExpiry,
     StatusLists!statusListTokenNearsExpiry, Bindings!statusListTokenChainDiffers,
     StatusLists!statusListTokenChainDiffers
<1>2. \A l \in Lists, i \in Bindings!Indexes :
        Bindings!revokeCredential(l, i) => StatusLists!revokeCredential(l, i)
  BY Zenon DEF Bindings!revokeCredential, StatusLists!revokeCredential, Bindings!publish,
     StatusLists!publish
<1>3. \A o \in Offers, l \in Lists, i \in Bindings!Indexes :
        Bindings!bindIndex(o, l, i) => StatusLists!bindIndex(o, l, i)
  BY Zenon DEF Bindings!bindIndex, StatusLists!bindIndex, Bindings!Unbound, StatusLists!Unbound,
     Bindings!NoOffer, StatusLists!NoOffer
<1>4. \A o \in Offers :
        /\ Bindings!createCredentialOffer(o) => StatusLists!createCredentialOffer(o)
        /\ Bindings!completeBinding(o) => StatusLists!completeBinding(o)
        /\ Bindings!discardFailedOffer(o) => StatusLists!discardFailedOffer(o)
        /\ Bindings!releaseIndex(o) => StatusLists!releaseIndex(o)
        /\ Bindings!deleteIssuanceSession(o) => StatusLists!deleteIssuanceSession(o)
        /\ Bindings!credentialRequest(o) => StatusLists!credentialRequest(o)
        /\ Bindings!mapCredentialRequest(o) => StatusLists!mapCredentialRequest(o)
        /\ Bindings!signCredential(o) => StatusLists!signCredential(o)
  BY Zenon DEF Bindings!createCredentialOffer, StatusLists!createCredentialOffer,
     Bindings!completeBinding, StatusLists!completeBinding, Bindings!discardFailedOffer,
     StatusLists!discardFailedOffer, Bindings!releaseIndex, StatusLists!releaseIndex,
     Bindings!deleteIssuanceSession, StatusLists!deleteIssuanceSession,
     Bindings!credentialRequest, StatusLists!credentialRequest,
     Bindings!mapCredentialRequest, StatusLists!mapCredentialRequest,
     Bindings!signCredential, StatusLists!signCredential, Bindings!Move, StatusLists!Move,
     Bindings!updateEntry, StatusLists!updateEntry, Bindings!Unbound, StatusLists!Unbound
<1>5. (Bindings!restart => StatusLists!restart) /\ (Bindings!Tick => StatusLists!Tick)
  BY Zenon DEF Bindings!restart, StatusLists!restart, Bindings!Tick, StatusLists!Tick,
     Bindings!Chains, StatusLists!Chains
<1>6. Bindings!Indexes = StatusLists!Indexes
  BY DEF Bindings!Indexes, StatusLists!Indexes
<1> QED
  BY <1>1, <1>2, <1>3, <1>4, <1>5, <1>6, Zenon DEF Bindings!Next, StatusLists!Next, OtherSteps

\* No status list, no offer.
LEMMA StatusStarts == StatusLists!Init => StatusInv /\ BindInv
<1> SUFFICES ASSUME StatusLists!Init PROVE StatusInv /\ BindInv
  OBVIOUS
<1> USE DEF StatusLists!Init
<1>1. StatusInv
  BY StatusNulls, Times, StatusListBounds
     DEF StatusInv, StatusLists!TypeOK, StatusLists!ServedUsable, ListRecords, Entries,
         StatusLists!Chains
<1>2. \A o \in Offers : offer[o].pc = "none"
  BY StatusNulls
<1>3. \A l \in Lists : list[l].state = "none"
  BY StatusNulls
<1>4. \A l \in Lists, i \in StatusLists!Indexes : ~entry[l][i].revoked
  BY StatusNulls
<1> QED
  BY <1>1, <1>2, <1>3, <1>4 DEF BindInv, Held, Covered, Apart, RevokedPublished, Holding

\* The parts of the types, by name.
LEMMA StatusTypes ==
    StatusInv <=>
      /\ list \in [Lists -> ListRecords] /\ entry \in [Lists -> [StatusLists!Indexes -> Entries]]
      /\ offer \in [Offers -> OfferRecords] /\ chain \in StatusLists!Chains /\ now \in 0..MaxTime
      /\ \A l \in Lists, i \in StatusLists!Indexes :
           ~entry[l][i].bound => entry[l][i] = StatusLists!Unbound
      /\ \A l \in Lists : list[l].state = "none" => list[l].revoked = {}
      /\ StatusLists!ServedUsable
BY DEF StatusInv, StatusLists!TypeOK, ListRecords, Entries

\* The invariant after a step that changes one list, at most by changing its
\* token or its state to one that exists.
LEMMA ListStep ==
  ASSUME StatusInv, NEW l \in Lists, NEW r \in ListRecords, r.state # "none",
         list' = [list EXCEPT ![l] = r], UNCHANGED <<entry, offer, chain, now>>,
         StatusLists!ServedUsable'
  PROVE  StatusInv'
<1>1. \A k \in Lists : list'[k] = IF k = l THEN r ELSE list[k]
  BY StatusTypes
<1> QED
  BY <1>1, StatusTypes DEF StatusInv, StatusLists!TypeOK, ListRecords

\* ... one that changes the bindings of one list, to others that are sound.
LEMMA EntryStep ==
  ASSUME StatusInv, NEW l \in Lists, NEW i \in StatusLists!Indexes, NEW e \in Entries,
         ~e.bound => e = StatusLists!Unbound,
         entry' = [entry EXCEPT ![l][i] = e]
  PROVE  /\ entry' \in [Lists -> [StatusLists!Indexes -> Entries]]
         /\ \A k \in Lists, j \in StatusLists!Indexes :
              /\ entry'[k][j] = IF k = l /\ j = i THEN e ELSE entry[k][j]
              /\ ~entry'[k][j].bound => entry'[k][j] = StatusLists!Unbound
BY StatusTypes

\* ... and one that changes one offer.
LEMMA OfferStep ==
  ASSUME StatusInv, NEW o \in Offers, NEW r \in OfferRecords,
         offer' = [offer EXCEPT ![o] = r]
  PROVE  /\ offer' \in [Offers -> OfferRecords]
         /\ \A p \in Offers : offer'[p] = IF p = o THEN r ELSE offer[p]
BY StatusTypes

\* Moving an offer changes its step and nothing else.
LEMMA MoveStep ==
  ASSUME StatusInv, NEW o \in Offers, NEW s \in OfferSteps, StatusLists!Move(o, s)
  PROVE  /\ offer' \in [Offers -> OfferRecords]
         /\ offer'[o].pc = s
         /\ \A p \in Offers : /\ p # o => offer'[p] = offer[p]
                              /\ offer'[p].l = offer[p].l /\ offer'[p].i = offer[p].i
                              /\ offer'[p].expiresAt = offer[p].expiresAt
                              /\ offer'[p].exp = offer[p].exp
BY StatusTypes DEF StatusLists!Move, OfferRecords

\* updateEntry changes at most the expiry of a binding that exists.
LEMMA UpdateStep ==
  ASSUME StatusInv, NEW l \in Lists, NEW i \in StatusLists!Indexes,
         NEW e \in 0..(MaxTime + OfferTtl + CredTtl), StatusLists!updateEntry(l, i, e)
  PROVE  /\ entry' \in [Lists -> [StatusLists!Indexes -> Entries]]
         /\ \A k \in Lists, j \in StatusLists!Indexes :
              /\ entry'[k][j].bound = entry[k][j].bound
              /\ entry'[k][j].revoked = entry[k][j].revoked
              /\ (k # l \/ j # i) => entry'[k][j] = entry[k][j]
              /\ ~entry'[k][j].bound => entry'[k][j] = StatusLists!Unbound
         /\ entry[l][i].bound => entry'[l][i].expiresAt = e
<1>1. CASE ~entry[l][i].bound
  BY <1>1, StatusTypes DEF StatusLists!updateEntry
<1>2. CASE entry[l][i].bound
  <2>1. entry[l][i] \in Entries
    BY StatusTypes
  <2> DEFINE n == [entry[l][i] EXCEPT !.expiresAt = e]
  <2>2. n \in Entries /\ n.bound = entry[l][i].bound /\ n.revoked = entry[l][i].revoked
        /\ n.expiresAt = e
    BY <2>1 DEF Entries
  <2>3. entry' = [entry EXCEPT ![l][i] = n]
    BY <1>2, StatusTypes DEF StatusLists!updateEntry
  <2> HIDE DEF n
  <2>4. ~n.bound => n = StatusLists!Unbound
    BY <1>2, <2>2
  <2>5. /\ entry' \in [Lists -> [StatusLists!Indexes -> Entries]]
        /\ \A k \in Lists, j \in StatusLists!Indexes :
             /\ entry'[k][j] = IF k = l /\ j = i THEN n ELSE entry[k][j]
             /\ ~entry'[k][j].bound => entry'[k][j] = StatusLists!Unbound
    BY <2>2, <2>3, <2>4, EntryStep
  <2>6. entry'[l][i] = n
    BY <2>5
  <2>7. ASSUME NEW k \in Lists, NEW j \in StatusLists!Indexes
        PROVE  /\ entry'[k][j].bound = entry[k][j].bound
               /\ entry'[k][j].revoked = entry[k][j].revoked
               /\ (k # l \/ j # i) => entry'[k][j] = entry[k][j]
    <3>1. CASE k = l /\ j = i
      BY <2>2, <2>6, <3>1
    <3>2. CASE k # l \/ j # i
      <4>1. entry'[k][j] = entry[k][j]
        BY <2>5, <3>2
      <4> QED
        BY <4>1
    <3> QED
      BY <3>1, <3>2
  <2> QED
    BY <2>2, <2>5, <2>6, <2>7
<1> QED
  BY <1>1, <1>2

\* What a list has published stays published as long as it exists.
PublishedStays ==
    \A l \in Lists : list'[l].state = "live" => list[l].revoked \subseteq list'[l].revoked

\* The indexes stay apart when only the steps of the offers change, and the
\* expiry of the bindings.
LEMMA OffersMove ==
  ASSUME StatusInv, BindInv, StatusInv', list' = list,
         \A p \in Offers : /\ offer'[p].l = offer[p].l /\ offer'[p].i = offer[p].i
                           /\ offer'[p].pc \in Holding => offer[p].pc \in Holding,
         \A k \in Lists, j \in StatusLists!Indexes :
             entry'[k][j].revoked = entry[k][j].revoked,
         \A p \in Offers : offer'[p].pc \in Holding /\ entry[offer[p].l][offer[p].i].bound
             => entry'[offer[p].l][offer[p].i].bound,
         \A p \in Offers : Covered(p)'
  PROVE  BindInv'
<1>0. \A p \in Offers : offer[p].l \in Lists /\ offer[p].i \in StatusLists!Indexes
  BY StatusTypes DEF OfferRecords
<1>1. \A p \in Offers : Held(p)'
  BY <1>0 DEF BindInv, Held
<1>2. \A p, q \in Offers : Apart(p, q)'
  BY DEF BindInv, Apart
<1>3. \A l \in Lists : RevokedPublished(l)'
  BY DEF BindInv, RevokedPublished
<1> QED
  BY <1>1, <1>2, <1>3 DEF BindInv

\* They stay apart when a list is created or its token is signed again, and
\* when a revocation is published.
LEMMA ListMoves ==
  ASSUME StatusInv, BindInv, NEW l \in Lists, list[l].state # "deleted",
         list'[l].state = "live", list[l].revoked \subseteq list'[l].revoked,
         \A k \in Lists \ {l} : list'[k] = list[k], offer' = offer,
         \A k \in Lists, j \in StatusLists!Indexes :
             /\ entry'[k][j].bound = entry[k][j].bound
             /\ entry'[k][j].expiresAt = entry[k][j].expiresAt
             /\ entry'[k][j].revoked => (entry[k][j].revoked \/ (k = l /\ j \in list'[l].revoked))
  PROVE  BindInv'
<1>0. \A p \in Offers : offer[p].l \in Lists /\ offer[p].i \in StatusLists!Indexes
  BY StatusTypes DEF OfferRecords
<1>1. \A p \in Offers : Held(p)'
  <2> SUFFICES ASSUME NEW p \in Offers, offer[p].pc \in Holding
               PROVE  /\ list'[offer[p].l].state # "none"
                      /\ entry'[offer[p].l][offer[p].i].bound \/ list'[offer[p].l].state # "live"
    BY DEF Held
  <2>1. list[offer[p].l].state # "none" /\ list[offer[p].l].state \in {"none", "live", "deleted"}
    BY <1>0, StatusTypes DEF BindInv, Held, ListRecords
  <2>2. list[offer[p].l].state = "live" => entry[offer[p].l][offer[p].i].bound
    BY DEF BindInv, Held
  <2> QED
    BY <1>0, <2>1, <2>2
<1>2. \A p \in Offers : Covered(p)'
  <2> SUFFICES ASSUME NEW p \in Offers, offer[p].pc \in {"recorded", "issued"},
                      list'[offer[p].l].state = "live"
               PROVE  entry'[offer[p].l][offer[p].i].expiresAt >= offer[p].exp
    BY DEF Covered
  <2>1. list[offer[p].l].state = "live"
    <3>1. list[offer[p].l].state # "none"
      BY DEF BindInv, Held, Holding
    <3>2. list[l].state \in {"none", "live", "deleted"}
      BY StatusTypes DEF ListRecords
    <3> QED
      BY <1>0, <3>1, <3>2
  <2> QED
    BY <1>0, <2>1 DEF BindInv, Covered
<1>3. \A p, q \in Offers : Apart(p, q)'
  BY DEF BindInv, Apart
<1>4. \A k \in Lists : RevokedPublished(k)'
  BY DEF BindInv, RevokedPublished
<1> QED
  BY <1>1, <1>2, <1>3, <1>4 DEF BindInv

\* createStatusList.
LEMMA CreateListStep ==
  ASSUME StatusInv, NEW l \in Lists, StatusLists!createStatusList(l)
  PROVE  StatusInv' /\ PublishedStays /\ (BindInv => BindInv')
<1> DEFINE r == [state |-> "live", revoked |-> {}, chain |-> chain, iat |-> now]
<1>1. r \in ListRecords /\ r.state = "live" /\ r.revoked = {}
  BY StatusTypes DEF ListRecords
<1>2. /\ list' = [list EXCEPT ![l] = r] /\ list[l].state = "none"
      /\ UNCHANGED <<entry, offer, chain, now, served>>
  BY DEF StatusLists!createStatusList
<1> HIDE DEF r
<1>3. StatusInv'
  BY <1>1, <1>2, StatusTypes, ListStep DEF StatusLists!ServedUsable
<1>4. \A k \in Lists : list'[k] = IF k = l THEN r ELSE list[k]
  BY <1>2, StatusTypes
<1>5. list[l].revoked = {}
  BY <1>2, StatusTypes
<1> QED
  BY <1>1, <1>2, <1>3, <1>4, <1>5, ListMoves DEF PublishedStays

\* revokeCredential: the token first, then the binding, or the token alone.
LEMMA RevokeStep ==
  ASSUME StatusInv, NEW l \in Lists, NEW i \in StatusLists!Indexes,
         StatusLists!revokeCredential(l, i)
  PROVE  StatusInv' /\ PublishedStays /\ (BindInv => BindInv')
<1> DEFINE r == StatusLists!publish(l, {i})
           e == [entry[l][i] EXCEPT !.revoked = TRUE]
<1>1. /\ r \in ListRecords /\ r.state = list[l].state /\ r.revoked = list[l].revoked \cup {i}
  BY PublishFacts
<1>2. /\ list' = [list EXCEPT ![l] = r] /\ list[l].state = "live" /\ entry[l][i].bound
      /\ UNCHANGED <<offer, chain, served, now>>
  BY DEF StatusLists!revokeCredential
<1>e. entry[l][i] \in Entries
  BY StatusTypes
<1>3. e \in Entries /\ e.bound /\ e.revoked /\ e.expiresAt = entry[l][i].expiresAt
  BY <1>2, <1>e DEF Entries
<1>4. entry' = [entry EXCEPT ![l][i] = e] \/ entry' = entry
  BY StatusTypes DEF StatusLists!revokeCredential
<1> HIDE DEF r, e
<1>5. \A k \in Lists : list'[k] = IF k = l THEN r ELSE list[k]
  BY <1>2, StatusTypes
<1>6. /\ entry' \in [Lists -> [StatusLists!Indexes -> Entries]]
      /\ \A k \in Lists, j \in StatusLists!Indexes :
           /\ entry'[k][j].bound = entry[k][j].bound
           /\ entry'[k][j].expiresAt = entry[k][j].expiresAt
           /\ entry'[k][j].revoked => (entry[k][j].revoked \/ (k = l /\ j = i))
           /\ ~entry'[k][j].bound => entry'[k][j] = StatusLists!Unbound
  <2>1. CASE entry' = entry
    BY <2>1, StatusTypes
  <2>2. CASE entry' = [entry EXCEPT ![l][i] = e]
    <3>1. /\ entry' \in [Lists -> [StatusLists!Indexes -> Entries]]
          /\ \A k \in Lists, j \in StatusLists!Indexes :
               /\ entry'[k][j] = IF k = l /\ j = i THEN e ELSE entry[k][j]
               /\ ~entry'[k][j].bound => entry'[k][j] = StatusLists!Unbound
      BY <1>3, <2>2, EntryStep
    <3>2. entry'[l][i] = e
      BY <3>1
    <3>3. ASSUME NEW k \in Lists, NEW j \in StatusLists!Indexes
          PROVE  /\ entry'[k][j].bound = entry[k][j].bound
                 /\ entry'[k][j].expiresAt = entry[k][j].expiresAt
                 /\ entry'[k][j].revoked => (entry[k][j].revoked \/ (k = l /\ j = i))
      <4>1. CASE k = l /\ j = i
        BY <1>2, <1>3, <3>2, <4>1
      <4>2. CASE ~(k = l /\ j = i)
        <5>1. entry'[k][j] = entry[k][j]
          BY <3>1, <4>2
        <5> QED
          BY <5>1
      <4> QED
        BY <4>1, <4>2
    <3> QED
      BY <3>1, <3>3
  <2> QED
    BY <1>4, <2>1, <2>2
<1>7. list' \in [Lists -> ListRecords] /\ \A k \in Lists : list'[k].state # "none" \/ list'[k].revoked = {}
  BY <1>1, <1>2, <1>5, StatusTypes
<1>8. StatusInv'
  BY <1>2, <1>6, <1>7, StatusTypes DEF StatusInv, StatusLists!TypeOK, ListRecords, Entries,
     StatusLists!ServedUsable
<1> QED
  BY <1>1, <1>2, <1>5, <1>6, <1>8, ListMoves DEF PublishedStays

\* getStatusListToken: a token that is near its expiry, or not of this chain,
\* is signed again before it is served.
LEMMA GetTokenStep ==
  ASSUME StatusInv, NEW l \in Lists, StatusLists!getStatusListToken(l)
  PROVE  StatusInv' /\ PublishedStays /\ (BindInv => BindInv')
<1> DEFINE stale == \/ StatusLists!statusListTokenNearsExpiry(list[l])
                    \/ StatusLists!statusListTokenChainDiffers(list[l])
           t == IF stale THEN StatusLists!publish(l, {}) ELSE list[l]
<1>1. /\ list' = [list EXCEPT ![l] = t] /\ list[l].state = "live" /\ StatusLists!Serve(t)
      /\ UNCHANGED <<entry, offer, chain, now>>
  BY DEF StatusLists!getStatusListToken
<1>2. list[l] \in ListRecords /\ chain \in StatusLists!Chains /\ now \in 0..MaxTime
  BY StatusTypes
<1>3. /\ t \in ListRecords /\ t.state = "live" /\ list[l].revoked \subseteq t.revoked
      /\ t.chain = chain /\ now < t.iat + Lifetime
  <2>1. CASE stale
    <3>1. /\ t \in ListRecords /\ t.state = list[l].state
          /\ t.revoked = list[l].revoked \cup {} /\ t.chain = chain /\ t.iat = now
      BY <2>1, PublishFacts
    <3>2. now < now + Lifetime
      BY <1>2, StatusListBounds
    <3> QED
      BY <1>1, <3>1, <3>2
  <2>2. CASE ~stale
    <3>1. list[l].iat \in 0..MaxTime
      BY <1>2 DEF ListRecords
    <3>2. 2 * now < 2 * list[l].iat + Lifetime /\ list[l].chain = chain
      BY <1>2, <2>2, <3>1, StatusListBounds
         DEF StatusLists!statusListTokenNearsExpiry, StatusLists!statusListTokenChainDiffers
    <3>3. now < list[l].iat + Lifetime
      BY <1>2, <3>1, <3>2, StatusListBounds
    <3> QED
      BY <1>1, <1>2, <2>2, <3>2, <3>3
  <2> QED
    BY <2>1, <2>2
<1>4. StatusLists!ServedUsable'
  BY <1>1, <1>3 DEF StatusLists!Serve, StatusLists!ServedUsable
<1> HIDE DEF t
<1>5. StatusInv'
  BY <1>1, <1>3, <1>4, ListStep
<1>6. \A k \in Lists : list'[k] = IF k = l THEN t ELSE list[k]
  BY <1>1, StatusTypes
<1> QED
  BY <1>1, <1>3, <1>5, <1>6, ListMoves DEF PublishedStays

\* deleteStatusList, whether it runs through or fails on the way.
LEMMA DeleteListTypes ==
  ASSUME StatusInv, NEW l \in Lists, StatusLists!deleteStatusList(l)
  PROVE  StatusInv' /\ PublishedStays
<1>1. UNCHANGED <<offer, chain, served, now>>
  BY DEF StatusLists!deleteStatusList
<1>2. CASE /\ list' = [list EXCEPT ![l].state = "deleted"]
           /\ entry' = [entry EXCEPT ![l] = [i \in StatusLists!Indexes |-> StatusLists!Unbound]]
  <2>1. list[l] \in ListRecords
    BY StatusTypes
  <2> DEFINE r == [list[l] EXCEPT !.state = "deleted"]
  <2>2. r \in ListRecords /\ r.state = "deleted"
    BY <2>1 DEF ListRecords
  <2>3. list' = [list EXCEPT ![l] = r]
    BY <1>2, StatusTypes
  <2> HIDE DEF r
  <2>4. \A k \in Lists : list'[k] = IF k = l THEN r ELSE list[k]
    BY <2>3, StatusTypes
  <2>5. \A k \in Lists, j \in StatusLists!Indexes :
          entry'[k][j] = IF k = l THEN StatusLists!Unbound ELSE entry[k][j]
    BY <1>2, StatusTypes
  <2>6. entry' \in [Lists -> [StatusLists!Indexes -> Entries]]
    BY <1>2, StatusTypes, StatusNulls
  <2>7. list' \in [Lists -> ListRecords]
    BY <2>2, <2>3, StatusTypes
  <2>8. StatusInv'
    <3>1. \A k \in Lists, j \in StatusLists!Indexes :
            ~entry'[k][j].bound => entry'[k][j] = StatusLists!Unbound
      BY <2>5, StatusTypes
    <3>2. \A k \in Lists : list'[k].state = "none" => list'[k].revoked = {}
      BY <2>2, <2>4, StatusTypes
    <3> QED
      BY <1>1, <2>6, <2>7, <3>1, <3>2, StatusTypes
       DEF StatusInv, StatusLists!TypeOK, ListRecords, Entries, StatusLists!ServedUsable
  <2> QED
    BY <2>2, <2>4, <2>8 DEF PublishedStays
<1>3. ASSUME NEW gone \in SUBSET StatusLists!Indexes, list' = list,
             entry' = [entry EXCEPT ![l] =
                 [i \in StatusLists!Indexes |-> IF i \in gone THEN StatusLists!Unbound ELSE entry[l][i]]]
      PROVE  StatusInv' /\ PublishedStays
  <2>1. \A k \in Lists, j \in StatusLists!Indexes :
          entry'[k][j] = IF k = l /\ j \in gone THEN StatusLists!Unbound ELSE entry[k][j]
    BY <1>3, StatusTypes
  <2>2. [i \in StatusLists!Indexes |-> IF i \in gone THEN StatusLists!Unbound ELSE entry[l][i]]
          \in [StatusLists!Indexes -> Entries]
    BY StatusTypes, StatusNulls
  <2>3. entry' \in [Lists -> [StatusLists!Indexes -> Entries]]
    BY <1>3, <2>2, StatusTypes
  <2>4. StatusInv'
    BY <1>1, <1>3, <2>1, <2>3, StatusTypes
       DEF StatusInv, StatusLists!TypeOK, ListRecords, Entries, StatusLists!ServedUsable
  <2> QED
    BY <1>3, <2>4 DEF PublishedStays
<1>4. StatusLists!Dead(l) \subseteq StatusLists!Indexes
  BY DEF StatusLists!Dead
<1> QED
  BY <1>2, <1>3, <1>4 DEF StatusLists!deleteStatusList

\* A list is deleted only without live bindings, so every credential on it is
\* revoked or has expired with its binding.
LEMMA DeleteListBinds ==
  ASSUME StatusInv, BindInv, NEW l \in Lists, Bindings!deleteStatusList(l), StatusInv'
  PROVE  BindInv' /\ Bindings!DeletedListIsDeadStep
<1>1. /\ list[l].state = "live" /\ \A i \in StatusLists!Indexes : ~Bindings!isLive(entry[l][i])
      /\ list' = [list EXCEPT ![l].state = "deleted"]
      /\ entry' = [entry EXCEPT ![l] = [i \in StatusLists!Indexes |-> StatusLists!Unbound]]
      /\ UNCHANGED <<offer, chain, served, now>>
  BY DEF Bindings!deleteStatusList, Bindings!Indexes, StatusLists!Indexes, Bindings!Unbound,
         StatusLists!Unbound
<1>2. /\ \A p \in Offers : offer[p].l \in Lists /\ offer[p].i \in StatusLists!Indexes
      /\ \A p \in Offers : offer[p].exp \in Nat
      /\ \A k \in Lists, j \in StatusLists!Indexes : entry[k][j].expiresAt \in Nat
      /\ now \in Nat
  BY StatusTypes, StatusListBounds DEF OfferRecords, Entries
<1>3. /\ list'[l].state = "deleted"
      /\ \A k \in Lists \ {l} : list'[k] = list[k]
      /\ \A k \in Lists \ {l} : entry'[k] = entry[k]
  <2>1. list[l] \in ListRecords
    BY StatusTypes
  <2> QED
    BY <1>1, <2>1, StatusTypes DEF ListRecords
<1>4. BindInv'
  <2>1. \A p \in Offers : Held(p)'
    BY <1>1, <1>2, <1>3 DEF BindInv, Held
  <2>2. \A p \in Offers : Covered(p)'
    BY <1>1, <1>2, <1>3 DEF BindInv, Covered
  <2>3. \A p, q \in Offers : Apart(p, q)'
    BY <1>1 DEF BindInv, Apart
  <2>4. \A k \in Lists : RevokedPublished(k)'
    BY <1>1, <1>3 DEF BindInv, RevokedPublished
  <2> QED
    BY <2>1, <2>2, <2>3, <2>4 DEF BindInv
<1>5. Bindings!DeletedListIsDeadStep
  <2> SUFFICES ASSUME NEW o \in Offers, NEW k \in Lists, list[k].state = "live",
                      list'[k].state = "deleted", offer[o].pc = "issued", offer[o].l = k
               PROVE  offer[o].exp <= now \/ offer[o].i \in list[k].revoked
    BY DEF Bindings!DeletedListIsDeadStep, Bindings!Issued
  <2>1. k = l
    BY <1>3
  <2> DEFINE e == entry[l][offer[o].i]
  <2>2. e.bound /\ e.expiresAt >= offer[o].exp
    BY <2>1 DEF BindInv, Held, Covered, Holding
  <2>3. e.revoked \/ (e.expiresAt # 0 /\ ~(e.expiresAt > now))
    BY <1>1, <1>2, <2>2 DEF Bindings!isLive
  <2>4. CASE e.revoked
    BY <1>2, <2>1, <2>4 DEF BindInv, RevokedPublished
  <2>5. CASE e.expiresAt # 0 /\ ~(e.expiresAt > now)
    BY <1>2, <2>1, <2>2, <2>5
  <2> QED
    BY <2>3, <2>4, <2>5
<1> QED
  BY <1>4, <1>5

\* bindIndex: the index is free, so no offer that counts has it.
LEMMA BindStep ==
  ASSUME StatusInv, NEW o \in Offers, NEW l \in Lists, NEW i \in StatusLists!Indexes,
         StatusLists!bindIndex(o, l, i)
  PROVE  StatusInv' /\ PublishedStays /\ (BindInv => BindInv')
<1> DEFINE e == [StatusLists!Unbound EXCEPT !.bound = TRUE]
           r == [StatusLists!NoOffer EXCEPT !.pc = "bound", !.l = l, !.i = i]
<1>1. /\ offer[o].pc = "none" /\ list[l].state = "live" /\ ~entry[l][i].bound
      /\ entry' = [entry EXCEPT ![l][i] = e] /\ offer' = [offer EXCEPT ![o] = r]
      /\ UNCHANGED <<list, chain, served, now>>
  BY DEF StatusLists!bindIndex
<1>2. e \in Entries /\ e.bound /\ ~e.revoked
  BY StatusNulls DEF Entries, StatusLists!Unbound
<1>3. r \in OfferRecords /\ r.pc = "bound" /\ r.l = l /\ r.i = i
  BY StatusNulls DEF OfferRecords, OfferSteps
<1> HIDE DEF e, r
<1>4. /\ entry' \in [Lists -> [StatusLists!Indexes -> Entries]]
      /\ \A k \in Lists, j \in StatusLists!Indexes :
           /\ entry'[k][j] = IF k = l /\ j = i THEN e ELSE entry[k][j]
           /\ ~entry'[k][j].bound => entry'[k][j] = StatusLists!Unbound
  BY <1>1, <1>2, EntryStep
<1>5. /\ offer' \in [Offers -> OfferRecords]
      /\ \A p \in Offers : offer'[p] = IF p = o THEN r ELSE offer[p]
  BY <1>1, <1>3, OfferStep
<1>6. StatusInv'
  BY <1>1, <1>4, <1>5, StatusTypes
     DEF StatusInv, StatusLists!TypeOK, ListRecords, Entries, StatusLists!ServedUsable
<1>7. ASSUME BindInv PROVE BindInv'
  <2>0. \A p \in Offers : offer[p].l \in Lists /\ offer[p].i \in StatusLists!Indexes
    BY StatusTypes DEF OfferRecords
  <2>1. \A p \in Offers : offer[p].pc \in Holding => offer[p].l # l \/ offer[p].i # i
    BY <1>1, <1>7 DEF BindInv, Held
  <2>2. \A p \in Offers : Held(p)'
    BY <1>1, <1>2, <1>3, <1>4, <1>5, <1>7, <2>0 DEF BindInv, Held
  <2>3. \A p \in Offers : Covered(p)'
    BY <1>1, <1>3, <1>4, <1>5, <1>7, <2>0, <2>1 DEF BindInv, Covered, Holding
  <2>4. \A p, q \in Offers : Apart(p, q)'
    BY <1>3, <1>5, <1>7, <2>1 DEF BindInv, Apart
  <2>5. \A k \in Lists : RevokedPublished(k)'
    BY <1>1, <1>2, <1>4, <1>7 DEF BindInv, RevokedPublished
  <2> QED
    BY <2>2, <2>3, <2>4, <2>5 DEF BindInv
<1> QED
  BY <1>1, <1>6, <1>7 DEF PublishedStays

\* The steps of createOffer and of the wallet that leave lists and bindings
\* alone.
LEMMA SessionStep ==
  ASSUME StatusInv, NEW o \in Offers,
         \/ StatusLists!createCredentialOffer(o) \/ StatusLists!discardFailedOffer(o)
         \/ StatusLists!deleteIssuanceSession(o) \/ StatusLists!credentialRequest(o)
         \/ StatusLists!signCredential(o)
  PROVE  StatusInv' /\ PublishedStays /\ (BindInv => BindInv')
<1>0. UNCHANGED <<list, entry, chain, served, now>>
  BY DEF StatusLists!createCredentialOffer, StatusLists!discardFailedOffer,
         StatusLists!deleteIssuanceSession, StatusLists!credentialRequest,
         StatusLists!signCredential
<1>1. /\ offer' \in [Offers -> OfferRecords]
      /\ \A p \in Offers :
           /\ offer'[p].l = offer[p].l /\ offer'[p].i = offer[p].i /\ offer'[p].exp = offer[p].exp
           /\ offer'[p].pc \in Holding => offer[p].pc \in Holding
           /\ offer'[p].pc \in {"recorded", "issued"} => offer[p].pc \in {"recorded", "issued"}
  <2>1. ASSUME NEW s \in OfferSteps, StatusLists!Move(o, s), s \in Holding => offer[o].pc \in Holding,
               s \in {"recorded", "issued"} => offer[o].pc \in {"recorded", "issued"}
        PROVE  /\ offer' \in [Offers -> OfferRecords]
               /\ \A p \in Offers :
                    /\ offer'[p].l = offer[p].l /\ offer'[p].i = offer[p].i /\ offer'[p].exp = offer[p].exp
                    /\ offer'[p].pc \in Holding => offer[p].pc \in Holding
                    /\ offer'[p].pc \in {"recorded", "issued"} => offer[p].pc \in {"recorded", "issued"}
    <3>1. /\ offer' \in [Offers -> OfferRecords]
          /\ offer'[o].pc = s
          /\ \A p \in Offers : /\ p # o => offer'[p] = offer[p]
                               /\ offer'[p].l = offer[p].l /\ offer'[p].i = offer[p].i
                               /\ offer'[p].exp = offer[p].exp
      BY <2>1, MoveStep
    <3>2. \A p \in Offers \ {o} : offer'[p] = offer[p]
      BY <3>1
    <3> QED
      BY <2>1, <3>1, <3>2
  <2>2. CASE offer' = [offer EXCEPT ![o].pc = "session", ![o].expiresAt = now + OfferTtl]
             /\ offer[o].pc = "bound"
    <3>1. offer[o] \in OfferRecords /\ now + OfferTtl \in 0..(MaxTime + OfferTtl)
      BY StatusTypes, Times
    <3> DEFINE r == [offer[o] EXCEPT !.pc = "session", !.expiresAt = now + OfferTtl]
    <3>2. r \in OfferRecords /\ r.pc = "session" /\ r.l = offer[o].l /\ r.i = offer[o].i
          /\ r.exp = offer[o].exp
      BY <3>1 DEF OfferRecords, OfferSteps
    <3>3. offer' = [offer EXCEPT ![o] = r]
      BY <2>2, StatusTypes
    <3> HIDE DEF r
    <3> QED
      BY <2>2, <3>2, <3>3, OfferStep DEF Holding
  <2>3. CASE StatusLists!createCredentialOffer(o)
    BY <2>1, <2>2, <2>3 DEF StatusLists!createCredentialOffer, OfferSteps, Holding
  <2>4. CASE StatusLists!discardFailedOffer(o)
    BY <2>1, <2>4 DEF StatusLists!discardFailedOffer, OfferSteps, Holding
  <2>5. CASE StatusLists!deleteIssuanceSession(o)
    BY <2>1, <2>5 DEF StatusLists!deleteIssuanceSession, OfferSteps, Holding
  <2>6. CASE StatusLists!credentialRequest(o)
    BY <2>1, <2>6 DEF StatusLists!credentialRequest, OfferSteps, Holding
  <2>7. CASE StatusLists!signCredential(o)
    BY <2>1, <2>7 DEF StatusLists!signCredential, OfferSteps, Holding
  <2> QED
    BY <2>3, <2>4, <2>5, <2>6, <2>7
<1>2. StatusInv'
  BY <1>0, <1>1, StatusTypes
     DEF StatusInv, StatusLists!TypeOK, ListRecords, Entries, StatusLists!ServedUsable
<1>3. ASSUME BindInv PROVE \A p \in Offers : Covered(p)'
  BY <1>0, <1>1, <1>3 DEF BindInv, Covered
<1> QED
  BY <1>0, <1>1, <1>2, <1>3, OffersMove DEF PublishedStays

\* completeBinding: the binding takes over the expiry of the session.
LEMMA CompleteStep ==
  ASSUME StatusInv, NEW o \in Offers, StatusLists!completeBinding(o)
  PROVE  StatusInv' /\ PublishedStays /\ (BindInv => BindInv')
<1>0. UNCHANGED <<list, chain, served, now>> /\ offer[o].pc = "session"
  BY DEF StatusLists!completeBinding
<1>1. PICK s \in {"offered", "discard"} : StatusLists!Move(o, s)
  BY DEF StatusLists!completeBinding
<1>2. /\ offer[o].l \in Lists /\ offer[o].i \in StatusLists!Indexes
      /\ offer[o].expiresAt \in 0..(MaxTime + OfferTtl + CredTtl)
  BY StatusTypes, Times DEF OfferRecords
<1>3. /\ offer' \in [Offers -> OfferRecords]
      /\ offer'[o].pc = s
      /\ \A p \in Offers : /\ p # o => offer'[p] = offer[p]
                           /\ offer'[p].l = offer[p].l /\ offer'[p].i = offer[p].i
                           /\ offer'[p].exp = offer[p].exp
  BY <1>1, MoveStep DEF OfferSteps
<1>4. /\ entry' \in [Lists -> [StatusLists!Indexes -> Entries]]
      /\ \A k \in Lists, j \in StatusLists!Indexes :
           /\ entry'[k][j].bound = entry[k][j].bound
           /\ entry'[k][j].revoked = entry[k][j].revoked
           /\ (k # offer[o].l \/ j # offer[o].i) => entry'[k][j] = entry[k][j]
           /\ ~entry'[k][j].bound => entry'[k][j] = StatusLists!Unbound
  <2>1. CASE entry' = entry
    BY <2>1, StatusTypes
  <2>2. CASE StatusLists!updateEntry(offer[o].l, offer[o].i, offer[o].expiresAt)
    BY <1>2, <2>2, UpdateStep
  <2> QED
    BY <2>1, <2>2 DEF StatusLists!completeBinding
<1>5. StatusInv'
  BY <1>0, <1>3, <1>4, StatusTypes
     DEF StatusInv, StatusLists!TypeOK, ListRecords, Entries, StatusLists!ServedUsable
<1>6. ASSUME BindInv PROVE BindInv'
  <2>0. \A p \in Offers : offer[p].l \in Lists /\ offer[p].i \in StatusLists!Indexes
    BY StatusTypes DEF OfferRecords
  <2>1. \A p \in Offers : p # o /\ offer[p].pc \in Holding =>
            offer[p].l # offer[o].l \/ offer[p].i # offer[o].i
    BY <1>0, <1>6 DEF BindInv, Apart, Holding
  <2>2. \A p \in Offers : Covered(p)'
    <3> SUFFICES ASSUME NEW p \in Offers, offer'[p].pc \in {"recorded", "issued"},
                        list[offer[p].l].state = "live"
                 PROVE  entry'[offer[p].l][offer[p].i].expiresAt >= offer[p].exp
      BY <1>0, <1>3 DEF Covered
    <3>1. p # o /\ offer'[p] = offer[p]
      BY <1>3
    <3> QED
      BY <1>4, <1>6, <2>0, <2>1, <3>1 DEF BindInv, Covered, Holding
  <2>3. \A p \in Offers : /\ offer'[p].l = offer[p].l /\ offer'[p].i = offer[p].i
                          /\ offer'[p].pc \in Holding => offer[p].pc \in Holding
    <3>1. \A p \in Offers \ {o} : offer'[p] = offer[p]
      BY <1>3
    <3>2. offer[o].pc \in Holding
      BY <1>0 DEF Holding
    <3>3. \A p \in Offers : offer'[p].l = offer[p].l /\ offer'[p].i = offer[p].i
      BY <1>3
    <3>4. \A p \in Offers : offer'[p].pc \in Holding => offer[p].pc \in Holding
      <4> SUFFICES ASSUME NEW p \in Offers, offer'[p].pc \in Holding PROVE offer[p].pc \in Holding
        OBVIOUS
      <4>1. CASE p = o
        BY <4>1, <3>2
      <4>2. CASE p # o
        BY <4>2, <3>1
      <4> QED
        BY <4>1, <4>2
    <3> QED
      BY <3>3, <3>4
  <2> QED
    BY <1>0, <1>4, <1>5, <1>6, <2>0, <2>2, <2>3, OffersMove
<1> QED
  BY <1>0, <1>5, <1>6 DEF PublishedStays

\* mapCredentialRequest: the binding takes over the expiry of the credential
\* before the credential is signed.
LEMMA MapStep ==
  ASSUME StatusInv, NEW o \in Offers, StatusLists!mapCredentialRequest(o)
  PROVE  StatusInv' /\ PublishedStays /\ (BindInv => BindInv')
<1> DEFINE r == [offer[o] EXCEPT !.pc = "recorded", !.exp = now + CredTtl]
<1>0. /\ UNCHANGED <<list, chain, served, now>> /\ offer[o].pc = "mapping"
      /\ StatusLists!updateEntry(offer[o].l, offer[o].i, now + CredTtl)
  BY DEF StatusLists!mapCredentialRequest
<1>1. /\ offer[o] \in OfferRecords /\ now + CredTtl \in 0..(MaxTime + CredTtl)
      /\ now + CredTtl \in 0..(MaxTime + OfferTtl + CredTtl)
      /\ now + CredTtl >= now + CredTtl
  BY StatusTypes, Times, StatusListBounds
<1>2. offer[o].l \in Lists /\ offer[o].i \in StatusLists!Indexes
  BY <1>1 DEF OfferRecords
<1>3. /\ r \in OfferRecords /\ r.pc = "recorded" /\ r.l = offer[o].l /\ r.i = offer[o].i
      /\ r.exp = now + CredTtl
  BY <1>1 DEF OfferRecords, OfferSteps
<1>4. offer' = [offer EXCEPT ![o] = r]
  BY StatusTypes DEF StatusLists!mapCredentialRequest
<1> HIDE DEF r
<1>5. /\ offer' \in [Offers -> OfferRecords]
      /\ \A p \in Offers : offer'[p] = IF p = o THEN r ELSE offer[p]
  BY <1>3, <1>4, OfferStep
<1>6. /\ entry' \in [Lists -> [StatusLists!Indexes -> Entries]]
      /\ \A k \in Lists, j \in StatusLists!Indexes :
           /\ entry'[k][j].bound = entry[k][j].bound
           /\ entry'[k][j].revoked = entry[k][j].revoked
           /\ (k # offer[o].l \/ j # offer[o].i) => entry'[k][j] = entry[k][j]
           /\ ~entry'[k][j].bound => entry'[k][j] = StatusLists!Unbound
      /\ entry[offer[o].l][offer[o].i].bound =>
            entry'[offer[o].l][offer[o].i].expiresAt = now + CredTtl
  BY <1>0, <1>1, <1>2, UpdateStep
<1>7. StatusInv'
  BY <1>0, <1>5, <1>6, StatusTypes
     DEF StatusInv, StatusLists!TypeOK, ListRecords, Entries, StatusLists!ServedUsable
<1>8. ASSUME BindInv PROVE BindInv'
  <2>0. \A p \in Offers : offer[p].l \in Lists /\ offer[p].i \in StatusLists!Indexes
    BY StatusTypes DEF OfferRecords
  <2>1. \A p \in Offers : p # o /\ offer[p].pc \in Holding =>
            offer[p].l # offer[o].l \/ offer[p].i # offer[o].i
    BY <1>0, <1>8 DEF BindInv, Apart, Holding
  <2>2. \A p \in Offers : Covered(p)'
    <3>1. Covered(o)'
      <4> SUFFICES ASSUME list[offer[o].l].state = "live"
                   PROVE  entry'[offer[o].l][offer[o].i].expiresAt >= now + CredTtl
        BY <1>0, <1>3, <1>5 DEF Covered
      <4>1. entry[offer[o].l][offer[o].i].bound
        BY <1>0, <1>8 DEF BindInv, Held, Holding
      <4> QED
        BY <1>1, <1>6, <4>1
    <3>2. ASSUME NEW p \in Offers, p # o PROVE Covered(p)'
      BY <1>0, <1>5, <1>6, <1>8, <2>0, <2>1, <3>2 DEF BindInv, Covered, Holding
    <3> QED
      BY <3>1, <3>2
  <2>3. \A p \in Offers : /\ offer'[p].l = offer[p].l /\ offer'[p].i = offer[p].i
                          /\ offer'[p].pc \in Holding => offer[p].pc \in Holding
    BY <1>0, <1>3, <1>5 DEF Holding
  <2> QED
    BY <1>0, <1>6, <1>7, <1>8, <2>0, <2>2, <2>3, OffersMove
<1> QED
  BY <1>0, <1>7, <1>8 DEF PublishedStays

\* releaseIndex frees the index of a failed offer, and no other offer's.
LEMMA ReleaseStep ==
  ASSUME StatusInv, NEW o \in Offers, StatusLists!releaseIndex(o)
  PROVE  StatusInv' /\ PublishedStays /\ (BindInv => BindInv')
<1>0. /\ UNCHANGED <<list, chain, served, now>> /\ offer[o].pc = "release"
      /\ StatusLists!Move(o, "failed")
      /\ entry' = [entry EXCEPT ![offer[o].l][offer[o].i] = StatusLists!Unbound]
  BY DEF StatusLists!releaseIndex
<1>1. offer[o].l \in Lists /\ offer[o].i \in StatusLists!Indexes
  BY StatusTypes DEF OfferRecords
<1>2. /\ offer' \in [Offers -> OfferRecords] /\ offer'[o].pc = "failed"
      /\ \A p \in Offers : p # o => offer'[p] = offer[p]
      /\ \A p \in Offers : offer'[p].l = offer[p].l /\ offer'[p].i = offer[p].i
  BY <1>0, MoveStep DEF OfferSteps
<1>3. /\ entry' \in [Lists -> [StatusLists!Indexes -> Entries]]
      /\ \A k \in Lists, j \in StatusLists!Indexes :
           /\ entry'[k][j] = IF k = offer[o].l /\ j = offer[o].i THEN StatusLists!Unbound
                             ELSE entry[k][j]
           /\ ~entry'[k][j].bound => entry'[k][j] = StatusLists!Unbound
  BY <1>0, <1>1, StatusNulls, EntryStep
<1>4. StatusInv'
  BY <1>0, <1>2, <1>3, StatusTypes
     DEF StatusInv, StatusLists!TypeOK, ListRecords, Entries, StatusLists!ServedUsable
<1>5. ASSUME BindInv PROVE BindInv'
  <2>0. \A p \in Offers : offer[p].l \in Lists /\ offer[p].i \in StatusLists!Indexes
    BY StatusTypes DEF OfferRecords
  <2>1. \A p \in Offers : offer'[p].pc \in Holding =>
          /\ p # o /\ offer'[p] = offer[p]
          /\ offer[p].l # offer[o].l \/ offer[p].i # offer[o].i
    BY <1>0, <1>2, <1>5 DEF BindInv, Apart, Holding
  <2>2. ASSUME NEW p \in Offers PROVE Held(p)'
    <3>1. CASE offer'[p].pc \notin Holding
      BY <3>1, Zenon DEF Held
    <3>2. CASE offer'[p].pc \in Holding
      <4>1. /\ offer'[p] = offer[p]
            /\ offer[p].l # offer[o].l \/ offer[p].i # offer[o].i
        BY <2>1, <3>2
      <4>2. entry'[offer[p].l][offer[p].i] = entry[offer[p].l][offer[p].i]
        BY <1>3, <2>0, <4>1
      <4>3. Held(p)
        BY <1>5 DEF BindInv
      <4> QED
        BY <1>0, <4>1, <4>2, <4>3 DEF Held
    <3> QED
      BY <3>1, <3>2
  <2>3. \A p \in Offers : Covered(p)'
    BY <1>0, <1>3, <1>5, <2>0, <2>1 DEF BindInv, Covered, Holding
  <2>4. \A p, q \in Offers : Apart(p, q)'
    BY <1>5, <2>1 DEF BindInv, Apart
  <2>5. \A k \in Lists : RevokedPublished(k)'
    BY <1>0, <1>3, <1>5, StatusNulls DEF BindInv, RevokedPublished
  <2> QED
    BY <2>2, <2>3, <2>4, <2>5 DEF BindInv
<1> QED
  BY <1>0, <1>4, <1>5 DEF PublishedStays

\* A crash ends every call and touches neither lists nor bindings.
LEMMA CrashStep ==
  ASSUME StatusInv, StatusLists!restart
  PROVE  StatusInv' /\ PublishedStays /\ (BindInv => BindInv')
<1>0. UNCHANGED <<list, entry, served, now>> /\ chain' \in StatusLists!Chains
  BY DEF StatusLists!restart
<1>1. ASSUME NEW p \in Offers
      PROVE  /\ offer'[p] \in OfferRecords
             /\ offer'[p].l = offer[p].l /\ offer'[p].i = offer[p].i /\ offer'[p].exp = offer[p].exp
             /\ offer'[p].pc \in Holding => offer[p].pc \in Holding
             /\ offer'[p].pc \in {"recorded", "issued"} => offer[p].pc \in {"recorded", "issued"}
  <2>1. offer[p] \in OfferRecords
    BY StatusTypes
  <2>2. PICK s \in {"failed", "survives", "offered"} :
          \/ offer'[p] = offer[p]
          \/ offer'[p] = [offer[p] EXCEPT !.pc = s] /\ offer[p].pc \in Holding
    BY DEF StatusLists!restart, Holding
  <2>3. /\ [offer[p] EXCEPT !.pc = s] \in OfferRecords
        /\ [offer[p] EXCEPT !.pc = s].pc = s /\ [offer[p] EXCEPT !.pc = s].l = offer[p].l
        /\ [offer[p] EXCEPT !.pc = s].i = offer[p].i /\ [offer[p] EXCEPT !.pc = s].exp = offer[p].exp
    BY <2>1 DEF OfferRecords, OfferSteps
  <2> QED
    BY <2>1, <2>2, <2>3
<1>2. offer' \in [Offers -> OfferRecords]
  <2>1. offer' = [p \in Offers |-> offer'[p]]
    BY DEF StatusLists!restart
  <2> QED
    BY <1>1, <2>1
<1>3. StatusInv'
  BY <1>0, <1>2, StatusTypes
     DEF StatusInv, StatusLists!TypeOK, ListRecords, Entries, StatusLists!ServedUsable
<1>4. ASSUME BindInv PROVE \A p \in Offers : Covered(p)'
  BY <1>0, <1>1, <1>4 DEF BindInv, Covered
<1> QED
  BY <1>0, <1>1, <1>3, <1>4, OffersMove DEF PublishedStays

\* Every step keeps what the tasks rely on and what was published; with no
\* deletion that fails halfway it also keeps the indexes apart.
LEMMA StatusNext ==
  ASSUME StatusInv, [StatusLists!Next]_statusListVars
  PROVE  StatusInv' /\ PublishedStays
<1>1. CASE StatusLists!Tick
  BY <1>1, StatusTypes, StatusListBounds
     DEF StatusLists!Tick, StatusInv, StatusLists!TypeOK, StatusLists!ServedUsable, PublishedStays
<1>2. CASE UNCHANGED statusListVars
  BY <1>2 DEF statusListVars, StatusInv, StatusLists!TypeOK, StatusLists!ServedUsable, PublishedStays
<1> QED
  BY <1>1, <1>2, CreateListStep, DeleteListTypes, GetTokenStep, RevokeStep, BindStep,
     SessionStep, CompleteStep, ReleaseStep, MapStep, CrashStep DEF StatusLists!Next

\* Only deleteStatusList ends a list.
LEMMA ListsLive ==
  ASSUME StatusInv, OtherSteps, NEW k \in Lists, list[k].state = "live"
  PROVE  list'[k].state = "live"
<1>1. ASSUME NEW l \in Lists, StatusLists!createStatusList(l) PROVE list'[k].state = "live"
  BY <1>1, StatusTypes DEF StatusLists!createStatusList
<1>2. ASSUME NEW l \in Lists, NEW newly \in SUBSET StatusLists!Indexes,
             list' = [list EXCEPT ![l] = StatusLists!publish(l, newly)]
      PROVE  list'[k].state = "live"
  BY <1>2, PublishFacts, StatusTypes
<1>3. ASSUME NEW l \in Lists, StatusLists!getStatusListToken(l) PROVE list'[k].state = "live"
  <2>1. \/ list' = [list EXCEPT ![l] = StatusLists!publish(l, {})]
        \/ list' = [list EXCEPT ![l] = list[l]]
    BY <1>3 DEF StatusLists!getStatusListToken
  <2> QED
    BY <1>2, <2>1, StatusTypes
<1>4. ASSUME NEW l \in Lists, NEW i \in StatusLists!Indexes, StatusLists!revokeCredential(l, i)
      PROVE  list'[k].state = "live"
  <2>1. list' = [list EXCEPT ![l] = StatusLists!publish(l, {i})]
    BY <1>4 DEF StatusLists!revokeCredential
  <2>2. {i} \in SUBSET StatusLists!Indexes
    OBVIOUS
  <2> QED
    BY <1>2, <2>1, <2>2
<1>5. ASSUME list' = list PROVE list'[k].state = "live"
  BY <1>5
<1> QED
  BY <1>1, <1>3, <1>4, <1>5
     DEF OtherSteps, StatusLists!bindIndex, StatusLists!createCredentialOffer,
         StatusLists!completeBinding, StatusLists!discardFailedOffer, StatusLists!releaseIndex,
         StatusLists!deleteIssuanceSession, StatusLists!credentialRequest,
         StatusLists!mapCredentialRequest, StatusLists!signCredential, StatusLists!restart,
         StatusLists!Tick

LEMMA BindNext ==
  ASSUME StatusInv, BindInv, [Bindings!Next]_statusListVars
  PROVE  StatusInv' /\ BindInv' /\ [Bindings!DeletedListIsDeadStep]_statusListVars
<1>1. StatusInv'
  BY StatusNext, FewerFaults
<1>2. CASE \E l \in Lists : Bindings!deleteStatusList(l)
  BY <1>1, <1>2, DeleteListBinds
<1>3. CASE UNCHANGED statusListVars \/ StatusLists!Tick
  BY <1>1, <1>3 DEF statusListVars, StatusLists!Tick, BindInv, Held, Covered, Apart,
     RevokedPublished, Bindings!DeletedListIsDeadStep
<1>4. CASE OtherSteps
  <2>1. BindInv'
    BY <1>1, <1>3, <1>4, CreateListStep, GetTokenStep, RevokeStep, BindStep, SessionStep,
       CompleteStep, ReleaseStep, MapStep, CrashStep DEF OtherSteps
  <2>2. Bindings!DeletedListIsDeadStep
    BY <1>4, ListsLive DEF Bindings!DeletedListIsDeadStep
  <2> QED
    BY <1>1, <2>1, <2>2
<1> QED
  BY <1>2, <1>3, <1>4, FewerFaults

-----------------------------------------------------------------------------
(* The issuer: its keys and its configurations. *)

Calls == {"initialize", "refresh", "offer"}
Replacements == [by : Calls \cup {"none"}, set : SUBSET Types, render : BOOLEAN]

\* A key that was bound is in the DID document, and the document that a
\* publication has read is still the current one when it is written.
KeyInv ==
    /\ \A r \in Issuer!Roles : issuerAt[r] \in {"render", "ready"} => doc[r] = cert[r]
    /\ issuerAt["verifier"] # "render"
    /\ lock.by # "none" => lock.read = doc

\* An initialization queues one replacement and waits for it.
InitOnce ==
    /\ derived.by = "initialize" => issuerAt["issuer"] = "render"
    /\ \A k \in 1..Len(queue) : queue[k] = "initialize" =>
         issuerAt["issuer"] = "render" /\ derived.by # "initialize"
    /\ \A j, k \in 1..Len(queue) : (queue[j] = "initialize" /\ queue[k] = "initialize") => j = k

\* A replacement that leaves the stored issuer alone found the options to be
\* the set it derived, and nothing replaces them while it runs.
ServedInv ==
    /\ accredited \subseteq Types /\ restarts \in Nat /\ derived \in Replacements
    /\ derived.by = "none" <=> derived = Issuer!Idle
    /\ derived.by = "initialize" => derived.render
    /\ (derived.by # "none" /\ ~derived.render) => derived.set = options
    /\ issuerAt["issuer"] = "ready" => metadata = options

IssuerInv == Issuer!TypeOK /\ KeyInv /\ InitOnce /\ ServedInv

LEMMA IssuerStarts == Issuer!Init => IssuerInv
BY DEF Issuer!Init, IssuerInv, Issuer!TypeOK, KeyInv, InitOnce, ServedInv, Replacements, Calls,
       Issuer!Roles, Issuer!Idle, Issuer!Free

\* What the steps of an initialization that do not reach the configurations
\* leave of the invariant to prove.
LEMMA KeySteps ==
  ASSUME IssuerInv, NEW r \in Issuer!Roles,
         NEW s \in {"start", "publish", "write", "bind", "ready"},
         Issuer!Goto(r, s), issuerAt[r] \notin {"render", "ready"}, s = "ready" => r = "verifier",
         UNCHANGED <<accredited, options, metadata, extra, queue, derived, restarts>>
  PROVE  /\ InitOnce' /\ ServedInv'
         /\ issuerAt' \in [Issuer!Roles -> {"start", "publish", "write", "bind", "render", "ready"}]
         /\ \A q \in Issuer!Roles : issuerAt'[q] = IF q = r THEN s ELSE issuerAt[q]
<1>1. /\ issuerAt' \in [Issuer!Roles -> {"start", "publish", "write", "bind", "render", "ready"}]
      /\ \A q \in Issuer!Roles : issuerAt'[q] = IF q = r THEN s ELSE issuerAt[q]
  BY DEF IssuerInv, Issuer!TypeOK, Issuer!Goto
<1>2. "issuer" \in Issuer!Roles
  BY DEF Issuer!Roles
<1>3. InitOnce'
  BY <1>1, <1>2 DEF IssuerInv, InitOnce
<1>4. ServedInv'
  BY <1>1, <1>2 DEF IssuerInv, ServedInv
<1> QED
  BY <1>1, <1>3, <1>4

\* loadSigningCertificate.
LEMMA LoadStep ==
  ASSUME IssuerInv, NEW r \in Issuer!Roles, Issuer!loadSigningCertificate(r)
  PROVE  IssuerInv'
<1>1. PICK c \in {record[r], record[r] + 1} :
        cert' = [cert EXCEPT ![r] = c] /\ record' = [record EXCEPT ![r] = c]
  BY DEF Issuer!loadSigningCertificate
<1>2. c \in Nat
  BY DEF IssuerInv, Issuer!TypeOK
<1>3. /\ Issuer!Goto(r, "publish") /\ issuerAt[r] = "start"
      /\ UNCHANGED <<doc, lock, accredited, news, options, metadata, extra, queue, derived, restarts>>
  BY DEF Issuer!loadSigningCertificate, Issuer!derive, Issuer!bounds
<1>4. /\ InitOnce' /\ ServedInv'
      /\ issuerAt' \in [Issuer!Roles -> {"start", "publish", "write", "bind", "render", "ready"}]
      /\ \A q \in Issuer!Roles : issuerAt'[q] = IF q = r THEN "publish" ELSE issuerAt[q]
  BY <1>3, KeySteps
<1>5. Issuer!TypeOK'
  BY <1>1, <1>2, <1>3, <1>4 DEF IssuerInv, Issuer!TypeOK
<1>6. KeyInv'
  BY <1>1, <1>3, <1>4 DEF IssuerInv, Issuer!TypeOK, KeyInv, Issuer!Roles
<1> QED
  BY <1>4, <1>5, <1>6 DEF IssuerInv

\* publishDevelopmentSigningKey, its read.
LEMMA PublishReadStep ==
  ASSUME IssuerInv, NEW r \in Issuer!Roles, Issuer!publishRead(r)
  PROVE  IssuerInv'
<1>1. PICK s \in {"bind", "write", "start"} :
        /\ Issuer!Goto(r, s) /\ issuerAt[r] = "publish" /\ lock = Issuer!Free
        /\ IF s = "write" THEN lock' = [by |-> r, read |-> doc] ELSE lock' = lock
  BY DEF Issuer!publishRead, Issuer!Fail
<1>2. UNCHANGED <<record, cert, doc, accredited, news, options, metadata, extra, queue, derived, restarts>>
  BY DEF Issuer!publishRead, Issuer!derive, Issuer!bounds
<1>3. /\ InitOnce' /\ ServedInv'
      /\ issuerAt' \in [Issuer!Roles -> {"start", "publish", "write", "bind", "render", "ready"}]
      /\ \A q \in Issuer!Roles : issuerAt'[q] = IF q = r THEN s ELSE issuerAt[q]
  BY <1>1, <1>2, KeySteps
<1>4. lock.by = "none" /\ "none" \notin Issuer!Roles
  BY <1>1 DEF Issuer!Free, Issuer!Roles
<1>5. \A q \in Issuer!Roles : issuerAt[q] # "write"
  BY <1>4 DEF IssuerInv, Issuer!TypeOK
<1>6. Issuer!TypeOK'
  BY <1>1, <1>2, <1>3, <1>4, <1>5 DEF IssuerInv, Issuer!TypeOK
<1>7. KeyInv'
  BY <1>1, <1>2, <1>3, <1>4 DEF IssuerInv, KeyInv, Issuer!Roles
<1> QED
  BY <1>3, <1>6, <1>7 DEF IssuerInv

\* ... and its write: only the key of this capability changes.
LEMMA PublishWriteStep ==
  ASSUME IssuerInv, NEW r \in Issuer!Roles, Issuer!publishWrite(r)
  PROVE  IssuerInv'
<1>1. PICK s \in {"bind", "start"} :
        /\ Issuer!Goto(r, s) /\ issuerAt[r] = "write" /\ lock' = Issuer!Free
        /\ doc' = [lock.read EXCEPT ![r] = cert[r]] \/ doc' = doc
  BY DEF Issuer!publishWrite, Issuer!Fail
<1>2. UNCHANGED <<record, cert, accredited, news, options, metadata, extra, queue, derived, restarts>>
  BY DEF Issuer!publishWrite, Issuer!derive, Issuer!bounds
<1>3. /\ InitOnce' /\ ServedInv'
      /\ issuerAt' \in [Issuer!Roles -> {"start", "publish", "write", "bind", "render", "ready"}]
      /\ \A q \in Issuer!Roles : issuerAt'[q] = IF q = r THEN s ELSE issuerAt[q]
  BY <1>1, <1>2, KeySteps
<1>4. lock.by = r /\ "none" \notin Issuer!Roles /\ lock.read = doc /\ doc \in [Issuer!Roles -> Nat]
  BY <1>1 DEF IssuerInv, Issuer!TypeOK, KeyInv, Issuer!Roles
<1>5. lock'.by = "none" /\ lock'.read \in [Issuer!Roles -> Nat]
  BY <1>1 DEF Issuer!Free
<1>6. \A q \in Issuer!Roles : issuerAt'[q] # "write"
  BY <1>3, <1>4 DEF IssuerInv, Issuer!TypeOK
<1>7. doc' \in [Issuer!Roles -> Nat] /\ \A q \in Issuer!Roles : q # r => doc'[q] = doc[q]
  BY <1>1, <1>4 DEF IssuerInv, Issuer!TypeOK
<1>8. Issuer!TypeOK'
  BY <1>2, <1>3, <1>4, <1>5, <1>6, <1>7 DEF IssuerInv, Issuer!TypeOK
<1>9. KeyInv'
  BY <1>2, <1>3, <1>5, <1>7 DEF IssuerInv, KeyInv, Issuer!Roles
<1> QED
  BY <1>3, <1>8, <1>9 DEF IssuerInv

\* Appending a replacement that is not an initialization, or the one of an
\* initialization that has none.
LEMMA QueueStep ==
  ASSUME IssuerInv, NEW b \in Calls, queue' = Append(queue, b), derived' = derived,
         b = "initialize" => issuerAt["issuer"] # "render" /\ issuerAt'["issuer"] = "render",
         b # "initialize" => issuerAt' = issuerAt
  PROVE  InitOnce' /\ queue' \in Seq(Calls)
<1>1. queue \in Seq(Calls)
  BY DEF IssuerInv, Issuer!TypeOK, Calls
<1>2. /\ queue' \in Seq(Calls) /\ Len(queue') = Len(queue) + 1 /\ queue'[Len(queue) + 1] = b
      /\ \A k \in 1..Len(queue) : queue'[k] = queue[k]
      /\ \A k \in 1..Len(queue') : k \in 1..Len(queue) \/ k = Len(queue) + 1
  BY <1>1
<1>3. CASE b = "initialize"
  <2>1. \A k \in 1..Len(queue) : queue[k] # "initialize"
    BY <1>3 DEF IssuerInv, InitOnce
  <2>2. derived.by # "initialize"
    BY <1>3 DEF IssuerInv, InitOnce
  <2> QED
    BY <1>2, <1>3, <2>1, <2>2 DEF InitOnce
<1>4. CASE b # "initialize"
  BY <1>2, <1>4 DEF IssuerInv, InitOnce
<1> QED
  BY <1>2, <1>3, <1>4

\* verifyKeyBoundToDid, which queues the first derivation of the issuer.
LEMMA VerifyStep ==
  ASSUME IssuerInv, NEW r \in Issuer!Roles, Issuer!verifyKeyBoundToDid(r)
  PROVE  IssuerInv'
<1>0. /\ issuerAt[r] = "bind"
      /\ UNCHANGED <<record, cert, doc, lock, accredited, news, options, metadata, extra, derived, restarts>>
  BY DEF Issuer!verifyKeyBoundToDid, Issuer!bounds
<1>1. ASSUME NEW s \in {"start", "ready"}, Issuer!Goto(r, s), queue' = queue,
             s = "ready" => r = "verifier" /\ doc[r] = cert[r]
      PROVE  IssuerInv'
  <2>1. /\ InitOnce' /\ ServedInv'
        /\ issuerAt' \in [Issuer!Roles -> {"start", "publish", "write", "bind", "render", "ready"}]
        /\ \A q \in Issuer!Roles : issuerAt'[q] = IF q = r THEN s ELSE issuerAt[q]
    BY <1>0, <1>1, KeySteps
  <2>2. Issuer!TypeOK'
    BY <1>0, <1>1, <2>1 DEF IssuerInv, Issuer!TypeOK
  <2>3. KeyInv'
    BY <1>0, <1>1, <2>1 DEF IssuerInv, KeyInv, Issuer!Roles
  <2> QED
    BY <2>1, <2>2, <2>3 DEF IssuerInv
<1>2. ASSUME r = "issuer", doc[r] = cert[r], Issuer!Goto(r, "render"),
             queue' = Append(queue, "initialize")
      PROVE  IssuerInv'
  <2>1. /\ issuerAt' \in [Issuer!Roles -> {"start", "publish", "write", "bind", "render", "ready"}]
        /\ \A q \in Issuer!Roles : issuerAt'[q] = IF q = r THEN "render" ELSE issuerAt[q]
    BY <1>2 DEF IssuerInv, Issuer!TypeOK, Issuer!Goto
  <2>2. InitOnce' /\ queue' \in Seq(Calls)
    BY <1>0, <1>2, <2>1, QueueStep DEF Calls
  <2>3. Issuer!TypeOK'
    BY <1>0, <1>2, <2>1, <2>2 DEF IssuerInv, Issuer!TypeOK, Calls
  <2>4. KeyInv'
    BY <1>0, <1>2, <2>1 DEF IssuerInv, KeyInv, Issuer!Roles
  <2>5. ServedInv'
    BY <1>0, <1>2, <2>1 DEF IssuerInv, ServedInv
  <2> QED
    BY <2>2, <2>3, <2>4, <2>5 DEF IssuerInv
<1>3. CASE doc[r] = cert[r] /\ r = "issuer" /\ Issuer!Goto(r, "render")
           /\ queue' = Append(queue, "initialize")
  BY <1>2, <1>3
<1>4. CASE doc[r] = cert[r] /\ r # "issuer" /\ Issuer!Goto(r, "ready") /\ queue' = queue
  BY <1>1, <1>4 DEF Issuer!Roles
<1>5. CASE Issuer!Goto(r, "start") /\ queue' = queue
  BY <1>1, <1>5
<1> QED
  BY <1>3, <1>4, <1>5 DEF Issuer!verifyKeyBoundToDid

\* A notification queues a replacement, if the issuer has a certificate.
LEMMA RefreshStep ==
  ASSUME IssuerInv, Issuer!refreshCredentialConfigurations
  PROVE  IssuerInv'
<1>0. UNCHANGED <<issuerAt, record, cert, doc, lock, accredited, options, metadata, extra, derived, restarts>>
  BY DEF Issuer!refreshCredentialConfigurations, Issuer!init, Issuer!bounds
<1>1. queue' = queue \/ queue' = Append(queue, "refresh")
  BY DEF Issuer!refreshCredentialConfigurations
<1>2. InitOnce' /\ queue' \in Seq(Calls)
  <2>1. CASE queue' = queue
    BY <1>0, <2>1 DEF IssuerInv, InitOnce, Issuer!TypeOK, Calls
  <2>2. CASE queue' = Append(queue, "refresh")
    BY <1>0, <2>2, QueueStep DEF Calls
  <2> QED
    BY <1>1, <2>1, <2>2
<1>3. Issuer!TypeOK' /\ KeyInv' /\ ServedInv'
  BY <1>0, <1>2 DEF IssuerInv, Issuer!TypeOK, KeyInv, ServedInv, Calls
<1> QED
  BY <1>2, <1>3 DEF IssuerInv

\* createOffer in demo mode queues one for the added type.
LEMMA OfferedTypeStep ==
  ASSUME IssuerInv, NEW t \in Types, Issuer!addUnaccreditedConfiguration(t)
  PROVE  IssuerInv'
<1>0. /\ UNCHANGED <<issuerAt, record, cert, doc, lock, accredited, news, options, metadata, derived, restarts>>
      /\ extra' = extra \cup {t} /\ queue' = Append(queue, "offer")
  BY DEF Issuer!addUnaccreditedConfiguration, Issuer!init, Issuer!bounds
<1>1. InitOnce' /\ queue' \in Seq(Calls)
  BY <1>0, QueueStep DEF Calls
<1>2. Issuer!TypeOK' /\ KeyInv' /\ ServedInv'
  BY <1>0, <1>1 DEF IssuerInv, Issuer!TypeOK, KeyInv, ServedInv, Calls
<1> QED
  BY <1>1, <1>2 DEF IssuerInv

\* The first half of a replacement takes it from the queue.
LEMMA DeriveSteps ==
  ASSUME IssuerInv, Issuer!deriveCredentialConfigurations
  PROVE  IssuerInv'
<1>0. /\ UNCHANGED <<issuerAt, record, cert, doc, lock, accredited, news, options, metadata, extra, restarts>>
      /\ derived = Issuer!Idle /\ queue # <<>> /\ queue' = Tail(queue)
  BY DEF Issuer!deriveCredentialConfigurations, Issuer!init, Issuer!bounds
<1>1. queue \in Seq(Calls)
  BY DEF IssuerInv, Issuer!TypeOK, Calls
<1>2. /\ Head(queue) = queue[1] /\ Head(queue) \in Calls /\ 1 \in 1..Len(queue)
      /\ queue' \in Seq(Calls) /\ Len(queue') = Len(queue) - 1
      /\ \A k \in 1..Len(queue') : queue'[k] = queue[k + 1] /\ k + 1 \in 1..Len(queue) /\ k + 1 # 1
  BY <1>0, <1>1
<1>3. PICK s \in Issuer!buildCredentialConfigurations :
        derived' = IF Issuer!Signing
                   THEN [by |-> Head(queue), set |-> s \cup extra,
                         render |-> Head(queue) # "refresh" \/ s \cup extra # options]
                   ELSE Issuer!Idle
  BY DEF Issuer!deriveCredentialConfigurations
<1>4. s \subseteq Types /\ s \cup extra \subseteq Types
  <2>1. s = accredited \/ s \in SUBSET accredited \/ s = options
    BY DEF Issuer!buildCredentialConfigurations
  <2>2. accredited \subseteq Types /\ options \subseteq Types /\ extra \subseteq Types
    BY DEF IssuerInv, Issuer!TypeOK, ServedInv
  <2> QED
    BY <2>1, <2>2
<1>5. derived.by = "none" /\ Issuer!Idle \in Replacements /\ Issuer!Idle.by = "none"
  BY <1>0 DEF Issuer!Idle, Replacements
<1>6. CASE ~Issuer!Signing
  <2>1. derived' = Issuer!Idle
    BY <1>3, <1>6
  <2>2. InitOnce'
    BY <1>0, <1>2, <1>5, <2>1 DEF IssuerInv, InitOnce
  <2>3. Issuer!TypeOK' /\ KeyInv' /\ ServedInv'
    BY <1>0, <1>2, <1>5, <2>1 DEF IssuerInv, Issuer!TypeOK, KeyInv, ServedInv, Calls
  <2> QED
    BY <2>2, <2>3 DEF IssuerInv
<1>7. CASE Issuer!Signing
  <2> DEFINE render == Head(queue) # "refresh" \/ s \cup extra # options
  <2>0. derived' = [by |-> Head(queue), set |-> s \cup extra, render |-> render]
    BY <1>3, <1>7
  <2>a. render \in BOOLEAN /\ Head(queue) \in Calls \cup {"none"} /\ Head(queue) # "none"
    BY <1>2 DEF Calls
  <2>1. /\ derived' \in Replacements /\ derived'.by = Head(queue) /\ derived'.set = s \cup extra
        /\ derived'.render <=> render
        /\ derived'.by # "none" /\ derived' # Issuer!Idle
    <3> HIDE DEF render
    <3> QED
      BY <1>4, <1>5, <2>0, <2>a DEF Replacements
  <2>2. InitOnce'
    <3>1. derived'.by = "initialize" => issuerAt["issuer"] = "render"
      BY <1>2, <2>1 DEF IssuerInv, InitOnce
    <3>2. \A k \in 1..Len(queue') : queue'[k] = "initialize" =>
            issuerAt["issuer"] = "render" /\ derived'.by # "initialize"
      BY <1>2, <2>1 DEF IssuerInv, InitOnce
    <3>3. \A j, k \in 1..Len(queue') :
            (queue'[j] = "initialize" /\ queue'[k] = "initialize") => j = k
      <4> SUFFICES ASSUME NEW j \in 1..Len(queue'), NEW k \in 1..Len(queue'),
                          queue'[j] = "initialize", queue'[k] = "initialize"
                   PROVE  j = k
        OBVIOUS
      <4>1. j + 1 = k + 1
        BY <1>2 DEF IssuerInv, InitOnce
      <4> QED
        BY <4>1
    <3> QED
      BY <1>0, <3>1, <3>2, <3>3 DEF InitOnce
  <2>3. Issuer!TypeOK' /\ KeyInv'
    BY <1>0, <1>2, <1>4, <2>1 DEF IssuerInv, Issuer!TypeOK, KeyInv, Calls
  <2>4. ServedInv'
    BY <1>0, <2>1 DEF IssuerInv, ServedInv
  <2> QED
    BY <2>2, <2>3, <2>4 DEF IssuerInv
<1> QED
  BY <1>6, <1>7

\* The second half ends it, and the initialization that waits for it.
LEMMA RenderStep ==
  ASSUME IssuerInv, Issuer!createOrUpdateIssuer
  PROVE  IssuerInv'
<1>0. /\ UNCHANGED <<record, cert, doc, lock, accredited, news, extra, queue, restarts>>
      /\ derived # Issuer!Idle /\ derived' = Issuer!Idle
  BY DEF Issuer!createOrUpdateIssuer, Issuer!bounds
<1>1. PICK ok \in BOOLEAN : Issuer!InitEnds(ok) /\
        IF ok THEN /\ options' = derived.set
                   /\ metadata' = IF derived.render THEN derived.set ELSE metadata
        ELSE UNCHANGED <<options, metadata>>
  BY DEF Issuer!createOrUpdateIssuer
<1>2. /\ derived \in Replacements /\ derived.set \subseteq Types /\ derived.by # "none"
      /\ Issuer!Idle.by = "none" /\ Issuer!Idle.set = {} /\ Issuer!Idle \in Replacements
  BY <1>0 DEF IssuerInv, ServedInv, Replacements, Issuer!Idle
<1>3. options' \subseteq Types /\ metadata' \subseteq Types
  BY <1>1, <1>2 DEF IssuerInv, Issuer!TypeOK
<1>4. /\ issuerAt' \in [Issuer!Roles -> {"start", "publish", "write", "bind", "render", "ready"}]
      /\ issuerAt'["verifier"] = issuerAt["verifier"]
      /\ derived.by # "initialize" => issuerAt' = issuerAt
      /\ derived.by = "initialize" => /\ issuerAt["issuer"] = "render"
                                     /\ issuerAt'["issuer"] = IF ok THEN "ready" ELSE "start"
  BY <1>1 DEF IssuerInv, Issuer!TypeOK, InitOnce, Issuer!InitEnds, Issuer!Roles
<1>5. /\ \A r \in Issuer!Roles : issuerAt'[r] = "write" <=> issuerAt[r] = "write"
      /\ \A r \in Issuer!Roles : issuerAt'[r] \in {"render", "ready"} => issuerAt[r] \in {"render", "ready"}
  BY <1>4 DEF Issuer!Roles
<1>6. Issuer!TypeOK' /\ KeyInv'
  BY <1>0, <1>2, <1>3, <1>4, <1>5 DEF IssuerInv, Issuer!TypeOK, KeyInv
<1>7. InitOnce'
  BY <1>0, <1>2, <1>4 DEF IssuerInv, InitOnce
<1>8. ServedInv'
  <2>1. issuerAt'["issuer"] = "ready" => metadata' = options'
    BY <1>1, <1>2, <1>4 DEF IssuerInv, ServedInv
  <2> QED
    BY <1>0, <1>2, <2>1 DEF IssuerInv, ServedInv
<1> QED
  BY <1>6, <1>7, <1>8 DEF IssuerInv

\* A restart forgets what is not stored.
LEMMA IssuerRestarts ==
  ASSUME IssuerInv, Issuer!restart
  PROVE  IssuerInv'
<1>1. Issuer!TypeOK' /\ KeyInv'
  BY DEF Issuer!restart, IssuerInv, Issuer!TypeOK, KeyInv, Issuer!Free, Issuer!Roles, Issuer!Idle
<1>2. InitOnce' /\ ServedInv'
  BY DEF Issuer!restart, IssuerInv, InitOnce, ServedInv, Issuer!Idle, Replacements, Issuer!Roles
<1> QED
  BY <1>1, <1>2 DEF IssuerInv

\* Every step of the issuer keeps its invariant.
LEMMA IssuerNext ==
  ASSUME IssuerInv, [Issuer!Next]_oidIssuerVars
  PROVE  IssuerInv'
<1>1. CASE Issuer!changeParticipants
  <2>1. /\ accredited' \subseteq Types
        /\ UNCHANGED <<issuerAt, record, cert, doc, lock, options, metadata, extra, queue, derived, restarts>>
    BY <1>1 DEF Issuer!changeParticipants, Issuer!init, Issuer!derive, IssuerInv, ServedInv
  <2> QED
    BY <2>1 DEF IssuerInv, Issuer!TypeOK, KeyInv, InitOnce, ServedInv
<1>2. CASE UNCHANGED oidIssuerVars
  BY <1>2 DEF oidIssuerVars, IssuerInv, Issuer!TypeOK, KeyInv, InitOnce, ServedInv
<1> QED
  BY <1>1, <1>2, LoadStep, PublishReadStep, PublishWriteStep, VerifyStep, RefreshStep,
     OfferedTypeStep, DeriveSteps, RenderStep, IssuerRestarts
     DEF Issuer!Next, Issuer!InitStep, Issuer!DeriveStep

-----------------------------------------------------------------------------
(* The composition. *)

\* Token Status Lists and the advertised configurations, in every run of them:
\* getStatusListToken serves a token that has not expired, of the current
\* chain; no two credentials are issued on one index; both keys stay in the DID
\* document once their capability is ready; between two replacements the issuer
\* redeems exactly what it advertises.
THEOREM IssuanceIsSound == MCSpec => []IssuanceSound
<1> DEFINE Inv == /\ scenario \in {"status list", "bindings"} => StatusInv
                  /\ scenario = "bindings" => BindInv
                  /\ scenario = "issuer" => IssuerInv
<1>1. MCInit => Inv
  <2>1. Bindings!Init <=> StatusLists!Init
    BY Zenon DEF Bindings!Init, StatusLists!Init, Bindings!NoList, StatusLists!NoList,
       Bindings!Indexes, StatusLists!Indexes, Bindings!Unbound, StatusLists!Unbound,
       Bindings!NoOffer, StatusLists!NoOffer
  <2>2. MCInit => StatusLists!Init /\ (scenario = "issuer" => Issuer!Init)
    BY <2>1, Zenon DEF MCInit
  <2> QED
    BY <2>2, StatusStarts, IssuerStarts, Zenon
<1>2. Inv /\ [MCNext]_allVars => Inv'
  <2> SUFFICES ASSUME Inv, [MCNext]_allVars PROVE Inv'
    OBVIOUS
  <2>0. scenario' = scenario
    BY Zenon DEF MCNext, allVars
  <2>1. CASE scenario = "status list" /\ StatusLists!Next
    BY <2>0, <2>1, StatusNext, Zenon
  <2>2. CASE scenario = "bindings" /\ Bindings!Next
    BY <2>0, <2>2, BindNext, Zenon
  <2>3. CASE scenario = "issuer" /\ Issuer!Next
    BY <2>0, <2>3, IssuerNext, Zenon
  <2>4. CASE scenario \notin {"status list", "bindings", "issuer"}
    BY <2>0, <2>4, Zenon
  <2>5. CASE UNCHANGED statusListVars /\ UNCHANGED oidIssuerVars
    BY <2>0, <2>5, StatusNext, BindNext, IssuerNext, Zenon
  <2> QED
    BY <2>1, <2>2, <2>3, <2>4, <2>5, Zenon DEF MCNext, allVars
<1>3. Inv => IssuanceSound
  <2>1. BindInv => Bindings!IndexBacksOne
    BY DEF BindInv, Apart, Bindings!IndexBacksOne, Bindings!Issued, Holding
  <2>2. IssuerInv => Issuer!ReadyKeyPublished /\ Issuer!AdvertisedIsServed
    BY DEF IssuerInv, KeyInv, ServedInv, Issuer!ReadyKeyPublished, Issuer!AdvertisedIsServed
  <2> QED
    BY <2>1, <2>2 DEF IssuanceSound, StatusInv, IssuerInv
<1> QED
  BY <1>1, <1>2, <1>3, PTL DEF MCSpec

\* publish and deleteStatusList: a revocation that is published stays published
\* as long as its list exists, whatever fails after it and whatever signs the
\* list again, and a list goes only when every credential that was issued on it
\* has expired or was revoked.
THEOREM RevocationsStay == MCSpec => NothingTakenBack
<1> DEFINE Inv == /\ scenario \in {"status list", "bindings"} => StatusInv
                  /\ scenario = "bindings" => BindInv
           Dead == scenario = "bindings" => Bindings!DeletedListIsDeadStep
<1>1. MCInit => Inv
  <2>1. Bindings!Init <=> StatusLists!Init
    BY Zenon DEF Bindings!Init, StatusLists!Init, Bindings!NoList, StatusLists!NoList,
       Bindings!Indexes, StatusLists!Indexes, Bindings!Unbound, StatusLists!Unbound,
       Bindings!NoOffer, StatusLists!NoOffer
  <2> QED
    BY <2>1, StatusStarts, Zenon DEF MCInit
<1>2. Inv /\ [MCNext]_allVars => Inv' /\ [PublishedStays]_statusListVars /\ [Dead]_statusListVars
  <2> SUFFICES ASSUME Inv, [MCNext]_allVars
               PROVE  Inv' /\ [PublishedStays]_statusListVars /\ [Dead]_statusListVars
    BY Zenon
  <2>0. scenario' = scenario
    BY Zenon DEF MCNext, allVars
  <2>1. CASE scenario = "status list" /\ StatusLists!Next
    BY <2>0, <2>1, StatusNext, Zenon
  <2>2. CASE scenario = "bindings" /\ Bindings!Next
    BY <2>0, <2>2, BindNext, StatusNext, FewerFaults, Zenon
  <2>3. CASE UNCHANGED statusListVars
    BY <2>0, <2>3, StatusNext, BindNext, Zenon
  <2> QED
    BY <2>1, <2>2, <2>3, Zenon DEF MCNext, allVars
<1>3. StatusLists!RevocationKept <=> [][PublishedStays]_statusListVars
  BY PTL DEF StatusLists!RevocationKept, PublishedStays, statusListVars, StatusLists!vars
<1>4. NothingTakenBack <=> StatusLists!RevocationKept /\ [][Dead]_statusListVars
  BY PTL DEF NothingTakenBack
<1> QED
  BY <1>1, <1>2, <1>3, <1>4, PTL DEF MCSpec
=============================================================================
