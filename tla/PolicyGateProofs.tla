-------------------------- MODULE PolicyGateProofs --------------------------
(***************************************************************************)
(* What PolicyGate promises for every set of callers, approvals and scopes *)
(* and every budget.  Each step of the gate is a step, or nothing, of the  *)
(* approval store and of the write budget, so the two are reasoned about   *)
(* apart.                                                                  *)
(***************************************************************************)
EXTENDS PolicyGate, TLAPS

ApprovalAct(p) ==
  \/ StoreStep(p) \/ Answer(p) \/ CrashStore(p)
  \/ \E op \in Operations, a \in Approval, s \in Scope \cup {Nobody} :
       LockStore(p, op, a, s)

ApprovalNext ==
  \/ \E p \in Caller : ApprovalAct(p)
  \/ \E a \in Approval : Expire(a)
  \/ UNCHANGED approvalVars

BudgetAct(p) ==
  \/ BudgetStep(p) \/ Finish(p) \/ CrashJob(p)
  \/ \E run \in Jobs : Begin(p, run)

BudgetNext ==
  \/ \E p \in Caller : BudgetAct(p)
  \/ Age
  \/ UNCHANGED budgetVars

(* Agents and operators are callers.                                       *)
LEMMA AreCallers == Agents \subseteq Caller /\ Operators \subseteq Caller
  BY GateAssumption

LEMMA StepsSplit == [Next]_vars => ApprovalNext /\ BudgetNext
<1>. SUFFICES ASSUME [Next]_vars PROVE ApprovalNext /\ BudgetNext
  OBVIOUS
<1>0. CASE UNCHANGED vars
  BY <1>0 DEF vars, ApprovalNext, BudgetNext, approvalVars, budgetVars
<1>1. ASSUME NEW p \in Agents, NEW a \in Approval, NEW s \in Scope,
             Evaluate(p, a, s) \/ Ask(p, a, s)
      PROVE  ApprovalNext /\ BudgetNext
  BY <1>1, AreCallers
     DEF Evaluate, Ask, ApprovalNext, BudgetNext, ApprovalAct, Operations
<1>2. ASSUME NEW p \in Agents, EvaluateAllowed(p) \/ RunBudget(p, "monitor")
      PROVE  ApprovalNext /\ BudgetNext
  BY <1>2, AreCallers
     DEF EvaluateAllowed, RunBudget, ApprovalNext, BudgetNext, BudgetAct, Jobs
<1>3. ASSUME NEW p \in Operators, NEW a \in Approval,
             Decide(p, "approve", a) \/ Decide(p, "deny", a)
      PROVE  ApprovalNext /\ BudgetNext
  BY <1>3, AreCallers
     DEF Decide, ApprovalNext, BudgetNext, ApprovalAct, Operations, budgetVars
<1>4. ASSUME NEW p \in Operators, RunBudget(p, "clear")
      PROVE  ApprovalNext /\ BudgetNext
  BY <1>4, AreCallers
     DEF RunBudget, ApprovalNext, BudgetNext, BudgetAct, Jobs, approvalVars
<1>5. ASSUME NEW p \in Caller,
             Decided(p) \/ Consumed(p) \/ NotConsumed(p) \/ AskInVain(p)
      PROVE  ApprovalNext /\ BudgetNext
  BY <1>5 DEF Decided, Consumed, NotConsumed, AskInVain, ApprovalNext,
              BudgetNext, ApprovalAct, BudgetAct, Jobs, budgetVars
<1>6. ASSUME NEW p \in Caller, Reserved(p) \/ Refused(p) \/ WriteHardware(p)
      PROVE  ApprovalNext /\ BudgetNext
  BY <1>6 DEF Reserved, Refused, WriteHardware, ApprovalNext, BudgetNext,
              BudgetAct
<1>7. ASSUME NEW p \in Caller, InStore(p) \/ InBudget(p) \/ Crash(p)
      PROVE  ApprovalNext /\ BudgetNext
  BY <1>7 DEF InStore, InBudget, Crash, ApprovalNext, BudgetNext,
              ApprovalAct, BudgetAct, approvalVars, budgetVars
<1>8. CASE Time
  BY <1>8 DEF Time, ApprovalNext, BudgetNext, approvalVars, budgetVars
<1>. QED
  BY <1>0, <1>1, <1>2, <1>3, <1>4, <1>5, <1>6, <1>7, <1>8 DEF Next

-----------------------------------------------------------------------------
(* The approval store *)

(* OneGrant is not inductive: it needs to know that every grant on its way *)
(* and every grant used has its claim file, and that nothing is granted    *)
(* before the claim.                                                       *)
ClaimsBehind ==
  /\ used \subseteq consumption
  /\ \A p \in Caller, a \in Approval : WillUse(p, a) => a \in consumption
  /\ \A p \in Caller :
       /\ At(p, "locked") \/ At(p, "claiming") => ~mutation[p].granted
       /\ At(p, "claiming") =>
            mutation[p].seen[mutation[p].approval].scope = mutation[p].scope

StoreInv == ApprovalTypeOK /\ ClaimsBehind /\ OneGrant

(* A call in progress is a full record.                                    *)
LEMMA InCall ==
  ASSUME ApprovalTypeOK, NEW p \in Caller, NEW step \in Steps, At(p, step)
  PROVE  mutation[p] \in Mutations
<1>1. mutation[p] \in Mutations \cup {Idle}
  BY DEF ApprovalTypeOK
<1>2. mutation[p] # Idle
  BY DEF At, Idle, Steps
<1>. QED
  BY <1>1, <1>2

LEMMA StoreInit == ApprovalInit => StoreInv
<1>. SUFFICES ASSUME ApprovalInit PROVE StoreInv
  OBVIOUS
<1>1. records \in Records
  BY DEF ApprovalInit, Records, Statuses
<1>2. ApprovalTypeOK
  BY <1>1 DEF ApprovalInit, ApprovalTypeOK, Holders
<1>3. \A p \in Caller : At(p, "idle")
  BY DEF ApprovalInit, At, Idle
<1>. QED
  BY <1>2, <1>3
  DEF ApprovalInit, StoreInv, ClaimsBehind, OneGrant, WillUse, At

LEMMA LockStep ==
  ASSUME StoreInv, NEW p \in Caller, NEW op \in Operations,
         NEW a \in Approval, NEW s \in Scope \cup {Nobody},
         LockStore(p, op, a, s)
  PROVE  StoreInv'
<1>. DEFINE new == [step |-> "locked", op |-> op, approval |-> a, scope |-> s,
                    seen |-> records, granted |-> FALSE]
<1>1. new \in Mutations
  BY DEF StoreInv, ApprovalTypeOK, Mutations, Steps
<1>2. mutation' = [mutation EXCEPT ![p] = new]
  BY DEF LockStore
<1>3. ApprovalTypeOK'
  BY <1>1, <1>2 DEF StoreInv, ApprovalTypeOK, LockStore, Holders
<1>4. \A q \in Caller : mutation'[q] = IF q = p THEN new ELSE mutation[q]
  BY <1>2 DEF StoreInv, ApprovalTypeOK
<1>5. \A q \in Caller, b \in Approval : WillUse(q, b)' => q # p /\ WillUse(q, b)
  BY <1>4 DEF WillUse, At
<1>6. ClaimsBehind'
  BY <1>4, <1>5 DEF StoreInv, ClaimsBehind, LockStore, At
<1>7. OneGrant'
  BY <1>4, <1>5 DEF StoreInv, OneGrant, LockStore
<1>. QED
  BY <1>3, <1>6, <1>7 DEF StoreInv

(* A call that ends, by its answer or a crash, takes its grant with it.    *)
LEMMA IdleStep ==
  ASSUME StoreInv, NEW p \in Caller,
         mutation' = [mutation EXCEPT ![p] = Idle],
         UNCHANGED consumption
  PROVE  /\ mutation' \in [Caller -> Mutations \cup {Idle}]
         /\ \A q \in Caller, b \in Approval :
              WillUse(q, b)' => q # p /\ WillUse(q, b)
         /\ \A q \in Caller : q # p => mutation'[q] = mutation[q]
         /\ mutation'[p] = Idle
<1>1. mutation \in [Caller -> Mutations \cup {Idle}]
  BY DEF StoreInv, ApprovalTypeOK
<1>2. \A q \in Caller : mutation'[q] = IF q = p THEN Idle ELSE mutation[q]
  BY <1>1
<1>3. \A q \in Caller, b \in Approval : WillUse(q, b)' => q # p /\ WillUse(q, b)
  BY <1>2 DEF WillUse, At, Idle
<1>. QED
  BY <1>1, <1>2, <1>3

LEMMA AnswerStep ==
  ASSUME StoreInv, NEW p \in Caller, Answer(p)
  PROVE  StoreInv'
<1>1. /\ mutation' \in [Caller -> Mutations \cup {Idle}]
      /\ \A q \in Caller, b \in Approval :
           WillUse(q, b)' => q # p /\ WillUse(q, b)
      /\ \A q \in Caller : q # p => mutation'[q] = mutation[q]
      /\ mutation'[p] = Idle
  BY IdleStep DEF Answer
<1>2. mutation[p] \in Mutations
  BY InCall DEF Answer, Steps, StoreInv
<1>3. \A b \in used' : b \in used \/ WillUse(p, b)
  BY <1>2 DEF Answer, WillUse, At
<1>4. used' \subseteq Approval
  BY <1>2 DEF StoreInv, ApprovalTypeOK, Answer, Mutations
<1>5. ApprovalTypeOK'
  BY <1>1, <1>4 DEF StoreInv, ApprovalTypeOK, Answer, Holders
<1>6. ClaimsBehind'
  BY <1>1, <1>3, <1>4 DEF StoreInv, ClaimsBehind, Answer, At, Idle
<1>7. OneGrant'
  BY <1>1, <1>3 DEF StoreInv, OneGrant, Answer
<1>. QED
  BY <1>5, <1>6, <1>7 DEF StoreInv

LEMMA CrashStep ==
  ASSUME StoreInv, NEW p \in Caller, CrashStore(p)
  PROVE  StoreInv'
<1>1. /\ mutation' \in [Caller -> Mutations \cup {Idle}]
      /\ \A q \in Caller, b \in Approval :
           WillUse(q, b)' => q # p /\ WillUse(q, b)
      /\ \A q \in Caller : q # p => mutation'[q] = mutation[q]
      /\ mutation'[p] = Idle
  BY IdleStep DEF CrashStore
<1>2. ApprovalTypeOK'
  BY <1>1 DEF StoreInv, ApprovalTypeOK, CrashStore, Holders, AfterDeath
<1>3. ClaimsBehind'
  BY <1>1 DEF StoreInv, ClaimsBehind, CrashStore, At, Idle
<1>4. OneGrant'
  BY <1>1 DEF StoreInv, OneGrant, CrashStore
<1>. QED
  BY <1>2, <1>3, <1>4 DEF StoreInv

(* A call in progress goes on: only its step, its copy of the file and its *)
(* grant change.                                                           *)
LEMMA CarryStep ==
  ASSUME StoreInv, NEW p \in Caller, mutation[p] \in Mutations,
         NEW step \in Steps, NEW seen \in Records,
         Carry(p, step, seen), UNCHANGED <<consumption, used>>,
         UNCHANGED <<expired, holder, overtaken>>, records' \in Records,
         ~mutation[p].granted,
         step = "claiming" =>
           seen[mutation[p].approval].scope = mutation[p].scope
  PROVE  StoreInv'
<1>. DEFINE new == [mutation[p] EXCEPT !.step = step, !.seen = seen]
<1>1. /\ new \in Mutations /\ new.step = step /\ new.seen = seen
      /\ new.granted = mutation[p].granted
      /\ new.approval = mutation[p].approval
      /\ new.scope = mutation[p].scope
  BY DEF Mutations
<1>2. mutation' = [mutation EXCEPT ![p] = new]
  BY DEF Carry
<1>3. ApprovalTypeOK'
  BY <1>1, <1>2 DEF StoreInv, ApprovalTypeOK
<1>4. \A q \in Caller : mutation'[q] = IF q = p THEN new ELSE mutation[q]
  BY <1>2 DEF StoreInv, ApprovalTypeOK
<1>. HIDE DEF new
<1>5. \A q \in Caller, b \in Approval : WillUse(q, b)' => q # p /\ WillUse(q, b)
  BY <1>1, <1>4 DEF WillUse, At
<1>6. ClaimsBehind'
  BY <1>1, <1>4, <1>5 DEF StoreInv, ClaimsBehind, At
<1>7. OneGrant'
  BY <1>4, <1>5 DEF StoreInv, OneGrant
<1>. QED
  BY <1>3, <1>6, <1>7 DEF StoreInv

LEMMA AdvanceStep ==
  ASSUME StoreInv, NEW p \in Caller, mutation[p] \in Mutations,
         NEW step \in {"saving", "unlocking"}, NEW granted \in BOOLEAN,
         Advance(p, step, granted), granted => mutation[p].granted,
         ~At(p, "idle"),
         UNCHANGED <<used, expired, holder, overtaken>>, records' \in Records,
         consumption' \subseteq Approval, consumption \subseteq consumption'
  PROVE  StoreInv'
<1>. DEFINE new == [mutation[p] EXCEPT !.step = step, !.granted = granted]
<1>1. /\ new \in Mutations /\ new.step = step /\ new.granted = granted
      /\ new.seen = mutation[p].seen
      /\ new.approval = mutation[p].approval
      /\ new.scope = mutation[p].scope
  BY DEF Mutations, Steps
<1>2. mutation' = [mutation EXCEPT ![p] = new]
  BY DEF Advance
<1>3. ApprovalTypeOK'
  BY <1>1, <1>2 DEF StoreInv, ApprovalTypeOK
<1>4. \A q \in Caller : mutation'[q] = IF q = p THEN new ELSE mutation[q]
  BY <1>2 DEF StoreInv, ApprovalTypeOK
<1>. HIDE DEF new
<1>5. \A q \in Caller, b \in Approval : WillUse(q, b)' => WillUse(q, b)
  BY <1>1, <1>4 DEF WillUse, At
<1>6. ClaimsBehind'
  BY <1>1, <1>4, <1>5 DEF StoreInv, ClaimsBehind, At
<1>7. OneGrant'
  BY <1>1, <1>4, <1>5 DEF StoreInv, OneGrant
<1>. QED
  BY <1>3, <1>6, <1>7 DEF StoreInv

LEMMA ReadStep ==
  ASSUME StoreInv, NEW p \in Caller, ReadStore(p)
  PROVE  StoreInv'
<1>. DEFINE a == mutation[p].approval
<1>1. /\ At(p, "locked")
      /\ mutation[p] \in Mutations
      /\ ~mutation[p].granted
      /\ records \in Records
      /\ a \in Approval
      /\ mutation[p].scope \in Scope \cup {Nobody}
  BY InCall
     DEF ReadStore, StoreInv, ApprovalTypeOK, ClaimsBehind, Steps, Mutations
<1>2. UNCHANGED <<records, consumption, used, expired, holder, overtaken>>
  BY DEF ReadStore
<1>3. ASSUME NEW step \in {"saving", "unlocking"}, NEW seen \in Records,
             Carry(p, step, seen)
      PROVE  StoreInv'
  BY <1>1, <1>2, <1>3, CarryStep DEF Steps
<1>4. CASE Create(p)
  <2>1. [records EXCEPT ![a] = [status |-> "pending",
                                scope |-> mutation[p].scope]] \in Records
    BY <1>1 DEF Records, Statuses
  <2>. QED
    BY <1>3, <1>4, <2>1 DEF Create
<1>5. ASSUME NEW status \in {"approved", "denied"}, Transition(p, status)
      PROVE  StoreInv'
  <2>1. Becomes(a, status) \in Records
    BY <1>1 DEF Records, Statuses, Becomes
  <2>. QED
    BY <1>1, <1>3, <1>5, <2>1 DEF Transition
<1>6. CASE Carry(p, IF Matches(p) THEN "claiming" ELSE "saving", records)
  <2>1. CASE Matches(p)
    BY <1>1, <1>2, <1>6, <2>1, CarryStep DEF Matches, Steps
  <2>2. CASE ~Matches(p)
    BY <1>1, <1>3, <1>6, <2>2
  <2>. QED
    BY <2>1, <2>2
<1>7. mutation[p].op \in Operations
  BY <1>1 DEF Mutations
<1>. QED
  BY <1>4, <1>5, <1>6, <1>7 DEF ReadStore, Operations

(* The exclusive creation: only the one that makes the claim is granted.   *)
LEMMA ClaimStep ==
  ASSUME StoreInv, NEW p \in Caller, Claim(p)
  PROVE  StoreInv'
<1>. DEFINE a == mutation[p].approval
<1>1. /\ mutation[p] \in Mutations
      /\ At(p, "claiming") /\ ~At(p, "idle")
      /\ a \in Approval
      /\ mutation[p].seen[a].scope = mutation[p].scope
      /\ mutation[p].seen \in Records
  BY InCall DEF Claim, At, StoreInv, ClaimsBehind, Steps, Mutations
<1>2. CASE a \in consumption
  <2>1. records' \in Records /\ consumption' = consumption
    BY <1>2 DEF Claim, StoreInv, ApprovalTypeOK
  <2>. QED
    BY <1>1, <1>2, <2>1, AdvanceStep DEF Claim, StoreInv, ApprovalTypeOK
<1>3. CASE a \notin consumption
  <2>. DEFINE new == [mutation[p] EXCEPT !.step = "saving", !.granted = TRUE,
                        !.seen = [@ EXCEPT ![a].status = "consumed"]]
  <2>1. mutation' = [mutation EXCEPT ![p] = new]
    BY <1>1, <1>3 DEF Claim, Mutations
  <2>2. [mutation[p].seen EXCEPT ![a].status = "consumed"] \in Records
    BY <1>1 DEF Records, Statuses
  <2>3. /\ new \in Mutations /\ new.step = "saving" /\ new.granted
        /\ new.approval = a /\ new.scope = mutation[p].scope
        /\ new.seen[a].scope = new.scope
    BY <1>1, <2>2 DEF Mutations, Steps, Records
  <2>4. ApprovalTypeOK'
    BY <1>1, <2>1, <2>3 DEF StoreInv, ApprovalTypeOK, Claim
  <2>5. \A q \in Caller : mutation'[q] = IF q = p THEN new ELSE mutation[q]
    BY <2>1 DEF StoreInv, ApprovalTypeOK
  <2>. HIDE DEF new
  <2>6. \A q \in Caller, b \in Approval :
          WillUse(q, b)' => (q = p /\ b = a) \/ (q # p /\ WillUse(q, b))
    BY <2>3, <2>5 DEF WillUse, At
  <2>7. a \notin used /\ \A q \in Caller : ~WillUse(q, a)
    BY <1>1, <1>3 DEF StoreInv, ClaimsBehind
  <2>8. ClaimsBehind'
    BY <2>3, <2>5, <2>6 DEF StoreInv, ClaimsBehind, Claim, At
  <2>9. OneGrant'
    BY <2>3, <2>5, <2>6, <2>7 DEF StoreInv, OneGrant, Claim
  <2>. QED
    BY <2>4, <2>8, <2>9 DEF StoreInv
<1>. QED
  BY <1>2, <1>3

LEMMA SaveSteps ==
  ASSUME StoreInv, NEW p \in Caller, ClaimFails(p) \/ Save(p) \/ SaveFails(p)
  PROVE  StoreInv'
<1>1. /\ mutation[p] \in Mutations
      /\ ~At(p, "idle")
      /\ mutation[p].approval \in Approval
      /\ mutation[p].seen \in Records
      /\ mutation[p].granted \in BOOLEAN
  BY InCall DEF ClaimFails, Save, SaveFails, At, StoreInv, Steps, Mutations
<1>2. records \in Records /\ consumption \subseteq Approval
  BY DEF StoreInv, ApprovalTypeOK
<1>3. CASE ClaimFails(p)
  BY <1>1, <1>2, <1>3, AdvanceStep DEF ClaimFails
<1>4. CASE Save(p)
  BY <1>1, <1>2, <1>4, AdvanceStep DEF Save
<1>5. CASE SaveFails(p)
  BY <1>1, <1>2, <1>5, AdvanceStep DEF SaveFails
<1>. QED
  BY <1>3, <1>4, <1>5

LEMMA StoreStays ==
  ASSUME StoreInv,
         UNCHANGED <<records, consumption, holder, mutation, used, overtaken>>,
         expired' \subseteq Approval
  PROVE  StoreInv'
BY DEF StoreInv, ApprovalTypeOK, ClaimsBehind, OneGrant, WillUse, At

LEMMA StoreNext == StoreInv /\ ApprovalNext => StoreInv'
<1>. SUFFICES ASSUME StoreInv, ApprovalNext PROVE StoreInv'
  OBVIOUS
<1>1. ASSUME NEW p \in Caller, ApprovalAct(p) PROVE StoreInv'
  BY <1>1, LockStep, AnswerStep, CrashStep, ReadStep, ClaimStep, SaveSteps
     DEF ApprovalAct, StoreStep
<1>2. ASSUME NEW a \in Approval, Expire(a) PROVE StoreInv'
  BY <1>2, StoreStays DEF Expire, StoreInv, ApprovalTypeOK
<1>3. CASE UNCHANGED approvalVars
  BY <1>3, StoreStays DEF approvalVars, StoreInv, ApprovalTypeOK
<1>. QED
  BY <1>1, <1>2, <1>3 DEF ApprovalNext

-----------------------------------------------------------------------------
(* The write budget *)

(* BudgetHolds is not inductive: it needs to know that the file's count is *)
(* the number of reservations, that only the lock's holder is between      *)
(* reading and writing, and that what it read is still what the file says. *)
Busy(p) == In(p, "locked") \/ In(p, "writing") \/ In(p, "written")

CountIsTrue ==
  /\ \A p \in Caller : Busy(p) => locker = p
  /\ \A p \in Caller :
       Busy(p) \/ In(p, "created") => state.age # "missing"
  /\ state.age = "missing" => state.writes = 0
  /\ ~lapsed =>
       /\ state.age # "stale"
       /\ state.writes = spent
       /\ \A p \in Caller : In(p, "writing") =>
            /\ job[p].seen = state.writes
            /\ job[p].run = "reserve" => job[p].seen < MaxFlashes

BudgetInv == BudgetTypeOK /\ CountIsTrue /\ BudgetHolds

(* A run in progress is a full record.                                     *)
LEMMA InRun ==
  ASSUME BudgetTypeOK, NEW p \in Caller, NEW moment \in Moments, In(p, moment)
  PROVE  job[p] \in [moment : Moments, run : Jobs, seen : Nat]
<1>1. job[p] \in [moment : Moments, run : Jobs, seen : Nat]
                   \cup {[moment |-> "idle"]}
  BY DEF BudgetTypeOK
<1>2. job[p] # [moment |-> "idle"]
  BY DEF In, Moments
<1>. QED
  BY <1>1, <1>2

LEMMA BudgetStart == BudgetInit => BudgetInv
<1>. SUFFICES ASSUME BudgetInit PROVE BudgetInv
  OBVIOUS
<1>1. BudgetTypeOK
  BY DEF BudgetInit, BudgetTypeOK, Missing, Holders
<1>2. \A p \in Caller : In(p, "idle")
  BY DEF BudgetInit, In
<1>. QED
  BY <1>1, <1>2, BudgetAssumption
     DEF BudgetInit, BudgetInv, CountIsTrue, BudgetHolds, Busy, In, Missing

(* A run in progress goes on to another moment.                            *)
LEMMA PassOn ==
  ASSUME BudgetTypeOK, NEW p \in Caller, NEW from \in Moments, In(p, from),
         NEW moment \in Moments, Pass(p, moment)
  PROVE  /\ job' \in [Caller -> [moment : Moments, run : Jobs, seen : Nat]
                                    \cup {[moment |-> "idle"]}]
         /\ \A q \in Caller : q # p => job'[q] = job[q]
         /\ job'[p].moment = moment
         /\ job'[p].run = job[p].run
         /\ job'[p].seen = job[p].seen
         /\ job[p].seen \in Nat
         /\ job[p].run \in Jobs
<1>. DEFINE new == [job[p] EXCEPT !.moment = moment]
<1>1. job[p] \in [moment : Moments, run : Jobs, seen : Nat]
  BY InRun
<1>2. /\ new \in [moment : Moments, run : Jobs, seen : Nat]
      /\ new.moment = moment /\ new.run = job[p].run /\ new.seen = job[p].seen
  BY <1>1
<1>3. job' = [job EXCEPT ![p] = new]
  BY DEF Pass
<1>. QED
  BY <1>1, <1>2, <1>3 DEF BudgetTypeOK

LEMMA CreateStep ==
  ASSUME BudgetInv, NEW p \in Caller, CreateState(p)
  PROVE  BudgetInv'
<1>1. /\ job' \in [Caller -> [moment : Moments, run : Jobs, seen : Nat]
                                 \cup {[moment |-> "idle"]}]
      /\ \A q \in Caller : q # p => job'[q] = job[q]
      /\ job'[p].moment = "created"
  BY PassOn DEF BudgetInv, CreateState, Moments
<1>2. /\ state'.age = "fresh" /\ state'.writes = 0
      /\ state' \in [writes : Nat, age : {"missing", "fresh", "stale"}]
  BY DEF CreateState, Fresh
<1>3. lapsed' \in BOOLEAN /\ (~lapsed' => ~lapsed /\ state.age = "missing")
  BY DEF CreateState, BudgetInv, BudgetTypeOK
<1>4. BudgetTypeOK'
  BY <1>1, <1>2, <1>3 DEF BudgetInv, BudgetTypeOK, CreateState
<1>5. CountIsTrue'
  BY <1>1, <1>2, <1>3 DEF BudgetInv, CountIsTrue, CreateState, Busy, In
<1>6. BudgetHolds'
  BY <1>3 DEF BudgetInv, BudgetHolds, CreateState
<1>. QED
  BY <1>4, <1>5, <1>6 DEF BudgetInv

LEMMA LockingStep ==
  ASSUME BudgetInv, NEW p \in Caller, LockState(p) \/ Overlap(p)
  PROVE  BudgetInv'
<1>. PICK moment \in {"locked", "refused"} : Pass(p, moment)
  BY DEF LockState, Overlap
<1>1. /\ job' \in [Caller -> [moment : Moments, run : Jobs, seen : Nat]
                                 \cup {[moment |-> "idle"]}]
      /\ \A q \in Caller : q # p => job'[q] = job[q]
      /\ job'[p].moment = moment
  BY PassOn DEF BudgetInv, LockState, Overlap, Moments
<1>2. BudgetTypeOK'
  BY <1>1 DEF BudgetInv, BudgetTypeOK, LockState, Overlap, Holders
<1>3. CountIsTrue'
  <2>1. CASE LockState(p)
    <3>1. \A q \in Caller : ~Busy(q)
      BY <2>1, CallerAssumption
         DEF BudgetInv, CountIsTrue, LockState, Available
    <3>. QED
      BY <1>1, <2>1, <3>1 DEF BudgetInv, CountIsTrue, LockState, Busy, In
  <2>2. CASE Overlap(p)
    <3>1. job'[p].moment = "refused"
      BY <2>2, <1>1, InRun DEF Overlap, Pass, BudgetInv, BudgetTypeOK, Moments
    <3>. QED
      BY <1>1, <2>2, <3>1 DEF BudgetInv, CountIsTrue, Overlap, Busy, In
  <2>. QED
    BY <2>1, <2>2
<1>4. BudgetHolds'
  BY DEF BudgetInv, BudgetHolds, LockState, Overlap
<1>. QED
  BY <1>2, <1>3, <1>4 DEF BudgetInv

(* The holder of the lock is the only one at work on the file.             *)
LEMMA OnlyHolder ==
  ASSUME BudgetInv, NEW p \in Caller, Busy(p)
  PROVE  locker = p /\ \A q \in Caller : q # p => ~Busy(q)
  BY DEF BudgetInv, CountIsTrue

LEMMA ReadingStep ==
  ASSUME BudgetInv, NEW p \in Caller, ReadState(p)
  PROVE  BudgetInv'
<1>. DEFINE seen == IF job[p].run = "monitor" /\ state.age # "fresh"
                    THEN 0 ELSE state.writes
            new == [job[p] EXCEPT !.moment = "writing", !.seen = seen]
<1>1. /\ job[p] \in [moment : Moments, run : Jobs, seen : Nat]
      /\ seen \in Nat
  BY InRun DEF BudgetInv, BudgetTypeOK, ReadState, Moments
<1>2. job' = [job EXCEPT ![p] = new]
  BY DEF ReadState
<1>. HIDE DEF seen
<1>3. /\ new \in [moment : Moments, run : Jobs, seen : Nat]
      /\ new.moment = "writing" /\ new.run = job[p].run /\ new.seen = seen
  BY <1>1 DEF Moments
<1>4. \A q \in Caller : job'[q] = IF q = p THEN new ELSE job[q]
  BY <1>2 DEF BudgetInv, BudgetTypeOK
<1>5. BudgetTypeOK'
  BY <1>2, <1>3 DEF BudgetInv, BudgetTypeOK, ReadState
<1>. HIDE DEF new
<1>6. Busy(p) /\ locker = p /\ state.age # "missing"
  BY DEF ReadState, Busy, BudgetInv, CountIsTrue
<1>7. ~lapsed => /\ seen = state.writes
                 /\ job[p].run = "reserve" => seen < MaxFlashes
  BY <1>6 DEF seen, BudgetInv, BudgetTypeOK, CountIsTrue, ReadState,
              WithinBudget
<1>8. CountIsTrue'
  <2>1. UNCHANGED <<state, locker, spent, lapsed>>
    BY DEF ReadState
  <2>2. \A q \in Caller : q # p => ~Busy(q)
    BY <1>6, OnlyHolder
  <2>. QED
    BY <1>3, <1>4, <1>6, <1>7, <2>1, <2>2
       DEF BudgetInv, CountIsTrue, Busy, In
<1>9. BudgetHolds'
  BY DEF BudgetInv, BudgetHolds, ReadState
<1>. QED
  BY <1>5, <1>8, <1>9 DEF BudgetInv

LEMMA WritingStep ==
  ASSUME BudgetInv, NEW p \in Caller,
         Reserve(p) \/ CheckedHealthy(p) \/ WriteBack(p)
  PROVE  BudgetInv'
<1>1. /\ job' \in [Caller -> [moment : Moments, run : Jobs, seen : Nat]
                                 \cup {[moment |-> "idle"]}]
      /\ \A q \in Caller : q # p => job'[q] = job[q]
      /\ job'[p].moment = "written"
      /\ job[p].seen \in Nat
  BY PassOn DEF BudgetInv, Reserve, CheckedHealthy, WriteBack, Moments
<1>2. In(p, "writing") /\ Busy(p)
  BY DEF Reserve, CheckedHealthy, WriteBack, Busy
<1>3. locker = p /\ \A q \in Caller : q # p => ~Busy(q)
  BY <1>2, OnlyHolder
<1>4. ~lapsed => /\ state.writes = spent /\ job[p].seen = state.writes
                 /\ job[p].run = "reserve" => job[p].seen < MaxFlashes
  BY <1>2 DEF BudgetInv, CountIsTrue
<1>5. MaxFlashes \in Nat /\ spent \in Nat /\ lapsed \in BOOLEAN
  BY BudgetAssumption DEF BudgetInv, BudgetTypeOK
<1>6. /\ state'.age = "fresh" /\ state'.writes \in Nat
      /\ state' = [writes |-> state'.writes, age |-> "fresh"]
      /\ locker' = locker
      /\ spent' \in Nat /\ lapsed' \in BOOLEAN
      /\ ~lapsed' => state'.writes = spent' /\ spent' <= MaxFlashes
  <2>1. CASE Reserve(p)
    BY <1>1, <1>4, <1>5, <2>1 DEF Reserve, Fresh
  <2>2. CASE CheckedHealthy(p)
    <3>1. /\ state' = [writes |-> 0, age |-> "fresh"]
          /\ spent' = 0 /\ lapsed' = FALSE /\ locker' = locker
      BY <2>2 DEF CheckedHealthy, Fresh
    <3>2. 0 <= MaxFlashes
      BY <1>5
    <3>. QED
      BY <3>1, <3>2
  <2>3. CASE WriteBack(p)
    BY <1>1, <1>4, <1>5, <2>3 DEF WriteBack, Fresh, BudgetInv, BudgetHolds
  <2>. QED
    BY <2>1, <2>2, <2>3
<1>7. BudgetTypeOK'
  BY <1>1, <1>6 DEF BudgetInv, BudgetTypeOK
<1>8. CountIsTrue'
  BY <1>1, <1>3, <1>6 DEF BudgetInv, CountIsTrue, Busy, In
<1>9. BudgetHolds'
  BY <1>6 DEF BudgetHolds
<1>. QED
  BY <1>7, <1>8, <1>9 DEF BudgetInv

LEMMA ReleasingStep ==
  ASSUME BudgetInv, NEW p \in Caller, Abandon(p) \/ Unlock(p)
  PROVE  BudgetInv'
<1>1. Busy(p) /\ UNCHANGED <<state, spent, lapsed>> /\ locker' = Nobody
  BY DEF Abandon, Unlock, Busy
<1>2. PICK from \in {"locked", "writing", "written"},
           moment \in {"granted", "refused"} :
        In(p, from) /\ Pass(p, moment)
  BY DEF Abandon, Unlock
<1>3. /\ job' \in [Caller -> [moment : Moments, run : Jobs, seen : Nat]
                                 \cup {[moment |-> "idle"]}]
      /\ \A q \in Caller : q # p => job'[q] = job[q]
      /\ job'[p].moment = moment
  BY <1>2, PassOn DEF BudgetInv, Moments
<1>4. \A q \in Caller : q # p => ~Busy(q)
  BY <1>1, OnlyHolder
<1>5. BudgetTypeOK'
  BY <1>1, <1>3 DEF BudgetInv, BudgetTypeOK, Holders
<1>6. CountIsTrue'
  BY <1>1, <1>3, <1>4 DEF BudgetInv, CountIsTrue, Busy, In
<1>7. BudgetHolds'
  BY <1>1 DEF BudgetInv, BudgetHolds
<1>. QED
  BY <1>5, <1>6, <1>7 DEF BudgetInv

LEMMA BeginningStep ==
  ASSUME BudgetInv, NEW p \in Caller, NEW run \in Jobs, Begin(p, run)
  PROVE  BudgetInv'
<1>. DEFINE new == [moment |-> IF state.age = "missing" THEN "creating"
                               ELSE "created", run |-> run, seen |-> 0]
<1>1. job' = [job EXCEPT ![p] = new]
  BY DEF Begin
<1>2. new \in [moment : Moments, run : Jobs, seen : Nat]
  BY DEF Moments
<1>3. \A q \in Caller : job'[q] = IF q = p THEN new ELSE job[q]
  BY <1>1 DEF BudgetInv, BudgetTypeOK
<1>4. BudgetTypeOK'
  BY <1>1, <1>2 DEF BudgetInv, BudgetTypeOK, Begin
<1>5. CountIsTrue'
  BY <1>3 DEF BudgetInv, CountIsTrue, Begin, Busy, In
<1>6. BudgetHolds'
  BY DEF BudgetInv, BudgetHolds, Begin
<1>. QED
  BY <1>4, <1>5, <1>6 DEF BudgetInv

LEMMA EndingStep ==
  ASSUME BudgetInv, NEW p \in Caller,
         CrashJob(p) \/ Finish(p)
  PROVE  BudgetInv'
<1>1. /\ job' = [job EXCEPT ![p] = [moment |-> "idle"]]
      /\ UNCHANGED <<state, spent, lapsed>>
  BY DEF CrashJob, Finish
<1>2. \A q \in Caller :
        job'[q] = IF q = p THEN [moment |-> "idle"] ELSE job[q]
  BY <1>1 DEF BudgetInv, BudgetTypeOK
<1>3. /\ locker' \in Holders
      /\ \A q \in Caller : q # p /\ locker = q => locker' = q
  BY DEF CrashJob, Finish, AfterDeath, Holders, BudgetInv, BudgetTypeOK
<1>4. BudgetTypeOK'
  BY <1>1, <1>3 DEF BudgetInv, BudgetTypeOK
<1>5. CountIsTrue'
  BY <1>1, <1>2, <1>3 DEF BudgetInv, CountIsTrue, Busy, In
<1>6. BudgetHolds'
  BY <1>1 DEF BudgetInv, BudgetHolds
<1>. QED
  BY <1>4, <1>5, <1>6 DEF BudgetInv

LEMMA AgingStep == BudgetInv /\ Age => BudgetInv'
<1>. SUFFICES ASSUME BudgetInv, Age PROVE BudgetInv'
  OBVIOUS
<1>1. /\ state' \in [writes : Nat, age : {"missing", "fresh", "stale"}]
      /\ state'.age = "stale"
  BY DEF Age, BudgetInv, BudgetTypeOK
<1>. QED
  BY <1>1 DEF Age, BudgetInv, BudgetTypeOK, CountIsTrue, BudgetHolds, Busy, In

LEMMA BudgetNextInv == BudgetInv /\ BudgetNext => BudgetInv'
<1>. SUFFICES ASSUME BudgetInv, BudgetNext PROVE BudgetInv'
  OBVIOUS
<1>1. ASSUME NEW p \in Caller, BudgetAct(p) PROVE BudgetInv'
  BY <1>1, CreateStep, LockingStep, ReadingStep, WritingStep, ReleasingStep,
     BeginningStep, EndingStep DEF BudgetAct, BudgetStep
<1>2. CASE UNCHANGED budgetVars
  BY <1>2 DEF budgetVars, BudgetInv, BudgetTypeOK, CountIsTrue, BudgetHolds,
              Busy, In
<1>. QED
  BY <1>1, <1>2, AgingStep DEF BudgetNext

-----------------------------------------------------------------------------
(* What a caller writes back, while no slow caller was overtaken           *)

(* The copy drops no request and no denial of the file it replaces.        *)
Extends(seen) ==
  \A a \in Approval :
    /\ records[a].status # "none" => seen[a].status # "none"
    /\ records[a].status \in {"denied", "consumed"} /\ a \notin consumption =>
         seen[a].status = records[a].status

(* Only the holder of the lock is in a call, and what it has read is the   *)
(* file.                                                                   *)
CopyIsCurrent ==
  ~overtaken => \A p \in Caller :
    /\ ~At(p, "idle") => holder = p
    /\ At(p, "locked") /\ mutation[p].op = "create" =>
         records[mutation[p].approval].status = "none"
    /\ At(p, "claiming") =>
         /\ mutation[p].seen = records
         /\ records[mutation[p].approval].status = "approved"
    /\ At(p, "saving") => Extends(mutation[p].seen)

LEMMA Alone ==
  ASSUME CopyIsCurrent, ~overtaken, NEW p \in Caller, ~At(p, "idle")
  PROVE  holder = p /\ \A q \in Caller : q # p => At(q, "idle")
  BY DEF CopyIsCurrent

(* A step of p after which p alone may be in a call.                       *)
LEMMA CopyStays ==
  ASSUME NEW p \in Caller,
         \A q \in Caller : q # p => At(q, "idle")',
         ~At(p, "idle")' => holder' = p,
         (At(p, "locked") /\ mutation[p].op = "create")' =>
           records'[mutation'[p].approval].status = "none",
         At(p, "claiming")' =>
           /\ mutation'[p].seen = records'
           /\ records'[mutation'[p].approval].status = "approved",
         At(p, "saving")' => Extends(mutation[p].seen)'
  PROVE  CopyIsCurrent'
BY DEF CopyIsCurrent, At

LEMMA CopyLock ==
  ASSUME StoreInv, CopyIsCurrent, NEW p \in Caller, NEW op \in Operations,
         NEW a \in Approval, NEW s \in Scope \cup {Nobody},
         LockStore(p, op, a, s)
  PROVE  CopyIsCurrent'
<1>. SUFFICES ASSUME ~overtaken' PROVE CopyIsCurrent'
  BY DEF CopyIsCurrent
<1>. DEFINE new == [step |-> "locked", op |-> op, approval |-> a, scope |-> s,
                    seen |-> records, granted |-> FALSE]
<1>1. ~overtaken /\ Available(holder)
  BY DEF LockStore, StoreInv, ApprovalTypeOK
<1>2. \A q \in Caller : At(q, "idle")
  BY <1>1, CallerAssumption DEF CopyIsCurrent, Available
<1>3. \A q \in Caller : mutation'[q] = IF q = p THEN new ELSE mutation[q]
  BY DEF LockStore, StoreInv, ApprovalTypeOK
<1>4. op = "create" => records[a].status = "none"
  BY DEF LockStore, IsNew
<1>. QED
  BY <1>2, <1>3, <1>4, CopyStays DEF LockStore, At

(* The calls that read: what they carry on extends the file.               *)
LEMMA CopyRead ==
  ASSUME StoreInv, CopyIsCurrent, NEW p \in Caller, ReadStore(p)
  PROVE  CopyIsCurrent'
<1>. SUFFICES ASSUME ~overtaken' PROVE CopyIsCurrent'
  BY DEF CopyIsCurrent
<1>. DEFINE a == mutation[p].approval
<1>1. /\ ~overtaken /\ holder' = holder /\ records' = records
      /\ consumption' = consumption
      /\ At(p, "locked") /\ ~At(p, "idle")
  BY DEF ReadStore, At
<1>2. holder = p /\ \A q \in Caller : q # p => At(q, "idle")
  BY <1>1, Alone
<1>3. /\ mutation[p] \in Mutations /\ a \in Approval
      /\ records \in Records
      /\ mutation[p].op \in Operations
  BY <1>1, InCall DEF StoreInv, ApprovalTypeOK, Steps, Mutations
<1>4. ASSUME NEW step \in Steps, NEW seen, Carry(p, step, seen),
             step # "locked",
             step = "claiming" => seen = records /\ records[a].status = "approved",
             step = "saving" => Extends(seen)
      PROVE  CopyIsCurrent'
  <2>1. /\ \A q \in Caller : q # p => mutation'[q] = mutation[q]
        /\ mutation'[p].step = step /\ mutation'[p].seen = seen
        /\ mutation'[p].approval = a
    BY <1>3, <1>4 DEF Carry, StoreInv, ApprovalTypeOK, Mutations
  <2>2. step = "saving" => Extends(seen)'
    BY <1>1, <1>4 DEF Extends
  <2>3. \A q \in Caller : q # p => At(q, "idle")'
    BY <1>2, <2>1 DEF At
  <2>4. At(p, "saving")' => Extends(mutation[p].seen)'
    BY <2>1, <2>2 DEF At, Extends
  <2>. QED
    BY <1>1, <1>2, <1>4, <2>1, <2>3, <2>4, CopyStays DEF At
<1>5. Extends(records)
  BY DEF Extends
<1>6. CASE mutation[p].op = "create"
  <2>. DEFINE seen == [records EXCEPT ![a] = [status |-> "pending",
                                              scope |-> mutation[p].scope]]
  <2>1. records[a].status = "none"
    BY <1>1, <1>6 DEF CopyIsCurrent
  <2>2. Extends(seen)
    BY <1>3, <2>1 DEF Extends, Records
  <2>. QED
    BY <1>4, <1>6, <2>2 DEF ReadStore, Create, Steps
<1>7. ASSUME NEW status \in {"approved", "denied"}, Transition(p, status)
      PROVE  CopyIsCurrent'
  <2>1. CASE /\ State(a, records) = "pending" \/ status = "denied"
             /\ State(a, records) \in {"pending", "approved"}
             /\ Carry(p, "saving", Becomes(a, status))
    <3>1. records[a].status \notin {"denied", "consumed"} \/ a \in consumption
      BY <2>1 DEF State
    <3>2. Extends(Becomes(a, status))
      BY <1>3, <3>1 DEF Extends, Becomes, Records
    <3>. QED
      BY <1>4, <2>1, <3>2 DEF Steps
  <2>2. CASE Carry(p, "saving", records) \/ Carry(p, "unlocking", records)
    BY <1>4, <1>5, <2>2 DEF Steps
  <2>. QED
    BY <1>7, <2>1, <2>2 DEF Transition
<1>8. CASE mutation[p].op = "consume"
  <2>1. Carry(p, IF Matches(p) THEN "claiming" ELSE "saving", records)
    BY <1>8 DEF ReadStore
  <2>2. Matches(p) => records[a].status = "approved"
    BY DEF Matches, State
  <2>. QED
    BY <1>4, <1>5, <2>1, <2>2 DEF Steps
<1>. QED
  BY <1>3, <1>6, <1>7, <1>8 DEF ReadStore, Operations

LEMMA CopyClaim ==
  ASSUME StoreInv, CopyIsCurrent, NEW p \in Caller, Claim(p)
  PROVE  CopyIsCurrent'
<1>. SUFFICES ASSUME ~overtaken' PROVE CopyIsCurrent'
  BY DEF CopyIsCurrent
<1>. DEFINE a == mutation[p].approval
<1>1. /\ ~overtaken /\ holder' = holder /\ records' = records
      /\ At(p, "claiming") /\ ~At(p, "idle")
      /\ consumption' = consumption \cup {a}
  BY DEF Claim, At
<1>2. holder = p /\ \A q \in Caller : q # p => At(q, "idle")
  BY <1>1, Alone
<1>3. /\ mutation[p] \in Mutations /\ a \in Approval /\ records \in Records
      /\ mutation \in [Caller -> Mutations \cup {Idle}]
  BY <1>1, InCall DEF StoreInv, ApprovalTypeOK, Steps, Mutations
<1>4. mutation[p].seen = records /\ records[a].status = "approved"
  BY <1>1 DEF CopyIsCurrent
<1>. DEFINE copy == [records EXCEPT ![a].status = "consumed"]
<1>5. /\ mutation'[p].step = "saving"
      /\ \A q \in Caller : q # p => mutation'[q] = mutation[q]
      /\ mutation'[p].seen \in {records, copy}
  <2>1. CASE a \in consumption
    <3>. DEFINE new == [mutation[p] EXCEPT !.step = "saving", !.granted = FALSE]
    <3>1. mutation' = [mutation EXCEPT ![p] = new]
      BY <1>3, <2>1 DEF Claim, Advance, Mutations
    <3>2. new.step = "saving" /\ new.seen = records
      BY <1>3, <1>4 DEF Mutations
    <3>. HIDE DEF new, copy
    <3>3. \A q \in Caller : mutation'[q] = IF q = p THEN new ELSE mutation[q]
      BY <1>3, <3>1
    <3>. QED
      BY <3>2, <3>3
  <2>2. CASE a \notin consumption
    <3>. DEFINE new == [mutation[p] EXCEPT !.step = "saving", !.granted = TRUE,
               !.seen = [mutation[p].seen EXCEPT ![a].status = "consumed"]]
    <3>1. mutation' = [mutation EXCEPT ![p] = new]
      BY <1>3, <2>2 DEF Claim, Mutations
    <3>2. new.step = "saving" /\ new.seen = copy
      BY <1>3, <1>4 DEF Mutations
    <3>. HIDE DEF new, copy
    <3>3. \A q \in Caller : mutation'[q] = IF q = p THEN new ELSE mutation[q]
      BY <1>3, <3>1
    <3>. QED
      BY <3>2, <3>3
  <2>. QED
    BY <2>1, <2>2
<1>6. Extends(mutation[p].seen)'
  <2>1. /\ copy[a].status = "consumed"
        /\ \A b \in Approval : b # a => copy[b] = records[b]
    BY <1>3 DEF Records
  <2>. HIDE DEF copy
  <2>2. CASE mutation'[p].seen = records
    BY <1>1, <2>2 DEF Extends
  <2>3. CASE mutation'[p].seen = copy
    BY <1>1, <1>4, <2>1, <2>3 DEF Extends
  <2>. QED
    BY <1>5, <2>2, <2>3
<1>7. \A q \in Caller : q # p => At(q, "idle")'
  BY <1>2, <1>5 DEF At
<1>. QED
  BY <1>1, <1>2, <1>5, <1>6, <1>7, CopyStays DEF At

LEMMA CopySaved ==
  ASSUME StoreInv, CopyIsCurrent, NEW p \in Caller,
         ClaimFails(p) \/ Save(p) \/ SaveFails(p)
  PROVE  CopyIsCurrent'
<1>. SUFFICES ASSUME ~overtaken' PROVE CopyIsCurrent'
  BY DEF CopyIsCurrent
<1>1. ~overtaken /\ holder' = holder
  <2>1. UNCHANGED <<holder, overtaken>>
    BY Zenon DEF ClaimFails, Save, SaveFails
  <2>. QED
    BY <2>1
<1>. /\ ~At(p, "idle")
     /\ \E step \in Steps : At(p, step)
  BY DEF ClaimFails, Save, SaveFails, At, Steps
<1>2. holder = p /\ \A q \in Caller : q # p => At(q, "idle")
  BY <1>1, Alone
<1>3. mutation[p] \in Mutations
  BY InCall DEF StoreInv
<1>4. /\ mutation'[p].step = "unlocking"
      /\ \A q \in Caller : q # p => mutation'[q] = mutation[q]
  BY <1>3 DEF ClaimFails, Save, SaveFails, Advance, StoreInv, ApprovalTypeOK,
              Mutations
<1>5. \A q \in Caller : q # p => At(q, "idle")'
  BY <1>2, <1>4 DEF At
<1>. QED
  BY <1>1, <1>2, <1>4, <1>5, CopyStays DEF At

LEMMA CopyEnds ==
  ASSUME StoreInv, CopyIsCurrent, NEW p \in Caller,
         Answer(p) \/ CrashStore(p)
  PROVE  CopyIsCurrent'
<1>. SUFFICES ASSUME ~overtaken' PROVE CopyIsCurrent'
  BY DEF CopyIsCurrent
<1>1. /\ ~overtaken /\ UNCHANGED <<records, consumption>>
      /\ mutation' = [mutation EXCEPT ![p] = Idle]
  BY DEF Answer, CrashStore
<1>2. \A q \in Caller : mutation'[q] = IF q = p THEN Idle ELSE mutation[q]
  BY <1>1 DEF StoreInv, ApprovalTypeOK
<1>3. At(p, "idle")' /\ \A q \in Caller : At(q, "idle") => At(q, "idle")'
  BY <1>2 DEF At, Idle
<1>4. ASSUME NEW q \in Caller, ~At(q, "idle"), q # p PROVE CopyIsCurrent'
  <2>1. holder = q /\ \A r \in Caller : r # q => At(r, "idle")
    BY <1>1, <1>4, Alone
  <2>2. holder' = q
    BY <1>4, <2>1 DEF Answer, CrashStore, AfterDeath, At
  <2>3. Extends(mutation[q].seen) => Extends(mutation[q].seen)'
    BY <1>1, <1>2, <1>4 DEF Extends
  <2>. QED
    BY <1>1, <1>2, <1>3, <1>4, <2>1, <2>2, <2>3, CopyStays
       DEF CopyIsCurrent, At
<1>5. CASE \A q \in Caller : q # p => At(q, "idle")
  BY <1>3, <1>5, CopyStays DEF At
<1>. QED
  BY <1>4, <1>5

LEMMA CopyNext == StoreInv /\ CopyIsCurrent /\ ApprovalNext => CopyIsCurrent'
<1>. SUFFICES ASSUME StoreInv, CopyIsCurrent, ApprovalNext
              PROVE  CopyIsCurrent'
  OBVIOUS
<1>1. ASSUME NEW p \in Caller, ApprovalAct(p) PROVE CopyIsCurrent'
  BY <1>1, CopyLock, CopyRead, CopyClaim, CopySaved, CopyEnds
     DEF ApprovalAct, StoreStep
<1>2. CASE UNCHANGED <<records, consumption, holder, mutation, overtaken>>
  BY <1>2 DEF CopyIsCurrent, Extends, At
<1>. QED
  BY <1>1, <1>2 DEF ApprovalNext, Expire, approvalVars

(* What a step does to the file and to the claims while no lock has been   *)
(* overtaken.                                                              *)
LEMMA FileExtends ==
  ASSUME StoreInv, CopyIsCurrent, ~overtaken, ApprovalNext
  PROVE  /\ Extends(records')
         /\ consumption \subseteq consumption'
         /\ \A a \in consumption' \ consumption : records[a].status = "approved"
<1>1. CASE UNCHANGED <<records, consumption>>
  BY <1>1 DEF Extends
<1>2. ASSUME NEW p \in Caller, Save(p)
      PROVE  Extends(records') /\ UNCHANGED consumption
  BY <1>2 DEF CopyIsCurrent, Save
<1>3. ASSUME NEW p \in Caller, Claim(p) \/ ClaimFails(p)
      PROVE  /\ Extends(records') /\ consumption \subseteq consumption'
             /\ \A a \in consumption' \ consumption :
                  records[a].status = "approved"
  <2>1. At(p, "claiming") /\ UNCHANGED records
    BY <1>3 DEF Claim, ClaimFails
  <2>2. consumption' \in {consumption,
                          consumption \cup {mutation[p].approval}}
    BY <1>3 DEF Claim, ClaimFails
  <2>3. records[mutation[p].approval].status = "approved"
    BY <2>1 DEF CopyIsCurrent
  <2>4. Extends(records')
    BY <2>1 DEF Extends
  <2>. QED
    BY <2>2, <2>3, <2>4
<1>4. ASSUME NEW p \in Caller, ApprovalAct(p), ~Save(p), ~Claim(p),
             ~ClaimFails(p)
      PROVE  UNCHANGED <<records, consumption>>
  BY <1>4 DEF ApprovalAct, StoreStep, ReadStore, SaveFails, Answer, CrashStore,
              LockStore
<1>5. CASE \E p \in Caller : ApprovalAct(p)
  BY <1>1, <1>2, <1>3, <1>4, <1>5
<1>6. CASE \E a \in Approval : Expire(a)
  BY <1>1, <1>6 DEF Expire
<1>7. CASE UNCHANGED approvalVars
  BY <1>1, <1>7 DEF approvalVars
<1>. QED
  BY <1>5, <1>6, <1>7 DEF ApprovalNext

-----------------------------------------------------------------------------
(* The gate *)

Gates == {"idle", "consuming", "asking", "reserving", "allowed"}

(* The inductive invariant of the composition.                             *)
GateInv ==
  /\ StoreInv /\ CopyIsCurrent
  /\ BudgetInv
  /\ gate \in [Caller -> Gates]

LEMMA GateMoves ==
  ASSUME gate \in [Caller -> Gates], [Next]_vars
  PROVE  gate' \in [Caller -> Gates]
<1>1. CASE UNCHANGED gate
  BY <1>1
<1>2. ASSUME NEW p \in Caller, NEW g \in Gates, To(p, g)
      PROVE  gate' \in [Caller -> Gates]
  BY <1>2 DEF To
<1>3. ASSUME NEW p \in Caller,
             \/ \E a \in Approval, s \in Scope : Evaluate(p, a, s) \/ Ask(p, a, s)
             \/ EvaluateAllowed(p) \/ AskInVain(p) \/ Consumed(p)
             \/ Reserved(p) \/ Refused(p) \/ WriteHardware(p) \/ Crash(p)
      PROVE  \E g \in Gates : To(p, g)
  BY <1>3 DEF Evaluate, Ask, EvaluateAllowed, AskInVain, Consumed, Reserved,
              Refused, WriteHardware, Crash, Gates
<1>4. ASSUME NEW p \in Caller, NotConsumed(p)
      PROVE  \E g \in Gates : To(p, g)
  BY <1>4 DEF NotConsumed, To, Gates
<1>5. ASSUME NEW p \in Caller,
             \/ RunBudget(p, "monitor") \/ RunBudget(p, "clear")
             \/ \E a \in Approval : Decide(p, "approve", a)
                                    \/ Decide(p, "deny", a)
             \/ Decided(p) \/ InStore(p) \/ InBudget(p)
      PROVE  UNCHANGED gate
  BY <1>5 DEF RunBudget, Decide, Decided, InStore, InBudget
<1>6. CASE Time
  BY <1>1, <1>6 DEF Time
<1>7. CASE UNCHANGED vars
  BY <1>1, <1>7 DEF vars
<1>. QED
  BY <1>1, <1>2, <1>3, <1>4, <1>5, <1>6, <1>7, AreCallers DEF Next

LEMMA GateStarts == Init => GateInv
<1>. SUFFICES ASSUME Init PROVE GateInv
  OBVIOUS
<1>1. StoreInv /\ BudgetInv
  BY StoreInit, BudgetStart DEF Init
<1>2. \A p \in Caller : mutation[p].step = "idle"
  BY DEF Init, ApprovalInit, Idle
<1>. QED
  BY <1>1, <1>2 DEF GateInv, CopyIsCurrent, At, Init, Gates

LEMMA GateKeeps == GateInv /\ [Next]_vars => GateInv'
  BY StepsSplit, StoreNext, CopyNext, BudgetNextInv, GateMoves DEF GateInv

LEMMA GateHolds == Spec => []GateInv
  BY GateStarts, GateKeeps, PTL DEF Spec

-----------------------------------------------------------------------------
(* Every variable of the gate, the approval store and the write budget has *)
(* its type: a call rewrites whole records, and a count is never negative. *)
THEOREM GateTypeCorrect == Spec => []TypeOK
<1>1. GateInv => TypeOK
  BY DEF GateInv, StoreInv, BudgetInv, TypeOK, Gates
<1>. QED
  BY <1>1, GateHolds, PTL

(* consumeApproval answers at most one call with a grant, and for the scope*)
(* it was approved for, though locks are overtaken, calls crash and writes *)
(* fail: the exclusive claim file decides.                                 *)
THEOREM GrantsAreUsedOnce == Spec => []OneGrant
<1>1. GateInv => OneGrant
  BY DEF GateInv, StoreInv
<1>. QED
  BY <1>1, GateHolds, PTL

(* Between two healthy checks an automation writes at most MaxFlashes      *)
(* times, for every limit and every number of processes that serve it, as  *)
(* long as its state file neither goes stale nor is emptied by a late      *)
(* creation (reserveAutomationWriteBudget).                                *)
THEOREM BudgetIsKept == Spec => []BudgetHolds
<1>1. GateInv => BudgetHolds
  BY DEF GateInv, BudgetInv
<1>. QED
  BY <1>1, GateHolds, PTL

(* No request is lost to a write of an older copy of the file (mutate).    *)
THEOREM RequestsSurvive == Spec => RequestsAreKept
<1>1. ASSUME GateInv, [Next]_vars, NEW a \in Approval,
             ~overtaken, records[a].status # "none"
      PROVE  records'[a].status # "none"
  BY <1>1, StepsSplit, FileExtends DEF GateInv, Extends
<1>2. GateInv /\ [Next]_vars =>
        [\A a \in Approval : ~overtaken /\ records[a].status # "none" =>
           records'[a].status # "none"]_approvalVars
  BY <1>1
<1>. QED
  BY <1>2, GateHolds, PTL DEF Spec, RequestsAreKept

(* A denial and a use are final for every reader of the store, although    *)
(* expiry, later decisions and other uses keep rewriting the file.         *)
THEOREM DecisionsSurvive == Spec => DecisionsAreFinal
<1>1. ASSUME GateInv, [Next]_vars, NEW a \in Approval, ~overtaken,
             State(a, records) \in {"denied", "consumed"}
      PROVE  State(a, records)' = State(a, records)
  <2>1. /\ Extends(records')
        /\ consumption \subseteq consumption'
        /\ a \in consumption' \ consumption => records[a].status = "approved"
    BY <1>1, StepsSplit, FileExtends DEF GateInv
  <2>2. records[a].status # "none" /\ records'[a].status # "none"
    BY <1>1, <2>1 DEF State, Extends
  <2>3. CASE a \in consumption
    BY <2>1, <2>2, <2>3 DEF State
  <2>4. CASE a \notin consumption
    <3>1. /\ records[a].status \in {"denied", "consumed"}
          /\ State(a, records) = records[a].status
      BY <1>1, <2>4 DEF State
    <3>2. records'[a].status = records[a].status
      BY <2>1, <2>4, <3>1 DEF Extends
    <3>3. a \notin consumption'
      BY <2>1, <2>4, <3>1
    <3>. QED
      BY <3>1, <3>2, <3>3 DEF State
  <2>. QED
    BY <2>3, <2>4
<1>2. GateInv /\ [Next]_vars =>
        [\A a \in Approval :
           ~overtaken /\ State(a, records) \in {"denied", "consumed"} =>
             State(a, records)' = State(a, records)]_approvalVars
  BY <1>1
<1>. QED
  BY <1>2, GateHolds, PTL DEF Spec, DecisionsAreFinal
=============================================================================
