-------------------------- MODULE ActionRunsProofs --------------------------
(***************************************************************************)
(* Proofs about ActionRuns, for any set of WorkItems and Actions and any   *)
(* bounds: the type invariant, the fence between Actions and their Runs,   *)
(* and the exclusion of Actions that clash over a workspace.               *)
(***************************************************************************)
EXTENDS ActionRuns, TLAPS

-----------------------------------------------------------------------------
(* Types of the operators *)

LEMMA ItemOfType ==
    ASSUME NEW a \in Actions
    PROVE  ItemOf[a] \in WorkItems
BY ConstantsAssumption DEF ConstantsAssumption

LEMMA StoredType ==
    ASSUME NEW i \in ItemRows, NEW s \in ItemStatus
    PROVE  Stored(i, s) \in ItemStatus
BY DEF Stored, ItemRows, ItemStatus

LEMMA BecomeType ==
    ASSUME NEW i \in ItemRows, NEW s \in ItemStatus
    PROVE  Become(i, s) \in ItemRows
<1>. DEFINE t == Stored(i, s)
<1>1. t \in ItemStatus
  BY StoredType
<1>. HIDE DEF t
<1>2. [i EXCEPT !.status = t] \in ItemRows
  BY <1>1 DEF ItemRows
<1>. QED
  BY <1>2 DEF Become, t

LEMMA WakeType ==
    ASSUME NEW i \in ItemRows
    PROVE  Wake(i) \in ItemRows
BY DEF Wake, ItemRows

LEMMA GraphStatusType ==
    ASSUME NEW A, NEW w
    PROVE  GraphStatus(A, w) \in ItemStatus
BY DEF GraphStatus, ItemStatus

LEMMA SettledStatusType ==
    ASSUME NEW A, NEW w
    PROVE  SettledStatus(A, w) \in ItemStatus
BY GraphStatusType DEF SettledStatus, ItemStatus

LEMMA ReconcileType ==
    ASSUME NEW i \in ItemRows, NEW A, NEW w
    PROVE  Reconcile(i, A, w) \in ItemRows
<1>1. i.mail + 1 \in Nat /\ i.reconciled \cup {i.ledger} \in SUBSET Nat
  BY DEF ItemRows
<1>2. [i EXCEPT !.mail = @ + 1, !.reconciled = @ \cup {i.ledger}] \in ItemRows
  BY <1>1 DEF ItemRows
<1>. QED
  BY <1>2 DEF Reconcile

LEMMA NextRunUnused ==
    ASSUME HasRun
    PROVE  NextRun \in RunIds /\ run[NextRun].status = "unused"
BY DEF HasRun, NextRun, IsNextRun, Used

LEMMA RestartedType ==
    ASSUME NEW row \in ActionRows
    PROVE  Restarted(row) \in ActionRows
<1>1. row.gen + 1 \in Nat
  BY DEF ActionRows
<1>. QED
  BY <1>1 DEF Restarted, ActionRows, ActionStatus

LEMMA InvalidatedActionsType ==
    ASSUME TypeOK, NEW w, NEW s \in ActionStatus
    PROVE  InvalidatedActions(w, s) \in [Actions -> ActionRows]
<1>1. \A a \in Actions : act[a] \in ActionRows /\ act[a].epoch + 1 \in Nat
  BY DEF TypeOK, ActionRows
<1>2. \A a \in Actions : [act[a] EXCEPT !.status = s, !.epoch = @ + 1, !.run = NoRun] \in ActionRows
  BY <1>1 DEF ActionRows
<1>. QED
  BY <1>1, <1>2 DEF InvalidatedActions

LEMMA InvalidatedRunsType ==
    ASSUME TypeOK, NEW w, NEW s \in RunStatus
    PROVE  InvalidatedRuns(w, s) \in [RunIds -> RunRows]
<1>1. \A r \in RunIds : run[r] \in RunRows
  BY DEF TypeOK
<1>2. \A r \in RunIds : [run[r] EXCEPT !.status = s] \in RunRows
  BY <1>1 DEF RunRows
<1>. QED
  BY <1>1, <1>2 DEF InvalidatedRuns

LEMMA AbortInvalidType ==
    ASSUME TypeOK, NEW I, NEW A, NEW R, NEW w
    PROVE  AbortInvalid(I, A, R, w) \in [RunIds -> ExecStates]
BY DEF TypeOK, AbortInvalid, ExecStates

LEMMA ClosedType ==
    ASSUME NEW A \in [Actions -> ActionRows], NEW S, NEW s \in ActionStatus
    PROVE  Closed(A, S, s) \in [Actions -> ActionRows]
<1>1. \A a \in Actions : A[a] \in ActionRows /\ A[a].epoch + 1 \in Nat
  BY DEF ActionRows
<1>2. \A a \in Actions : [A[a] EXCEPT !.status = s, !.epoch = @ + 1, !.run = NoRun] \in ActionRows
  BY <1>1 DEF ActionRows
<1>. QED
  BY <1>1, <1>2 DEF Closed

LEMMA StatusSeenType ==
    ASSUME TypeOK, NEW f, NEW r, NEW w \in WorkItems
    PROVE  StatusSeen(f, r, w) \in ItemStatus
<1>1. item[w] \in ItemRows /\ item[w].status \in ItemStatus
  BY DEF TypeOK, ItemRows
<1>2. \A A : Stored(item[w], GraphStatus(A, w)) \in ItemStatus
  BY <1>1, GraphStatusType, StoredType
<1>. QED
  BY <1>1, <1>2 DEF StatusSeen

LEMMA RecoveredActionsType ==
    ASSUME TypeOK, NEW P
    PROVE  RecoveredActions(P) \in [Actions -> ActionRows]
<1>1. \A a \in Actions : act[a] \in ActionRows
  BY DEF TypeOK
<1>2. \A a \in Actions : \A s \in ActionStatus :
        [act[a] EXCEPT !.status = s, !.run = NoRun] \in ActionRows
  BY <1>1 DEF ActionRows
<1>3. \A a \in Actions : (IF Retryable(a) THEN "ready" ELSE "failed") \in ActionStatus
  BY DEF ActionStatus
<1>. QED
  BY <1>1, <1>2, <1>3 DEF RecoveredActions

-----------------------------------------------------------------------------
(* Types of the table updates *)

LEMMA Rows ==
    ASSUME TypeOK
    PROVE  /\ \A w \in WorkItems : /\ item[w] \in ItemRows
                                  /\ item[w].ledger + 1 \in Nat
                                  /\ item[w].mail + 1 \in Nat
                                  /\ item[w].rev + 1 \in Nat
           /\ \A a \in Actions : /\ act[a] \in ActionRows
                                /\ act[a].epoch + 1 \in Nat
                                /\ act[a].gen + 1 \in Nat
           /\ \A r \in RunIds : /\ run[r] \in RunRows
                               /\ run[r].gen + 1 \in Nat
BY DEF TypeOK, ItemRows, ActionRows, RunRows

LEMMA OwnedAction ==
    ASSUME NEW r \in RunIds, Owns(r)
    PROVE  /\ run[r].action \in Actions
           /\ act[run[r].action].status = "running"
           /\ act[run[r].action].run = r
           /\ run[r].status = "running"
BY DEF Owns, OwnsIn

LEMMA FinalizeType ==
    ASSUME TypeOK, NEW r \in RunIds, NEW outcome \in Outcomes,
           IsActiveRun(r), Finalize(r, outcome)
    PROVE  /\ item' \in [WorkItems -> ItemRows]
           /\ act' \in [Actions -> ActionRows]
           /\ run' \in [RunIds -> RunRows]
<1>. DEFINE a == run[r].action
            w == ItemOf[a]
            status == CASE outcome \in {"completed", "waiting"} -> outcome
                        [] outcome = "retryable" /\ act[a].attempt < MaxAttempts -> "ready"
                        [] OTHER -> "failed"
            result == ResultAfter(act[a].result, outcome, r)
            A == [act EXCEPT ![a].status = status, ![a].run = NoRun, ![a].result = result]
            ledger == IF outcome = "retryable" THEN item[w].ledger ELSE item[w].ledger + 1
            s == Stored(item[w], SettledStatus(A, w))
            i == [item[w] EXCEPT !.ledger = ledger, !.status = s]
<1>1. a \in Actions /\ w \in WorkItems
  BY OwnedAction, ItemOfType DEF IsActiveRun
<1>2. status \in ActionStatus /\ result \in RunIds \cup {NoRun}
  BY <1>1, Rows DEF ActionStatus, ResultAfter, ActionRows, Outcomes
<1>3. ledger \in Nat /\ s \in ItemStatus
  BY <1>1, Rows, StoredType, SettledStatusType DEF ItemRows
<1>4. run' = [run EXCEPT ![r].status = outcome] /\ act' = A
      /\ item' = [item EXCEPT ![w] = Reconcile(i, A, w)]
  BY DEF Finalize
<1>5. A \in [Actions -> ActionRows]
  <2>. HIDE DEF status, result, a
  <2>1. [act[a] EXCEPT !.status = status, !.run = NoRun, !.result = result] \in ActionRows
    BY <1>1, <1>2, Rows DEF ActionRows
  <2>2. A = [act EXCEPT ![a] = [act[a] EXCEPT !.status = status, !.run = NoRun, !.result = result]]
    BY <1>1 DEF TypeOK
  <2>. QED
    BY <1>1, <2>1, <2>2 DEF TypeOK
<1>6. i \in ItemRows
  <2>. HIDE DEF ledger, s, w
  <2>. QED
    BY <1>1, <1>3, Rows DEF ItemRows
<1>7. item' \in [WorkItems -> ItemRows]
  <2>. HIDE DEF i, w, A
  <2>1. Reconcile(i, A, w) \in ItemRows
    BY <1>6, ReconcileType
  <2>. QED
    BY <1>1, <1>4, <2>1 DEF TypeOK
<1>8. run' \in [RunIds -> RunRows]
  <2>1. [run[r] EXCEPT !.status = outcome] \in RunRows
    BY Rows DEF RunRows, Outcomes, RunStatus
  <2>. QED
    BY <1>4, <2>1 DEF TypeOK
<1>. QED
  BY <1>4, <1>5, <1>7, <1>8

LEMMA InterruptType ==
    ASSUME TypeOK, NEW S, Interrupt(S)
    PROVE  /\ item' \in [WorkItems -> ItemRows]
           /\ act' \in [Actions -> ActionRows]
           /\ run' \in [RunIds -> RunRows]
<1>1. \A r \in RunIds : [run[r] EXCEPT !.status = "interrupted"] \in RunRows
  BY Rows DEF RunRows, RunStatus
<1>2. \A a \in Actions : \A s \in {"ready", "failed"} :
        [act[a] EXCEPT !.status = s, !.run = NoRun] \in ActionRows
  BY Rows DEF ActionRows, ActionStatus
<1>3. \A w \in WorkItems : \A s \in {"ready", "needs_attention"} :
        [item[w] EXCEPT !.status = s] \in ItemRows
  BY Rows DEF ItemRows, ItemStatus
<1>4. run' \in [RunIds -> RunRows]
  BY <1>1, Rows DEF Interrupt
<1>5. act' \in [Actions -> ActionRows]
  BY <1>2, Rows DEF Interrupt
<1>6. item' \in [WorkItems -> ItemRows]
  BY <1>3, Rows DEF Interrupt
<1>. QED
  BY <1>4, <1>5, <1>6

LEMMA RecoverType ==
    ASSUME TypeOK, NEW b, Recover(b)
    PROVE  /\ item' \in [WorkItems -> ItemRows]
           /\ act' \in [Actions -> ActionRows]
           /\ run' \in [RunIds -> RunRows]
<1>1. PICK f : RecoverInOrder(f)
  BY DEF Recover
<1>2. act' \in [Actions -> ActionRows]
  BY <1>1, RecoveredActionsType DEF RecoverInOrder
<1>3. run' \in [RunIds -> RunRows]
  <2>1. \A r \in RunIds : \A s \in {"interrupted", "cancelled", "superseded"} :
          [run[r] EXCEPT !.status = s] \in RunRows
    BY Rows DEF RunRows, RunStatus
  <2>. QED
    BY <1>1, <2>1, Rows DEF RecoverInOrder
<1>4. item' \in [WorkItems -> ItemRows]
  <2>. DEFINE A == RecoveredActions(DOMAIN f)
              s(w) == Stored(item[w], GraphStatus(A, w))
              recovered(w) == [item[w] EXCEPT !.status = s(w)]
              woken(w) == [recovered(w) EXCEPT !.mail = @ + 1,
                                               !.reconciled = @ \cup {item[w].ledger}]
  <2>1. ASSUME NEW w \in WorkItems
        PROVE  recovered(w) \in ItemRows /\ woken(w) \in ItemRows
    <3>. DEFINE t == s(w)
                ledgers == item[w].reconciled \cup {item[w].ledger}
                mail == item[w].mail + 1
    <3>1. t \in ItemStatus
      BY Rows, StoredType, GraphStatusType
    <3>2. ledgers \in SUBSET Nat /\ mail \in Nat
      BY Rows DEF ItemRows
    <3>. HIDE DEF t, ledgers, mail
    <3>3. [item[w] EXCEPT !.status = t] \in ItemRows
      BY <3>1, Rows DEF ItemRows
    <3>4. [item[w] EXCEPT !.status = t, !.mail = mail, !.reconciled = ledgers] \in ItemRows
      BY <3>1, <3>2, Rows DEF ItemRows
    <3>5. [[item[w] EXCEPT !.status = t] EXCEPT !.mail = @ + 1,
                                                !.reconciled = @ \cup {item[w].ledger}]
            = [item[w] EXCEPT !.status = t, !.mail = mail, !.reconciled = ledgers]
      BY Rows DEF ItemRows, mail, ledgers
    <3>. QED
      BY <3>3, <3>4, <3>5 DEF t
  <2>2. \A w \in WorkItems : item'[w] \in {item[w], recovered(w), woken(w)}
    BY <1>1 DEF RecoverInOrder
  <2>3. item' = [w \in WorkItems |-> item'[w]]
    BY <1>1 DEF RecoverInOrder
  <2>. HIDE DEF recovered, woken
  <2>. QED
    BY <2>1, <2>2, <2>3, Rows
<1>. QED
  BY <1>2, <1>3, <1>4

LEMMA RecoverExpiredType ==
    ASSUME TypeOK, NEW also, RecoverExpiredRuns(also)
    PROVE  /\ item' \in [WorkItems -> ItemRows]
           /\ act' \in [Actions -> ActionRows]
           /\ run' \in [RunIds -> RunRows]
           /\ exec' \in [RunIds -> ExecStates]
<1>1. Recover(boot)
  BY DEF RecoverExpiredRuns
<1>2. exec' \in [RunIds -> ExecStates]
  BY DEF RecoverExpiredRuns, TypeOK, ExecStates
<1>. QED
  BY <1>1, <1>2, RecoverType

LEMMA StopItemType ==
    ASSUME TypeOK, NEW w \in WorkItems, NEW a \in Actions \cup {NoAction}, StopItem(w, a)
    PROVE  item' \in [WorkItems -> ItemRows]
<1>. DEFINE s == IF item[w].status = "cancelled" THEN item[w].status ELSE "needs_attention"
<1>1. s \in ItemStatus
  BY Rows DEF ItemRows, ItemStatus
<1>2. item' = [item EXCEPT ![w] = [item[w] EXCEPT !.stopped = TRUE, !.exhausted = a, !.status = s]]
  BY DEF StopItem, TypeOK
<1>. HIDE DEF s
<1>3. [item[w] EXCEPT !.stopped = TRUE, !.exhausted = a, !.status = s] \in ItemRows
  BY <1>1, Rows DEF ItemRows
<1>. QED
  BY <1>2, <1>3 DEF TypeOK

LEMMA FallBackType ==
    ASSUME TypeOK, NEW r \in RunIds, FallBack(r)
    PROVE  /\ item' \in [WorkItems -> ItemRows]
           /\ act' \in [Actions -> ActionRows]
           /\ run' \in [RunIds -> RunRows]
<1>1. \A b \in Actions : [act[b] EXCEPT !.mode = "shared", !.gen = @ + 1, !.result = NoRun,
                                       !.resv = FALSE] \in ActionRows
  BY Rows DEF ActionRows, Modes
<1>2. act' \in [Actions -> ActionRows]
  BY <1>1, Rows DEF FallBack
<1>3. [run[r] EXCEPT !.gen = @ + 1] \in RunRows
  BY Rows DEF RunRows
<1>4. run' \in [RunIds -> RunRows]
  BY <1>3 DEF FallBack, Rebound, TypeOK
<1>. QED
  BY <1>2, <1>4 DEF FallBack, TypeOK

-----------------------------------------------------------------------------
(* Every step preserves the types *)

LEMMA ClaimType ==
    ASSUME TypeOK, NEW a \in Actions, Claim(a)
    PROVE  TypeOK'
<1>. DEFINE w == ItemOf[a]
            s == Stored(item[w], "running")
<1>1. w \in WorkItems /\ NextRun \in RunIds
  BY ItemOfType, NextRunUnused DEF Claim
<1>2. s \in ItemStatus
  BY <1>1, Rows, StoredType DEF ItemStatus
<1>3. item' = [item EXCEPT ![w] = [item[w] EXCEPT !.status = s]]
  BY DEF Claim, TypeOK
<1>4. item' \in [WorkItems -> ItemRows]
  <2>. HIDE DEF s, w
  <2>1. [item[w] EXCEPT !.status = s] \in ItemRows
    BY <1>1, <1>2, Rows DEF ItemRows
  <2>. QED
    BY <1>3, <2>1 DEF TypeOK
<1>5. act' \in [Actions -> ActionRows]
  <2>1. act[a].attempt + 1 \in Nat
    BY Rows DEF ActionRows
  <2>2. [act[a] EXCEPT !.status = "running", !.attempt = @ + 1, !.epoch = @ + 1, !.run = NextRun]
          \in ActionRows
    BY <1>1, <2>1, Rows DEF ActionRows, ActionStatus
  <2>3. act' = [act EXCEPT ![a] = [act[a] EXCEPT !.status = "running", !.attempt = @ + 1,
                                                !.epoch = @ + 1, !.run = NextRun]]
    BY DEF Claim, TypeOK
  <2>. QED
    BY <2>2, <2>3 DEF TypeOK
<1>6. run' \in [RunIds -> RunRows]
  <2>1. [status |-> "running", action |-> a, owner |-> boot, epoch |-> act[a].epoch + 1,
         gen |-> act[a].gen, fresh |-> TRUE, deferred |-> FALSE] \in RunRows
    BY Rows DEF RunRows, RunStatus, ActionRows, TypeOK
  <2>. QED
    BY <2>1 DEF Claim, TypeOK
<1>7. exec' \in [RunIds -> ExecStates] /\ tick' = "preparing" /\ UNCHANGED <<boot, watch, ops>>
  BY <1>1 DEF Claim, TypeOK, ExecStates
<1>. QED
  BY <1>4, <1>5, <1>6, <1>7 DEF TypeOK, watch

LEMMA PrepareType ==
    ASSUME TypeOK, NEW r \in RunIds, Prepare(r)
    PROVE  TypeOK'
<1>1. (UNCHANGED db) \/ FallBack(r)
  BY DEF Prepare
<1>2. /\ item' \in [WorkItems -> ItemRows]
      /\ act' \in [Actions -> ActionRows]
      /\ run' \in [RunIds -> RunRows]
  <2>1. CASE UNCHANGED db
    BY <2>1 DEF db, TypeOK
  <2>2. CASE FallBack(r)
    BY <2>2, FallBackType
  <2>. QED
    BY <1>1, <2>1, <2>2
<1>3. exec' \in [RunIds -> ExecStates] /\ UNCHANGED <<boot, watch, tick, ops>>
  BY DEF Prepare, TypeOK, ExecStates
<1>. QED
  BY <1>2, <1>3 DEF TypeOK, watch

LEMMA PrepareDeferredType ==
    ASSUME TypeOK, NEW r \in RunIds, PrepareDeferred(r)
    PROVE  TypeOK'
<1>. DEFINE a == run[r].action
            w == ItemOf[a]
            n == IF act[a].attempt > 0 THEN act[a].attempt - 1 ELSE 0
            A == [act EXCEPT ![a].status = "ready", ![a].run = NoRun, ![a].attempt = n]
            s == Stored(item[w], GraphStatus(A, w))
<1>1. a \in Actions /\ w \in WorkItems
  BY OwnedAction, ItemOfType DEF PrepareDeferred, IsActiveRun
<1>2. n \in Nat /\ s \in ItemStatus
  BY <1>1, Rows, StoredType, GraphStatusType DEF ActionRows
<1>3. act' = A /\ item' = [item EXCEPT ![w].status = s]
  BY DEF PrepareDeferred
<1>4. A \in [Actions -> ActionRows]
  <2>. HIDE DEF a, n
  <2>1. [act[a] EXCEPT !.status = "ready", !.run = NoRun, !.attempt = n] \in ActionRows
    BY <1>1, <1>2, Rows DEF ActionRows, ActionStatus
  <2>2. A = [act EXCEPT ![a] = [act[a] EXCEPT !.status = "ready", !.run = NoRun, !.attempt = n]]
    BY <1>1 DEF TypeOK
  <2>. QED
    BY <2>1, <2>2 DEF TypeOK
<1>5. item' \in [WorkItems -> ItemRows]
  <2>. HIDE DEF w, s
  <2>1. [item[w] EXCEPT !.status = s] \in ItemRows
    BY <1>1, <1>2, Rows DEF ItemRows
  <2>2. item' = [item EXCEPT ![w] = [item[w] EXCEPT !.status = s]]
    BY <1>3 DEF TypeOK
  <2>. QED
    BY <2>1, <2>2 DEF TypeOK
<1>6. run' \in [RunIds -> RunRows]
  <2>1. [run[r] EXCEPT !.status = "interrupted", !.deferred = TRUE] \in RunRows
    BY Rows DEF RunRows, RunStatus
  <2>2. run' = [run EXCEPT ![r] = [run[r] EXCEPT !.status = "interrupted", !.deferred = TRUE]]
    BY DEF PrepareDeferred, TypeOK
  <2>. QED
    BY <2>1, <2>2 DEF TypeOK
<1>7. exec' \in [RunIds -> ExecStates] /\ tick' = "idle" /\ UNCHANGED <<boot, watch, ops>>
  BY DEF PrepareDeferred, TypeOK, ExecStates
<1>. QED
  BY <1>3, <1>4, <1>5, <1>6, <1>7 DEF TypeOK, watch

LEMMA WatcherType ==
    ASSUME TypeOK, WatcherStep
    PROVE  TypeOK'
<1>1. CASE TickStart
  BY <1>1, RecoverExpiredType DEF TickStart, TypeOK, watch
<1>2. CASE TickEnd
  BY <1>2 DEF TickEnd, TypeOK, watch, db
<1>3. ASSUME NEW a \in Actions, Claim(a)
      PROVE  TypeOK'
  BY <1>3, ClaimType
<1>4. ASSUME NEW a \in Actions, ClaimStops(a)
      PROVE  TypeOK'
  BY <1>4, StopItemType, ItemOfType DEF ClaimStops, TypeOK, watch
<1>5. ASSUME NEW r \in RunIds, Prepare(r)
      PROVE  TypeOK'
  BY <1>5, PrepareType
<1>6. ASSUME NEW r \in RunIds, StartClaim(r)
      PROVE  TypeOK'
  BY <1>6 DEF StartClaim, TypeOK, watch, db, ExecStates
<1>7. ASSUME NEW r \in RunIds, PrepareDeferred(r)
      PROVE  TypeOK'
  BY <1>7, PrepareDeferredType
<1>8. ASSUME NEW r \in RunIds, PrepareStopped(r)
      PROVE  TypeOK'
  <2>1. /\ item' \in [WorkItems -> ItemRows]
        /\ act' \in [Actions -> ActionRows]
        /\ run' \in [RunIds -> RunRows]
    BY <1>8, InterruptType DEF PrepareStopped, TypeOK, db
  <2>. QED
    BY <1>8, <2>1 DEF PrepareStopped, TypeOK, watch, ExecStates
<1>9. ASSUME NEW r \in RunIds, NEW o \in {"failed", "retryable"}, PrepareFails(r, o)
      PROVE  TypeOK'
  <2>1. /\ item' \in [WorkItems -> ItemRows]
        /\ act' \in [Actions -> ActionRows]
        /\ run' \in [RunIds -> RunRows]
    BY <1>9, FinalizeType DEF PrepareFails, TypeOK, db, Outcomes
  <2>. QED
    BY <1>9, <2>1 DEF PrepareFails, TypeOK, watch, ExecStates
<1>. QED
  BY <1>1, <1>2, <1>3, <1>4, <1>5, <1>6, <1>7, <1>8, <1>9 DEF WatcherStep

LEMMA ExecutorType ==
    ASSUME TypeOK, ExecutorStep
    PROVE  TypeOK'
<1>1. ASSUME NEW r \in RunIds, NEW o \in Outcomes, Submit(r, o)
      PROVE  TypeOK'
  <2>1. /\ item' \in [WorkItems -> ItemRows]
        /\ act' \in [Actions -> ActionRows]
        /\ run' \in [RunIds -> RunRows]
    BY <1>1, FinalizeType DEF Submit, TypeOK, db
  <2>. QED
    BY <1>1, <2>1 DEF Submit, TypeOK, watch, ExecStates
<1>2. ASSUME NEW r \in RunIds, ExecutorEnds(r)
      PROVE  TypeOK'
  BY <1>2 DEF ExecutorEnds, TypeOK, watch, db, ExecStates
<1>3. ASSUME NEW r \in RunIds, RenewalFails(r)
      PROVE  TypeOK'
  BY <1>3, RecoverExpiredType DEF RenewalFails, TypeOK, watch
<1>. QED
  BY <1>1, <1>2, <1>3 DEF ExecutorStep

LEMMA LifecycleType ==
    ASSUME TypeOK, LifecycleStep
    PROVE  TypeOK'
<1>1. CASE Stop
  <2>1. ActiveRuns \subseteq RunIds /\ AbortAll \in [RunIds -> ExecStates]
    BY DEF ActiveRuns, AbortAll, TypeOK, ExecStates
  <2>2. ops' \in [commands : Nat, decisions : Nat, stops : Nat]
    BY <1>1 DEF Stop, TypeOK
  <2>. QED
    BY <1>1, <2>1, <2>2 DEF Stop, TypeOK, db
<1>2. CASE StopCapture
  BY <1>2 DEF StopCapture, AbortAll, ActiveRuns, TypeOK, db, ExecStates
<1>3. CASE StopFinish
  BY <1>3, InterruptType DEF StopFinish, TypeOK
<1>4. CASE StartWatcher
  BY <1>4 DEF StartWatcher, TypeOK, db
<1>5. CASE Boot
  BY <1>5, RecoverType DEF Boot, TypeOK
<1>. QED
  BY <1>1, <1>2, <1>3, <1>4, <1>5 DEF LifecycleStep

LEMMA FailureType ==
    ASSUME TypeOK, FailureStep
    PROVE  TypeOK'
<1>1. CASE Crash
  BY <1>1 DEF Crash, Halt, TypeOK, db, ExecStates
<1>2. ASSUME NEW r \in RunIds, CrashInIntegration(r)
      PROVE  TypeOK'
  <2>. DEFINE a == run[r].action
  <2>1. a \in Actions
    BY <1>2, OwnedAction DEF CrashInIntegration, IsActiveRun
  <2>2. [act[a] EXCEPT !.resv = TRUE] \in ActionRows
    <3>1. act[a] \in ActionRows
      BY <2>1, Rows
    <3>. QED
      BY <3>1 DEF ActionRows
  <2>3. [run[r] EXCEPT !.fresh = TRUE] \in RunRows
    <3>1. run[r] \in RunRows
      BY Rows
    <3>. QED
      BY <3>1 DEF RunRows
  <2>4. act' \in [Actions -> ActionRows] /\ run' \in [RunIds -> RunRows]
    BY <1>2, <2>1, <2>2, <2>3 DEF CrashInIntegration, TypeOK
  <2>. QED
    BY <1>2, <2>4 DEF CrashInIntegration, Halt, TypeOK, ExecStates
<1>3. ASSUME NEW r \in RunIds, LeaseExpires(r)
      PROVE  TypeOK'
  <2>1. [run[r] EXCEPT !.fresh = FALSE] \in RunRows
    BY Rows DEF RunRows
  <2>. QED
    BY <1>3, <2>1 DEF LeaseExpires, TypeOK, watch
<1>4. ASSUME NEW a \in Actions, ReservationExpires(a)
      PROVE  TypeOK'
  <2>1. [act[a] EXCEPT !.resv = FALSE] \in ActionRows
        /\ \A r \in RunIds : [run[r] EXCEPT !.fresh = FALSE] \in RunRows
    BY Rows DEF ActionRows, RunRows
  <2>2. act[a].run \in RunIds \cup {NoRun}
    BY Rows DEF ActionRows
  <2>. QED
    BY <1>4, <2>1, <2>2 DEF ReservationExpires, TypeOK, watch
<1>. QED
  BY <1>1, <1>2, <1>3, <1>4 DEF FailureStep

LEMMA CommandType ==
    ASSUME TypeOK, Command
    PROVE  ops' \in [commands : Nat, decisions : Nat, stops : Nat]
BY DEF Command, TypeOK

LEMMA UserType ==
    ASSUME TypeOK, UserStep
    PROVE  TypeOK'
<1>1. ASSUME NEW w \in WorkItems, StartItem(w)
      PROVE  TypeOK'
  <2>1. Wake(Become(item[w], "running")) \in ItemRows
    BY Rows, BecomeType, WakeType DEF ItemStatus
  <2>. QED
    BY <1>1, <2>1 DEF StartItem, TypeOK, watch
<1>2. ASSUME NEW w \in WorkItems, UpdateItem(w)
      PROVE  TypeOK'
  <2>. DEFINE i == Wake(Become(item[w], "running"))
  <2>1. i \in ItemRows
    BY Rows, BecomeType, WakeType DEF ItemStatus
  <2>2. [i EXCEPT !.rev = @ + 1] \in ItemRows
    <3>. HIDE DEF i
    <3>1. i.rev + 1 \in Nat
      BY <2>1 DEF ItemRows
    <3>. QED
      BY <2>1, <3>1 DEF ItemRows
  <2>3. item' \in [WorkItems -> ItemRows]
    <3>1. item' = [item EXCEPT ![w] = [i EXCEPT !.rev = @ + 1]]
      BY <1>2 DEF UpdateItem
    <3>. HIDE DEF i
    <3>. QED
      BY <2>2, <3>1 DEF TypeOK
  <2>4. act' \in [Actions -> ActionRows] /\ run' \in [RunIds -> RunRows]
    BY <1>2, InvalidatedActionsType, InvalidatedRunsType
    DEF UpdateItem, ActionStatus, RunStatus
  <2>5. exec' \in [RunIds -> ExecStates]
    BY <1>2, AbortInvalidType DEF UpdateItem
  <2>. QED
    BY <1>2, <2>3, <2>4, <2>5, CommandType DEF UpdateItem, TypeOK, watch
<1>3. ASSUME NEW w \in WorkItems, CancelItem(w)
      PROVE  TypeOK'
  <2>1. [item[w] EXCEPT !.status = "cancelled"] \in ItemRows
    BY Rows DEF ItemRows, ItemStatus
  <2>2. item' \in [WorkItems -> ItemRows]
    BY <1>3, <2>1 DEF CancelItem, TypeOK
  <2>3. act' \in [Actions -> ActionRows] /\ run' \in [RunIds -> RunRows]
    BY <1>3, InvalidatedActionsType, InvalidatedRunsType
    DEF CancelItem, ActionStatus, RunStatus
  <2>4. exec' \in [RunIds -> ExecStates]
    BY <1>3, AbortInvalidType DEF CancelItem
  <2>. QED
    BY <1>3, <2>2, <2>3, <2>4, CommandType DEF CancelItem, TypeOK, watch
<1>4. ASSUME NEW w \in WorkItems, ResumeItem(w)
      PROVE  TypeOK'
  <2>1. item' \in [WorkItems -> ItemRows]
    <3>1. PICK retired \in {n \in {0, 1} : n <= item[w].mail} :
            item' = [item EXCEPT ![w] =
              [item[w] EXCEPT !.stopped = FALSE, !.exhausted = NoAction, !.status = "running",
                              !.mail = @ - retired + 1]]
      BY <1>4 DEF ResumeItem
    <3>2. item[w].mail - retired + 1 \in Nat
      BY <3>1, Rows DEF ItemRows
    <3>3. [item[w] EXCEPT !.stopped = FALSE, !.exhausted = NoAction, !.status = "running",
                          !.mail = @ - retired + 1] \in ItemRows
      BY <3>2, Rows DEF ItemRows, ItemStatus
    <3>. QED
      BY <3>1, <3>3 DEF TypeOK
  <2>2. act' \in [Actions -> ActionRows]
    <3>1. \A a \in Actions : act[a].epoch + 2 \in Nat
      BY Rows DEF ActionRows
    <3>2. \A a \in Actions : \A n \in {act[a].epoch + 1, act[a].epoch + 2} :
            [act[a] EXCEPT !.status = "superseded", !.epoch = n, !.run = NoRun] \in ActionRows
      BY <3>1, Rows, ZenonT(60) DEF ActionRows, ActionStatus
    <3>. QED
      BY <1>4, <3>2, Rows DEF ResumeItem
  <2>3. run' \in [RunIds -> RunRows]
    BY <1>4, InvalidatedRunsType DEF ResumeItem, RunStatus, TypeOK
  <2>4. exec' \in [RunIds -> ExecStates]
    BY <1>4, AbortInvalidType DEF ResumeItem
  <2>. QED
    BY <1>4, <2>1, <2>2, <2>3, <2>4, CommandType DEF ResumeItem, TypeOK, watch
<1>5. ASSUME NEW w \in WorkItems, ExtendAttempts(w)
      PROVE  TypeOK'
  <2>1. [item[w] EXCEPT !.ext = @ + 1] \in ItemRows
    BY Rows DEF ItemRows
  <2>2. item' \in [WorkItems -> ItemRows]
    BY <1>5, <2>1 DEF ExtendAttempts, TypeOK
  <2>. QED
    BY <1>5, <2>2, CommandType DEF ExtendAttempts, TypeOK, watch
<1>6. ASSUME NEW w \in WorkItems, StopExecution(w) \/ SettleExceeds(w)
      PROVE  TypeOK'
  <2>1. item' \in [WorkItems -> ItemRows]
    BY <1>6, StopItemType DEF StopExecution, SettleExceeds
  <2>. QED
    BY <1>6, <2>1, CommandType DEF StopExecution, SettleExceeds, TypeOK, watch
<1>7. ASSUME NEW a \in Actions, RetryAction(a)
      PROVE  TypeOK'
  <2>1. act' \in [Actions -> ActionRows]
    BY <1>7, Rows, RestartedType DEF RetryAction, TypeOK
  <2>2. exec' \in [RunIds -> ExecStates]
    BY <1>7, AbortInvalidType DEF RetryAction
  <2>. QED
    BY <1>7, <2>1, <2>2, CommandType DEF RetryAction, TypeOK, watch
<1>8. ASSUME NEW a \in Actions, GuideAction(a)
      PROVE  TypeOK'
  <2>. DEFINE row == Restarted(act[a])
              epoch == IF act[a].status = "running" THEN row.epoch + 1 ELSE row.epoch
  <2>1. row \in ActionRows /\ epoch \in Nat
    BY Rows, RestartedType DEF ActionRows
  <2>2. act' \in [Actions -> ActionRows]
    <3>1. act' = [act EXCEPT ![a] = [row EXCEPT !.epoch = epoch]]
      BY <1>8 DEF GuideAction
    <3>. HIDE DEF row, epoch
    <3>2. [row EXCEPT !.epoch = epoch] \in ActionRows
      BY <2>1 DEF ActionRows
    <3>. QED
      BY <3>1, <3>2 DEF TypeOK
  <2>3. run' \in [RunIds -> RunRows]
    <3>1. \A r \in RunIds : \A s \in RunStatus : [run[r] EXCEPT !.status = s] \in RunRows
      BY Rows DEF RunRows
    <3>2. \A r \in RunIds : run[r].status \in RunStatus
      BY Rows DEF RunRows
    <3>3. act[a].run \in RunIds \cup {NoRun}
      BY Rows DEF ActionRows
    <3>. DEFINE s == IF run[act[a].run].status = "running" THEN "superseded"
                     ELSE run[act[a].run].status
    <3>4. run' = run \/ (act[a].run # NoRun /\ run' = [run EXCEPT ![act[a].run] =
                                                       [run[act[a].run] EXCEPT !.status = s]])
      BY <1>8, <3>3 DEF GuideAction, TypeOK
    <3>5. act[a].run # NoRun => s \in RunStatus
      BY <3>2, <3>3 DEF RunStatus
    <3>. HIDE DEF s
    <3>. QED
      BY <3>1, <3>3, <3>4, <3>5 DEF TypeOK
  <2>4. item' \in [WorkItems -> ItemRows]
    BY <1>8, Rows, BecomeType, ItemOfType DEF GuideAction, TypeOK, ItemStatus
  <2>5. exec' \in [RunIds -> ExecStates]
    BY <1>8, AbortInvalidType DEF GuideAction
  <2>. QED
    BY <1>8, <2>2, <2>3, <2>4, <2>5, CommandType DEF GuideAction, TypeOK, watch
<1>. QED
  BY <1>1, <1>2, <1>3, <1>4, <1>5, <1>6, <1>7, <1>8 DEF UserStep

LEMMA DecidedType ==
    ASSUME TypeOK, NEW w \in WorkItems, NEW auto \in BOOLEAN, NEW refine \in BOOLEAN,
           NEW s \in ItemStatus, Decision(w, auto)
    PROVE  Decided(w, auto, refine, s) \in [WorkItems -> ItemRows]
<1>. DEFINE i == Become(item[w], s)
            mail == Acked(i.mail, auto)
            rev == IF refine THEN i.rev + 1 ELSE i.rev
<1>1. i \in ItemRows /\ i.mail = item[w].mail
  BY Rows, BecomeType DEF Become, ItemRows
<1>2. mail \in Nat /\ rev \in Nat
  BY <1>1, Rows DEF Decision, Acked, ItemRows
<1>3. [i EXCEPT !.mail = mail, !.rev = rev] \in ItemRows
  <2>. HIDE DEF i, mail, rev
  <2>. QED
    BY <1>1, <1>2 DEF ItemRows
<1>4. Decided(w, auto, refine, s) = [item EXCEPT ![w] = [i EXCEPT !.mail = mail, !.rev = rev]]
  BY DEF Decided
<1>. QED
  BY <1>3, <1>4 DEF TypeOK

LEMMA TurnType ==
    ASSUME TypeOK, NEW counted, Turn(counted)
    PROVE  ops' \in [commands : Nat, decisions : Nat, stops : Nat]
BY DEF Turn, TypeOK

LEMMA CoordinatorType ==
    ASSUME TypeOK, CoordinatorStep
    PROVE  TypeOK'
<1>1. ASSUME NEW w \in WorkItems, NEW auto \in BOOLEAN, NEW refine \in BOOLEAN,
             CreateActions(w, auto, refine)
      PROVE  TypeOK'
  <2>1. item' \in [WorkItems -> ItemRows]
    BY <1>1, DecidedType, ZenonT(60) DEF CreateActions, ItemStatus
  <2>2. act' \in [Actions -> ActionRows]
    <3>1. PICK N \in Creatable(w), C \in SUBSET Open(w), S \in SUBSET Open(w) :
            LET kept == IF refine THEN InvalidatedActions(w, "superseded")
                        ELSE Closed(Closed(act, C, "closed"), S, "superseded")
                rev == IF refine THEN item[w].rev + 1 ELSE item[w].rev
            IN  act' = [a \in Actions |->
                          IF a \in N THEN [kept[a] EXCEPT !.status = "ready", !.rev = rev]
                          ELSE kept[a]]
      BY <1>1 DEF CreateActions
    <3>. DEFINE kept == IF refine THEN InvalidatedActions(w, "superseded")
                        ELSE Closed(Closed(act, C, "closed"), S, "superseded")
                rev == IF refine THEN item[w].rev + 1 ELSE item[w].rev
    <3>2. act \in [Actions -> ActionRows] /\ "closed" \in ActionStatus
          /\ "superseded" \in ActionStatus
      BY DEF TypeOK, ActionStatus
    <3>3. kept \in [Actions -> ActionRows]
      <4>1. Closed(act, C, "closed") \in [Actions -> ActionRows]
        BY <3>2, ClosedType
      <4>2. Closed(Closed(act, C, "closed"), S, "superseded") \in [Actions -> ActionRows]
        BY <3>2, <4>1, ClosedType
      <4>. QED
        BY <3>2, <4>2, InvalidatedActionsType
    <3>4. rev \in Nat
      BY Rows DEF ItemRows
    <3>. HIDE DEF kept, rev
    <3>5. \A a \in Actions : [kept[a] EXCEPT !.status = "ready", !.rev = rev] \in ActionRows
      BY <3>3, <3>4, ZenonT(60) DEF ActionRows, ActionStatus
    <3>6. act' = [a \in Actions |->
                    IF a \in N THEN [kept[a] EXCEPT !.status = "ready", !.rev = rev]
                    ELSE kept[a]]
      BY <3>1 DEF kept, rev
    <3>. QED
      BY <3>3, <3>5, <3>6
  <2>3. run' \in [RunIds -> RunRows]
    BY <1>1, InvalidatedRunsType DEF CreateActions, TypeOK, RunStatus
  <2>4. exec' \in [RunIds -> ExecStates]
    BY <1>1, AbortInvalidType DEF CreateActions, TypeOK
  <2>. QED
    BY <1>1, <2>1, <2>2, <2>3, <2>4, TurnType DEF CreateActions, TypeOK, watch
<1>2. ASSUME NEW w \in WorkItems, NEW auto \in BOOLEAN, NEW refine \in BOOLEAN,
             RequestHuman(w, auto, refine)
      PROVE  TypeOK'
  <2>1. item' \in [WorkItems -> ItemRows]
    BY <1>2, DecidedType DEF RequestHuman, ItemStatus
  <2>2. act' \in [Actions -> ActionRows] /\ run' \in [RunIds -> RunRows]
    BY <1>2, InvalidatedActionsType, InvalidatedRunsType
    DEF RequestHuman, TypeOK, ActionStatus, RunStatus
  <2>3. exec' \in [RunIds -> ExecStates]
    BY <1>2, AbortInvalidType DEF RequestHuman, TypeOK
  <2>. QED
    BY <1>2, <2>1, <2>2, <2>3, TurnType DEF RequestHuman, TypeOK, watch
<1>3. ASSUME NEW w \in WorkItems, NEW auto \in BOOLEAN, GuideActions(w, auto)
      PROVE  TypeOK'
  <2>1. item' \in [WorkItems -> ItemRows]
    BY <1>3, DecidedType DEF GuideActions, ItemStatus
  <2>2. act' \in [Actions -> ActionRows]
    <3>1. \A a \in Actions : [Restarted(act[a]) EXCEPT !.rev = item[w].rev] \in ActionRows
      <4>1. item[w].rev \in Nat
        BY Rows DEF ItemRows
      <4>2. \A row \in ActionRows : [row EXCEPT !.rev = item[w].rev] \in ActionRows
        BY <4>1 DEF ActionRows
      <4>. QED
        BY <4>2, Rows, RestartedType
    <3>. QED
      BY <1>3, <3>1, Rows DEF GuideActions
  <2>. QED
    BY <1>3, <2>1, <2>2, TurnType DEF GuideActions, TypeOK, watch
<1>4. ASSUME NEW w \in WorkItems, NEW auto \in BOOLEAN, Complete(w, auto)
      PROVE  TypeOK'
  <2>1. item' \in [WorkItems -> ItemRows]
    BY <1>4, DecidedType DEF Complete, ItemStatus
  <2>2. act' \in [Actions -> ActionRows]
    BY <1>4, ClosedType DEF Complete, TypeOK, ActionStatus
  <2>. QED
    BY <1>4, <2>1, <2>2, TurnType DEF Complete, TypeOK, watch
<1>5. ASSUME NEW w \in WorkItems, Answer(w)
      PROVE  TypeOK'
  <2>1. item[w].mail - 1 \in Nat
    BY <1>5, Rows DEF Answer, Decision, ItemRows
  <2>2. [item[w] EXCEPT !.mail = @ - 1] \in ItemRows
    BY <2>1, Rows DEF ItemRows
  <2>3. item' \in [WorkItems -> ItemRows]
    BY <1>5, <2>2 DEF Answer, TypeOK
  <2>. QED
    BY <1>5, <2>3, TurnType DEF Answer, TypeOK, watch
<1>. QED
  BY <1>1, <1>2, <1>3, <1>4, <1>5 DEF CoordinatorStep

LEMMA InitType == Init => TypeOK
<1>. SUFFICES ASSUME Init
              PROVE  TypeOK
  OBVIOUS
<1>1. item \in [WorkItems -> ItemRows]
  BY DEF Init, ItemRows, ItemStatus
<1>2. act \in [Actions -> ActionRows]
  BY ConstantsAssumption DEF Init, ConstantsAssumption, ActionRows, ActionStatus
<1>3. run \in [RunIds -> RunRows]
  BY DEF Init, RunRows, RunStatus
<1>. QED
  BY <1>1, <1>2, <1>3 DEF Init, TypeOK, ExecStates

LEMMA StepType ==
    ASSUME TypeOK, [Next]_vars
    PROVE  TypeOK'
<1>1. CASE UNCHANGED vars
  BY <1>1 DEF vars, TypeOK
<1>. QED
  BY <1>1, WatcherType, ExecutorType, LifecycleType, UserType, CoordinatorType, FailureType
  DEF Next

\* The tables and the watcher's state keep their types, for any number of
\* WorkItems, Actions, Runs and process starts.
THEOREM TypeCorrect == Spec => []TypeOK
BY InitType, StepType, PTL DEF Spec

-----------------------------------------------------------------------------
(* The fence.  A step lets the Runs of a set S and the Actions they run go    *)
(* together and leaves the other pairs alone.                                 *)

LEMMA FencePreserved ==
    ASSUME TypeOK, RunFence, NEW S,
           \A r \in RunIds :
             IF r \in S THEN run'[r].status # "running"
             ELSE /\ run'[r].status = run[r].status
                  /\ run'[r].action = run[r].action
                  /\ run'[r].epoch = run[r].epoch
                  /\ run'[r].gen = run[r].gen,
           \A a \in Actions :
             IF act[a].status = "running" /\ act[a].run \notin S
             THEN /\ act'[a].status = "running"
                  /\ act'[a].run = act[a].run
                  /\ act'[a].epoch = act[a].epoch
                  /\ act'[a].gen = act[a].gen
             ELSE act'[a].status # "running" /\ act'[a].run = NoRun
    PROVE  RunFence'
BY DEF RunFence

LEMMA FenceKept ==
    ASSUME RunFence, UNCHANGED <<act, run>>
    PROVE  RunFence'
BY DEF RunFence

LEMMA FinalizeFence ==
    ASSUME TypeOK, RunFence, NEW r \in RunIds, NEW outcome \in Outcomes,
           IsActiveRun(r), Finalize(r, outcome)
    PROVE  RunFence'
<1>. DEFINE a == run[r].action
            S == {r}
            status == CASE outcome \in {"completed", "waiting"} -> outcome
                        [] outcome = "retryable" /\ act[a].attempt < MaxAttempts -> "ready"
                        [] OTHER -> "failed"
<1>1. a \in Actions /\ act[a].status = "running" /\ act[a].run = r
  BY OwnedAction DEF IsActiveRun
<1>2. status # "running" /\ outcome # "running"
  BY DEF Outcomes
<1>3. run' = [run EXCEPT ![r].status = outcome]
      /\ act' = [act EXCEPT ![a].status = status, ![a].run = NoRun,
                            ![a].result = ResultAfter(@, outcome, r)]
  BY DEF Finalize
<1>4. \A q \in RunIds :
        IF q \in S THEN run'[q].status # "running"
        ELSE /\ run'[q].status = run[q].status /\ run'[q].action = run[q].action
             /\ run'[q].epoch = run[q].epoch /\ run'[q].gen = run[q].gen
  BY <1>2, <1>3 DEF TypeOK, RunRows
<1>5. \A b \in Actions :
        IF act[b].status = "running" /\ act[b].run \notin S
        THEN /\ act'[b].status = "running" /\ act'[b].run = act[b].run
             /\ act'[b].epoch = act[b].epoch /\ act'[b].gen = act[b].gen
        ELSE act'[b].status # "running" /\ act'[b].run = NoRun
  <2>. HIDE DEF status
  <2>1. act'[a].status # "running" /\ act'[a].run = NoRun
    BY <1>1, <1>2, <1>3 DEF TypeOK, ActionRows
  <2>2. \A b \in Actions : b # a => act'[b] = act[b]
    BY <1>1, <1>3 DEF TypeOK
  <2>3. \A b \in Actions : act[b].status = "running" /\ act[b].run \in S => b = a
    BY DEF RunFence
  <2>4. \A b \in Actions : act[b].status # "running" => act[b].run = NoRun
    BY DEF RunFence
  <2>. QED
    BY <1>1, <2>1, <2>2, <2>3, <2>4
<1>. HIDE DEF S
<1>. QED
  BY <1>4, <1>5, FencePreserved

LEMMA InterruptFence ==
    ASSUME TypeOK, RunFence, NEW S \in SUBSET RunIds, \A r \in S : Owns(r), Interrupt(S)
    PROVE  RunFence'
<1>1. \A r \in RunIds :
        IF r \in S THEN run'[r].status # "running"
        ELSE /\ run'[r].status = run[r].status /\ run'[r].action = run[r].action
             /\ run'[r].epoch = run[r].epoch /\ run'[r].gen = run[r].gen
  BY DEF Interrupt, TypeOK, RunRows
<1>2. \A a \in Actions :
        IF act[a].status = "running" /\ act[a].run \notin S
        THEN /\ act'[a].status = "running" /\ act'[a].run = act[a].run
             /\ act'[a].epoch = act[a].epoch /\ act'[a].gen = act[a].gen
        ELSE act'[a].status # "running" /\ act'[a].run = NoRun
  <2>1. \A a \in Actions : (\E r \in S : run[r].action = a)
          <=> act[a].status = "running" /\ act[a].run \in S
    BY OwnedAction DEF RunFence
  <2>2. \A a \in Actions : (\E r \in S : run[r].action = a)
          => act'[a].status # "running" /\ act'[a].run = NoRun
    BY DEF Interrupt, TypeOK, ActionRows
  <2>3. \A a \in Actions : ~(\E r \in S : run[r].action = a) => act'[a] = act[a]
    BY DEF Interrupt
  <2>4. \A a \in Actions : act[a].status # "running" => act[a].run = NoRun
    BY DEF RunFence
  <2>. QED
    BY <2>1, <2>2, <2>3, <2>4
<1>. QED
  BY <1>1, <1>2, FencePreserved

\* Every row that recovery ends still owned its Action: the fence makes the
\* test of StillOwns true for each of them.
LEMMA RecoverFence ==
    ASSUME TypeOK, RunFence, NEW b, Recover(b)
    PROVE  RunFence'
<1>1. PICK f \in Orders(LostRuns(b)) : RecoverInOrder(f)
  BY DEF Recover
<1>. DEFINE S == DOMAIN f
<1>2. S = LostRuns(b)
  BY <1>1 DEF Orders
<1>3. \A r \in S : r \in RunIds /\ StillOwns(r) /\ run[r].action \in Actions
  BY <1>2 DEF LostRuns, StillOwns, RunFence
<1>4. \A r \in RunIds :
        IF r \in S THEN run'[r].status # "running"
        ELSE /\ run'[r].status = run[r].status /\ run'[r].action = run[r].action
             /\ run'[r].epoch = run[r].epoch /\ run'[r].gen = run[r].gen
  BY <1>1 DEF RecoverInOrder, TypeOK, RunRows
<1>5. \A a \in Actions :
        IF act[a].status = "running" /\ act[a].run \notin S
        THEN /\ act'[a].status = "running" /\ act'[a].run = act[a].run
             /\ act'[a].epoch = act[a].epoch /\ act'[a].gen = act[a].gen
        ELSE act'[a].status # "running" /\ act'[a].run = NoRun
  <2>1. act' = RecoveredActions(S)
    BY <1>1 DEF RecoverInOrder
  <2>2. \A a \in Actions : (\E r \in S : run[r].action = a /\ StillOwns(r))
          <=> act[a].status = "running" /\ act[a].run \in S
    BY <1>3 DEF RunFence, StillOwns
  <2>3. \A a \in Actions : (\E r \in S : run[r].action = a /\ StillOwns(r))
          => act'[a].status # "running" /\ act'[a].run = NoRun
    BY <2>1 DEF RecoveredActions, TypeOK, ActionRows
  <2>4. \A a \in Actions : ~(\E r \in S : run[r].action = a /\ StillOwns(r)) => act'[a] = act[a]
    BY <2>1 DEF RecoveredActions
  <2>5. \A a \in Actions : act[a].status # "running" => act[a].run = NoRun
    BY DEF RunFence
  <2>. QED
    BY <2>2, <2>3, <2>4, <2>5
<1>. HIDE DEF S
<1>. QED
  BY <1>4, <1>5, FencePreserved

\* The Runs of the unfinished Actions of w, which an invalidation ends.
RunsInProgress(w) ==
    {r \in RunIds : /\ run[r].status = "running"
                    /\ ItemOf[run[r].action] = w
                    /\ act[run[r].action].status \in Unfinished}

LEMMA RunsInProgressFact ==
    ASSUME RunFence, NEW w
    PROVE  /\ \A a \in Actions : act[a].status = "running" =>
                (act[a].run \in RunsInProgress(w) <=> ItemOf[a] = w)
           /\ \A a \in Actions : act[a].status # "running" => act[a].run = NoRun
BY DEF RunFence, RunsInProgress, Unfinished

LEMMA InvalidatedRunsFence ==
    ASSUME TypeOK, NEW w, NEW s \in RunStatus \ {"running"}, run' = InvalidatedRuns(w, s)
    PROVE  \A r \in RunIds :
             IF r \in RunsInProgress(w) THEN run'[r].status # "running"
             ELSE /\ run'[r].status = run[r].status /\ run'[r].action = run[r].action
                  /\ run'[r].epoch = run[r].epoch /\ run'[r].gen = run[r].gen
BY DEF InvalidatedRuns, RunsInProgress, TypeOK, RunRows

\* An invalidation of w; the Actions in N are then made ready.
LEMMA InvalidateFence ==
    ASSUME TypeOK, RunFence, NEW w, NEW s \in {"superseded", "cancelled"},
           NEW N, \A a \in N : act[a].status = "absent",
           run' = InvalidatedRuns(w, s),
           \A a \in Actions \ N : act'[a] = InvalidatedActions(w, s)[a],
           \A a \in Actions \cap N : act'[a].status = "ready" /\ act'[a].run = act[a].run
    PROVE  RunFence'
<1>1. \A a \in Actions :
        IF act[a].status = "running" /\ act[a].run \notin RunsInProgress(w)
        THEN /\ act'[a].status = "running" /\ act'[a].run = act[a].run
             /\ act'[a].epoch = act[a].epoch /\ act'[a].gen = act[a].gen
        ELSE act'[a].status # "running" /\ act'[a].run = NoRun
  <2>. SUFFICES ASSUME NEW a \in Actions
                PROVE  IF act[a].status = "running" /\ act[a].run \notin RunsInProgress(w)
                       THEN /\ act'[a].status = "running" /\ act'[a].run = act[a].run
                            /\ act'[a].epoch = act[a].epoch /\ act'[a].gen = act[a].gen
                       ELSE act'[a].status # "running" /\ act'[a].run = NoRun
    OBVIOUS
  <2>1. CASE a \in N
    BY <2>1, RunsInProgressFact
  <2>2. CASE a \notin N /\ ItemOf[a] = w /\ act[a].status \in Unfinished
    <3>1. act'[a] = [act[a] EXCEPT !.status = s, !.epoch = @ + 1, !.run = NoRun]
      BY <2>2 DEF InvalidatedActions
    <3>2. act'[a].status = s /\ act'[a].run = NoRun
      BY <3>1 DEF TypeOK, ActionRows
    <3>. QED
      BY <2>2, <3>2, RunsInProgressFact
  <2>3. CASE a \notin N /\ ~(ItemOf[a] = w /\ act[a].status \in Unfinished)
    <3>1. act'[a] = act[a]
      BY <2>3 DEF InvalidatedActions
    <3>. QED
      BY <2>3, <3>1, RunsInProgressFact DEF Unfinished
  <2>. QED
    BY <2>1, <2>2, <2>3
<1>2. s \in RunStatus \ {"running"}
  BY DEF RunStatus
<1>. QED
  BY <1>1, <1>2, InvalidatedRunsFence, FencePreserved

LEMMA InvalidateOnlyFence ==
    ASSUME TypeOK, RunFence, NEW w, NEW s \in {"superseded", "cancelled"},
           run' = InvalidatedRuns(w, s), act' = InvalidatedActions(w, s)
    PROVE  RunFence'
<1>1. PICK N : N = {}
  OBVIOUS
<1>2. \A a \in N : act[a].status = "absent"
  BY <1>1
<1>3. \A a \in Actions \ N : act'[a] = InvalidatedActions(w, s)[a]
  OBVIOUS
<1>4. \A a \in Actions \cap N : act'[a].status = "ready" /\ act'[a].run = act[a].run
  BY <1>1
<1>. QED
  BY <1>2, <1>3, <1>4, InvalidateFence

\* A step that leaves the Runs alone and the running Actions as they are, and
\* gives no other Action a Run.
LEMMA IdleActionsFence ==
    ASSUME TypeOK, RunFence, UNCHANGED run,
           \A a \in Actions :
             \/ act'[a] = act[a]
             \/ /\ act[a].status # "running" /\ act'[a].status # "running"
                /\ act'[a].run \in {act[a].run, NoRun}
    PROVE  RunFence'
BY DEF RunFence

LEMMA ClaimFence ==
    ASSUME TypeOK, RunFence, NEW a \in Actions, Claim(a)
    PROVE  RunFence'
<1>1. NextRun \in RunIds /\ run[NextRun].status = "unused"
  BY NextRunUnused DEF Claim
<1>2. act[a].status = "ready" /\ act[a].run = NoRun
  BY DEF Claim, Candidate
<1>3. /\ act'[a].status = "running" /\ act'[a].run = NextRun
      /\ act'[a].epoch = act[a].epoch + 1 /\ act'[a].gen = act[a].gen
      /\ \A b \in Actions \ {a} : act'[b] = act[b]
  BY DEF Claim, TypeOK, ActionRows
<1>4. /\ run'[NextRun].status = "running" /\ run'[NextRun].action = a
      /\ run'[NextRun].epoch = act[a].epoch + 1 /\ run'[NextRun].gen = act[a].gen
      /\ \A r \in RunIds \ {NextRun} : run'[r] = run[r]
  BY <1>1 DEF Claim, TypeOK
<1>. QED
  BY <1>1, <1>2, <1>3, <1>4 DEF RunFence

LEMMA FallBackFence ==
    ASSUME TypeOK, RunFence, NEW r \in RunIds, IsActiveRun(r), FallBack(r)
    PROVE  RunFence'
<1>. DEFINE a == run[r].action
<1>1. a \in Actions /\ act[a].status = "running" /\ act[a].run = r
  BY OwnedAction DEF IsActiveRun
<1>2. /\ run'[r].gen = run[r].gen + 1 /\ run'[r].epoch = run[r].epoch
      /\ run'[r].status = run[r].status /\ run'[r].action = run[r].action
      /\ \A q \in RunIds \ {r} : run'[q] = run[q]
  BY DEF FallBack, Rebound, TypeOK, RunRows
<1>3. /\ act'[a].gen = act[a].gen + 1 /\ act'[a].epoch = act[a].epoch
      /\ act'[a].status = act[a].status /\ act'[a].run = act[a].run
  BY <1>1, ZenonT(60) DEF FallBack, TypeOK, ActionRows
<1>4. ASSUME NEW b \in Actions \ {a}
      PROVE  /\ act'[b].status = act[b].status /\ act'[b].run = act[b].run
             /\ act'[b].epoch = act[b].epoch
             /\ act[b].status = "running" => act'[b].gen = act[b].gen
  <2>1. \/ act'[b] = act[b]
        \/ /\ act[b].status = "ready"
           /\ act'[b] = [act[b] EXCEPT !.mode = "shared", !.gen = act[b].gen + 1,
                                       !.result = NoRun, !.resv = FALSE]
    BY DEF FallBack
  <2>. QED
    BY <2>1 DEF TypeOK, ActionRows
<1>. QED
  BY <1>1, <1>2, <1>3, <1>4, SMTT(30) DEF RunFence

LEMMA DeferredFence ==
    ASSUME TypeOK, RunFence, NEW r \in RunIds, PrepareDeferred(r)
    PROVE  RunFence'
<1>. DEFINE a == run[r].action
            S == {r}
<1>1. a \in Actions /\ act[a].status = "running" /\ act[a].run = r
  BY OwnedAction DEF PrepareDeferred, IsActiveRun
<1>2. \A q \in RunIds :
        IF q \in S THEN run'[q].status # "running"
        ELSE /\ run'[q].status = run[q].status /\ run'[q].action = run[q].action
             /\ run'[q].epoch = run[q].epoch /\ run'[q].gen = run[q].gen
  BY DEF PrepareDeferred, TypeOK, RunRows
<1>3. act'[a].status # "running" /\ act'[a].run = NoRun
      /\ \A b \in Actions \ {a} : act'[b] = act[b]
  BY <1>1, ZenonT(60) DEF PrepareDeferred, TypeOK, ActionRows
<1>4. \A b \in Actions :
        IF act[b].status = "running" /\ act[b].run \notin S
        THEN /\ act'[b].status = "running" /\ act'[b].run = act[b].run
             /\ act'[b].epoch = act[b].epoch /\ act'[b].gen = act[b].gen
        ELSE act'[b].status # "running" /\ act'[b].run = NoRun
  BY <1>1, <1>3 DEF RunFence
<1>. HIDE DEF S
<1>. QED
  BY <1>2, <1>4, FencePreserved

LEMMA WatcherFence ==
    ASSUME TypeOK, RunFence, WatcherStep
    PROVE  RunFence'
<1>1. CASE TickStart
  BY <1>1, RecoverFence DEF TickStart, RecoverExpiredRuns
<1>2. CASE TickEnd
  BY <1>2, FenceKept DEF TickEnd, db
<1>3. ASSUME NEW a \in Actions, Claim(a)
      PROVE  RunFence'
  BY <1>3, ClaimFence
<1>4. ASSUME NEW a \in Actions, ClaimStops(a)
      PROVE  RunFence'
  BY <1>4, FenceKept DEF ClaimStops
<1>5. ASSUME NEW r \in RunIds, Prepare(r)
      PROVE  RunFence'
  <2>1. CASE UNCHANGED db
    BY <2>1, FenceKept DEF db
  <2>2. CASE IsActiveRun(r) /\ FallBack(r)
    BY <2>2, FallBackFence
  <2>. QED
    BY <1>5, <2>1, <2>2 DEF Prepare
<1>6. ASSUME NEW r \in RunIds, StartClaim(r)
      PROVE  RunFence'
  BY <1>6, FenceKept DEF StartClaim, db
<1>7. ASSUME NEW r \in RunIds, PrepareDeferred(r)
      PROVE  RunFence'
  BY <1>7, DeferredFence
<1>8. ASSUME NEW r \in RunIds, PrepareStopped(r)
      PROVE  RunFence'
  <2>1. CASE CanInterrupt(r) /\ Interrupt({r})
    BY <2>1, InterruptFence DEF CanInterrupt
  <2>2. CASE UNCHANGED db
    BY <2>2, FenceKept DEF db
  <2>. QED
    BY <1>8, <2>1, <2>2 DEF PrepareStopped
<1>9. ASSUME NEW r \in RunIds, NEW o \in {"failed", "retryable"}, PrepareFails(r, o)
      PROVE  RunFence'
  <2>1. CASE IsActiveRun(r) /\ Finalize(r, o)
    BY <2>1, FinalizeFence DEF Outcomes
  <2>2. CASE UNCHANGED db
    BY <2>2, FenceKept DEF db
  <2>. QED
    BY <1>9, <2>1, <2>2 DEF PrepareFails
<1>. QED
  BY <1>1, <1>2, <1>3, <1>4, <1>5, <1>6, <1>7, <1>8, <1>9 DEF WatcherStep

LEMMA ExecutorFence ==
    ASSUME TypeOK, RunFence, ExecutorStep
    PROVE  RunFence'
<1>1. ASSUME NEW r \in RunIds, NEW o \in Outcomes, Submit(r, o)
      PROVE  RunFence'
  <2>1. CASE IsActiveRun(r) /\ Finalize(r, o)
    BY <2>1, FinalizeFence
  <2>2. CASE UNCHANGED db
    BY <2>2, FenceKept DEF db
  <2>. QED
    BY <1>1, <2>1, <2>2 DEF Submit
<1>2. ASSUME NEW r \in RunIds, ExecutorEnds(r)
      PROVE  RunFence'
  BY <1>2, FenceKept DEF ExecutorEnds, db
<1>3. ASSUME NEW r \in RunIds, RenewalFails(r)
      PROVE  RunFence'
  BY <1>3, RecoverFence DEF RenewalFails, RecoverExpiredRuns
<1>. QED
  BY <1>1, <1>2, <1>3 DEF ExecutorStep

LEMMA LifecycleFence ==
    ASSUME TypeOK, RunFence, LifecycleStep
    PROVE  RunFence'
<1>1. CASE Stop
  BY <1>1, FenceKept DEF Stop, db
<1>2. CASE StopCapture
  BY <1>2, FenceKept DEF StopCapture, db
<1>3. CASE StopFinish
  <2>1. InterruptedByStop \in SUBSET RunIds /\ \A r \in InterruptedByStop : Owns(r)
    BY DEF InterruptedByStop, CanInterrupt, TypeOK
  <2>. QED
    BY <1>3, <2>1, InterruptFence DEF StopFinish
<1>4. CASE StartWatcher
  BY <1>4, FenceKept DEF StartWatcher, db
<1>5. CASE Boot
  BY <1>5, RecoverFence DEF Boot
<1>. QED
  BY <1>1, <1>2, <1>3, <1>4, <1>5 DEF LifecycleStep

LEMMA FailureFence ==
    ASSUME TypeOK, RunFence, FailureStep
    PROVE  RunFence'
<1>1. CASE Crash
  BY <1>1, FenceKept DEF Crash, db
<1>2. ASSUME NEW r \in RunIds, CrashInIntegration(r)
      PROVE  RunFence'
  <2>1. \A q \in RunIds : /\ run'[q].status = run[q].status /\ run'[q].action = run[q].action
                          /\ run'[q].epoch = run[q].epoch /\ run'[q].gen = run[q].gen
    BY <1>2 DEF CrashInIntegration, TypeOK, RunRows
  <2>2. \A a \in Actions : /\ act'[a].status = act[a].status /\ act'[a].run = act[a].run
                           /\ act'[a].epoch = act[a].epoch /\ act'[a].gen = act[a].gen
    BY <1>2 DEF CrashInIntegration, TypeOK, ActionRows
  <2>. QED
    BY <2>1, <2>2 DEF RunFence
<1>3. ASSUME NEW r \in RunIds, LeaseExpires(r)
      PROVE  RunFence'
  <2>1. \A q \in RunIds : /\ run'[q].status = run[q].status /\ run'[q].action = run[q].action
                          /\ run'[q].epoch = run[q].epoch /\ run'[q].gen = run[q].gen
    BY <1>3 DEF LeaseExpires, TypeOK, RunRows
  <2>. QED
    BY <1>3, <2>1 DEF LeaseExpires, RunFence
<1>4. ASSUME NEW a \in Actions, ReservationExpires(a)
      PROVE  RunFence'
  <2>1. act[a].run \in RunIds \cup {NoRun}
    BY Rows DEF ActionRows
  <2>2. \A q \in RunIds : /\ run'[q].status = run[q].status /\ run'[q].action = run[q].action
                          /\ run'[q].epoch = run[q].epoch /\ run'[q].gen = run[q].gen
    BY <1>4, <2>1 DEF ReservationExpires, TypeOK, RunRows
  <2>3. \A b \in Actions : /\ act'[b].status = act[b].status /\ act'[b].run = act[b].run
                           /\ act'[b].epoch = act[b].epoch /\ act'[b].gen = act[b].gen
    BY <1>4 DEF ReservationExpires, TypeOK, ActionRows
  <2>. QED
    BY <2>2, <2>3 DEF RunFence
<1>. QED
  BY <1>1, <1>2, <1>3, <1>4 DEF FailureStep

LEMMA ResumeFence ==
    ASSUME TypeOK, RunFence, NEW w \in WorkItems, ResumeItem(w)
    PROVE  RunFence'
<1>. DEFINE taken(a) == \/ ItemOf[a] = w /\ act[a].status = "cancelled"
                        \/ ItemOf[a] = w /\ item[w].stopped /\ act[a].status \in Unfinished
<1>1. \A a \in Actions : taken(a) => act'[a].status = "superseded" /\ act'[a].run = NoRun
  BY ZenonT(60) DEF ResumeItem, TypeOK, ActionRows
<1>2. ASSUME NEW a \in Actions, ~taken(a)
      PROVE  act'[a] = act[a]
  <2>1. ~(ItemOf[a] = w /\ act[a].status = "cancelled")
        /\ ~(ItemOf[a] = w /\ item[w].stopped /\ act[a].status \in Unfinished)
    BY <1>2
  <2>. QED
    BY <2>1 DEF ResumeItem
<1>3. CASE item[w].stopped
  <2>1. \A a \in Actions :
          IF act[a].status = "running" /\ act[a].run \notin RunsInProgress(w)
          THEN /\ act'[a].status = "running" /\ act'[a].run = act[a].run
               /\ act'[a].epoch = act[a].epoch /\ act'[a].gen = act[a].gen
          ELSE act'[a].status # "running" /\ act'[a].run = NoRun
    BY <1>1, <1>2, <1>3, RunsInProgressFact DEF Unfinished
  <2>2. run' = InvalidatedRuns(w, "cancelled") /\ "cancelled" \in RunStatus \ {"running"}
    BY <1>3 DEF ResumeItem, RunStatus
  <2>. QED
    BY <2>1, <2>2, InvalidatedRunsFence, FencePreserved, SMTT(30)
<1>4. CASE ~item[w].stopped
  <2>1. UNCHANGED run
    BY <1>4 DEF ResumeItem
  <2>. QED
    BY <1>1, <1>2, <1>4, <2>1, IdleActionsFence
<1>. QED
  BY <1>3, <1>4

LEMMA GuideFence ==
    ASSUME TypeOK, RunFence, NEW a \in Actions, GuideAction(a)
    PROVE  RunFence'
<1>. DEFINE S == IF act[a].status = "running" THEN {act[a].run} ELSE {}
<1>1. act'[a].status # "running" /\ act'[a].run = NoRun
  BY DEF GuideAction, Restarted, TypeOK, ActionRows
<1>2. \A b \in Actions \ {a} : act'[b] = act[b]
  BY DEF GuideAction, TypeOK
<1>3. \A r \in RunIds :
        IF r \in S THEN run'[r].status # "running"
        ELSE /\ run'[r].status = run[r].status /\ run'[r].action = run[r].action
             /\ run'[r].epoch = run[r].epoch /\ run'[r].gen = run[r].gen
  <2>1. CASE act[a].status = "running"
    <3>1. act[a].run \in RunIds /\ run[act[a].run].status = "running" /\ act[a].run # NoRun
      BY <2>1 DEF RunFence, RunIds, NoRun
    <3>2. run' = [run EXCEPT ![act[a].run].status = "superseded"]
      BY <2>1, <3>1 DEF GuideAction, TypeOK
    <3>. QED
      BY <2>1, <3>1, <3>2 DEF TypeOK, RunRows
  <2>2. CASE act[a].status # "running"
    BY <2>2 DEF GuideAction
  <2>. QED
    BY <2>1, <2>2
<1>4. \A b \in Actions :
        IF act[b].status = "running" /\ act[b].run \notin S
        THEN /\ act'[b].status = "running" /\ act'[b].run = act[b].run
             /\ act'[b].epoch = act[b].epoch /\ act'[b].gen = act[b].gen
        ELSE act'[b].status # "running" /\ act'[b].run = NoRun
  BY <1>1, <1>2 DEF RunFence
<1>. HIDE DEF S
<1>. QED
  BY <1>3, <1>4, FencePreserved

LEMMA UserFence ==
    ASSUME TypeOK, RunFence, UserStep
    PROVE  RunFence'
<1>1. ASSUME NEW w \in WorkItems, StartItem(w) \/ ExtendAttempts(w) \/ StopExecution(w) \/ SettleExceeds(w)
      PROVE  RunFence'
  BY <1>1, FenceKept DEF StartItem, ExtendAttempts, StopExecution, SettleExceeds
<1>2. ASSUME NEW w \in WorkItems, UpdateItem(w)
      PROVE  RunFence'
  BY <1>2, InvalidateOnlyFence DEF UpdateItem
<1>3. ASSUME NEW w \in WorkItems, CancelItem(w)
      PROVE  RunFence'
  BY <1>3, InvalidateOnlyFence DEF CancelItem
<1>4. ASSUME NEW w \in WorkItems, ResumeItem(w)
      PROVE  RunFence'
  BY <1>4, ResumeFence
<1>5. ASSUME NEW a \in Actions, RetryAction(a)
      PROVE  RunFence'
  <2>1. act'[a].status # "running" /\ act'[a].run = NoRun
    BY <1>5 DEF RetryAction, Restarted, TypeOK, ActionRows
  <2>2. \A b \in Actions \ {a} : act'[b] = act[b]
    BY <1>5 DEF RetryAction, TypeOK
  <2>. QED
    BY <1>5, <2>1, <2>2, IdleActionsFence DEF RetryAction
<1>6. ASSUME NEW a \in Actions, GuideAction(a)
      PROVE  RunFence'
  BY <1>6, GuideFence
<1>. QED
  BY <1>1, <1>2, <1>3, <1>4, <1>5, <1>6 DEF UserStep

LEMMA CreateFence ==
    ASSUME TypeOK, RunFence, NEW w \in WorkItems, NEW auto \in BOOLEAN,
           NEW refine \in BOOLEAN, CreateActions(w, auto, refine)
    PROVE  RunFence'
<1>1. PICK N \in Creatable(w), C \in SUBSET Open(w), S \in SUBSET Open(w) :
        /\ ~refine => \A a \in ActionsOf(w) : act[a].status # "running"
        /\ LET kept == IF refine THEN InvalidatedActions(w, "superseded")
                       ELSE Closed(Closed(act, C, "closed"), S, "superseded")
               rev == IF refine THEN item[w].rev + 1 ELSE item[w].rev
           IN  act' = [a \in Actions |->
                         IF a \in N THEN [kept[a] EXCEPT !.status = "ready", !.rev = rev]
                         ELSE kept[a]]
  BY DEF CreateActions
<1>. DEFINE kept == IF refine THEN InvalidatedActions(w, "superseded")
                    ELSE Closed(Closed(act, C, "closed"), S, "superseded")
            rev == IF refine THEN item[w].rev + 1 ELSE item[w].rev
<1>2. act' = [a \in Actions |->
                IF a \in N THEN [kept[a] EXCEPT !.status = "ready", !.rev = rev]
                ELSE kept[a]]
  BY <1>1
<1>3. \A a \in N : a \in ActionsOf(w) /\ act[a].status = "absent"
  BY DEF Creatable
<1>4. act \in [Actions -> ActionRows] /\ "closed" \in ActionStatus /\ "superseded" \in ActionStatus
  BY DEF TypeOK, ActionStatus
<1>5. CASE refine
  <2>1. kept = InvalidatedActions(w, "superseded") /\ kept \in [Actions -> ActionRows]
    BY <1>4, <1>5, InvalidatedActionsType
  <2>2. \A a \in N : kept[a] = act[a]
    BY <1>3, <2>1 DEF InvalidatedActions, Unfinished, ActionsOf
  <2>. HIDE DEF kept, rev
  <2>3. \A a \in Actions \cap N : act'[a].status = "ready" /\ act'[a].run = act[a].run
    BY <1>2, <2>1, <2>2 DEF ActionRows
  <2>4. \A a \in Actions \ N : act'[a] = InvalidatedActions(w, "superseded")[a]
    BY <1>2, <2>1
  <2>5. run' = InvalidatedRuns(w, "superseded")
    BY <1>5 DEF CreateActions
  <2>. QED
    BY <1>3, <2>3, <2>4, <2>5, InvalidateFence
<1>6. CASE ~refine
  <2>1. \A a \in C \cup S : a \in ActionsOf(w) /\ act[a].status # "running"
    BY <1>1, <1>6 DEF Open
  <2>2. kept = Closed(Closed(act, C, "closed"), S, "superseded")
        /\ kept \in [Actions -> ActionRows]
    BY <1>4, <1>6, ClosedType
  <2>3. \A a \in Actions : \/ kept[a] = act[a]
                          \/ /\ a \in C \cup S
                             /\ kept[a].status # "running" /\ kept[a].run = NoRun
    <3>. DEFINE half == Closed(act, C, "closed")
    <3>1. half \in [Actions -> ActionRows]
      BY <1>4, ClosedType
    <3>2. \A a \in Actions : IF a \in C THEN half[a].status = "closed" /\ half[a].run = NoRun
                            ELSE half[a] = act[a]
      BY <1>4 DEF Closed, ActionRows
    <3>. HIDE DEF half
    <3>3. \A a \in Actions : IF a \in S THEN kept[a].status = "superseded" /\ kept[a].run = NoRun
                            ELSE kept[a] = half[a]
      BY <2>2, <3>1, ZenonT(60) DEF Closed, ActionRows, half
    <3>. HIDE DEF kept
    <3>. QED
      BY <3>2, <3>3
  <2>. HIDE DEF kept, rev
  <2>4. \A a \in Actions \cap N : act'[a].status = "ready" /\ act'[a].run = kept[a].run
    BY <1>2, <2>2 DEF ActionRows
  <2>5. \A a \in Actions \ N : act'[a] = kept[a]
    BY <1>2
  <2>6. \A a \in Actions : \/ act'[a] = act[a]
                          \/ /\ act[a].status # "running" /\ act'[a].status # "running"
                             /\ act'[a].run \in {act[a].run, NoRun}
    BY <1>3, <2>1, <2>3, <2>4, <2>5
  <2>7. UNCHANGED run
    BY <1>6 DEF CreateActions
  <2>. QED
    BY <2>6, <2>7, IdleActionsFence
<1>. QED
  BY <1>5, <1>6

LEMMA CoordinatorFence ==
    ASSUME TypeOK, RunFence, CoordinatorStep
    PROVE  RunFence'
<1>1. ASSUME NEW w \in WorkItems, NEW auto \in BOOLEAN, NEW refine \in BOOLEAN,
             CreateActions(w, auto, refine)
      PROVE  RunFence'
  BY <1>1, CreateFence
<1>2. ASSUME NEW w \in WorkItems, NEW auto \in BOOLEAN, NEW refine \in BOOLEAN,
             RequestHuman(w, auto, refine)
      PROVE  RunFence'
  <2>1. CASE refine
    BY <1>2, <2>1, InvalidateOnlyFence DEF RequestHuman
  <2>2. CASE ~refine
    BY <1>2, <2>2, FenceKept DEF RequestHuman
  <2>. QED
    BY <2>1, <2>2
<1>3. ASSUME NEW w \in WorkItems, NEW auto \in BOOLEAN, GuideActions(w, auto)
      PROVE  RunFence'
  <2>1. PICK G \in SUBSET {a \in Open(w) : act[a].status # "running"} :
          act' = [a \in Actions |->
            IF a \in G THEN [Restarted(act[a]) EXCEPT !.rev = item[w].rev] ELSE act[a]]
    BY <1>3 DEF GuideActions
  <2>2. \A a \in Actions \cap G :
          /\ act[a].status # "running" /\ act'[a].status # "running" /\ act'[a].run = NoRun
    BY <2>1 DEF Restarted, TypeOK, ActionRows
  <2>3. \A a \in Actions \ G : act'[a] = act[a]
    BY <2>1
  <2>. QED
    BY <1>3, <2>2, <2>3, IdleActionsFence DEF GuideActions
<1>4. ASSUME NEW w \in WorkItems, NEW auto \in BOOLEAN, Complete(w, auto)
      PROVE  RunFence'
  <2>1. \A a \in Actions :
          \/ act'[a] = act[a]
          \/ act[a].status # "running" /\ act'[a].status # "running" /\ act'[a].run = NoRun
    BY <1>4 DEF Complete, Closed, TypeOK, ActionRows
  <2>. QED
    BY <1>4, <2>1, IdleActionsFence DEF Complete
<1>5. ASSUME NEW w \in WorkItems, Answer(w)
      PROVE  RunFence'
  BY <1>5, FenceKept DEF Answer
<1>. QED
  BY <1>1, <1>2, <1>3, <1>4, <1>5 DEF CoordinatorStep

LEMMA InitFence == Init => RunFence
BY DEF Init, RunFence

LEMMA StepFence ==
    ASSUME TypeOK, RunFence, [Next]_vars
    PROVE  RunFence'
<1>1. CASE UNCHANGED vars
  BY <1>1, FenceKept DEF vars
<1>. QED
  BY <1>1, WatcherFence, ExecutorFence, LifecycleFence, UserFence, CoordinatorFence, FailureFence
  DEF Next

\* A Run is running exactly while its Action is running under it, through every
\* interleaving of claims, submits, recoveries, stops, commands and crashes.
\* RunFence is inductive relative to TypeOK.
THEOREM FenceHolds == Spec => []RunFence
<1>1. TypeOK /\ RunFence /\ [Next]_vars => TypeOK' /\ RunFence'
  BY StepType, StepFence
<1>. QED
  BY <1>1, InitType, InitFence, PTL DEF Spec

-----------------------------------------------------------------------------
(* Workspace exclusion.  Only a claim makes an Action run and only a fallback *)
(* changes the mode of a running one; both look at the running Actions first. *)

NoNewRunning ==
    \A a \in Actions : act'[a].status = "running" =>
        act[a].status = "running" /\ act'[a].mode = act[a].mode

LEMMA ExclusionKept ==
    ASSUME WorkspaceExclusion, NoNewRunning
    PROVE  WorkspaceExclusion'
BY DEF WorkspaceExclusion, NoNewRunning, Conflict, InWorkspace

LEMMA SameActions ==
    ASSUME UNCHANGED act
    PROVE  NoNewRunning
BY DEF NoNewRunning

LEMMA FinalizeStartsNone ==
    ASSUME TypeOK, NEW r \in RunIds, NEW outcome \in Outcomes, IsActiveRun(r), Finalize(r, outcome)
    PROVE  NoNewRunning
<1>. DEFINE a == run[r].action
            status == CASE outcome \in {"completed", "waiting"} -> outcome
                        [] outcome = "retryable" /\ act[a].attempt < MaxAttempts -> "ready"
                        [] OTHER -> "failed"
<1>1. a \in Actions
  BY OwnedAction DEF IsActiveRun
<1>2. status # "running"
  BY DEF Outcomes
<1>3. act' = [act EXCEPT ![a].status = status, ![a].run = NoRun,
                         ![a].result = ResultAfter(@, outcome, r)]
  BY DEF Finalize
<1>. HIDE DEF status
<1>. QED
  BY <1>1, <1>2, <1>3 DEF NoNewRunning, TypeOK, ActionRows

LEMMA InterruptStartsNone ==
    ASSUME TypeOK, NEW S, Interrupt(S)
    PROVE  NoNewRunning
BY ZenonT(60) DEF Interrupt, NoNewRunning, TypeOK, ActionRows

LEMMA RecoverStartsNone ==
    ASSUME TypeOK, NEW b, Recover(b)
    PROVE  NoNewRunning
<1>1. PICK P : act' = RecoveredActions(P)
  BY DEF Recover, RecoverInOrder
<1>2. \A a \in Actions :
        [act[a] EXCEPT !.status = IF Retryable(a) THEN "ready" ELSE "failed",
                       !.run = NoRun].status \in {"ready", "failed"}
  BY DEF TypeOK, ActionRows
<1>3. \A a \in Actions : act'[a] = act[a] \/ act'[a].status \in {"ready", "failed"}
  BY <1>1, <1>2 DEF RecoveredActions
<1>. QED
  BY <1>3 DEF NoNewRunning

LEMMA InvalidateStartsNone ==
    ASSUME TypeOK, NEW w, NEW s \in {"superseded", "cancelled"}, act' = InvalidatedActions(w, s)
    PROVE  NoNewRunning
BY ZenonT(60) DEF InvalidatedActions, NoNewRunning, TypeOK, ActionRows

LEMMA CreateStartsNone ==
    ASSUME TypeOK, NEW w \in WorkItems, NEW auto \in BOOLEAN, NEW refine \in BOOLEAN,
           CreateActions(w, auto, refine)
    PROVE  NoNewRunning
<1>1. PICK N \in Creatable(w), C \in SUBSET Open(w), S \in SUBSET Open(w) :
        LET kept == IF refine THEN InvalidatedActions(w, "superseded")
                    ELSE Closed(Closed(act, C, "closed"), S, "superseded")
            rev == IF refine THEN item[w].rev + 1 ELSE item[w].rev
        IN  act' = [a \in Actions |->
                      IF a \in N THEN [kept[a] EXCEPT !.status = "ready", !.rev = rev]
                      ELSE kept[a]]
  BY DEF CreateActions
<1>. DEFINE half == Closed(act, C, "closed")
            kept == IF refine THEN InvalidatedActions(w, "superseded")
                    ELSE Closed(half, S, "superseded")
            rev == IF refine THEN item[w].rev + 1 ELSE item[w].rev
<1>2. act' = [a \in Actions |->
                IF a \in N THEN [kept[a] EXCEPT !.status = "ready", !.rev = rev]
                ELSE kept[a]]
  BY <1>1
<1>3. act \in [Actions -> ActionRows] /\ "closed" \in ActionStatus /\ "superseded" \in ActionStatus
  BY DEF TypeOK, ActionStatus
<1>4. half \in [Actions -> ActionRows]
  BY <1>3, ClosedType
<1>5. \A a \in Actions : half[a].status = "closed" \/ half[a] = act[a]
  BY <1>3 DEF Closed, ActionRows
<1>. HIDE DEF half
<1>6. kept \in [Actions -> ActionRows]
  BY <1>3, <1>4, ClosedType, InvalidatedActionsType
<1>7. \A a \in Actions : kept[a].status = "superseded" \/ kept[a] \in {act[a], half[a]}
  BY <1>3, <1>4 DEF Closed, InvalidatedActions, ActionRows
<1>. HIDE DEF kept, rev
<1>8. \A a \in Actions : act'[a].status = "ready" \/ act'[a] = kept[a]
  BY <1>2, <1>6 DEF ActionRows
<1>. QED
  BY <1>5, <1>7, <1>8 DEF NoNewRunning

LEMMA ClaimExclusion ==
    ASSUME TypeOK, WorkspaceExclusion, NEW a \in Actions, Claim(a)
    PROVE  WorkspaceExclusion'
<1>1. \A b \in Actions : ~Conflict(a, b)
  BY DEF Claim, Candidate
<1>2. /\ act'[a].mode = act[a].mode
      /\ \A b \in Actions \ {a} : act'[b] = act[b]
  BY DEF Claim, TypeOK, ActionRows
<1>. QED
  BY <1>1, <1>2 DEF WorkspaceExclusion, Conflict, InWorkspace

\* An isolated Action falls back only when nothing else runs in the workspace;
\* an integrating one was alone in it already.
LEMMA PrepareExclusion ==
    ASSUME TypeOK, RunFence, WorkspaceExclusion, NEW r \in RunIds, Prepare(r)
    PROVE  WorkspaceExclusion'
<1>. DEFINE a == run[r].action
<1>1. CASE UNCHANGED db
  BY <1>1, SameActions, ExclusionKept DEF db
<1>2. CASE /\ IsActiveRun(r) /\ FallBack(r)
           /\ act[a].mode = "integrate" \/ ~Busy(r)
  <2>1. a \in Actions /\ act[a].status = "running"
    BY <1>2, OwnedAction DEF IsActiveRun
  <2>2. \A b \in Actions \ {a} : act[b].status = "running" => ~InWorkspace(a, b)
    <3>1. CASE act[a].mode = "integrate"
      BY <2>1, <3>1 DEF WorkspaceExclusion, Conflict
    <3>2. CASE ~Busy(r)
      BY <3>2 DEF Busy
    <3>. QED
      BY <1>2, <3>1, <3>2
  <2>3. \A b \in Actions \ {a} :
          /\ act'[b].status = act[b].status
          /\ act[b].status = "running" => act'[b].mode = act[b].mode
    <3>1. \A b \in Actions :
            [act[b] EXCEPT !.mode = "shared", !.gen = @ + 1, !.result = NoRun, !.resv = FALSE].status
              = act[b].status
      BY DEF TypeOK, ActionRows
    <3>. QED
      BY <1>2, <3>1 DEF FallBack
  <2>. QED
    BY <2>1, <2>2, <2>3 DEF WorkspaceExclusion, Conflict, InWorkspace
<1>. QED
  BY <1>1, <1>2 DEF Prepare

LEMMA WatcherExclusion ==
    ASSUME TypeOK, RunFence, WorkspaceExclusion, WatcherStep
    PROVE  WorkspaceExclusion'
<1>1. CASE TickStart
  BY <1>1, RecoverStartsNone, ExclusionKept DEF TickStart, RecoverExpiredRuns
<1>2. CASE TickEnd
  BY <1>2, SameActions, ExclusionKept DEF TickEnd, db
<1>3. ASSUME NEW a \in Actions, Claim(a)
      PROVE  WorkspaceExclusion'
  BY <1>3, ClaimExclusion
<1>4. ASSUME NEW a \in Actions, ClaimStops(a)
      PROVE  WorkspaceExclusion'
  BY <1>4, SameActions, ExclusionKept DEF ClaimStops
<1>5. ASSUME NEW r \in RunIds, Prepare(r)
      PROVE  WorkspaceExclusion'
  BY <1>5, PrepareExclusion
<1>6. ASSUME NEW r \in RunIds, StartClaim(r)
      PROVE  WorkspaceExclusion'
  BY <1>6, SameActions, ExclusionKept DEF StartClaim, db
<1>7. ASSUME NEW r \in RunIds, PrepareDeferred(r)
      PROVE  WorkspaceExclusion'
  <2>1. \A b \in Actions \ {run[r].action} : act'[b] = act[b]
    BY <1>7 DEF PrepareDeferred, TypeOK
  <2>2. run[r].action \in Actions => act'[run[r].action].status = "ready"
    <3>1. run[r].action \in Actions => act[run[r].action] \in ActionRows
      BY DEF TypeOK
    <3>. QED
      BY <1>7, <3>1 DEF PrepareDeferred, TypeOK, ActionRows
  <2>3. NoNewRunning
    BY <2>1, <2>2 DEF NoNewRunning
  <2>. QED
    BY <2>3, ExclusionKept
<1>8. ASSUME NEW r \in RunIds, PrepareStopped(r)
      PROVE  WorkspaceExclusion'
  BY <1>8, InterruptStartsNone, SameActions, ExclusionKept DEF PrepareStopped, db
<1>9. ASSUME NEW r \in RunIds, NEW o \in {"failed", "retryable"}, PrepareFails(r, o)
      PROVE  WorkspaceExclusion'
  BY <1>9, FinalizeStartsNone, SameActions, ExclusionKept DEF PrepareFails, db, Outcomes
<1>. QED
  BY <1>1, <1>2, <1>3, <1>4, <1>5, <1>6, <1>7, <1>8, <1>9 DEF WatcherStep

LEMMA OtherExclusion ==
    ASSUME TypeOK, WorkspaceExclusion, ExecutorStep \/ LifecycleStep \/ FailureStep
    PROVE  WorkspaceExclusion'
<1>1. CASE ExecutorStep
  BY <1>1, FinalizeStartsNone, RecoverStartsNone, SameActions, ExclusionKept
  DEF ExecutorStep, Submit, ExecutorEnds, RenewalFails, RecoverExpiredRuns, db
<1>2. CASE LifecycleStep
  BY <1>2, InterruptStartsNone, RecoverStartsNone, SameActions, ExclusionKept
  DEF LifecycleStep, Stop, StopCapture, StopFinish, StartWatcher, Boot, db
<1>3. CASE FailureStep
  <2>1. CASE Crash \/ \E r \in RunIds : LeaseExpires(r)
    BY <2>1, SameActions, ExclusionKept DEF Crash, LeaseExpires, db
  <2>2. CASE \E r \in RunIds : CrashInIntegration(r)
    <3>1. NoNewRunning
      BY <2>2 DEF CrashInIntegration, NoNewRunning, TypeOK, ActionRows
    <3>. QED
      BY <3>1, ExclusionKept
  <2>3. CASE \E a \in Actions : ReservationExpires(a)
    <3>1. NoNewRunning
      BY <2>3 DEF ReservationExpires, NoNewRunning, TypeOK, ActionRows
    <3>. QED
      BY <3>1, ExclusionKept
  <2>. QED
    BY <1>3, <2>1, <2>2, <2>3 DEF FailureStep
<1>. QED
  BY <1>1, <1>2, <1>3

LEMMA UserExclusion ==
    ASSUME TypeOK, WorkspaceExclusion, UserStep
    PROVE  WorkspaceExclusion'
<1>1. ASSUME NEW w \in WorkItems, StartItem(w) \/ ExtendAttempts(w) \/ StopExecution(w) \/ SettleExceeds(w)
      PROVE  WorkspaceExclusion'
  BY <1>1, SameActions, ExclusionKept DEF StartItem, ExtendAttempts, StopExecution, SettleExceeds
<1>2. ASSUME NEW w \in WorkItems, UpdateItem(w) \/ CancelItem(w)
      PROVE  WorkspaceExclusion'
  BY <1>2, InvalidateStartsNone, ExclusionKept DEF UpdateItem, CancelItem
<1>3. ASSUME NEW w \in WorkItems, ResumeItem(w)
      PROVE  WorkspaceExclusion'
  <2>1. NoNewRunning
    <3>1. \A a \in Actions : \A n :
            [act[a] EXCEPT !.status = "superseded", !.epoch = n, !.run = NoRun].status = "superseded"
      BY DEF TypeOK, ActionRows
    <3>2. \A a \in Actions : act'[a] = act[a] \/ act'[a].status = "superseded"
      BY <1>3, <3>1 DEF ResumeItem
    <3>. QED
      BY <3>2 DEF NoNewRunning
  <2>. QED
    BY <2>1, ExclusionKept
<1>4. ASSUME NEW a \in Actions, RetryAction(a)
      PROVE  WorkspaceExclusion'
  <2>1. act'[a].status = "ready" /\ \A b \in Actions \ {a} : act'[b] = act[b]
    BY <1>4 DEF RetryAction, Restarted, TypeOK, ActionRows
  <2>. QED
    BY <2>1, ExclusionKept DEF NoNewRunning
<1>5. ASSUME NEW a \in Actions, GuideAction(a)
      PROVE  WorkspaceExclusion'
  <2>1. act'[a].status = "ready" /\ \A b \in Actions \ {a} : act'[b] = act[b]
    BY <1>5 DEF GuideAction, Restarted, TypeOK, ActionRows
  <2>. QED
    BY <2>1, ExclusionKept DEF NoNewRunning
<1>. QED
  BY <1>1, <1>2, <1>3, <1>4, <1>5 DEF UserStep

LEMMA CoordinatorExclusion ==
    ASSUME TypeOK, WorkspaceExclusion, CoordinatorStep
    PROVE  WorkspaceExclusion'
<1>1. ASSUME NEW w \in WorkItems, NEW auto \in BOOLEAN, NEW refine \in BOOLEAN,
             CreateActions(w, auto, refine)
      PROVE  WorkspaceExclusion'
  BY <1>1, CreateStartsNone, ExclusionKept
<1>2. ASSUME NEW w \in WorkItems, NEW auto \in BOOLEAN, NEW refine \in BOOLEAN,
             RequestHuman(w, auto, refine)
      PROVE  WorkspaceExclusion'
  BY <1>2, InvalidateStartsNone, SameActions, ExclusionKept DEF RequestHuman
<1>3. ASSUME NEW w \in WorkItems, NEW auto \in BOOLEAN, GuideActions(w, auto)
      PROVE  WorkspaceExclusion'
  <2>1. NoNewRunning
    <3>1. \A a \in Actions : \A n : [Restarted(act[a]) EXCEPT !.rev = n].status = "ready"
      BY DEF Restarted, TypeOK, ActionRows
    <3>2. \A a \in Actions : act'[a] = act[a] \/ act'[a].status = "ready"
      BY <1>3, <3>1 DEF GuideActions
    <3>. QED
      BY <3>2 DEF NoNewRunning
  <2>. QED
    BY <2>1, ExclusionKept
<1>4. ASSUME NEW w \in WorkItems, NEW auto \in BOOLEAN, Complete(w, auto)
      PROVE  WorkspaceExclusion'
  <2>1. NoNewRunning
    BY <1>4, ZenonT(60) DEF Complete, Closed, NoNewRunning, TypeOK, ActionRows
  <2>. QED
    BY <2>1, ExclusionKept
<1>5. ASSUME NEW w \in WorkItems, Answer(w)
      PROVE  WorkspaceExclusion'
  BY <1>5, SameActions, ExclusionKept DEF Answer
<1>. QED
  BY <1>1, <1>2, <1>3, <1>4, <1>5 DEF CoordinatorStep

LEMMA StepExclusion ==
    ASSUME TypeOK, RunFence, WorkspaceExclusion, [Next]_vars
    PROVE  WorkspaceExclusion'
<1>1. CASE UNCHANGED vars
  BY <1>1, SameActions, ExclusionKept DEF vars
<1>. QED
  BY <1>1, WatcherExclusion, OtherExclusion, UserExclusion, CoordinatorExclusion DEF Next

\* No two running Actions ever clash over a workspace, however many WorkItems
\* share it and whatever falls back to it.
THEOREM WorkspaceIsExclusive == Spec => []WorkspaceExclusion
<1>1. Init => WorkspaceExclusion
  BY DEF Init, WorkspaceExclusion
<1>2. TypeOK /\ RunFence /\ WorkspaceExclusion /\ [Next]_vars
        => TypeOK' /\ RunFence' /\ WorkspaceExclusion'
  BY StepType, StepFence, StepExclusion
<1>. QED
  BY <1>1, <1>2, InitType, InitFence, PTL DEF Spec

=============================================================================
