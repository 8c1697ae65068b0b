------------------------ MODULE RunOperationsProofs ------------------------
(***************************************************************************)
(* Proofs about RunOperations, for any set of Actions and any bounds: the  *)
(* type invariant, that no tool acts beside the successor of its Run, that *)
(* a finished WorkItem has every effect on record, and that no Run starts  *)
(* while an effect is not.                                                 *)
(***************************************************************************)
EXTENDS RunOperations, TLAPS

ActRows == [status : {"ready", "running", "blocked", "completed", "closed"},
            run : RunIds \cup {NoRun}, attempt : Nat]
RunRows == [status : {"unused", "running", "over"}, action : Actions \cup {NoAction},
            lease : {"fresh", "lapsed", "foreign"}]
OpRows == [type : {"none", "edit", "Bash"}, effect : Settled \cup {"pending", "unknown"},
           exec : {"not_started", "running", "quiescent", "hazardous_orphan"}]

-----------------------------------------------------------------------------
(* The inductive invariant *)

\* A tool call in progress has a row that says so, and none outlives its process.
FlyingIsPending ==
    /\ \A o \in flying : /\ op[o].type # "none"
                         /\ op[o].effect = "pending"
    /\ ~up => flying = {}

\* A row never denies an effect that there was.
EffectIsRecorded == \A o \in touched : op[o].effect \in Settled => op[o].effect = "applied"

\* Runs are used in the order of their numbers; only a used one has an Action,
\* an executor and Operations.
RunsInOrder ==
    /\ \A q, r \in RunIds : q < r /\ run[r].status # "unused" => run[q].status # "unused"
    /\ \A r \in RunIds : IF run[r].status = "unused"
                         THEN run[r].action = NoAction /\ exec[r] = "none"
                         ELSE run[r].action \in Actions
    /\ \A o \in Ops : op[o].type # "none" => run[o[1]].status # "unused"

\* The Run that an Action names is the latest of its Runs.
HolderIsLatest ==
    \A a \in Actions : act[a].run # NoRun =>
        /\ run[act[a].run].action = a
        /\ \A q \in RunIds : act[a].run < q => run[q].action # a

IInv ==
    /\ TypeOK
    /\ FlyingIsPending /\ EffectIsRecorded
    /\ RunsInOrder /\ HolderIsLatest
    /\ NoToolBesideSuccessor /\ DoneIsSettled

-----------------------------------------------------------------------------
(* Types *)

LEMMA RowTypes ==
    ASSUME TypeOK
    PROVE  /\ act \in [Actions -> ActRows] /\ run \in [RunIds -> RunRows]
           /\ op \in [Ops -> OpRows]
BY DEF TypeOK, ActRows, RunRows, OpRows

\* TypeOK over the named row types.
LEMMA TypeFromRows ==
    ASSUME TypeOK,
           item' \in {"open", "done", "cancelled"},
           act' \in [Actions -> ActRows], run' \in [RunIds -> RunRows], op' \in [Ops -> OpRows],
           up' \in BOOLEAN, watching' \in BOOLEAN, watching' => up',
           exec' \in [RunIds -> {"none", "thinks", "waits"}],
           flying' \subseteq Ops, touched' \subseteq Ops,
           used' \in [{"command", "fault"} -> Nat]
    PROVE  TypeOK'
BY DEF TypeOK, ActRows, RunRows, OpRows

LEMMA MayType ==
    ASSUME TypeOK, NEW c \in {"command", "fault"}, May(c)
    PROVE  used' \in [{"command", "fault"} -> Nat]
<1>1. used[c] + 1 \in Nat
  BY DEF TypeOK
<1>. QED
  BY <1>1 DEF May, TypeOK

LEMMA OverType ==
    ASSUME TypeOK, NEW S
    PROVE  Over(S) \in [RunIds -> RunRows]
<1>1. \A r \in RunIds : [run[r] EXCEPT !.status = "over", !.lease = "foreign"] \in RunRows
  BY RowTypes DEF RunRows
<1>. QED
  BY <1>1, RowTypes DEF Over

LEMMA AgainOrType ==
    ASSUME NEW a
    PROVE  AgainOr(a, "blocked") \in {"ready", "blocked"}
BY DEF AgainOr

LEMMA EndRunType ==
    ASSUME TypeOK, NEW r \in RunIds, NEW s \in {"ready", "blocked", "completed"}, EndRun(r, s)
    PROVE  act' \in [Actions -> ActRows] /\ run' \in [RunIds -> RunRows]
<1>1. \A a \in Actions : [act[a] EXCEPT !.status = s, !.run = NoRun] \in ActRows
  BY RowTypes DEF ActRows
<1>. QED
  BY <1>1, RowTypes, OverType DEF EndRun

LEMMA CompletedType ==
    ASSUME TypeOK, NEW o \in Ops,
           NEW e \in {"applied", "unknown", "failed_no_effect"}
    PROVE  Completed(o, e) \in OpRows
BY RowTypes DEF Completed, OpRows, Settled

LEMMA RecoveredType ==
    ASSUME TypeOK, NEW o \in Ops
    PROVE  Recovered(o) \in OpRows
BY RowTypes DEF Recovered, OpRows

LEMMA TypeStep ==
    ASSUME TypeOK, [Next]_vars
    PROVE  TypeOK'
<1>. USE RowTypes, TypeFromRows
<1>1. ASSUME NEW a \in Actions, Claim(a)
      PROVE  TypeOK'
  <2>1. act[a].attempt + 1 \in Nat
    BY DEF ActRows
  <2>2. \A r \in RunIds : [status |-> "running", action |-> a, lease |-> "fresh"] \in RunRows
    BY DEF RunRows
  <2>3. \A r \in RunIds : [status |-> "running", run |-> r, attempt |-> act[a].attempt + 1] \in ActRows
    BY <2>1 DEF ActRows
  <2>. QED
    BY <1>1, <2>2, <2>3 DEF Claim, TypeOK
<1>2. ASSUME NEW a \in Actions, StartAgain(a)
      PROVE  TypeOK'
  <2>1. [status |-> "ready", run |-> NoRun, attempt |-> 0] \in ActRows
    BY DEF ActRows
  <2>. QED
    BY <1>2, <2>1, OverType, MayType DEF StartAgain, TypeOK
<1>3. ASSUME NEW r \in RunIds, Submit(r)
      PROVE  TypeOK'
  BY <1>3, EndRunType, AgainOrType DEF Submit, TypeOK
<1>4. ASSUME NEW r \in RunIds, Abandon(r)
      PROVE  TypeOK'
  BY <1>4 DEF Abandon, TypeOK
<1>5. ASSUME NEW r \in RunIds, Interrupt(r)
      PROVE  TypeOK'
  BY <1>5, EndRunType, AgainOrType DEF Interrupt, TypeOK
<1>6. ASSUME NEW r \in RunIds, LeaseLapses(r)
      PROVE  TypeOK'
  <2>1. [run[r] EXCEPT !.lease = "lapsed"] \in RunRows
    BY DEF RunRows
  <2>2. used' \in [{"command", "fault"} -> Nat]
    BY <1>6, MayType DEF LeaseLapses, TypeOK
  <2>. QED
    BY <1>6, <2>1, <2>2 DEF LeaseLapses, TypeOK
<1>7. ASSUME NEW r \in RunIds, ToolTimesOut(r)
      PROVE  TypeOK'
  BY <1>7, EndRunType, AgainOrType DEF ToolTimesOut, TypeOK
<1>8. ASSUME NEW r \in RunIds, NEW type \in {"edit", "Bash"}, StartTool(r, type)
      PROVE  TypeOK'
  <2>1. [type |-> type, effect |-> "pending", exec |-> "running"] \in OpRows
    BY DEF OpRows
  <2>2. PICK n \in 1..MaxTools :
           /\ op' = [op EXCEPT ![<<r, n>>] = [type |-> type, effect |-> "pending", exec |-> "running"]]
           /\ flying' = flying \cup {<<r, n>>}
           /\ touched' \in {touched, touched \cup {<<r, n>>}}
    BY <1>8 DEF StartTool
  <2>3. <<r, n>> \in Ops
    BY DEF Ops
  <2>4. op' \in [Ops -> OpRows]
    BY <2>1, <2>2
  <2>5. flying' \subseteq Ops /\ touched' \subseteq Ops
    BY <2>2, <2>3 DEF TypeOK
  <2>. QED
    BY <1>8, <2>4, <2>5 DEF StartTool, TypeOK
<1>9. ASSUME NEW o \in Ops, ToolReturns(o)
      PROVE  TypeOK'
  <2>1. PICK e \in Reported(o) : op' = [op EXCEPT ![o] = Completed(o, e)]
    BY <1>9 DEF ToolReturns
  <2>2. e \in {"applied", "unknown", "failed_no_effect"}
    BY DEF Reported
  <2>3. op' \in [Ops -> OpRows]
    BY <2>1, <2>2, CompletedType
  <2>4. exec' \in [RunIds -> {"none", "thinks", "waits"}]
    BY <1>9 DEF ToolReturns, TypeOK
  <2>. QED
    BY <1>9, <2>3, <2>4 DEF ToolReturns, TypeOK
<1>10. CASE StopWatcher
  BY <1>10, MayType DEF StopWatcher, TypeOK
<1>11. CASE StartWatcher
  BY <1>11 DEF StartWatcher, TypeOK
<1>12. CASE RecoverRuns
  <2>1. \A a \in Actions : [act[a] EXCEPT !.status = AgainOr(a, "blocked"), !.run = NoRun] \in ActRows
    BY AgainOrType DEF ActRows
  <2>2. act' \in [Actions -> ActRows]
    BY <1>12, <2>1 DEF RecoverRuns
  <2>3. run' \in [RunIds -> RunRows]
    BY <1>12, OverType DEF RecoverRuns
  <2>. QED
    BY <1>12, <2>2, <2>3 DEF RecoverRuns, TypeOK
<1>13. CASE CancelItem
  <2>1. \A a \in Actions : [act[a] EXCEPT !.status = "closed", !.run = NoRun] \in ActRows
    BY DEF ActRows
  <2>2. act' \in [Actions -> ActRows]
    BY <1>13, <2>1 DEF CancelItem
  <2>3. run' \in [RunIds -> RunRows]
    BY <1>13, OverType DEF CancelItem
  <2>. QED
    BY <1>13, <2>2, <2>3, MayType DEF CancelItem, TypeOK
<1>14. CASE Complete
  <2>1. \A a \in Actions : [act[a] EXCEPT !.status = "closed"] \in ActRows
    BY DEF ActRows
  <2>2. act' \in [Actions -> ActRows]
    BY <1>14, <2>1 DEF Complete
  <2>. QED
    BY <1>14, <2>2 DEF Complete, TypeOK
<1>15. CASE Crash
  <2>1. \A r \in RunIds : [run[r] EXCEPT !.lease = "foreign"] \in RunRows
    BY DEF RunRows
  <2>. QED
    BY <1>15, <2>1, MayType DEF Crash, TypeOK
<1>16. CASE Boot
  BY <1>16, RecoveredType DEF Boot, TypeOK
<1>17. CASE UNCHANGED vars
  BY <1>17 DEF vars, TypeOK
<1>. QED
  BY <1>1, <1>2, <1>3, <1>4, <1>5, <1>6, <1>7, <1>8, <1>9, <1>10, <1>11, <1>12, <1>13, <1>14,
     <1>15, <1>16, <1>17 DEF Next

-----------------------------------------------------------------------------
(* What every step but a claim and the start of a tool leaves alone *)

RunsKept ==
    /\ \A r \in RunIds : /\ run'[r].action = run[r].action
                         /\ run'[r].status = "unused" <=> run[r].status = "unused"
                         /\ exec[r] = "none" => exec'[r] = "none"
    /\ \A a \in Actions : act'[a].run \in {act[a].run, NoRun}
ToolsKept ==
    /\ \A o \in Ops : op'[o].type = op[o].type
    /\ flying' \subseteq flying

LEMMA HolderUsed ==
    ASSUME TypeOK, RunsInOrder, HolderIsLatest, NEW a \in Actions, act[a].run # NoRun
    PROVE  act[a].run \in RunIds /\ run[act[a].run].status # "unused"
<1>1. act[a].run \in RunIds
  BY RowTypes DEF ActRows
<1>. QED
  BY <1>1, OperationsAssumption DEF OperationsAssumption, RunsInOrder, HolderIsLatest

\* Ending Runs in use keeps which Run belongs to which Action.
LEMMA OverKept ==
    ASSUME TypeOK, NEW S, \A r \in RunIds \cap S : run[r].status # "unused",
           NEW r \in RunIds
    PROVE  /\ Over(S)[r].action = run[r].action
           /\ Over(S)[r].status = "unused" <=> run[r].status = "unused"
BY RowTypes DEF Over, RunRows

LEMMA EndRunKept ==
    ASSUME TypeOK, NEW r \in RunIds, run[r].status # "unused",
           NEW s \in {"ready", "blocked", "completed"}, EndRun(r, s), exec' \in [RunIds -> {"none", "thinks", "waits"}],
           \A q \in RunIds : exec[q] = "none" => exec'[q] = "none"
    PROVE  RunsKept
<1>1. \A q \in RunIds : /\ run'[q].action = run[q].action
                        /\ run'[q].status = "unused" <=> run[q].status = "unused"
  BY OverKept DEF EndRun
<1>2. \A a \in Actions : act'[a].run \in {act[a].run, NoRun}
  BY RowTypes DEF EndRun, ActRows
<1>. QED
  BY <1>1, <1>2 DEF RunsKept

LEMMA StepKept ==
    ASSUME TypeOK, RunsInOrder, HolderIsLatest, [Next]_vars,
           \A a \in Actions : ~Claim(a),
           \A r \in RunIds, type \in {"edit", "Bash"} : ~StartTool(r, type)
    PROVE  RunsKept /\ ToolsKept
<1>. USE RowTypes
<1>2. ASSUME NEW a \in Actions, StartAgain(a)
      PROVE  RunsKept /\ ToolsKept
  <2>. DEFINE S == {r \in RunIds : HeldBy(a, {r})}
  <2>1. \A r \in RunIds \cap S : run[r].status # "unused"
    BY HolderUsed DEF HeldBy, NoRun, RunIds
  <2>2. run' = Over(S)
    BY <1>2 DEF StartAgain
  <2>. HIDE DEF S
  <2>3. \A b \in Actions : act'[b].run \in {act[b].run, NoRun}
    BY <1>2 DEF StartAgain
  <2>4. exec' = exec /\ op' = op /\ flying' = flying
    BY <1>2 DEF StartAgain
  <2>. QED
    BY <2>1, <2>2, <2>3, <2>4, OverKept DEF RunsKept, ToolsKept
<1>3. ASSUME NEW r \in RunIds, Submit(r)
      PROVE  RunsKept /\ ToolsKept
  <2>1. \A q \in RunIds : exec[q] = "none" => exec'[q] = "none"
    BY <1>3 DEF Submit, TypeOK
  <2>2. ToolsKept
    BY <1>3 DEF Submit, ToolsKept
  <2>3. CASE IsActiveRun(r)
    <3>1. PICK s \in {"completed", "blocked", AgainOr(run[r].action, "blocked")} : EndRun(r, s)
      BY <1>3, <2>3 DEF Submit
    <3>2. s \in {"ready", "blocked", "completed"} /\ run[r].status # "unused"
      BY <2>3, AgainOrType DEF IsActiveRun, Owns
    <3>3. exec' \in [RunIds -> {"none", "thinks", "waits"}]
      BY <1>3 DEF Submit, TypeOK
    <3>. QED
      BY <2>1, <2>2, <3>1, <3>2, <3>3, EndRunKept
  <2>4. CASE ~IsActiveRun(r)
    BY <1>3, <2>1, <2>2, <2>4 DEF Submit, RunsKept
  <2>. QED
    BY <2>3, <2>4
<1>4. ASSUME NEW r \in RunIds, Abandon(r)
      PROVE  RunsKept /\ ToolsKept
  BY <1>4 DEF Abandon, RunsKept, ToolsKept, TypeOK
<1>5. ASSUME NEW r \in RunIds, Interrupt(r)
      PROVE  RunsKept /\ ToolsKept
  <2>1. ToolsKept /\ exec' = exec
    BY <1>5 DEF Interrupt, ToolsKept
  <2>2. EndRun(r, AgainOr(run[r].action, "blocked")) /\ run[r].status # "unused"
    BY <1>5 DEF Interrupt, Owns
  <2>. QED
    BY <2>1, <2>2, EndRunKept, AgainOrType DEF TypeOK
<1>6. ASSUME NEW r \in RunIds, LeaseLapses(r)
      PROVE  RunsKept /\ ToolsKept
  BY <1>6 DEF LeaseLapses, RunsKept, ToolsKept, RunRows
<1>7. ASSUME NEW r \in RunIds, ToolTimesOut(r)
      PROVE  RunsKept /\ ToolsKept
  <2>1. \A q \in RunIds : exec[q] = "none" => exec'[q] = "none"
    BY <1>7 DEF ToolTimesOut, TypeOK
  <2>2. ToolsKept
    BY <1>7 DEF ToolTimesOut, ToolsKept
  <2>3. CASE watching /\ IsActiveRun(r)
    <3>1. EndRun(r, AgainOr(run[r].action, "blocked")) /\ run[r].status # "unused"
      BY <1>7, <2>3 DEF ToolTimesOut, IsActiveRun, Owns
    <3>2. exec' \in [RunIds -> {"none", "thinks", "waits"}]
      BY <1>7 DEF ToolTimesOut, TypeOK
    <3>. QED
      BY <2>1, <2>2, <3>1, <3>2, EndRunKept, AgainOrType
  <2>4. CASE ~(watching /\ IsActiveRun(r))
    BY <1>7, <2>1, <2>2, <2>4 DEF ToolTimesOut, RunsKept
  <2>. QED
    BY <2>3, <2>4
<1>9. ASSUME NEW o \in Ops, ToolReturns(o)
      PROVE  RunsKept /\ ToolsKept
  <2>1. PICK e \in Reported(o) : op' = [op EXCEPT ![o] = Completed(o, e)]
    BY <1>9 DEF ToolReturns
  <2>2. Completed(o, e).type = op[o].type
    BY DEF Completed, OpRows
  <2>3. \A q \in RunIds : exec[q] = "none" => exec'[q] = "none"
    BY <1>9 DEF ToolReturns, Waits, TypeOK
  <2>. QED
    BY <1>9, <2>1, <2>2, <2>3 DEF ToolReturns, RunsKept, ToolsKept
<1>10. CASE StopWatcher
  BY <1>10 DEF StopWatcher, RunsKept, ToolsKept
<1>11. CASE StartWatcher
  BY <1>11 DEF StartWatcher, RunsKept, ToolsKept
<1>12. CASE RecoverRuns
  <2>1. \A r \in RunIds \cap Lost : run[r].status # "unused"
    BY DEF Lost
  <2>2. \A a \in Actions : act'[a].run \in {act[a].run, NoRun}
    BY <1>12 DEF RecoverRuns, ActRows
  <2>3. run' = Over(Lost) /\ exec' = exec /\ op' = op /\ flying' = flying
    BY <1>12 DEF RecoverRuns
  <2>. QED
    BY <2>1, <2>2, <2>3, OverKept DEF RunsKept, ToolsKept
<1>13. CASE CancelItem
  <2>. DEFINE S == {r \in RunIds : run[r].status = "running"}
  <2>1. \A r \in RunIds \cap S : run[r].status # "unused"
    OBVIOUS
  <2>2. run' = Over(S) /\ exec' = exec /\ op' = op /\ flying' = flying
    BY <1>13 DEF CancelItem
  <2>. HIDE DEF S
  <2>3. \A a \in Actions : act'[a].run \in {act[a].run, NoRun}
    BY <1>13 DEF CancelItem, ActRows
  <2>. QED
    BY <2>1, <2>2, <2>3, OverKept DEF RunsKept, ToolsKept
<1>14. CASE Complete
  BY <1>14 DEF Complete, RunsKept, ToolsKept, ActRows
<1>15. CASE Crash
  BY <1>15 DEF Crash, RunsKept, ToolsKept, RunRows
<1>16. CASE Boot
  <2>1. \A o \in Ops : Recovered(o).type = op[o].type
    BY DEF Recovered, OpRows
  <2>. QED
    BY <1>16, <2>1 DEF Boot, RunsKept, ToolsKept
<1>17. CASE UNCHANGED vars
  BY <1>17 DEF vars, RunsKept, ToolsKept
<1>. QED
  BY <1>2, <1>3, <1>4, <1>5, <1>6, <1>7, <1>9, <1>10, <1>11, <1>12, <1>13, <1>14,
     <1>15, <1>16, <1>17 DEF Next

-----------------------------------------------------------------------------
(* Runs and their Actions *)

LEMMA KeptOrder ==
    ASSUME TypeOK, RunsInOrder, HolderIsLatest, RunsKept, TypeOK', \A o \in Ops : op'[o].type = op[o].type
    PROVE  RunsInOrder' /\ HolderIsLatest'
<1>1. RunsInOrder'
  <2>1. \A o \in Ops : o[1] \in RunIds
    BY DEF Ops
  <2>. QED
    BY <2>1 DEF RunsInOrder, RunsKept
<1>2. HolderIsLatest'
  <2>1. \A a \in Actions : act[a].run # NoRun => act[a].run \in RunIds
    BY RowTypes DEF ActRows
  <2>. QED
    BY <2>1 DEF HolderIsLatest, RunsKept
<1>. QED
  BY <1>1, <1>2

\* What a claim does: the Run it takes is the first unused one.
LEMMA ClaimedRun ==
    ASSUME TypeOK, NEW a \in Actions, Claim(a)
    PROVE  \E r \in RunIds :
             /\ run[r].status = "unused" /\ \A q \in RunIds : q < r => run[q].status # "unused"
             /\ run'[r].status = "running" /\ run'[r].action = a
             /\ act'[a].run = r /\ exec'[r] = "thinks"
             /\ \A q \in RunIds \ {r} : run'[q] = run[q] /\ exec'[q] = exec[q]
             /\ \A b \in Actions \ {a} : act'[b] = act[b]
BY RowTypes DEF Claim, TypeOK

LEMMA ClaimOrder ==
    ASSUME TypeOK, RunsInOrder, HolderIsLatest, NEW a \in Actions, Claim(a)
    PROVE  RunsInOrder' /\ HolderIsLatest'
<1>1. PICK r \in RunIds :
             /\ run[r].status = "unused" /\ \A q \in RunIds : q < r => run[q].status # "unused"
             /\ run'[r].status = "running" /\ run'[r].action = a
             /\ act'[a].run = r /\ exec'[r] = "thinks"
             /\ \A q \in RunIds \ {r} : run'[q] = run[q] /\ exec'[q] = exec[q]
             /\ \A b \in Actions \ {a} : act'[b] = act[b]
  BY ClaimedRun
<1>2. \A q \in RunIds : r < q => run[q].status = "unused" /\ run[q].action = NoAction
  BY <1>1 DEF RunsInOrder
<1>3. op' = op
  BY DEF Claim
<1>4. a # NoAction
  BY OperationsAssumption DEF OperationsAssumption
<1>5. RunsInOrder'
  <2>1. \A o \in Ops : o[1] \in RunIds
    BY DEF Ops
  <2>2. \A p, q \in RunIds : p < q /\ run'[q].status # "unused" => run'[p].status # "unused"
    BY <1>1, <1>2 DEF RunsInOrder, RunIds
  <2>. QED
    BY <1>1, <1>3, <2>1, <2>2 DEF RunsInOrder
<1>6. HolderIsLatest'
  <2>1. \A b \in Actions : act[b].run # NoRun => act[b].run \in RunIds /\ act[b].run # r
    BY <1>1, HolderUsed
  <2>2. \A q \in RunIds : r < q => run'[q].action # a
    BY <1>1, <1>2, <1>4 DEF RunIds
  <2>. QED
    BY <1>1, <2>1, <2>2 DEF HolderIsLatest
<1>. QED
  BY <1>5, <1>6

\* What the start of a tool does.
LEMMA StartedTool ==
    ASSUME TypeOK, NEW r \in RunIds, NEW type \in {"edit", "Bash"}, StartTool(r, type)
    PROVE  \E o \in Ops :
             /\ o[1] = r /\ Owns(r)
             /\ op'[o].type = type /\ op'[o].effect = "pending"
             /\ \A p \in Ops \ {o} : op'[p] = op[p]
             /\ flying' = flying \cup {o} /\ touched' \subseteq touched \cup {o}
<1>1. PICK n \in 1..MaxTools :
         /\ op' = [op EXCEPT ![<<r, n>>] = [type |-> type, effect |-> "pending", exec |-> "running"]]
         /\ flying' = flying \cup {<<r, n>>}
         /\ touched' \in {touched, touched \cup {<<r, n>>}}
  BY DEF StartTool
<1>2. <<r, n>> \in Ops /\ <<r, n>>[1] = r
  BY DEF Ops
<1>3. Owns(r)
  BY DEF StartTool, CanStart, IsActiveRun
<1>. DEFINE o == <<r, n>>
<1>4. op'[o] = [type |-> type, effect |-> "pending", exec |-> "running"]
  BY <1>1, <1>2, RowTypes
<1>5. \A p \in Ops \ {o} : op'[p] = op[p]
  BY <1>1, <1>2, RowTypes
<1>. HIDE DEF o
<1>6. flying' = flying \cup {o} /\ touched' \subseteq touched \cup {o} /\ o \in Ops /\ o[1] = r
  BY <1>1, <1>2 DEF o
<1>. QED
  BY <1>3, <1>4, <1>5, <1>6

LEMMA StartToolOrder ==
    ASSUME TypeOK, RunsInOrder, HolderIsLatest,
           NEW r \in RunIds, NEW type \in {"edit", "Bash"}, StartTool(r, type)
    PROVE  RunsInOrder' /\ HolderIsLatest'
<1>1. PICK o \in Ops : /\ o[1] = r /\ Owns(r)
                       /\ \A p \in Ops \ {o} : op'[p] = op[p]
  BY StartedTool
<1>2. run' = run /\ act' = act /\ exec' = [exec EXCEPT ![r] = "waits"]
  BY DEF StartTool
<1>3. run[r].status # "unused"
  BY <1>1 DEF Owns
<1>. QED
  BY <1>1, <1>2, <1>3, RowTypes DEF RunsInOrder, HolderIsLatest, TypeOK

LEMMA OrderStep ==
    ASSUME TypeOK, RunsInOrder, HolderIsLatest, [Next]_vars
    PROVE  RunsInOrder' /\ HolderIsLatest'
<1>1. ASSUME NEW a \in Actions, Claim(a)
      PROVE  RunsInOrder' /\ HolderIsLatest'
  BY <1>1, ClaimOrder
<1>2. ASSUME NEW r \in RunIds, NEW type \in {"edit", "Bash"}, StartTool(r, type)
      PROVE  RunsInOrder' /\ HolderIsLatest'
  BY <1>2, StartToolOrder
<1>. QED
  BY <1>1, <1>2, StepKept, TypeStep, KeptOrder DEF ToolsKept

-----------------------------------------------------------------------------
(* The record and the tools *)

LEMMA RecordStep ==
    ASSUME TypeOK, FlyingIsPending, EffectIsRecorded, [Next]_vars
    PROVE  FlyingIsPending' /\ EffectIsRecorded'
<1>. USE RowTypes
<1>1. ASSUME NEW r \in RunIds, NEW type \in {"edit", "Bash"}, StartTool(r, type)
      PROVE  FlyingIsPending' /\ EffectIsRecorded'
  <2>1. PICK o \in Ops :
             /\ op'[o].type = type /\ op'[o].effect = "pending"
             /\ \A p \in Ops \ {o} : op'[p] = op[p]
             /\ flying' = flying \cup {o} /\ touched' \subseteq touched \cup {o}
    BY <1>1, StartedTool
  <2>2. up /\ up'
    BY <1>1 DEF StartTool
  <2>3. flying \subseteq Ops /\ touched \subseteq Ops
    BY DEF TypeOK
  <2>. QED
    BY <2>1, <2>2, <2>3 DEF FlyingIsPending, EffectIsRecorded, Settled
<1>2. ASSUME NEW o \in Ops, ToolReturns(o)
      PROVE  FlyingIsPending' /\ EffectIsRecorded'
  <2>1. PICK e \in Reported(o) : op' = [op EXCEPT ![o] = Completed(o, e)]
    BY <1>2 DEF ToolReturns
  <2>2. flying' = flying \ {o} /\ touched' = touched /\ up' = up
    BY <1>2 DEF ToolReturns
  <2>3. flying \subseteq Ops /\ touched \subseteq Ops
    BY DEF TypeOK
  <2>4. FlyingIsPending'
    BY <2>1, <2>2, <2>3 DEF FlyingIsPending
  <2>5. o \in touched /\ Completed(o, e).effect \in Settled => Completed(o, e).effect = "applied"
    BY DEF Reported, Completed, Settled, OpRows
  <2>6. op'[o] = Completed(o, e) /\ \A p \in Ops \ {o} : op'[p] = op[p]
    BY <2>1
  <2>7. EffectIsRecorded'
    BY <2>2, <2>3, <2>5, <2>6 DEF EffectIsRecorded
  <2>. QED
    BY <2>4, <2>7
<1>3. CASE Crash
  BY <1>3 DEF Crash, FlyingIsPending, EffectIsRecorded
<1>4. CASE Boot
  <2>1. flying' = {} /\ touched' = touched
    BY <1>4 DEF Boot, FlyingIsPending
  <2>2. \A o \in Ops : Recovered(o).effect \in Settled => Recovered(o).effect = op[o].effect
    BY DEF Recovered, OpRows, Settled
  <2>3. touched \subseteq Ops
    BY DEF TypeOK
  <2>. QED
    BY <1>4, <2>1, <2>2, <2>3 DEF Boot, FlyingIsPending, EffectIsRecorded
<1>5. ASSUME UNCHANGED <<op, up, flying, touched>>
      PROVE  FlyingIsPending' /\ EffectIsRecorded'
  BY <1>5 DEF FlyingIsPending, EffectIsRecorded
<1>. QED
  BY <1>1, <1>2, <1>3, <1>4, <1>5
  DEF Next, vars, Claim, StartAgain, Submit, Abandon, Interrupt, LeaseLapses, ToolTimesOut,
      StopWatcher, StartWatcher, RecoverRuns, CancelItem, Complete

\* A claim finds every tracked Operation settled, and none in progress.
LEMMA ClaimFindsSettled ==
    ASSUME TypeOK, FlyingIsPending, EffectIsRecorded, NEW a \in Actions, Claim(a),
           NEW o \in Ops, Tracked(o)
    PROVE  o \notin flying /\ (o \in touched => op[o].effect = "applied")
<1>1. op[o].effect \in Settled
  BY DEF Claim, UnsettledEffects
<1>. QED
  BY <1>1 DEF FlyingIsPending, EffectIsRecorded, Settled

LEMMA BesideStep ==
    ASSUME TypeOK, FlyingIsPending, EffectIsRecorded, RunsInOrder, HolderIsLatest,
           NoToolBesideSuccessor, [Next]_vars
    PROVE  NoToolBesideSuccessor'
<1>1. \A o \in Ops : o[1] \in RunIds
  BY DEF Ops
<1>2. flying \subseteq Ops
  BY DEF TypeOK
<1>3. ASSUME NEW a \in Actions, Claim(a)
      PROVE  NoToolBesideSuccessor'
  <2>1. op' = op /\ flying' = flying
    BY <1>3 DEF Claim
  <2>2. \A o \in flying : ~Tracked(o)
    BY <1>2, <1>3, ClaimFindsSettled
  <2>. QED
    BY <2>1, <2>2 DEF NoToolBesideSuccessor, Tracked
<1>4. ASSUME NEW r \in RunIds, NEW type \in {"edit", "Bash"}, StartTool(r, type)
      PROVE  NoToolBesideSuccessor'
  <2>1. PICK o \in Ops : /\ o[1] = r /\ Owns(r)
                         /\ \A p \in Ops \ {o} : op'[p] = op[p]
                         /\ flying' = flying \cup {o}
    BY <1>4, StartedTool
  <2>2. run' = run /\ exec' = [exec EXCEPT ![r] = "waits"] /\ exec[r] = "thinks"
    BY <1>4 DEF StartTool
  <2>3. \A q \in RunIds : r < q => run[q].action # run[r].action
    <3>1. run[r].action \in Actions /\ act[run[r].action].run = r /\ r # NoRun
      BY <2>1 DEF Owns, RunsInOrder, RunIds, NoRun
    <3>. QED
      BY <3>1 DEF HolderIsLatest
  <2>4. \A q \in RunIds : exec'[q] # "none" => exec[q] # "none"
    BY <2>2 DEF TypeOK
  <2>. QED
    BY <1>1, <1>2, <2>1, <2>2, <2>3, <2>4 DEF NoToolBesideSuccessor, Tracked, RunIds
<1>5. ASSUME RunsKept, ToolsKept
      PROVE  NoToolBesideSuccessor'
  BY <1>1, <1>2, <1>5 DEF NoToolBesideSuccessor, RunsKept, ToolsKept, Tracked
<1>. QED
  BY <1>3, <1>4, <1>5, StepKept

LEMMA DoneStep ==
    ASSUME TypeOK, FlyingIsPending, EffectIsRecorded, RunsInOrder, DoneIsSettled, [Next]_vars
    PROVE  DoneIsSettled'
<1>. USE RowTypes
<1>1. ASSUME Complete
      PROVE  DoneIsSettled'
  <2>1. op' = op /\ flying' = flying /\ touched' = touched
    BY <1>1 DEF Complete
  <2>2. ASSUME NEW o \in Ops, Tracked(o)
        PROVE  op[o].effect \in Settled
    <3>1. run[o[1]].action \in Actions
      BY <2>2 DEF RunsInOrder, Tracked, Ops
    <3>2. operationSafeToProceed(o)
      BY <1>1, <2>2, <3>1 DEF Complete, CanComplete, BlockingFor
    <3>. QED
      BY <3>2 DEF operationSafeToProceed
  <2>. QED
    BY <2>1, <2>2 DEF DoneIsSettled, FlyingIsPending, EffectIsRecorded, Settled, Tracked
<1>2. ASSUME item = "done", item' = "done"
      PROVE  DoneIsSettled'
  <2>1. ASSUME NEW o \in Ops, ToolReturns(o)
        PROVE  DoneIsSettled'
    <3>1. PICK e \in Reported(o) : op' = [op EXCEPT ![o] = Completed(o, e)]
      BY <2>1 DEF ToolReturns
    <3>2. o \in flying /\ flying' = flying \ {o} /\ touched' = touched
      BY <2>1 DEF ToolReturns
    <3>3. ~Tracked(o) /\ Completed(o, e).type = op[o].type
      BY <1>2, <3>2 DEF DoneIsSettled, Completed, OpRows
    <3>4. op'[o].type = op[o].type /\ \A p \in Ops \ {o} : op'[p] = op[p]
      BY <3>1, <3>3
    <3>. QED
      BY <1>2, <3>2, <3>3, <3>4 DEF DoneIsSettled, Tracked
  <2>2. CASE Crash
    BY <1>2, <2>2 DEF Crash, DoneIsSettled, Tracked
  <2>3. CASE Boot
    <3>1. \A o \in Ops : /\ Recovered(o).type = op[o].type
                         /\ op[o].effect = "applied" => Recovered(o).effect = "applied"
      BY DEF Recovered, OpRows
    <3>. QED
      BY <1>2, <2>3, <3>1 DEF Boot, DoneIsSettled, Tracked
  <2>4. ASSUME UNCHANGED <<op, flying, touched>>
        PROVE  DoneIsSettled'
    BY <1>2, <2>4 DEF DoneIsSettled, Tracked
  <2>. QED
    BY <1>2, <2>1, <2>2, <2>3, <2>4
    DEF Next, vars, Claim, StartAgain, Submit, Abandon, Interrupt, LeaseLapses, ToolTimesOut,
        StartTool, CanStart, IsActiveRun, Owns, StopWatcher, StartWatcher, RecoverRuns,
        CancelItem, Complete
<1>3. item' = "done" => item = "done" \/ Complete
  BY DEF Next, vars, Claim, StartAgain, Submit, Abandon, Interrupt, LeaseLapses, ToolTimesOut,
         StartTool, ToolReturns, StopWatcher, StartWatcher, RecoverRuns, CancelItem, Crash, Boot
<1>. QED
  BY <1>1, <1>2, <1>3 DEF DoneIsSettled

-----------------------------------------------------------------------------
(* The theorems *)

LEMMA Initially ==
    ASSUME Init
    PROVE  IInv
<1>. USE OperationsAssumption DEF OperationsAssumption
<1>1. TypeOK
  BY DEF Init, TypeOK
<1>. QED
  BY <1>1 DEF Init, IInv, FlyingIsPending, EffectIsRecorded, RunsInOrder, HolderIsLatest,
              NoToolBesideSuccessor, DoneIsSettled, Ops

\* IInv is inductive.
THEOREM Inductive == Spec => []IInv
<1>1. Init => IInv
  BY Initially
<1>2. IInv /\ [Next]_vars => IInv'
  BY TypeStep, OrderStep, RecordStep, BesideStep, DoneStep DEF IInv
<1>. QED
  BY <1>1, <1>2, PTL DEF Spec

\* The tables keep their types, and no tool of an earlier Run, other than Bash,
\* is in progress while the Action runs again.
THEOREM ToolsAreAlone == Spec => []ToolsInv
<1>1. IInv => ToolsInv
  BY DEF IInv, ToolsInv
<1>. QED
  BY <1>1, Inductive, PTL

\* A WorkItem is done only when every effect is on record, for good.
THEOREM DoneHasEveryEffect == Spec => []DoneIsSettled
<1>1. IInv => DoneIsSettled
  BY DEF IInv
<1>. QED
  BY <1>1, Inductive, PTL

\* A Run starts only when the record states every effect of the WorkItem.
THEOREM RerunsAreNotBlind == Spec => NoBlindRerun
<1>1. ASSUME IInv, [Next]_vars, NEW r \in RunIds, run[r].status = "unused", run'[r].status = "running",
             NEW o \in Ops, Tracked(o)
      PROVE  o \notin flying /\ (o \in touched => op[o].effect = "applied")
  <2>1. ~RunsKept
    BY <1>1 DEF RunsKept
  <2>2. CASE \E a \in Actions : Claim(a)
    BY <1>1, <2>2, ClaimFindsSettled DEF IInv
  <2>3. ASSUME NEW q \in RunIds, NEW type \in {"edit", "Bash"}, StartTool(q, type)
        PROVE  FALSE
    BY <1>1, <2>3 DEF StartTool
  <2>. QED
    BY <1>1, <2>1, <2>2, <2>3, StepKept DEF IInv
<1>2. IInv /\ [Next]_vars =>
        [\A r \in RunIds :
           run[r].status = "unused" /\ run'[r].status = "running" =>
              \A o \in Ops : Tracked(o) =>
                 /\ o \notin flying
                 /\ o \in touched => op[o].effect = "applied"]_vars
  BY <1>1
<1>. QED
  BY <1>2, Inductive, PTL DEF Spec, NoBlindRerun

=============================================================================
