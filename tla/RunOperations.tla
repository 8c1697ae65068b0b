--------------------------- MODULE RunOperations ---------------------------
(***************************************************************************)
(* Durable Operations: the record the Work Center keeps of every tool call *)
(* whose effect leaves the Run (agent/yeaft/work-center/store.js,          *)
(* runner.js, watcher.js; agent/yeaft/tools/registry.js).                  *)
(*                                                                         *)
(* A tool is claimed in the database before it executes and completed      *)
(* after it.  Between the two the process may die, the Run may lose its    *)
(* lease or its Action, and the wait for the tool may time out while the   *)
(* tool goes on.  An Operation whose effect is not settled keeps every     *)
(* Action of its WorkItem from being claimed; a Bash command is exempt.    *)
(*                                                                         *)
(* One dynamic WorkItem with isolated Actions.  How a Run ended is left    *)
(* out ("over"); so are identities, input and the execution stop, which    *)
(* ActionRuns and ActionInputs model.  "blocked" stands for the Action     *)
(* states waiting and failed.  Operations of Bash written by an earlier    *)
(* version, which recoverOperations reconciles, do not occur.              *)
(***************************************************************************)
EXTENDS Integers, FiniteSets

CONSTANTS
    Actions,       \* the Actions of the WorkItem
    NoAction,      \* none of them
    MaxRuns,       \* bound on the Runs of the WorkItem
    MaxTools,      \* bound on the tracked tool calls of one Run
    MaxAttempts,   \* max_attempts of an Action
    Max            \* bounds: "command" counts what a user does, "fault"
                   \* crashes and leases a live executor loses

ASSUME OperationsAssumption ==
    /\ NoAction \notin Actions
    /\ MaxRuns \in Nat /\ MaxTools \in Nat /\ MaxAttempts \in Nat \ {0}
    /\ Max \in [{"command", "fault"} -> Nat]

RunIds == 1..MaxRuns
NoRun == 0
Ops == RunIds \X (1..MaxTools)       \* idempotency key: Run and ordinal
Settled == {"applied", "not_applied", "failed_no_effect"}

VARIABLES
    item,      \* status of the WorkItem
    act,       \* the Actions
    run,       \* the Runs; `lease' is foreign once its boot is over
    op,        \* table operations: type, effect_status, execution_status
    up,        \* the Agent process runs
    watching,  \* its watcher runs
    exec,      \* what the executor of a Run does: nothing, think or wait
    flying,    \* tool calls in progress in the process
    touched,   \* tool calls that have an effect before they return or die
    used       \* counters of the bounds

vars == <<item, act, run, op, up, watching, exec, flying, touched, used>>

Init ==
    /\ item = "open"
    /\ act = [a \in Actions |-> [status |-> "ready", run |-> NoRun, attempt |-> 0]]
    /\ run = [r \in RunIds |-> [status |-> "unused", action |-> NoAction, lease |-> "foreign"]]
    /\ op = [o \in Ops |-> [type |-> "none", effect |-> "pending", exec |-> "not_started"]]
    /\ up = TRUE /\ watching = TRUE
    /\ exec = [r \in RunIds |-> "none"]
    /\ flying = {} /\ touched = {}
    /\ used = [c \in {"command", "fault"} |-> 0]

May(c) == used[c] < Max[c] /\ used' = [used EXCEPT ![c] = @ + 1]

-----------------------------------------------------------------------------
(* Reading the tables *)

\* #activeRunRow, without and with the lease.
Owns(r) ==
    /\ run[r].status = "running" /\ run[r].lease # "foreign"
    /\ act[run[r].action].status = "running" /\ act[run[r].action].run = r
    /\ item = "open"
IsActiveRun(r) == Owns(r) /\ run[r].lease = "fresh"

OpsOf(r) == {o \in Ops : o[1] = r /\ op[o].type # "none"}
Tracked(o) == op[o].type \notin {"none", "Bash"}

operationSafeToProceed(o) ==
    /\ op[o].effect \in Settled
    /\ op[o].exec \in {"not_started", "quiescent"}

\* #hasBlockingOperation: of the Action, or of the WorkItem.
BlockingFor(A) ==
    {o \in Ops : /\ Tracked(o) /\ run[o[1]].action \in A
                 /\ ~operationSafeToProceed(o)}

\* The guard of the claim query, over the whole WorkItem.
UnsettledEffects_OwnAction(a) ==
    {o \in Ops : Tracked(o) /\ run[o[1]].action = a /\ op[o].effect \notin Settled}
UnsettledEffects_Bash(a) ==
    {o \in Ops : op[o].type # "none" /\ op[o].effect \notin Settled}
UnsettledEffects(a) == {o \in Ops : Tracked(o) /\ op[o].effect \notin Settled}

-----------------------------------------------------------------------------
(* Runs *)

\* claimReadyAction: a new Run, and its executor.
Claim(a) ==
    /\ up /\ watching /\ item = "open"
    /\ act[a].status = "ready"
    /\ UnsettledEffects(a) = {} /\ BlockingFor({a}) = {}
    /\ \E r \in RunIds :
         /\ run[r].status = "unused" /\ \A q \in RunIds : q < r => run[q].status # "unused"
         /\ run' = [run EXCEPT ![r] = [status |-> "running", action |-> a, lease |-> "fresh"]]
         /\ act' = [act EXCEPT ![a] = [status |-> "running", run |-> r, attempt |-> @.attempt + 1]]
         /\ exec' = [exec EXCEPT ![r] = "thinks"]
    /\ UNCHANGED <<item, op, up, watching, flying, touched, used>>

\* The Runs in S are over; their lease means nothing any more.
Over(S) == [r \in RunIds |-> IF r \in S THEN [run[r] EXCEPT !.status = "over", !.lease = "foreign"]
                             ELSE run[r]]

\* Run r is over and its Action becomes s.
EndRun(r, s) ==
    /\ run' = Over({r})
    /\ act' = [act EXCEPT ![run[r].action].status = s, ![run[r].action].run = NoRun]

\* The Action after a Run that may be repeated.
AgainOr(a, otherwise) == IF act[a].attempt < MaxAttempts THEN "ready" ELSE otherwise

\* controller.submit of what the Engine returned, fenced by the lease.
Submit(r) ==
    /\ up /\ watching /\ exec[r] = "thinks"
    /\ exec' = [exec EXCEPT ![r] = "none"]
    /\ IF IsActiveRun(r)
       THEN \E s \in {"completed", "blocked", AgainOr(run[r].action, "blocked")} : EndRun(r, s)
       ELSE UNCHANGED <<run, act>>
    /\ UNCHANGED <<item, op, up, watching, flying, touched, used>>

\* An executor whose signal was aborted returns without a submit.
Abandon(r) ==
    /\ up /\ exec[r] = "thinks"
    /\ ~watching \/ ~IsActiveRun(r)
    /\ exec' = [exec EXCEPT ![r] = "none"]
    /\ UNCHANGED <<item, act, run, op, up, watching, flying, touched, used>>

\* watcher.stop: abort every executor; interruptRun once they returned.
StopWatcher ==
    /\ up /\ watching /\ May("command")
    /\ watching' = FALSE
    /\ UNCHANGED <<item, act, run, op, up, exec, flying, touched>>

Interrupt(r) ==
    /\ up /\ ~watching /\ \A q \in RunIds : exec[q] = "none"
    /\ Owns(r)
    /\ EndRun(r, AgainOr(run[r].action, "blocked"))
    /\ UNCHANGED <<item, op, up, watching, exec, flying, touched, used>>

StartWatcher ==
    /\ up /\ ~watching /\ \A r \in RunIds : exec[r] = "none"
    /\ watching' = TRUE
    /\ UNCHANGED <<item, act, run, op, up, exec, flying, touched, used>>

\* expires_at passes: for want of an executor, or though there is one.
LeaseLapses(r) ==
    /\ run[r].status = "running" /\ run[r].lease = "fresh"
    /\ IF exec[r] = "none" THEN UNCHANGED used ELSE May("fault")
    /\ run' = [run EXCEPT ![r].lease = "lapsed"]
    /\ UNCHANGED <<item, act, op, up, watching, exec, flying, touched>>

\* recoverInterruptedRuns.
Lost == {r \in RunIds : run[r].status = "running" /\ run[r].lease # "fresh"}
HeldBy(a, S) == act[a].status = "running" /\ act[a].run \in S

RecoverRuns ==
    /\ up /\ watching /\ Lost # {}
    /\ run' = Over(Lost)
    /\ act' = [a \in Actions |-> IF HeldBy(a, Lost)
                 THEN [act[a] EXCEPT !.status = AgainOr(a, "blocked"), !.run = NoRun]
                 ELSE act[a]]
    /\ UNCHANGED <<item, op, up, watching, exec, flying, touched, used>>

-----------------------------------------------------------------------------
(* Tools.  wrapWorkItemTool and the operationLifecycle of the Run *)

\* createAndClaimOperation: the row is inserted and claimed at once.
CanStart_NoFence(r) == run[r].status # "unused"
CanStart(r) == IsActiveRun(r)

StartTool(r, type) ==
    /\ up /\ watching /\ exec[r] = "thinks" /\ CanStart(r)
    /\ \E n \in 1..MaxTools :
         /\ n = Cardinality(OpsOf(r)) + 1
         /\ op' = [op EXCEPT ![<<r, n>>] =
                     [type |-> type, effect |-> "pending", exec |-> "running"]]
         /\ flying' = flying \cup {<<r, n>>}
         /\ touched' \in {touched, touched \cup {<<r, n>>}}
    /\ exec' = [exec EXCEPT ![r] = "waits"]
    /\ UNCHANGED <<item, act, run, up, watching, used>>

\* What the wrapper makes of the output: an error envelope that denies any
\* effect, any other error, or a result.
Reported(o) == {"applied", "unknown"} \cup (IF o \in touched THEN {} ELSE {"failed_no_effect"})

\* completeOperation: the row after effect e was reported.
Completed(o, e) ==
    IF IsActiveRun(o[1]) \/ (op[o].type = "Bash" /\ e \in Settled)
    THEN [op[o] EXCEPT !.effect = e, !.exec = "quiescent"]
    ELSE [op[o] EXCEPT !.effect = "unknown", !.exec = "hazardous_orphan"]

\* The tool returns.  The executor goes on, with an error when the wrapper
\* threw, unless it stopped waiting for this tool.
Waits(o) == exec[o[1]] = "waits"
ToolReturns(o) ==
    /\ o \in flying
    /\ \E e \in Reported(o) : op' = [op EXCEPT ![o] = Completed(o, e)]
    /\ flying' = flying \ {o}
    /\ exec' = [exec EXCEPT ![o[1]] = IF Waits(o) THEN "thinks" ELSE @]
    /\ UNCHANGED <<item, act, run, up, watching, touched, used>>

\* runWithTimeout gives up: a fatal error ends the Run, and the tool goes on.
\* Bash has no such timer; it ends its process tree itself.
ToolTimesOut(r) ==
    /\ up /\ exec[r] = "waits"
    /\ \A o \in OpsOf(r) \cap flying : op[o].type # "Bash"
    /\ exec' = [exec EXCEPT ![r] = "none"]
    /\ IF watching /\ IsActiveRun(r)
       THEN EndRun(r, AgainOr(run[r].action, "blocked"))
       ELSE UNCHANGED <<run, act>>
    /\ UNCHANGED <<item, op, up, watching, flying, touched, used>>

-----------------------------------------------------------------------------
(* The user and the Coordinator *)

\* addActionGuidance, or the retry of a settled Action: it starts again.
StartAgain(a) ==
    /\ up /\ item = "open" /\ May("command")
    /\ act[a].status \in {"ready", "running", "blocked"}
    /\ act' = [act EXCEPT ![a] = [status |-> "ready", run |-> NoRun, attempt |-> 0]]
    /\ run' = Over({r \in RunIds : HeldBy(a, {r})})
    /\ UNCHANGED <<item, op, up, watching, exec, flying, touched>>

CancelItem ==
    /\ up /\ item = "open" /\ May("command")
    /\ item' = "cancelled"
    /\ run' = Over({r \in RunIds : run[r].status = "running"})
    /\ act' = [a \in Actions |-> IF act[a].status = "completed" THEN act[a]
                                 ELSE [act[a] EXCEPT !.status = "closed", !.run = NoRun]]
    /\ UNCHANGED <<op, up, watching, exec, flying, touched>>

\* A decision `complete' closes what is settled without a result.
CanComplete_NoOperations == \A a \in Actions : act[a].status \notin {"ready", "running"}
CanComplete ==
    /\ \A a \in Actions : act[a].status \notin {"ready", "running"}
    /\ BlockingFor(Actions) = {}

Complete ==
    /\ up /\ item = "open" /\ CanComplete
    /\ item' = "done"
    /\ act' = [a \in Actions |-> IF act[a].status = "blocked"
                                 THEN [act[a] EXCEPT !.status = "closed"] ELSE act[a]]
    /\ UNCHANGED <<run, op, up, watching, exec, flying, touched, used>>

-----------------------------------------------------------------------------
(* The process dies, and opens the store again *)

Crash ==
    /\ up /\ May("fault")
    /\ up' = FALSE /\ watching' = FALSE
    /\ exec' = [r \in RunIds |-> "none"]
    /\ flying' = {}
    /\ run' = [r \in RunIds |-> [run[r] EXCEPT !.lease = "foreign"]]
    /\ UNCHANGED <<item, act, op, touched>>

\* recoverOperations: whether a running tool had its effect is unknown.
Recovered(o) ==
    IF op[o].exec = "running"
    THEN [op[o] EXCEPT !.effect = IF @ = "pending" THEN "unknown" ELSE @,
                       !.exec = "hazardous_orphan"]
    ELSE op[o]

Boot ==
    /\ ~up
    /\ up' = TRUE /\ watching' = TRUE
    /\ op' = [o \in Ops |-> Recovered(o)]
    /\ UNCHANGED <<item, act, run, exec, flying, touched, used>>

-----------------------------------------------------------------------------
Next ==
    \/ \E a \in Actions : Claim(a) \/ StartAgain(a)
    \/ \E r \in RunIds :
         \/ Submit(r) \/ Abandon(r) \/ Interrupt(r) \/ LeaseLapses(r) \/ ToolTimesOut(r)
         \/ \E type \in {"edit", "Bash"} : StartTool(r, type)
    \/ \E o \in Ops : ToolReturns(o)
    \/ StopWatcher \/ StartWatcher \/ RecoverRuns
    \/ CancelItem \/ Complete \/ Crash \/ Boot

Spec == Init /\ [][Next]_vars

\* Executors run, a tool call ends at some time, the watcher ticks, a lease
\* without an executor lapses, and the Agent is started again.
FairSpec ==
    /\ Spec
    /\ WF_vars(Boot) /\ WF_vars(RecoverRuns)
    /\ \A a \in Actions : WF_vars(Claim(a))
    /\ \A o \in Ops : WF_vars(ToolReturns(o))
    /\ \A r \in RunIds : WF_vars(Submit(r) \/ Abandon(r)) /\ WF_vars(exec[r] = "none" /\ LeaseLapses(r))

-----------------------------------------------------------------------------
(* Properties *)

TypeOK ==
    /\ item \in {"open", "done", "cancelled"}
    /\ act \in [Actions -> [status : {"ready", "running", "blocked", "completed", "closed"},
                            run : RunIds \cup {NoRun}, attempt : Nat]]
    /\ run \in [RunIds -> [status : {"unused", "running", "over"},
                           action : Actions \cup {NoAction},
                           lease : {"fresh", "lapsed", "foreign"}]]
    /\ op \in [Ops -> [type : {"none", "edit", "Bash"},
                       effect : Settled \cup {"pending", "unknown"},
                       exec : {"not_started", "running", "quiescent", "hazardous_orphan"}]]
    /\ up \in BOOLEAN /\ watching \in BOOLEAN /\ (watching => up)
    /\ exec \in [RunIds -> {"none", "thinks", "waits"}]
    /\ flying \subseteq Ops /\ touched \subseteq Ops
    /\ used \in [{"command", "fault"} -> Nat]

\* No Run of the WorkItem starts while a tool other than Bash may have had an
\* effect that the record does not state: not after a crash, not after the Run
\* lost its lease, not while a tool that timed out goes on (store.js:4928).
NoBlindRerun ==
    [][\A r \in RunIds :
         run[r].status = "unused" /\ run'[r].status = "running" =>
            \A o \in Ops : Tracked(o) =>
               /\ o \notin flying
               /\ o \in touched => op[o].effect = "applied"]_vars

\* A tool of an earlier Run of an Action, other than Bash, is never in progress
\* while the Action runs again (watcher.js:109: the old executor is only asked
\* to stop).
NoToolBesideSuccessor ==
    \A o \in flying : Tracked(o) =>
        \A r \in RunIds \ {o[1]} :
            r > o[1] => ~(run[r].action = run[o[1]].action /\ exec[r] # "none")

\* The rows have their types, and no tool acts beside the successor of its Run.
ToolsInv == TypeOK /\ NoToolBesideSuccessor

\* A finished WorkItem has no tool other than Bash in progress, and the record
\* states the effect of each (store.js:4126).
DoneIsSettled ==
    item = "done" => \A o \in Ops : Tracked(o) =>
        o \notin flying /\ (o \in touched => op[o].effect = "applied")

\* Under a watcher that stays on, only an Operation of unknown effect, which no
\* operation of the store settles, keeps a ready Action from being run.
OnlyUnknownBlocks ==
    <>[]watching => \A a \in Actions :
        (item = "open" /\ act[a].status = "ready")
        ~> \/ act[a].status # "ready"
           \/ \E o \in Ops : Tracked(o) /\ op[o].effect = "unknown"
           \/ \A r \in RunIds : run[r].status # "unused"

=============================================================================
