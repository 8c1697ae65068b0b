----------------------------- MODULE ActionRuns -----------------------------
(***************************************************************************)
(* The durable execution core of the Work Center                           *)
(* (agent/yeaft/work-center/): WorkItems own Actions, the watcher claims a *)
(* ready Action by writing a Run, and every later write of that Run is     *)
(* fenced by boot id, lease epoch and Action generation.                   *)
(*                                                                         *)
(* One store method is one SQLite transaction and JavaScript runs it       *)
(* without yielding, so each is one action here.  What interleaves are the *)
(* watcher's tick (it awaits between claim and start), the executors of    *)
(* the Runs, the users' commands, Coordinator decisions, lease expiry,     *)
(* watcher stop and process crash.                                         *)
(*                                                                         *)
(* The model is of dynamic coordination, the mode WorkCenterService.create *)
(* gives every new WorkItem.  Time is abstracted: a lease or reservation   *)
(* is fresh or expired.  spec_hash is identified with the generation,      *)
(* which changes with it.  An Action is named by its sequence number.      *)
(***************************************************************************)
EXTENDS Integers, FiniteSets

CONSTANTS
    WorkItems,        \* the WorkItems of the store
    Actions,          \* Action identities, in the order of their sequence
    ItemOf,           \* the WorkItem an Action belongs to
    WorkspaceOf,      \* work_items.workspace_key
    PlannedMode,      \* the workspace_mode an Action is created with
    DeliverActions,   \* Actions of type 'deliver', never rerun automatically
    MaxAttempts,      \* actions.max_attempts
    MaxLifetime,      \* limits.maxActionAttempts of the resource control
    Limit,            \* the watcher's concurrency limit
    MaxRuns,          \* bound: Runs ever claimed
    MaxBoot,          \* bound: process starts
    MaxCommands,      \* bound: user commands, other than starting a WorkItem
    MaxDecisions,     \* bound: Coordinator turns that neither plan nor complete
    MaxStops          \* bound: calls of watcher.stop() and start()

RunIds == 1..MaxRuns
NoRun == 0
NoAction == 0
ActionStatus == {"absent", "ready", "running", "waiting", "failed",
                 "completed", "closed", "superseded", "cancelled"}
Unfinished_NotFailed == {"ready", "running", "waiting"}
Unfinished == {"ready", "running", "waiting", "failed"}
RunStatus == {"unused", "running", "interrupted", "superseded", "cancelled",
              "completed", "waiting", "failed", "retryable"}
Outcomes == {"completed", "waiting", "failed", "retryable"}
ItemStatus == {"draft", "ready", "running", "waiting", "needs_attention",
               "done", "cancelled"}
LiveStatus == {"ready", "running", "waiting", "needs_attention"}
Modes == {"read", "shared", "isolated-write", "integrate"}
ExecStates == {"none", "preparing", "prepared", "live", "aborted"}

ItemRows == [status : ItemStatus, rev : Nat, stopped : BOOLEAN,
             exhausted : Actions \cup {NoAction}, ext : Nat, ledger : Nat,
             reconciled : SUBSET Nat, mail : Nat]
ActionRows == [status : ActionStatus, rev : Nat, attempt : Nat, gen : Nat, epoch : Nat,
               run : RunIds \cup {NoRun}, result : RunIds \cup {NoRun},
               mode : Modes, resv : BOOLEAN]
RunRows == [status : RunStatus, action : Actions \cup {NoAction}, owner : Nat,
            epoch : Nat, gen : Nat, fresh : BOOLEAN, deferred : BOOLEAN]

ASSUME ConstantsAssumption ==
    /\ Actions \subseteq Nat \ {0}
    /\ ItemOf \in [Actions -> WorkItems]
    /\ PlannedMode \in [Actions -> Modes]
    /\ DeliverActions \subseteq Actions
    /\ MaxAttempts \in Nat \ {0}
    /\ MaxLifetime \in Nat \ {0}
    /\ MaxRuns \in Nat
    /\ MaxBoot \in Nat
    /\ MaxCommands \in Nat
    /\ MaxDecisions \in Nat
    /\ MaxStops \in Nat

VARIABLES
    item,     \* table work_items, with its execution control and mailbox
    act,      \* table actions
    run,      \* table runs
    boot,     \* ownerBootId of the current process
    life,     \* "down", or the watcher's lifecycle
    timer,    \* watcher.timer is set, which status() reports as enabled
    halting,  \* where a call of watcher.stop() is: "none", "tick" or "runs"
    tick,     \* progress of the single-flight tick
    exec,     \* the Run in the tick's prepare, and watcher.activeRuns
    stopping, \* the Runs watcher.stop() captured
    ops       \* commands, decisions and stops so far

db == <<item, act, run>>
watch == <<life, timer, halting, stopping>>
vars == <<item, act, run, boot, life, timer, halting, tick, exec, stopping, ops>>

ActionsOf(w) == {a \in Actions : ItemOf[a] = w}
Used(r) == run[r].status # "unused"
RunsOf(a) == {r \in RunIds : Used(r) /\ run[r].action = a}

-----------------------------------------------------------------------------
(* Reading the tables *)

\* #activeRunRow: Run r still owns its Action in tables I, A, R.  The lease is
\* a separate condition because interruptRun does not require it.
OwnsIn(I, A, R, r) ==
    /\ R[r].status = "running"
    /\ R[r].action \in Actions
    /\ LET a == R[r].action IN
         /\ A[a].status = "running"
         /\ A[a].run = r
         /\ A[a].epoch = R[r].epoch
         /\ A[a].gen = R[r].gen
         /\ I[ItemOf[a]].status \in LiveStatus
Owns(r) == run[r].owner = boot /\ OwnsIn(item, act, run, r)
IsActiveRun(r) == Owns(r) /\ run[r].fresh

\* The trigger work_item_execution_stop_status on every write of a status.
Stored(i, s) ==
    IF i.stopped /\ s \notin {"needs_attention", "cancelled"}
    THEN "needs_attention" ELSE s

\* #graphWorkItemState over the Actions table A.
GraphStatus(A, w) ==
    LET with(S) == {a \in ActionsOf(w) : A[a].status \in S}
        blocked == with({"waiting", "failed"})
    IN  IF \E a \in blocked : A[a].status = "waiting" /\ \A b \in blocked : a <= b
          THEN "waiting"
        ELSE IF blocked # {} THEN "needs_attention"
        ELSE IF with({"running"}) # {} THEN "running"
        ELSE IF with({"ready"}) # {} THEN "ready"
        ELSE "done"

\* The status finalizeRun derives for a dynamic WorkItem: runnable work first.
SettledStatus(A, w) ==
    LET with(S) == {a \in ActionsOf(w) : A[a].status \in S} IN
    IF with({"running"}) # {} THEN "running"
    ELSE IF with({"ready"}) # {} THEN "ready"
    ELSE IF with({"waiting", "failed"}) = {} THEN "running"
    ELSE GraphStatus(A, w)

Runnable(A, w) == \E a \in ActionsOf(w) : A[a].status \in {"ready", "running"}

\* #enqueueDynamicReconciliation: one mailbox entry per ledger revision, and
\* enqueueCoordinatorMailbox ignores a source key it has already stored.
Reconcile(i, A, w) ==
    IF Runnable(A, w) \/ i.ledger \in i.reconciled THEN i
    ELSE [i EXCEPT !.mail = @ + 1, !.reconciled = @ \cup {i.ledger}]

Reserved(w) == \E a \in ActionsOf(w) : act[a].status \in Unfinished /\ act[a].resv

Retryable_Deliver(a) == act[a].attempt < MaxAttempts
Retryable_OffByOne(a) == a \notin DeliverActions /\ act[a].attempt <= MaxAttempts
Retryable(a) == a \notin DeliverActions /\ act[a].attempt < MaxAttempts

CanAttempt(a) ==
    LET ext == item[ItemOf[a]].ext
        cap == IF MaxAttempts + ext < MaxLifetime + ext
               THEN MaxAttempts + ext ELSE MaxLifetime + ext
    IN  Cardinality(RunsOf(a)) < cap

-----------------------------------------------------------------------------
Init ==
    /\ item = [w \in WorkItems |->
         [status |-> "draft", rev |-> 1, stopped |-> FALSE, exhausted |-> NoAction, ext |-> 0,
          ledger |-> 0, reconciled |-> {}, mail |-> 0]]
    /\ act = [a \in Actions |->
         [status |-> "absent", rev |-> 0, attempt |-> 0, gen |-> 1, epoch |-> 0, run |-> NoRun,
          result |-> NoRun, mode |-> PlannedMode[a], resv |-> FALSE]]
    /\ run = [r \in RunIds |->
         [status |-> "unused", action |-> NoAction, owner |-> 0, epoch |-> 0,
          gen |-> 0, fresh |-> FALSE, deferred |-> FALSE]]
    /\ boot = 1
    /\ life = "running"
    /\ timer = TRUE
    /\ halting = "none"
    /\ tick = "idle"
    /\ exec = [r \in RunIds |-> "none"]
    /\ stopping = {}
    /\ ops = [commands |-> 0, decisions |-> 0, stops |-> 0]

-----------------------------------------------------------------------------
(* Table updates shared by several operations *)

Item(r) == ItemOf[run[r].action]
ActiveRuns == {r \in RunIds : exec[r] \in {"live", "aborted"}}

InvalidatedRuns_AnyStatus(w, s) ==
    [r \in RunIds |->
        IF /\ Used(r)
           /\ ItemOf[run[r].action] = w
           /\ act[run[r].action].status \in Unfinished
        THEN [run[r] EXCEPT !.status = s]
        ELSE run[r]]

\* #invalidateExecution: every unfinished Action of w and its running Run.
\* It refuses while an integration reservation is active.
InvalidatedActions(w, s) ==
    [a \in Actions |->
        IF ItemOf[a] = w /\ act[a].status \in Unfinished
        THEN [act[a] EXCEPT !.status = s, !.epoch = @ + 1, !.run = NoRun]
        ELSE act[a]]
InvalidatedRuns(w, s) ==
    [r \in RunIds |->
        IF /\ run[r].status = "running"
           /\ ItemOf[run[r].action] = w
           /\ act[run[r].action].status \in Unfinished
        THEN [run[r] EXCEPT !.status = s]
        ELSE run[r]]

\* watcher.abortInvalidWorkItemRuns, after the tables became I, A, R.
AbortInvalid(I, A, R, w) ==
    [r \in RunIds |->
        IF /\ exec[r] = "live"
           /\ Item(r) = w
           /\ ~(OwnsIn(I, A, R, r) /\ R[r].owner = boot /\ R[r].fresh)
        THEN "aborted" ELSE exec[r]]

\* result_run_id after a Run of the Action ended.
ResultAfter_Kept(old, outcome, r) == old
ResultAfter(old, outcome, r) == IF outcome = "completed" THEN r ELSE old

\* finalizeRun of a dynamic WorkItem.  finalizeRun is fenced by IsActiveRun.
Finalize(r, outcome) ==
    LET a == run[r].action
        w == ItemOf[a]
        status == CASE outcome \in {"completed", "waiting"} -> outcome
                    [] outcome = "retryable" /\ act[a].attempt < MaxAttempts -> "ready"
                    [] OTHER -> "failed"
        A == [act EXCEPT ![a].status = status,
                         ![a].run = NoRun,
                         ![a].result = ResultAfter(@, outcome, r)]
        i == [item[w] EXCEPT
                !.ledger = IF outcome = "retryable" THEN @ ELSE @ + 1,
                !.status = Stored(item[w], SettledStatus(A, w))]
    IN  /\ run' = [run EXCEPT ![r].status = outcome]
        /\ act' = A
        /\ item' = [item EXCEPT ![w] = Reconcile(i, A, w)]

\* interruptRun commits for r: it does not ask for a fresh lease, but for the
\* WorkItem status 'running' (or 'needs_attention' once execution stopped).
CanInterrupt(r) ==
    /\ Owns(r)
    /\ ~act[run[r].action].resv
    /\ LET i == item[Item(r)] IN
         i.status \in {"running"} \cup (IF i.stopped THEN {"needs_attention"} ELSE {})

\* The commits of interruptRun for the Runs in S.
Interrupt(S) ==
    /\ run' = [r \in RunIds |->
         IF r \in S THEN [run[r] EXCEPT !.status = "interrupted"] ELSE run[r]]
    /\ act' = [a \in Actions |->
         IF \E r \in S : run[r].action = a
         THEN [act[a] EXCEPT !.status = IF Retryable(a) THEN "ready" ELSE "failed",
                             !.run = NoRun]
         ELSE act[a]]
    /\ item' = [w \in WorkItems |->
         LET T == {r \in S : Item(r) = w} IN
         IF T = {} THEN item[w]
         ELSE [item[w] EXCEPT !.status =
                 IF item[w].stopped \/ \E r \in T : ~Retryable(run[r].action)
                 THEN "needs_attention" ELSE "ready"]]

-----------------------------------------------------------------------------
(* recoverInterruptedRuns(b): one transaction over the Runs of an earlier    *)
(* boot or with an expired lease.  SQLite returns the rows in no particular  *)
(* order and every row rewrites the WorkItem status that the next one reads. *)

LostRuns_Reserved(b) == {r \in RunIds : /\ run[r].status = "running"
                                        /\ run[r].owner # b \/ ~run[r].fresh}
LostRuns(b) == {r \in RunIds : /\ run[r].status = "running"
                               /\ run[r].owner # b \/ ~run[r].fresh
                               /\ ~act[run[r].action].resv}
Orders(S) == {f \in [S -> 1..Cardinality(S)] :
                \A r, q \in S : f[r] = f[q] => r = q}

StillOwns(r) == LET a == run[r].action IN
    act[a].status = "running" /\ act[a].run = r /\ act[a].epoch = run[r].epoch

\* The Actions after the rows in P.
RecoveredActions(P) ==
    [a \in Actions |->
        IF \E r \in P : run[r].action = a /\ StillOwns(r)
        THEN [act[a] EXCEPT !.status = IF Retryable(a) THEN "ready" ELSE "failed",
                            !.run = NoRun]
        ELSE act[a]]

\* The status of w that row r reads, in the order f.
StatusSeen(f, r, w) ==
    LET P == {q \in DOMAIN f : f[q] < f[r]} IN
    IF \E q \in P : Item(q) = w
    THEN LET last == CHOOSE q \in P : Item(q) = w /\ \A p \in P : Item(p) = w => f[p] <= f[q]
         IN  Stored(item[w], GraphStatus(RecoveredActions({q \in P : f[q] <= f[last]}), w))
    ELSE item[w].status

WasCurrent(f, r) == StillOwns(r) /\ StatusSeen(f, r, Item(r)) = "running"

RecoverInOrder(f) ==
    LET rows == DOMAIN f
        A == RecoveredActions(rows)
        \* rows that call #enqueueDynamicReconciliation when nothing is runnable
        wakes(w) == \E r \in rows :
            /\ Item(r) = w
            /\ WasCurrent(f, r)
            /\ ~Retryable(run[r].action)
            /\ ~Runnable(RecoveredActions({q \in rows : f[q] <= f[r]}), w)
        recovered(w) == [item[w] EXCEPT !.status = Stored(item[w], GraphStatus(A, w))]
    IN  /\ run' = [r \in RunIds |->
             IF r \notin rows THEN run[r]
             ELSE [run[r] EXCEPT !.status =
                     IF WasCurrent(f, r) THEN "interrupted"
                     ELSE IF StatusSeen(f, r, Item(r)) = "cancelled" THEN "cancelled"
                     ELSE "superseded"]]
        /\ act' = A
        /\ item' = [w \in WorkItems |->
             IF ~\E r \in rows : Item(r) = w THEN item[w]
             ELSE IF wakes(w) /\ item[w].ledger \notin item[w].reconciled
                  THEN [recovered(w) EXCEPT !.mail = @ + 1,
                                            !.reconciled = @ \cup {item[w].ledger}]
                  ELSE recovered(w)]

Recover(b) == \E f \in Orders(LostRuns(b)) : RecoverInOrder(f)

\* The executors to abort after a recovery, `also' whatever it found.
Doomed_OnlyRecovered(also, lost) ==
    {r \in RunIds : /\ lost # {}
                    /\ ~(OwnsIn(item', act', run', r) /\ run[r].owner = boot /\ run[r].fresh)}
Doomed(also, lost) ==
    also \cup {r \in RunIds :
                 /\ lost # {}
                 /\ ~(OwnsIn(item', act', run', r) /\ run[r].owner = boot /\ run[r].fresh)}

\* watcher.#recoverExpiredRuns: after a recovery that found something, the
\* executors whose Run is no longer active are aborted.
RecoverExpiredRuns(also) ==
    /\ Recover(boot)
    /\ exec' = [r \in RunIds |->
         IF exec[r] = "live" /\ r \in Doomed(also, LostRuns(boot))
         THEN "aborted" ELSE exec[r]]

-----------------------------------------------------------------------------
(* The watcher *)

\* Entry of tick(): single flight, recovery before claiming.
TickStart ==
    /\ life = "running" /\ tick = "idle"
    /\ tick' = "loop"
    /\ RecoverExpiredRuns({})
    /\ UNCHANGED <<boot, watch, ops>>

InWorkspace(a, b) == WorkspaceOf[ItemOf[a]] = WorkspaceOf[ItemOf[b]]

\* The claim's workspace conflict of a with the running Action b.
Conflict(a, b) ==
    /\ act[b].status = "running"
    /\ InWorkspace(a, b)
    /\ \/ act[a].mode \in {"shared", "integrate"}
       \/ act[b].mode \in {"shared", "integrate"}
       \/ ItemOf[a] # ItemOf[b] /\ act[a].mode # "read" /\ act[b].mode # "read"

\* The rows of claimReadyAction's query that pass isExecutionStopped.
Candidate(a) ==
    /\ act[a].status = "ready" /\ act[a].run = NoRun
    /\ item[ItemOf[a]].status \in LiveStatus
    /\ ~item[ItemOf[a]].stopped
    /\ \A b \in Actions : ~Conflict(a, b)
    /\ (\E r \in RunsOf(a) : run[r].deferred) =>
         ~\E b \in Actions \ {a} : act[b].status = "running" /\ InWorkspace(a, b)

InClaimLoop ==
    /\ tick = "loop" /\ life = "running"
    /\ Cardinality(ActiveRuns) < Limit

\* Run identities are used in the order of the claims.
IsNextRun(r) == ~Used(r) /\ \A q \in RunIds : ~Used(q) => r <= q
NextRun == CHOOSE r \in RunIds : IsNextRun(r)
HasRun == \E r \in RunIds : IsNextRun(r)

\* claimReadyAction, and the call of runner.prepare.
Claim(a) ==
    /\ InClaimLoop /\ HasRun
    /\ Candidate(a) /\ CanAttempt(a)
    /\ act' = [act EXCEPT ![a].status = "running", ![a].attempt = @ + 1,
                          ![a].epoch = @ + 1, ![a].run = NextRun]
    /\ run' = [run EXCEPT ![NextRun] =
         [status |-> "running", action |-> a, owner |-> boot, epoch |-> act[a].epoch + 1,
          gen |-> act[a].gen, fresh |-> TRUE, deferred |-> FALSE]]
    /\ item' = [item EXCEPT ![ItemOf[a]].status = Stored(item[ItemOf[a]], "running")]
    /\ tick' = "preparing"
    /\ exec' = [exec EXCEPT ![NextRun] = "preparing"]
    /\ UNCHANGED <<boot, watch, ops>>

\* ResourceControl.stop: admission is closed, the Runs keep their leases.
StopItem(w, a) ==
    item' = [item EXCEPT ![w].stopped = TRUE, ![w].exhausted = a,
                         ![w].status = IF @ = "cancelled" THEN @ ELSE "needs_attention"]

\* A candidate met by the claim that has used up its lifetime attempts.
ClaimStops(a) ==
    /\ InClaimLoop
    /\ Candidate(a) /\ ~CanAttempt(a)
    /\ StopItem(ItemOf[a], a)
    /\ UNCHANGED <<act, run, boot, watch, tick, exec, ops>>

\* The loop ends: stopped, at the limit, or nothing to claim.
TickEnd ==
    /\ tick = "loop"
    /\ InClaimLoop => \A a \in Actions : ~Candidate(a) \/ (CanAttempt(a) /\ ~HasRun)
    /\ tick' = "idle"
    /\ UNCHANGED <<db, boot, watch, exec, ops>>

\* The modes whose preparation writes to the store under the Run's fence.
PreparedModes == {"isolated-write", "integrate"}
Preparing(r) == tick = "preparing" /\ exec[r] = "preparing"

\* The Run rebound to the Action's next generation.
Rebound_Missing(r) == run
Rebound(r) == [run EXCEPT ![r].gen = @ + 1]

\* setActionWorkspaceForRun with workspaceMode 'shared': Action and Run move to
\* the next generation together, and the ready Actions that would have used
\* isolation follow when it was the isolation that failed.
FallBack(r) ==
    LET a == run[r].action
        w == ItemOf[a]
        follows(b) == /\ act[a].mode = "isolated-write"
                      /\ b # a /\ ItemOf[b] = w
                      /\ act[b].status = "ready" /\ act[b].run = NoRun
                      /\ act[b].mode \in PreparedModes
    IN  /\ act' = [b \in Actions |->
             IF b = a \/ follows(b)
             THEN [act[b] EXCEPT !.mode = "shared", !.gen = @ + 1, !.result = NoRun,
                                 !.resv = FALSE]
             ELSE act[b]]
        /\ run' = Rebound(r)
        /\ UNCHANGED item

\* Another Action runs in the workspace r wants to use directly.
Busy_Unchecked(r) == FALSE
Busy(r) == \E b \in Actions \ {run[r].action} :
    act[b].status = "running" /\ InWorkspace(run[r].action, b)

\* runner.prepare returns.  An integration whose sources all ran in the shared
\* workspace falls back to it; an isolated Action does without a Git worktree.
Prepare(r) ==
    /\ Preparing(r)
    /\ LET a == run[r].action IN
         \/ act[a].mode \notin PreparedModes /\ UNCHANGED db
         \/ act[a].mode \in PreparedModes /\ IsActiveRun(r) /\ UNCHANGED db
         \/ act[a].mode = "isolated-write" /\ IsActiveRun(r) /\ ~Busy(r) /\ FallBack(r)
         \/ /\ act[a].mode = "integrate" /\ IsActiveRun(r)
            /\ \E b \in ActionsOf(ItemOf[a]) : act[b].mode = "shared" /\ act[b].status = "completed"
            /\ FallBack(r)
    /\ exec' = [exec EXCEPT ![r] = "prepared"]
    /\ UNCHANGED <<boot, watch, tick, ops>>

\* #startClaim.
StartClaim(r) ==
    /\ tick = "preparing" /\ exec[r] = "prepared" /\ life = "running"
    /\ exec' = [exec EXCEPT ![r] = "live"]
    /\ tick' = "loop"
    /\ UNCHANGED <<db, boot, watch, ops>>

\* The isolation fell back while the workspace is busy: deferRun gives the
\* attempt back.  When deferRun finds the lease lost the tick throws.
PrepareDeferred(r) ==
    LET a == run[r].action
        w == ItemOf[a]
        A == [act EXCEPT ![a].status = "ready", ![a].run = NoRun,
                         ![a].attempt = IF @ > 0 THEN @ - 1 ELSE 0]
    IN  /\ Preparing(r) /\ life = "running"
        /\ act[a].mode = "isolated-write" /\ IsActiveRun(r) /\ Busy(r)
        /\ run' = [run EXCEPT ![r].status = "interrupted", ![r].deferred = TRUE]
        /\ act' = A
        /\ item' = [item EXCEPT ![w].status = Stored(item[w], GraphStatus(A, w))]
        /\ exec' = [exec EXCEPT ![r] = "none"]
        /\ tick' = "idle"
        /\ UNCHANGED <<boot, watch, ops>>

\* Any other failure of prepare is submitted; a stale submit ends the tick.
PrepareFails(r, outcome) ==
    /\ Preparing(r) /\ life = "running"
    /\ act[run[r].action].mode \in PreparedModes
    /\ outcome = "retryable" => act[run[r].action].mode = "integrate"
    /\ IF IsActiveRun(r)
       THEN Finalize(r, outcome) /\ tick' = "loop"
       ELSE UNCHANGED db /\ tick' = "idle"
    /\ exec' = [exec EXCEPT ![r] = "none"]
    /\ UNCHANGED <<boot, watch, ops>>

\* stop() overtook the preparation: interruptRun, or its exception.
PrepareStopped(r) ==
    /\ tick = "preparing" /\ exec[r] \in {"preparing", "prepared"} /\ life # "running"
    /\ IF CanInterrupt(r) THEN Interrupt({r}) ELSE UNCHANGED db
    /\ exec' = [exec EXCEPT ![r] = "none"]
    /\ tick' = "idle"
    /\ UNCHANGED <<boot, watch, ops>>

-----------------------------------------------------------------------------
(* The executors *)

\* #execute: runner.run ends and controller.submit commits the outcome; the
\* "stale" exception of a Run that lost its fence is swallowed.
Submit(r, outcome) ==
    /\ exec[r] = "live"
    /\ IF IsActiveRun(r) THEN Finalize(r, outcome) ELSE UNCHANGED db
    /\ exec' = [exec EXCEPT ![r] = "none"]
    /\ UNCHANGED <<boot, watch, tick, ops>>

\* An aborted executor returns without submitting.
ExecutorEnds(r) ==
    /\ exec[r] = "aborted"
    /\ exec' = [exec EXCEPT ![r] = "none"]
    /\ UNCHANGED <<db, boot, watch, tick, ops>>

\* The renewal interval of #startClaim when renewLease refuses; it runs until
\* the executor has returned, aborted or not.
RenewalFails(r) ==
    /\ r \in ActiveRuns /\ ~IsActiveRun(r)
    /\ RecoverExpiredRuns({r})
    /\ UNCHANGED <<boot, watch, tick, ops>>

\* No renewal came in time (event loop blocked, machine suspended, or dead).
\* A reservation extends its Run's lease to its own end, so both end together.
LeaseExpires(r) ==
    /\ run[r].status = "running" /\ run[r].fresh
    /\ ~act[run[r].action].resv
    /\ run' = [run EXCEPT ![r].fresh = FALSE]
    /\ UNCHANGED <<item, act, boot, watch, tick, exec, ops>>

ReservationExpires(a) ==
    /\ act[a].resv
    /\ act' = [act EXCEPT ![a].resv = FALSE]
    /\ run' = IF act[a].run = NoRun THEN run ELSE [run EXCEPT ![act[a].run].fresh = FALSE]
    /\ UNCHANGED <<item, boot, watch, tick, exec, ops>>

-----------------------------------------------------------------------------
(* Watcher stop and start, process crash and start *)

AbortAll == [r \in RunIds |-> IF exec[r] = "live" THEN "aborted" ELSE exec[r]]

\* stop() up to the await of the tick in flight.  One call at a time.
Stop ==
    /\ life # "down" /\ halting = "none"
    /\ ops.stops < MaxStops /\ ops' = [ops EXCEPT !.stops = @ + 1]
    /\ life' = "stopping" /\ timer' = FALSE /\ halting' = "tick"
    /\ stopping' = ActiveRuns
    /\ exec' = AbortAll
    /\ UNCHANGED <<db, boot, tick>>

\* stop() after that tick: executors started meanwhile are captured too.
StopCapture ==
    /\ halting = "tick" /\ tick = "idle"
    /\ halting' = "runs"
    /\ stopping' = stopping \cup ActiveRuns
    /\ exec' = AbortAll
    /\ UNCHANGED <<db, boot, life, timer, tick, ops>>

\* The Runs for which stop()'s loop over interruptRun commits: for a WorkItem
\* that is not stopped the first one moves its status away from 'running' and
\* the others throw.
InterruptedByStop ==
    {r \in stopping :
        /\ CanInterrupt(r)
        /\ item[Item(r)].stopped \/ \A q \in stopping :
             CanInterrupt(q) /\ Item(q) = Item(r) => r <= q}

\* stop() after every captured executor settled.
StopFinish ==
    /\ halting = "runs" /\ stopping \cap ActiveRuns = {}
    /\ Interrupt(InterruptedByStop)
    /\ life' = "idle" /\ halting' = "none" /\ stopping' = {}
    /\ UNCHANGED <<boot, timer, tick, exec, ops>>

\* start() looks only at the timer.
StartWatcher ==
    /\ life # "down" /\ ~timer
    /\ ops.stops < MaxStops /\ ops' = [ops EXCEPT !.stops = @ + 1]
    /\ life' = "running" /\ timer' = TRUE
    /\ UNCHANGED <<db, boot, halting, tick, exec, stopping>>

Halt ==
    /\ life' = "down" /\ timer' = FALSE /\ halting' = "none" /\ stopping' = {}
    /\ tick' = "idle"
    /\ exec' = [r \in RunIds |-> "none"]
    /\ UNCHANGED <<boot, ops>>

Crash ==
    /\ life # "down" /\ boot < MaxBoot
    /\ Halt
    /\ UNCHANGED db

\* The process dies between acquireIntegrationFinalization and
\* finishIntegrationFinalization: only then do others see the reservation.
CrashInIntegration(r) ==
    /\ Preparing(r) /\ boot < MaxBoot
    /\ act[run[r].action].mode = "integrate" /\ IsActiveRun(r)
    /\ act' = [act EXCEPT ![run[r].action].resv = TRUE]
    /\ run' = [run EXCEPT ![r].fresh = TRUE]
    /\ Halt
    /\ UNCHANGED item

\* WorkCenterService's constructor: a new boot id, then recovery.
Boot ==
    /\ life = "down"
    /\ boot' = boot + 1
    /\ Recover(boot + 1)
    /\ life' = "running" /\ timer' = TRUE
    /\ UNCHANGED <<halting, tick, exec, stopping, ops>>

-----------------------------------------------------------------------------
(* Commands of the user, through WorkCenterService.handle *)

Command ==
    /\ life # "down"
    /\ ops.commands < MaxCommands
    /\ ops' = [ops EXCEPT !.commands = @ + 1]

Wake(i) == [i EXCEPT !.mail = @ + 1]
Become(i, s) == [i EXCEPT !.status = Stored(i, s)]

\* startWorkItemAtomic.
StartItem(w) ==
    /\ life # "down"
    /\ item[w].status = "draft"
    /\ item' = [item EXCEPT ![w] = Wake(Become(@, "running"))]
    /\ UNCHANGED <<act, run, boot, watch, tick, exec, ops>>

\* updateWorkItemAtomic with a changed contract.
UpdateItem(w) ==
    /\ Command
    /\ item[w].status \notin {"done", "cancelled"} /\ ~Reserved(w)
    /\ item' = [item EXCEPT ![w] = [Wake(Become(item[w], "running")) EXCEPT !.rev = @ + 1]]
    /\ act' = InvalidatedActions(w, "superseded")
    /\ run' = InvalidatedRuns(w, "superseded")
    /\ exec' = AbortInvalid(item', act', run', w)
    /\ UNCHANGED <<boot, watch, tick>>

\* cancelWorkItemAtomic.
CancelItem(w) ==
    /\ Command
    /\ item[w].status \notin {"done", "cancelled"} /\ ~Reserved(w)
    /\ item' = [item EXCEPT ![w].status = "cancelled"]
    /\ act' = InvalidatedActions(w, "cancelled")
    /\ run' = InvalidatedRuns(w, "cancelled")
    /\ exec' = AbortInvalid(item', act', run', w)
    /\ UNCHANGED <<boot, watch, tick>>

\* resumeWorkItemAtomic: clears the stop, retires the mailbox entry of a
\* thinking Coordinator turn, and hands the WorkItem back to the Coordinator.
ResumeItem(w) ==
    LET i == item[w] IN
    /\ Command
    /\ i.status = "cancelled" \/ i.stopped
    /\ i.stopped => ~Reserved(w)
    /\ i.exhausted # NoAction => CanAttempt(i.exhausted)
    /\ \E retired \in {n \in {0, 1} : n <= i.mail} :
         item' = [item EXCEPT ![w] =
            [i EXCEPT !.stopped = FALSE, !.exhausted = NoAction, !.status = "running",
                      !.mail = @ - retired + 1]]
    /\ act' = [a \in Actions |->
         IF ItemOf[a] = w /\ act[a].status = "cancelled"
         THEN [act[a] EXCEPT !.status = "superseded", !.epoch = @ + 1, !.run = NoRun]
         ELSE IF ItemOf[a] = w /\ i.stopped /\ act[a].status \in Unfinished
         THEN [act[a] EXCEPT !.status = "superseded", !.epoch = @ + 2, !.run = NoRun]
         ELSE act[a]]
    /\ run' = IF i.stopped THEN InvalidatedRuns(w, "cancelled") ELSE run
    /\ exec' = AbortInvalid(item', act', run', w)
    /\ UNCHANGED <<boot, watch, tick>>

\* The next generation of an Action, ready to run.
Restarted(row) ==
    [row EXCEPT !.status = "ready", !.attempt = 0, !.gen = @ + 1, !.run = NoRun,
                !.result = NoRun, !.resv = FALSE]

\* retryWorkItemAtomic: the WorkItem status is left alone.
RetryAction(a) ==
    /\ Command
    /\ item[ItemOf[a]].status \in LiveStatus
    /\ act[a].status \in {"waiting", "failed"} /\ act[a].run = NoRun
    /\ act' = [act EXCEPT ![a] = Restarted(@)]
    /\ exec' = AbortInvalid(item, act', run, ItemOf[a])
    /\ UNCHANGED <<item, run, boot, watch, tick>>

\* addActionGuidance: restarts the Action, superseding a Run in progress.  It
\* does not look at an integration reservation.
GuideAction(a) ==
    /\ Command
    /\ item[ItemOf[a]].status \in LiveStatus
    /\ act[a].status \in {"ready", "running", "waiting"}
    /\ act' = [act EXCEPT ![a] =
         [Restarted(act[a]) EXCEPT !.epoch = IF act[a].status = "running" THEN @ + 1 ELSE @]]
    /\ run' = IF act[a].status = "running" /\ act[a].run # NoRun
              THEN [run EXCEPT ![act[a].run].status = IF @ = "running" THEN "superseded" ELSE @]
              ELSE run
    /\ item' = [item EXCEPT ![ItemOf[a]] = Become(@, "ready")]
    /\ exec' = AbortInvalid(item', act', run', ItemOf[a])
    /\ UNCHANGED <<boot, watch, tick>>

\* ResourceControl.extend with maxActionAttempts.
ExtendAttempts(w) ==
    /\ Command
    /\ item' = [item EXCEPT ![w].ext = @ + 1]
    /\ UNCHANGED <<act, run, boot, watch, tick, exec>>

\* ResourceControl.reserve refuses a request and stops the WorkItem.
StopExecution(w) ==
    /\ Command
    /\ item[w].status \notin {"done", "cancelled"} /\ ~item[w].stopped
    /\ StopItem(w, NoAction)
    /\ UNCHANGED <<act, run, boot, watch, tick, exec>>

\* ResourceControl.settle of a request that exceeds the token limit.  It asks
\* neither for the Run's fence nor for the WorkItem's status: the request of an
\* executor that lost its Run can stop a WorkItem that is done.
SettleExceeds(w) ==
    /\ Command
    /\ ~item[w].stopped
    /\ item[w].status = "done" => \E r \in ActiveRuns : run[r].action \in ActionsOf(w)
    /\ StopItem(w, NoAction)
    /\ UNCHANGED <<act, run, boot, watch, tick, exec>>

-----------------------------------------------------------------------------
(* Decisions of the Coordinator (completeCoordinatorTurn).  A turn is an     *)
(* automatic one, woken by the mailbox, or answers a message of the user.    *)
(* Its fences make it fail when the WorkItem or an open Action changed since *)
(* it began, so a turn that commits is one step.                             *)

Open(w) == {a \in ActionsOf(w) : act[a].status \in Unfinished}

\* Planning and completing bound themselves; the other turns are counted.
Turn(counted) ==
    /\ life # "down"
    /\ counted => ops.decisions < MaxDecisions
    /\ ops' = [ops EXCEPT !.decisions = IF counted THEN @ + 1 ELSE @]

Decision(w, auto) ==
    /\ ~item[w].stopped
    /\ item[w].status \notin {"done", "cancelled"}
    /\ ~Reserved(w)
    /\ auto => /\ item[w].mail > 0
               /\ \A a \in ActionsOf(w) : act[a].status # "running"

\* The pending mailbox entries once a turn acknowledged its own.
Acked_Always(mail, auto) == mail - 1
Acked(mail, auto) == IF auto THEN mail - 1 ELSE mail

\* The WorkItem after the decision: status s, mailbox entry acknowledged, and
\* the contract revised when the decision refines it.
Decided(w, auto, refine, s) ==
    [item EXCEPT ![w] = [Become(item[w], s) EXCEPT !.mail = Acked(@, auto),
                                                   !.rev = IF refine THEN @ + 1 ELSE @]]

\* The Actions a plan can still create, in sequence order.
Creatable(w) ==
    LET absent == {a \in ActionsOf(w) : act[a].status = "absent"} IN
    {N \in SUBSET absent : N # {} /\ \A a \in N, b \in absent : b < a => b \in N}

Closed(A, S, s) ==
    [a \in Actions |-> IF a \in S THEN [A[a] EXCEPT !.status = s, !.epoch = @ + 1,
                                                    !.run = NoRun]
                       ELSE A[a]]

\* create_actions.  Only a user's turn may refine the contract, and then the
\* whole plan in progress is invalidated first.
CreateActions(w, auto, refine) ==
    /\ Turn(refine) /\ Decision(w, auto)
    /\ refine => ~auto
    /\ \E N \in Creatable(w), C \in SUBSET Open(w), S \in SUBSET Open(w) :
         /\ C \cap S = {}
         /\ refine => C = {} /\ S = {}
         /\ ~refine => \A a \in ActionsOf(w) : act[a].status # "running"
         /\ \A a \in C : act[a].status \in {"waiting", "failed"}
         /\ \A a \in S : act[a].status \in {"ready", "waiting", "failed"}
         /\ LET kept == IF refine THEN InvalidatedActions(w, "superseded")
                        ELSE Closed(Closed(act, C, "closed"), S, "superseded")
                rev == IF refine THEN item[w].rev + 1 ELSE item[w].rev
            IN  act' = [a \in Actions |->
                          IF a \in N THEN [kept[a] EXCEPT !.status = "ready", !.rev = rev]
                          ELSE kept[a]]
    /\ run' = IF refine THEN InvalidatedRuns(w, "superseded") ELSE run
    /\ item' = Decided(w, auto, refine, "ready")
    /\ exec' = IF auto THEN exec ELSE AbortInvalid(item', act', run', w)
    /\ UNCHANGED <<boot, watch, tick>>

\* guide_actions.
GuideActions(w, auto) ==
    /\ Turn(TRUE) /\ Decision(w, auto)
    /\ \E G \in SUBSET {a \in Open(w) : act[a].status # "running"} :
         /\ G # {}
         /\ act' = [a \in Actions |->
              IF a \in G THEN [Restarted(act[a]) EXCEPT !.rev = item[w].rev] ELSE act[a]]
    /\ item' = Decided(w, auto, FALSE, "ready")
    /\ UNCHANGED <<run, boot, watch, tick, exec>>

\* request_human.
RequestHuman(w, auto, refine) ==
    /\ Turn(TRUE) /\ Decision(w, auto)
    /\ refine => ~auto
    /\ act' = IF refine THEN InvalidatedActions(w, "superseded") ELSE act
    /\ run' = IF refine THEN InvalidatedRuns(w, "superseded") ELSE run
    /\ item' = Decided(w, auto, refine, "waiting")
    /\ exec' = IF auto THEN exec ELSE AbortInvalid(item', act', run', w)
    /\ UNCHANGED <<boot, watch, tick>>

\* A completed Action of the current contract with its canonical Run
\* (currentGoalRuns, runMatchesActionIdentity).
Evidence_AnyContract(w) == {a \in ActionsOf(w) : act[a].status = "completed"}
Evidence(w) ==
    {a \in ActionsOf(w) :
        /\ act[a].status = "completed" /\ act[a].rev = item[w].rev
        /\ act[a].result # NoRun
        /\ run[act[a].result].status = "completed"
        /\ run[act[a].result].action = a
        /\ run[act[a].result].gen = act[a].gen}

\* complete: closes the waiting and failed Actions and needs current evidence.
Complete(w, auto) ==
    /\ Turn(FALSE) /\ Decision(w, auto)
    /\ \A a \in Open(w) : act[a].status \in {"waiting", "failed"}
    /\ Evidence(w) # {}
    /\ act' = Closed(act, Open(w), "closed")
    /\ item' = Decided(w, auto, FALSE, "done")
    /\ UNCHANGED <<run, boot, watch, tick, exec>>

\* answer: only the mailbox entry is acknowledged.
Answer(w) ==
    /\ Turn(TRUE) /\ Decision(w, TRUE)
    /\ item' = [item EXCEPT ![w].mail = @ - 1]
    /\ UNCHANGED <<act, run, boot, watch, tick, exec>>

-----------------------------------------------------------------------------
WatcherStep ==
    \/ TickStart
    \/ TickEnd
    \/ \E a \in Actions : Claim(a) \/ ClaimStops(a)
    \/ \E r \in RunIds : Prepare(r) \/ StartClaim(r) \/ PrepareDeferred(r) \/ PrepareStopped(r)
    \/ \E r \in RunIds, o \in {"failed", "retryable"} : PrepareFails(r, o)

ExecutorStep ==
    \E r \in RunIds : \/ \E o \in Outcomes : Submit(r, o)
                      \/ ExecutorEnds(r)
                      \/ RenewalFails(r)

LifecycleStep == Stop \/ StopCapture \/ StopFinish \/ StartWatcher \/ Boot

UserStep ==
    \/ \E w \in WorkItems : \/ StartItem(w) \/ UpdateItem(w) \/ CancelItem(w)
                            \/ ResumeItem(w) \/ ExtendAttempts(w)
                            \/ StopExecution(w) \/ SettleExceeds(w)
    \/ \E a \in Actions : RetryAction(a) \/ GuideAction(a)

CoordinatorStep ==
    \E w \in WorkItems :
        \/ \E auto, refine \in BOOLEAN : CreateActions(w, auto, refine) \/ RequestHuman(w, auto, refine)
        \/ \E auto \in BOOLEAN : GuideActions(w, auto) \/ Complete(w, auto)
        \/ Answer(w)

FailureStep ==
    \/ Crash
    \/ \E r \in RunIds : CrashInIntegration(r) \/ LeaseExpires(r)
    \/ \E a \in Actions : ReservationExpires(a)

Next == WatcherStep \/ ExecutorStep \/ LifecycleStep \/ UserStep \/ CoordinatorStep \/ FailureStep

Spec == Init /\ [][Next]_vars

\* What scheduling provides: the watcher's interval timer and its synchronous
\* preparation, the renewal interval of every executor, a runner that returns
\* once its signal is aborted, the continuation of stop(), and time passing.
\* Nothing is assumed of users, Coordinator, failures or process restart.
Fairness ==
    /\ WF_vars(WatcherStep)
    /\ WF_vars(StopCapture)
    /\ WF_vars(StopFinish)
    /\ \A r \in RunIds : WF_vars(RenewalFails(r)) /\ WF_vars(ExecutorEnds(r))
    /\ \A a \in Actions : WF_vars(ReservationExpires(a))

FairSpec == Spec /\ Fairness

-----------------------------------------------------------------------------
(* Properties *)

\* The types of the tables and of the watcher's state.
TypeOK ==
    /\ item \in [WorkItems -> ItemRows]
    /\ act \in [Actions -> ActionRows]
    /\ run \in [RunIds -> RunRows]
    /\ boot \in Nat
    /\ life \in {"down", "running", "stopping", "idle"}
    /\ timer \in BOOLEAN
    /\ halting \in {"none", "tick", "runs"}
    /\ tick \in {"idle", "loop", "preparing"}
    /\ exec \in [RunIds -> ExecStates]
    /\ stopping \subseteq RunIds
    /\ ops \in [commands : Nat, decisions : Nat, stops : Nat]

\* A Run is running exactly while its Action is running under that Run, with
\* the Run's lease epoch and generation: no path of claim, finalization,
\* interruption, recovery, guidance or invalidation ends one half only.
RunFence ==
    /\ \A r \in RunIds : run[r].status = "running" =>
         /\ run[r].action \in Actions
         /\ act[run[r].action].status = "running"
         /\ act[run[r].action].run = r
         /\ act[run[r].action].epoch = run[r].epoch
         /\ act[run[r].action].gen = run[r].gen
    /\ \A a \in Actions : act[a].status = "running" =>
         /\ act[a].run \in RunIds
         /\ run[act[a].run].status = "running"
         /\ run[act[a].run].action = a
    /\ \A a \in Actions : act[a].run # NoRun => act[a].status = "running"

\* Running Actions never clash over a workspace: a shared or integrating
\* Action is alone in it, and writers of two WorkItems never meet, even though
\* an isolated Action may turn into a shared one after it was claimed.
WorkspaceExclusion ==
    \A a, b \in Actions :
        a # b /\ act[a].status = "running" => ~Conflict(a, b)

\* A completed Action names the Run that completed it in its present
\* generation, whatever was restarted, retried or recovered before.
ResultIsCanonical ==
    \A a \in Actions :
        act[a].status = "completed" =>
            /\ act[a].result \in RunIds
            /\ run[act[a].result].status = "completed"
            /\ run[act[a].result].action = a
            /\ run[act[a].result].gen = act[a].gen

\* A done or cancelled WorkItem has no Action left that could run or be taken
\* up again, also after contract changes, resumes and partial recoveries.
ClosedItemIsQuiet ==
    \A w \in WorkItems :
        item[w].status \in {"done", "cancelled"} =>
            \A a \in ActionsOf(w) :
                act[a].status \notin {"ready", "running", "waiting", "failed"}

\* A WorkItem is done only on the evidence of a completed Action of the
\* contract it has now, and only the Coordinator's complete makes it so.
DoneHasEvidence ==
    \A w \in WorkItems : item[w].status = "done" =>
        \E a \in ActionsOf(w) :
            /\ act[a].status = "completed" /\ act[a].rev = item[w].rev
            /\ \E r \in RunsOf(a) : run[r].status = "completed" /\ run[r].gen = act[a].gen

\* A deliver Action whose Run was interrupted by a crash, an expired lease or
\* a watcher stop is not run again in the same generation.
NoBlindRedelivery ==
    \A a \in DeliverActions : \A r, q \in RunsOf(a) :
        /\ r < q
        /\ run[r].status \in {"interrupted", "superseded"}
        /\ ~run[r].deferred
        => run[r].gen < run[q].gen

\* Automatic reruns stop at max_attempts: an Action waiting to be claimed still
\* has an attempt left, and deferral never lets it exceed them.
AttemptsBounded ==
    \A a \in Actions :
        /\ act[a].attempt <= MaxAttempts
        /\ act[a].status = "ready" => act[a].attempt < MaxAttempts

\* History is final: an ended Run keeps its outcome, completed, closed and
\* superseded Actions stay so, however late a submit comes, and the only way
\* out of done is that the execution is stopped.
HistoryIsFinal ==
    [][/\ \A r \in RunIds : run[r].status \notin {"unused", "running"} => run'[r] = run[r]
       /\ \A a \in Actions : act[a].status \in {"completed", "closed", "superseded"} =>
            act'[a].status = act[a].status /\ act'[a].result = act[a].result
       /\ \A w \in WorkItems : item[w].status = "done" =>
            item'[w].status = "done" \/ item'[w].stopped]_vars

\* While an integration reservation is active nobody takes the Action from its
\* Run, except guidance by the user, which moves it to the next generation.
ReservationHolds ==
    [][\A a \in Actions : act[a].resv /\ act'[a].run # act[a].run =>
         act'[a].gen > act[a].gen]_vars

\* A Run that was lost, because its process died, its lease expired or it was
\* taken from its executor, is let go on both sides, as long as the watcher
\* keeps running: its row ends and its executor has stopped.
LostRunIsLetGo ==
    \A r \in RunIds :
        \/ exec[r] = "live" /\ ~IsActiveRun(r)
        \/ run[r].status = "running" /\ (run[r].owner # boot \/ ~run[r].fresh)
        ~>
        \/ run[r].status # "running" /\ exec[r] \notin {"live", "aborted"}
        \/ life \in {"idle", "down"}

-----------------------------------------------------------------------------
(* What the documentation, a comment or a test says and the code does not do *)

\* A Run that ends and leaves a live WorkItem without anything to run leaves
\* a wake for the Coordinator in the mailbox.
ExhaustionWakesCoordinator ==
    [][\A w \in WorkItems :
         /\ item[w].status \in LiveStatus /\ ~item[w].stopped
         /\ \E r \in RunIds :
              /\ run[r].status = "running" /\ Item(r) = w
              /\ run'[r].status \in {"interrupted"} \cup Outcomes
         /\ ~Runnable(act', w)
         => item'[w].mail > 0]_vars
=============================================================================
