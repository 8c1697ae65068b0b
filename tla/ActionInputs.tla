---------------------------- MODULE ActionInputs ----------------------------
(***************************************************************************)
(* Messages a user adds to one Action of a dynamic WorkItem, and the       *)
(* provider turns that carry them (agent/yeaft/work-center/store.js,       *)
(* runner.js, controller.js, action-identity.js; agent/yeaft/engine.js).   *)
(*                                                                         *)
(* A message for a ready Action goes into its canonical context, which     *)
(* starts a new generation.  A message for a running one becomes a pending *)
(* row of the Run; the Engine drains the rows between requests, an         *)
(* EngineTurn binds them before the request leaves, and its response       *)
(* consumes them.  A Run that is lost leaves its rows to the next claim,   *)
(* which moves them into the context.                                      *)
(*                                                                         *)
(* spec_hash changes exactly when generation does, so the generation       *)
(* stands for the pair.  Drained messages are kept in the order of their   *)
(* events; the order is left out.  A lease lives or has lapsed.            *)
(***************************************************************************)
EXTENDS Integers, Sequences, FiniteSets

CONSTANTS
    Inputs,        \* messages, one per clientMessageId
    MaxRuns,       \* bound on the Runs of the Action
    MaxAttempts,   \* max_attempts of the Action
    Loads          \* bounds: the messages that are sent; "command" counts
                   \* restarts and ends of the Action and stops; "fault" counts
                   \* answers that call tools or break off, crashes, and leases
                   \* that a live executor loses

ASSUME InputsAssumption ==
    /\ MaxRuns \in Nat /\ MaxAttempts \in Nat \ {0}
    /\ Loads \subseteq [messages : SUBSET Inputs, command : Nat, fault : Nat]

RunIds == 1..MaxRuns
NoRun == 0
LiveStatus == {"ready", "running", "waiting", "needs_attention"}
Unfinished == {"ready", "running", "waiting", "failed"}

VARIABLES
    item,    \* the WorkItem: status, and whether execution is stopped
    act,     \* the Action; `result' is result_run_id, `read' is the context
    run,     \* the Runs of the Action
    row,     \* per message: its row in pending_action_inputs, and in `event'
             \* the last generation an input_added or input_rebound event names
    turn,    \* per Run: its engine_turns in order
    exec,    \* per Run: the Engine loop that executes it, in memory
    up,      \* the Agent process is running
    known,   \* per Run: the messages its answered requests contained
    dropped, \* messages that a restart of the Action left out
    left     \* what is left of the bounds

vars == <<item, act, run, row, turn, exec, up, known, dropped, left>>

Idle == [pc |-> "none", prompt |-> {}, said |-> {}, new |-> {}, open |-> FALSE]

Init ==
    /\ item = [status |-> "ready", stopped |-> FALSE]
    /\ act = [status |-> "ready", gen |-> 1, context |-> {}, run |-> NoRun,
              attempt |-> 0, isolated |-> TRUE, result |-> NoRun]
    /\ run = [r \in RunIds |-> [status |-> "unused", gen |-> 0,
                                accepting |-> FALSE, fresh |-> FALSE]]
    /\ row = [i \in Inputs |-> [state |-> "none", run |-> NoRun, gen |-> 0, event |-> 0]]
    /\ turn = [r \in RunIds |-> <<>>]
    /\ exec = [r \in RunIds |-> Idle]
    /\ up = TRUE
    /\ known = [r \in RunIds |-> {}]
    /\ dropped = {}
    /\ left \in Loads

May(c) == left[c] > 0 /\ left' = [left EXCEPT ![c] = @ - 1]
FaultIf(cond) == IF cond THEN May("fault") ELSE UNCHANGED left

-----------------------------------------------------------------------------
(* Reading the tables *)

\* #activeRunRow, without and with the lease.
Owns(r) ==
    /\ run[r].status = "running" /\ act.status = "running" /\ act.run = r
    /\ run[r].gen = act.gen /\ item.status \in LiveStatus
IsActiveRun(r) == Owns(r) /\ run[r].fresh

Waiting == {i \in Inputs : row[i].state = "waiting"}

\* The unconsumed rows of Run r under its own identity.
PendingOf(r) == {i \in Waiting : row[i].run = r /\ row[i].gen = run[r].gen}
listPendingActionInputs(r) == IF IsActiveRun(r) THEN PendingOf(r) ELSE {}

\* An action_entry has no engine_turn_id yet.
Unbound(i) == \A r \in RunIds : \A n \in DOMAIN turn[r] : i \notin turn[r][n].inputs

SourceStopped(i) == row[i].run = NoRun \/ run[row[i].run].status # "running"

\* currentActionInputEventIds: added in, or rebound into, this generation.
CurrentInputs_AnyGeneration == {i \in Inputs : row[i].state # "none"}
CurrentInputs == {i \in Inputs : /\ row[i].state \notin {"none", "superseded"}
                                 /\ row[i].event = act.gen}

\* #supersedePendingActionInputs for the rows S.
Superseded(S) == [i \in Inputs |-> IF i \in S THEN [row[i] EXCEPT !.state = "superseded"]
                                   ELSE row[i]]

\* The trigger work_item_execution_stop_status.
Become(s) == [item EXCEPT !.status = IF item.stopped /\ s # "cancelled"
                                     THEN "needs_attention" ELSE s]

\* The WorkItem status for the status of its only Action.
StatusFor(s) == CASE s = "failed" -> "needs_attention"
                  [] s \in {"ready", "waiting"} -> s
                  [] OTHER -> "running"

-----------------------------------------------------------------------------
(* A user adds message i (controller.input).  A message that was stored is   *)
(* answered from the table: sending it again changes nothing.                *)

Unsent(i) == row[i].state = "none"
CanCommand == up /\ item.status \in LiveStatus

\* addActionInput on a ready Action.
Inherited == {j \in Waiting : row[j].gen = act.gen /\ SourceStopped(j)}

AddToReady(i) ==
    /\ CanCommand /\ Unsent(i)
    /\ act.status = "ready"
    /\ LET next == act.gen + 1 IN
       /\ act' = [act EXCEPT !.context = @ \cup CurrentInputs \cup {i}, !.gen = next,
                             !.attempt = 0, !.result = NoRun]
       /\ row' = [j \in Inputs |->
            IF j = i THEN [state |-> "direct", run |-> NoRun, gen |-> next, event |-> next]
            ELSE IF j \in Inherited
                 THEN [row[j] EXCEPT !.run = NoRun, !.gen = next, !.event = next]
            ELSE IF j \in Waiting THEN [row[j] EXCEPT !.state = "superseded"]
            ELSE row[j]]
    /\ UNCHANGED <<item, run, turn, exec, up, known, dropped, left>>

\* addActionInput on a running Action whose Run still accepts input.
Accepting_Always(r) == run[r].status = "running"
Accepting(r) == run[r].status = "running" /\ run[r].accepting

AddToRunning(i) ==
    /\ CanCommand /\ Unsent(i)
    /\ act.status = "running" /\ Accepting(act.run) /\ run[act.run].gen = act.gen
    /\ row' = [row EXCEPT ![i] = [state |-> "waiting", run |-> act.run,
                                  gen |-> act.gen, event |-> act.gen]]
    /\ UNCHANGED <<item, act, run, turn, exec, up, known, dropped, left>>

\* The Action starts again from a context that keeps only the messages S.
Restart(S) ==
    /\ act' = [act EXCEPT !.status = "ready", !.gen = @ + 1, !.context = S,
                          !.run = NoRun, !.attempt = 0, !.result = NoRun]
    /\ dropped' = dropped \cup {j \in Inputs : ~Unsent(j)}
    /\ UNCHANGED <<turn, exec, up, known>>

\* retryWorkItemAtomic, with the message that answers a settled Action.
AddToSettled(i) ==
    /\ CanCommand /\ Unsent(i) /\ May("command")
    /\ act.status \in {"waiting", "failed"}
    /\ Restart({i})
    /\ row' = [row EXCEPT ![i] = [state |-> "direct", run |-> NoRun,
                                  gen |-> act.gen + 1, event |-> act.gen + 1]]
    /\ UNCHANGED <<item, run>>

\* retryWorkItemAtomic without a message.
Retry ==
    /\ CanCommand /\ May("command")
    /\ act.status = "failed"
    /\ Restart({})
    /\ UNCHANGED <<item, run, row>>

\* addActionGuidance.
AddGuidance ==
    /\ CanCommand /\ May("command")
    /\ act.status \in {"ready", "running", "waiting"}
    /\ Restart({})
    /\ row' = Superseded(Waiting)
    /\ run' = IF act.status = "running"
              THEN [run EXCEPT ![act.run].status = "superseded"] ELSE run
    /\ item' = Become("ready")

\* completeCoordinatorTurn with guide_actions.
GuideActions ==
    /\ CanCommand /\ ~item.stopped /\ May("command")
    /\ act.status \in {"ready", "waiting", "failed"}
    /\ Restart({})
    /\ item' = Become("ready")
    /\ UNCHANGED <<run, row>>

-----------------------------------------------------------------------------
(* The Action ends without a result *)

End(status) ==
    /\ act.status \in Unfinished
    /\ row' = Superseded(Waiting)
    /\ act' = [act EXCEPT !.status = status, !.run = NoRun]
    /\ UNCHANGED <<turn, exec, up, known, dropped>>

\* #invalidateExecution: a Run in progress is cancelled with its Action.
CancelledRuns == [r \in RunIds |-> IF run[r].status = "running"
                  THEN [run[r] EXCEPT !.status = "cancelled", !.accepting = FALSE]
                  ELSE run[r]]

CancelItem ==
    /\ CanCommand /\ May("command")
    /\ End("cancelled")
    /\ run' = CancelledRuns
    /\ item' = Become("cancelled")

StopExecution ==
    /\ CanCommand /\ ~item.stopped /\ May("command")
    /\ item' = [status |-> "needs_attention", stopped |-> TRUE]
    /\ UNCHANGED <<act, run, row, turn, exec, up, known, dropped>>

\* resumeWorkItem after a stop: control returns to the Coordinator.
ResumeExecution ==
    /\ CanCommand /\ item.stopped
    /\ End("superseded")
    /\ run' = CancelledRuns
    /\ item' = [status |-> "running", stopped |-> FALSE]
    /\ UNCHANGED left

\* completeCoordinatorTurn closes or supersedes an Action that does not run.
CloseAction(status) ==
    /\ CanCommand /\ ~item.stopped /\ May("command")
    /\ \/ act.status \in {"waiting", "failed"}
       \/ status = "superseded" /\ act.status = "ready"
    /\ End(status)
    /\ UNCHANGED <<item, run>>

-----------------------------------------------------------------------------
(* Claiming *)

NextRun == CHOOSE r \in RunIds : /\ run[r].status = "unused"
                                 /\ \A q \in RunIds : run[q].status = "unused" => r <= q
HasRun == \E r \in RunIds : run[r].status = "unused"

\* The rows promoteReadyActionInputs moves into the context: consumed ones of
\* an earlier Run too, whose answers the next Run does not see.
Promoted_Unconsumed ==
    {i \in Waiting : row[i].gen = act.gen /\ SourceStopped(i)}
Promoted_RunLess == {i \in Waiting : row[i].gen = act.gen /\ row[i].run = NoRun}
Promoted ==
    {i \in Inputs : /\ i \in Waiting \/ (row[i].state = "consumed" /\ row[i].run # NoRun)
                    /\ row[i].gen = act.gen /\ SourceStopped(i)}

\* claimReadyAction.  Nothing is left to rebind to the new Run.
Claim ==
    /\ up /\ act.status = "ready" /\ item.status \in LiveStatus /\ ~item.stopped
    /\ HasRun
    /\ LET context == act.context \cup Promoted
           changed == context # act.context
           gen == act.gen + (IF changed THEN 1 ELSE 0)
       IN  /\ act' = [act EXCEPT !.status = "running", !.run = NextRun, !.context = context,
                                 !.gen = gen, !.attempt = IF changed THEN 1 ELSE @ + 1]
           /\ row' = [i \in Inputs |-> IF i \in Promoted
                THEN [state |-> "consumed", run |-> NoRun, gen |-> gen, event |-> gen]
                ELSE row[i]]
           /\ run' = [run EXCEPT ![NextRun] = [status |-> "running", gen |-> gen,
                                               accepting |-> TRUE, fresh |-> TRUE]]
           /\ exec' = [exec EXCEPT ![NextRun] = [Idle EXCEPT !.pc = "setup", !.prompt = context]]
    /\ item' = Become("running")
    /\ UNCHANGED <<turn, up, known, dropped, left>>

\* setActionWorkspaceForRun falls back to the shared workspace: the Run keeps
\* its Action under the new identity, and its rows move into the context.
FallBackRow_Waiting(i, gen) == [row[i] EXCEPT !.gen = gen, !.event = gen]
FallBackRow(i, gen) == [row[i] EXCEPT !.gen = gen, !.event = gen, !.state = "consumed"]

FallBack(r) ==
    /\ exec[r].pc = "setup" /\ IsActiveRun(r) /\ act.isolated
    /\ LET context == act.context \cup CurrentInputs
           next == act.gen + 1
       IN  /\ act' = [act EXCEPT !.isolated = FALSE, !.context = context, !.gen = next,
                                 !.result = NoRun]
           /\ run' = [run EXCEPT ![r].gen = next]
           /\ row' = [i \in Inputs |-> IF i \in PendingOf(r) THEN FallBackRow(i, next) ELSE row[i]]
           /\ exec' = [exec EXCEPT ![r].prompt = context, ![r].pc = "loop"]
    /\ UNCHANGED <<item, turn, up, known, dropped, left>>

Start(r) ==
    /\ exec[r].pc = "setup"
    /\ exec' = [exec EXCEPT ![r].pc = "loop"]
    /\ UNCHANGED <<item, act, run, row, turn, up, known, dropped, left>>

-----------------------------------------------------------------------------
(* The Engine loop of a Run *)

Goto(r, pc) == exec' = [exec EXCEPT ![r].pc = pc]

\* `said' is what the conversation contains, once or more often: what is drained
\* after an answer, or because the input could not be closed, stays pending without
\* a turn, and the drain before the next request pushes it again.
TakeIn(r, S, pc) ==
    exec' = [exec EXCEPT ![r].said = @ \cup S, ![r].new = S, ![r].pc = pc]
Table == <<item, act, run, row, turn, up, known, dropped>>

\* The drain before a request.
Drain(r) ==
    /\ exec[r].pc = "loop"
    /\ TakeIn(r, listPendingActionInputs(r), "built")
    /\ UNCHANGED <<Table, left>>

Last(r) == turn[r][Len(turn[r])]
SetLast(r, status) == [turn EXCEPT ![r][Len(turn[r])].status = status]

\* prepareEngineTurn: every drained message is still pending and unbound.  A
\* request whose answer broke off is sent again under the turn it has.
Bindable(r) == exec[r].new \subseteq {i \in PendingOf(r) : Unbound(i)}

PrepareTurn(r) ==
    /\ exec[r].pc = "built"
    /\ IF exec[r].open
       THEN Goto(r, "prepared") /\ UNCHANGED turn
       ELSE IF IsActiveRun(r) /\ Bindable(r)
       THEN /\ turn' = [turn EXCEPT ![r] = Append(@, [status |-> "prepared", inputs |-> exec[r].new])]
            /\ exec' = [exec EXCEPT ![r].open = TRUE, ![r].pc = "prepared"]
       ELSE Goto(r, "failing") /\ UNCHANGED turn
    /\ UNCHANGED <<item, act, run, row, up, known, dropped, left>>

\* failEngineTurn of the open turn: a dispatched request may have been executed.
FailTurn(r) ==
    IF exec[r].open /\ IsActiveRun(r) /\ Last(r).status = "dispatching"
    THEN /\ turn' = SetLast(r, "unknown")
         /\ run' = [run EXCEPT ![r].status = "dispatch_unknown", ![r].accepting = FALSE]
         /\ act' = [act EXCEPT !.status = "failed", !.run = NoRun]
         /\ item' = IF item.status = "running" THEN [item EXCEPT !.status = "needs_attention"]
                    ELSE item
    ELSE UNCHANGED <<turn, run, act, item>>

\* claimEngineTurn, in the same synchronous stretch as the preparation.
ClaimTurn(r) ==
    /\ exec[r].pc = "prepared"
    /\ IF IsActiveRun(r) /\ ~item.stopped /\ Last(r).status \in {"prepared", "dispatching"}
       THEN /\ turn' = SetLast(r, "dispatching")
            /\ Goto(r, "sent")
            /\ UNCHANGED <<item, act, run>>
       ELSE FailTurn(r) /\ exec' = [exec EXCEPT ![r].pc = "failing", ![r].open = FALSE]
    /\ UNCHANGED <<row, up, known, dropped, left>>

InRequest(r) == exec[r].prompt \cup exec[r].said
AfterAnswer(more) == IF more THEN "loop" ELSE "answered"

\* consumeEngineTurn of a complete answer; `more': it calls tools.
ConsumedRow(i) == [row[i] EXCEPT !.state = "consumed"]

Answer(r, more) ==
    /\ exec[r].pc = "sent"
    /\ FaultIf(more)
    /\ IF IsActiveRun(r)
       THEN /\ turn' = SetLast(r, "responded")
            /\ row' = [i \in Inputs |->
                 IF i \in Last(r).inputs /\ row[i].run = r /\ i \in Waiting
                 THEN ConsumedRow(i) ELSE row[i]]
            /\ known' = [known EXCEPT ![r] = @ \cup InRequest(r)]
            /\ exec' = [exec EXCEPT ![r].open = FALSE, ![r].pc = AfterAnswer(more)]
       ELSE /\ exec' = [exec EXCEPT ![r].open = FALSE, ![r].pc = "failing"]
            /\ UNCHANGED <<turn, row, known>>
    /\ UNCHANGED <<item, act, run, up, dropped>>

\* The stream ends without the provider's stop: its text counts as an answer,
\* the turn stays open.
AnswerBreaksOff(r, more) ==
    /\ exec[r].pc = "sent" /\ May("fault")
    /\ Goto(r, AfterAnswer(more))
    /\ known' = [known EXCEPT ![r] = @ \cup InRequest(r)]
    /\ UNCHANGED <<item, act, run, row, turn, up, dropped>>

RequestFails(r) ==
    /\ exec[r].pc = "sent"
    /\ FailTurn(r)
    /\ exec' = [exec EXCEPT ![r].open = FALSE, ![r].pc = "failing"]
    /\ UNCHANGED <<row, up, known, dropped, left>>

\* closeRunInput.
CanClose_Race(r) == IsActiveRun(r) /\ run[r].accepting
CanClose(r) == IsActiveRun(r) /\ PendingOf(r) = {} /\ run[r].accepting
ClosedRun(r) == [run EXCEPT ![r].accepting = FALSE]

\* After an answer without tools: messages that arrived keep the query alive,
\* whether the drain finds them or the refusal to close does.
CloseInput(r) ==
    /\ exec[r].pc = "answered"
    /\ IF CanClose(r) THEN run' = ClosedRun(r) /\ Goto(r, "closed")
       ELSE /\ UNCHANGED run
            /\ LET S == listPendingActionInputs(r) IN
               IF S = {} THEN Goto(r, "failing") ELSE TakeIn(r, S, "loop")
    /\ UNCHANGED <<item, act, row, turn, up, known, dropped, left>>

\* controller.submit of the outcome: finalizeRun.  A Run that cannot close its
\* input is left to its lease.
ActionStatusAfter(outcome) ==
    CASE outcome \in {"completed", "waiting"} -> outcome
      [] outcome = "retryable" /\ act.attempt < MaxAttempts -> "ready"
      [] OTHER -> "failed"

Submit(r, outcome) ==
    /\ exec[r].pc \in {"closed", "failing"}
    /\ exec[r].pc = "failing" => outcome \in {"failed", "retryable"}
    /\ exec' = [exec EXCEPT ![r] = Idle]
    /\ IF IsActiveRun(r) /\ (run[r].accepting => CanClose(r))
       THEN /\ run' = [run EXCEPT ![r].status = outcome, ![r].accepting = FALSE]
            /\ act' = [act EXCEPT !.status = ActionStatusAfter(outcome), !.run = NoRun,
                                  !.result = IF outcome = "completed" THEN r ELSE @]
            /\ item' = Become(StatusFor(ActionStatusAfter(outcome)))
       ELSE UNCHANGED <<run, act, item>>
    /\ UNCHANGED <<row, turn, up, known, dropped, left>>

\* The executor of a Run that was taken away, or stopped, is aborted.
Abort(r) ==
    /\ exec[r].pc \notin {"none", "prepared"}
    /\ ~Owns(r) \/ item.stopped
    /\ exec' = [exec EXCEPT ![r] = Idle]
    /\ IF exec[r].pc = "sent" THEN FailTurn(r) ELSE UNCHANGED <<turn, run, act, item>>
    /\ UNCHANGED <<row, up, known, dropped, left>>

-----------------------------------------------------------------------------
(* Leases, crashes and recovery *)

\* A live executor renews its lease; one that is gone does not.
LeaseExpires(r) ==
    /\ run[r].status = "running" /\ run[r].fresh
    /\ FaultIf(exec[r].pc # "none")
    /\ run' = [run EXCEPT ![r].fresh = FALSE]
    /\ UNCHANGED <<item, act, row, turn, exec, up, known, dropped>>

\* recoverInterruptedRuns in the tables R, A, I for the Runs S.
Recovered(R, A, I, S) ==
    LET owner == A.status = "running" /\ A.run \in S
        next == IF A.attempt < MaxAttempts THEN "ready" ELSE "failed"
    IN  /\ run' = [r \in RunIds |->
             IF r \notin S THEN R[r]
             ELSE [R[r] EXCEPT !.status = IF owner /\ A.run = r /\ I.status = "running"
                                          THEN "interrupted" ELSE "superseded"]]
        /\ act' = IF owner THEN [A EXCEPT !.status = next, !.run = NoRun] ELSE A
        /\ item' = IF owner /\ I.status \in LiveStatus /\ ~I.stopped
                   THEN [I EXCEPT !.status = StatusFor(next)] ELSE I

Recover ==
    LET lost == {r \in RunIds : run[r].status = "running" /\ ~run[r].fresh} IN
    /\ up /\ lost # {}
    /\ Recovered(run, act, item, lost)
    /\ UNCHANGED <<row, turn, exec, up, known, dropped, left>>

Crash ==
    /\ up /\ May("fault")
    /\ up' = FALSE
    /\ exec' = [r \in RunIds |-> Idle]
    /\ UNCHANGED <<item, act, run, row, turn, known, dropped>>

\* recoverEngineTurns, then recoverInterruptedRuns of the earlier boot.
Boot ==
    LET asked == {r \in RunIds : \E n \in DOMAIN turn[r] : turn[r][n].status = "dispatching"}
        R == [r \in RunIds |-> IF r \in asked /\ run[r].status = "running"
              THEN [run[r] EXCEPT !.status = "dispatch_unknown", !.accepting = FALSE] ELSE run[r]]
        A == IF act.status = "running" /\ act.run \in asked
             THEN [act EXCEPT !.status = "failed", !.run = NoRun] ELSE act
        I == IF asked # {} /\ item.status = "running"
             THEN [item EXCEPT !.status = "needs_attention"] ELSE item
    IN  /\ ~up /\ up' = TRUE
        /\ turn' = [r \in RunIds |-> [n \in DOMAIN turn[r] |->
             IF turn[r][n].status = "dispatching"
             THEN [turn[r][n] EXCEPT !.status = "unknown"] ELSE turn[r][n]]]
        /\ Recovered(R, A, I, {r \in RunIds : R[r].status = "running"})
        /\ UNCHANGED <<row, exec, known, dropped, left>>

-----------------------------------------------------------------------------

UserStep ==
    \/ \E i \in left.messages : AddToReady(i) \/ AddToRunning(i) \/ AddToSettled(i)
    \/ Retry \/ AddGuidance \/ CancelItem \/ StopExecution \/ ResumeExecution

CoordinatorStep == GuideActions \/ \E s \in {"closed", "superseded"} : CloseAction(s)

EngineStep(r) ==
    \/ Start(r) \/ FallBack(r) \/ Drain(r) \/ PrepareTurn(r)
    \/ \E more \in BOOLEAN : Answer(r, more)
    \/ RequestFails(r) \/ CloseInput(r)
    \/ \E o \in {"completed", "waiting", "failed", "retryable"} : Submit(r, o)

\* Nothing runs between the preparation of a turn and its claim but a crash.
Next ==
    \/ Crash
    \/ \E r \in RunIds : ClaimTurn(r)
    \/ /\ \A r \in RunIds : exec[r].pc # "prepared"
       /\ \/ UserStep \/ CoordinatorStep \/ Claim \/ Recover \/ Boot
          \/ \E r \in RunIds : \/ EngineStep(r) \/ Abort(r) \/ LeaseExpires(r)
                               \/ \E more \in BOOLEAN : AnswerBreaksOff(r, more)

Spec == Init /\ [][Next]_vars

\* The process comes back and its loops run; the watcher claims and recovers;
\* the lease of a Run nobody executes lapses.  No user or Coordinator is owed.
Fairness ==
    /\ WF_vars(Boot) /\ WF_vars(Claim) /\ WF_vars(Recover)
    /\ \A r \in RunIds :
         /\ WF_vars(ClaimTurn(r)) /\ WF_vars(Abort(r))
         /\ WF_vars(EngineStep(r))
         /\ WF_vars(exec[r].pc = "none" /\ LeaseExpires(r))
FairSpec == Spec /\ Fairness

-----------------------------------------------------------------------------
(* Properties *)

\* The tables hold what their columns allow.
TypeOK ==
    /\ item.status \in LiveStatus \cup {"cancelled"} /\ item.stopped \in BOOLEAN
    /\ act.status \in Unfinished \cup {"completed", "closed", "superseded", "cancelled"}
    /\ act.gen \in Nat /\ act.context \subseteq Inputs /\ act.run \in RunIds \cup {NoRun}
    /\ act.attempt \in 0..MaxAttempts /\ act.isolated \in BOOLEAN
    /\ act.result \in RunIds \cup {NoRun}
    /\ (act.status = "running") = (act.run # NoRun)
    /\ \A r \in RunIds : /\ run[r].gen \in 0..act.gen
                         /\ known[r] \subseteq Inputs
                         /\ exec[r].pc # "none" => run[r].status # "unused"
                         /\ exec[r].open => turn[r] # <<>>
    /\ \A i \in Inputs : /\ row[i].state \in {"none", "direct", "waiting", "consumed", "superseded"}
                         /\ row[i].run \in RunIds \cup {NoRun}
                         /\ row[i].gen \in 0..act.gen /\ row[i].event \in 0..act.gen
    /\ dropped \subseteq Inputs /\ up \in BOOLEAN

\* What the instruction of a Run says is not in its queue of pending rows as well
\* (fall-back of the workspace, claim).  A message of the queue alone may be pushed
\* into the conversation more than once (TakeIn): this is not about that.
ProjectedOnce ==
    \A r \in RunIds : Owns(r) /\ exec[r].pc # "none" =>
        PendingOf(r) \cap exec[r].prompt = {}

\* The rows have their types, and no message is in the instruction of a Run and
\* pending for it at the same time (claimReadyAction; setActionWorkspaceForRun).
InputsInv == TypeOK /\ ProjectedOnce

\* A message that a restart left out, or that was superseded, never comes back
\* into the context of the Action (generation fence of the events).
WithdrawnStaysOut ==
    act.status \in {"ready", "running"} =>
        act.context \cap (dropped \cup {i \in Inputs : row[i].state = "superseded"}) = {}

\* What users may rely on: InputDelivery with this state.
Withdrawn(i) == row[i].state = "superseded" \/ i \in dropped
Attempt == IF act.status = "completed" THEN act.result ELSE act.run
ReadBy == IF Attempt = NoRun THEN {} ELSE known[Attempt]
Fate == [i \in Inputs |->
    IF Unsent(i) THEN "unsent"
    ELSE IF Withdrawn(i) THEN "withdrawn"
    ELSE IF i \in ReadBy THEN "read" ELSE "accepted"]
Delivery == INSTANCE InputDelivery WITH fate <- Fate, done <- (act.status = "completed")
DeliversInputs == Delivery!Spec

\* A message waiting under the identity of its Action is read, withdrawn or
\* carried on under a new identity, unless the Action needs attention, the
\* WorkItem is stopped or no Run is left: it never stays behind in an Action
\* that completes.
InputSettles ==
    \A i \in Inputs :
        (i \in Waiting /\ row[i].gen = act.gen)
        ~> \/ i \notin Waiting \/ row[i].gen # act.gen
           \/ act.status \in {"waiting", "failed"} \/ item.stopped
           \/ act.status = "ready" /\ ~HasRun

=============================================================================
