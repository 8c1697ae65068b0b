------------------------- MODULE CoordinatorMailbox -------------------------
(***************************************************************************)
(* The Coordinator of one dynamic WorkItem                                 *)
(* (agent/yeaft/work-center/coordinator.js, service.js, store.js).         *)
(*                                                                         *)
(* A mailbox entry (a user's message, or a wake such as a settled Action)  *)
(* is claimed under a lease and an epoch; a turn shows it as a thinking    *)
(* message; each attempt of the turn asks the LLM provider through a row   *)
(* of coordinator_provider_turns (prepared, dispatching, responded) so     *)
(* that a crash can tell what was asked and what was answered.             *)
(*                                                                         *)
(* One synchronous stretch of JavaScript is one action, cut where a crash  *)
(* between two of its transactions leaves a state of its own.  `ver`       *)
(* stands for everything the turn's fence and the request's snapshot are   *)
(* computed from: the contract, plan and ledger revisions and the Actions. *)
(* The thinking check stands for coordinator_revision, which moves only    *)
(* with the turns.  Epochs are compared for equality only, so a new one is *)
(* any that nobody holds; time is a lease that lives or has lapsed, and a  *)
(* back-off that is running or over.                                       *)
(***************************************************************************)
EXTENDS Integers, Sequences, FiniteSets

CONSTANTS
    Epochs,        \* values of claim_epoch, enough for every holder at once
    Failures,      \* limits.maxCoordinatorFailures
    Loads          \* the bounds that are explored, one number for each counter

Attempts == 1..2   \* COORDINATOR_DECISION_ATTEMPTS
NoTurn == 0

\* What the bounds count: commands of the user, decisions that create Actions,
\* stops of the resource control for other reasons, orderly shutdowns, crashes,
\* and leases that a live turn loses (a suspended machine, a blocked loop).
Counters == {"commands", "creates", "stops", "exits", "crashes", "lapses"}

ASSUME MailboxAssumption ==
    /\ Epochs \subseteq Nat
    /\ Failures \in Nat \ {0}
    /\ Loads \subseteq [Counters -> Nat]

VARIABLES
    wi,     \* the WorkItem with its Actions and execution control
    entry,  \* table coordinator_mailbox_entries, by sequence
    turn,   \* the Coordinator turns in order: message and provider rows
    exec,   \* the #executeTurn calls of the process
    life,   \* the process: "up", "closing" (shutdown called) or "down"
    scan,   \* where #scanCoordinatorProviderRecoveries is
    left    \* what is left of the bounds

vars == <<wi, entry, turn, exec, life, scan, left>>
Turns == DOMAIN turn
Entries == DOMAIN entry

\* A row of coordinator_provider_turns: `asked` is the request its hash covers.
NoRow == [status |-> "none", epoch |-> 0, asked |-> [ver |-> 0, text |-> "none"]]

May(S) ==
    /\ \A c \in S : left[c] > 0
    /\ left' = [c \in Counters |-> left[c] - (IF c \in S THEN 1 ELSE 0)]

-----------------------------------------------------------------------------
(* The mailbox *)

Wake == [kind |-> "wake", status |-> "pending", epoch |-> 0, live |-> FALSE, turn |-> NoTurn]

Thinking_Ignored == FALSE

\* beginCoordinatorTurn refuses, and beginDynamicCoordinatorTurn gives up, while
\* the last message of the WorkItem is a thinking one.
Thinking == turn # <<>> /\ turn[Len(turn)].status = "thinking"

\* canAutomaticallyCoordinate; a message of the user does not wait for the back-off.
Active == wi.status = "open" /\ ~wi.stopped
CanCoordinate == Active /\ ~wi.backoff

Lapsed(e) == entry[e].status = "claimed" /\ ~entry[e].live
Claimable(e) == entry[e].status = "pending" \/ Lapsed(e)

\* #activeCoordinatorMailboxClaim: the claim with epoch k of turn t is in force.
ClaimHolds(t, k) ==
    LET m == entry[turn[t].entry] IN
    m.status = "claimed" /\ m.live /\ m.epoch = k /\ m.turn = t

NextEpoch_Same(e) == entry[e].epoch

\* claim_epoch + 1: a value that no executor, row or claim of the entry holds.
NextEpoch(e) ==
    CHOOSE k \in Epochs :
        /\ k # entry[e].epoch
        /\ \A x \in exec : turn[x.turn].entry = e => x.epoch # k
        /\ entry[e].turn # NoTurn =>
             \A a \in Attempts : turn[entry[e].turn].rows[a].epoch # k

Claim(e) == [entry[e] EXCEPT !.status = "claimed", !.live = TRUE, !.epoch = NextEpoch(e)]
Returned(m) == [m EXCEPT !.status = "pending", !.live = FALSE]
Acked(m) == [m EXCEPT !.status = "acked", !.live = FALSE]

\* coordinatorFailed: count it, back off, and stop the WorkItem at the limit.
CoordinatorFailed(w) ==
    [w EXCEPT !.credit = @ - 1, !.backoff = TRUE, !.stopped = @ \/ w.credit <= 1]

-----------------------------------------------------------------------------
(* What may run now.  Once a response is stored, the rest of the turn up to  *)
(* its decision or its next request is one chain of microtasks; the recovery *)
(* scan is synchronous.  Only time and a crash come in between.              *)

InChain(x) == x.pc \in {"answered", "again"}
Free == scan = "idle" /\ \A x \in exec : ~InChain(x)
Up == life = "up" /\ Free
Driving == \E x \in exec : x.driven    \* dynamicCoordinatorTasks.has(workItemId)

\* #scheduleTurn: `text` is the prompt's last part, the user's message, the
\* trigger an advance spells out, or nothing.
Start(t, k, text, driven) ==
    [turn |-> t, epoch |-> k, ver |-> wi.ver, text |-> text, attempt |-> 1,
     pc |-> "start", driven |-> driven]

NewTurn(e, auto) ==
    [entry |-> e, auto |-> auto, status |-> "thinking", rows |-> [a \in Attempts |-> NoRow]]

Init ==
    /\ wi = [status |-> "open", stopped |-> FALSE, ver |-> 1, backoff |-> FALSE,
             credit |-> Failures, action |-> "none"]
    /\ entry = <<Wake>>                  \* startWorkItemAtomic: work_item_started
    /\ turn = <<>>
    /\ exec = {}
    /\ life = "up"
    /\ scan = "idle"
    /\ left \in Loads

-----------------------------------------------------------------------------
(* Beginning a turn *)

\* beginCoordinatorTurn: the message's entry names its turn from the start.
BeginMessage ==
    /\ Up
    /\ Active
    /\ ~Thinking
    /\ turn' = Append(turn, NewTurn(Len(entry) + 1, FALSE))
    /\ UNCHANGED <<wi, scan>>

\* WorkItemCoordinator.message: begin, claim and schedule.
Message ==
    /\ BeginMessage
    /\ May({"commands"})
    /\ LET t == Len(turn) + 1
           k == CHOOSE k \in Epochs : TRUE
       IN  /\ entry' = Append(entry, [kind |-> "message", status |-> "claimed",
                                      epoch |-> k, live |-> TRUE, turn |-> t])
           /\ exec' = exec \cup {Start(t, k, "message", FALSE)}
    /\ UNCHANGED life

\* The process dies between the transaction that begins and the one that claims.
MessageCut ==
    /\ BeginMessage
    /\ May({"commands", "crashes"})
    /\ entry' = Append(entry, [Wake EXCEPT !.kind = "message", !.turn = Len(turn) + 1])
    /\ exec' = {}
    /\ life' = "down"

\* The entries that can be claimed, and the one with the lowest sequence.
Waiting == {e \in Entries : Claimable(e)}
First(S) == CHOOSE e \in S : \A f \in S : e <= f

Chosen_Latest == CHOOSE e \in Waiting : \A f \in Waiting : f <= e

\* #drainDynamicCoordinatorWakes prefers the entry that already had a turn;
\* claimCoordinatorMailbox takes the one with the lowest sequence.
Chosen ==
    LET had == {e \in Waiting : entry[e].turn # NoTurn} IN
    IF had # {} THEN First(had) ELSE First(Waiting)

CanAdvance ==
    /\ Up
    /\ ~Driving
    /\ CanCoordinate
    /\ wi.action # "running"
    /\ Waiting # {}

\* WorkItemCoordinator.advance with beginDynamicCoordinatorTurn.
Advance ==
    /\ CanAdvance
    /\ Chosen = First(Waiting)
    /\ ~Thinking
    /\ LET e == Chosen
           t == Len(turn) + 1
       IN  /\ turn' = Append(turn, NewTurn(e, TRUE))
           /\ entry' = [entry EXCEPT ![e] = [Claim(e) EXCEPT !.turn = t]]
           /\ exec' = exec \cup {Start(t, NextEpoch(e), "trigger", TRUE)}
    /\ UNCHANGED <<wi, life, scan, left>>

\* It claims and gives the claim back: not the entry it chose, or still thinking.
AdvanceRefused ==
    /\ CanAdvance
    /\ Chosen # First(Waiting) \/ Thinking
    /\ entry' = [entry EXCEPT ![First(Waiting)] = Returned(@)]
    /\ UNCHANGED <<wi, turn, exec, life, scan, left>>

\* The process dies between the claim and the turn.
AdvanceCut ==
    /\ CanAdvance
    /\ May({"crashes"})
    /\ entry' = [entry EXCEPT ![First(Waiting)] = Claim(First(Waiting))]
    /\ exec' = {}
    /\ life' = "down"
    /\ UNCHANGED <<wi, turn, scan>>

-----------------------------------------------------------------------------
(* A turn (#executeTurn) *)

Holds(x) == ClaimHolds(x.turn, x.epoch)
Row(x) == turn[x.turn].rows[x.attempt]
Asks(x) == [ver |-> x.ver, text |-> x.text]

SameRequest_Unchecked(row, x) == TRUE

\* prepareCoordinatorProviderTurn compares the hashes of the two requests.
SameRequest(row, x) == row.asked = Asks(x)

Moved(x, pc) == (exec \ {x}) \cup {[x EXCEPT !.pc = pc]}

\* The catch of #executeTurn with failCoordinatorTurn: an answered row is
\* rejected; the turn fails and its entry is returned (an automatic one) or
\* acknowledged, unless the claim is lost or a stored response is left.
FailTurn(x, interrupted) ==
    LET t == turn[x.turn]
        rows == IF x.pc = "answered" /\ Holds(x)
                THEN [t.rows EXCEPT ![x.attempt].status = "cancelled"] ELSE t.rows
        settles == /\ Holds(x)
                   /\ t.status = "thinking"
                   /\ \A a \in Attempts : rows[a].status # "responded"
        w == IF interrupted THEN wi ELSE CoordinatorFailed(wi)
    IN  /\ turn' = [turn EXCEPT ![x.turn].rows = rows,
                                ![x.turn].status = IF settles THEN "failed" ELSE @]
        /\ wi' = IF settles THEN w ELSE wi
        /\ entry' = IF settles
                    THEN [entry EXCEPT ![t.entry] =
                            IF t.auto /\ ~w.stopped THEN Returned(@) ELSE Acked(@)]
                    ELSE entry
        /\ exec' = exec \ {x}
        /\ UNCHANGED <<life, scan, left>>

\* The store answers null, and the turn returns without a trace.
GiveUp(x) ==
    /\ exec' = exec \ {x}
    /\ UNCHANGED <<wi, entry, turn, life, scan, left>>

Preparing(x) == x.pc = "again" \/ (x.pc = "start" /\ Up)

\* prepareCoordinatorProviderTurn: a new request.
PrepareNew(x) ==
    /\ Preparing(x)
    /\ Holds(x)
    /\ Row(x).status = "none"
    /\ turn' = [turn EXCEPT ![x.turn].rows[x.attempt] =
                   [status |-> "prepared", epoch |-> x.epoch, asked |-> Asks(x)]]
    /\ exec' = Moved(x, "prepared")
    /\ UNCHANGED <<wi, entry, life, scan, left>>

\* The request is there already and is this one: send it, or use its response.
PrepareAgain(x) ==
    /\ Preparing(x)
    /\ Holds(x)
    /\ Row(x).status \in {"prepared", "dispatching", "responded"}
    /\ SameRequest(Row(x), x)
    /\ Row(x).epoch = x.epoch
    /\ exec' = Moved(x, IF Row(x).status = "responded" THEN "answered" ELSE "prepared")
    /\ UNCHANGED <<wi, entry, turn, life, scan, left>>

\* The request is there already and is another one.
PrepareChanged(x) ==
    /\ Preparing(x)
    /\ Holds(x)
    /\ Row(x).status # "none" /\ ~SameRequest(Row(x), x)
    /\ FailTurn(x, FALSE)

\* The claim is lost, or the request belongs to another claim.
PrepareLost(x) ==
    /\ Preparing(x)
    /\ Holds(x) => Row(x).status # "none" /\ SameRequest(Row(x), x) /\ Row(x).epoch # x.epoch
    /\ GiveUp(x)

\* dispatchCoordinatorProviderTurn with ResourceControl.reserve, before the call.
Dispatch(x) ==
    /\ Up
    /\ x.pc = "prepared"
    /\ Row(x).status \in {"prepared", "dispatching"}
    /\ Holds(x)
    /\ Active
    /\ turn' = [turn EXCEPT ![x.turn].rows[x.attempt].status = "dispatching"]
    /\ exec' = Moved(x, "calling")
    /\ UNCHANGED <<wi, entry, life, scan, left>>

\* respondCoordinatorProviderTurn.
Respond(x) ==
    /\ Up
    /\ x.pc = "calling"
    /\ Row(x).status = "dispatching" /\ Row(x).epoch = x.epoch
    /\ Holds(x)
    /\ turn' = [turn EXCEPT ![x.turn].rows[x.attempt].status = "responded"]
    /\ exec' = Moved(x, "answered")
    /\ UNCHANGED <<wi, entry, life, scan, left>>

\* The runtime, the policy, the store or the provider throws, or shutdown aborts.
ExecError(x) ==
    /\ Free
    /\ x.pc \in {"start", "prepared", "calling"}
    /\ FailTurn(x, life = "closing")

\* rejectCoordinatorProviderResponse, and on to the next attempt.
Reject(x) ==
    /\ Holds(x)
    /\ turn' = [turn EXCEPT ![x.turn].rows[x.attempt].status = "cancelled"]
    /\ exec' = (exec \ {x}) \cup {[x EXCEPT !.pc = "again", !.attempt = @ + 1]}
    /\ UNCHANGED <<wi, entry, life, scan, left>>

\* The response does not parse or validate, and an attempt is left.
InvalidResponse(x) ==
    /\ x.pc = "answered"
    /\ x.attempt + 1 \in Attempts
    /\ Reject(x)

\* No attempt is left, or completeCoordinatorTurn throws: the WorkItem is
\* stopped, closed or changed, or the decision breaks a rule of its kind.
DecisionRefused(x) ==
    /\ x.pc = "answered"
    /\ Holds(x)
    /\ FailTurn(x, FALSE)

DecisionLost(x) ==
    /\ x.pc = "answered"
    /\ ~Holds(x)
    /\ GiveUp(x)

\* completeCoordinatorTurn with #completeDynamicCoordinatorTurn.
Commit(x) ==
    /\ x.pc = "answered"
    /\ Holds(x)
    /\ Active
    /\ x.ver = wi.ver
    /\ turn[x.turn].status = "thinking"
    /\ turn' = [turn EXCEPT ![x.turn].status = "completed"]
    /\ entry' = [entry EXCEPT ![turn[x.turn].entry] = Acked(@)]
    /\ exec' = exec \ {x}
    /\ UNCHANGED <<life, scan>>

\* The decision answers, or asks the human.
Answer(x) ==
    /\ Commit(x)
    /\ UNCHANGED <<wi, left>>

\* The decision creates or guides Actions.
CreateActions(x) ==
    /\ wi.action # "running"
    /\ Commit(x)
    /\ May({"creates"})
    /\ wi' = [wi EXCEPT !.action = "ready", !.ver = @ + 1]

\* The decision completes the WorkItem.
Complete(x) ==
    /\ wi.action = "none"
    /\ Commit(x)
    /\ wi' = [wi EXCEPT !.status = "done"]
    /\ UNCHANGED left

ExecStep(x) ==
    \/ PrepareNew(x) \/ PrepareAgain(x) \/ PrepareChanged(x) \/ PrepareLost(x)
    \/ Dispatch(x) \/ Respond(x) \/ ExecError(x)
    \/ InvalidResponse(x) \/ DecisionRefused(x) \/ DecisionLost(x)
    \/ Answer(x) \/ CreateActions(x) \/ Complete(x)

-----------------------------------------------------------------------------
(* Time, the Actions and the user *)

\* A lease that is not renewed in time lapses; a live turn renews its own.
LeaseExpires(e) ==
    /\ entry[e].status = "claimed" /\ entry[e].live
    /\ IF \E x \in exec : x.turn = entry[e].turn /\ x.epoch = entry[e].epoch
       THEN May({"lapses"}) ELSE UNCHANGED left
    /\ entry' = [entry EXCEPT ![e].live = FALSE]
    /\ UNCHANGED <<wi, turn, exec, life, scan>>

BackoffEnds ==
    /\ wi.backoff
    /\ wi' = [wi EXCEPT !.backoff = FALSE]
    /\ UNCHANGED <<entry, turn, exec, life, scan, left>>

\* The watcher claims an Action (claimReadyAction).
ActionClaimed ==
    /\ life # "down" /\ Free
    /\ wi.action = "ready" /\ Active
    /\ wi' = [wi EXCEPT !.action = "running", !.ver = @ + 1]
    /\ UNCHANGED <<entry, turn, exec, life, scan, left>>

\* Its Run settles, and #enqueueDynamicReconciliation wakes the Coordinator.
ActionSettles ==
    /\ life # "down" /\ Free
    /\ wi.action = "running"
    /\ wi' = [wi EXCEPT !.action = "none", !.ver = @ + 1]
    /\ entry' = Append(entry, Wake)
    /\ UNCHANGED <<turn, exec, life, scan, left>>

\* updateWorkItemAtomic with a new contract.
UpdateContract ==
    /\ Up
    /\ wi.status = "open"
    /\ May({"commands"})
    /\ wi' = [wi EXCEPT !.ver = @ + 1, !.action = "none"]
    /\ entry' = Append(entry, Wake)
    /\ UNCHANGED <<turn, exec, life, scan>>

\* cancelWorkItemAtomic leaves the Coordinator's turn to its fences.
Cancel ==
    /\ Up
    /\ wi.status = "open"
    /\ May({"commands"})
    /\ wi' = [wi EXCEPT !.status = "cancelled", !.ver = @ + 1, !.action = "none"]
    /\ UNCHANGED <<entry, turn, exec, life, scan>>

\* ResourceControl.stop for another reason than the Coordinator's failures.
StopExecution ==
    /\ Up
    /\ Active
    /\ May({"stops"})
    /\ wi' = [wi EXCEPT !.stopped = TRUE]
    /\ UNCHANGED <<entry, turn, exec, life, scan>>

\* resumeWorkItemAtomic retires the thinking turn and its mailbox entry.
Retired(m) ==
    IF Thinking /\ m.turn = Len(turn) /\ m.status \in {"pending", "claimed"}
    THEN [m EXCEPT !.status = "cancelled", !.live = FALSE] ELSE m

ResumeItem ==
    /\ Up
    /\ wi.status = "cancelled" \/ (wi.status = "open" /\ wi.stopped)
    /\ wi.credit > 0
    /\ May({"commands"})
    /\ wi' = [wi EXCEPT !.status = "open", !.stopped = FALSE, !.backoff = FALSE,
                        !.ver = @ + 1, !.action = "none"]
    /\ entry' = Append([e \in Entries |-> Retired(entry[e])], Wake)
    /\ turn' = IF Thinking THEN [turn EXCEPT ![Len(turn)].status = "failed"] ELSE turn
    /\ UNCHANGED <<exec, life, scan>>

\* ResourceControl.extend of maxCoordinatorFailures.
Extend ==
    /\ Up
    /\ May({"commands"})
    /\ wi' = [wi EXCEPT !.credit = @ + 1]
    /\ UNCHANGED <<entry, turn, exec, life, scan>>

-----------------------------------------------------------------------------
(* Recovery *)

\* recoverCoordinatorProviderTurns: a request whose claim is gone has an unknown outcome.
InDoubt(t, a) ==
    /\ turn[t].rows[a].status = "dispatching"
    /\ ~ClaimHolds(t, turn[t].rows[a].epoch)

RowSettled(t, a) ==
    IF InDoubt(t, a) THEN [turn[t].rows[a] EXCEPT !.status = "unknown"] ELSE turn[t].rows[a]
TurnsInDoubtSettled ==
    [t \in Turns |-> [turn[t] EXCEPT !.rows = [a \in Attempts |-> RowSettled(t, a)]]]

\* recoverCoordinatorMailbox.
LapsedReturned == [e \in Entries |-> IF Lapsed(e) THEN Returned(entry[e]) ELSE entry[e]]

\* getRecoverableCoordinatorTurns, over the rows of a turn.
CanResume(t, rows) ==
    /\ turn[t].status = "thinking"
    /\ entry[turn[t].entry].turn = t
    /\ entry[turn[t].entry].status \in {"pending", "claimed"}
    /\ \E a \in Attempts : rows[a].status \in {"prepared", "dispatching", "responded"}

\* A turn that claimCoordinatorTurn would hand over now.
Resumable(t) ==
    /\ CanResume(t, turn[t].rows)
    /\ CanCoordinate
    /\ Claimable(turn[t].entry)

\* #scanCoordinatorProviderRecoveries, on a timer: each of its transactions
\* reads the clock anew.
ScanTurns ==
    /\ Up
    /\ \/ \E t \in Turns : Resumable(t) \/ \E a \in Attempts : InDoubt(t, a)
       \/ \E e \in Entries : Lapsed(e)
    /\ turn' = TurnsInDoubtSettled
    /\ scan' = "mailbox"
    /\ UNCHANGED <<wi, entry, exec, life, left>>

ScanMailbox ==
    /\ scan = "mailbox"
    /\ entry' = LapsedReturned
    /\ scan' = "resume"
    /\ UNCHANGED <<wi, turn, exec, life, left>>

\* claimCoordinatorTurn moves the prepared and responded rows to the new claim;
\* resumeCoordinatorTurn reads the fence as it is now.
TransferRows(t, k) ==
    [a \in Attempts |-> IF turn[t].rows[a].status \in {"prepared", "responded"}
                        THEN [turn[t].rows[a] EXCEPT !.epoch = k] ELSE turn[t].rows[a]]

ScanResume ==
    /\ scan = "resume"
    /\ IF \E t \in Turns : Resumable(t)
       THEN LET t == CHOOSE t \in Turns : Resumable(t)
                e == turn[t].entry
                k == NextEpoch(e)
            IN  /\ entry' = [entry EXCEPT ![e] = Claim(e)]
                /\ turn' = [turn EXCEPT ![t].rows = TransferRows(t, k)]
                /\ exec' = exec \cup {Start(t, k, IF turn[t].auto THEN "none" ELSE "message", FALSE)}
       ELSE UNCHANGED <<entry, turn, exec>>
    /\ scan' = "idle"
    /\ UNCHANGED <<wi, life, left>>

\* WorkCenterService.shutdown aborts the turns and waits for them.
Shutdown ==
    /\ Up
    /\ May({"exits"})
    /\ life' = "closing"
    /\ UNCHANGED <<wi, entry, turn, exec, scan>>

ShutdownEnds_Unawaited ==
    /\ life = "closing"
    /\ exec' = {}
    /\ life' = "down"
    /\ UNCHANGED <<wi, entry, turn, scan, left>>

\* Every turn has settled, and the store is closed.
ShutdownEnds ==
    /\ life = "closing"
    /\ exec = {}
    /\ life' = "down"
    /\ UNCHANGED <<wi, entry, turn, exec, scan, left>>

Crash ==
    /\ life # "down"
    /\ May({"crashes"})
    /\ exec' = {}
    /\ scan' = "idle"
    /\ life' = "down"
    /\ UNCHANGED <<wi, entry, turn>>

AskedNothing_Unread(t) == FALSE

\* recoverInterruptedCoordinatorTurns returns the entry of a turn that asked nothing.
AskedNothing(t) == turn[t].auto /\ turn[t].rows[1].status = "none"

Interrupted(m, t) ==
    IF m.turn # t THEN m
    ELSE IF AskedNothing(t) THEN (IF m.status = "cancelled" THEN m ELSE Returned(m))
    ELSE Acked(m)

\* The WorkItemStore's constructor, then the watcher's recovery of the running
\* Action: ready again, or settled with a wake.
Boot(retryable) ==
    LET mail == LapsedReturned
        now == TurnsInDoubtSettled
        t == Len(turn)
        cut == Thinking /\ ~CanResume(t, now[t].rows)
        w == IF cut THEN CoordinatorFailed(wi) ELSE wi
        kept == IF cut THEN [e \in Entries |-> Interrupted(mail[e], t)] ELSE mail
        ran == wi.action = "running"
    IN  /\ life = "down"
        /\ retryable => ran
        /\ life' = "up"
        /\ turn' = IF cut THEN [now EXCEPT ![t].status = "failed"] ELSE now
        /\ wi' = IF ~ran THEN w
                 ELSE [w EXCEPT !.ver = @ + 1, !.action = IF retryable THEN "ready" ELSE "none"]
        /\ entry' = IF ran /\ ~retryable THEN Append(kept, Wake) ELSE kept
        /\ UNCHANGED <<exec, scan, left>>

-----------------------------------------------------------------------------
Drive == Advance \/ AdvanceRefused
Scan == ScanTurns \/ ScanMailbox \/ ScanResume
Abandoned(e) ==
    ~\E x \in exec : x.turn = entry[e].turn /\ x.epoch = entry[e].epoch

UserStep ==
    Message \/ UpdateContract \/ Cancel \/ ResumeItem \/ Extend \/ Shutdown

FailureStep ==
    MessageCut \/ AdvanceCut \/ Crash \/ StopExecution

Next ==
    \/ Drive \/ Scan
    \/ \E x \in exec : ExecStep(x)
    \/ \E e \in Entries : LeaseExpires(e)
    \/ BackoffEnds \/ ActionClaimed \/ ActionSettles
    \/ UserStep \/ FailureStep
    \/ ShutdownEnds \/ \E retryable \in BOOLEAN : Boot(retryable)

Spec == Init /\ [][Next]_vars

\* What scheduling provides: promises settle or are aborted, the recovery timer
\* and the watcher run, a lease nobody renews lapses, and the Agent is started
\* again after it ended.  Nothing is assumed of users and failures.
Fairness ==
    /\ WF_vars(\E x \in exec : ExecStep(x))
    /\ WF_vars(Drive) /\ WF_vars(Scan)
    /\ WF_vars(\E e \in Entries : Abandoned(e) /\ LeaseExpires(e))
    /\ WF_vars(BackoffEnds) /\ WF_vars(ActionClaimed) /\ WF_vars(ActionSettles)
    /\ WF_vars(ShutdownEnds) /\ WF_vars(\E retryable \in BOOLEAN : Boot(retryable))

FairSpec == Spec /\ Fairness

-----------------------------------------------------------------------------
RowStatus == {"none", "prepared", "dispatching", "responded", "unknown", "cancelled"}
Requests == [ver : Nat, text : {"none", "message", "trigger"}]
RowType == [status : RowStatus, epoch : Epochs \cup {0}, asked : Requests]
TurnType ==
    [entry : Nat \ {0}, auto : BOOLEAN, status : {"thinking", "completed", "failed"},
     rows : [Attempts -> RowType]]
EntryType ==
    [kind : {"message", "wake"}, status : {"pending", "claimed", "acked", "cancelled"},
     epoch : Epochs \cup {0}, live : BOOLEAN, turn : Nat]
ExecType ==
    [turn : Nat \ {0}, epoch : Epochs \cup {0}, ver : Nat, text : {"none", "message", "trigger"},
     attempt : Attempts, pc : {"start", "prepared", "calling", "answered", "again"},
     driven : BOOLEAN]

\* Every variable has its type, the entry of a turn and the turn of an entry or
\* of an executor exist.
TypeOK ==
    /\ wi \in [status : {"open", "cancelled", "done"}, stopped : BOOLEAN, ver : Nat,
               backoff : BOOLEAN, credit : Int, action : {"none", "ready", "running"}]
    /\ entry \in Seq(EntryType) /\ \A e \in Entries : entry[e].turn \in Turns \cup {NoTurn}
    /\ turn \in Seq(TurnType) /\ \A t \in Turns : turn[t].entry \in Entries
    /\ exec \subseteq ExecType /\ \A x \in exec : x.turn \in Turns
    /\ life \in {"up", "closing", "down"}
    /\ scan \in {"idle", "mailbox", "resume"}
    /\ left \in [Counters -> Nat]

\* A decision is committed only over the state that its request showed to the
\* model, whatever crash, resume or replayed response lies in between.
DecisionMatchesRequest ==
    [][\A t \in Turns :
         turn[t].status = "thinking" /\ turn'[t].status = "completed" =>
           \E a \in Attempts : /\ turn[t].rows[a].status = "responded"
                               /\ turn[t].rows[a].asked.ver = wi.ver]_vars

\* The Coordinator of a WorkItem thinks one turn at a time, and it is the latest:
\* no crash, resume or begin leaves an older one thinking.
OneTurnThinks ==
    \A t \in Turns : turn[t].status = "thinking" => t = Len(turn)

\* Of the executors of a WorkItem, stale ones and their successors, one at most
\* holds a claim that lets it ask the provider or decide, and none whose turn
\* was retired or ended otherwise.
OneExecutorActs ==
    /\ \A x, y \in exec : Holds(x) /\ Holds(y) => x = y
    /\ \A x \in exec : Holds(x) => turn[x.turn].status = "thinking"

\* A wake is acknowledged by the decision it led to, by a turn that failed
\* under a stop (Resume sends another wake), or with a request whose outcome is
\* unknown or whose response was rejected; else it is tried again.
WakeIsKept ==
    [][\A e \in Entries :
         LET t == entry'[e].turn IN
         entry[e].kind = "wake" /\ entry[e].status # "acked" /\ entry'[e].status = "acked" =>
           \/ turn'[t].status = "completed"
           \/ turn'[t].status = "failed" /\ wi'.stopped
           \/ \E a \in Attempts : turn'[t].rows[a].status \in {"unknown", "cancelled"}]_vars

\* The rows have their types, no two turns think, and the Coordinator never fails
\* more turns than its limit allows (coordinatorFailed stops it before).
TurnsInv == TypeOK /\ OneTurnThinks /\ wi.credit >= 0

\* docs/work-center/domain-contract.md:122: a thinking turn never blocks the
\* messages after it for ever.
TurnSettles == []<>~Thinking

Waits(e) == e \in Entries /\ entry[e].kind = "wake" /\ entry[e].status = "pending"
Answered(e) == e \in Entries /\ entry[e].status \in {"acked", "cancelled"}

\* A wake that waits (work started, an Action settled, the contract changed) is
\* answered in the end, unless its WorkItem is closed or stopped: failed turns
\* return it, and later entries and turns do not starve it.
WakeIsAnswered ==
    \A e \in 1..3 : Waits(e) ~> (~Active \/ Answered(e))

-----------------------------------------------------------------------------
(* What docs/work-center/domain-contract.md:122 says of a thinking turn that *)
(* an ended process left, and the code does not do                           *)

Unknown == Active /\ Thinking /\ turn[Len(turn)].rows[1].status = "unknown"

\* A turn of an active WorkItem whose request has an unknown outcome does not
\* think, and block later messages, for ever.
UnknownTurnSettles == Unknown ~> ~Unknown
=============================================================================
