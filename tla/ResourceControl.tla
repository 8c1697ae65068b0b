--------------------------- MODULE ResourceControl ---------------------------
(***************************************************************************)
(* The execution budget of one WorkItem (work-center/resource-control.js): *)
(* the ledger of provider requests, admission, settlement, the durable     *)
(* stop and the user's commands that extend the budget and resume.         *)
(*                                                                         *)
(* A caller is a Run of the WorkItem's Action or a turn of its             *)
(* Coordinator.  Both reach a provider through an adapter that reserves a  *)
(* request in the ledger before it is sent: a native one in the callback   *)
(* next to fetch, once for each retry; a plain legacy one when it is       *)
(* invoked, with a second check in its callback.  How Runs and turns are   *)
(* claimed and recovered is in ActionRuns and CoordinatorMailbox; here a   *)
(* caller is live while it owns its lease or claim.                        *)
(*                                                                         *)
(* Tokens are small numbers; a request has an estimate, and a cost the     *)
(* provider decides.  The import of a ledger from before this one, the     *)
(* usage by kind of token, and dataRevision are left out.                  *)
(***************************************************************************)
EXTENDS Integers, Sequences, FiniteSets

CONSTANTS
    Estimates,       \* what a request may be estimated at
    Costs,           \* what a request may cost
    Limits,          \* the limits of a new WorkItem
    Additions,       \* what a user may add to them
    OriginalAttempts,\* maxAttempts of the Action
    Adapters,        \* which adapters there may be: for each kind of caller, native or legacy
    MaxCallers,      \* bound on Runs and turns
    Max              \* bounds: "command", "fault"

Kind == {"action", "coordinator"}
Limit == {"requests", "tokens", "runRequests", "attempts", "failures"}

ASSUME BudgetAssumption ==
    /\ Estimates \subseteq Nat \ {0} /\ Costs \subseteq Nat \ {0}
    /\ Limits \in [Limit -> Nat \ {0}] /\ Additions \subseteq [Limit -> Nat]
    /\ OriginalAttempts \in Nat
    /\ Adapters \subseteq [Kind -> {"native", "legacy"}]
    /\ MaxCallers \in Nat /\ Max \in [{"command", "fault"} -> Nat]

VARIABLES
    db,        \* the control row, the ledger, the state of the WorkItem, and its
               \* execution epoch, which a resume advances
    callers,   \* Runs and Coordinator turns, in the order they began
    up,        \* the process runs
    adapter,   \* the adapter of each kind of caller
    view,      \* revision and stop the user's browser shows
    sent,      \* for each request of the ledger, how often it was sent, and the
               \* usage a complete answer reported
    used       \* counters of the bounds

vars == <<db, callers, up, adapter, view, sent, used>>

Init ==
    /\ db = [limits |-> Limits, extension |-> 0, stop |-> "none", revision |-> 1,
             failures |-> 0, waiting |-> FALSE, rows |-> <<>>, item |-> "active",
             epoch |-> 1]
    /\ callers = <<>> /\ up = TRUE /\ adapter \in Adapters
    /\ view = [revision |-> 1, stop |-> "none"]
    /\ sent = <<>>
    /\ used = [c \in {"command", "fault"} |-> 0]

May(c) == used[c] < Max[c] /\ used' = [used EXCEPT ![c] = @ + 1]

-----------------------------------------------------------------------------
(* The ledger; d is a state of the database *)

Larger(a, b) == IF a > b THEN a ELSE b

\* The sum of the first n amounts.
Total(amount, n) ==
    LET total[i \in 0..n] == IF i = 0 THEN 0 ELSE total[i - 1] + amount[i]
    IN  total[n]

Charged(d) == Total([r \in DOMAIN d.rows |-> d.rows[r].charged], Len(d.rows))
RequestsOf(d, c) == {r \in DOMAIN d.rows : d.rows[r].caller = c}
Runs == {c \in DOMAIN callers : callers[c].kind = "action"}

\* effectiveMaxAttempts, for all Runs the Action ever had.
Attempts(d) == LET own == OriginalAttempts + d.extension IN
               IF own < d.limits.attempts THEN own ELSE d.limits.attempts

\* stop: the first reason is kept.
Stopped(d, code) ==
    IF d.stop # "none" THEN d
    ELSE [d EXCEPT !.stop = code, !.revision = @ + 1,
                   !.item = IF @ = "cancelled" THEN @ ELSE "active"]

\* settle; usage 0 stands for none.  A partial answer is charged with its
\* estimate at least; what exceeds the limit stops the WorkItem.
Charge_Refund(row, usage, reported) == usage
Charge(row, usage, reported) == IF reported THEN usage ELSE Larger(row.estimate, usage)

Checked_Later(d) == d
Checked(d) == IF Charged(d) > d.limits.tokens THEN Stopped(d, "tokens") ELSE d

Settled(d, r, usage, complete) ==
    LET reported == complete /\ usage > 0
        row == d.rows[r]
    IN IF r = 0 \/ row.status = "reported" \/ (row.status = "unknown" /\ usage = 0) THEN d
       ELSE Checked([d EXCEPT !.rows[r].status = IF reported THEN "reported" ELSE "unknown",
                              !.rows[r].charged = Charge(row, usage, reported)])

\* reserve: why a request of caller c is denied.
Fits(d, estimate) == Charged(d) + estimate <= d.limits.tokens
RunExhausted(d, c) ==
    callers[c].kind = "action" /\ Cardinality(RequestsOf(d, c)) >= d.limits.runRequests
Denied(d, c, estimate) ==
    CASE d.stop # "none" -> "stopped"
      [] d.stop = "none" /\ d.item # "active" -> "inactive"
      [] OTHER -> IF RunExhausted(d, c) THEN "runRequests"
                  ELSE IF Len(d.rows) >= d.limits.requests THEN "requests"
                  ELSE IF ~Fits(d, estimate) THEN "tokens" ELSE "none"

\* A denial for want of budget stops the WorkItem, and that is committed.
Reserved(d, c, estimate) ==
    LET code == Denied(d, c, estimate) IN
    IF code = "none"
    THEN [d EXCEPT !.rows = Append(@, [caller |-> c, estimate |-> estimate,
                                       charged |-> estimate, status |-> "reserved"])]
    ELSE IF code \in {"stopped", "inactive"} THEN d ELSE Stopped(d, code)

\* settleCoordinator: requests of the turn before the last one get no answer.
EarlierUnknown_All(d, c, last) ==
    [d EXCEPT !.rows = [r \in DOMAIN @ |->
        IF r \in RequestsOf(d, c) \ {last} THEN [@[r] EXCEPT !.status = "unknown"] ELSE @[r]]]
EarlierUnknown(d, c, last) ==
    [d EXCEPT !.rows = [r \in DOMAIN @ |->
        IF r \in RequestsOf(d, c) \ {last} /\ @[r].status = "reserved"
        THEN [@[r] EXCEPT !.status = "unknown"] ELSE @[r]]]

\* coordinatorFailed
Failed(d) ==
    LET e == [d EXCEPT !.failures = @ + 1, !.waiting = TRUE] IN
    IF e.failures >= e.limits.failures THEN Stopped(e, "failures") ELSE e

-----------------------------------------------------------------------------
(* A caller asks its provider *)

Phase(c, phase) == callers' = [callers EXCEPT ![c].phase = phase]

Fetch(r, log) == sent' = [log EXCEPT ![r].times = @ + 1]

\* What precedes a retry inside the adapter.
BeforeRetry(c, partial) ==
    IF callers[c].phase = "sent" /\ callers[c].kind = "action"
    THEN Settled(db, callers[c].row, partial, FALSE) ELSE db

\* The request that a retry is charged to.
Admitted(d, c, estimate) == Reserved(d, c, estimate)

\* start, and dispatchCoordinatorProviderTurn.  A Run is admitted before its
\* lease is checked, and stays charged if that check fails.
Begin(c, partial, estimate) ==
    LET before == BeforeRetry(c, partial)
        after  == Admitted(before, c, estimate)
        row    == Len(after.rows)
        grown  == IF Len(after.rows) > Len(db.rows)
                  THEN Append(sent, [times |-> 0, told |-> 0]) ELSE sent
        allowed == Denied(before, c, estimate) = "none"
    IN
    /\ \/ /\ callers[c].kind = "coordinator" /\ ~callers[c].live
          /\ Phase(c, "failed")
          /\ UNCHANGED <<db, sent>>
       \/ /\ callers[c].kind = "action" \/ callers[c].live
          /\ ~allowed
          /\ db' = after
          /\ Phase(c, "failed")
          /\ UNCHANGED sent
       \/ /\ callers[c].kind = "action" /\ ~callers[c].live
          /\ allowed
          /\ db' = Settled(after, row, 0, FALSE)
          /\ sent' = grown
          /\ Phase(c, "failed")
       \/ /\ callers[c].live /\ allowed
          /\ db' = IF callers[c].kind = "coordinator" THEN EarlierUnknown(after, c, row) ELSE after
          /\ IF adapter[callers[c].kind] = "native"
             THEN /\ Fetch(row, grown)
                  /\ callers' = [callers EXCEPT ![c].phase = "sent", ![c].row = row]
             ELSE /\ sent' = grown
                  /\ callers' = [callers EXCEPT ![c].phase = "admitted", ![c].row = row]
    /\ UNCHANGED <<up, adapter, view, used>>

Request(c) ==
    /\ callers[c].phase = "idle"
    /\ \E estimate \in Estimates : Begin(c, 0, estimate)

Retry(c) ==
    /\ callers[c].phase = "sent" /\ adapter[callers[c].kind] = "native"
    /\ \E estimate \in Estimates, partial \in {0} \cup Costs :
         /\ callers[c].kind = "coordinator" => partial = 0
         /\ Begin(c, partial, estimate)

\* The callback of a legacy adapter checks again what may have changed since.
MaySend(c) ==
    /\ callers[c].live /\ db.stop = "none"
    /\ callers[c].kind = "coordinator" => db.item = "active"

Callback(c) ==
    /\ callers[c].phase = "admitted"
    /\ IF MaySend(c)
       THEN Fetch(callers[c].row, sent) /\ Phase(c, "sent") /\ UNCHANGED db
       ELSE /\ db' = Settled(db, callers[c].row, 0, FALSE)
            /\ Phase(c, "failed") /\ UNCHANGED sent
    /\ UNCHANGED <<up, adapter, view, used>>

\* The answer, with its usage or without, also when nobody waits for it.
Answer(c) ==
    LET r == callers[c].row IN
    /\ callers[c].phase = "sent"
    /\ \E usage \in {0} \cup Costs :
         /\ db' = Settled(db, r, usage, TRUE)
         /\ sent' = [sent EXCEPT ![r].told = usage]
    /\ Phase(c, "idle")
    /\ UNCHANGED <<up, adapter, view, used>>

\* An error or an abort; a Run's adapter keeps what the stream reported.
Break(c) ==
    LET r == callers[c].row IN
    /\ callers[c].phase = "sent"
    /\ \E usage \in IF callers[c].kind = "action" THEN {0} \cup Costs ELSE {0} :
         db' = Settled(db, r, usage, FALSE)
    /\ Phase(c, "failed")
    /\ UNCHANGED <<up, adapter, view, sent, used>>

-----------------------------------------------------------------------------
(* Runs and turns begin and end *)

Caller(kind) == [kind |-> kind, live |-> TRUE, phase |-> "idle", row |-> 0,
                  epoch |-> db.epoch]
NoneLive(kind) == \A c \in DOMAIN callers : callers[c].kind = kind => ~callers[c].live

\* claimReadyAction: canAttempt stops the WorkItem when no attempt is left.
CanAttempt(d) == Cardinality(Runs) < Attempts(d)

ClaimRun ==
    /\ up /\ NoneLive("action")
    /\ db.item = "active" /\ db.stop = "none"
    /\ IF CanAttempt(db)
       THEN /\ Len(callers) < MaxCallers
            /\ callers' = Append(callers, Caller("action"))
            /\ UNCHANGED db
       ELSE db' = Stopped(db, "attempts") /\ UNCHANGED callers
    /\ UNCHANGED <<up, adapter, view, sent, used>>

\* canAutomaticallyCoordinate; a user's message does not wait.
BeginTurn(byUser) ==
    /\ up /\ NoneLive("coordinator") /\ Len(callers) < MaxCallers
    /\ db.item = "active" /\ db.stop = "none"
    /\ IF byUser THEN May("command") ELSE ~db.waiting /\ UNCHANGED used
    /\ callers' = Append(callers, Caller("coordinator"))
    /\ UNCHANGED <<db, up, adapter, view, sent>>

WaitEnds ==
    /\ db.waiting /\ db' = [db EXCEPT !.waiting = FALSE]
    /\ UNCHANGED <<callers, up, adapter, view, sent, used>>

Leave(c) == callers' = [callers EXCEPT ![c] = [@ EXCEPT !.phase = "gone", !.live = FALSE, !.row = 0]]

\* A Run ends; it reports what it has, or its progress.
EndRun(c) ==
    /\ callers[c].kind = "action" /\ callers[c].phase \in {"idle", "failed"}
    /\ Leave(c)
    /\ UNCHANGED <<db, up, adapter, view, sent, used>>

\* The decision of a turn, which may complete the WorkItem when no Run is left;
\* a turn that lost its claim or is stopped decides nothing.
Decide(c) ==
    /\ callers[c].kind = "coordinator" /\ callers[c].phase = "idle" /\ callers[c].row # 0
    /\ Leave(c)
    /\ db' = db
       \/ /\ callers[c].live /\ db.stop = "none" /\ db.item = "active" /\ NoneLive("action")
          /\ db' = [db EXCEPT !.item = "done"]
    /\ UNCHANGED <<up, adapter, view, sent, used>>

FailTurn(c) ==
    /\ callers[c].kind = "coordinator" /\ callers[c].phase = "failed"
    /\ Leave(c)
    /\ db' = IF callers[c].live THEN Failed(db) ELSE db
    /\ UNCHANGED <<up, adapter, view, sent, used>>

\* A lease runs out and is recovered while the executor goes on.
Lose(c) ==
    /\ callers[c].live /\ callers[c].phase # "gone" /\ May("fault")
    /\ callers' = [callers EXCEPT ![c].live = FALSE]
    /\ UNCHANGED <<db, up, adapter, view, sent>>

Crash ==
    /\ up /\ May("fault") /\ up' = FALSE
    /\ callers' = [c \in DOMAIN callers |->
         IF callers[c].phase = "gone" THEN callers[c]
         ELSE [callers[c] EXCEPT !.phase = IF @ = "idle" THEN "gone" ELSE "lost"]]
    /\ UNCHANGED <<db, adapter, view, sent>>

\* A Run of the old process is recovered.  A turn that had dispatched a request
\* counts as failed; another one is resumed.
Boot ==
    LET lost == {c \in DOMAIN callers : callers[c].live /\ callers[c].kind = "coordinator"
                                          /\ callers[c].phase = "lost"}
    IN
    /\ ~up /\ up' = TRUE
    /\ db' = IF lost = {} THEN db ELSE Failed(db)
    /\ callers' = [c \in DOMAIN callers |->
         IF callers[c].live /\ callers[c].kind = "coordinator" /\ callers[c].phase = "gone"
         THEN [callers[c] EXCEPT !.phase = "idle"]
         ELSE IF callers[c].phase \in {"gone", "lost"}
              THEN [callers[c] EXCEPT !.live = FALSE, !.phase = "gone", !.row = 0]
              ELSE callers[c]]
    /\ UNCHANGED <<adapter, view, sent, used>>

-----------------------------------------------------------------------------
(* The user *)

\* The user looks at a WorkItem that needs a decision.
Look ==
    /\ db.stop # "none" \/ db.item = "cancelled"
    /\ view' = [revision |-> db.revision, stop |-> db.stop] /\ view' # view
    /\ UNCHANGED <<db, callers, up, adapter, sent, used>>

Current == view.revision = db.revision

Extend ==
    /\ up /\ Current /\ May("command")
    /\ \E add \in Additions :
         db' = [db EXCEPT !.limits = [l \in Limit |-> @[l] + add[l]],
                          !.extension = @ + add.attempts, !.revision = @ + 1]
    /\ view' = [revision |-> db'.revision, stop |-> db'.stop]
    /\ UNCHANGED <<callers, up, adapter, sent>>

CanResume ==
    /\ Len(db.rows) < db.limits.requests /\ Charged(db) < db.limits.tokens
    /\ db.failures < db.limits.failures
    /\ db.stop = "attempts" => CanAttempt(db)

\* Cancelling ends the Runs only; a resume takes the claims of turns as well.
RunsRetired == [c \in DOMAIN callers |->
                  [callers[c] EXCEPT !.live = @ /\ callers[c].kind # "action"]]
Retired_Runs == RunsRetired
Retired == [c \in DOMAIN callers |-> [callers[c] EXCEPT !.live = FALSE]]

Resume ==
    /\ up /\ Current /\ May("command")
    /\ db.stop # "none" \/ db.item = "cancelled"
    /\ CanResume
    /\ db' = [db EXCEPT !.stop = "none", !.waiting = FALSE, !.revision = @ + 1, !.item = "active",
                        !.epoch = @ + 1]
    /\ callers' = Retired
    /\ view' = [revision |-> db'.revision, stop |-> "none"]
    /\ UNCHANGED <<up, adapter, sent>>

Cancel ==
    /\ up /\ db.item = "active" /\ May("command")
    /\ db' = [db EXCEPT !.item = "cancelled"]
    /\ callers' = RunsRetired
    /\ UNCHANGED <<up, adapter, view, sent>>

-----------------------------------------------------------------------------
Next ==
    \/ \E c \in DOMAIN callers :
         \/ Request(c) \/ Retry(c) \/ Callback(c) \/ Answer(c) \/ Break(c)
         \/ EndRun(c) \/ Decide(c) \/ FailTurn(c) \/ Lose(c)
    \/ ClaimRun \/ BeginTurn(TRUE) \/ BeginTurn(FALSE) \/ WaitEnds
    \/ Crash \/ Boot \/ Look \/ Extend \/ Resume \/ Cancel

Spec == Init /\ [][Next]_vars

-----------------------------------------------------------------------------
(* Properties *)

Codes == {"none", "runRequests", "requests", "tokens", "attempts", "failures"}

Rows == [caller : Nat, estimate : Estimates, charged : Nat,
         status : {"reserved", "unknown", "reported"}]
Database == [limits : [Limit -> Nat], extension : Nat, stop : Codes, revision : Nat \ {0},
             failures : Nat, waiting : BOOLEAN, rows : Seq(Rows),
             item : {"active", "done", "cancelled"}, epoch : Nat \ {0}]
Callers == [kind : Kind, live : BOOLEAN,
            phase : {"idle", "admitted", "sent", "failed", "lost", "gone"},
            row : Nat, epoch : Nat \ {0}]

TypeOK ==
    /\ db \in Database /\ callers \in Seq(Callers)
    /\ \A r \in DOMAIN db.rows : db.rows[r].caller \in DOMAIN callers
    /\ \A c \in DOMAIN callers : callers[c].row <= Len(db.rows)
    /\ up \in BOOLEAN /\ adapter \in Adapters
    /\ view \in [revision : Nat, stop : Codes]
    /\ sent \in Seq([times : Nat, told : Nat]) /\ Len(sent) = Len(db.rows)
    /\ used \in [{"command", "fault"} -> Nat]

\* Nothing is free: every request that reached a provider has an entry of its
\* own in the ledger, which is charged with what it cost once the provider
\* reported that, and with no less than its estimate until then (class comment
\* of WorkCenterResourceAdapter: reservations never become free retries).
NothingIsFree ==
    \A r \in DOMAIN db.rows :
        /\ sent[r].times <= 1
        /\ IF db.rows[r].status = "reported" THEN db.rows[r].charged = sent[r].told
           ELSE db.rows[r].charged >= db.rows[r].estimate

\* The requests, the attempts and the requests of a Run stay within what the
\* user allowed; where tokens or failures went beyond it, the WorkItem is stopped.
WithinLimits ==
    /\ Len(db.rows) <= db.limits.requests
    /\ \A c \in Runs : Cardinality(RequestsOf(db, c)) <= db.limits.runRequests
    /\ Cardinality(Runs) <= Attempts(db)
    /\ Charged(db) > db.limits.tokens => db.stop # "none"
    /\ db.failures >= db.limits.failures => db.stop # "none"

\* The tokens exceed the limit by no more than what answers cost beyond their
\* estimates, however many requests are in flight or lost.
Excess(d) ==
    Total([r \in DOMAIN d.rows |-> Larger(0, d.rows[r].charged - d.rows[r].estimate)], Len(d.rows))
OvershootIsReported == Charged(db) <= db.limits.tokens + Excess(db)

\* The rows have their types, and what is spent stays within what the user
\* allowed, but for what answers cost beyond their estimates.
BudgetInv == TypeOK /\ WithinLimits /\ OvershootIsReported

\* No request is sent for a stopped, finished or cancelled WorkItem, nor by a
\* Run or turn that lost its lease or claim, among them those of before a
\* resume (work-center-resource-control.md: the old claim cannot dispatch).
FetchIsAdmitted ==
    \A r \in DOMAIN sent' :
        (sent'[r].times > 0 /\ (r \in DOMAIN sent => sent[r].times # sent'[r].times)) =>
            /\ db'.stop = "none" /\ db.item = "active"
            /\ callers[db'.rows[r].caller].live
            /\ callers[db'.rows[r].caller].epoch = db.epoch

\* A stop is lifted by a user who was shown this very stop, and by nobody else.
StopNeedsUser ==
    db.stop # "none" /\ db'.stop = "none" => view = [revision |-> db.revision, stop |-> db.stop]

\* A stop holds until the user lifts it, and for what was claimed before also
\* after that.
StopHolds == [][FetchIsAdmitted /\ StopNeedsUser]_vars

\* The ledger only grows, and a reported charge is final, whatever is replayed,
\* retried or answered late.
LedgerIsKept ==
    [][\A r \in DOMAIN db.rows :
         /\ r \in DOMAIN db'.rows
         /\ db'.rows[r].caller = db.rows[r].caller /\ db'.rows[r].estimate = db.rows[r].estimate
         /\ db.rows[r].status = "reported" => db'.rows[r] = db.rows[r]
         /\ db.rows[r].status = "unknown" => db'.rows[r].status # "reserved"]_vars

=============================================================================
