--------------------------- MODULE ScheduledTasks ---------------------------
(***************************************************************************)
(* The scheduled task of one Session (agent/yeaft/sessions/                *)
(* scheduled-task-scheduler.js, scheduled-task-definition.js, and the      *)
(* ingress of agent/yeaft/web-bridge.js that a dispatched prompt takes).   *)
(*                                                                         *)
(* The definition, the next occurrence and the last run are in the file of *)
(* the Session; every change reads it afresh and replaces it atomically.   *)
(* A run is claimed in the file before its prompt is dispatched, and which *)
(* runs are tracked is known to the process only.                          *)
(*                                                                         *)
(* Time is counted in minutes.  A calendar rule is the set of its          *)
(* instants up to its end date; recurrence.js computes them.  Prompt, name *)
(* and notification are left out: an edit of them is an edit that keeps    *)
(* the trigger.  Requests with an outdated revision are refused and leave  *)
(* no trace here.                                                          *)
(***************************************************************************)
EXTENDS Integers, FiniteSets

Sets == INSTANCE FiniteSetsExt

CONSTANTS
    Triggers,    \* the triggers a user may configure
    MaxTime,     \* bound on the clock
    Grace,       \* minutes by which a recurring occurrence may be late
    Max          \* bounds: "command" counts what a user does, "fault" crashes,
                 \* lost connections and failed writes

ASSUME ScheduleAssumption ==
    /\ MaxTime \in Nat /\ Grace \in Nat
    /\ Max \in [{"command", "fault"} -> Nat]
    /\ \A t \in Triggers :
         /\ t.type \in {"manual", "once", "recurring"}
         /\ t.times \subseteq Nat \ {0} /\ t.maxRuns \in Nat
         /\ t.type = "manual" => t.times = {}
         /\ t.type = "once" => \E i \in t.times : t.times = {i}

Never == 0
NoId == 0
MaxIds == Max.command + MaxTime      \* every run takes a command or an occurrence

VARIABLES
    file,      \* session.json: present, identity, and the task
    now,       \* the clock
    up,        \* the Agent process runs
    ready,     \* the Server's Project context for the Session has arrived
    active,    \* runs.get(sessionId): the run the scheduler tracks
    backoff,   \* retryAfter lies in the future
    ingress,   \* the dispatched prompt that has not become part of a turn yet
    engine,    \* the run whose prompt the Session executes
    chat,      \* a turn of the user's own runs in the Session
    plan,      \* number of the trigger: an edit of it makes another
    claims,    \* every run that was claimed: its plan, instant and trigger
    executed,  \* runs whose prompt the Session has accepted
    fenced,    \* runs stopped while their prompt was on its way, or of a task that was
               \* edited or deleted before the guard admitted it
    used       \* counters of the bounds

vars == <<file, now, up, ready, active, backoff, ingress, engine, chat, plan,
          claims, executed, fenced, used>>

None == [id |-> NoId, identity |-> 0, rev |-> 0, routed |-> FALSE, ended |-> FALSE,
         error |-> FALSE, stopped |-> FALSE, mixed |-> FALSE]
NoIngress == [id |-> NoId, identity |-> 0, rev |-> 0, admitted |-> FALSE, cancelled |-> FALSE]

\* initialOccurrence and the reset of the counter, for a new trigger.
Planned(t) == IF t.times = {} THEN Never ELSE Sets!Min(t.times)

NewTask(t, rev, last) ==
    [enabled |-> TRUE, trigger |-> t, rev |-> rev, count |-> 0, next |-> Planned(t), last |-> last]
NeverRan == [id |-> NoId, status |-> "none", by |-> "manual", at |-> 0]

Init ==
    /\ \E t \in Triggers : file = [present |-> TRUE, identity |-> 1, task |-> NewTask(t, 1, NeverRan)]
    /\ now = 0 /\ up = TRUE /\ ready = FALSE
    /\ active = None /\ backoff = FALSE
    /\ ingress = NoIngress /\ engine = NoId /\ chat = FALSE
    /\ plan = 1 /\ claims = {} /\ executed = {} /\ fenced = {}
    /\ used = [c \in {"command", "fault"} |-> 0]

May(c) == used[c] < Max[c] /\ used' = [used EXCEPT ![c] = @ + 1]

-----------------------------------------------------------------------------
task == file.task

\* sessionHasActiveWork.
IsActive == ingress # NoIngress \/ engine # NoId \/ chat
Tracked == active # None

\* The tracked run is the one the file records.
Same(a) == file.present /\ file.identity = a.identity /\ task.last.id = a.id

\* advanceScheduledTask, after `count' scheduled runs.
Advanced_FromDue(t, count) ==
    LET later == {i \in t.times : i >= task.next} IN
    IF t.type # "recurring" \/ later = {} THEN Never ELSE Sets!Min(later)
Advanced(t, count) ==
    LET later == {i \in t.times : i > now} IN
    IF \/ t.type # "recurring" \/ later = {}
       \/ t.maxRuns # 0 /\ count >= t.maxRuns
    THEN Never ELSE Sets!Min(later)

Due == /\ task.enabled /\ task.trigger.type # "manual"
       /\ task.next # Never /\ task.next <= now

\* recover: the task after an attempt that nobody tracks, and whether its
\* missed occurrences are passed over.
Interrupted(t) ==
    [t EXCEPT
        !.next = IF /\ t.last.by = "schedule" /\ t.trigger.type = "once"
                    /\ t.next # Never /\ t.next <= t.last.at
                 THEN Never ELSE @,
        !.last.status = "interrupted"]
SkipMissed(t) ==
    IF ready /\ t.trigger.type = "recurring" /\ t.next # Never /\ t.next <= now
    THEN [t EXCEPT !.next = Advanced(t.trigger, t.count)] ELSE t
Recovered_Skipped(t) == SkipMissed(t)
Recovered(t) ==
    SkipMissed(IF t.last.status = "running" THEN Interrupted(t) ELSE t)

-----------------------------------------------------------------------------
(* Claiming a run: run(sessionId, trigger) *)

CanRun ==
    /\ file.present /\ ready
    /\ active.id = NoId /\ task.last.status # "running" /\ ~IsActive

\* The file after the claim.  A manual run leaves the plan alone.
Claimed(id, by) ==
    LET count == IF by = "schedule" THEN task.count + 1 ELSE task.count IN
    [task EXCEPT !.last = [id |-> id, status |-> "running", by |-> by, at |-> now],
                 !.count = count,
                 !.next = IF by = "schedule" THEN Advanced(task.trigger, count) ELSE @]

Run(by) ==
    LET id == Cardinality(claims) + 1 IN
    /\ file' = [file EXCEPT !.task = Claimed(id, by)]
    /\ active' = [None EXCEPT !.id = id, !.identity = file.identity, !.rev = task.rev]
    /\ ingress' = [NoIngress EXCEPT !.id = id, !.identity = file.identity, !.rev = task.rev]
    /\ claims' = claims \cup {[id |-> id, identity |-> file.identity, plan |-> plan, by |-> by,
                               instant |-> IF by = "schedule" THEN task.next ELSE Never]}

RunManually ==
    /\ up /\ CanRun /\ May("command")
    /\ Run("manual")
    /\ UNCHANGED <<now, up, ready, backoff, engine, chat, plan, executed, fenced>>

-----------------------------------------------------------------------------
(* tick.  The due occurrence is looked at before tracked runs are retired. *)

AfterDrop == IF Tracked /\ ~Same(active) THEN None ELSE active
Busy == AfterDrop # None \/ IsActive
Missed == /\ Due /\ ready /\ task.trigger.type = "recurring"
          /\ Busy \/ now - task.next > Grace

\* finish.
Status_Routed(a) == IF a.error THEN "failed" ELSE IF a.stopped THEN "interrupted" ELSE "completed"
Status(a) == IF a.error THEN "failed" ELSE IF a.stopped THEN "interrupted"
             ELSE IF a.ended THEN "completed" ELSE "failed"

\* The second loop, for task t of the first.
CanFinish_Ended(a) == a # None /\ a.routed /\ a.ended /\ ~IsActive
CanFinish(a) == a # None /\ a.routed /\ ~IsActive
Retire(t) ==
    IF CanFinish(AfterDrop)
    THEN /\ file' = [file EXCEPT !.task = [t EXCEPT !.last.status = Status(AfterDrop)]]
         /\ active' = None
    ELSE /\ file' = [file EXCEPT !.task = t]
         /\ active' = AfterDrop

TickRecovers ==
    /\ task.last.status = "running" /\ AfterDrop = None
    /\ file' = [file EXCEPT !.task = Recovered(task)]
    /\ active' = None
    /\ UNCHANGED <<ingress, claims>>
TickRuns ==
    /\ ~(task.last.status = "running" /\ AfterDrop = None)
    /\ Due /\ ready /\ ~Missed /\ ~Busy
    /\ Run("schedule")
TickPasses ==
    /\ ~(task.last.status = "running" /\ AfterDrop = None)
    /\ ~(Due /\ ready /\ ~Missed /\ ~Busy)
    /\ Retire(IF Missed THEN [task EXCEPT !.next = Advanced(task.trigger, task.count)] ELSE task)
    /\ UNCHANGED <<ingress, claims>>

Tick ==
    /\ up /\ ~backoff
    /\ IF file.present THEN TickRecovers \/ TickRuns \/ TickPasses
       ELSE active' = None /\ UNCHANGED <<file, ingress, claims>>
    /\ UNCHANGED <<now, up, ready, backoff, engine, chat, plan, executed, fenced, used>>

\* A write of the tick fails, and the Session waits.  The write that passes a
\* missed occurrence over may have succeeded before the one of finish.
WriteFails ==
    /\ up /\ ~backoff /\ file.present /\ May("fault")
    /\ \/ /\ \/ task.last.status = "running" /\ AfterDrop = None
             \/ Due /\ ready /\ (Missed \/ ~Busy)
             \/ CanFinish(AfterDrop)
          /\ UNCHANGED file
       \/ /\ Missed /\ CanFinish(AfterDrop)
          /\ file' = [file EXCEPT !.task.next = Advanced(task.trigger, task.count)]
    /\ active' = AfterDrop
    /\ backoff' = TRUE
    /\ UNCHANGED <<now, up, ready, ingress, engine, chat, plan, claims, executed, fenced>>

BackoffEnds ==
    /\ backoff /\ backoff' = FALSE
    /\ UNCHANGED <<file, now, up, ready, active, ingress, engine, chat, plan,
                   claims, executed, fenced, used>>

Pass ==
    /\ now < MaxTime /\ now' = now + 1
    /\ UNCHANGED <<file, up, ready, active, backoff, ingress, engine, chat, plan,
                   claims, executed, fenced, used>>

-----------------------------------------------------------------------------
(* The prompt reaches the Session: dispatchAcceptedSessionSend *)

Guard_NoRevision == ready /\ Same(ingress)
Guard == ready /\ Same(ingress) /\ task.rev = ingress.rev

\* The promise of dispatch settles.
Routed(failed) ==
    active' = IF active.id = ingress.id
              THEN [active EXCEPT !.routed = TRUE, !.error = @ \/ failed] ELSE active

\* It was stopped, or the guard refuses it, or it leads to no turn.
Reject ==
    /\ ingress # NoIngress /\ (ingress.admitted => ingress.cancelled)
    /\ Routed(~ingress.cancelled /\ ~Guard)
    /\ ingress' = NoIngress
    /\ UNCHANGED <<file, now, up, ready, backoff, engine, chat, plan,
                   claims, executed, fenced, used>>

Passes == ingress # NoIngress /\ ~ingress.admitted /\ ~ingress.cancelled /\ Guard

\* The prompt becomes part of a turn: a stop reaches it only as one of the turn.
Starts ==
    /\ Routed(FALSE)
    /\ engine' = ingress.id
    /\ executed' = executed \cup {ingress.id}
    /\ ingress' = NoIngress
    /\ UNCHANGED <<file, now, up, ready, backoff, plan, claims, fenced, used>>

\* The VP is idle, and the turn starts in the step of the guard.
Accept == Passes /\ Starts /\ UNCHANGED chat

\* A turn of the user's own runs, and a model is asked whether the prompt goes on
\* with it.  Meanwhile the task may be edited, and the guard is not asked again:
\* the answer is dropped only when the Session was stopped.
Admit ==
    /\ Passes /\ chat
    /\ ingress' = [ingress EXCEPT !.admitted = TRUE]
    /\ UNCHANGED <<file, now, up, ready, active, backoff, engine, chat, plan,
                   claims, executed, fenced, used>>

\* It gets a turn of its own, or is appended to the one that runs.
Classified ==
    /\ ingress.admitted /\ ~ingress.cancelled
    /\ Starts
    /\ chat' \in {chat, FALSE}

\* observe: a turn of the Session ended, whoever asked for it.
Observed(how, own) ==
    IF ~Tracked THEN active
    ELSE [active EXCEPT !.ended = TRUE, !.error = @ \/ how = "errored",
                        !.stopped = @ \/ how = "aborted", !.mixed = @ \/ ~own]

TurnEnds(how) ==
    /\ engine # NoId
    /\ active' = Observed(how, TRUE)
    /\ engine' = NoId
    /\ UNCHANGED <<file, now, up, ready, backoff, ingress, chat, plan,
                   claims, executed, fenced, used>>

Chat ==
    /\ up /\ file.present /\ ~chat /\ May("command")
    /\ chat' = TRUE
    /\ UNCHANGED <<file, now, up, ready, active, backoff, ingress, engine, plan,
                   claims, executed, fenced>>

ChatEnds(how) ==
    /\ chat
    /\ active' = Observed(how, FALSE)
    /\ chat' = FALSE
    /\ UNCHANGED <<file, now, up, ready, backoff, ingress, engine, plan,
                   claims, executed, fenced, used>>

\* What is on its way must not be executed.
Fence == fenced' = fenced \cup ({ingress.id} \ {NoId})

\* handleYeaftAbortAll; the turns it aborts end later.
AbortAll ==
    /\ up /\ IsActive /\ May("command")
    /\ ingress' = IF ingress = NoIngress THEN ingress ELSE [ingress EXCEPT !.cancelled = TRUE]
    /\ active' = IF Tracked THEN [active EXCEPT !.stopped = TRUE] ELSE active
    /\ Fence
    /\ UNCHANGED <<file, now, up, ready, backoff, engine, chat, plan, claims, executed>>

-----------------------------------------------------------------------------
(* The user, the connection and the process *)

\* update: an edit keeps the bookkeeping unless it changes the trigger.
Edited(t, enabled) ==
    IF t = task.trigger THEN [task EXCEPT !.enabled = enabled, !.rev = @ + 1]
    ELSE [NewTask(t, task.rev + 1, task.last) EXCEPT !.enabled = enabled]

Edit ==
    /\ up /\ file.present /\ May("command")
    /\ \E t \in Triggers, enabled \in BOOLEAN :
         /\ file' = [file EXCEPT !.task = Edited(t, enabled)]
         /\ plan' = IF t = task.trigger THEN plan ELSE plan + 1
    /\ IF ingress.admitted THEN UNCHANGED fenced ELSE Fence
    /\ UNCHANGED <<now, up, ready, active, backoff, ingress, engine, chat,
                   claims, executed>>

\* Delete or archive, which aborts what runs; and a new Session of that name.
Remove ==
    /\ up /\ file.present /\ May("command")
    /\ file' = [file EXCEPT !.present = FALSE]
    /\ ready' = FALSE
    /\ IF ingress.admitted THEN UNCHANGED fenced ELSE Fence
    /\ UNCHANGED <<now, up, active, backoff, ingress, engine, chat, plan, claims, executed>>

Recreate ==
    /\ up /\ ~file.present
    /\ \E t \in Triggers :
         file' = [present |-> TRUE, identity |-> file.identity + 1,
                  task |-> NewTask(t, task.rev + 1, NeverRan)]
    /\ plan' = plan + 1
    /\ UNCHANGED <<now, up, ready, active, backoff, ingress, engine, chat,
                   claims, executed, fenced, used>>

Synchronize ==
    /\ up /\ file.present /\ ~ready /\ ready' = TRUE
    /\ UNCHANGED <<file, now, up, active, backoff, ingress, engine, chat, plan,
                   claims, executed, fenced, used>>

Disconnect ==
    /\ ready /\ May("fault") /\ ready' = FALSE
    /\ UNCHANGED <<file, now, up, active, backoff, ingress, engine, chat, plan,
                   claims, executed, fenced>>

Crash ==
    /\ up /\ May("fault")
    /\ up' = FALSE /\ ready' = FALSE /\ active' = None /\ backoff' = FALSE
    /\ ingress' = NoIngress /\ engine' = NoId /\ chat' = FALSE
    /\ UNCHANGED <<file, now, plan, claims, executed, fenced>>

\* start: recovery, unless its write fails.
Boot ==
    /\ ~up /\ up' = TRUE
    /\ \/ /\ file' = IF file.present THEN [file EXCEPT !.task = Recovered(task)] ELSE file
          /\ UNCHANGED <<backoff, used>>
       \/ /\ file.present /\ task.last.status = "running" /\ May("fault")
          /\ backoff' = TRUE /\ UNCHANGED file
    /\ UNCHANGED <<now, ready, active, ingress, engine, chat, plan,
                   claims, executed, fenced>>

-----------------------------------------------------------------------------
Endings == {"completed", "errored", "aborted"}

Next ==
    \/ RunManually \/ Tick \/ WriteFails \/ BackoffEnds \/ Pass
    \/ Reject \/ Accept \/ Admit \/ Classified \/ Chat \/ AbortAll
    \/ \E how \in Endings : TurnEnds(how) \/ ChatEnds(how)
    \/ Edit \/ Remove \/ Recreate \/ Synchronize \/ Disconnect \/ Crash \/ Boot

Spec == Init /\ [][Next]_vars

\* The timer ticks, prompts get through the ingress, turns end, the Server
\* sends its context again, and the Agent is started again.
FairSpec ==
    /\ Spec
    /\ WF_vars(Tick) /\ WF_vars(BackoffEnds) /\ WF_vars(Pass)
    /\ WF_vars(Reject \/ Accept \/ Admit \/ Classified)
    /\ WF_vars(\E how \in Endings : TurnEnds(how)) /\ WF_vars(\E how \in Endings : ChatEnds(how))
    /\ WF_vars(Synchronize) /\ WF_vars(Boot)

-----------------------------------------------------------------------------
(* Properties *)

TypeOK ==
    /\ file.present \in BOOLEAN /\ file.identity \in Nat
    /\ task.enabled \in BOOLEAN /\ task.trigger \in Triggers
    /\ task.rev \in Nat /\ task.count \in Nat
    /\ task.next \in task.trigger.times \cup {Never}
    /\ task.last \in [id : 0..MaxIds, status : {"none", "running", "completed", "failed", "interrupted"},
                      by : {"manual", "schedule"}, at : 0..MaxTime]
    /\ now \in 0..MaxTime
    /\ {up, ready, backoff, chat} \subseteq BOOLEAN
    /\ active.id \in 0..MaxIds /\ ingress.id \in 0..MaxIds /\ engine \in 0..MaxIds
    /\ plan \in Nat \ {0} /\ executed \subseteq 1..MaxIds /\ fenced \subseteq 1..MaxIds
    /\ used \in [{"command", "fault"} -> Nat]

\* Each occurrence of a plan is claimed at most once, however often the Agent
\* restarts, a write fails or the task is paused and edited, and no more
\* occurrences than the plan allows (advanceScheduledTask; tasks.md: missed
\* occurrences are not made up for).
OccurrenceOnce ==
    \A c \in claims : c.by = "schedule" =>
        LET others == {d \in claims : d.by = "schedule" /\ d.plan = c.plan} IN
        /\ \A d \in others : d.instant = c.instant => d = c
        /\ c.plan = plan /\ task.trigger.maxRuns # 0 =>
               Cardinality(others) <= task.trigger.maxRuns

\* While the Session executes the prompt of a run, the file says that this run
\* is running: it is neither reported as over nor replaced by another one
\* (scheduler.run; observe and finish).
ExecutionIsRecorded ==
    file.present /\ (\E c \in claims : c.id = engine /\ c.identity = file.identity)
    => task.last.id = engine /\ task.last.status = "running"

\* A run that the file reports as completed was executed, unless a turn of the
\* user's own ended in the Session while the run was tracked.
CompletedWasExecuted ==
    [][file'.task.last.status = "completed" /\ file'.task # file.task /\ task.last.status = "running"
          => task.last.id \in executed \/ active.mixed]_vars

\* A one-shot is not lost: it stays planned until its occurrence is claimed.
\* One whose time had passed before the last run started is given up with it.
OneShotKept ==
    file.present /\ task.trigger.type = "once" /\ task.next = Never =>
        \/ \E c \in claims : c.by = "schedule" /\ c.plan = plan
        \/ Sets!Min(task.trigger.times) <= task.last.at

\* A prompt that was on its way when its Session was stopped, or when its task was
\* edited, paused or deleted before the guard admitted it, is neither executed nor
\* reported as completed, in spite of reconnections, ticks, turns of the user's and
\* a new Session of that name.  An edit or deletion after the guard comes too late:
\* while the classifier is asked, only a stop is heeded (the ingress guard and its
\* comment; routeActiveEnvelopeToVpThread).
NoStaleExecution ==
    \A r \in fenced :
        /\ r \notin executed
        /\ task.last.id = r => task.last.status # "completed"

\* The file has its types, and each occurrence is claimed once, is not lost, and
\* is on record while it is executed.
OccurrencesInv == TypeOK /\ OccurrenceOnce /\ OneShotKept /\ ExecutionIsRecorded

\* A run in the file gets an outcome, also when the Agent crashed or the write
\* of the outcome failed.
RunEnds ==
    (file.present /\ task.last.status = "running")
        ~> (~file.present \/ task.last.status # "running")

\* A one-shot that is due and enabled runs, is edited or paused, or goes with
\* its Session.
OneShotRuns ==
    (file.present /\ Due /\ task.trigger.type = "once") ~> ~(file.present /\ Due)

=============================================================================
