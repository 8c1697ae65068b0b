------------------------ MODULE ScheduledTasksProofs ------------------------
(***************************************************************************)
(* Proofs about ScheduledTasks, for any triggers and bounds: each          *)
(* occurrence of a plan is claimed once, a one-shot is not lost, what the  *)
(* Session executes is on record, a prompt that was stopped or outdated    *)
(* before its admission is not executed, and a run is reported as          *)
(* completed only when it was executed.                                    *)
(***************************************************************************)
EXTENDS ScheduledTasks, FiniteSetTheorems, WellFoundedInduction, TLAPS

Statuses == {"none", "running", "completed", "failed", "interrupted"}
Lasts == [id : Nat, status : Statuses, by : {"manual", "schedule"}, at : Nat]
Tasks == [enabled : BOOLEAN, trigger : Triggers, rev : Nat, count : Nat, next : Nat, last : Lasts]
Files == [present : BOOLEAN, identity : Nat, task : Tasks]
Tracks == [id : Nat, identity : Nat, rev : Nat, routed : BOOLEAN, ended : BOOLEAN,
           error : BOOLEAN, stopped : BOOLEAN, mixed : BOOLEAN]
Ingresses == [id : Nat, identity : Nat, rev : Nat, admitted : BOOLEAN, cancelled : BOOLEAN]
Claims == [id : Nat \ {0}, identity : Nat, plan : Nat \ {0}, by : {"manual", "schedule"},
           instant : Nat]
Uses == [{"command", "fault"} -> Nat]

-----------------------------------------------------------------------------
(* The inductive invariant *)

Records ==
    /\ file \in Files /\ task.next \in task.trigger.times \cup {Never}
    /\ now \in 0..MaxTime /\ task.last.at <= now
    /\ up \in BOOLEAN /\ ready \in BOOLEAN /\ backoff \in BOOLEAN /\ chat \in BOOLEAN
    /\ active \in Tracks /\ ingress \in Ingresses /\ engine \in Nat
    /\ plan \in Nat \ {0} /\ claims \subseteq Claims /\ executed \subseteq Nat \ {0}
    /\ used \in Uses /\ used["command"] <= Max["command"]

\* Runs are numbered as they are claimed.
Numbered ==
    /\ IsFiniteSet(claims)
    /\ \A c \in claims : c.id <= Cardinality(claims)
    /\ \A c, d \in claims : c.id = d.id => c = d
    /\ \A x \in {task.last.id, active.id, ingress.id, engine} \cup executed : x <= Cardinality(claims)

\* A run takes a command or a minute: an occurrence that is due, or may be at
\* once in a new Session, is paid for already.
Owed == IF ~file.present \/ (task.next # Never /\ task.next <= now) THEN 1 ELSE 0
Paid == Cardinality(claims) + Owed <= used["command"] + now

\* The occurrences of a plan are claimed in order: the next one lies after them.
Scheduled(p) == {c \in claims : c.by = "schedule" /\ c.plan = p}
PlanIsAhead ==
    /\ \A c \in claims : c.plan <= plan /\ c.identity <= file.identity /\ c.instant <= now
    /\ \A c \in Scheduled(plan) : task.next = Never \/ c.instant < task.next
    /\ \A c, d \in claims : /\ c.by = "schedule" /\ d.by = "schedule"
                            /\ c.plan = d.plan /\ c.instant = d.instant
                            => c = d

\* The counter of the task counts them, and a plan that has had its runs is over.
CountIsKept ==
    /\ task.count = Cardinality(Scheduled(plan))
    /\ task.trigger.maxRuns # 0 => task.count <= task.trigger.maxRuns
    /\ task.next # Never => /\ task.trigger.type = "once" => task.count = 0
                            /\ task.trigger.maxRuns # 0 => task.count < task.trigger.maxRuns

\* A prompt on its way, or executed, belongs to the one run that the file says
\* is running and that the scheduler tracks.
InFlight == {ingress.id, engine} \ {NoId}
Recorded(x) ==
    file.present /\ (\E c \in claims : c.id = x /\ c.identity = file.identity)
    => /\ task.last.id = x /\ task.last.status = "running"
       /\ active.id = x /\ active.identity = file.identity
FlightsAreRecorded ==
    /\ \A x \in InFlight : /\ \E c \in claims : c.id = x
                           /\ Recorded(x)
                           /\ active # None => active.id = x
    /\ ingress # NoIngress =>
         /\ engine = NoId /\ ingress.id # NoId
         /\ \E c \in claims : c.id = ingress.id /\ c.identity = ingress.identity
         /\ active # None => active.rev = ingress.rev

\* What is tracked as ended was executed, or a turn of the user's ended.
EndsAreExecuted ==
    /\ active # None => active.id # NoId
    /\ engine # NoId => engine \in executed
    /\ active.ended /\ ~active.mixed => active.id \in executed

\* Nothing of a prompt survives the process.
DownIsIdle == ~up => ingress = NoIngress /\ engine = NoId

IInv ==
    /\ Records /\ Numbered /\ Paid /\ PlanIsAhead /\ CountIsKept /\ OneShotKept
    /\ FlightsAreRecorded /\ EndsAreExecuted /\ DownIsIdle

-----------------------------------------------------------------------------
(* Instants *)

LEMMA LeastNatural ==
    ASSUME NEW T, T \subseteq Nat, T # {}
    PROVE  \E m \in T : \A k \in T : m <= k
<1>. DEFINE R == {p \in Nat \X Nat : p[1] < p[2]}
<1>1. R = OpToRel(<, Nat)
  BY DEF OpToRel
<1>2. IsWellFoundedOn(R, Nat)
  BY <1>1, NatLessThanWellFounded
<1>3. PICK m \in T : \A k \in T : ~(<<k, m>> \in R)
  BY <1>2, WFMin
<1>4. ASSUME NEW k \in T, k < m
      PROVE  FALSE
  <2>1. <<k, m>> \in Nat \X Nat /\ <<k, m>>[1] < <<k, m>>[2]
    BY <1>4
  <2>2. <<k, m>> \in R
    BY <2>1
  <2>. QED
    BY <2>2, <1>3
<1>. QED
  BY <1>4

LEMMA MinIsLeast ==
    ASSUME NEW T, T \subseteq Nat, T # {}
    PROVE  Sets!Min(T) \in T /\ \A k \in T : Sets!Min(T) <= k
BY LeastNatural DEF Sets!Min

\* What the assumption says of the trigger of the task.
LEMMA TriggerTypes ==
    ASSUME NEW t \in Triggers
    PROVE  /\ t.type \in {"manual", "once", "recurring"} /\ t.maxRuns \in Nat
           /\ t.times \subseteq Nat \ {0}
           /\ t.type = "manual" => t.times = {}
           /\ t.type = "once" => \E i \in t.times : t.times = {i} /\ Sets!Min(t.times) = i
<1>1. /\ t.type \in {"manual", "once", "recurring"} /\ t.maxRuns \in Nat
      /\ t.times \subseteq Nat \ {0}
      /\ t.type = "manual" => t.times = {}
      /\ t.type = "once" => \E i \in t.times : t.times = {i}
  BY ScheduleAssumption
<1>2. ASSUME NEW i \in t.times, t.times = {i} PROVE Sets!Min(t.times) = i
  BY <1>1, <1>2, MinIsLeast
<1>. QED
  BY <1>1, <1>2

LEMMA AdvancedIsLater ==
    ASSUME NEW t \in Triggers, NEW n \in Nat, now \in Nat
    PROVE  /\ Advanced(t, n) = Never \/ (Advanced(t, n) \in t.times /\ Advanced(t, n) > now)
           /\ t.type # "recurring" \/ (t.maxRuns # 0 /\ n >= t.maxRuns) => Advanced(t, n) = Never
<1>. DEFINE later == {i \in t.times : i > now}
<1>1. later \subseteq Nat
  BY TriggerTypes
<1>2. later # {} => Sets!Min(later) \in later
  BY <1>1, MinIsLeast
<1>. QED
  BY <1>2 DEF Advanced

-----------------------------------------------------------------------------
(* Tasks: what the scheduler does to one without claiming a run *)

\* Task t is the task with its plan as it was, moved on, or given up.
Moves(t) ==
    /\ t \in Tasks
    /\ t.trigger = task.trigger /\ t.count = task.count
    /\ t.last.id = task.last.id /\ t.last.at = task.last.at
    /\ \/ t.next = task.next
       \/ /\ task.trigger.type = "recurring" /\ task.next # Never
          /\ t.next = Never \/ (t.next \in task.trigger.times /\ t.next > now)
       \/ /\ task.trigger.type = "once" /\ t.next = Never
          /\ task.next # Never /\ task.next <= task.last.at

LEMMA TaskTypes ==
    ASSUME Records
    PROVE  /\ task \in Tasks /\ task.trigger \in Triggers /\ task.count \in Nat
           /\ task.next \in Nat /\ task.last \in Lasts /\ now \in Nat
           /\ file.present \in BOOLEAN /\ file.identity \in Nat
           /\ task.trigger.times \subseteq Nat \ {0}
           /\ Moves(task)
BY TriggerTypes, ScheduleAssumption DEF Records, Files, Tasks, Lasts, task, Moves

\* A task changed in nothing but the status of its last run and its next instant.
LEMMA StatusMoves ==
    ASSUME NEW t \in Tasks, NEW s \in Statuses
    PROVE  /\ [t EXCEPT !.last.status = s] \in Tasks
           /\ [t EXCEPT !.last.status = s].trigger = t.trigger
           /\ [t EXCEPT !.last.status = s].count = t.count
           /\ [t EXCEPT !.last.status = s].next = t.next
           /\ [t EXCEPT !.last.status = s].last = [t.last EXCEPT !.status = s]
           /\ [t EXCEPT !.last.status = s].last.id = t.last.id
           /\ [t EXCEPT !.last.status = s].last.at = t.last.at
           /\ [t EXCEPT !.last.status = s].last.status = s
<1>. PICK l : l = [t.last EXCEPT !.status = s]
  OBVIOUS
<1>1. t.last \in Lasts
  BY DEF Tasks
<1>2. l \in Lasts /\ l.id = t.last.id /\ l.at = t.last.at /\ l.status = s
  BY <1>1 DEF Lasts
<1>3. [t EXCEPT !.last.status = s] = [t EXCEPT !.last = l]
  OBVIOUS
<1>4. /\ [t EXCEPT !.last = l] \in Tasks
      /\ [t EXCEPT !.last = l].trigger = t.trigger /\ [t EXCEPT !.last = l].count = t.count
      /\ [t EXCEPT !.last = l].next = t.next /\ [t EXCEPT !.last = l].last = l
  BY <1>2 DEF Tasks
<1>. QED
  BY <1>2, <1>3, <1>4

LEMMA NextMoves ==
    ASSUME NEW t \in Tasks, NEW n \in Nat
    PROVE  /\ [t EXCEPT !.next = n] \in Tasks
           /\ [t EXCEPT !.next = n].trigger = t.trigger
           /\ [t EXCEPT !.next = n].count = t.count
           /\ [t EXCEPT !.next = n].next = n
           /\ [t EXCEPT !.next = n].last = t.last
BY DEF Tasks

\* Missed occurrences of a recurring plan are passed over.
LEMMA SkipMoves ==
    ASSUME Records, NEW t, Moves(t), t.trigger.type = "recurring" => t.next = task.next
    PROVE  /\ t.trigger.type = "recurring" /\ t.next # Never =>
                Moves([t EXCEPT !.next = Advanced(t.trigger, t.count)])
           /\ Moves(SkipMissed(t)) /\ SkipMissed(t).last = t.last
<1>. t \in Tasks /\ now \in Nat /\ task.trigger \in Triggers /\ task.count \in Nat
  BY TaskTypes DEF Moves
<1>. PICK n : n = Advanced(t.trigger, t.count)
  OBVIOUS
<1>1. t.trigger = task.trigger /\ t.count = task.count
  BY DEF Moves
<1>2. n = Never \/ (n \in task.trigger.times /\ n > now)
  BY <1>1, AdvancedIsLater
<1>3. n \in Nat
  BY <1>2, TriggerTypes DEF Never
<1>. DEFINE u == [t EXCEPT !.next = n]
<1>4. /\ u \in Tasks /\ u.trigger = t.trigger /\ u.count = t.count /\ u.next = n /\ u.last = t.last
  BY <1>3, NextMoves
<1>. HIDE DEF u
<1>5. t.trigger.type = "recurring" /\ t.next # Never => Moves(u)
  BY <1>1, <1>2, <1>4 DEF Moves
<1>6. SkipMissed(t) = t \/ (t.trigger.type = "recurring" /\ t.next # Never /\ SkipMissed(t) = u)
  BY DEF SkipMissed, u
<1>7. u = [t EXCEPT !.next = Advanced(t.trigger, t.count)]
  BY DEF u
<1>. QED
  BY <1>4, <1>5, <1>6, <1>7

\* Recovery: the attempt is interrupted, a one-shot it was for is given up.
LEMMA RecoveredMoves ==
    ASSUME Records
    PROVE  /\ Moves(Recovered(task))
           /\ Recovered(task).last.status = IF task.last.status = "running" THEN "interrupted"
                                            ELSE task.last.status
<1>. /\ task \in Tasks /\ now \in Nat /\ task.trigger \in Triggers /\ task.count \in Nat
     /\ task.next \in Nat /\ task.last \in Lasts /\ Moves(task)
  BY TaskTypes
<1>1. CASE task.last.status # "running"
  BY <1>1, SkipMoves DEF Recovered
<1>2. CASE task.last.status = "running"
  <2>. PICK n : n = IF /\ task.last.by = "schedule" /\ task.trigger.type = "once"
                       /\ task.next # Never /\ task.next <= task.last.at
                    THEN Never ELSE task.next
    OBVIOUS
  <2>1. /\ n \in Nat
        /\ n = task.next \/ /\ task.trigger.type = "once" /\ n = Never
                            /\ task.next # Never /\ task.next <= task.last.at
    BY DEF Never
  <2>u. PICK u : u = [task EXCEPT !.next = n]
    OBVIOUS
  <2>2. /\ u \in Tasks /\ u.trigger = task.trigger /\ u.count = task.count
        /\ u.next = n /\ u.last = task.last
    BY <2>u, <2>1, NextMoves
  <2>v. PICK v : v = [u EXCEPT !.last.status = "interrupted"]
    OBVIOUS
  <2>3. /\ v \in Tasks /\ v.trigger = u.trigger /\ v.count = u.count /\ v.next = u.next
        /\ v.last.id = u.last.id /\ v.last.at = u.last.at /\ v.last.status = "interrupted"
    <3>1. "interrupted" \in Statuses
      BY DEF Statuses
    <3>. QED
      BY <2>v, <2>2, <3>1, StatusMoves
  <2>4. Interrupted(task) = v
    BY <2>u, <2>v DEF Interrupted
  <2>5. Moves(v) /\ (v.trigger.type = "recurring" => v.next = task.next)
    <3>. QED
      BY <2>1, <2>2, <2>3 DEF Moves
  <2>6. Recovered(task) = SkipMissed(v)
    BY <1>2, <2>4 DEF Recovered
  <2>7. Moves(SkipMissed(v)) /\ SkipMissed(v).last = v.last
    BY <2>5, SkipMoves
  <2>. QED
    BY <1>2, <2>3, <2>6, <2>7
<1>. QED
  BY <1>1, <1>2

-----------------------------------------------------------------------------
(* Steps that claim nothing *)

\* A minute or a command is spent, or nothing is and the Session stays.
Spends ==
    \/ now' = now /\ used'["command"] = used["command"] /\ file'.present = file.present
    \/ now' >= now /\ used'["command"] + now' = used["command"] + now + 1

Numbers(S) == \A x \in S : x <= Cardinality(claims)

LEMMA CountTypes ==
    ASSUME Records, Numbered
    PROVE  /\ Cardinality(claims) \in Nat /\ used["command"] \in Nat
           /\ IsFiniteSet(Scheduled(plan)) /\ Cardinality(Scheduled(plan)) \in Nat
<1>1. Cardinality(claims) \in Nat /\ IsFiniteSet(claims)
  BY FS_CardinalityType DEF Numbered
<1>2. Scheduled(plan) \in SUBSET claims
  BY DEF Scheduled
<1>. QED
  BY <1>1, <1>2, FS_Subset, FS_CardinalityType DEF Records, Uses

\* The claims stay, and the task is moved on at most: what is claimed stays in
\* order, and paid for.
LEMMA PlanKeeps ==
    ASSUME IInv, Records', UNCHANGED <<claims, plan>>, Moves(task'), Spends,
           file'.identity = file.identity, file'.present => file.present,
           Numbers({active'.id, ingress'.id, engine'} \cup executed')
    PROVE  Numbered' /\ Paid' /\ PlanIsAhead' /\ CountIsKept' /\ OneShotKept'
<1>. /\ task \in Tasks /\ task.trigger \in Triggers /\ task.count \in Nat
     /\ task.next \in Nat /\ task.last \in Lasts /\ now \in Nat /\ Records
     /\ task.trigger.times \subseteq Nat \ {0}
  BY TaskTypes DEF IInv
<1>. now' \in Nat /\ used'["command"] \in Nat /\ task' \in Tasks /\ task'.next \in Nat
  BY ScheduleAssumption DEF Records, Uses, Files, Tasks, task
<1>. PICK N : N = Cardinality(claims)
  OBVIOUS
<1>. N \in Nat /\ used["command"] \in Nat
  BY CountTypes DEF IInv
<1>1. /\ task'.trigger = task.trigger /\ task'.count = task.count
      /\ task'.last.id = task.last.id /\ task'.last.at = task.last.at
      /\ \/ task'.next = task.next
         \/ /\ task.trigger.type = "recurring" /\ task.next # Never
            /\ task'.next = Never \/ (task'.next \in task.trigger.times /\ task'.next > now)
         \/ /\ task.trigger.type = "once" /\ task'.next = Never
            /\ task.next # Never /\ task.next <= task.last.at
  BY DEF Moves
<1>2. now' >= now
  BY DEF Spends
<1>3. Numbered'
  <2>1. \A x \in {task'.last.id, active'.id, ingress'.id, engine'} \cup executed' : x <= Cardinality(claims)
    BY <1>1 DEF IInv, Numbered, Numbers
  <2>. QED
    BY <2>1 DEF IInv, Numbered
<1>4. Paid'
  <2>1. N + Owed <= used["command"] + now /\ Owed \in 0..1 /\ Owed' \in 0..1
    BY DEF IInv, Paid, Owed
  <2>2. CASE now' = now /\ used'["command"] = used["command"] /\ file'.present = file.present
    <3>1. Owed' <= Owed
      BY <1>1, <2>2 DEF Owed
    <3>. QED
      BY <2>1, <2>2, <3>1 DEF Paid
  <2>3. CASE used'["command"] + now' = used["command"] + now + 1
    BY <2>1, <2>3 DEF Paid
  <2>. QED
    BY <2>2, <2>3 DEF Spends
<1>5. PlanIsAhead'
  <2>1. \A c \in claims : c.instant \in Nat
    BY DEF Records, Claims
  <2>2. Scheduled(plan)' = Scheduled(plan)
    BY DEF Scheduled
  <2>3. \A c \in Scheduled(plan) : task'.next = Never \/ c.instant < task'.next
    BY <1>1, <2>1 DEF IInv, PlanIsAhead, Scheduled
  <2>4. \A c \in claims : c.plan <= plan /\ c.identity <= file.identity /\ c.instant <= now'
    BY <1>2, <2>1 DEF IInv, PlanIsAhead
  <2>. QED
    BY <2>2, <2>3, <2>4 DEF IInv, PlanIsAhead
<1>6. CountIsKept'
  <2>1. Scheduled(plan)' = Scheduled(plan)
    BY DEF Scheduled
  <2>2. /\ task'.count = Cardinality(Scheduled(plan))
        /\ task.trigger.maxRuns # 0 => task'.count <= task.trigger.maxRuns
    BY <1>1 DEF IInv, CountIsKept
  <2>3. task'.next # Never => /\ task.trigger.type = "once" => task'.count = 0
                              /\ task.trigger.maxRuns # 0 => task'.count < task.trigger.maxRuns
    BY <1>1 DEF IInv, CountIsKept
  <2>. QED
    BY <1>1, <2>1, <2>2, <2>3 DEF CountIsKept
<1>7. OneShotKept'
  <2>1. SUFFICES ASSUME file'.present, task.trigger.type = "once", task'.next = Never
        PROVE  (\E c \in claims : c.by = "schedule" /\ c.plan = plan)
               \/ Sets!Min(task.trigger.times) <= task.last.at
    BY <1>1 DEF OneShotKept
  <2>2. CASE task.next = Never
    BY <2>1, <2>2 DEF IInv, OneShotKept
  <2>3. CASE task.next # Never
    <3>1. task.next \in task.trigger.times /\ task.next <= task.last.at
      BY <1>1, <2>1, <2>3 DEF Records
    <3>2. Sets!Min(task.trigger.times) = task.next
      BY <2>1, <3>1, TriggerTypes
    <3>. QED
      BY <3>1, <3>2
  <2>. QED
    BY <2>2, <2>3
<1>. QED
  BY <1>3, <1>4, <1>5, <1>6, <1>7

\* The claim of run x is one of the Session as it is.
Matches(x) == file.present /\ \E c \in claims : c.id = x /\ c.identity = file.identity

\* What runs x is recorded by stays.
RecordStays ==
    /\ file'.identity = file.identity /\ task'.last.id = task.last.id
    /\ task'.last.status = task.last.status
    /\ active'.id = active.id /\ active'.identity = active.identity

\* The scheduler tracks the run it tracked, or none.
TrackStays ==
    \/ active' = None
    \/ active # None /\ active'.id = active.id /\ active'.rev = active.rev

IngressStays ==
    \/ ingress' = NoIngress
    \/ /\ ingress # NoIngress /\ engine' = engine
       /\ ingress'.id = ingress.id /\ ingress'.identity = ingress.identity
       /\ ingress'.rev = ingress.rev

LEMMA FlightsKeep ==
    ASSUME IInv, UNCHANGED claims, InFlight' \subseteq InFlight, TrackStays, IngressStays,
           \A x \in InFlight' : Matches(x)' => Matches(x) /\ RecordStays
    PROVE  FlightsAreRecorded'
<1>1. ASSUME NEW x \in InFlight'
      PROVE  /\ \E c \in claims : c.id = x
             /\ Recorded(x)'
             /\ active' # None => active'.id = x
  <2>1. /\ \E c \in claims : c.id = x
        /\ Recorded(x)
        /\ active # None => active.id = x
    BY DEF IInv, FlightsAreRecorded
  <2>2. active' # None => active'.id = x
    BY <2>1 DEF TrackStays
  <2>3. Recorded(x)'
    <3>1. Recorded(x)' <=> (Matches(x)' => /\ task'.last.id = x /\ task'.last.status = "running"
                                          /\ active'.id = x /\ active'.identity = file'.identity)
      BY DEF Recorded, Matches
    <3>2. Matches(x) => /\ task.last.id = x /\ task.last.status = "running"
                        /\ active.id = x /\ active.identity = file.identity
      BY <2>1 DEF Recorded, Matches
    <3>. QED
      BY <3>1, <3>2 DEF RecordStays
  <2>. QED
    BY <2>1, <2>2, <2>3
<1>2. ASSUME ingress' # NoIngress
      PROVE  /\ engine' = NoId /\ ingress'.id # NoId
             /\ \E c \in claims : c.id = ingress'.id /\ c.identity = ingress'.identity
             /\ active' # None => active'.rev = ingress'.rev
  BY <1>2 DEF IngressStays, TrackStays, IInv, FlightsAreRecorded
<1>. QED
  BY <1>1, <1>2 DEF FlightsAreRecorded

\* Only what ran is tracked as ended.
EndsStay ==
    active'.ended /\ ~active'.mixed =>
        (active.ended /\ ~active.mixed) \/ active.id \in executed

LEMMA EndsKeep ==
    ASSUME IInv, executed \subseteq executed', TrackStays, active' = None \/ EndsStay,
           engine' \in {NoId} \cup executed'
    PROVE  EndsAreExecuted'
<1>1. None.ended = FALSE
  BY DEF None
<1>2. active' # None => active'.id # NoId
  BY DEF TrackStays, IInv, EndsAreExecuted
<1>3. active'.ended /\ ~active'.mixed => active'.id \in executed'
  BY <1>1 DEF TrackStays, EndsStay, IInv, EndsAreExecuted
<1>. QED
  BY <1>2, <1>3 DEF EndsAreExecuted

\* A step that claims nothing, accepts nothing and plans nothing anew.
LEMMA QuietKeeps ==
    ASSUME IInv, Records', UNCHANGED <<claims, plan, executed>>, Moves(task'), Spends,
           file'.identity = file.identity, file'.present => file.present,
           TrackStays, active' = None \/ EndsStay, IngressStays, engine' \in {engine, NoId},
           up' \/ up' = up \/ (ingress' = NoIngress /\ engine' = NoId),
           \A x \in InFlight' : Matches(x)' => RecordStays
    PROVE  IInv'
<1>0. NoIngress.id = 0 /\ None.id = 0 /\ NoId = 0
  BY DEF NoIngress, None, NoId
<1>1. Cardinality(claims) \in Nat
  BY CountTypes DEF IInv
<1>2. Numbers({active'.id, ingress'.id, engine'} \cup executed')
  BY <1>0, <1>1 DEF Numbers, TrackStays, IngressStays, IInv, Numbered
<1>3. Numbered' /\ Paid' /\ PlanIsAhead' /\ CountIsKept' /\ OneShotKept'
  BY <1>2, PlanKeeps
<1>4. InFlight' \subseteq InFlight
  BY <1>0 DEF InFlight, IngressStays
<1>5. \A x \in InFlight' : Matches(x)' => Matches(x)
  BY DEF Matches
<1>6. FlightsAreRecorded'
  BY <1>4, <1>5, FlightsKeep
<1>7. EndsAreExecuted'
  BY EndsKeep DEF IInv, EndsAreExecuted
<1>8. DownIsIdle'
  BY DEF DownIsIdle, IngressStays, IInv
<1>. QED
  BY <1>3, <1>6, <1>7, <1>8 DEF IInv

LEMMA MaySpends ==
    ASSUME Records, NEW c \in {"command", "fault"}, May(c)
    PROVE  /\ used' \in Uses /\ used'["command"] <= Max["command"]
           /\ c = "command" => used'["command"] = used["command"] + 1
           /\ c = "fault" => used'["command"] = used["command"]
<1>1. used \in Uses /\ Max \in Uses
  BY ScheduleAssumption DEF Records, Uses
<1>. PICK n : n = used[c] + 1
  OBVIOUS
<1>2. n \in Nat /\ used[c] < Max[c] /\ used' = [used EXCEPT ![c] = n]
  BY <1>1 DEF May, Uses
<1>3. used' \in Uses
  BY <1>1, <1>2 DEF Uses
<1>. QED
  BY <1>1, <1>2, <1>3 DEF Uses, Records

-----------------------------------------------------------------------------
(* The clock, the connection, the process and the turns *)

LEMMA NoneTypes ==
    /\ None \in Tracks /\ None.id = NoId /\ None.ended = FALSE
    /\ NoIngress \in Ingresses /\ NoIngress.id = NoId
BY DEF None, NoIngress, Tracks, Ingresses, NoId

\* Steps that leave the run and the prompt as they are.
LEMMA StillKeeps ==
    ASSUME IInv, Records', UNCHANGED <<file, up, claims, plan, executed, active, ingress>>,
           engine' \in {engine, NoId}, engine' = engine \/ ingress = NoIngress, Spends
    PROVE  IInv'
<1>1. Moves(task') /\ task' = task
  BY TaskTypes DEF IInv, Moves, task
<1>2. TrackStays /\ EndsStay
  BY DEF TrackStays, EndsStay
<1>3. IngressStays
  BY DEF IngressStays
<1>4. RecordStays
  BY <1>1 DEF RecordStays
<1>. QED
  BY <1>1, <1>2, <1>3, <1>4, QuietKeeps

LEMMA BackoffEndsKeeps == ASSUME IInv, BackoffEnds PROVE IInv'
BY StillKeeps DEF BackoffEnds, IInv, Records, Spends, task

LEMMA PassKeeps == ASSUME IInv, Pass PROVE IInv'
<1>. now \in Nat /\ used["command"] \in Nat /\ MaxTime \in Nat /\ task.last.at \in Nat
  BY CountTypes, ScheduleAssumption DEF IInv, Records, Files, Tasks, Lasts, task
<1>1. UNCHANGED <<file, up, ready, active, backoff, ingress, engine, chat, plan, claims, executed, used>>
  BY DEF Pass
<1>2. now' = now + 1 /\ now' \in 0..MaxTime
  BY DEF Pass, IInv, Records
<1>3. Records' /\ Spends
  BY <1>1, <1>2 DEF IInv, Records, Spends, task
<1>. QED
  BY <1>1, <1>3, StillKeeps

LEMMA SynchronizeKeeps == ASSUME IInv, Synchronize PROVE IInv'
BY StillKeeps DEF Synchronize, IInv, Records, Spends, task

LEMMA DisconnectKeeps == ASSUME IInv, Disconnect PROVE IInv'
<1>1. /\ ready' = FALSE
      /\ UNCHANGED <<file, now, up, active, backoff, ingress, engine, chat, plan, claims, executed>>
  BY DEF Disconnect
<1>2. used' \in Uses /\ used'["command"] <= Max["command"] /\ used'["command"] = used["command"]
  BY MaySpends DEF Disconnect, IInv
<1>3. Records' /\ Spends
  BY <1>1, <1>2 DEF IInv, Records, Spends, task
<1>. QED
  BY <1>1, <1>3, StillKeeps

LEMMA ChatKeeps == ASSUME IInv, Chat PROVE IInv'
<1>1. /\ chat' = TRUE
      /\ UNCHANGED <<file, now, up, ready, active, backoff, ingress, engine, plan, claims, executed>>
  BY DEF Chat
<1>2. /\ used' \in Uses /\ used'["command"] <= Max["command"]
      /\ used'["command"] = used["command"] + 1 /\ now \in Nat /\ used["command"] \in Nat
  BY MaySpends, CountTypes, TaskTypes DEF Chat, IInv
<1>3. Records'
  BY <1>1, <1>2 DEF IInv, Records, task
<1>4. Spends
  BY <1>1, <1>2 DEF Spends
<1>. QED
  BY <1>1, <1>3, <1>4, StillKeeps

\* The Session goes, and what is tracked of it goes later.
LEMMA RemoveKeeps == ASSUME IInv, Remove PROVE IInv'
<1>1. /\ ready' = FALSE /\ file' = [file EXCEPT !.present = FALSE]
      /\ UNCHANGED <<now, up, active, backoff, ingress, engine, chat, plan, claims, executed>>
  BY DEF Remove
<1>2. /\ used' \in Uses /\ used'["command"] <= Max["command"]
      /\ used'["command"] = used["command"] + 1 /\ now \in Nat /\ used["command"] \in Nat
  BY MaySpends, CountTypes, TaskTypes DEF Remove, IInv
<1>3. file' \in Files /\ file'.present = FALSE /\ file'.identity = file.identity /\ task' = task
  BY <1>1 DEF IInv, Records, Files, task
<1>4. Records'
  BY <1>1, <1>2, <1>3 DEF IInv, Records
<1>5. Spends
  <2>1. now' = now
    BY <1>1
  <2>. QED
    BY <1>2, <2>1 DEF Spends
<1>6. Moves(task')
  BY <1>3, TaskTypes DEF IInv, Moves
<1>7. \A x : ~Matches(x)'
  BY <1>3 DEF Matches
<1>8. TrackStays /\ EndsStay /\ IngressStays
  BY <1>1 DEF TrackStays, EndsStay, IngressStays
<1>. QED
  BY <1>1, <1>3, <1>4, <1>5, <1>6, <1>7, <1>8, QuietKeeps

LEMMA CrashKeeps == ASSUME IInv, Crash PROVE IInv'
<1>1. /\ up' = FALSE /\ ready' = FALSE /\ active' = None /\ backoff' = FALSE
      /\ ingress' = NoIngress /\ engine' = NoId /\ chat' = FALSE
      /\ UNCHANGED <<file, now, plan, claims, executed>>
  BY DEF Crash
<1>2. used' \in Uses /\ used'["command"] <= Max["command"] /\ used'["command"] = used["command"]
  BY MaySpends DEF Crash, IInv
<1>3. task' = task /\ Moves(task')
  BY <1>1, TaskTypes DEF IInv, Moves, task
<1>4. Records' /\ Spends
  BY <1>1, <1>2, <1>3, NoneTypes DEF IInv, Records, Spends, NoId
<1>5. TrackStays /\ IngressStays /\ InFlight' = {}
  BY <1>1, NoneTypes DEF TrackStays, IngressStays, InFlight
<1>. QED
  BY <1>1, <1>3, <1>4, <1>5, QuietKeeps

LEMMA MovesTypes ==
    ASSUME Records, NEW t, Moves(t)
    PROVE  t \in Tasks /\ t.next \in t.trigger.times \cup {Never} /\ t.last.at <= now
BY DEF Records, Moves

\* The attempt that nobody tracks any more is interrupted; nothing is in flight.
LEMMA BootKeeps == ASSUME IInv, Boot PROVE IInv'
<1>1. up' = TRUE /\ UNCHANGED <<now, ready, active, ingress, engine, chat, plan, claims, executed>>
  BY DEF Boot
<1>2. InFlight' = {}
  BY <1>1, NoneTypes DEF InFlight, Boot, IInv, DownIsIdle
<1>3. TrackStays /\ EndsStay /\ IngressStays
  BY <1>1 DEF TrackStays, EndsStay, IngressStays
<1>4. CASE file' = file
  <2>1. task' = task /\ Moves(task')
    BY <1>4, TaskTypes DEF IInv, Moves, task
  <2>2. /\ used' \in Uses /\ used'["command"] <= Max["command"] /\ used'["command"] = used["command"]
        /\ backoff' \in BOOLEAN
    BY MaySpends DEF Boot, IInv, Records
  <2>3. Records' /\ Spends
    BY <1>1, <1>4, <2>1, <2>2 DEF IInv, Records, Spends
  <2>. QED
    BY <1>1, <1>2, <1>3, <1>4, <2>1, <2>3, QuietKeeps
<1>5. CASE file' # file
  <2>1. UNCHANGED <<backoff, used>> /\ file' = [file EXCEPT !.task = Recovered(task)]
    BY <1>5 DEF Boot
  <2>2. Moves(Recovered(task))
    BY RecoveredMoves DEF IInv
  <2>3. /\ file' \in Files /\ file'.present = file.present /\ file'.identity = file.identity
        /\ task' = Recovered(task)
    BY <2>1, <2>2 DEF IInv, Records, Files, task, Moves
  <2>4. Moves(task')
    BY <2>2, <2>3
  <2>5. Records'
    BY <1>1, <2>1, <2>3, <2>4, MovesTypes DEF IInv, Records
  <2>6. Spends
    BY <1>1, <2>1, <2>3 DEF Spends
  <2>. QED
    BY <1>1, <1>2, <1>3, <2>3, <2>4, <2>5, <2>6, QuietKeeps
<1>. QED
  BY <1>4, <1>5

-----------------------------------------------------------------------------
(* Prompts and turns *)

\* The tracked run keeps what it is when its prompt is routed.
LEMMA RoutedMoves ==
    ASSUME IInv, ingress # NoIngress, NEW failed \in BOOLEAN, Routed(failed)
    PROVE  /\ active' \in Tracks /\ active'.id = active.id /\ active'.identity = active.identity
           /\ TrackStays /\ EndsStay
<1>. active \in Tracks /\ ingress.id # NoId
  BY DEF IInv, Records, FlightsAreRecorded
<1>1. CASE active.id = ingress.id
  <2>. PICK e \in BOOLEAN : e = (active.error \/ failed)
    BY DEF Tracks
  <2>1. active' = [active EXCEPT !.routed = TRUE, !.error = e]
    BY <1>1 DEF Routed
  <2>2. /\ active' \in Tracks /\ active'.id = active.id /\ active'.identity = active.identity
        /\ active'.rev = active.rev /\ active'.ended = active.ended /\ active'.mixed = active.mixed
    BY <2>1 DEF Tracks
  <2>3. active # None
    BY <1>1, NoneTypes
  <2>. QED
    BY <2>2, <2>3 DEF TrackStays, EndsStay
<1>2. CASE active.id # ingress.id
  BY <1>2 DEF Routed, TrackStays, EndsStay
<1>. QED
  BY <1>1, <1>2

LEMMA RejectKeeps == ASSUME IInv, Reject PROVE IInv'
<1>1. /\ ingress # NoIngress /\ ingress' = NoIngress
      /\ UNCHANGED <<file, now, up, ready, backoff, engine, chat, plan, claims, executed, used>>
  BY DEF Reject
<1>2. /\ active' \in Tracks /\ active'.id = active.id /\ active'.identity = active.identity
      /\ TrackStays /\ EndsStay
  BY <1>1, RoutedMoves DEF Reject, Guard, IInv, Records, Ingresses
<1>3. task' = task /\ Moves(task')
  BY <1>1, TaskTypes DEF IInv, Moves, task
<1>4. Records' /\ Spends
  BY <1>1, <1>2, <1>3, NoneTypes DEF IInv, Records, Spends
<1>5. IngressStays /\ RecordStays
  BY <1>1, <1>2, <1>3 DEF IngressStays, RecordStays
<1>. QED
  BY <1>1, <1>2, <1>3, <1>4, <1>5, QuietKeeps

\* The prompt that becomes part of a turn is the one on its way, and is executed.
LEMMA StartsKeeps == ASSUME IInv, ingress # NoIngress, Starts, chat' \in {chat, FALSE} PROVE IInv'
<1>1. /\ ingress # NoIngress /\ ingress' = NoIngress /\ engine' = ingress.id
      /\ executed' = executed \cup {ingress.id} /\ chat' \in BOOLEAN
      /\ UNCHANGED <<file, now, up, ready, backoff, plan, claims, used>>
  BY DEF Starts, IInv, Records
<1>2. /\ active' \in Tracks /\ active'.id = active.id /\ active'.identity = active.identity
      /\ TrackStays /\ EndsStay
  BY <1>1, RoutedMoves DEF Starts
<1>3. task' = task /\ Moves(task')
  BY <1>1, TaskTypes DEF IInv, Moves, task
<1>4. ingress.id \in Nat \ {0} /\ ingress.id <= Cardinality(claims)
  BY <1>1 DEF IInv, Records, Ingresses, FlightsAreRecorded, NoId, Numbered
<1>5. Records' /\ Spends
  BY <1>1, <1>2, <1>3, <1>4, NoneTypes DEF IInv, Records, Spends
<1>6. Cardinality(claims) \in Nat
  BY CountTypes DEF IInv
<1>7. Numbers({active'.id, ingress'.id, engine'} \cup executed')
  BY <1>1, <1>2, <1>4, <1>6, NoneTypes DEF Numbers, IInv, Numbered, NoId
<1>8. Numbered' /\ Paid' /\ PlanIsAhead' /\ CountIsKept' /\ OneShotKept'
  BY <1>1, <1>3, <1>5, <1>7, PlanKeeps
<1>9. FlightsAreRecorded'
  <2>1. InFlight' \subseteq InFlight /\ IngressStays
    BY <1>1, NoneTypes DEF InFlight, IngressStays
  <2>2. \A x \in InFlight' : Matches(x)' => Matches(x) /\ RecordStays
    BY <1>1, <1>2, <1>3 DEF Matches, RecordStays
  <2>. QED
    BY <1>1, <1>2, <2>1, <2>2, FlightsKeep
<1>10. EndsAreExecuted'
  BY <1>1, <1>2, EndsKeep
<1>11. DownIsIdle'
  BY <1>1 DEF DownIsIdle, IInv
<1>. QED
  BY <1>5, <1>8, <1>9, <1>10, <1>11 DEF IInv

LEMMA AcceptKeeps == ASSUME IInv, Accept PROVE IInv'
BY StartsKeeps DEF Accept, Passes

LEMMA ClassifiedKeeps == ASSUME IInv, Classified PROVE IInv'
<1>1. ingress # NoIngress
  BY DEF Classified, NoIngress
<1>. QED
  BY <1>1, StartsKeeps DEF Classified

LEMMA AdmitKeeps == ASSUME IInv, Admit PROVE IInv'
<1>. ingress \in Ingresses
  BY DEF IInv, Records
<1>1. /\ ingress # NoIngress /\ ingress' = [ingress EXCEPT !.admitted = TRUE]
      /\ UNCHANGED <<file, now, up, ready, active, backoff, engine, chat, plan, claims, executed, used>>
  BY DEF Admit, Passes
<1>2. ingress' \in Ingresses /\ IngressStays
  BY <1>1 DEF Ingresses, IngressStays
<1>3. task' = task /\ Moves(task')
  BY <1>1, TaskTypes DEF IInv, Moves, task
<1>4. Records' /\ Spends
  BY <1>1, <1>2, <1>3 DEF IInv, Records, Spends
<1>5. TrackStays /\ EndsStay /\ RecordStays
  BY <1>1, <1>3 DEF TrackStays, EndsStay, RecordStays
<1>. QED
  BY <1>1, <1>2, <1>3, <1>4, <1>5, QuietKeeps

\* A turn that ends is counted for the run that is tracked: the own one was
\* executed, another one is marked.
LEMMA ObservedMoves ==
    ASSUME IInv, NEW how \in Endings, NEW own \in BOOLEAN, active' = Observed(how, own),
           own => engine # NoId
    PROVE  /\ active' \in Tracks /\ active'.id = active.id /\ active'.identity = active.identity
           /\ TrackStays /\ EndsStay
<1>. active \in Tracks
  BY DEF IInv, Records
<1>1. CASE ~Tracked
  BY <1>1 DEF Observed, TrackStays, EndsStay
<1>2. CASE Tracked
  <2>. PICK e, s, m \in BOOLEAN : /\ e = (active.error \/ how = "errored")
                                  /\ s = (active.stopped \/ how = "aborted")
                                  /\ m = (active.mixed \/ ~own)
    BY DEF Tracks
  <2>1. active' = [active EXCEPT !.ended = TRUE, !.error = e, !.stopped = s, !.mixed = m]
    BY <1>2 DEF Observed
  <2>2. active' = [id |-> active.id, identity |-> active.identity, rev |-> active.rev,
                   routed |-> active.routed, ended |-> TRUE, error |-> e, stopped |-> s, mixed |-> m]
    BY <2>1 DEF Tracks
  <2>3. /\ active' \in Tracks /\ active'.id = active.id /\ active'.identity = active.identity
        /\ active'.rev = active.rev /\ active'.mixed = m
    BY <2>2 DEF Tracks
  <2>4. EndsStay
    <3>1. own => active.id \in executed
      BY <1>2 DEF Tracked, IInv, FlightsAreRecorded, EndsAreExecuted, InFlight
    <3>. QED
      BY <2>3, <3>1 DEF EndsStay
  <2>. QED
    BY <1>2, <2>3, <2>4 DEF TrackStays, Tracked
<1>. QED
  BY <1>1, <1>2

LEMMA TurnEndsKeeps == ASSUME IInv, NEW how \in Endings, TurnEnds(how) PROVE IInv'
<1>1. /\ engine # NoId /\ engine' = NoId
      /\ UNCHANGED <<file, now, up, ready, backoff, ingress, chat, plan, claims, executed, used>>
  BY DEF TurnEnds
<1>2. /\ active' \in Tracks /\ active'.id = active.id /\ active'.identity = active.identity
      /\ TrackStays /\ EndsStay
  BY <1>1, ObservedMoves DEF TurnEnds
<1>3. task' = task /\ Moves(task')
  BY <1>1, TaskTypes DEF IInv, Moves, task
<1>4. Records' /\ Spends
  BY <1>1, <1>2, <1>3, NoneTypes DEF IInv, Records, Spends, NoId
<1>5. ingress' = NoIngress
  BY <1>1 DEF IInv, FlightsAreRecorded
<1>6. IngressStays /\ RecordStays
  BY <1>1, <1>2, <1>3, <1>5 DEF IngressStays, RecordStays
<1>. QED
  BY <1>1, <1>2, <1>3, <1>4, <1>6, QuietKeeps

LEMMA ChatEndsKeeps == ASSUME IInv, NEW how \in Endings, ChatEnds(how) PROVE IInv'
<1>1. /\ chat' = FALSE
      /\ UNCHANGED <<file, now, up, ready, backoff, ingress, engine, plan, claims, executed, used>>
  BY DEF ChatEnds
<1>2. /\ active' \in Tracks /\ active'.id = active.id /\ active'.identity = active.identity
      /\ TrackStays /\ EndsStay
  BY ObservedMoves DEF ChatEnds
<1>3. task' = task /\ Moves(task')
  BY <1>1, TaskTypes DEF IInv, Moves, task
<1>4. Records' /\ Spends
  BY <1>1, <1>2, <1>3 DEF IInv, Records, Spends
<1>5. IngressStays /\ RecordStays
  BY <1>1, <1>2, <1>3 DEF IngressStays, RecordStays
<1>. QED
  BY <1>1, <1>2, <1>3, <1>4, <1>5, QuietKeeps

LEMMA AbortAllKeeps == ASSUME IInv, AbortAll PROVE IInv'
<1>. active \in Tracks /\ ingress \in Ingresses
  BY DEF IInv, Records
<1>1. /\ ingress' = IF ingress = NoIngress THEN ingress ELSE [ingress EXCEPT !.cancelled = TRUE]
      /\ active' = IF Tracked THEN [active EXCEPT !.stopped = TRUE] ELSE active
      /\ UNCHANGED <<file, now, up, ready, backoff, engine, chat, plan, claims, executed>>
  BY DEF AbortAll
<1>2. /\ active' \in Tracks /\ active'.id = active.id /\ active'.identity = active.identity
      /\ active'.rev = active.rev /\ active'.ended = active.ended /\ active'.mixed = active.mixed
      /\ active' # None => active # None
  BY <1>1 DEF Tracks, Tracked
<1>3. /\ ingress' \in Ingresses /\ IngressStays
  BY <1>1 DEF Ingresses, IngressStays
<1>4. task' = task /\ Moves(task')
  BY <1>1, TaskTypes DEF IInv, Moves, task
<1>5. /\ used' \in Uses /\ used'["command"] <= Max["command"]
      /\ used'["command"] = used["command"] + 1 /\ now \in Nat /\ used["command"] \in Nat
  BY MaySpends, CountTypes, TaskTypes DEF AbortAll, IInv
<1>6. Records'
  BY <1>1, <1>2, <1>3, <1>4, <1>5 DEF IInv, Records
<1>7. Spends
  <2>1. now' = now
    BY <1>1
  <2>. QED
    BY <1>5, <2>1 DEF Spends
<1>8. TrackStays /\ EndsStay /\ RecordStays
  BY <1>1, <1>2, <1>4 DEF TrackStays, EndsStay, RecordStays
<1>. QED
  BY <1>1, <1>3, <1>4, <1>6, <1>7, <1>8, QuietKeeps

-----------------------------------------------------------------------------
(* The timer, without a claim *)

\* A run that is in flight for the Session as it is stays tracked.
LEMMA DropHolds ==
    ASSUME IInv
    PROVE  /\ AfterDrop \in Tracks
           /\ AfterDrop = None \/ (AfterDrop = active /\ active # None /\ Same(active))
           /\ AfterDrop = None \/ AfterDrop = active
           /\ \A x \in InFlight : Matches(x) => active # None /\ AfterDrop = active
<1>1. AfterDrop \in Tracks /\ (AfterDrop = None \/ AfterDrop = active)
  BY NoneTypes DEF AfterDrop, IInv, Records
<1>2. AfterDrop = None \/ (AfterDrop = active /\ active # None /\ Same(active))
  BY DEF AfterDrop, Tracked
<1>3. ASSUME NEW x \in InFlight, Matches(x)
      PROVE  active # None /\ AfterDrop = active
  <2>1. /\ task.last.id = x /\ active.id = x /\ active.identity = file.identity /\ file.present
    BY <1>3 DEF IInv, FlightsAreRecorded, Recorded, Matches
  <2>2. active # None
    BY <2>1, NoneTypes DEF InFlight
  <2>3. Same(active)
    BY <2>1 DEF Same
  <2>. QED
    BY <2>2, <2>3 DEF AfterDrop, Tracked
<1>. QED
  BY <1>1, <1>2, <1>3

\* A step of the timer writes a task that moved on at most, and claims nothing.
LEMMA WriteKeeps ==
    ASSUME IInv, NEW t, Moves(t), file' = [file EXCEPT !.task = t],
           UNCHANGED <<now, up, ready, ingress, engine, chat, plan, claims, executed>>,
           backoff' \in BOOLEAN, used' \in Uses, used'["command"] <= Max["command"],
           used'["command"] = used["command"],
           active' \in {None, AfterDrop},
           \A x \in InFlight : Matches(x) => active' = AfterDrop /\ t.last.status = task.last.status
    PROVE  IInv'
<1>1. file' \in Files /\ file'.present = file.present /\ file'.identity = file.identity /\ task' = t
  BY DEF IInv, Records, Files, task, Moves
<1>2. Moves(task') /\ task'.last.id = task.last.id
  BY <1>1 DEF Moves
<1>3. active' \in Tracks
  BY DropHolds, NoneTypes
<1>4. t.next \in t.trigger.times \cup {Never} /\ t.last.at <= now
  BY MovesTypes DEF IInv
<1>5. Records' /\ Spends
  BY <1>1, <1>3, <1>4 DEF IInv, Records, Spends
<1>6. TrackStays /\ (active' = None \/ EndsStay) /\ IngressStays
  BY DropHolds DEF TrackStays, EndsStay, IngressStays
<1>7. InFlight' = InFlight
  BY DEF InFlight
<1>8. ASSUME NEW x \in InFlight', Matches(x)' PROVE RecordStays
  <2>1. Matches(x)
    BY <1>1, <1>8 DEF Matches
  <2>. QED
    BY <1>1, <1>2, <1>7, <2>1, DropHolds DEF RecordStays
<1>. QED
  BY <1>1, <1>2, <1>5, <1>6, <1>8, QuietKeeps

\* A missed occurrence is passed over.
LEMMA MissedMoves ==
    ASSUME Records, Missed
    PROVE  LET t == [task EXCEPT !.next = Advanced(task.trigger, task.count)]
           IN  Moves(t) /\ t.last = task.last
<1>1. Moves(task) /\ task.trigger.type = "recurring" /\ task.next # Never /\ task \in Tasks
  BY TaskTypes DEF Missed, Due
<1>2. Moves([task EXCEPT !.next = Advanced(task.trigger, task.count)])
  BY <1>1, SkipMoves
<1>3. [task EXCEPT !.next = Advanced(task.trigger, task.count)].last = task.last
  BY <1>1 DEF Tasks
<1>. QED
  BY <1>2, <1>3

LEMMA TickRecoversKeeps ==
    ASSUME IInv, TickRecovers,
           UNCHANGED <<now, up, ready, backoff, engine, chat, plan, executed, used>>
    PROVE  IInv'
<1>1. /\ file' = [file EXCEPT !.task = Recovered(task)] /\ active' = None
      /\ UNCHANGED <<ingress, claims>> /\ AfterDrop = None
  BY DEF TickRecovers
<1>2. Moves(Recovered(task))
  BY RecoveredMoves DEF IInv
<1>3. \A x \in InFlight : ~Matches(x)
  BY <1>1, DropHolds
<1>4. backoff' \in BOOLEAN /\ used' \in Uses /\ used'["command"] <= Max["command"]
  BY DEF IInv, Records
<1>. QED
  BY <1>1, <1>2, <1>3, <1>4, WriteKeeps

LEMMA TickPassesKeeps ==
    ASSUME IInv, TickPasses,
           UNCHANGED <<now, up, ready, backoff, engine, chat, plan, executed, used>>
    PROVE  IInv'
<1>t. PICK t : t = IF Missed THEN [task EXCEPT !.next = Advanced(task.trigger, task.count)] ELSE task
  OBVIOUS
<1>1. Moves(t) /\ t.last = task.last
  BY <1>t, MissedMoves, TaskTypes DEF IInv
<1>2. Retire(t) /\ UNCHANGED <<ingress, claims>>
  BY <1>t DEF TickPasses
<1>3. backoff' \in BOOLEAN /\ used' \in Uses /\ used'["command"] <= Max["command"]
  BY DEF IInv, Records
<1>4. CASE CanFinish(AfterDrop)
  <2>. PICK s : s = Status(AfterDrop)
    OBVIOUS
  <2>u. PICK u : u = [t EXCEPT !.last.status = s]
    OBVIOUS
  <2>1. file' = [file EXCEPT !.task = u] /\ active' = None
    BY <2>u, <1>2, <1>4 DEF Retire
  <2>2. s \in Statuses /\ t \in Tasks
    BY <1>1 DEF Status, Statuses, Moves
  <2>3. /\ u \in Tasks /\ u.trigger = t.trigger /\ u.count = t.count /\ u.next = t.next
        /\ u.last.id = t.last.id /\ u.last.at = t.last.at
    BY <2>u, <2>2, StatusMoves
  <2>4. Moves(u)
    BY <1>1, <2>3 DEF Moves
  <2>5. InFlight = {}
    BY <1>4, NoneTypes DEF CanFinish, IsActive, InFlight
  <2>. QED
    BY <1>2, <1>3, <2>1, <2>4, <2>5, WriteKeeps
<1>5. CASE ~CanFinish(AfterDrop)
  <2>1. file' = [file EXCEPT !.task = t] /\ active' = AfterDrop
    BY <1>2, <1>5 DEF Retire
  <2>. QED
    BY <1>1, <1>2, <1>3, <2>1, WriteKeeps
<1>. QED
  BY <1>4, <1>5

LEMMA WriteFailsKeeps == ASSUME IInv, WriteFails PROVE IInv'
<1>1. /\ active' = AfterDrop /\ backoff' = TRUE
      /\ UNCHANGED <<now, up, ready, ingress, engine, chat, plan, claims, executed>>
  BY DEF WriteFails
<1>2. used' \in Uses /\ used'["command"] <= Max["command"] /\ used'["command"] = used["command"]
  BY MaySpends DEF WriteFails, IInv
<1>t. PICK t : t = IF UNCHANGED file THEN task
                  ELSE [task EXCEPT !.next = Advanced(task.trigger, task.count)]
  OBVIOUS
<1>3. Moves(t) /\ t.last = task.last
  BY <1>t, MissedMoves, TaskTypes DEF IInv, WriteFails
<1>4. file' = [file EXCEPT !.task = t]
  <2>1. file \in Files
    BY DEF IInv, Records
  <2>. QED
    BY <1>t, <2>1 DEF WriteFails, Files, task
<1>. QED
  BY <1>1, <1>2, <1>3, <1>4, WriteKeeps

\* Without a Session nothing is tracked.
LEMMA TickAbsentKeeps ==
    ASSUME IInv, ~file.present, active' = None,
           UNCHANGED <<file, ingress, claims, now, up, ready, backoff, engine, chat, plan, executed, used>>
    PROVE  IInv'
<1>1. task' = task /\ Moves(task')
  BY TaskTypes DEF IInv, Moves, task
<1>2. Records' /\ Spends
  BY <1>1, NoneTypes DEF IInv, Records, Spends
<1>3. TrackStays /\ IngressStays /\ \A x : ~Matches(x)'
  BY DEF TrackStays, IngressStays, Matches
<1>. QED
  BY <1>1, <1>2, <1>3, QuietKeeps

-----------------------------------------------------------------------------
(* Claiming a run *)

NewClaim(by) ==
    [id |-> Cardinality(claims) + 1, identity |-> file.identity, plan |-> plan, by |-> by,
     instant |-> IF by = "schedule" THEN task.next ELSE Never]

LEMMA NewClaimTypes ==
    ASSUME IInv, NEW by \in {"manual", "schedule"}
    PROVE  /\ NewClaim(by) \in Claims /\ NewClaim(by) \notin claims
           /\ \A c \in claims : c.id # NewClaim(by).id
           /\ IsFiniteSet(claims \cup {NewClaim(by)})
           /\ Cardinality(claims \cup {NewClaim(by)}) = Cardinality(claims) + 1
           /\ Cardinality(claims) \in Nat
<1>1. Cardinality(claims) \in Nat /\ IsFiniteSet(claims)
  BY CountTypes DEF IInv, Numbered
<1>2. NewClaim(by) \in Claims /\ NewClaim(by).id = Cardinality(claims) + 1
  BY <1>1, TaskTypes DEF NewClaim, Claims, Never, IInv, Records
<1>3. \A c \in claims : c.id # NewClaim(by).id
  BY <1>1, <1>2 DEF IInv, Numbered, Records, Claims
<1>. QED
  BY <1>1, <1>2, <1>3, FS_AddElement

\* The task after the claim of run id.
LEMMA ClaimedMoves ==
    ASSUME Records, NEW id \in Nat, NEW by \in {"manual", "schedule"}
    PROVE  LET t == Claimed(id, by)
               n == IF by = "schedule" THEN task.count + 1 ELSE task.count
           IN  /\ t \in Tasks /\ t.trigger = task.trigger /\ t.rev = task.rev
               /\ t.count = n
               /\ t.last = [id |-> id, status |-> "running", by |-> by, at |-> now]
               /\ t.next = IF by = "schedule" THEN Advanced(task.trigger, n) ELSE task.next
               /\ t.next \in task.trigger.times \cup {Never}
<1>. /\ task \in Tasks /\ task.trigger \in Triggers /\ task.count \in Nat /\ now \in Nat
     /\ task.next \in Nat /\ task.trigger.times \subseteq Nat
  BY TaskTypes
<1>. PICK n \in Nat : n = IF by = "schedule" THEN task.count + 1 ELSE task.count
  OBVIOUS
<1>. PICK m : m = IF by = "schedule" THEN Advanced(task.trigger, n) ELSE task.next
  OBVIOUS
<1>. PICK l : l = [id |-> id, status |-> "running", by |-> by, at |-> now]
  OBVIOUS
<1>1. l \in Lasts
  BY DEF Lasts, Statuses
<1>2. m \in Nat /\ m \in task.trigger.times \cup {Never}
  BY AdvancedIsLater DEF Never, Records
<1>. PICK t : t = [task EXCEPT !.last = l, !.count = n, !.next = m]
  OBVIOUS
<1>3. t = [enabled |-> task.enabled, trigger |-> task.trigger, rev |-> task.rev, count |-> n,
           next |-> m, last |-> l]
  BY DEF Tasks
<1>4. /\ t \in Tasks /\ t.trigger = task.trigger /\ t.rev = task.rev /\ t.count = n
      /\ t.last = l /\ t.next = m
  BY <1>1, <1>2, <1>3 DEF Tasks
<1>5. Claimed(id, by) = t
  BY DEF Claimed
<1>. QED
  BY <1>2, <1>4, <1>5

\* A run is claimed when nothing is in flight: by a command, or for the
\* occurrence that is due.
LEMMA RunKeeps ==
    ASSUME IInv, NEW by \in {"manual", "schedule"}, Run(by), up, file.present, ~IsActive,
           UNCHANGED <<now, up, ready, backoff, engine, chat, plan, executed>>,
           used' \in Uses, used'["command"] <= Max["command"],
           by = "schedule" => Due /\ used'["command"] = used["command"],
           by = "manual" => used'["command"] = used["command"] + 1
    PROVE  IInv'
<1>c. PICK c : c = NewClaim(by)
  OBVIOUS
<1>. PICK N \in Nat : N = Cardinality(claims)
  BY CountTypes DEF IInv
<1>0. /\ Records /\ Numbered /\ Paid /\ PlanIsAhead /\ CountIsKept /\ OneShotKept
  BY DEF IInv
<1>1. /\ task \in Tasks /\ task.trigger \in Triggers /\ task.count \in Nat
      /\ task.next \in Nat /\ task.last \in Lasts /\ now \in Nat /\ file.identity \in Nat
      /\ task.trigger.times \subseteq Nat \ {0} /\ used["command"] \in Nat
  BY <1>0, TaskTypes, CountTypes
<1>2. /\ c \in Claims /\ c \notin claims /\ \A d \in claims : d.id # c.id
      /\ IsFiniteSet(claims \cup {c}) /\ Cardinality(claims \cup {c}) = N + 1
      /\ c.id = N + 1 /\ c.identity = file.identity /\ c.plan = plan /\ c.by = by
      /\ c.instant = IF by = "schedule" THEN task.next ELSE Never
  BY <1>c, NewClaimTypes DEF NewClaim
<1>t. PICK t : t = Claimed(N + 1, by)
  OBVIOUS
<1>3. /\ file' = [file EXCEPT !.task = t] /\ claims' = claims \cup {c}
      /\ active' = [None EXCEPT !.id = N + 1, !.identity = file.identity, !.rev = task.rev]
      /\ ingress' = [id |-> N + 1, identity |-> file.identity, rev |-> task.rev,
                     admitted |-> FALSE, cancelled |-> FALSE]
  BY <1>c, <1>t DEF Run, NewClaim, NoIngress
<1>. PICK n \in Nat : n = IF by = "schedule" THEN task.count + 1 ELSE task.count
  BY <1>1
<1>4. /\ t \in Tasks /\ t.trigger = task.trigger /\ t.rev = task.rev /\ t.count = n
      /\ t.last = [id |-> N + 1, status |-> "running", by |-> by, at |-> now]
      /\ t.next = IF by = "schedule" THEN Advanced(task.trigger, n) ELSE task.next
      /\ t.next \in task.trigger.times \cup {Never}
  <2>1. N + 1 \in Nat
    OBVIOUS
  <2>. QED
    BY <1>t, <1>0, <2>1, ClaimedMoves
<1>5. /\ file' \in Files /\ file'.present = file.present /\ file'.identity = file.identity /\ task' = t
  BY <1>0, <1>3, <1>4 DEF Records, Files, task
<1>6. /\ active' \in Tracks /\ active'.id = N + 1 /\ active'.identity = file.identity
      /\ active'.rev = task.rev /\ active'.ended = FALSE
  <2>1. active' = [id |-> N + 1, identity |-> file.identity, rev |-> task.rev, routed |-> FALSE,
                   ended |-> FALSE, error |-> FALSE, stopped |-> FALSE, mixed |-> FALSE]
    BY <1>3 DEF None
  <2>2. task.rev \in Nat
    BY <1>1 DEF Tasks
  <2>. QED
    BY <1>1, <2>1, <2>2 DEF Tracks
<1>7. ingress' \in Ingresses /\ ingress'.id = N + 1
  BY <1>1, <1>3 DEF Ingresses, Tasks
<1>8. ingress = NoIngress /\ engine = NoId /\ engine' = NoId /\ InFlight' = {N + 1}
  <2>1. ingress = NoIngress /\ engine = NoId
    BY DEF IsActive
  <2>. QED
    BY <1>7, <2>1 DEF InFlight, NoId
<1>9. Records'
  BY <1>0, <1>2, <1>3, <1>4, <1>5, <1>6, <1>7 DEF Records
<1>10. Numbered'
  <2>1. \A d \in claims : d.id <= N /\ d.id \in Nat
    BY <1>0 DEF Numbered, Records, Claims
  <2>2. \A x \in executed : x <= N /\ x \in Nat
    BY <1>0 DEF Numbered, Records
  <2>3. \A d \in claims' : d.id <= N + 1
    BY <1>2, <1>3, <2>1
  <2>4. \A d, e \in claims' : d.id = e.id => d = e
    BY <1>0, <1>2, <1>3 DEF Numbered
  <2>5. \A x \in {task'.last.id, active'.id, ingress'.id, engine'} \cup executed' : x <= N + 1
    BY <1>4, <1>5, <1>6, <1>7, <1>8, <2>2 DEF NoId
  <2>6. IsFiniteSet(claims') /\ Cardinality(claims') = N + 1
    BY <1>2, <1>3
  <2>. QED
    BY <2>3, <2>4, <2>5, <2>6 DEF Numbered
<1>11. Paid'
  <2>1. N + Owed <= used["command"] + now /\ used'["command"] \in Nat
    BY <1>0 DEF Paid, Uses
  <2>2. Cardinality(claims') = N + 1
    BY <1>2, <1>3
  <2>3. CASE by = "schedule"
    <3>1. Owed = 1
      BY <2>3 DEF Owed, Due
    <3>2. t.next = Never \/ t.next > now
      BY <1>1, <1>4, <2>3, AdvancedIsLater
    <3>3. Owed' = 0
      BY <1>1, <1>4, <1>5, <3>2 DEF Owed, Never
    <3>. QED
      BY <2>1, <2>2, <2>3, <3>1, <3>3 DEF Paid
  <2>4. CASE by = "manual"
    <3>1. Owed' = Owed /\ Owed \in 0..1
      BY <1>4, <1>5, <2>4 DEF Owed
    <3>. QED
      BY <1>1, <2>1, <2>2, <2>4, <3>1 DEF Paid
  <2>. QED
    BY <2>3, <2>4
<1>12. PlanIsAhead'
  <2>1. \A d \in claims : d.instant \in Nat /\ d.plan <= plan /\ d.identity <= file.identity
                          /\ d.instant <= now
    BY <1>0 DEF PlanIsAhead, Records, Claims
  <2>2. c.instant <= now /\ c.instant \in Nat
    BY <1>1, <1>2 DEF Due, Never
  <2>3. plan <= plan /\ file.identity <= file.identity
    BY <1>0, <1>1 DEF Records
  <2>4. \A d \in claims' : d.plan <= plan /\ d.identity <= file.identity /\ d.instant <= now
    BY <1>2, <1>3, <2>1, <2>2, <2>3
  <2>5. ASSUME NEW d \in Scheduled(plan)'
        PROVE  t.next = Never \/ d.instant < t.next
    <3>1. d \in claims \cup {c} /\ d.by = "schedule" /\ d.plan = plan
      BY <1>3, <2>5 DEF Scheduled
    <3>2. CASE by = "schedule"
      <4>1. t.next = Never \/ t.next > now
        BY <1>1, <1>4, <3>2, AdvancedIsLater
      <4>2. d.instant <= now /\ d.instant \in Nat
        BY <2>1, <2>2, <3>1
      <4>. QED
        BY <1>1, <1>4, <4>1, <4>2 DEF Tasks
    <3>3. CASE by = "manual"
      <4>1. d \in Scheduled(plan)
        BY <1>2, <3>1, <3>3 DEF Scheduled
      <4>. QED
        BY <1>0, <1>4, <3>3, <4>1 DEF PlanIsAhead
    <3>. QED
      BY <3>2, <3>3
  <2>6. ASSUME NEW d \in claims, d.by = "schedule", c.by = "schedule", d.plan = c.plan,
               d.instant = c.instant
        PROVE  FALSE
    <3>1. d \in Scheduled(plan) /\ c.instant = task.next /\ task.next # Never
      BY <1>2, <2>6 DEF Scheduled, Due
    <3>2. d.instant < task.next
      BY <1>0, <3>1 DEF PlanIsAhead
    <3>. QED
      BY <1>1, <2>6, <3>1, <3>2
  <2>7. \A d, e \in claims' : /\ d.by = "schedule" /\ e.by = "schedule"
                              /\ d.plan = e.plan /\ d.instant = e.instant
                              => d = e
    BY <1>0, <1>3, <2>6 DEF PlanIsAhead
  <2>. QED
    BY <1>5, <2>4, <2>5, <2>7 DEF PlanIsAhead
<1>13. CountIsKept'
  <2>1. /\ task.count = Cardinality(Scheduled(plan)) /\ IsFiniteSet(Scheduled(plan))
        /\ task.trigger.maxRuns \in Nat
    BY <1>0, <1>1, CountTypes, TriggerTypes DEF CountIsKept
  <2>2. CASE by = "schedule"
    <3>1. Scheduled(plan)' = Scheduled(plan) \cup {c} /\ c \notin Scheduled(plan)
      BY <1>2, <1>3, <2>2 DEF Scheduled
    <3>. PICK S : S = Scheduled(plan)
      OBVIOUS
    <3>6. Cardinality(S \cup {c}) = Cardinality(S) + 1
      BY <2>1, <3>1, FS_AddElement
    <3>2. Cardinality(Scheduled(plan))' = task.count + 1
      BY <2>1, <3>1, <3>6
    <3>3. task.trigger.maxRuns # 0 => task.count < task.trigger.maxRuns
      BY <1>0, <2>2 DEF CountIsKept, Due
    <3>4. t.next # Never => /\ task.trigger.type = "recurring"
                            /\ ~(task.trigger.maxRuns # 0 /\ n >= task.trigger.maxRuns)
      BY <1>1, <1>4, <2>2, AdvancedIsLater
    <3>5. n = task.count + 1
      BY <2>2
    <3>. QED
      BY <1>1, <1>4, <1>5, <2>1, <3>2, <3>3, <3>4, <3>5 DEF CountIsKept
  <2>3. CASE by = "manual"
    <3>1. Scheduled(plan)' = Scheduled(plan)
      BY <1>2, <1>3, <2>3 DEF Scheduled
    <3>. QED
      BY <1>0, <1>4, <1>5, <2>3, <3>1 DEF CountIsKept
  <2>. QED
    BY <2>2, <2>3
<1>14. OneShotKept'
  <2>1. CASE by = "schedule"
    <3>1. c \in claims' /\ c.by = "schedule" /\ c.plan = plan'
      BY <1>2, <1>3, <2>1
    <3>. QED
      BY <3>1 DEF OneShotKept
  <2>2. CASE by = "manual"
    <3>1. SUFFICES ASSUME task.trigger.type = "once", task.next = Never
                   PROVE  (\E d \in claims' : d.by = "schedule" /\ d.plan = plan)
                          \/ Sets!Min(task.trigger.times) <= now
      BY <1>4, <1>5, <2>2 DEF OneShotKept
    <3>2. (\E d \in claims : d.by = "schedule" /\ d.plan = plan)
          \/ Sets!Min(task.trigger.times) <= task.last.at
      BY <1>0, <3>1 DEF OneShotKept
    <3>3. task.last.at <= now /\ task.last.at \in Nat /\ Sets!Min(task.trigger.times) \in Nat
      BY <1>0, <1>1, <3>1, TriggerTypes DEF Records, Lasts
    <3>. QED
      BY <1>1, <1>3, <3>2, <3>3
  <2>. QED
    BY <2>1, <2>2
<1>15. FlightsAreRecorded'
  <2>1. /\ \E d \in claims' : d.id = N + 1
        /\ Recorded(N + 1)'
        /\ active'.id = N + 1
    BY <1>2, <1>3, <1>4, <1>5, <1>6 DEF Recorded
  <2>2. /\ engine' = NoId /\ ingress'.id # NoId
        /\ \E d \in claims' : d.id = ingress'.id /\ d.identity = ingress'.identity
        /\ active'.rev = ingress'.rev
    BY <1>2, <1>3, <1>6, <1>7, <1>8 DEF NoId
  <2>. QED
    BY <1>8, <2>1, <2>2 DEF FlightsAreRecorded
<1>16. EndsAreExecuted' /\ DownIsIdle'
  <2>1. active'.id # NoId
    BY <1>6 DEF NoId
  <2>2. up' = up /\ up
    BY DEF IInv, DownIsIdle
  <2>. QED
    BY <1>6, <1>8, <2>1, <2>2 DEF EndsAreExecuted, DownIsIdle
<1>. QED
  BY <1>9, <1>10, <1>11, <1>12, <1>13, <1>14, <1>15, <1>16 DEF IInv

LEMMA RunManuallyKeeps == ASSUME IInv, RunManually PROVE IInv'
<1>1. /\ Run("manual") /\ up /\ file.present /\ ~IsActive
      /\ UNCHANGED <<now, up, ready, backoff, engine, chat, plan, executed>>
  BY DEF RunManually, CanRun
<1>2. /\ used' \in Uses /\ used'["command"] <= Max["command"]
      /\ used'["command"] = used["command"] + 1
  BY MaySpends DEF RunManually, IInv
<1>. QED
  BY <1>1, <1>2, RunKeeps

LEMMA TickKeeps == ASSUME IInv, Tick PROVE IInv'
<1>1. up /\ UNCHANGED <<now, up, ready, backoff, engine, chat, plan, executed, used>>
  BY DEF Tick
<1>2. CASE file.present /\ TickRecovers
  BY <1>1, <1>2, TickRecoversKeeps
<1>3. CASE file.present /\ TickPasses
  BY <1>1, <1>3, TickPassesKeeps
<1>4. CASE file.present /\ TickRuns
  <2>1. Run("schedule") /\ Due /\ ~IsActive
    BY <1>4 DEF TickRuns, Busy
  <2>2. /\ used' \in Uses /\ used'["command"] <= Max["command"] /\ used'["command"] = used["command"]
    BY <1>1 DEF IInv, Records
  <2>. QED
    BY <1>1, <1>4, <2>1, <2>2, RunKeeps
<1>5. CASE ~file.present
  BY <1>1, <1>5, TickAbsentKeeps DEF Tick
<1>. QED
  BY <1>2, <1>3, <1>4, <1>5 DEF Tick

-----------------------------------------------------------------------------
(* Planning anew *)

\* The first instant of a trigger, and what a one-shot has.
LEMMA PlannedTypes ==
    ASSUME NEW t \in Triggers
    PROVE  /\ Planned(t) \in t.times \cup {Never} /\ Planned(t) \in Nat
           /\ t.type = "once" => Planned(t) # Never
<1>1. t.times \subseteq Nat \ {0}
  BY TriggerTypes
<1>2. t.times # {} => Sets!Min(t.times) \in t.times
  BY <1>1, MinIsLeast
<1>. QED
  BY <1>1, <1>2, TriggerTypes DEF Planned, Never

LEMMA NewTaskTypes ==
    ASSUME NEW t \in Triggers, NEW rev \in Nat, NEW last \in Lasts
    PROVE  LET u == NewTask(t, rev, last)
           IN  u \in Tasks /\ u.trigger = t /\ u.count = 0 /\ u.next = Planned(t) /\ u.last = last
<1>. PICK n \in Nat : n = Planned(t)
  BY PlannedTypes
<1>1. NewTask(t, rev, last) = [enabled |-> TRUE, trigger |-> t, rev |-> rev, count |-> 0,
                               next |-> n, last |-> last]
  BY DEF NewTask
<1>. QED
  BY <1>1 DEF Tasks

LEMMA EnabledTypes ==
    ASSUME NEW u \in Tasks, NEW enabled \in BOOLEAN
    PROVE  LET v == [u EXCEPT !.enabled = enabled]
           IN  /\ v \in Tasks /\ v.trigger = u.trigger /\ v.count = u.count
               /\ v.next = u.next /\ v.last = u.last
BY DEF Tasks

\* A new plan has had no runs; what it may owe is paid for with the step.
LEMMA AnewKeeps ==
    ASSUME IInv, Records', plan' = plan + 1, file'.identity >= file.identity,
           UNCHANGED <<now, up, active, ingress, engine, claims, executed>>,
           task'.count = 0, task'.next = Planned(task'.trigger),
           task'.last.id \in {NoId, task.last.id},
           Cardinality(claims) + 1 <= used'["command"] + now
    PROVE  /\ Numbered' /\ Paid' /\ PlanIsAhead' /\ CountIsKept' /\ OneShotKept'
           /\ EndsAreExecuted' /\ DownIsIdle'
<1>. PICK N \in Nat : N = Cardinality(claims)
  BY CountTypes DEF IInv
<1>1. /\ plan \in Nat /\ now \in Nat /\ used'["command"] \in Nat
      /\ task'.trigger \in Triggers /\ task'.next \in Nat
      /\ file.identity \in Nat /\ file'.identity \in Nat
  <2>1. plan \in Nat /\ used' \in Uses /\ file' \in Files /\ file \in Files
    BY DEF IInv, Records
  <2>. QED
    BY <2>1, TaskTypes DEF Uses, Files, Tasks, task, IInv
<1>2. Numbered'
  BY DEF IInv, Numbered, NoId
<1>3. Paid'
  <2>1. Owed' \in 0..1
    BY DEF Owed
  <2>. QED
    BY <1>1, <2>1 DEF Paid
<1>4. \A c \in claims : /\ c.plan \in Nat /\ c.identity \in Nat
                        /\ c.plan <= plan /\ c.identity <= file.identity /\ c.instant <= now
  BY DEF IInv, PlanIsAhead, Records, Claims
<1>5. Scheduled(plan)' = {}
  BY <1>1, <1>4 DEF Scheduled
<1>6. PlanIsAhead'
  <2>1. \A c \in claims : c.plan <= plan' /\ c.identity <= file'.identity /\ c.instant <= now'
    BY <1>1, <1>4
  <2>. QED
    BY <1>5, <2>1 DEF IInv, PlanIsAhead
<1>7. CountIsKept'
  <2>1. Cardinality(Scheduled(plan))' = 0
    BY <1>5, FS_EmptySet
  <2>. QED
    BY <1>1, <2>1, TriggerTypes DEF CountIsKept
<1>8. OneShotKept'
  BY <1>1, PlannedTypes DEF OneShotKept
<1>9. EndsAreExecuted' /\ DownIsIdle'
  BY DEF EndsAreExecuted, DownIsIdle, IInv
<1>. QED
  BY <1>2, <1>3, <1>6, <1>7, <1>8, <1>9

LEMMA EditKeeps == ASSUME IInv, Edit PROVE IInv'
<1>1. /\ file.present
      /\ UNCHANGED <<now, up, ready, active, backoff, ingress, engine, chat, claims, executed>>
  BY DEF Edit
<1>2. /\ used' \in Uses /\ used'["command"] <= Max["command"]
      /\ used'["command"] = used["command"] + 1 /\ now \in Nat /\ used["command"] \in Nat
      /\ Cardinality(claims) \in Nat
  BY MaySpends, CountTypes, TaskTypes DEF Edit, IInv
<1>. PICK t \in Triggers, enabled \in BOOLEAN :
         /\ file' = [file EXCEPT !.task = Edited(t, enabled)]
         /\ plan' = IF t = task.trigger THEN plan ELSE plan + 1
  BY DEF Edit
<1>u. PICK u : u = Edited(t, enabled)
  OBVIOUS
<1>3. /\ task \in Tasks /\ task.rev + 1 \in Nat /\ task.last \in Lasts /\ Moves(task)
      /\ plan \in Nat \ {0} /\ task.last.at <= now
  BY TaskTypes DEF IInv, Tasks, Records
<1>4. CASE t = task.trigger
  <2>1. u = [task EXCEPT !.enabled = enabled, !.rev = @ + 1]
    BY <1>u, <1>4 DEF Edited
  <2>2. u \in Tasks /\ u.trigger = task.trigger /\ u.count = task.count
        /\ u.next = task.next /\ u.last = task.last
    BY <1>3, <2>1 DEF Tasks
  <2>4. file' = [file EXCEPT !.task = u] /\ plan' = plan
    BY <1>u, <1>4
  <2>3. Moves(u)
    BY <1>3, <2>2 DEF Moves
  <2>5. file' \in Files /\ file'.present = file.present /\ file'.identity = file.identity /\ task' = u
    BY <2>2, <2>4 DEF IInv, Records, Files, task
  <2>6. Records'
    BY <1>1, <1>2, <2>2, <2>4, <2>5 DEF IInv, Records
  <2>7. Spends
    <3>1. now' = now
      BY <1>1
    <3>. QED
      BY <1>2, <3>1 DEF Spends
  <2>8. TrackStays /\ EndsStay /\ IngressStays /\ RecordStays
    BY <1>1, <2>2, <2>5 DEF TrackStays, EndsStay, IngressStays, RecordStays
  <2>. QED
    BY <1>1, <2>3, <2>4, <2>5, <2>6, <2>7, <2>8, QuietKeeps
<1>5. CASE t # task.trigger
  <2>1. u = [NewTask(t, task.rev + 1, task.last) EXCEPT !.enabled = enabled]
    BY <1>u, <1>5 DEF Edited
  <2>2. u \in Tasks /\ u.trigger = t /\ u.count = 0 /\ u.next = Planned(t) /\ u.last = task.last
    <3>. PICK v : v = NewTask(t, task.rev + 1, task.last)
      OBVIOUS
    <3>1. v \in Tasks /\ v.trigger = t /\ v.count = 0 /\ v.next = Planned(t) /\ v.last = task.last
      BY <1>3, NewTaskTypes
    <3>. QED
      BY <2>1, <3>1, EnabledTypes
  <2>3. u.next \in u.trigger.times \cup {Never}
    BY <2>2, PlannedTypes
  <2>4. file' = [file EXCEPT !.task = u] /\ plan' = plan + 1
    BY <1>u, <1>5
  <2>5. file' \in Files /\ file'.present = file.present /\ file'.identity = file.identity /\ task' = u
    BY <2>2, <2>4 DEF IInv, Records, Files, task
  <2>6. Records'
    BY <1>1, <1>2, <1>3, <2>2, <2>3, <2>4, <2>5 DEF IInv, Records
  <2>7. Cardinality(claims) + 1 <= used'["command"] + now
    <3>1. Cardinality(claims) <= used["command"] + now
      BY <1>2 DEF IInv, Paid, Owed
    <3>. QED
      BY <1>2, <3>1
  <2>8. file'.identity >= file.identity
    BY <2>5 DEF IInv, Records, Files
  <2>9. /\ Numbered' /\ Paid' /\ PlanIsAhead' /\ CountIsKept' /\ OneShotKept'
        /\ EndsAreExecuted' /\ DownIsIdle'
    BY <1>1, <2>2, <2>4, <2>5, <2>6, <2>7, <2>8, AnewKeeps
  <2>10. TrackStays /\ IngressStays /\ RecordStays /\ InFlight' = InFlight
    BY <1>1, <2>2, <2>5 DEF TrackStays, IngressStays, RecordStays, InFlight
  <2>11. \A x : Matches(x)' => Matches(x)
    BY <1>1, <2>5 DEF Matches
  <2>12. FlightsAreRecorded'
    BY <1>1, <2>10, <2>11, FlightsKeep
  <2>. QED
    BY <2>6, <2>9, <2>12 DEF IInv
<1>. QED
  BY <1>4, <1>5

\* No claim is one of the new Session.
LEMMA RecreateKeeps == ASSUME IInv, Recreate PROVE IInv'
<1>1. /\ ~file.present /\ plan' = plan + 1
      /\ UNCHANGED <<now, up, ready, active, backoff, ingress, engine, chat, claims, executed, used>>
  BY DEF Recreate
<1>. PICK t \in Triggers :
         file' = [present |-> TRUE, identity |-> file.identity + 1,
                  task |-> NewTask(t, task.rev + 1, NeverRan)]
  BY DEF Recreate
<1>u. PICK u : u = NewTask(t, task.rev + 1, NeverRan)
  OBVIOUS
<1>2. /\ task.rev + 1 \in Nat /\ plan \in Nat \ {0} /\ now \in Nat /\ used["command"] \in Nat
      /\ Cardinality(claims) \in Nat /\ file.identity \in Nat
  BY TaskTypes, CountTypes DEF IInv, Tasks, Records
<1>3. NeverRan \in Lasts /\ NeverRan.id = NoId /\ NeverRan.at <= now
  BY <1>2 DEF NeverRan, Lasts, Statuses, NoId
<1>4. u \in Tasks /\ u.trigger = t /\ u.count = 0 /\ u.next = Planned(t) /\ u.last = NeverRan
  BY <1>u, <1>2, <1>3, NewTaskTypes
<1>5. u.next \in u.trigger.times \cup {Never}
  BY <1>4, PlannedTypes
<1>6. file' = [present |-> TRUE, identity |-> file.identity + 1, task |-> u]
  BY <1>u
<1>7. file' \in Files /\ file'.identity = file.identity + 1 /\ task' = u
  BY <1>2, <1>4, <1>6 DEF Files, task
<1>8. Records'
  BY <1>1, <1>2, <1>3, <1>4, <1>5, <1>7 DEF IInv, Records
<1>9. Cardinality(claims) + 1 <= used'["command"] + now
  BY <1>1, <1>2 DEF IInv, Paid, Owed
<1>10. file'.identity >= file.identity
  BY <1>2, <1>7
<1>11. /\ Numbered' /\ Paid' /\ PlanIsAhead' /\ CountIsKept' /\ OneShotKept'
       /\ EndsAreExecuted' /\ DownIsIdle'
  BY <1>1, <1>3, <1>4, <1>7, <1>8, <1>9, <1>10, AnewKeeps
<1>12. \A x : ~Matches(x)'
  <2>1. \A c \in claims : c.identity <= file.identity /\ c.identity \in Nat
    BY DEF IInv, PlanIsAhead, Records, Claims
  <2>. QED
    BY <1>1, <1>2, <1>7, <2>1 DEF Matches
<1>13. TrackStays /\ IngressStays /\ InFlight' = InFlight
  BY <1>1 DEF TrackStays, IngressStays, InFlight
<1>14. FlightsAreRecorded'
  BY <1>1, <1>12, <1>13, FlightsKeep
<1>. QED
  BY <1>8, <1>11, <1>14 DEF IInv

-----------------------------------------------------------------------------
(* The invariant *)

LEMMA InitHolds == ASSUME Init PROVE IInv
<1>. PICK t \in Triggers : file = [present |-> TRUE, identity |-> 1, task |-> NewTask(t, 1, NeverRan)]
  BY DEF Init
<1>1. /\ now = 0 /\ up = TRUE /\ ready = FALSE
      /\ active = None /\ backoff = FALSE
      /\ ingress = NoIngress /\ engine = NoId /\ chat = FALSE
      /\ plan = 1 /\ claims = {} /\ executed = {}
      /\ used = [c \in {"command", "fault"} |-> 0]
  BY DEF Init
<1>u. PICK u : u = NewTask(t, 1, NeverRan)
  OBVIOUS
<1>2. NeverRan \in Lasts /\ NeverRan.id = NoId /\ NeverRan.at = 0
  BY DEF NeverRan, Lasts, Statuses, NoId
<1>3. u \in Tasks /\ u.trigger = t /\ u.count = 0 /\ u.next = Planned(t) /\ u.last = NeverRan
  BY <1>u, <1>2, NewTaskTypes
<1>4. file = [present |-> TRUE, identity |-> 1, task |-> u]
  BY <1>u
<1>5. file \in Files /\ file.present = TRUE /\ file.identity = 1 /\ task = u
  BY <1>3, <1>4 DEF Files, task
<1>6. /\ MaxTime \in Nat /\ Max \in Uses
      /\ used \in Uses /\ used["command"] = 0 /\ used["command"] <= Max["command"]
  BY <1>1, ScheduleAssumption DEF Uses
<1>7. u.next \in u.trigger.times \cup {Never} /\ u.next \in Nat
  BY <1>3, PlannedTypes
<1>8. Records
  <2>1. task.last.at = 0 /\ task.next \in task.trigger.times \cup {Never}
    BY <1>2, <1>3, <1>5, <1>7
  <2>2. now \in 0..MaxTime /\ task.last.at <= now
    BY <1>1, <1>6, <2>1
  <2>3. active \in Tracks /\ ingress \in Ingresses /\ engine \in Nat
    BY <1>1, NoneTypes DEF NoId
  <2>4. claims \subseteq Claims /\ executed \subseteq Nat \ {0} /\ plan \in Nat \ {0}
    BY <1>1
  <2>5. up \in BOOLEAN /\ ready \in BOOLEAN /\ backoff \in BOOLEAN /\ chat \in BOOLEAN
    BY <1>1
  <2>. QED
    BY <1>5, <1>6, <2>1, <2>2, <2>3, <2>4, <2>5 DEF Records
<1>9. Cardinality(claims) = 0 /\ IsFiniteSet(claims) /\ Scheduled(plan) = {}
  BY <1>1, FS_EmptySet DEF Scheduled
<1>10. Numbered
  BY <1>1, <1>2, <1>3, <1>5, <1>9, NoneTypes DEF Numbered, NoId
<1>11. Paid
  <2>1. Owed = 0
    <3>1. u.next <= 0 => u.next = 0
      BY <1>7
    <3>. QED
      BY <1>1, <1>5, <3>1 DEF Owed, Never
  <2>. QED
    BY <1>1, <1>6, <1>9, <2>1 DEF Paid
<1>12. PlanIsAhead
  BY <1>1, <1>9 DEF PlanIsAhead
<1>13. CountIsKept
  <2>1. Cardinality(Scheduled(plan)) = 0
    BY <1>9, FS_EmptySet
  <2>. QED
    BY <1>3, <1>5, <2>1, TriggerTypes DEF CountIsKept
<1>14. OneShotKept
  BY <1>3, <1>5, PlannedTypes DEF OneShotKept
<1>15. InFlight = {}
  BY <1>1, NoneTypes DEF InFlight
<1>16. FlightsAreRecorded
  BY <1>1, <1>15 DEF FlightsAreRecorded
<1>17. EndsAreExecuted /\ DownIsIdle
  BY <1>1, NoneTypes DEF EndsAreExecuted, DownIsIdle
<1>. QED
  BY <1>8, <1>10, <1>11, <1>12, <1>13, <1>14, <1>16, <1>17 DEF IInv

LEMMA StutterHolds == ASSUME IInv, UNCHANGED vars PROVE IInv'
<1>1. UNCHANGED <<file, now, up, ready, active, backoff, ingress, engine, chat, plan, claims, executed, used>>
  BY DEF vars
<1>2. Records' /\ Spends
  BY <1>1 DEF IInv, Records, Spends, task
<1>. QED
  BY <1>1, <1>2, StillKeeps

LEMMA NextHolds == ASSUME IInv, Next PROVE IInv'
<1>1. CASE \E how \in Endings : TurnEnds(how) \/ ChatEnds(how)
  BY <1>1, TurnEndsKeeps, ChatEndsKeeps
<1>2. CASE RunManually \/ Tick \/ WriteFails \/ BackoffEnds \/ Pass
  BY <1>2, RunManuallyKeeps, TickKeeps, WriteFailsKeeps, BackoffEndsKeeps, PassKeeps
<1>3. CASE Reject \/ Accept \/ Admit \/ Classified \/ Chat \/ AbortAll
  BY <1>3, RejectKeeps, AcceptKeeps, AdmitKeeps, ClassifiedKeeps, ChatKeeps, AbortAllKeeps
<1>4. CASE Edit \/ Remove \/ Recreate \/ Synchronize \/ Disconnect \/ Crash \/ Boot
  BY <1>4, EditKeeps, RemoveKeeps, RecreateKeeps, SynchronizeKeeps, DisconnectKeeps, CrashKeeps, BootKeeps
<1>. QED
  BY <1>1, <1>2, <1>3, <1>4 DEF Next

\* Nothing that the Agent, its user, a crash, a lost connection or a failed
\* write does leaves the records of the Session at odds.
THEOREM Inductive == Spec => []IInv
<1>1. Init => IInv
  BY InitHolds
<1>2. IInv /\ [Next]_vars => IInv'
  BY NextHolds, StutterHolds
<1>. QED
  BY <1>1, <1>2, PTL DEF Spec

-----------------------------------------------------------------------------
(* Prompts that must not be executed *)

\* The claim of the waiting prompt is open, and its task is as old as the file at most.
WaitingIsOpen ==
    ingress # NoIngress =>
        /\ ingress.id \notin executed
        /\ task.last.id = ingress.id => task.last.status # "completed"
        /\ ingress.rev <= task.rev
        /\ ingress.cancelled => ingress.id \in fenced

\* The task was edited or deleted since the waiting prompt was claimed.
Outdated ==
    \/ ~file.present
    \/ ingress.identity < file.identity
    \/ ingress.rev < task.rev

\* A fenced prompt that still waits is stopped or will not pass the guard; a run
\* that is tracked for one bears a mark, or gets it when the guard refuses.
FencedWaits(r) == ingress.id = r => ingress.cancelled \/ (~ingress.admitted /\ Outdated)
FencedMark(r) ==
    active.id = r => active.error \/ active.stopped \/ (ingress.id = r /\ ~ingress.cancelled)
FencedIsOut ==
    /\ fenced \subseteq 1..Cardinality(claims)
    /\ NoStaleExecution
    /\ \A r \in fenced : FencedWaits(r) /\ FencedMark(r)

FInv == WaitingIsOpen /\ FencedIsOut

\* The file gets no younger.
Ages ==
    /\ task'.rev >= task.rev
    /\ \/ file'.identity = file.identity /\ (file'.present => file.present)
       \/ file'.identity > file.identity /\ ~file.present

LEMMA WaitingTypes ==
    ASSUME IInv
    PROVE  /\ ingress \in Ingresses /\ active \in Tracks /\ file \in Files
           /\ ingress.id \in Nat /\ ingress.identity \in Nat /\ ingress.rev \in Nat
           /\ ingress.admitted \in BOOLEAN /\ ingress.cancelled \in BOOLEAN
           /\ active.error \in BOOLEAN /\ active.stopped \in BOOLEAN
           /\ file.identity \in Nat /\ task.rev \in Nat /\ Cardinality(claims) \in Nat
           /\ ingress # NoIngress => /\ ingress.identity <= file.identity
                                     /\ ingress.id \in 1..Cardinality(claims)
<1>1. /\ ingress \in Ingresses /\ active \in Tracks /\ file \in Files /\ task \in Tasks
      /\ Cardinality(claims) \in Nat
  BY TaskTypes, CountTypes DEF IInv, Records
<1>2. ASSUME ingress # NoIngress
      PROVE  ingress.identity <= file.identity /\ ingress.id \in 1..Cardinality(claims)
  <2>1. /\ \E c \in claims : c.id = ingress.id /\ c.identity = ingress.identity
        /\ ingress.id # NoId /\ ingress.id \in Nat
    BY <1>1, <1>2 DEF IInv, FlightsAreRecorded, Ingresses
  <2>2. ingress.identity <= file.identity
    BY <2>1 DEF IInv, PlanIsAhead
  <2>3. ingress.id <= Cardinality(claims)
    BY DEF IInv, Numbered
  <2>. QED
    BY <1>1, <2>1, <2>2, <2>3 DEF NoId
<1>. QED
  BY <1>1, <1>2 DEF Ingresses, Tracks, Files, Tasks

LEMMA OutdatedStays ==
    ASSUME IInv, ingress # NoIngress, Ages, file' \in Files, task' \in Tasks,
           ingress'.identity = ingress.identity, ingress'.rev = ingress.rev, Outdated
    PROVE  Outdated'
<1>1. /\ ingress.identity \in Nat /\ ingress.rev \in Nat /\ file.identity \in Nat /\ task.rev \in Nat
      /\ ingress.identity <= file.identity
  BY WaitingTypes
<1>2. file'.identity \in Nat /\ task'.rev \in Nat
  BY DEF Files, Tasks
<1>. QED
  BY <1>1, <1>2 DEF Outdated, Ages

\* Steps that leave the prompt where it is, or lose it with what is tracked.
LEMMA FencedKeeps ==
    ASSUME IInv, IInv', FInv, UNCHANGED <<fenced, claims, executed>>, Ages,
           \A r \in fenced \cup ({ingress'.id} \ {NoId}) :
               task'.last.id = r => task'.last.status # "completed",
           \/ active'.id = NoId
           \/ /\ active'.id = active.id
              /\ active.error => active'.error
              /\ active.stopped => active'.stopped,
           \/ ingress' = ingress
           \/ ingress' = NoIngress /\ active'.id = NoId
    PROVE  FInv'
<1>a. file' \in Files
  BY DEF IInv, Records
<1>b. task' \in Tasks
  BY <1>a DEF Files, task
<1>1. /\ fenced \subseteq 1..Cardinality(claims) /\ Cardinality(claims) \in Nat
      /\ \A r \in fenced : r # NoId
  BY WaitingTypes DEF FInv, FencedIsOut, NoId
<1>2. WaitingIsOpen'
  <2>1. SUFFICES ASSUME ingress' # NoIngress, ingress' = ingress
        PROVE  /\ ingress.id \notin executed
               /\ task'.last.id = ingress.id => task'.last.status # "completed"
               /\ ingress.rev <= task'.rev
               /\ ingress.cancelled => ingress.id \in fenced
    BY DEF WaitingIsOpen
  <2>2. /\ ingress.rev \in Nat /\ task.rev \in Nat /\ task'.rev \in Nat /\ ingress.id # NoId
    BY <1>b, <2>1, WaitingTypes DEF Tasks, NoId
  <2>. QED
    BY <2>1, <2>2 DEF FInv, WaitingIsOpen, Ages
<1>3. NoStaleExecution'
  BY DEF FInv, FencedIsOut, NoStaleExecution
<1>4. ASSUME NEW r \in fenced
      PROVE  FencedWaits(r)' /\ FencedMark(r)'
  <2>1. FencedWaits(r) /\ FencedMark(r) /\ r # NoId
    BY <1>1 DEF FInv, FencedIsOut
  <2>2. CASE ingress' = ingress
    <3>1. ingress.id = r => ingress # NoIngress
      BY <2>1, NoneTypes
    <3>2. FencedWaits(r)'
      BY <1>a, <1>b, <2>1, <2>2, <3>1, OutdatedStays DEF FencedWaits
    <3>3. FencedMark(r)'
      BY <2>1, <2>2 DEF FencedMark
    <3>. QED
      BY <3>2, <3>3
  <2>3. CASE ingress' = NoIngress /\ active'.id = NoId
    BY <2>1, <2>3, NoneTypes DEF FencedWaits, FencedMark
  <2>. QED
    BY <2>2, <2>3
<1>. QED
  BY <1>1, <1>2, <1>3, <1>4 DEF FInv, FencedIsOut

\* No prompt on its way or fenced is reported as completed.
Unreported(S) == \A r \in S : task.last.id = r => task.last.status # "completed"
Watched == fenced \cup ({ingress.id} \ {NoId})

LEMMA WatchedIsUnreported == ASSUME FInv PROVE Unreported(Watched)
<1>1. ingress.id # NoId => ingress # NoIngress
  BY NoneTypes
<1>. QED
  BY <1>1 DEF FInv, WaitingIsOpen, FencedIsOut, NoStaleExecution, Unreported, Watched

\* Steps that leave the file, the run and the prompt alone.
LEMMA StillFenced ==
    ASSUME IInv, IInv', FInv, UNCHANGED <<file, active, ingress, claims, executed, fenced>>
    PROVE  FInv'
<1>1. Ages /\ task' = task
  BY WaitingTypes DEF Ages, task
<1>2. \A r \in fenced \cup ({ingress'.id} \ {NoId}) :
          task'.last.id = r => task'.last.status # "completed"
  BY <1>1, WatchedIsUnreported DEF Watched, Unreported
<1>. QED
  BY <1>1, <1>2, FencedKeeps

\* What the scheduler writes is no older than what it read.
LEMMA WrittenRev ==
    ASSUME NEW t \in Tasks
    PROVE  /\ \A s : [t EXCEPT !.last.status = s].rev = t.rev
           /\ \A n : [t EXCEPT !.next = n].rev = t.rev
BY DEF Tasks

LEMMA RecoveredRev == ASSUME Records PROVE Recovered(task).rev = task.rev
<1>. task \in Tasks
  BY TaskTypes
<1>1. ASSUME NEW t, DOMAIN t = DOMAIN task PROVE SkipMissed(t).rev = t.rev
  BY <1>1 DEF SkipMissed, Tasks
<1>2. Interrupted(task).rev = task.rev /\ DOMAIN Interrupted(task) = DOMAIN task
  BY DEF Interrupted, Tasks
<1>. QED
  BY <1>1, <1>2 DEF Recovered

LEMMA WrittenAges ==
    ASSUME IInv, NEW t \in Tasks, file' = [file EXCEPT !.task = t], t.rev = task.rev
    PROVE  Ages /\ task' = t
<1>. file \in Files /\ task.rev \in Nat
  BY WaitingTypes
<1>1. file'.present = file.present /\ file'.identity = file.identity /\ task' = t
  BY DEF Files, task
<1>. QED
  BY <1>1 DEF Ages

\* A write of the timer that reports no completion of a run on its way or fenced.
LEMMA WriteFenced ==
    ASSUME IInv, IInv', FInv, NEW t \in Tasks, file' = [file EXCEPT !.task = t],
           t.rev = task.rev, t.last.id = task.last.id,
           UNCHANGED <<ingress, claims, executed, fenced>>, active' \in {None, active},
           t.last.status # task.last.status =>
               (\A r \in Watched : t.last.id = r => t.last.status # "completed")
    PROVE  FInv'
<1>1. Ages /\ task' = t
  BY WrittenAges
<1>2. \A r \in fenced \cup ({ingress'.id} \ {NoId}) :
          task'.last.id = r => task'.last.status # "completed"
  BY <1>1, WatchedIsUnreported DEF Watched, Unreported
<1>. QED
  BY <1>1, <1>2, FencedKeeps, NoneTypes

LEMMA TickRecoversFenced ==
    ASSUME IInv, IInv', FInv, TickRecovers, UNCHANGED <<executed, fenced>> PROVE FInv'
<1>. PICK t : t = Recovered(task)
  OBVIOUS
<1>1. /\ file' = [file EXCEPT !.task = t] /\ active' = None /\ UNCHANGED <<ingress, claims>>
      /\ task.last.status = "running"
  BY DEF TickRecovers
<1>2. Moves(t) /\ t.last.status = "interrupted" /\ t.rev = task.rev
  BY <1>1, RecoveredMoves, RecoveredRev DEF IInv
<1>. QED
  BY <1>1, <1>2, WriteFenced DEF Moves

\* A run that is reported as completed bears no mark.
LEMMA TickPassesFenced ==
    ASSUME IInv, IInv', FInv, TickPasses, UNCHANGED <<executed, fenced>> PROVE FInv'
<1>t. PICK t : t = IF Missed THEN [task EXCEPT !.next = Advanced(task.trigger, task.count)] ELSE task
  OBVIOUS
<1>1. Moves(t) /\ t.last = task.last
  BY <1>t, MissedMoves, TaskTypes DEF IInv
<1>2. Retire(t) /\ UNCHANGED <<ingress, claims>>
  BY <1>t DEF TickPasses
<1>3. t.rev = task.rev
  BY <1>t, WrittenRev, TaskTypes DEF IInv
<1>4. CASE CanFinish(AfterDrop)
  <2>. PICK s : s = Status(AfterDrop)
    OBVIOUS
  <2>u. PICK u : u = [t EXCEPT !.last.status = s]
    OBVIOUS
  <2>1. file' = [file EXCEPT !.task = u] /\ active' = None
    BY <2>u, <1>2, <1>4 DEF Retire
  <2>2. s \in Statuses /\ t \in Tasks
    BY <1>1 DEF Status, Statuses, Moves
  <2>3. u \in Tasks /\ u.last.id = t.last.id /\ u.last.status = s /\ u.rev = t.rev
    BY <2>u, <2>2, StatusMoves, WrittenRev
  <2>4. /\ AfterDrop = active /\ task.last.id = active.id /\ ingress = NoIngress
    BY <1>4, DropHolds DEF CanFinish, IsActive, Same
  <2>5. ASSUME NEW r \in fenced, u.last.id = r PROVE s # "completed"
    <3>1. FencedMark(r) /\ r # NoId /\ active.id = r
      BY <1>1, <2>3, <2>4, <2>5, WaitingTypes DEF FInv, FencedIsOut, NoId
    <3>2. active.error \/ active.stopped
      BY <2>4, <3>1, NoneTypes DEF FencedMark
    <3>. QED
      BY <2>4, <3>2 DEF Status
  <2>6. \A r \in Watched : u.last.id = r => u.last.status # "completed"
    BY <2>3, <2>4, <2>5, NoneTypes DEF Watched
  <2>. QED
    BY <1>1, <1>2, <1>3, <2>1, <2>3, <2>6, WriteFenced
<1>5. CASE ~CanFinish(AfterDrop)
  <2>1. file' = [file EXCEPT !.task = t] /\ active' \in {None, active}
    BY <1>2, <1>5, DropHolds DEF Retire
  <2>. QED
    BY <1>1, <1>2, <1>3, <2>1, WriteFenced DEF Moves
<1>. QED
  BY <1>4, <1>5

LEMMA WriteFailsFenced == ASSUME IInv, IInv', FInv, WriteFails PROVE FInv'
<1>1. active' \in {None, active} /\ UNCHANGED <<ingress, claims, executed, fenced>>
  BY DropHolds DEF WriteFails
<1>t. PICK t : t = IF UNCHANGED file THEN task
                  ELSE [task EXCEPT !.next = Advanced(task.trigger, task.count)]
  OBVIOUS
<1>2. Moves(t) /\ t.last = task.last
  BY <1>t, MissedMoves, TaskTypes DEF IInv, WriteFails
<1>3. file' = [file EXCEPT !.task = t] /\ t.rev = task.rev
  <2>1. file \in Files /\ task \in Tasks
    BY WaitingTypes, TaskTypes DEF IInv
  <2>. QED
    BY <1>t, <2>1, WrittenRev DEF WriteFails, Files, task
<1>. QED
  BY <1>1, <1>2, <1>3, WriteFenced DEF Moves

\* A new claim is none of the fenced ones.
LEMMA RunFenced ==
    ASSUME IInv, IInv', FInv, NEW by \in {"manual", "schedule"}, Run(by), UNCHANGED <<executed, fenced>>
    PROVE  FInv'
<1>. PICK N \in Nat : N = Cardinality(claims)
  BY CountTypes DEF IInv
<1>t. PICK t : t = Claimed(N + 1, by)
  OBVIOUS
<1>1. /\ file' = [file EXCEPT !.task = t]
      /\ active'.id = N + 1
      /\ ingress'.id = N + 1 /\ ingress'.rev = task.rev /\ ~ingress'.cancelled
  BY <1>t DEF Run, None, NoIngress
<1>2. t \in Tasks /\ t.rev = task.rev /\ t.last.status = "running" /\ t.last.id = N + 1
  <2>1. N + 1 \in Nat
    OBVIOUS
  <2>2. t.last = [id |-> N + 1, status |-> "running", by |-> by, at |-> now]
    BY <1>t, <2>1, ClaimedMoves DEF IInv
  <2>3. t \in Tasks /\ t.rev = task.rev
    BY <1>t, <2>1, ClaimedMoves DEF IInv
  <2>. QED
    BY <2>2, <2>3
<1>3. task' = t
  BY <1>1, <1>2, WrittenAges
<1>4. /\ fenced \subseteq 1..N /\ \A r \in fenced : r # N + 1
      /\ N + 1 \notin executed
  BY DEF FInv, FencedIsOut, IInv, Numbered
<1>5. Cardinality(claims') = N + 1
  <2>1. claims' = claims \cup {NewClaim(by)}
    BY DEF Run, NewClaim
  <2>. QED
    BY <2>1, NewClaimTypes
<1>6. WaitingIsOpen'
  BY <1>1, <1>2, <1>3, <1>4, WaitingTypes DEF WaitingIsOpen
<1>7. FencedIsOut'
  <2>1. fenced' \subseteq 1..Cardinality(claims')
    BY <1>4, <1>5
  <2>2. NoStaleExecution'
    BY <1>2, <1>3, <1>4 DEF FInv, FencedIsOut, NoStaleExecution
  <2>3. \A r \in fenced : FencedWaits(r)' /\ FencedMark(r)'
    BY <1>1, <1>4 DEF FencedWaits, FencedMark
  <2>. QED
    BY <2>1, <2>2, <2>3 DEF FencedIsOut
<1>. QED
  BY <1>6, <1>7 DEF FInv

LEMMA TickFenced == ASSUME IInv, IInv', FInv, Tick PROVE FInv'
<1>1. UNCHANGED <<executed, fenced>>
  BY DEF Tick
<1>2. CASE file.present /\ (TickRecovers \/ TickPasses)
  BY <1>1, <1>2, TickRecoversFenced, TickPassesFenced
<1>3. CASE file.present /\ TickRuns
  BY <1>1, <1>3, RunFenced DEF TickRuns
<1>4. CASE ~file.present
  <2>1. UNCHANGED <<file, ingress, claims>> /\ active' = None
    BY <1>4 DEF Tick
  <2>2. Ages /\ task' = task
    BY <2>1, WaitingTypes DEF Ages, task
  <2>3. \A r \in fenced \cup ({ingress'.id} \ {NoId}) :
            task'.last.id = r => task'.last.status # "completed"
    BY <2>1, <2>2, WatchedIsUnreported DEF Watched, Unreported
  <2>. QED
    BY <1>1, <2>1, <2>2, <2>3, FencedKeeps, NoneTypes
<1>. QED
  BY <1>2, <1>3, <1>4 DEF Tick

\* The marks of the run that is tracked, when its prompt is settled.
LEMMA RoutedMarks ==
    ASSUME active \in Tracks, NEW failed \in BOOLEAN, Routed(failed)
    PROVE  /\ active'.id = active.id
           /\ active.error => active'.error
           /\ active.stopped => active'.stopped
           /\ active.id = ingress.id /\ failed => active'.error
<1>1. CASE active.id = ingress.id
  <2>. PICK e \in BOOLEAN : e = (active.error \/ failed)
    BY DEF Tracks
  <2>1. active' = [active EXCEPT !.routed = TRUE, !.error = e]
    BY <1>1 DEF Routed
  <2>2. active'.id = active.id /\ active'.error = e /\ active'.stopped = active.stopped
    BY <2>1 DEF Tracks
  <2>. QED
    BY <2>2
<1>2. CASE active.id # ingress.id
  BY <1>2 DEF Routed
<1>. QED
  BY <1>1, <1>2

\* The prompt leaves the ingress: refused with a mark, or it was not fenced.
LEMMA LeavesFenced ==
    ASSUME IInv, FInv, ingress # NoIngress, ingress' = NoIngress,
           UNCHANGED <<file, claims, fenced>>,
           NEW failed \in BOOLEAN, Routed(failed),
           \/ executed' = executed /\ (ingress.id \in fenced /\ ~ingress.cancelled => failed)
           \/ executed' = executed \cup {ingress.id} /\ ingress.id \notin fenced
    PROVE  FInv'
<1>. active \in Tracks
  BY WaitingTypes
<1>1. WaitingIsOpen'
  BY DEF WaitingIsOpen
<1>2. NoStaleExecution'
  <2>1. \A r \in fenced : r \notin executed'
    BY DEF FInv, FencedIsOut, NoStaleExecution
  <2>. QED
    BY <2>1 DEF FInv, FencedIsOut, NoStaleExecution, task
<1>3. ASSUME NEW r \in fenced PROVE FencedWaits(r)' /\ FencedMark(r)'
  <2>1. FencedMark(r) /\ r # NoId
    BY WaitingTypes DEF FInv, FencedIsOut, NoId
  <2>2. FencedWaits(r)'
    BY <2>1, NoneTypes DEF FencedWaits
  <2>3. ASSUME active'.id = r PROVE active'.error \/ active'.stopped
    BY <2>1, <2>3, RoutedMarks DEF FencedMark
  <2>. QED
    BY <2>2, <2>3 DEF FencedMark
<1>. QED
  BY <1>1, <1>2, <1>3 DEF FInv, FencedIsOut

\* The guard refuses what is outdated.
LEMMA FencedFailsGuard ==
    ASSUME IInv, FInv, ingress # NoIngress, ingress.id \in fenced, ~ingress.cancelled
    PROVE  ~ingress.admitted /\ ~Guard
<1>1. ~ingress.admitted /\ Outdated
  BY DEF FInv, FencedIsOut, FencedWaits
<1>2. /\ file.identity \in Nat /\ ingress.identity \in Nat /\ task.rev \in Nat /\ ingress.rev \in Nat
  BY WaitingTypes
<1>. QED
  BY <1>1, <1>2 DEF Outdated, Guard, Same

LEMMA RejectFenced == ASSUME IInv, FInv, Reject PROVE FInv'
<1>. PICK failed \in BOOLEAN : failed = (~ingress.cancelled /\ ~Guard)
  OBVIOUS
<1>1. /\ ingress # NoIngress /\ ingress' = NoIngress /\ Routed(failed)
      /\ UNCHANGED <<file, claims, fenced, executed>>
  BY DEF Reject
<1>2. ingress.id \in fenced /\ ~ingress.cancelled => failed
  BY <1>1, FencedFailsGuard
<1>. QED
  BY <1>1, <1>2, LeavesFenced

LEMMA StartsFenced ==
    ASSUME IInv, FInv, ingress # NoIngress, Starts, ~ingress.cancelled, ingress.admitted \/ Guard
    PROVE  FInv'
<1>1. ingress.id \notin fenced
  BY FencedFailsGuard
<1>2. /\ ingress' = NoIngress /\ Routed(FALSE) /\ executed' = executed \cup {ingress.id}
      /\ UNCHANGED <<file, claims, fenced>>
  BY DEF Starts
<1>. QED
  BY <1>1, <1>2, LeavesFenced

LEMMA AdmitFenced == ASSUME IInv, FInv, Admit PROVE FInv'
<1>. ingress \in Ingresses
  BY WaitingTypes
<1>1. /\ ingress # NoIngress /\ ~ingress.cancelled /\ Guard
      /\ ingress' = [ingress EXCEPT !.admitted = TRUE]
      /\ UNCHANGED <<file, active, claims, executed, fenced>>
  BY DEF Admit, Passes
<1>2. ingress'.id = ingress.id /\ ingress'.rev = ingress.rev /\ ingress'.cancelled = ingress.cancelled
  BY <1>1 DEF Ingresses
<1>3. ingress.id \notin fenced
  BY <1>1, FencedFailsGuard
<1>4. WaitingIsOpen'
  BY <1>1, <1>2 DEF FInv, WaitingIsOpen, task
<1>5. FencedIsOut'
  <2>1. \A r \in fenced : FencedWaits(r)' /\ FencedMark(r)'
    BY <1>1, <1>2, <1>3 DEF FInv, FencedIsOut, FencedWaits, FencedMark
  <2>. QED
    BY <1>1, <2>1 DEF FInv, FencedIsOut, NoStaleExecution, task
<1>. QED
  BY <1>4, <1>5 DEF FInv

\* A turn that ends takes no mark away.
LEMMA ObservedMarks ==
    ASSUME active \in Tracks, NEW how, NEW own \in BOOLEAN, active' = Observed(how, own)
    PROVE  /\ active'.id = active.id
           /\ active.error => active'.error
           /\ active.stopped => active'.stopped
<1>. PICK e, s, m \in BOOLEAN : /\ e = (active.error \/ how = "errored")
                                /\ s = (active.stopped \/ how = "aborted")
                                /\ m = (active.mixed \/ ~own)
  BY DEF Tracks
<1>1. CASE ~Tracked
  BY <1>1 DEF Observed
<1>2. CASE Tracked
  <2>1. active' = [active EXCEPT !.ended = TRUE, !.error = e, !.stopped = s, !.mixed = m]
    BY <1>2 DEF Observed
  <2>2. active'.id = active.id /\ active'.error = e /\ active'.stopped = s
    BY <2>1 DEF Tracks
  <2>. QED
    BY <2>2
<1>. QED
  BY <1>1, <1>2

LEMMA TurnFenced ==
    ASSUME IInv, IInv', FInv, NEW how, TurnEnds(how) \/ ChatEnds(how) PROVE FInv'
<1>1. UNCHANGED <<file, ingress, claims, executed, fenced>>
  BY DEF TurnEnds, ChatEnds
<1>2. /\ active'.id = active.id
      /\ active.error => active'.error
      /\ active.stopped => active'.stopped
  BY ObservedMarks, WaitingTypes DEF TurnEnds, ChatEnds
<1>3. Ages /\ task' = task
  BY <1>1, WaitingTypes DEF Ages, task
<1>4. \A r \in fenced \cup ({ingress'.id} \ {NoId}) :
          task'.last.id = r => task'.last.status # "completed"
  BY <1>1, <1>3, WatchedIsUnreported DEF Watched, Unreported
<1>. QED
  BY <1>1, <1>2, <1>3, <1>4, FencedKeeps

\* The prompt on its way is fenced, by a stop or because its task has changed.
LEMMA FenceGrows ==
    ASSUME IInv, IInv', FInv, Fence, UNCHANGED <<claims, executed>>,
           Ages, task'.last = task.last,
           NEW stop \in BOOLEAN,
           stop \/ (~ingress.admitted /\ (ingress # NoIngress => Outdated')),
           /\ active'.id = active.id
           /\ active.error => active'.error
           /\ active.stopped \/ (stop /\ active.id # NoId) => active'.stopped,
           /\ ingress'.id = ingress.id /\ ingress'.identity = ingress.identity
           /\ ingress'.rev = ingress.rev /\ ingress'.admitted = ingress.admitted
           /\ ingress'.cancelled <=> ingress.cancelled \/ (stop /\ ingress # NoIngress)
    PROVE  FInv'
<1>a. file' \in Files
  BY DEF IInv, Records
<1>b. task' \in Tasks
  BY <1>a DEF Files, task
<1>1. /\ ingress.rev \in Nat /\ task.rev \in Nat /\ task'.rev \in Nat
      /\ ingress # NoIngress <=> ingress.id # NoId
      /\ ingress # NoIngress => ingress.id \in 1..Cardinality(claims)
  <2>1. 0 \notin 1..Cardinality(claims)
    BY WaitingTypes
  <2>. QED
    BY <1>b, <2>1, WaitingTypes, NoneTypes DEF Tasks, NoId
<1>2. fenced' = fenced \cup (IF ingress = NoIngress THEN {} ELSE {ingress.id})
  BY <1>1 DEF Fence
<1>3. WaitingIsOpen'
  <2>1. SUFFICES ASSUME ingress # NoIngress
        PROVE  /\ ingress.id \notin executed
               /\ task.last.id = ingress.id => task.last.status # "completed"
               /\ ingress.rev <= task'.rev
               /\ ingress.id \in fenced'
    <3>1. ingress' # NoIngress => ingress # NoIngress
      <4>1. ASSUME ingress = NoIngress, ingress' \in Ingresses PROVE ingress' = NoIngress
        BY <4>1, NoneTypes DEF Ingresses, NoIngress
      <4>. QED
        BY <4>1 DEF IInv, Records
    <3>. QED
      BY <3>1 DEF WaitingIsOpen
  <2>. QED
    BY <1>1, <1>2, <2>1 DEF FInv, WaitingIsOpen, Ages
<1>4. Unreported(Watched)
  BY WatchedIsUnreported
<1>5. \A r \in fenced' : r \in Watched /\ r \notin executed
  <2>1. ingress # NoIngress => ingress.id \notin executed
    BY DEF FInv, WaitingIsOpen
  <2>2. \A r \in fenced : r \notin executed
    BY DEF FInv, FencedIsOut, NoStaleExecution
  <2>. QED
    BY <1>1, <2>1, <2>2 DEF Watched, Fence
<1>6. NoStaleExecution'
  BY <1>4, <1>5 DEF NoStaleExecution, Unreported
<1>7. ASSUME NEW r \in fenced' PROVE FencedWaits(r)' /\ FencedMark(r)'
  <2>1. CASE ingress # NoIngress /\ ingress.id = r
    <3>1. FencedWaits(r)'
      BY <2>1 DEF FencedWaits
    <3>2. ASSUME active'.id = r PROVE active'.error \/ active'.stopped \/ (ingress'.id = r /\ ~ingress'.cancelled)
      <4>1. CASE stop
        BY <1>1, <2>1, <3>2, <4>1
      <4>2. CASE ~stop /\ ~ingress.cancelled
        BY <2>1, <4>2
      <4>3. CASE ~stop /\ ingress.cancelled
        BY <2>1, <3>2, <4>3 DEF FInv, WaitingIsOpen, FencedIsOut, FencedMark
      <4>. QED
        BY <4>1, <4>2, <4>3
    <3>. QED
      BY <3>1, <3>2 DEF FencedMark
  <2>2. CASE ~(ingress # NoIngress /\ ingress.id = r)
    <3>1. r \in fenced /\ r # NoId /\ ingress.id # r
      BY <1>1, <1>2, <2>2, WaitingTypes DEF FInv, FencedIsOut, NoId
    <3>. QED
      BY <3>1 DEF FInv, FencedIsOut, FencedWaits, FencedMark
  <2>. QED
    BY <2>1, <2>2
<1>8. fenced' \subseteq 1..Cardinality(claims)
  BY <1>1, <1>2 DEF FInv, FencedIsOut
<1>. QED
  BY <1>3, <1>6, <1>7, <1>8 DEF FInv, FencedIsOut

LEMMA AbortAllFenced == ASSUME IInv, IInv', FInv, AbortAll PROVE FInv'
<1>. ingress \in Ingresses /\ active \in Tracks
  BY WaitingTypes
<1>1. Fence /\ UNCHANGED <<file, claims, executed>>
  BY DEF AbortAll
<1>2. Ages /\ task'.last = task.last
  BY <1>1, WaitingTypes DEF Ages, task
<1>3. /\ active'.id = active.id
      /\ active.error => active'.error
      /\ active.stopped \/ active.id # NoId => active'.stopped
  <2>1. active.id # NoId => Tracked
    BY NoneTypes DEF Tracked
  <2>2. CASE Tracked
    <3>1. active' = [active EXCEPT !.stopped = TRUE]
      BY <2>2 DEF AbortAll
    <3>. QED
      BY <3>1 DEF Tracks
  <2>3. CASE ~Tracked
    BY <2>1, <2>3 DEF AbortAll
  <2>. QED
    BY <2>2, <2>3
<1>4. /\ ingress'.id = ingress.id /\ ingress'.identity = ingress.identity
      /\ ingress'.rev = ingress.rev /\ ingress'.admitted = ingress.admitted
      /\ ingress'.cancelled <=> ingress.cancelled \/ ingress # NoIngress
  <2>1. CASE ingress = NoIngress
    BY <2>1 DEF AbortAll
  <2>2. CASE ingress # NoIngress
    <3>1. ingress' = [ingress EXCEPT !.cancelled = TRUE]
      BY <2>2 DEF AbortAll
    <3>. QED
      BY <2>2, <3>1 DEF Ingresses
  <2>. QED
    BY <2>1, <2>2
<1>. QED
  BY <1>1, <1>2, <1>3, <1>4, FenceGrows

\* An edit or a deletion: the file is newer than the prompt that has not been admitted.
LEMMA ChangeFenced ==
    ASSUME IInv, IInv', FInv, IF ingress.admitted THEN UNCHANGED fenced ELSE Fence,
           UNCHANGED <<active, ingress, claims, executed>>, Ages, task'.last = task.last,
           ingress # NoIngress => Outdated'
    PROVE  FInv'
<1>1. CASE ~ingress.admitted
  <2>1. /\ active'.id = active.id
        /\ active.error => active'.error
        /\ active.stopped \/ (FALSE /\ active.id # NoId) => active'.stopped
    OBVIOUS
  <2>2. /\ ingress'.id = ingress.id /\ ingress'.identity = ingress.identity
        /\ ingress'.rev = ingress.rev /\ ingress'.admitted = ingress.admitted
        /\ ingress'.cancelled <=> ingress.cancelled \/ (FALSE /\ ingress # NoIngress)
    BY WaitingTypes
  <2>3. Fence
    BY <1>1
  <2>. QED
    BY <1>1, <2>1, <2>2, <2>3, FenceGrows
<1>2. CASE ingress.admitted
  <2>1. \A r \in fenced \cup ({ingress'.id} \ {NoId}) :
            task'.last.id = r => task'.last.status # "completed"
    BY WatchedIsUnreported DEF Watched, Unreported
  <2>2. UNCHANGED fenced
    BY <1>2
  <2>. QED
    BY <2>1, <2>2, FencedKeeps
<1>. QED
  BY <1>1, <1>2

LEMMA EditFenced == ASSUME IInv, IInv', FInv, Edit PROVE FInv'
<1>. PICK t \in Triggers, enabled \in BOOLEAN : file' = [file EXCEPT !.task = Edited(t, enabled)]
  BY DEF Edit
<1>u. PICK u : u = Edited(t, enabled)
  OBVIOUS
<1>. task \in Tasks
  BY TaskTypes DEF IInv
<1>1. u.last = task.last /\ u.rev = task.rev + 1
  <2>1. CASE t = task.trigger
    BY <1>u, <2>1 DEF Edited, Tasks
  <2>2. CASE t # task.trigger
    BY <1>u, <2>2 DEF Edited, NewTask
  <2>. QED
    BY <2>1, <2>2
<1>2. task' = u /\ file'.present = file.present /\ file'.identity = file.identity
  BY <1>u, WaitingTypes DEF Files, task
<1>3. ingress # NoIngress => ingress.rev <= task.rev
  BY DEF FInv, WaitingIsOpen
<1>4. UNCHANGED <<active, ingress, claims, executed>> /\ IF ingress.admitted THEN UNCHANGED fenced ELSE Fence
  BY DEF Edit
<1>5. Ages /\ task'.last = task.last
  BY <1>1, <1>2, WaitingTypes DEF Ages
<1>6. ingress # NoIngress => Outdated'
  BY <1>1, <1>2, <1>3, <1>4, WaitingTypes DEF Outdated
<1>. QED
  BY <1>4, <1>5, <1>6, ChangeFenced

LEMMA RemoveFenced == ASSUME IInv, IInv', FInv, Remove PROVE FInv'
<1>1. /\ file' = [file EXCEPT !.present = FALSE]
      /\ UNCHANGED <<active, ingress, claims, executed>>
      /\ IF ingress.admitted THEN UNCHANGED fenced ELSE Fence
  BY DEF Remove
<1>2. file'.present = FALSE /\ file'.identity = file.identity /\ task' = task
  BY <1>1, WaitingTypes DEF Files, task
<1>3. Ages /\ Outdated' /\ task'.last = task.last
  BY <1>2, WaitingTypes DEF Ages, Outdated
<1>. QED
  BY <1>1, <1>3, ChangeFenced

LEMMA RecreateFenced == ASSUME IInv, IInv', FInv, Recreate PROVE FInv'
<1>1. ~file.present /\ UNCHANGED <<active, ingress, claims, executed, fenced>>
  BY DEF Recreate
<1>. PICK t \in Triggers :
         file' = [present |-> TRUE, identity |-> file.identity + 1,
                  task |-> NewTask(t, task.rev + 1, NeverRan)]
  BY DEF Recreate
<1>2. file'.identity = file.identity + 1 /\ task'.rev = task.rev + 1 /\ task'.last = NeverRan
  BY DEF task, NewTask
<1>3. Ages
  BY <1>1, <1>2, WaitingTypes DEF Ages
<1>4. \A r \in fenced \cup ({ingress'.id} \ {NoId}) :
          task'.last.id = r => task'.last.status # "completed"
  BY <1>2 DEF NeverRan
<1>. QED
  BY <1>1, <1>3, <1>4, FencedKeeps

LEMMA CrashFenced == ASSUME IInv, IInv', FInv, Crash PROVE FInv'
<1>1. /\ UNCHANGED <<file, claims, executed, fenced>>
      /\ ingress' = NoIngress /\ active'.id = NoId
  BY NoneTypes DEF Crash
<1>2. Ages /\ task' = task
  BY <1>1, WaitingTypes DEF Ages, task
<1>3. \A r \in fenced \cup ({ingress'.id} \ {NoId}) :
          task'.last.id = r => task'.last.status # "completed"
  BY <1>1, <1>2, WatchedIsUnreported, NoneTypes DEF Watched, Unreported
<1>. QED
  BY <1>1, <1>2, <1>3, FencedKeeps

LEMMA BootFenced == ASSUME IInv, IInv', FInv, Boot PROVE FInv'
<1>1. UNCHANGED <<active, ingress, claims, executed, fenced>>
  BY DEF Boot
<1>2. CASE UNCHANGED file
  BY <1>1, <1>2, StillFenced
<1>3. CASE file' = [file EXCEPT !.task = Recovered(task)]
  <2>. PICK t : t = Recovered(task)
    OBVIOUS
  <2>1. /\ Moves(t) /\ t.rev = task.rev
        /\ t.last.status = IF task.last.status = "running" THEN "interrupted" ELSE task.last.status
    BY RecoveredMoves, RecoveredRev DEF IInv
  <2>2. file' = [file EXCEPT !.task = t]
    BY <1>3
  <2>. QED
    BY <1>1, <2>1, <2>2, WriteFenced DEF Moves
<1>. QED
  BY <1>2, <1>3 DEF Boot

LEMMA NextFenced == ASSUME IInv, FInv, [Next]_vars PROVE FInv'
<1>0. IInv'
  BY NextHolds, StutterHolds
<1>1. CASE \E how \in Endings : TurnEnds(how) \/ ChatEnds(how)
  BY <1>0, <1>1, TurnFenced
<1>2. CASE RunManually \/ Tick \/ WriteFails
  BY <1>0, <1>2, RunFenced, TickFenced, WriteFailsFenced DEF RunManually
<1>3. CASE BackoffEnds \/ Pass \/ Chat \/ Synchronize \/ Disconnect \/ UNCHANGED vars
  <2>1. UNCHANGED <<file, active, ingress, claims, executed, fenced>>
    BY <1>3 DEF BackoffEnds, Pass, Chat, Synchronize, Disconnect, vars
  <2>. QED
    BY <1>0, <2>1, StillFenced
<1>4. CASE Accept \/ Classified
  <2>1. /\ ingress # NoIngress /\ ~ingress.cancelled /\ Starts /\ (ingress.admitted \/ Guard)
    <3>1. ~NoIngress.admitted
      BY DEF NoIngress
    <3>. QED
      BY <1>4, <3>1 DEF Accept, Classified, Passes
  <2>. QED
    BY <2>1, StartsFenced
<1>5. CASE Reject \/ Admit \/ AbortAll
  BY <1>0, <1>5, RejectFenced, AdmitFenced, AbortAllFenced
<1>6. CASE Edit \/ Remove \/ Recreate \/ Crash \/ Boot
  BY <1>0, <1>6, EditFenced, RemoveFenced, RecreateFenced, CrashFenced, BootFenced
<1>. QED
  BY <1>1, <1>2, <1>3, <1>4, <1>5, <1>6 DEF Next

LEMMA InitFenced == ASSUME Init PROVE FInv
BY DEF Init, FInv, WaitingIsOpen, FencedIsOut, NoStaleExecution

THEOREM FencedInductive == Spec => []FInv
<1>1. IInv /\ FInv /\ [Next]_vars => FInv'
  BY NextFenced
<1>. QED
  BY <1>1, InitFenced, Inductive, PTL DEF Spec

\* A prompt that was stopped on its way, or whose task was edited, paused or deleted
\* before the guard admitted it, is neither executed nor reported as completed
\* (the ingress guard; routeActiveEnvelopeToVpThread; observe and finish).
THEOREM FencedIsNotRun == Spec => []NoStaleExecution
<1>1. FInv => NoStaleExecution
  BY DEF FInv, FencedIsOut
<1>. QED
  BY <1>1, FencedInductive, PTL

-----------------------------------------------------------------------------
(* What it is for *)

LEMMA TypesHold == ASSUME IInv, FInv PROVE TypeOK
<1>. PICK m : m = Max.command
  OBVIOUS
<1>1. /\ m \in Nat /\ MaxTime \in Nat /\ m = Max["command"]
  BY ScheduleAssumption
<1>2. /\ file \in Files /\ task.next \in task.trigger.times \cup {Never}
      /\ now \in 0..MaxTime /\ task.last.at <= now
      /\ active \in Tracks /\ ingress \in Ingresses /\ engine \in Nat
      /\ plan \in Nat \ {0} /\ executed \subseteq Nat \ {0} /\ used \in Uses
  BY DEF IInv, Records
<1>3. Cardinality(claims) \in Nat /\ Cardinality(claims) <= MaxIds /\ MaxIds \in Nat
  <2>1. used["command"] <= m /\ used["command"] \in Nat /\ Cardinality(claims) \in Nat /\ now \in Nat
    BY <1>1, CountTypes, TaskTypes DEF IInv, Records
  <2>2. Cardinality(claims) <= used["command"] + now
    BY <2>1 DEF IInv, Paid, Owed
  <2>3. MaxIds = m + MaxTime
    BY DEF MaxIds
  <2>. QED
    BY <1>1, <1>2, <2>1, <2>2, <2>3
<1>4. \A x \in {task.last.id, active.id, ingress.id, engine} \cup executed : x <= Cardinality(claims)
  BY DEF IInv, Numbered
<1>5. /\ task.last.id \in 0..MaxIds /\ active.id \in 0..MaxIds /\ ingress.id \in 0..MaxIds
      /\ engine \in 0..MaxIds /\ executed \subseteq 1..MaxIds /\ fenced \subseteq 1..MaxIds
  <2>1. task.last.id \in Nat /\ active.id \in Nat /\ ingress.id \in Nat
    BY <1>2 DEF task, Files, Tasks, Lasts, Tracks, Ingresses
  <2>. QED
    BY <1>2, <1>3, <1>4, <2>1 DEF FInv, FencedIsOut
<1>6. task.last \in [id : 0..MaxIds, status : Statuses, by : {"manual", "schedule"}, at : 0..MaxTime]
  <2>. PICK l : l = task.last
    OBVIOUS
  <2>1. l \in Lasts /\ l.id \in 0..MaxIds /\ l.at \in 0..MaxTime
    BY <1>1, <1>2, <1>5 DEF task, Files, Tasks, Lasts
  <2>2. l \in [id : 0..MaxIds, status : Statuses, by : {"manual", "schedule"}, at : 0..MaxTime]
    BY <2>1 DEF Lasts
  <2>. QED
    BY <2>2
<1>7. /\ file.present \in BOOLEAN /\ file.identity \in Nat
      /\ task.enabled \in BOOLEAN /\ task.trigger \in Triggers /\ task.rev \in Nat /\ task.count \in Nat
  BY <1>2 DEF task, Files, Tasks
<1>8. {up, ready, backoff, chat} \subseteq BOOLEAN
  BY DEF IInv, Records
<1>. QED
  BY <1>2, <1>5, <1>6, <1>7, <1>8 DEF TypeOK, Uses, Statuses

LEMMA OnceHolds == ASSUME IInv PROVE OccurrenceOnce
<1>. SUFFICES ASSUME NEW c \in claims, c.by = "schedule"
     PROVE  LET others == {d \in claims : d.by = "schedule" /\ d.plan = c.plan}
            IN  /\ \A d \in others : d.instant = c.instant => d = c
                /\ c.plan = plan /\ task.trigger.maxRuns # 0 =>
                       Cardinality(others) <= task.trigger.maxRuns
  BY DEF OccurrenceOnce
<1>. DEFINE others == {d \in claims : d.by = "schedule" /\ d.plan = c.plan}
<1>1. \A d \in others : d.instant = c.instant => d = c
  BY DEF IInv, PlanIsAhead
<1>2. c.plan = plan => others = Scheduled(plan)
  BY DEF Scheduled
<1>3. task.trigger.maxRuns # 0 => Cardinality(Scheduled(plan)) <= task.trigger.maxRuns
  BY DEF IInv, CountIsKept
<1>. QED
  BY <1>1, <1>2, <1>3

LEMMA ExecutionHolds == ASSUME IInv PROVE ExecutionIsRecorded
<1>. SUFFICES ASSUME file.present, NEW c \in claims, c.id = engine, c.identity = file.identity
     PROVE  task.last.id = engine /\ task.last.status = "running"
  BY DEF ExecutionIsRecorded
<1>1. engine \in InFlight
  BY DEF IInv, Records, Claims, InFlight, NoId
<1>. QED
  BY <1>1 DEF IInv, FlightsAreRecorded, Recorded

\* Each occurrence of a plan is claimed at most once and no more of them than
\* the plan allows; a one-shot is not lost; and what the Session executes is
\* recorded as running (advanceScheduledTask, run, recover and finish).
THEOREM OccurrencesHold == Spec => []OccurrencesInv
<1>1. IInv /\ FInv => OccurrencesInv
  BY TypesHold, OnceHolds, ExecutionHolds DEF OccurrencesInv, IInv
<1>. QED
  BY <1>1, Inductive, FencedInductive, PTL

-----------------------------------------------------------------------------
(* What a step may never do *)

\* A task that moves on without a claim keeps what its last run is.
LEMMA CompletedSteps ==
    ASSUME IInv, [Next]_vars, file'.task # file.task,
           file'.task.last.status = "completed", task.last.status = "running"
    PROVE  task.last.id \in executed \/ active.mixed
<1>. file \in Files /\ task \in Tasks /\ task.last \in Lasts /\ Records
  BY TaskTypes DEF IInv, Records
<1>1. ASSUME NEW t, file' = [file EXCEPT !.task = t] PROVE t.last.status = "completed"
  <2>1. file'.task = t
    BY <1>1 DEF Files
  <2>. QED
    BY <2>1
<1>2. ASSUME NEW by, Run(by) PROVE FALSE
  <2>. PICK id : id = Cardinality(claims) + 1
    OBVIOUS
  <2>. PICK l : l = [id |-> id, status |-> "running", by |-> by, at |-> now]
    OBVIOUS
  <2>. PICK n, m : Claimed(id, by) = [task EXCEPT !.last = l, !.count = n, !.next = m]
    BY DEF Claimed
  <2>1. file' = [file EXCEPT !.task = Claimed(id, by)]
    BY <1>2 DEF Run
  <2>2. Claimed(id, by).last = l
    BY DEF Tasks
  <2>. QED
    BY <1>1, <2>1, <2>2
<1>3. ASSUME Tick PROVE task.last.id \in executed \/ active.mixed
  <2>1. file.present /\ (TickRecovers \/ TickPasses)
    BY <1>2, <1>3 DEF Tick, TickRuns
  <2>2. ~TickRecovers
    BY <1>1, RecoveredMoves DEF TickRecovers
  <2>t. PICK t : t = IF Missed THEN [task EXCEPT !.next = Advanced(task.trigger, task.count)] ELSE task
    OBVIOUS
  <2>7. Retire(t)
    BY <2>t, <2>1, <2>2 DEF TickPasses
  <2>3. Moves(t) /\ t.last = task.last
    BY <2>t, MissedMoves, TaskTypes
  <2>4. CanFinish(AfterDrop)
    <3>1. SUFFICES ASSUME ~CanFinish(AfterDrop) PROVE FALSE
      OBVIOUS
    <3>2. file' = [file EXCEPT !.task = t]
      BY <2>7, <3>1 DEF Retire
    <3>. QED
      BY <1>1, <2>3, <3>2
  <2>. PICK s : s = Status(AfterDrop)
    OBVIOUS
  <2>5. s = "completed"
    <3>1. file' = [file EXCEPT !.task = [t EXCEPT !.last.status = s]]
      BY <2>4, <2>7 DEF Retire
    <3>2. s \in Statuses /\ t \in Tasks
      BY <2>3 DEF Status, Statuses, Moves
    <3>3. [t EXCEPT !.last.status = s].last.status = s
      BY <3>2, StatusMoves
    <3>. QED
      BY <1>1, <3>1, <3>3
  <2>6. AfterDrop = active /\ active.ended /\ task.last.id = active.id
    <3>1. AfterDrop.ended
      BY <2>5 DEF Status
    <3>2. AfterDrop = active /\ Same(active)
      BY <2>4, DropHolds DEF CanFinish
    <3>. QED
      BY <3>1, <3>2 DEF Same
  <2>. QED
    BY <2>6 DEF IInv, EndsAreExecuted
<1>4. ASSUME WriteFails PROVE FALSE
  <2>1. Missed /\ file' = [file EXCEPT !.task = [task EXCEPT !.next = Advanced(task.trigger, task.count)]]
    BY <1>4 DEF WriteFails, task, Files
  <2>. QED
    BY <1>1, <2>1, MissedMoves
<1>5. ASSUME Edit PROVE FALSE
  <2>. PICK t \in Triggers, enabled \in BOOLEAN : file' = [file EXCEPT !.task = Edited(t, enabled)]
    BY <1>5 DEF Edit
  <2>1. Edited(t, enabled).last = task.last
    <3>1. CASE t = task.trigger
      BY <3>1 DEF Edited, Tasks
    <3>2. CASE t # task.trigger
      BY <3>2 DEF Edited, NewTask
    <3>. QED
      BY <3>1, <3>2
  <2>. QED
    BY <1>1, <2>1
<1>6. ASSUME Recreate PROVE FALSE
  BY <1>6 DEF Recreate, NewTask, NeverRan
<1>7. ASSUME Boot PROVE FALSE
  <2>1. file' = [file EXCEPT !.task = Recovered(task)]
    BY <1>7 DEF Boot
  <2>. QED
    BY <1>1, <2>1, RecoveredMoves
<1>8. ASSUME Remove PROVE FALSE
  BY <1>8 DEF Remove, Files
<1>9. ~UNCHANGED file
  OBVIOUS
<1>. QED
  BY <1>2, <1>3, <1>4, <1>5, <1>6, <1>7, <1>8, <1>9
  DEF Next, vars, RunManually, BackoffEnds, Pass, Reject, Accept, Admit, Classified, Starts, Chat,
      AbortAll, TurnEnds, ChatEnds, Synchronize, Disconnect, Crash

\* A run is reported as completed only when the Session executed its prompt,
\* unless a turn of the user's own ended while it was tracked (finish).
THEOREM CompletedRan == Spec => CompletedWasExecuted
<1>1. IInv /\ [Next]_vars =>
        [file'.task.last.status = "completed" /\ file'.task # file.task /\ task.last.status = "running"
           => task.last.id \in executed \/ active.mixed]_vars
  BY CompletedSteps
<1>. QED
  BY <1>1, Inductive, PTL DEF Spec, CompletedWasExecuted

=============================================================================
