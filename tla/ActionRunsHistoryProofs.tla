---------------------- MODULE ActionRunsHistoryProofs ----------------------
(***************************************************************************)
(* Proofs about the history of ActionRuns: what an ended Run, a settled    *)
(* Action and a closed WorkItem keep, how often an Action may run, and     *)
(* what a delivery and an integration reservation may rely on.             *)
(*                                                                         *)
(* The many kinds of steps change a row in few ways.  The moves below      *)
(* name these ways, every step is shown to make no other ones, and the     *)
(* invariants are derived from the moves.                                  *)
(***************************************************************************)
EXTENDS ActionRunsProofs

-----------------------------------------------------------------------------
(* The moves of an Action *)

SameRecord(a) ==
    /\ act'[a].status = act[a].status /\ act'[a].attempt = act[a].attempt
    /\ act'[a].gen = act[a].gen /\ act'[a].rev = act[a].rev
    /\ act'[a].run = act[a].run /\ act'[a].result = act[a].result

StaysAction(a) == SameRecord(a) /\ (act'[a].resv => act[a].resv)

\* The process dies during the integration.
Reserves(a) ==
    /\ SameRecord(a)
    /\ act[a].status = "running" /\ run[act[a].run].owner = boot
    /\ boot' = boot /\ life' = "down"

Claims(a) ==
    /\ act[a].status = "ready" /\ act'[a].status = "running"
    /\ act'[a].attempt = act[a].attempt + 1
    /\ act'[a].gen = act[a].gen /\ act'[a].rev = act[a].rev
    /\ act'[a].resv = act[a].resv

\* The Run of the Action ends.
Ends(a) ==
    /\ act[a].status = "running" /\ ~act[a].resv
    /\ act'[a].run = NoRun /\ act'[a].gen = act[a].gen /\ act'[a].rev = act[a].rev
    /\ ~act'[a].resv
    /\ act'[a].attempt <= MaxAttempts
    /\ \/ /\ act'[a].status = "ready" /\ act'[a].attempt < MaxAttempts
          /\ a \in DeliverActions =>
                run'[act[a].run].status = "retryable" \/ run'[act[a].run].deferred
       \/ act'[a].status \in {"waiting", "failed"}
       \/ /\ act'[a].status = "completed" /\ act'[a].result = act[a].run
          /\ run'[act[a].run].status = "completed"

Restarts(a) ==
    /\ act[a].status \in Unfinished /\ act'[a].status = "ready"
    /\ act'[a].attempt = 0 /\ act'[a].gen = act[a].gen + 1 /\ ~act'[a].resv

Creates(a) ==
    /\ act[a].status = "absent" /\ act'[a].status = "ready"
    /\ act'[a].attempt = act[a].attempt /\ act'[a].gen = act[a].gen
    /\ act'[a].run = act[a].run /\ act'[a].resv = act[a].resv
    /\ item'[ItemOf[a]].status \notin {"done", "cancelled"}

Closes(a) ==
    /\ act[a].status \in Unfinished \cup {"cancelled"} /\ ~act[a].resv
    /\ act'[a].status \in {"closed", "superseded", "cancelled"}
    /\ act'[a].attempt = act[a].attempt /\ act'[a].gen = act[a].gen
    /\ act'[a].run = NoRun /\ ~act'[a].resv

FallsBack(a) ==
    /\ act[a].status \in {"ready", "running"} /\ act'[a].status = act[a].status
    /\ act'[a].attempt = act[a].attempt /\ act'[a].gen = act[a].gen + 1
    /\ act'[a].run = act[a].run /\ ~act'[a].resv

ActionMoves(a) ==
    \/ StaysAction(a) \/ Reserves(a) \/ Claims(a) \/ Ends(a) \/ Restarts(a)
    \/ Creates(a) \/ Closes(a) \/ FallsBack(a)

-----------------------------------------------------------------------------
(* The moves of a Run *)

SameClaim(r) ==
    /\ run'[r].action = run[r].action /\ run'[r].owner = run[r].owner

StaysRun(r) ==
    \/ run'[r] = run[r]
    \/ /\ SameClaim(r) /\ run'[r].gen = run[r].gen
       /\ run[r].status = "running" /\ run'[r].status = "running"

IsClaimed(r) ==
    /\ IsNextRun(r)
    /\ run'[r].status = "running" /\ run'[r].action \in Actions
    /\ act[run'[r].action].status = "ready"
    /\ run'[r].gen = act[run'[r].action].gen
    /\ run'[r].owner = boot /\ boot' = boot

Rebinds(r) ==
    /\ SameClaim(r) /\ run'[r].gen = run[r].gen + 1
    /\ run[r].status = "running" /\ run'[r].status = "running"

IsEnded(r) ==
    /\ SameClaim(r) /\ run'[r].gen = run[r].gen
    /\ run[r].status = "running" /\ run'[r].status \notin {"unused", "running"}

RunMoves(r) == StaysRun(r) \/ IsClaimed(r) \/ Rebinds(r) \/ IsEnded(r)

-----------------------------------------------------------------------------
(* The moves of a WorkItem and of the process *)

Quiet(A, w) == \A a \in ActionsOf(w) : A[a].status \notin Unfinished

StaysItem(w) ==
    /\ item'[w].status = item[w].status /\ item'[w].rev = item[w].rev
    /\ item'[w].stopped = item[w].stopped \/ item[w].status = "cancelled"

GoesOn(w) ==
    /\ item'[w].status \notin {"done", "cancelled"}
    /\ item'[w].stopped => item'[w].status = "needs_attention"
    /\ item[w].status = "done" => item'[w].stopped

Cancels(w) ==
    /\ item[w].status # "done" /\ item'[w].status = "cancelled"
    /\ Quiet(act', w)

Completes(w) ==
    /\ item'[w].status = "done" /\ item'[w].rev = item[w].rev /\ ~item'[w].stopped
    /\ Evidence(w) # {} /\ Quiet(act', w)

ItemMoves(w) == StaysItem(w) \/ GoesOn(w) \/ Cancels(w) \/ Completes(w)

Tables ==
    /\ \A a \in Actions : ActionMoves(a)
    /\ \A r \in RunIds : RunMoves(r)
    /\ \A w \in WorkItems : ItemMoves(w)

\* A process that is down does nothing, and only starts anew.
DownIsQuiet ==
    life = "down" =>
        tick = "idle" /\ halting = "none" /\ \A r \in RunIds : exec[r] = "none"

ProcessMoves ==
    /\ \/ boot' = boot /\ (life = "down" => life' = "down")
       \/ boot' = boot + 1
    /\ DownIsQuiet'

-----------------------------------------------------------------------------
(* The inductive invariant *)

\* A planned Action has no past, and no state the code reads of it is stale.
AbsentIsFresh ==
    \A a \in Actions : act[a].status = "absent" =>
        act[a].attempt = 0 /\ \A r \in RunIds : Used(r) => run[r].action # a

\* A stopped WorkItem shows it.
StoppedIsShown ==
    \A w \in WorkItems :
        item[w].stopped => item[w].status \in {"needs_attention", "cancelled"}

\* Runs are numbered as they are claimed, and a running one is the latest of
\* its Action.
RunsInOrder ==
    /\ \A r, q \in RunIds : q < r /\ Used(r) => Used(q)
    /\ \A r, q \in RunIds :
          run[r].status = "running" /\ Used(q) /\ run[q].action = run[r].action => q <= r

\* A Run is of a process that was, and its generation is one its Action had.
RunsAreDated ==
    \A r \in RunIds : Used(r) =>
        /\ run[r].action \in Actions /\ run[r].gen <= act[run[r].action].gen
        /\ run[r].owner <= boot

\* A delivery that was cut off is not up for another Run in its generation.
DeliveryIsHeld ==
    \A r \in RunIds :
        /\ run[r].status \in {"interrupted", "superseded"} /\ ~run[r].deferred
        /\ run[r].action \in DeliverActions
        => \/ run[r].gen < act[run[r].action].gen
           \/ act[run[r].action].status \notin {"ready", "running"}

\* The process that made an integration reservation is gone.
ReservationIsLeft ==
    \A a \in Actions : act[a].resv =>
        /\ act[a].status = "running"
        /\ run[act[a].run].owner < boot \/ life = "down"

HInv ==
    /\ DownIsQuiet
    /\ AbsentIsFresh
    /\ AttemptsBounded
    /\ StoppedIsShown
    /\ ClosedItemIsQuiet
    /\ DoneHasEvidence
    /\ ResultIsCanonical
    /\ RunsInOrder
    /\ RunsAreDated
    /\ DeliveryIsHeld
    /\ NoBlindRedelivery
    /\ ReservationIsLeft

IInv == TypeOK /\ RunFence /\ HInv

-----------------------------------------------------------------------------
(* The moves preserve the invariant *)

\* The state before a step and the moves of the step; the fence holds again
\* after it.
Moved ==
    /\ TypeOK /\ TypeOK' /\ RunFence /\ RunFence' /\ HInv
    /\ Tables /\ ProcessMoves

\* Rows as the solvers need them.
LEMMA RowTypes ==
    ASSUME TypeOK
    PROVE  /\ \A a \in Actions :
                /\ act[a].attempt \in Nat /\ act[a].gen \in Nat /\ act[a].resv \in BOOLEAN
                /\ act[a].status \in ActionStatus /\ act[a].run \in RunIds \cup {NoRun}
           /\ \A r \in RunIds :
                /\ run[r].gen \in Nat /\ run[r].owner \in Nat /\ run[r].status \in RunStatus
                /\ run[r].action \in Actions \cup {NoAction}
           /\ \A w \in WorkItems :
                /\ item[w].status \in ItemStatus /\ item[w].stopped \in BOOLEAN
           /\ boot \in Nat
BY DEF TypeOK, ActionRows, RunRows, ItemRows

LEMMA GenerationGrows ==
    ASSUME Moved, NEW a \in Actions
    PROVE  act[a].gen \in Nat /\ act'[a].gen \in Nat /\ act[a].gen <= act'[a].gen
<1>1. act[a].gen \in Nat /\ act'[a].gen \in Nat
  BY RowTypes DEF Moved, TypeOK, ActionRows
<1>2. ActionMoves(a)
  BY DEF Moved, Tables
<1>. QED
  BY <1>1, <1>2 DEF ActionMoves, StaysAction, Reserves, SameRecord, Claims, Ends, Restarts,
                    Creates, Closes, FallsBack

\* A Run that has been claimed keeps its Action and never is unused again.
LEMMA ClaimIsKept ==
    ASSUME Moved, NEW r \in RunIds, Used(r)
    PROVE  /\ Used(r)' /\ SameClaim(r)
           /\ run[r].status # "running" => run'[r] = run[r]
           /\ run'[r].gen \in Nat /\ run[r].gen \in Nat /\ run[r].gen <= run'[r].gen
<1>1. run[r].gen \in Nat /\ run'[r].gen \in Nat
  BY RowTypes DEF Moved, TypeOK, RunRows
<1>2. RunMoves(r)
  BY DEF Moved, Tables
<1>. QED
  BY <1>1, <1>2 DEF RunMoves, StaysRun, IsClaimed, IsNextRun, Rebinds, IsEnded, SameClaim, Used

LEMMA NewRun ==
    ASSUME Moved, NEW r \in RunIds, ~Used(r), Used(r)'
    PROVE  IsClaimed(r)
<1>1. RunMoves(r)
  BY DEF Moved, Tables
<1>. QED
  BY <1>1 DEF RunMoves, StaysRun, Rebinds, IsEnded, Used

LEMMA AbsentPreserved ==
    ASSUME Moved
    PROVE  AbsentIsFresh'
<1>. SUFFICES ASSUME NEW a \in Actions, act'[a].status = "absent"
              PROVE  /\ act'[a].attempt = 0
                     /\ \A r \in RunIds : Used(r)' => run'[r].action # a
  BY DEF AbsentIsFresh
<1>1. ActionMoves(a)
  BY DEF Moved, Tables
<1>2. act[a].status = "absent" /\ act'[a].attempt = act[a].attempt
  BY <1>1 DEF ActionMoves, StaysAction, Reserves, SameRecord, Claims, Ends, Restarts,
              Creates, Closes, FallsBack
<1>3. \A r \in RunIds : Used(r) => run[r].action # a
  BY <1>2 DEF Moved, HInv, AbsentIsFresh
<1>4. act'[a].attempt = 0
  BY <1>2 DEF Moved, HInv, AbsentIsFresh
<1>5. ASSUME NEW r \in RunIds, Used(r)'
      PROVE  run'[r].action # a
  <2>1. CASE Used(r)
    BY <2>1, <1>3, ClaimIsKept DEF SameClaim
  <2>2. CASE ~Used(r)
    BY <2>2, <1>2, <1>5, NewRun DEF IsClaimed
  <2>. QED
    BY <2>1, <2>2
<1>. QED
  BY <1>4, <1>5

LEMMA AttemptsPreserved ==
    ASSUME Moved
    PROVE  AttemptsBounded'
<1>. SUFFICES ASSUME NEW a \in Actions
              PROVE  /\ act'[a].attempt <= MaxAttempts
                     /\ act'[a].status = "ready" => act'[a].attempt < MaxAttempts
  BY DEF AttemptsBounded
<1>1. ActionMoves(a)
  BY DEF Moved, Tables
<1>2. /\ act[a].attempt <= MaxAttempts
      /\ act[a].status = "ready" => act[a].attempt < MaxAttempts
      /\ act[a].status = "absent" => act[a].attempt = 0
  BY DEF Moved, HInv, AttemptsBounded, AbsentIsFresh
<1>3. act[a].attempt \in Nat /\ MaxAttempts \in Nat /\ MaxAttempts > 0
  BY RowTypes, ConstantsAssumption DEF Moved, ConstantsAssumption
<1>. QED
  BY <1>1, <1>2, <1>3 DEF ActionMoves, StaysAction, Reserves, SameRecord, Claims, Ends,
                          Restarts, Creates, Closes, FallsBack

LEMMA ResultPreserved ==
    ASSUME Moved
    PROVE  ResultIsCanonical'
<1>. SUFFICES ASSUME NEW a \in Actions, act'[a].status = "completed"
              PROVE  /\ act'[a].result \in RunIds
                     /\ run'[act'[a].result].status = "completed"
                     /\ run'[act'[a].result].action = a
                     /\ run'[act'[a].result].gen = act'[a].gen
  BY DEF ResultIsCanonical
<1>1. ActionMoves(a)
  BY DEF Moved, Tables
<1>2. StaysAction(a) \/ Ends(a)
  BY <1>1 DEF ActionMoves, Reserves, SameRecord, Claims, Restarts, Creates, Closes, FallsBack
<1>3. CASE StaysAction(a)
  <2>1. act[a].status = "completed" /\ act'[a].result = act[a].result /\ act'[a].gen = act[a].gen
    BY <1>3 DEF StaysAction, SameRecord
  <2>2. /\ act[a].result \in RunIds /\ run[act[a].result].status = "completed"
        /\ run[act[a].result].action = a /\ run[act[a].result].gen = act[a].gen
    BY <2>1 DEF Moved, HInv, ResultIsCanonical
  <2>3. run'[act[a].result] = run[act[a].result]
    BY <2>2, ClaimIsKept DEF Used
  <2>. QED
    BY <2>1, <2>2, <2>3
<1>4. CASE Ends(a)
  <2>. DEFINE r == act[a].run
  <2>1. act'[a].result = r /\ run'[r].status = "completed" /\ act'[a].gen = act[a].gen
    BY <1>4 DEF Ends
  <2>2. r \in RunIds /\ run[r].status = "running" /\ run[r].action = a /\ run[r].gen = act[a].gen
    BY <1>4 DEF Ends, Moved, RunFence
  <2>3. RunMoves(r)
    BY <2>2 DEF Moved, Tables
  <2>4. IsEnded(r)
    BY <2>1, <2>2, <2>3 DEF RunMoves, StaysRun, IsClaimed, IsNextRun, Rebinds, Used
  <2>. QED
    BY <2>1, <2>2, <2>4 DEF IsEnded, SameClaim
<1>. QED
  BY <1>2, <1>3, <1>4

LEMMA OrderPreserved ==
    ASSUME Moved
    PROVE  RunsInOrder'
<1>1. ASSUME NEW r \in RunIds, NEW q \in RunIds, q < r, Used(r)'
      PROVE  Used(q)'
  <2>1. CASE Used(r)
    <3>1. Used(q)
      BY <1>1, <2>1 DEF Moved, HInv, RunsInOrder
    <3>. QED
      BY <3>1, ClaimIsKept
  <2>2. CASE ~Used(r)
    <3>1. IsNextRun(r)
      BY <1>1, <2>2, NewRun DEF IsClaimed
    <3>2. Used(q)
      BY <1>1, <3>1 DEF IsNextRun, RunIds
    <3>. QED
      BY <3>2, ClaimIsKept
  <2>. QED
    BY <2>1, <2>2
<1>2. ASSUME NEW r \in RunIds, NEW q \in RunIds, run'[r].status = "running", Used(q)',
             run'[q].action = run'[r].action
      PROVE  q <= r
  <2>1. CASE run[r].status = "running"
    <3>1. Used(r) /\ run'[r].action = run[r].action
      BY <2>1, ClaimIsKept DEF Used, SameClaim
    <3>2. CASE Used(q)
      <4>1. run[q].action = run[r].action
        BY <1>2, <3>1, <3>2, ClaimIsKept DEF SameClaim
      <4>. QED
        BY <2>1, <3>2, <4>1 DEF Moved, HInv, RunsInOrder
    <3>3. CASE ~Used(q)
      <4>1. act[run'[q].action].status = "ready"
        BY <1>2, <3>3, NewRun DEF IsClaimed
      <4>2. act[run[r].action].status = "running"
        BY <2>1 DEF Moved, RunFence
      <4>. QED
        BY <1>2, <3>1, <4>1, <4>2
    <3>. QED
      BY <3>2, <3>3
  <2>2. CASE run[r].status # "running"
    <3>1. ~Used(r)
      BY <1>2, <2>2, ClaimIsKept
    <3>2. IsNextRun(r)
      BY <1>2, <3>1, NewRun DEF IsClaimed, Used
    <3>3. CASE Used(q)
      <4>1. ~(r < q)
        BY <3>1, <3>3 DEF Moved, HInv, RunsInOrder
      <4>. QED
        BY <4>1 DEF RunIds
    <3>4. CASE ~Used(q)
      <4>1. IsNextRun(q)
        BY <1>2, <3>4, NewRun DEF IsClaimed
      <4>. QED
        BY <3>1, <3>4, <4>1 DEF IsNextRun
    <3>. QED
      BY <3>3, <3>4
  <2>. QED
    BY <2>1, <2>2
<1>. QED
  BY <1>1, <1>2 DEF RunsInOrder

LEMMA DatesPreserved ==
    ASSUME Moved
    PROVE  RunsAreDated'
<1>. SUFFICES ASSUME NEW r \in RunIds, Used(r)'
              PROVE  /\ run'[r].action \in Actions /\ run'[r].gen <= act'[run'[r].action].gen
                     /\ run'[r].owner <= boot'
  BY DEF RunsAreDated
<1>1. boot \in Nat /\ boot' \in Nat /\ boot <= boot'
  BY DEF Moved, ProcessMoves, TypeOK
<1>2. CASE Used(r)
  <2>. DEFINE a == run[r].action
  <2>1. a \in Actions /\ run[r].gen <= act[a].gen /\ run[r].owner <= boot
    BY <1>2 DEF Moved, HInv, RunsAreDated
  <2>2. run'[r].action = a /\ run'[r].owner = run[r].owner
    BY <1>2, ClaimIsKept DEF SameClaim
  <2>3. run[r].owner \in Nat
    BY RowTypes DEF Moved
  <2>4. run'[r].gen <= act'[a].gen
    <3>1. CASE run'[r].status = "running"
      <4>1. act'[a].gen = run'[r].gen
        BY <3>1, <2>2 DEF Moved, RunFence
      <4>. QED
        BY <4>1, <2>1, GenerationGrows
    <3>2. CASE run'[r].status # "running"
      <4>1. run'[r].gen = run[r].gen
        BY <1>2, <3>2, ClaimIsKept DEF Moved, Tables, RunMoves, StaysRun, IsClaimed, IsNextRun,
                                       Rebinds, IsEnded
      <4>2. run[r].gen \in Nat /\ act[a].gen \in Nat /\ act'[a].gen \in Nat
            /\ act[a].gen <= act'[a].gen
        BY <1>2, <2>1, ClaimIsKept, GenerationGrows
      <4>. HIDE DEF a
      <4>. QED
        BY <4>1, <4>2, <2>1
    <3>. QED
      BY <3>1, <3>2
  <2>. QED
    BY <1>1, <2>1, <2>2, <2>3, <2>4
<1>3. CASE ~Used(r)
  <2>1. /\ run'[r].action \in Actions /\ run'[r].gen = act[run'[r].action].gen
        /\ run'[r].owner = boot
    BY <1>3, NewRun DEF IsClaimed
  <2>. QED
    BY <1>1, <2>1, GenerationGrows
<1>. QED
  BY <1>2, <1>3

\* A Run that ends takes its Action out of its generation, or leaves it so that
\* only a retry brings it back.
LEMMA DeliveryPreserved ==
    ASSUME Moved
    PROVE  DeliveryIsHeld'
<1>. SUFFICES ASSUME NEW r \in RunIds,
                     run'[r].status \in {"interrupted", "superseded"}, ~run'[r].deferred,
                     NEW a \in DeliverActions, run'[r].action = a
              PROVE  run'[r].gen < act'[a].gen \/ act'[a].status \notin {"ready", "running"}
  BY DEF DeliveryIsHeld
<1>1. a \in Actions
  BY ConstantsAssumption DEF ConstantsAssumption
<1>2. ActionMoves(a) /\ RunMoves(r)
  BY <1>1 DEF Moved, Tables
<1>3. Used(r) /\ run[r].action = a
  BY <1>2 DEF RunMoves, StaysRun, IsClaimed, Rebinds, IsEnded, SameClaim, Used
<1>4. run'[r].gen = run[r].gen
  BY <1>2 DEF RunMoves, StaysRun, IsClaimed, Rebinds, IsEnded
<1>5. run[r].gen <= act[a].gen
  BY <1>3 DEF Moved, HInv, RunsAreDated
<1>6. run[r].gen \in Nat /\ act[a].gen \in Nat /\ act'[a].gen \in Nat /\ act[a].gen <= act'[a].gen
  BY <1>1, <1>3, ClaimIsKept, GenerationGrows
<1>7. CASE run[r].status = "running"
  <2>1. act[a].status = "running" /\ act[a].run = r
    BY <1>3, <1>7 DEF Moved, RunFence
  <2>2. ~(act'[a].status = "running" /\ act'[a].run = r)
    BY <1>1 DEF Moved, RunFence
  <2>3. Ends(a) \/ Restarts(a) \/ Closes(a)
    BY <1>2, <2>1, <2>2 DEF ActionMoves, StaysAction, Reserves, SameRecord, Claims, Creates,
                            FallsBack
  <2>4. CASE Restarts(a)
    <3>1. act'[a].gen = act[a].gen + 1
      BY <2>4 DEF Restarts
    <3>. QED
      BY <3>1, <1>4, <1>5, <1>6
  <2>5. CASE Ends(a) \/ Closes(a)
    BY <2>1, <2>5 DEF Ends, Closes
  <2>. QED
    BY <2>3, <2>4, <2>5
<1>8. CASE run[r].status # "running"
  <2>1. run'[r] = run[r]
    BY <1>3, <1>8, ClaimIsKept
  <2>2. run[r].gen < act[a].gen \/ act[a].status \notin {"ready", "running"}
    BY <2>1 DEF Moved, HInv, DeliveryIsHeld
  <2>3. CASE run[r].gen < act[a].gen
    <3>. QED
      BY <2>3, <1>4, <1>6
  <2>4. CASE act[a].status \notin {"ready", "running"} /\ act'[a].status \in {"ready", "running"}
    <3>1. Restarts(a) \/ Creates(a)
      BY <1>2, <2>4 DEF ActionMoves, StaysAction, Reserves, SameRecord, Claims, Ends, Closes,
                        FallsBack
    <3>2. act[a].status # "absent"
      BY <1>1, <1>3 DEF Moved, HInv, AbsentIsFresh
    <3>3. act'[a].gen = act[a].gen + 1
      BY <3>1, <3>2 DEF Restarts, Creates
    <3>. QED
      BY <3>3, <1>4, <1>5, <1>6
  <2>. QED
    BY <2>2, <2>3, <2>4
<1>. QED
  BY <1>7, <1>8

LEMMA RedeliveryPreserved ==
    ASSUME Moved
    PROVE  NoBlindRedelivery'
<1>. SUFFICES ASSUME NEW a \in DeliverActions, NEW r \in RunIds, NEW q \in RunIds,
                     Used(r)', run'[r].action = a, Used(q)', run'[q].action = a, r < q,
                     run'[r].status \in {"interrupted", "superseded"}, ~run'[r].deferred
              PROVE  run'[r].gen < run'[q].gen
  BY DEF NoBlindRedelivery, RunsOf
<1>1. a \in Actions
  BY ConstantsAssumption DEF ConstantsAssumption
<1>2. Used(r) /\ run[r].action = a /\ run'[r].gen = run[r].gen
  BY DEF Moved, Tables, RunMoves, StaysRun, IsClaimed, Rebinds, IsEnded, SameClaim, Used
<1>3. CASE Used(q)
  <2>1. run[q].action = a
    BY <1>3, ClaimIsKept DEF SameClaim
  <2>2. run[r].status # "running"
    <3>1. ~(q <= r)
      BY DEF RunIds
    <3>. QED
      BY <3>1, <2>1, <1>2, <1>3 DEF Moved, HInv, RunsInOrder
  <2>3. run'[r] = run[r]
    BY <2>2, <1>2, ClaimIsKept
  <2>4. run[r].gen < run[q].gen
    BY <1>2, <1>3, <2>1, <2>3 DEF Moved, HInv, NoBlindRedelivery, RunsOf
  <2>5. run[q].gen \in Nat /\ run'[q].gen \in Nat /\ run[q].gen <= run'[q].gen /\ run[r].gen \in Nat
    BY <1>2, <1>3, ClaimIsKept
  <2>. QED
    BY <1>2, <2>4, <2>5
<1>4. CASE ~Used(q)
  <2>1. act[a].status = "ready" /\ run'[q].gen = act[a].gen
    BY <1>4, NewRun DEF IsClaimed
  <2>2. run[r].status # "running"
    BY <2>1, <1>2 DEF Moved, RunFence
  <2>3. run'[r] = run[r]
    BY <2>2, <1>2, ClaimIsKept
  <2>4. run[r].gen < act[a].gen
    BY <2>1, <2>3, <1>2 DEF Moved, HInv, DeliveryIsHeld
  <2>. QED
    BY <2>1, <2>4, <1>2
<1>. QED
  BY <1>3, <1>4

LEMMA ReservationPreserved ==
    ASSUME Moved
    PROVE  ReservationIsLeft'
<1>. SUFFICES ASSUME NEW a \in Actions, act'[a].resv
              PROVE  /\ act'[a].status = "running"
                     /\ run'[act'[a].run].owner < boot' \/ life' = "down"
  BY DEF ReservationIsLeft
<1>1. ActionMoves(a)
  BY DEF Moved, Tables
<1>2. act[a].resv => act[a].status = "running" /\ (run[act[a].run].owner < boot \/ life = "down")
  BY DEF Moved, HInv, ReservationIsLeft
<1>3. StaysAction(a) \/ Reserves(a)
  BY <1>1, <1>2 DEF ActionMoves, Claims, Ends, Restarts, Creates, Closes, FallsBack
<1>. DEFINE r == act[a].run
<1>4. act[a].status = "running" /\ act'[a].status = "running" /\ act'[a].run = r
  BY <1>2, <1>3 DEF StaysAction, Reserves, SameRecord
<1>5. r \in RunIds /\ Used(r)
  BY <1>4 DEF Moved, RunFence, Used
<1>6. run'[r].owner = run[r].owner /\ run[r].owner \in Nat /\ run[r].owner <= boot
  BY <1>5, ClaimIsKept, RowTypes DEF SameClaim, Moved, HInv, RunsAreDated
<1>7. boot \in Nat /\ boot' \in Nat /\ (boot' = boot \/ boot' = boot + 1)
      /\ (boot' = boot /\ life = "down" => life' = "down")
  BY DEF Moved, ProcessMoves, TypeOK
<1>8. CASE Reserves(a)
  BY <1>8, <1>4 DEF Reserves
<1>9. CASE StaysAction(a)
  <2>1. run[r].owner < boot \/ life = "down"
    BY <1>9, <1>2 DEF StaysAction
  <2>. HIDE DEF r
  <2>. QED
    BY <1>4, <1>6, <1>7, <2>1
<1>. QED
  BY <1>3, <1>8, <1>9

LEMMA StoppedPreserved ==
    ASSUME Moved
    PROVE  StoppedIsShown'
<1>. SUFFICES ASSUME NEW w \in WorkItems, item'[w].stopped
              PROVE  item'[w].status \in {"needs_attention", "cancelled"}
  BY DEF StoppedIsShown
<1>1. ItemMoves(w)
  BY DEF Moved, Tables
<1>2. item[w].stopped => item[w].status \in {"needs_attention", "cancelled"}
  BY DEF Moved, HInv, StoppedIsShown
<1>. QED
  BY <1>1, <1>2 DEF ItemMoves, StaysItem, GoesOn, Cancels, Completes

LEMMA QuietPreserved ==
    ASSUME Moved
    PROVE  ClosedItemIsQuiet'
<1>. SUFFICES ASSUME NEW w \in WorkItems, item'[w].status \in {"done", "cancelled"}
              PROVE  Quiet(act', w)
  BY DEF ClosedItemIsQuiet, Quiet, Unfinished
<1>1. ItemMoves(w)
  BY DEF Moved, Tables
<1>2. CASE Cancels(w) \/ Completes(w)
  BY <1>2 DEF Cancels, Completes
<1>3. CASE StaysItem(w)
  <2>. SUFFICES ASSUME NEW a \in ActionsOf(w)
                PROVE  act'[a].status \notin Unfinished
    BY DEF Quiet
  <2>1. a \in Actions /\ ItemOf[a] = w
    BY DEF ActionsOf
  <2>2. act[a].status \notin Unfinished
    BY <1>3 DEF StaysItem, Moved, HInv, ClosedItemIsQuiet, Unfinished
  <2>3. ActionMoves(a) /\ ~Creates(a)
    BY <2>1 DEF Moved, Tables, Creates
  <2>. QED
    BY <2>2, <2>3 DEF ActionMoves, StaysAction, Reserves, SameRecord, Claims, Ends, Restarts,
                      Closes, FallsBack, Unfinished
<1>. QED
  BY <1>1, <1>2, <1>3 DEF ItemMoves, GoesOn

\* A completed Action stays as it is.
LEMMA CompletedStays ==
    ASSUME Moved, NEW a \in Actions, act[a].status = "completed"
    PROVE  SameRecord(a)
<1>1. ActionMoves(a)
  BY DEF Moved, Tables
<1>. QED
  BY <1>1 DEF ActionMoves, StaysAction, Reserves, Claims, Ends, Restarts, Creates, Closes,
              FallsBack, Unfinished

LEMMA EvidencePreserved ==
    ASSUME Moved
    PROVE  DoneHasEvidence'
<1>. SUFFICES ASSUME NEW w \in WorkItems, item'[w].status = "done"
              PROVE  \E a \in ActionsOf(w) :
                        /\ act'[a].status = "completed" /\ act'[a].rev = item'[w].rev
                        /\ \E r \in RunIds : /\ Used(r)' /\ run'[r].action = a
                                             /\ run'[r].status = "completed"
                                             /\ run'[r].gen = act'[a].gen
  BY DEF DoneHasEvidence, RunsOf
<1>1. ItemMoves(w)
  BY DEF Moved, Tables
<1>2. item'[w].rev = item[w].rev
  BY <1>1 DEF ItemMoves, StaysItem, GoesOn, Cancels, Completes
<1>3. PICK a \in ActionsOf(w), r \in RunIds :
        /\ act[a].status = "completed" /\ act[a].rev = item[w].rev
        /\ run[r].action = a /\ run[r].status = "completed" /\ run[r].gen = act[a].gen
  <2>1. CASE StaysItem(w)
    BY <2>1 DEF StaysItem, Moved, HInv, DoneHasEvidence, RunsOf
  <2>2. CASE Completes(w)
    <3>1. PICK a \in Evidence(w) : TRUE
      BY <2>2 DEF Completes
    <3>2. a \in ActionsOf(w) /\ act[a].status = "completed" /\ act[a].rev = item[w].rev
      BY <3>1 DEF Evidence
    <3>3. /\ act[a].result \in RunIds /\ run[act[a].result].status = "completed"
          /\ run[act[a].result].action = a /\ run[act[a].result].gen = act[a].gen
      BY <3>2 DEF Moved, HInv, ResultIsCanonical, ActionsOf
    <3>. QED
      BY <3>2, <3>3
  <2>. QED
    BY <1>1, <2>1, <2>2 DEF ItemMoves, GoesOn, Cancels
<1>4. SameRecord(a)
  BY <1>3, CompletedStays DEF ActionsOf
<1>5. run'[r] = run[r] /\ Used(r)'
  BY <1>3, ClaimIsKept DEF Used
<1>. QED
  BY <1>2, <1>3, <1>4, <1>5 DEF SameRecord

LEMMA InvariantPreserved ==
    ASSUME Moved
    PROVE  HInv'
<1>1. DownIsQuiet'
  BY DEF Moved, ProcessMoves
<1>. QED
  BY <1>1, AbsentPreserved, AttemptsPreserved, StoppedPreserved, QuietPreserved,
     EvidencePreserved, ResultPreserved, OrderPreserved, DatesPreserved, DeliveryPreserved,
     RedeliveryPreserved, ReservationPreserved DEF HInv

\* What the moves leave of history.
HistoryStep ==
    /\ \A r \in RunIds : run[r].status \notin {"unused", "running"} => run'[r] = run[r]
    /\ \A a \in Actions : act[a].status \in {"completed", "closed", "superseded"} =>
         act'[a].status = act[a].status /\ act'[a].result = act[a].result
    /\ \A w \in WorkItems : item[w].status = "done" =>
         item'[w].status = "done" \/ item'[w].stopped

ReservationStep ==
    \A a \in Actions : act[a].resv /\ act'[a].run # act[a].run => act'[a].gen > act[a].gen

LEMMA HistoryKept ==
    ASSUME Moved
    PROVE  HistoryStep
<1>1. \A r \in RunIds : run[r].status \notin {"unused", "running"} => run'[r] = run[r]
  BY ClaimIsKept DEF Used
<1>2. ASSUME NEW a \in Actions, act[a].status \in {"completed", "closed", "superseded"}
      PROVE  act'[a].status = act[a].status /\ act'[a].result = act[a].result
  <2>1. ActionMoves(a)
    BY DEF Moved, Tables
  <2>. QED
    BY <1>2, <2>1 DEF ActionMoves, StaysAction, SameRecord, Reserves, Claims, Ends, Restarts,
                      Creates, Closes, FallsBack, Unfinished
<1>3. ASSUME NEW w \in WorkItems, item[w].status = "done"
      PROVE  item'[w].status = "done" \/ item'[w].stopped
  <2>1. ItemMoves(w)
    BY DEF Moved, Tables
  <2>. QED
    BY <1>3, <2>1 DEF ItemMoves, StaysItem, GoesOn, Cancels, Completes
<1>. QED
  BY <1>1, <1>2, <1>3 DEF HistoryStep

LEMMA ReservationKept ==
    ASSUME Moved
    PROVE  ReservationStep
<1>. SUFFICES ASSUME NEW a \in Actions, act[a].resv, act'[a].run # act[a].run
              PROVE  act'[a].gen > act[a].gen
  BY DEF ReservationStep
<1>1. ActionMoves(a)
  BY DEF Moved, Tables
<1>2. act[a].status = "running"
  BY DEF Moved, HInv, ReservationIsLeft
<1>3. Restarts(a)
  BY <1>1, <1>2 DEF ActionMoves, StaysAction, SameRecord, Reserves, Claims, Ends, Creates,
                    Closes, FallsBack
<1>4. act[a].gen \in Nat
  BY RowTypes DEF Moved
<1>. QED
  BY <1>3, <1>4 DEF Restarts

-----------------------------------------------------------------------------
(* The table updates make these moves *)

LEMMA ActionsStay ==
    ASSUME UNCHANGED act
    PROVE  \A a \in Actions : ActionMoves(a)
BY DEF ActionMoves, StaysAction, SameRecord

LEMMA RunsStay ==
    ASSUME UNCHANGED run
    PROVE  \A r \in RunIds : RunMoves(r)
BY DEF RunMoves, StaysRun

LEMMA ItemsStay ==
    ASSUME UNCHANGED item
    PROVE  \A w \in WorkItems : ItemMoves(w)
BY DEF ItemMoves, StaysItem

LEMMA TablesStay ==
    ASSUME UNCHANGED <<item, act, run>>
    PROVE  Tables
BY ActionsStay, RunsStay, ItemsStay DEF Tables

\* A write of a status that goes through the trigger.
LEMMA GoesOnStored ==
    ASSUME IInv, NEW w \in WorkItems, item[w].status # "done",
           NEW s \in ItemStatus \ {"done", "cancelled"},
           item'[w].status = Stored(item[w], s), item'[w].stopped = item[w].stopped
    PROVE  ItemMoves(w)
BY DEF ItemMoves, GoesOn, Stored

LEMMA GraphGoesOn ==
    ASSUME NEW A, NEW w, NEW a \in ActionsOf(w), A[a].status \in Unfinished
    PROVE  GraphStatus(A, w) \in ItemStatus \ {"done", "cancelled"}
BY DEF GraphStatus, Unfinished, ItemStatus

LEMMA SettledGoesOn ==
    ASSUME NEW A, NEW w
    PROVE  SettledStatus(A, w) \in ItemStatus \ {"done", "cancelled"}
<1>1. CASE \E a \in ActionsOf(w) : A[a].status \in Unfinished
  BY <1>1, GraphGoesOn DEF SettledStatus, ItemStatus
<1>2. CASE ~ \E a \in ActionsOf(w) : A[a].status \in Unfinished
  BY <1>2 DEF SettledStatus, ItemStatus, Unfinished
<1>. QED
  BY <1>1, <1>2

\* A Run that owns its Action, and an unfinished Action's WorkItem.
LEMMA OpenItem ==
    ASSUME IInv, NEW a \in Actions, act[a].status \in Unfinished
    PROVE  ItemOf[a] \in WorkItems /\ item[ItemOf[a]].status \notin {"done", "cancelled"}
BY ItemOfType DEF IInv, HInv, ClosedItemIsQuiet, ActionsOf, Unfinished

LEMMA OwnedHere ==
    ASSUME IInv, NEW r \in RunIds, Owns(r), life # "down" \/ ~act[run[r].action].resv
    PROVE  /\ run[r].action \in Actions /\ run[r].status = "running"
           /\ act[run[r].action].status = "running" /\ act[run[r].action].run = r
           /\ ~act[run[r].action].resv /\ run[r].owner = boot
           /\ ItemOf[run[r].action] \in WorkItems
           /\ item[ItemOf[run[r].action]].status \in LiveStatus
<1>1. boot \in Nat
  BY DEF IInv, TypeOK
<1>. QED
  BY <1>1, OwnedAction, ItemOfType DEF Owns, OwnsIn, IInv, HInv, ReservationIsLeft

\* The Action of a running Run ends without a result.
LEMMA ActionEnds ==
    ASSUME IInv, NEW a \in Actions, act[a].status = "running", ~act[a].resv,
           NEW s \in {"ready", "failed"},
           s = "ready" => Retryable(a),
           act'[a] = [act[a] EXCEPT !.status = s, !.run = NoRun]
    PROVE  ActionMoves(a)
<1>1. act[a] \in ActionRows /\ act[a].attempt <= MaxAttempts
  BY Rows DEF IInv, HInv, AttemptsBounded
<1>2. Ends(a)
  BY <1>1 DEF Ends, Retryable, ActionRows
<1>. QED
  BY <1>2 DEF ActionMoves

LEMMA ActionCloses ==
    ASSUME IInv, NEW a \in Actions, act[a].status \in Unfinished \cup {"cancelled"}, ~act[a].resv,
           NEW s \in {"closed", "superseded", "cancelled"}, NEW e,
           act'[a] = [act[a] EXCEPT !.status = s, !.epoch = e, !.run = NoRun]
    PROVE  ActionMoves(a) /\ act'[a].status \notin Unfinished
<1>1. act[a] \in ActionRows
  BY Rows DEF IInv
<1>2. Closes(a) /\ act'[a].status \notin Unfinished
  BY <1>1 DEF Closes, ActionRows, Unfinished
<1>. QED
  BY <1>2 DEF ActionMoves

LEMMA ActionRestarts ==
    ASSUME IInv, NEW a \in Actions, act[a].status \in Unfinished,
           NEW e, NEW v,
           act'[a] = [act[a] EXCEPT !.status = "ready", !.attempt = 0, !.gen = @ + 1, !.run = NoRun,
                                    !.result = NoRun, !.resv = FALSE, !.epoch = e, !.rev = v]
    PROVE  ActionMoves(a)
<1>1. act[a] \in ActionRows
  BY Rows DEF IInv
<1>2. Restarts(a)
  BY <1>1 DEF Restarts, ActionRows
<1>. QED
  BY <1>2 DEF ActionMoves

\* A running Run's status is rewritten.
LEMMA RunEnds ==
    ASSUME IInv, NEW r \in RunIds, run[r].status = "running",
           NEW s \in RunStatus \ {"unused", "running"},
           run'[r] = [run[r] EXCEPT !.status = s]
    PROVE  RunMoves(r)
<1>1. run[r] \in RunRows
  BY Rows DEF IInv
<1>2. IsEnded(r)
  BY <1>1 DEF IsEnded, SameClaim, RunRows
<1>. QED
  BY <1>2 DEF RunMoves

LEMMA OthersMove ==
    ASSUME NEW a, act'[a] = act[a]
    PROVE  ActionMoves(a)
BY DEF ActionMoves, StaysAction, SameRecord

LEMMA FinalizeMoves ==
    ASSUME IInv, NEW r \in RunIds, NEW outcome \in Outcomes, life # "down",
           IsActiveRun(r), Finalize(r, outcome)
    PROVE  Tables
<1>. DEFINE a == run[r].action
            w == ItemOf[a]
            status == CASE outcome \in {"completed", "waiting"} -> outcome
                        [] outcome = "retryable" /\ act[a].attempt < MaxAttempts -> "ready"
                        [] OTHER -> "failed"
            result == ResultAfter(act[a].result, outcome, r)
            A == [act EXCEPT ![a].status = status, ![a].run = NoRun, ![a].result = result]
            ledger == IF outcome = "retryable" THEN item[w].ledger ELSE item[w].ledger + 1
            s == SettledStatus(A, w)
            i == [item[w] EXCEPT !.ledger = ledger, !.status = Stored(item[w], s)]
<1>1. /\ a \in Actions /\ run[r].status = "running" /\ act[a].status = "running"
      /\ act[a].run = r /\ ~act[a].resv /\ w \in WorkItems /\ item[w].status \in LiveStatus
  BY OwnedHere DEF IsActiveRun
<1>2. run' = [run EXCEPT ![r].status = outcome] /\ act' = A
      /\ item' = [item EXCEPT ![w] = Reconcile(i, A, w)]
  BY DEF Finalize
<1>3. \A q \in RunIds : RunMoves(q)
  <2>1. run'[r] = [run[r] EXCEPT !.status = outcome] /\ \A q \in RunIds \ {r} : run'[q] = run[q]
    BY <1>2 DEF IInv, TypeOK
  <2>2. outcome \in RunStatus \ {"unused", "running"}
    BY DEF Outcomes, RunStatus
  <2>3. RunMoves(r)
    BY <1>1, <2>1, <2>2, RunEnds
  <2>. QED
    BY <2>1, <2>3 DEF RunMoves, StaysRun
<1>4. \A b \in Actions : ActionMoves(b)
  <2>1. \A b \in Actions \ {a} : act'[b] = act[b]
    BY <1>1, <1>2 DEF IInv, TypeOK
  <2>2. act[a] \in ActionRows /\ act[a].attempt <= MaxAttempts /\ act[a].attempt \in Nat
    BY <1>1, Rows DEF IInv, HInv, AttemptsBounded, ActionRows
  <2>3. act'[a] = [act[a] EXCEPT !.status = status, !.run = NoRun, !.result = result]
    <3>. HIDE DEF status, result, a
    <3>. QED
      BY <1>1, <1>2 DEF IInv, TypeOK
  <2>4. run'[r].status = outcome
    BY <1>2 DEF IInv, TypeOK, RunRows
  <2>5. \/ status = "ready" /\ outcome = "retryable" /\ act[a].attempt < MaxAttempts
        \/ status \in {"waiting", "failed"}
        \/ status = "completed" /\ outcome = "completed" /\ result = r
    BY DEF Outcomes, ResultAfter
  <2>6. Ends(a)
    <3>. HIDE DEF status, result, a
    <3>. QED
      BY <1>1, <2>2, <2>3, <2>4, <2>5 DEF Ends, ActionRows
  <2>. QED
    BY <2>1, <2>6, OthersMove DEF ActionMoves
<1>5. \A v \in WorkItems : ItemMoves(v)
  <2>1. \A v \in WorkItems \ {w} : item'[v] = item[v]
    BY <1>1, <1>2 DEF IInv, TypeOK
  <2>2. item[w] \in ItemRows
    BY <1>1, Rows DEF IInv
  <2>3. s \in ItemStatus \ {"done", "cancelled"}
    BY SettledGoesOn
  <2>4. Stored(item[w], s) \in ItemStatus
    BY <2>2, <2>3, StoredType
  <2>5. i.status = Stored(item[w], s) /\ i.stopped = item[w].stopped /\ i \in ItemRows
    <3>. DEFINE t == Stored(item[w], s)
    <3>1. ledger \in Nat
      BY <1>1, Rows DEF IInv, ItemRows
    <3>. HIDE DEF s, ledger, t, w
    <3>. QED
      BY <2>2, <2>4, <3>1 DEF ItemRows, t
  <2>6. item'[w] = Reconcile(i, A, w)
    BY <1>1, <1>2 DEF IInv, TypeOK
  <2>7. item'[w].status = i.status /\ item'[w].stopped = i.stopped
    <3>. HIDE DEF i, A, w
    <3>. QED
      BY <2>5, <2>6 DEF Reconcile, ItemRows
  <2>8. ItemMoves(w)
    <3>. HIDE DEF s, i, w
    <3>. QED
      BY <1>1, <2>3, <2>5, <2>7, GoesOnStored DEF LiveStatus
  <2>. QED
    BY <2>1, <2>8 DEF ItemMoves, StaysItem
<1>. QED
  BY <1>3, <1>4, <1>5 DEF Tables

LEMMA InterruptMoves ==
    ASSUME IInv, NEW S \in SUBSET RunIds, \A r \in S : CanInterrupt(r), Interrupt(S)
    PROVE  Tables
<1>1. \A r \in S :
        /\ run[r].action \in Actions /\ run[r].status = "running"
        /\ act[run[r].action].status = "running" /\ act[run[r].action].run = r
        /\ ~act[run[r].action].resv
        /\ ItemOf[run[r].action] \in WorkItems
        /\ item[ItemOf[run[r].action]].status \in LiveStatus
  BY OwnedHere DEF CanInterrupt
<1>2. ASSUME NEW r \in RunIds
      PROVE  RunMoves(r)
  <2>1. CASE r \in S
    <3>1. run'[r] = [run[r] EXCEPT !.status = "interrupted"]
      BY <2>1 DEF Interrupt
    <3>2. "interrupted" \in RunStatus \ {"unused", "running"}
      BY DEF RunStatus
    <3>. QED
      BY <2>1, <1>1, <3>1, <3>2, RunEnds
  <2>2. CASE r \notin S
    BY <2>2 DEF Interrupt, RunMoves, StaysRun
  <2>. QED
    BY <2>1, <2>2
<1>3. ASSUME NEW a \in Actions
      PROVE  ActionMoves(a)
  <2>1. CASE \E r \in S : run[r].action = a
    <3>. DEFINE s == IF Retryable(a) THEN "ready" ELSE "failed"
    <3>1. act'[a] = [act[a] EXCEPT !.status = s, !.run = NoRun]
      BY <2>1 DEF Interrupt
    <3>2. s \in {"ready", "failed"} /\ (s = "ready" => Retryable(a))
      OBVIOUS
    <3>. HIDE DEF s
    <3>. QED
      BY <2>1, <1>1, <3>1, <3>2, ActionEnds
  <2>2. CASE ~ \E r \in S : run[r].action = a
    BY <2>2, OthersMove DEF Interrupt
  <2>. QED
    BY <2>1, <2>2
<1>4. ASSUME NEW w \in WorkItems
      PROVE  ItemMoves(w)
  <2>1. CASE \A r \in S : Item(r) # w
    BY <2>1 DEF Interrupt, ItemMoves, StaysItem
  <2>2. CASE \E r \in S : Item(r) = w
    <3>1. item[w].status # "done"
      BY <2>2, <1>1 DEF Item, LiveStatus
    <3>2. PICK s \in {"ready", "needs_attention"} :
            /\ item'[w] = [item[w] EXCEPT !.status = s]
            /\ item[w].stopped => s = "needs_attention"
      BY <2>2 DEF Interrupt
    <3>3. item[w] \in ItemRows
      BY Rows DEF IInv
    <3>4. item'[w].status = s /\ item'[w].stopped = item[w].stopped
      BY <3>2, <3>3 DEF ItemRows
    <3>. QED
      BY <3>1, <3>2, <3>4 DEF ItemMoves, GoesOn
  <2>. QED
    BY <2>1, <2>2
<1>. QED
  BY <1>2, <1>3, <1>4 DEF Tables

LEMMA RecoverMoves ==
    ASSUME IInv, NEW b, Recover(b)
    PROVE  Tables
<1>1. PICK f \in Orders(LostRuns(b)) : RecoverInOrder(f)
  BY DEF Recover
<1>. DEFINE S == DOMAIN f
            A == RecoveredActions(S)
<1>2. S = LostRuns(b)
  BY <1>1 DEF Orders
<1>3. \A r \in S :
        /\ r \in RunIds /\ StillOwns(r) /\ run[r].action \in Actions /\ run[r].status = "running"
        /\ act[run[r].action].status = "running" /\ act[run[r].action].run = r
        /\ ~act[run[r].action].resv
  BY <1>2 DEF LostRuns, StillOwns, IInv, RunFence
<1>4. ASSUME NEW r \in RunIds
      PROVE  RunMoves(r)
  <2>1. CASE r \in S
    <3>1. PICK s \in {"interrupted", "cancelled", "superseded"} :
            run'[r] = [run[r] EXCEPT !.status = s]
      BY <1>1, <2>1 DEF RecoverInOrder
    <3>2. s \in RunStatus \ {"unused", "running"}
      BY DEF RunStatus
    <3>. QED
      BY <2>1, <1>3, <3>1, <3>2, RunEnds
  <2>2. CASE r \notin S
    BY <1>1, <2>2 DEF RecoverInOrder, RunMoves, StaysRun
  <2>. QED
    BY <2>1, <2>2
<1>5. act' = A
  BY <1>1 DEF RecoverInOrder
<1>6. ASSUME NEW a \in Actions
      PROVE  ActionMoves(a)
  <2>1. CASE \E r \in S : run[r].action = a /\ StillOwns(r)
    <3>. DEFINE s == IF Retryable(a) THEN "ready" ELSE "failed"
    <3>1. act'[a] = [act[a] EXCEPT !.status = s, !.run = NoRun]
      BY <1>5, <2>1 DEF RecoveredActions
    <3>2. s \in {"ready", "failed"} /\ (s = "ready" => Retryable(a))
      OBVIOUS
    <3>. HIDE DEF s
    <3>. QED
      BY <2>1, <1>3, <3>1, <3>2, ActionEnds
  <2>2. CASE ~ \E r \in S : run[r].action = a /\ StillOwns(r)
    BY <1>5, <2>2, OthersMove DEF RecoveredActions
  <2>. QED
    BY <2>1, <2>2
<1>7. ASSUME NEW w \in WorkItems
      PROVE  ItemMoves(w)
  <2>1. CASE ~ \E r \in S : Item(r) = w
    BY <1>1, <2>1 DEF RecoverInOrder, ItemMoves, StaysItem
  <2>2. CASE \E r \in S : Item(r) = w
    <3>1. PICK r \in S : Item(r) = w
      BY <2>2
    <3>. DEFINE a == run[r].action
                s == GraphStatus(A, w)
                t == Stored(item[w], s)
                recovered == [item[w] EXCEPT !.status = t]
                woken == [recovered EXCEPT !.mail = @ + 1,
                                           !.reconciled = @ \cup {item[w].ledger}]
    <3>2. a \in ActionsOf(w) /\ act[a].status = "running" /\ act[a] \in ActionRows
      BY <1>3, <3>1, Rows DEF Item, ActionsOf, IInv
    <3>3. A[a] = [act[a] EXCEPT !.status = IF Retryable(a) THEN "ready" ELSE "failed", !.run = NoRun]
      BY <1>3, <3>1, <3>2 DEF RecoveredActions
    <3>4. A[a].status \in Unfinished
      <4>. HIDE DEF A, a
      <4>. QED
        BY <3>2, <3>3 DEF ActionRows, Unfinished
    <3>5. s \in ItemStatus \ {"done", "cancelled"}
      <4>. HIDE DEF A, a
      <4>. QED
        BY <3>2, <3>4, GraphGoesOn
    <3>6. item[w] \in ItemRows /\ item[w].status # "done"
      BY <3>2, OpenItem, Rows DEF ActionsOf, Unfinished, IInv
    <3>7. t \in ItemStatus
      BY <3>5, <3>6, StoredType
    <3>8. item'[w] = recovered \/ item'[w] = woken
      BY <1>1, <2>2 DEF RecoverInOrder
    <3>. HIDE DEF t
    <3>9. recovered.status = t /\ recovered.stopped = item[w].stopped /\ recovered \in ItemRows
      BY <3>6, <3>7 DEF ItemRows
    <3>. HIDE DEF recovered
    <3>10. woken.status = t /\ woken.stopped = item[w].stopped
      BY <3>9 DEF ItemRows
    <3>11. item'[w].status = t /\ item'[w].stopped = item[w].stopped
      BY <3>8, <3>9, <3>10
    <3>. HIDE DEF s, woken
    <3>. QED
      BY <3>5, <3>6, <3>11, GoesOnStored DEF t
  <2>. QED
    BY <2>1, <2>2
<1>. QED
  BY <1>4, <1>6, <1>7 DEF Tables

LEMMA InvalidateMoves ==
    ASSUME IInv, NEW w, NEW s \in {"superseded", "cancelled"}, ~Reserved(w),
           NEW a \in Actions, act'[a] = InvalidatedActions(w, s)[a]
    PROVE  ActionMoves(a) /\ (ItemOf[a] = w => act'[a].status \notin Unfinished)
<1>1. CASE ItemOf[a] = w /\ act[a].status \in Unfinished
  <2>1. act'[a] = [act[a] EXCEPT !.status = s, !.epoch = @ + 1, !.run = NoRun]
    BY <1>1 DEF InvalidatedActions
  <2>2. ~act[a].resv
    BY <1>1 DEF Reserved, ActionsOf
  <2>3. PICK e : e = act[a].epoch + 1
    OBVIOUS
  <2>4. act'[a] = [act[a] EXCEPT !.status = s, !.epoch = e, !.run = NoRun]
    BY <2>1, <2>3
  <2>. QED
    BY <1>1, <2>2, <2>4, ActionCloses
<1>2. CASE ~(ItemOf[a] = w /\ act[a].status \in Unfinished)
  <2>1. act'[a] = act[a]
    BY <1>2 DEF InvalidatedActions
  <2>. QED
    BY <1>2, <2>1, OthersMove
<1>. QED
  BY <1>1, <1>2

LEMMA InvalidateAllMoves ==
    ASSUME IInv, NEW w, NEW s \in {"superseded", "cancelled"}, ~Reserved(w),
           act' = InvalidatedActions(w, s)
    PROVE  (\A a \in Actions : ActionMoves(a)) /\ Quiet(act', w)
BY InvalidateMoves DEF Quiet, ActionsOf

LEMMA InvalidatedRunsMove ==
    ASSUME IInv, NEW w, NEW s \in {"superseded", "cancelled"}, run' = InvalidatedRuns(w, s)
    PROVE  \A r \in RunIds : RunMoves(r)
<1>. SUFFICES ASSUME NEW r \in RunIds
              PROVE  RunMoves(r)
  OBVIOUS
<1>1. s \in RunStatus \ {"unused", "running"}
  BY DEF RunStatus
<1>2. \/ run'[r] = run[r]
      \/ run[r].status = "running" /\ run'[r] = [run[r] EXCEPT !.status = s]
  BY DEF InvalidatedRuns
<1>. QED
  BY <1>1, <1>2, RunEnds DEF RunMoves, StaysRun

LEMMA FallBackMoves ==
    ASSUME IInv, NEW r \in RunIds, life # "down", IsActiveRun(r), FallBack(r)
    PROVE  Tables
<1>. DEFINE a == run[r].action
<1>1. a \in Actions /\ run[r].status = "running" /\ act[a].status = "running"
  BY OwnedHere DEF IsActiveRun
<1>2. ASSUME NEW q \in RunIds
      PROVE  RunMoves(q)
  <2>1. CASE q = r
    <3>1. run[r] \in RunRows /\ run'[r] = [run[r] EXCEPT !.gen = @ + 1]
      BY Rows DEF FallBack, Rebound, IInv, TypeOK
    <3>2. Rebinds(r)
      BY <1>1, <3>1 DEF Rebinds, SameClaim, RunRows
    <3>. QED
      BY <2>1, <3>2 DEF RunMoves
  <2>2. CASE q # r
    BY <2>2 DEF FallBack, Rebound, IInv, TypeOK, RunMoves, StaysRun
  <2>. QED
    BY <2>1, <2>2
<1>3. ASSUME NEW b \in Actions
      PROVE  ActionMoves(b)
  <2>1. \/ act'[b] = act[b]
        \/ /\ act[b].status \in {"ready", "running"}
           /\ act'[b] = [act[b] EXCEPT !.mode = "shared", !.gen = @ + 1, !.result = NoRun,
                                       !.resv = FALSE]
    BY <1>1 DEF FallBack
  <2>2. act[b] \in ActionRows
    BY Rows DEF IInv
  <2>3. CASE act'[b] = act[b]
    BY <2>3, OthersMove
  <2>4. CASE /\ act[b].status \in {"ready", "running"}
             /\ act'[b] = [act[b] EXCEPT !.mode = "shared", !.gen = @ + 1, !.result = NoRun,
                                         !.resv = FALSE]
    <3>1. FallsBack(b)
      BY <2>2, <2>4 DEF FallsBack, ActionRows
    <3>. QED
      BY <3>1 DEF ActionMoves
  <2>. QED
    BY <2>1, <2>3, <2>4
<1>4. \A w \in WorkItems : ItemMoves(w)
  BY ItemsStay DEF FallBack
<1>. QED
  BY <1>2, <1>3, <1>4 DEF Tables

\* ResourceControl.stop.
LEMMA StopItemMoves ==
    ASSUME IInv, NEW w \in WorkItems, NEW a \in Actions \cup {NoAction}, StopItem(w, a)
    PROVE  \A v \in WorkItems : ItemMoves(v)
<1>1. \A v \in WorkItems \ {w} : item'[v] = item[v]
  BY DEF StopItem, IInv, TypeOK
<1>2. item[w] \in ItemRows
  BY Rows DEF IInv
<1>3. PICK s : /\ s = IF item[w].status = "cancelled" THEN "cancelled" ELSE "needs_attention"
               /\ item'[w] = [item[w] EXCEPT !.stopped = TRUE, !.exhausted = a, !.status = s]
  BY DEF StopItem, IInv, TypeOK
<1>4. item'[w].status = s /\ item'[w].stopped = TRUE /\ item'[w].rev = item[w].rev
  BY <1>2, <1>3 DEF ItemRows
<1>. QED
  BY <1>1, <1>3, <1>4 DEF ItemMoves, StaysItem, GoesOn

\* The row of one WorkItem is replaced by i.
LEMMA OneItemMoves ==
    ASSUME IInv, NEW w \in WorkItems, NEW i, item' = [item EXCEPT ![w] = i],
           ItemMoves(w)
    PROVE  \A v \in WorkItems : ItemMoves(v)
BY DEF IInv, TypeOK, ItemMoves, StaysItem

LEMMA ProcessStays ==
    ASSUME IInv, UNCHANGED <<boot, life>>, life = "down" => UNCHANGED <<tick, halting, exec>>
    PROVE  ProcessMoves
BY DEF IInv, HInv, ProcessMoves, DownIsQuiet

\* Nothing of the process runs when it is down.
LEMMA UpAndRunning ==
    ASSUME IInv
    PROVE  /\ tick # "idle" => life # "down"
           /\ halting # "none" => life # "down"
           /\ \A r \in RunIds : exec[r] # "none" => life # "down"
BY DEF IInv, HInv, DownIsQuiet

-----------------------------------------------------------------------------
(* Every step makes these moves *)

LEMMA ClaimMoves ==
    ASSUME IInv, NEW a \in Actions, Claim(a)
    PROVE  Tables
<1>. DEFINE w == ItemOf[a]
<1>1. IsNextRun(NextRun) /\ NextRun \in RunIds
  BY DEF Claim, HasRun, NextRun
<1>2. act[a].status = "ready" /\ item[w].status \in LiveStatus /\ ~item[w].stopped /\ w \in WorkItems
  BY ItemOfType DEF Claim, Candidate
<1>3. /\ \A r \in RunIds \ {NextRun} : run'[r] = run[r]
      /\ run'[NextRun].status = "running" /\ run'[NextRun].action = a
      /\ run'[NextRun].gen = act[a].gen /\ run'[NextRun].owner = boot
  BY <1>1 DEF Claim, IInv, TypeOK
<1>4. \A r \in RunIds : RunMoves(r)
  BY <1>1, <1>2, <1>3 DEF RunMoves, StaysRun, IsClaimed, Claim
<1>5. \A b \in Actions \ {a} : act'[b] = act[b]
  BY DEF Claim, IInv, TypeOK
<1>6. Claims(a)
  <2>1. act[a] \in ActionRows
    BY Rows DEF IInv
  <2>2. act'[a] = [act[a] EXCEPT !.status = "running", !.attempt = @ + 1, !.epoch = @ + 1,
                                 !.run = NextRun]
    BY DEF Claim, IInv, TypeOK
  <2>. QED
    BY <1>2, <2>1, <2>2 DEF Claims, ActionRows
<1>7. \A b \in Actions : ActionMoves(b)
  BY <1>5, <1>6, OthersMove DEF ActionMoves
<1>8. \A v \in WorkItems : ItemMoves(v)
  <2>. DEFINE t == Stored(item[w], "running")
  <2>1. item' = [item EXCEPT ![w] = [item[w] EXCEPT !.status = t]]
    BY DEF Claim, IInv, TypeOK
  <2>2. item[w] \in ItemRows
    BY <1>2, Rows DEF IInv
  <2>. HIDE DEF t, w
  <2>3. item'[w].status = t /\ item'[w].stopped = item[w].stopped
    BY <1>2, <2>1, <2>2 DEF IInv, TypeOK, ItemRows
  <2>4. "running" \in ItemStatus \ {"done", "cancelled"}
    BY DEF ItemStatus
  <2>5. ItemMoves(w)
    BY <1>2, <2>3, <2>4, GoesOnStored DEF t, LiveStatus
  <2>. QED
    BY <1>2, <2>1, <2>5, OneItemMoves
<1>. QED
  BY <1>4, <1>7, <1>8 DEF Tables

LEMMA DeferredMoves ==
    ASSUME IInv, NEW r \in RunIds, PrepareDeferred(r)
    PROVE  Tables
<1>. DEFINE a == run[r].action
            w == ItemOf[a]
            n == IF act[a].attempt > 0 THEN act[a].attempt - 1 ELSE 0
            A == [act EXCEPT ![a].status = "ready", ![a].run = NoRun, ![a].attempt = n]
            s == GraphStatus(A, w)
            t == Stored(item[w], s)
<1>1. /\ a \in Actions /\ run[r].status = "running" /\ act[a].status = "running"
      /\ act[a].run = r /\ ~act[a].resv /\ w \in WorkItems /\ item[w].status \in LiveStatus
  BY OwnedHere DEF PrepareDeferred, IsActiveRun
<1>2. /\ run' = [run EXCEPT ![r].status = "interrupted", ![r].deferred = TRUE]
      /\ act' = A /\ item' = [item EXCEPT ![w].status = t]
  BY DEF PrepareDeferred
<1>3. run'[r].status = "interrupted" /\ run'[r].deferred = TRUE /\ SameClaim(r)
      /\ run'[r].gen = run[r].gen
  <2>1. run'[r] = [run[r] EXCEPT !.status = "interrupted", !.deferred = TRUE] /\ run[r] \in RunRows
    BY <1>2, Rows DEF IInv, TypeOK
  <2>. QED
    BY <2>1 DEF RunRows, SameClaim
<1>4. \A q \in RunIds : RunMoves(q)
  <2>1. \A q \in RunIds \ {r} : run'[q] = run[q]
    BY <1>2 DEF IInv, TypeOK
  <2>. QED
    BY <1>1, <1>3, <2>1 DEF RunMoves, StaysRun, IsEnded
<1>5. \A b \in Actions \ {a} : act'[b] = act[b]
  BY <1>1, <1>2 DEF IInv, TypeOK
<1>6. act'[a] = [act[a] EXCEPT !.status = "ready", !.run = NoRun, !.attempt = n]
  <2>. HIDE DEF n, a
  <2>. QED
    BY <1>1, <1>2 DEF IInv, TypeOK
<1>7. n \in Nat /\ n < MaxAttempts /\ n <= MaxAttempts
  <2>1. act[a].attempt \in Nat /\ act[a].attempt <= MaxAttempts
    BY <1>1, RowTypes DEF IInv, HInv, AttemptsBounded
  <2>2. MaxAttempts \in Nat /\ MaxAttempts > 0
    BY ConstantsAssumption DEF ConstantsAssumption
  <2>. QED
    BY <2>1, <2>2
<1>8. Ends(a)
  <2>1. act[a] \in ActionRows
    BY <1>1, Rows DEF IInv
  <2>. HIDE DEF n, a
  <2>. QED
    BY <1>1, <1>3, <1>6, <1>7, <2>1 DEF Ends, ActionRows
<1>9. \A b \in Actions : ActionMoves(b)
  BY <1>5, <1>8, OthersMove DEF ActionMoves
<1>10. \A v \in WorkItems : ItemMoves(v)
  <2>1. item[w] \in ItemRows
    BY <1>1, Rows DEF IInv
  <2>2. s \in ItemStatus \ {"done", "cancelled"}
    <3>1. A[a].status = "ready"
      <4>1. act[a] \in ActionRows
        BY <1>1, Rows DEF IInv
      <4>. HIDE DEF n, a, A
      <4>. QED
        BY <1>2, <1>6, <4>1 DEF ActionRows
    <3>. HIDE DEF A
    <3>. QED
      BY <1>1, <3>1, GraphGoesOn DEF ActionsOf, Unfinished
  <2>. HIDE DEF s, t, w
  <2>3. item' = [item EXCEPT ![w] = [item[w] EXCEPT !.status = t]]
    BY <1>2 DEF IInv, TypeOK
  <2>4. item'[w].status = t /\ item'[w].stopped = item[w].stopped
    BY <1>1, <2>1, <2>3 DEF IInv, TypeOK, ItemRows
  <2>5. ItemMoves(w)
    BY <1>1, <2>2, <2>4, GoesOnStored DEF t, LiveStatus
  <2>. QED
    BY <1>1, <2>3, <2>5, OneItemMoves
<1>. QED
  BY <1>4, <1>9, <1>10 DEF Tables

\* Steps that leave the lifecycle alone while the process is up.
LEMMA ProcessIsUp ==
    ASSUME IInv, UNCHANGED <<boot, watch>>, life # "down"
    PROVE  ProcessMoves
BY DEF watch, IInv, HInv, ProcessMoves, DownIsQuiet

LEMMA WatcherMoves ==
    ASSUME IInv, WatcherStep
    PROVE  Tables /\ ProcessMoves
<1>1. life # "down"
  BY UpAndRunning DEF WatcherStep, TickStart, TickEnd, Claim, ClaimStops, InClaimLoop, Prepare,
     Preparing, StartClaim, PrepareDeferred, PrepareStopped, PrepareFails
<1>2. UNCHANGED <<boot, watch>>
  BY DEF WatcherStep, TickStart, TickEnd, Claim, ClaimStops, Prepare, StartClaim,
     PrepareDeferred, PrepareStopped, PrepareFails
<1>3. ProcessMoves
  BY <1>1, <1>2, ProcessIsUp
<1>4. CASE TickStart
  BY <1>3, <1>4, RecoverMoves DEF TickStart, RecoverExpiredRuns
<1>5. CASE TickEnd
  BY <1>3, <1>5, TablesStay DEF TickEnd, db
<1>6. ASSUME NEW a \in Actions, Claim(a)
      PROVE  Tables
  BY <1>6, ClaimMoves
<1>7. ASSUME NEW a \in Actions, ClaimStops(a)
      PROVE  Tables
  BY <1>7, StopItemMoves, ItemOfType, ActionsStay, RunsStay DEF ClaimStops, Tables
<1>8. ASSUME NEW r \in RunIds, Prepare(r)
      PROVE  Tables
  <2>1. (UNCHANGED db) \/ (IsActiveRun(r) /\ FallBack(r))
    BY <1>8 DEF Prepare
  <2>. QED
    BY <1>1, <2>1, TablesStay, FallBackMoves DEF db
<1>9. ASSUME NEW r \in RunIds, StartClaim(r)
      PROVE  Tables
  BY <1>9, TablesStay DEF StartClaim, db
<1>10. ASSUME NEW r \in RunIds, PrepareDeferred(r)
       PROVE  Tables
  BY <1>10, DeferredMoves
<1>11. ASSUME NEW r \in RunIds, PrepareStopped(r)
       PROVE  Tables
  <2>1. CASE CanInterrupt(r)
    <3>1. {r} \in SUBSET RunIds /\ (\A q \in {r} : CanInterrupt(q)) /\ Interrupt({r})
      BY <1>11, <2>1 DEF PrepareStopped
    <3>. QED
      BY <3>1, InterruptMoves
  <2>2. CASE ~CanInterrupt(r)
    BY <1>11, <2>2, TablesStay DEF PrepareStopped, db
  <2>. QED
    BY <2>1, <2>2
<1>12. ASSUME NEW r \in RunIds, NEW o \in {"failed", "retryable"}, PrepareFails(r, o)
       PROVE  Tables
  <2>1. o \in Outcomes
    BY DEF Outcomes
  <2>. QED
    BY <1>1, <1>12, <2>1, TablesStay, FinalizeMoves DEF PrepareFails, db
<1>. QED
  BY <1>3, <1>4, <1>5, <1>6, <1>7, <1>8, <1>9, <1>10, <1>11, <1>12 DEF WatcherStep

LEMMA ExecutorMoves ==
    ASSUME IInv, ExecutorStep
    PROVE  Tables /\ ProcessMoves
<1>1. life # "down"
  BY UpAndRunning DEF ExecutorStep, Submit, ExecutorEnds, RenewalFails, ActiveRuns
<1>2. UNCHANGED <<boot, watch>>
  BY DEF ExecutorStep, Submit, ExecutorEnds, RenewalFails
<1>3. ProcessMoves
  BY <1>1, <1>2, ProcessIsUp
<1>4. ASSUME NEW r \in RunIds, NEW o \in Outcomes, Submit(r, o)
      PROVE  Tables
  BY <1>1, <1>4, TablesStay, FinalizeMoves DEF Submit, db
<1>5. ASSUME NEW r \in RunIds, ExecutorEnds(r)
      PROVE  Tables
  BY <1>5, TablesStay DEF ExecutorEnds, db
<1>6. ASSUME NEW r \in RunIds, RenewalFails(r)
      PROVE  Tables
  BY <1>6, RecoverMoves DEF RenewalFails, RecoverExpiredRuns
<1>. QED
  BY <1>3, <1>4, <1>5, <1>6 DEF ExecutorStep

LEMMA LifecycleMoves ==
    ASSUME IInv, LifecycleStep
    PROVE  Tables /\ ProcessMoves
<1>1. CASE Stop
  <2>1. ProcessMoves
    BY <1>1 DEF Stop, ProcessMoves, DownIsQuiet
  <2>. QED
    BY <1>1, <2>1, TablesStay DEF Stop, db
<1>2. CASE StopCapture
  <2>1. ProcessMoves
    BY <1>2, UpAndRunning DEF StopCapture, ProcessMoves, DownIsQuiet
  <2>. QED
    BY <1>2, <2>1, TablesStay DEF StopCapture, db
<1>3. CASE StopFinish
  <2>1. ProcessMoves
    BY <1>3, UpAndRunning DEF StopFinish, ProcessMoves, DownIsQuiet
  <2>2. InterruptedByStop \in SUBSET RunIds /\ \A r \in InterruptedByStop : CanInterrupt(r)
    BY DEF InterruptedByStop, IInv, TypeOK
  <2>. QED
    BY <1>3, <2>1, <2>2, InterruptMoves DEF StopFinish
<1>4. CASE StartWatcher
  <2>1. ProcessMoves
    BY <1>4 DEF StartWatcher, ProcessMoves, DownIsQuiet
  <2>. QED
    BY <1>4, <2>1, TablesStay DEF StartWatcher, db
<1>5. CASE Boot
  <2>1. ProcessMoves
    BY <1>5 DEF Boot, ProcessMoves, DownIsQuiet
  <2>. QED
    BY <1>5, <2>1, RecoverMoves DEF Boot
<1>. QED
  BY <1>1, <1>2, <1>3, <1>4, <1>5 DEF LifecycleStep

LEMMA FailureMoves ==
    ASSUME IInv, FailureStep
    PROVE  Tables /\ ProcessMoves
<1>1. CASE Crash
  <2>1. ProcessMoves
    BY <1>1 DEF Crash, Halt, ProcessMoves, DownIsQuiet
  <2>. QED
    BY <1>1, <2>1, TablesStay DEF Crash, db
<1>2. ASSUME NEW r \in RunIds, CrashInIntegration(r)
      PROVE  Tables /\ ProcessMoves
  <2>. DEFINE a == run[r].action
  <2>1. ProcessMoves
    BY <1>2 DEF CrashInIntegration, Halt, ProcessMoves, DownIsQuiet
  <2>2. life # "down"
    BY <1>2, UpAndRunning DEF CrashInIntegration, Preparing
  <2>3. /\ a \in Actions /\ run[r].status = "running" /\ act[a].status = "running"
        /\ act[a].run = r /\ run[r].owner = boot
    BY <1>2, <2>2, OwnedHere DEF CrashInIntegration, IsActiveRun
  <2>4. act[a] \in ActionRows /\ run[r] \in RunRows
    BY <2>3, Rows DEF IInv
  <2>5. /\ act'[a] = [act[a] EXCEPT !.resv = TRUE]
        /\ \A b \in Actions \ {a} : act'[b] = act[b]
        /\ run'[r] = [run[r] EXCEPT !.fresh = TRUE]
        /\ \A q \in RunIds \ {r} : run'[q] = run[q]
    BY <1>2, <2>3 DEF CrashInIntegration, IInv, TypeOK
  <2>6. Reserves(a)
    <3>1. boot' = boot /\ life' = "down"
      BY <1>2 DEF CrashInIntegration, Halt
    <3>. HIDE DEF a
    <3>. QED
      BY <2>3, <2>4, <2>5, <3>1 DEF Reserves, SameRecord, ActionRows
  <2>7. \A b \in Actions : ActionMoves(b)
    BY <2>5, <2>6, OthersMove DEF ActionMoves
  <2>8. \A q \in RunIds : RunMoves(q)
    BY <2>3, <2>4, <2>5 DEF RunMoves, StaysRun, SameClaim, RunRows
  <2>. QED
    BY <1>2, <2>1, <2>7, <2>8, ItemsStay DEF CrashInIntegration, Tables
<1>3. ASSUME NEW r \in RunIds, LeaseExpires(r)
      PROVE  Tables /\ ProcessMoves
  <2>1. ProcessMoves
    BY <1>3, ProcessStays DEF LeaseExpires, watch
  <2>2. /\ run[r] \in RunRows /\ run'[r] = [run[r] EXCEPT !.fresh = FALSE]
        /\ \A q \in RunIds \ {r} : run'[q] = run[q]
    BY <1>3, Rows DEF LeaseExpires, IInv, TypeOK
  <2>3. \A q \in RunIds : RunMoves(q)
    BY <1>3, <2>2 DEF LeaseExpires, RunMoves, StaysRun, SameClaim, RunRows
  <2>. QED
    BY <1>3, <2>1, <2>3, ItemsStay, ActionsStay DEF LeaseExpires, Tables
<1>4. ASSUME NEW a \in Actions, ReservationExpires(a)
      PROVE  Tables /\ ProcessMoves
  <2>1. ProcessMoves
    BY <1>4, ProcessStays DEF ReservationExpires, watch
  <2>2. /\ act[a] \in ActionRows /\ act'[a] = [act[a] EXCEPT !.resv = FALSE]
        /\ \A b \in Actions \ {a} : act'[b] = act[b]
    BY <1>4, Rows DEF ReservationExpires, IInv, TypeOK
  <2>3. StaysAction(a)
    BY <2>2 DEF StaysAction, SameRecord, ActionRows
  <2>4. \A b \in Actions : ActionMoves(b)
    BY <2>2, <2>3, OthersMove DEF ActionMoves
  <2>5. PICK r \in RunIds : act[a].run = r /\ run[r].status = "running"
    BY <1>4 DEF ReservationExpires, IInv, HInv, ReservationIsLeft, RunFence
  <2>6. run' = [run EXCEPT ![r].fresh = FALSE]
    BY <1>4, <2>5 DEF ReservationExpires, NoRun, RunIds
  <2>7. /\ run[r] \in RunRows /\ run'[r] = [run[r] EXCEPT !.fresh = FALSE]
        /\ \A q \in RunIds \ {r} : run'[q] = run[q]
    BY <2>6, Rows DEF IInv, TypeOK
  <2>8. \A q \in RunIds : RunMoves(q)
    BY <2>5, <2>7 DEF RunMoves, StaysRun, SameClaim, RunRows
  <2>. QED
    BY <1>4, <2>1, <2>4, <2>8, ItemsStay DEF ReservationExpires, Tables
<1>. QED
  BY <1>1, <1>2, <1>3, <1>4 DEF FailureStep

LEMMA CommandIsUp ==
    ASSUME IInv, UserStep \/ CoordinatorStep
    PROVE  ProcessMoves
<1>. DEFINE up == life # "down" /\ UNCHANGED <<boot, watch>>
<1>1. ASSUME NEW w \in WorkItems,
             \/ StartItem(w) \/ UpdateItem(w) \/ CancelItem(w) \/ ResumeItem(w)
             \/ ExtendAttempts(w) \/ StopExecution(w) \/ SettleExceeds(w)
      PROVE  up
  <2>1. ResumeItem(w) => up
    BY DEF ResumeItem, Command
  <2>2. StartItem(w) \/ UpdateItem(w) \/ CancelItem(w) => up
    BY DEF StartItem, UpdateItem, CancelItem, Command
  <2>3. ExtendAttempts(w) \/ StopExecution(w) \/ SettleExceeds(w) => up
    BY DEF ExtendAttempts, StopExecution, SettleExceeds, Command
  <2>. QED
    BY <1>1, <2>1, <2>2, <2>3
<1>2. ASSUME NEW a \in Actions, RetryAction(a) \/ GuideAction(a)
      PROVE  up
  BY <1>2 DEF RetryAction, GuideAction, Command
<1>3. ASSUME NEW w \in WorkItems, NEW auto, NEW refine,
             CreateActions(w, auto, refine) \/ RequestHuman(w, auto, refine)
      PROVE  up
  BY <1>3 DEF CreateActions, RequestHuman, Turn
<1>4. ASSUME NEW w \in WorkItems, NEW auto,
             GuideActions(w, auto) \/ Complete(w, auto) \/ Answer(w)
      PROVE  up
  BY <1>4 DEF GuideActions, Complete, Answer, Turn
<1>. HIDE DEF up
<1>5. up
  BY <1>1, <1>2, <1>3, <1>4 DEF UserStep, CoordinatorStep
<1>. QED
  BY <1>5, ProcessIsUp DEF up

\* The status a row gets from Become, with or without a wake.
LEMMA BecomeFields ==
    ASSUME IInv, NEW w \in WorkItems, NEW s \in ItemStatus
    PROVE  /\ Become(item[w], s).status = Stored(item[w], s)
           /\ Become(item[w], s).stopped = item[w].stopped
           /\ Become(item[w], s).rev = item[w].rev
           /\ Become(item[w], s) \in ItemRows
           /\ Wake(Become(item[w], s)).status = Stored(item[w], s)
           /\ Wake(Become(item[w], s)).stopped = item[w].stopped
           /\ Wake(Become(item[w], s)) \in ItemRows
<1>1. PICK t \in ItemStatus : t = Stored(item[w], s)
  BY StoredType, Rows DEF IInv
<1>2. item[w] \in ItemRows /\ Become(item[w], s) = [item[w] EXCEPT !.status = t]
  BY <1>1, Rows DEF IInv, Become
<1>3. /\ Become(item[w], s).status = t /\ Become(item[w], s).stopped = item[w].stopped
      /\ Become(item[w], s).rev = item[w].rev
  BY <1>2 DEF ItemRows
<1>4. Become(item[w], s) \in ItemRows
  BY <1>2, <1>1 DEF ItemRows
<1>5. PICK i \in ItemRows : i = Become(item[w], s)
  BY <1>4
<1>6. Wake(i).status = i.status /\ Wake(i).stopped = i.stopped /\ Wake(i) \in ItemRows
  BY WakeType DEF Wake, ItemRows
<1>. QED
  BY <1>1, <1>3, <1>4, <1>5, <1>6

LEMMA CommandMoves ==
    ASSUME IInv, NEW w \in WorkItems,
           StartItem(w) \/ UpdateItem(w) \/ CancelItem(w) \/ ExtendAttempts(w)
    PROVE  Tables
<1>0. item[w] \in ItemRows /\ "running" \in ItemStatus \ {"done", "cancelled"}
  BY Rows DEF IInv, ItemStatus
<1>1. CASE StartItem(w)
  <2>1. item' = [item EXCEPT ![w] = Wake(Become(item[w], "running"))]
    BY <1>1 DEF StartItem
  <2>2. item'[w].status = Stored(item[w], "running") /\ item'[w].stopped = item[w].stopped
    BY <1>0, <2>1, BecomeFields DEF IInv, TypeOK
  <2>3. ItemMoves(w)
    BY <1>0, <1>1, <2>2, GoesOnStored DEF StartItem
  <2>. QED
    BY <1>1, <2>1, <2>3, OneItemMoves, ActionsStay, RunsStay DEF StartItem, Tables
<1>2. CASE UpdateItem(w)
  <2>. DEFINE i == [Wake(Become(item[w], "running")) EXCEPT !.rev = @ + 1]
  <2>1. item' = [item EXCEPT ![w] = i] /\ item[w].status # "done" /\ ~Reserved(w)
    BY <1>2 DEF UpdateItem
  <2>2. i.status = Stored(item[w], "running") /\ i.stopped = item[w].stopped
    <3>1. PICK j \in ItemRows : j = Wake(Become(item[w], "running"))
      BY <1>0, BecomeFields
    <3>2. i.status = j.status /\ i.stopped = j.stopped
      BY <3>1 DEF ItemRows
    <3>. QED
      BY <1>0, <3>1, <3>2, BecomeFields
  <2>. HIDE DEF i
  <2>3. item'[w].status = Stored(item[w], "running") /\ item'[w].stopped = item[w].stopped
    BY <2>1, <2>2 DEF IInv, TypeOK
  <2>4. ItemMoves(w)
    BY <1>0, <2>1, <2>3, GoesOnStored
  <2>. QED
    BY <1>2, <2>1, <2>4, OneItemMoves, InvalidateAllMoves, InvalidatedRunsMove DEF UpdateItem, Tables
<1>3. CASE CancelItem(w)
  <2>1. /\ item' = [item EXCEPT ![w] = [item[w] EXCEPT !.status = "cancelled"]]
        /\ item[w].status # "done" /\ ~Reserved(w)
    BY <1>3 DEF CancelItem, IInv, TypeOK
  <2>2. item'[w].status = "cancelled"
    BY <1>0, <2>1 DEF IInv, TypeOK, ItemRows
  <2>3. (\A a \in Actions : ActionMoves(a)) /\ Quiet(act', w)
    BY <1>3, <2>1, InvalidateAllMoves DEF CancelItem
  <2>4. ItemMoves(w)
    BY <2>1, <2>2, <2>3 DEF ItemMoves, Cancels
  <2>. QED
    BY <1>3, <2>1, <2>3, <2>4, OneItemMoves, InvalidatedRunsMove DEF CancelItem, Tables
<1>4. CASE ExtendAttempts(w)
  <2>1. item' = [item EXCEPT ![w] = [item[w] EXCEPT !.ext = @ + 1]]
    BY <1>4 DEF ExtendAttempts, IInv, TypeOK
  <2>2. ItemMoves(w)
    BY <1>0, <2>1 DEF IInv, TypeOK, ItemRows, ItemMoves, StaysItem
  <2>. QED
    BY <1>4, <2>1, <2>2, OneItemMoves, ActionsStay, RunsStay DEF ExtendAttempts, Tables
<1>. QED
  BY <1>1, <1>2, <1>3, <1>4

LEMMA ResumeMoves ==
    ASSUME IInv, NEW w \in WorkItems, ResumeItem(w)
    PROVE  Tables
<1>0. item[w] \in ItemRows
  BY Rows DEF IInv
<1>1. /\ item[w].status = "cancelled" \/ item[w].stopped
      /\ item[w].stopped => ~Reserved(w)
  BY DEF ResumeItem
<1>2. item[w].status # "done"
  BY <1>1 DEF IInv, HInv, StoppedIsShown
<1>3. \A v \in WorkItems : ItemMoves(v)
  <2>1. PICK retired \in {0, 1} :
          item' = [item EXCEPT ![w] =
            [item[w] EXCEPT !.stopped = FALSE, !.exhausted = NoAction, !.status = "running",
                            !.mail = @ - retired + 1]]
    BY DEF ResumeItem
  <2>2. item'[w].status = "running"
    BY <1>0, <2>1 DEF IInv, TypeOK, ItemRows
  <2>3. item'[w].stopped = FALSE
    BY <1>0, <2>1 DEF IInv, TypeOK, ItemRows
  <2>4. ItemMoves(w)
    BY <1>2, <2>2, <2>3 DEF ItemMoves, GoesOn
  <2>. QED
    BY <2>1, <2>4, OneItemMoves
<1>4. ASSUME NEW a \in Actions
      PROVE  ActionMoves(a)
  <2>1. CASE ItemOf[a] = w /\ act[a].status = "cancelled"
    <3>1. act'[a] = [act[a] EXCEPT !.status = "superseded", !.epoch = @ + 1, !.run = NoRun]
      BY <2>1 DEF ResumeItem
    <3>2. ~act[a].resv
      BY <2>1 DEF IInv, HInv, ReservationIsLeft
    <3>3. PICK e : e = act[a].epoch + 1
      OBVIOUS
    <3>4. act'[a] = [act[a] EXCEPT !.status = "superseded", !.epoch = e, !.run = NoRun]
      BY <3>1, <3>3
    <3>. QED
      BY <2>1, <3>2, <3>4, ActionCloses
  <2>2. CASE ItemOf[a] = w /\ item[w].stopped /\ act[a].status \in Unfinished
    <3>1. act'[a] = [act[a] EXCEPT !.status = "superseded", !.epoch = @ + 2, !.run = NoRun]
      BY <2>2 DEF ResumeItem, Unfinished
    <3>2. ~act[a].resv
      BY <1>1, <2>2 DEF Reserved, ActionsOf
    <3>3. PICK e : e = act[a].epoch + 2
      OBVIOUS
    <3>4. act'[a] = [act[a] EXCEPT !.status = "superseded", !.epoch = e, !.run = NoRun]
      BY <3>1, <3>3
    <3>. QED
      BY <2>2, <3>2, <3>4, ActionCloses
  <2>3. CASE /\ ~(ItemOf[a] = w /\ act[a].status = "cancelled")
             /\ ~(ItemOf[a] = w /\ item[w].stopped /\ act[a].status \in Unfinished)
    <3>1. act'[a] = act[a]
      BY <2>3 DEF ResumeItem
    <3>. QED
      BY <3>1, OthersMove
  <2>. QED
    BY <2>1, <2>2, <2>3
<1>5. \A r \in RunIds : RunMoves(r)
  <2>1. CASE item[w].stopped
    BY <2>1, InvalidatedRunsMove DEF ResumeItem
  <2>2. CASE ~item[w].stopped
    BY <2>2, RunsStay DEF ResumeItem
  <2>. QED
    BY <2>1, <2>2
<1>. QED
  BY <1>3, <1>4, <1>5 DEF Tables

LEMMA RestartedMoves ==
    ASSUME IInv, NEW a \in Actions, act[a].status \in Unfinished
    PROVE  /\ act'[a] = Restarted(act[a]) => ActionMoves(a)
           /\ \A e : act'[a] = [Restarted(act[a]) EXCEPT !.epoch = e] => ActionMoves(a)
           /\ \A v : act'[a] = [Restarted(act[a]) EXCEPT !.rev = v] => ActionMoves(a)
<1>1. act[a] \in ActionRows /\ Restarted(act[a]) \in ActionRows
  BY Rows, RestartedType DEF IInv
<1>2. /\ Restarted(act[a]).status = "ready" /\ Restarted(act[a]).attempt = 0
      /\ Restarted(act[a]).gen = act[a].gen + 1 /\ ~Restarted(act[a]).resv
  BY <1>1 DEF Restarted, ActionRows
<1>3. PICK row \in ActionRows : row = Restarted(act[a])
  BY <1>1
<1>4. ASSUME \/ act'[a] = row
             \/ \E e : act'[a] = [row EXCEPT !.epoch = e]
             \/ \E v : act'[a] = [row EXCEPT !.rev = v]
      PROVE  ActionMoves(a)
  <2>1. /\ act'[a].status = row.status /\ act'[a].attempt = row.attempt
        /\ act'[a].gen = row.gen /\ act'[a].resv = row.resv
    BY <1>4 DEF ActionRows
  <2>2. Restarts(a)
    BY <1>2, <1>3, <2>1 DEF Restarts
  <2>. QED
    BY <2>2 DEF ActionMoves
<1>. QED
  BY <1>3, <1>4

LEMMA RetryMoves ==
    ASSUME IInv, NEW a \in Actions, RetryAction(a)
    PROVE  Tables
<1>1. act'[a] = Restarted(act[a]) /\ \A b \in Actions \ {a} : act'[b] = act[b]
  BY DEF RetryAction, IInv, TypeOK
<1>2. act[a].status \in Unfinished
  BY DEF RetryAction, Unfinished
<1>3. \A b \in Actions : ActionMoves(b)
  BY <1>1, <1>2, RestartedMoves, OthersMove
<1>. QED
  BY <1>3, ItemsStay, RunsStay DEF RetryAction, Tables

LEMMA GuideMoves ==
    ASSUME IInv, NEW a \in Actions, GuideAction(a)
    PROVE  Tables
<1>. DEFINE w == ItemOf[a]
<1>1. PICK e : act'[a] = [Restarted(act[a]) EXCEPT !.epoch = e]
  BY DEF GuideAction, IInv, TypeOK
<1>2. \A b \in Actions \ {a} : act'[b] = act[b]
  BY DEF GuideAction, IInv, TypeOK
<1>3. act[a].status \in Unfinished
  BY DEF GuideAction, Unfinished
<1>4. \A b \in Actions : ActionMoves(b)
  BY <1>1, <1>2, <1>3, RestartedMoves, OthersMove
<1>5. \A r \in RunIds : RunMoves(r)
  <2>1. CASE act[a].status = "running"
    <3>1. PICK r \in RunIds : act[a].run = r /\ run[r].status = "running"
      BY <2>1 DEF IInv, RunFence
    <3>2. run' = [run EXCEPT ![r] = [run[r] EXCEPT !.status = "superseded"]]
      BY <2>1, <3>1 DEF GuideAction, IInv, TypeOK, NoRun, RunIds
    <3>3. /\ run'[r] = [run[r] EXCEPT !.status = "superseded"]
          /\ \A q \in RunIds \ {r} : run'[q] = run[q]
      BY <3>2 DEF IInv, TypeOK
    <3>4. "superseded" \in RunStatus \ {"unused", "running"}
      BY DEF RunStatus
    <3>. QED
      BY <3>1, <3>3, <3>4, RunEnds DEF RunMoves, StaysRun
  <2>2. CASE act[a].status # "running"
    BY <2>2, RunsStay DEF GuideAction
  <2>. QED
    BY <2>1, <2>2
<1>6. \A v \in WorkItems : ItemMoves(v)
  <2>1. w \in WorkItems /\ item[w].status # "done" /\ item' = [item EXCEPT ![w] = Become(item[w], "ready")]
    BY ItemOfType DEF GuideAction, LiveStatus
  <2>2. "ready" \in ItemStatus \ {"done", "cancelled"}
    BY DEF ItemStatus
  <2>. HIDE DEF w
  <2>3. item'[w].status = Stored(item[w], "ready") /\ item'[w].stopped = item[w].stopped
    BY <2>1, <2>2, BecomeFields DEF IInv, TypeOK
  <2>4. ItemMoves(w)
    BY <2>1, <2>2, <2>3, GoesOnStored
  <2>. QED
    BY <2>1, <2>4, OneItemMoves
<1>. QED
  BY <1>4, <1>5, <1>6 DEF Tables

LEMMA UserMoves ==
    ASSUME IInv, UserStep
    PROVE  Tables
<1>1. ASSUME NEW w \in WorkItems, StopExecution(w) \/ SettleExceeds(w)
      PROVE  Tables
  BY <1>1, StopItemMoves, ActionsStay, RunsStay DEF StopExecution, SettleExceeds, Tables
<1>. QED
  BY <1>1, CommandMoves, ResumeMoves, RetryMoves, GuideMoves DEF UserStep

-----------------------------------------------------------------------------
(* The Coordinator's decisions *)

LEMMA DecidedRow ==
    ASSUME IInv, NEW w \in WorkItems, NEW auto \in BOOLEAN, NEW refine \in BOOLEAN, NEW s \in ItemStatus,
           ~item[w].stopped, item' = Decided(w, auto, refine, s)
    PROVE  /\ \A v \in WorkItems \ {w} : item'[v] = item[v]
           /\ item'[w].status = s /\ item'[w].stopped = FALSE
           /\ ~refine => item'[w].rev = item[w].rev
<1>1. PICK b \in ItemRows : b = Become(item[w], s)
  BY BecomeFields
<1>2. b.status = s /\ b.stopped = FALSE /\ b.rev = item[w].rev
  <2>1. item[w].stopped = FALSE
    BY RowTypes DEF IInv
  <2>. QED
    BY <1>1, <2>1, BecomeFields DEF Stored
<1>3. PICK m, v : item' = [item EXCEPT ![w] = [b EXCEPT !.mail = m, !.rev = v]]
                  /\ (~refine => v = b.rev)
  BY <1>1 DEF Decided, ItemRows
<1>4. item'[w] = [b EXCEPT !.mail = m, !.rev = v] /\ \A u \in WorkItems \ {w} : item'[u] = item[u]
  BY <1>3 DEF IInv, TypeOK
<1>5. item'[w].status = b.status /\ item'[w].stopped = b.stopped /\ item'[w].rev = v
  BY <1>4 DEF ItemRows
<1>. QED
  BY <1>2, <1>3, <1>4, <1>5

LEMMA DecidedMoves ==
    ASSUME IInv, NEW w \in WorkItems, NEW auto \in BOOLEAN, NEW refine \in BOOLEAN,
           NEW s \in {"ready", "waiting"}, Decision(w, auto), item' = Decided(w, auto, refine, s)
    PROVE  \A v \in WorkItems : ItemMoves(v)
<1>1. ~item[w].stopped /\ item[w].status # "done" /\ s \in ItemStatus
  BY DEF Decision, ItemStatus
<1>2. /\ \A v \in WorkItems \ {w} : item'[v] = item[v]
      /\ item'[w].status = s /\ item'[w].stopped = FALSE
  BY <1>1, DecidedRow
<1>. QED
  BY <1>1, <1>2 DEF ItemMoves, GoesOn, StaysItem

LEMMA CloseMoves ==
    ASSUME IInv, NEW a \in Actions, act[a].status \in Unfinished, ~Reserved(ItemOf[a]),
           NEW s \in {"closed", "superseded"},
           act'[a] = [act[a] EXCEPT !.status = s, !.epoch = @ + 1, !.run = NoRun]
    PROVE  ActionMoves(a) /\ act'[a].status \notin Unfinished
<1>1. ~act[a].resv
  BY DEF Reserved, ActionsOf
<1>2. PICK e : e = act[a].epoch + 1
  OBVIOUS
<1>3. act'[a] = [act[a] EXCEPT !.status = s, !.epoch = e, !.run = NoRun]
  BY <1>2
<1>. QED
  BY <1>1, <1>3, ActionCloses

LEMMA CreateMoves ==
    ASSUME IInv, NEW w \in WorkItems, NEW auto \in BOOLEAN, NEW refine \in BOOLEAN,
           CreateActions(w, auto, refine)
    PROVE  Tables
<1>1. Decision(w, auto) /\ ~Reserved(w) /\ item' = Decided(w, auto, refine, "ready")
  BY DEF CreateActions, Decision
<1>2. \A v \in WorkItems : ItemMoves(v)
  BY <1>1, DecidedMoves
<1>3. \A r \in RunIds : RunMoves(r)
  BY InvalidatedRunsMove, RunsStay DEF CreateActions
<1>4. item'[w].status \notin {"done", "cancelled"}
  <2>1. "ready" \in ItemStatus /\ ~item[w].stopped
    BY <1>1 DEF ItemStatus, Decision
  <2>2. item'[w].status = "ready"
    BY <1>1, <2>1, DecidedRow
  <2>. QED
    BY <2>2
<1>5. PICK N \in Creatable(w), C \in SUBSET Open(w), S \in SUBSET Open(w) :
        /\ C \cap S = {}
        /\ refine => C = {} /\ S = {}
        /\ LET kept == IF refine THEN InvalidatedActions(w, "superseded")
                       ELSE Closed(Closed(act, C, "closed"), S, "superseded")
               rev == IF refine THEN item[w].rev + 1 ELSE item[w].rev
           IN  act' = [a \in Actions |->
                         IF a \in N THEN [kept[a] EXCEPT !.status = "ready", !.rev = rev]
                         ELSE kept[a]]
  BY DEF CreateActions
<1>. DEFINE kept == IF refine THEN InvalidatedActions(w, "superseded")
                    ELSE Closed(Closed(act, C, "closed"), S, "superseded")
            rev == IF refine THEN item[w].rev + 1 ELSE item[w].rev
<1>6. act' = [a \in Actions |->
                IF a \in N THEN [kept[a] EXCEPT !.status = "ready", !.rev = rev] ELSE kept[a]]
  BY <1>5
<1>7. /\ \A a \in N : a \in Actions /\ ItemOf[a] = w /\ act[a].status = "absent"
      /\ \A a \in C \cup S : a \in Actions /\ ItemOf[a] = w /\ act[a].status \in Unfinished
  BY DEF Creatable, Open, ActionsOf
<1>8. ASSUME NEW a \in Actions
      PROVE  ActionMoves(a)
  <2>1. CASE a \in N
    <3>1. kept[a] = act[a]
      <4>1. CASE refine
        BY <4>1, <2>1, <1>7 DEF InvalidatedActions, Unfinished
      <4>2. CASE ~refine
        <5>1. a \notin C \cup S
          BY <2>1, <1>7 DEF Unfinished
        <5>. QED
          BY <4>2, <5>1 DEF Closed
      <4>. QED
        BY <4>1, <4>2
    <3>. HIDE DEF kept
    <3>2. PICK v : act'[a] = [act[a] EXCEPT !.status = "ready", !.rev = v]
      BY <1>6, <2>1, <3>1
    <3>3. act[a] \in ActionRows
      BY Rows DEF IInv
    <3>4. Creates(a)
      BY <1>4, <1>7, <2>1, <3>2, <3>3 DEF Creates, ActionRows
    <3>. QED
      BY <3>4 DEF ActionMoves
  <2>2. CASE a \notin N
    <3>1. act'[a] = kept[a]
      BY <1>6, <2>2
    <3>2. CASE refine
      <4>1. act'[a] = InvalidatedActions(w, "superseded")[a]
        BY <3>1, <3>2
      <4>. QED
        BY <1>1, <4>1, InvalidateMoves
    <3>3. CASE ~refine /\ a \in C
      <4>1. act'[a] = [act[a] EXCEPT !.status = "closed", !.epoch = @ + 1, !.run = NoRun]
        BY <1>5, <3>1, <3>3 DEF Closed
      <4>. QED
        BY <1>1, <1>7, <3>3, <4>1, CloseMoves
    <3>4. CASE ~refine /\ a \in S
      <4>1. act'[a] = [act[a] EXCEPT !.status = "superseded", !.epoch = @ + 1, !.run = NoRun]
        BY <1>5, <3>1, <3>4 DEF Closed
      <4>. QED
        BY <1>1, <1>7, <3>4, <4>1, CloseMoves
    <3>5. CASE ~refine /\ a \notin C \cup S
      <4>1. act'[a] = act[a]
        BY <3>1, <3>5 DEF Closed
      <4>. QED
        BY <4>1, OthersMove
    <3>. QED
      BY <3>2, <3>3, <3>4, <3>5
  <2>. QED
    BY <2>1, <2>2
<1>. QED
  BY <1>2, <1>3, <1>8 DEF Tables

LEMMA GuideActionsMoves ==
    ASSUME IInv, NEW w \in WorkItems, NEW auto \in BOOLEAN, GuideActions(w, auto)
    PROVE  Tables
<1>1. \A v \in WorkItems : ItemMoves(v)
  BY DecidedMoves DEF GuideActions
<1>2. ASSUME NEW a \in Actions
      PROVE  ActionMoves(a)
  <2>1. \/ act'[a] = act[a]
        \/ act[a].status \in Unfinished /\ \E v : act'[a] = [Restarted(act[a]) EXCEPT !.rev = v]
    BY DEF GuideActions, Open
  <2>. QED
    BY <2>1, RestartedMoves, OthersMove
<1>. QED
  BY <1>1, <1>2, RunsStay DEF GuideActions, Tables

LEMMA RequestMoves ==
    ASSUME IInv, NEW w \in WorkItems, NEW auto \in BOOLEAN, NEW refine \in BOOLEAN,
           RequestHuman(w, auto, refine)
    PROVE  Tables
<1>1. Decision(w, auto) /\ ~Reserved(w) /\ item' = Decided(w, auto, refine, "waiting")
  BY DEF RequestHuman, Decision
<1>2. \A v \in WorkItems : ItemMoves(v)
  BY <1>1, DecidedMoves
<1>3. \A r \in RunIds : RunMoves(r)
  BY InvalidatedRunsMove, RunsStay DEF RequestHuman
<1>4. \A a \in Actions : ActionMoves(a)
  BY <1>1, InvalidateAllMoves, ActionsStay DEF RequestHuman
<1>. QED
  BY <1>2, <1>3, <1>4 DEF Tables

LEMMA CompleteMoves ==
    ASSUME IInv, NEW w \in WorkItems, NEW auto \in BOOLEAN, Complete(w, auto)
    PROVE  Tables
<1>1. /\ ~item[w].stopped /\ ~Reserved(w) /\ Evidence(w) # {}
      /\ item' = Decided(w, auto, FALSE, "done") /\ act' = Closed(act, Open(w), "closed")
  BY DEF Complete, Decision
<1>2. ASSUME NEW a \in Actions
      PROVE  ActionMoves(a) /\ (ItemOf[a] = w => act'[a].status \notin Unfinished)
  <2>1. CASE a \in Open(w)
    <3>1. act'[a] = [act[a] EXCEPT !.status = "closed", !.epoch = @ + 1, !.run = NoRun]
      BY <1>1, <2>1 DEF Closed
    <3>2. act[a].status \in Unfinished /\ ~Reserved(ItemOf[a])
      BY <1>1, <2>1 DEF Open, ActionsOf
    <3>. QED
      BY <3>1, <3>2, CloseMoves
  <2>2. CASE a \notin Open(w)
    <3>1. act'[a] = act[a] /\ (ItemOf[a] = w => act[a].status \notin Unfinished)
      BY <1>1, <2>2 DEF Closed, Open, ActionsOf
    <3>. QED
      BY <3>1, OthersMove
  <2>. QED
    BY <2>1, <2>2
<1>3. /\ \A v \in WorkItems \ {w} : item'[v] = item[v]
      /\ item'[w].status = "done" /\ item'[w].stopped = FALSE /\ item'[w].rev = item[w].rev
  <2>1. "done" \in ItemStatus
    BY DEF ItemStatus
  <2>. QED
    BY <1>1, <2>1, DecidedRow
<1>4. ItemMoves(w)
  BY <1>1, <1>2, <1>3 DEF ItemMoves, Completes, Quiet, ActionsOf
<1>5. \A v \in WorkItems : ItemMoves(v)
  BY <1>3, <1>4 DEF ItemMoves, StaysItem
<1>. QED
  BY <1>2, <1>5, RunsStay DEF Complete, Tables

LEMMA AnswerMoves ==
    ASSUME IInv, NEW w \in WorkItems, Answer(w)
    PROVE  Tables
<1>1. item' = [item EXCEPT ![w] = [item[w] EXCEPT !.mail = @ - 1]] /\ item[w] \in ItemRows
  BY Rows DEF Answer, IInv, TypeOK
<1>2. ItemMoves(w)
  BY <1>1 DEF IInv, TypeOK, ItemRows, ItemMoves, StaysItem
<1>. QED
  BY <1>1, <1>2, OneItemMoves, ActionsStay, RunsStay DEF Answer, Tables

LEMMA CoordinatorMoves ==
    ASSUME IInv, CoordinatorStep
    PROVE  Tables
BY CreateMoves, GuideActionsMoves, RequestMoves, CompleteMoves, AnswerMoves DEF CoordinatorStep

-----------------------------------------------------------------------------
(* The theorems *)

LEMMA HistoryInit == Init => HInv
<1>. SUFFICES ASSUME Init
              PROVE  HInv
  OBVIOUS
<1>1. DownIsQuiet /\ StoppedIsShown /\ ClosedItemIsQuiet /\ DoneHasEvidence
  BY DEF Init, DownIsQuiet, StoppedIsShown, ClosedItemIsQuiet, DoneHasEvidence
<1>2. AbsentIsFresh /\ ResultIsCanonical /\ RunsInOrder /\ RunsAreDated /\ DeliveryIsHeld
      /\ NoBlindRedelivery /\ ReservationIsLeft
  BY ConstantsAssumption DEF ConstantsAssumption, Init, AbsentIsFresh, ResultIsCanonical,
     RunsInOrder, RunsAreDated, DeliveryIsHeld, NoBlindRedelivery, ReservationIsLeft, Used, RunsOf
<1>3. AttemptsBounded
  BY ConstantsAssumption DEF ConstantsAssumption, Init, AttemptsBounded
<1>. QED
  BY <1>1, <1>2, <1>3 DEF HInv

LEMMA StepMoves ==
    ASSUME IInv, [Next]_vars
    PROVE  Moved
<1>1. TypeOK' /\ RunFence'
  BY StepType, StepFence DEF IInv
<1>2. Tables /\ ProcessMoves
  <2>1. CASE Next
    <3>1. CASE WatcherStep
      BY <3>1, WatcherMoves
    <3>2. CASE ExecutorStep
      BY <3>2, ExecutorMoves
    <3>3. CASE LifecycleStep
      BY <3>3, LifecycleMoves
    <3>4. CASE UserStep
      BY <3>4, UserMoves, CommandIsUp
    <3>5. CASE CoordinatorStep
      BY <3>5, CoordinatorMoves, CommandIsUp
    <3>6. CASE FailureStep
      BY <3>6, FailureMoves
    <3>. QED
      BY <2>1, <3>1, <3>2, <3>3, <3>4, <3>5, <3>6 DEF Next
  <2>2. CASE UNCHANGED vars
    BY <2>2, TablesStay, ProcessStays DEF vars
  <2>. QED
    BY <2>1, <2>2
<1>. QED
  BY <1>1, <1>2 DEF Moved, IInv

\* The invariant is inductive.
THEOREM HistoryInductive == Spec => []IInv
<1>1. Init => IInv
  BY InitType, InitFence, HistoryInit DEF IInv
<1>2. IInv /\ [Next]_vars => IInv'
  BY StepMoves, InvariantPreserved DEF Moved, IInv
<1>. QED
  BY <1>1, <1>2, PTL DEF Spec

\* A completed Action names the Run that completed it in its present generation
\* (finalizeRun's result_run_id, setActionWorkspaceForRun, #invalidateExecution).
THEOREM ResultsAreCanonical == Spec => []ResultIsCanonical
<1>1. IInv => ResultIsCanonical
  BY DEF IInv, HInv
<1>. QED
  BY <1>1, HistoryInductive, PTL

\* A done or cancelled WorkItem has no Action that could run or be taken up
\* again (cancelWorkItemAtomic, completeCoordinatorTurn, recoverInterruptedRuns).
THEOREM ClosedItemsAreQuiet == Spec => []ClosedItemIsQuiet
<1>1. IInv => ClosedItemIsQuiet
  BY DEF IInv, HInv
<1>. QED
  BY <1>1, HistoryInductive, PTL

\* A WorkItem is done only on the evidence of a completed Action of its present
\* contract (completeCoordinatorTurn, currentGoalRuns).
THEOREM DoneIsEvident == Spec => []DoneHasEvidence
<1>1. IInv => DoneHasEvidence
  BY DEF IInv, HInv
<1>. QED
  BY <1>1, HistoryInductive, PTL

\* A deliver Action whose Run was cut off is not run again in the same
\* generation (interruptRun, recoverInterruptedRuns, addActionGuidance).
THEOREM DeliveriesAreNotRepeated == Spec => []NoBlindRedelivery
<1>1. IInv => NoBlindRedelivery
  BY DEF IInv, HInv
<1>. QED
  BY <1>1, HistoryInductive, PTL

\* Automatic reruns stop at max_attempts, deferred claims included
\* (claimReadyAction, finalizeRun, deferRun).
THEOREM AttemptsAreBounded == Spec => []AttemptsBounded
<1>1. IInv => AttemptsBounded
  BY DEF IInv, HInv
<1>. QED
  BY <1>1, HistoryInductive, PTL

\* An ended Run keeps its outcome, a settled Action its status and result, and a
\* WorkItem leaves done only when its execution is stopped (#activeRunRow).
THEOREM HistoryHolds == Spec => HistoryIsFinal
<1>1. IInv /\ [Next]_vars => [HistoryStep]_vars
  BY StepMoves, HistoryKept
<1>. QED
  BY <1>1, HistoryInductive, PTL DEF Spec, HistoryIsFinal, HistoryStep

\* Nobody takes an Action with a reservation from its Run, except guidance by
\* the user, which moves it to the next generation (acquireIntegrationFinalization).
THEOREM ReservationsHold == Spec => ReservationHolds
<1>1. IInv /\ [Next]_vars => [ReservationStep]_vars
  BY StepMoves, ReservationKept
<1>. QED
  BY <1>1, HistoryInductive, PTL DEF Spec, ReservationHolds, ReservationStep

=============================================================================
