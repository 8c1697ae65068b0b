------------------------- MODULE ActionInputsProofs -------------------------
(***************************************************************************)
(* Proofs about ActionInputs, for any set of messages and any bounds: the  *)
(* type invariant, that no message is in the instruction of a Run and in   *)
(* its queue at once, that a withdrawn message stays out of the context,   *)
(* and that every step of the Action is a step of InputDelivery or none    *)
(* of its business.                                                        *)
(***************************************************************************)
EXTENDS ActionInputs, WellFoundedInduction, TLAPS

Actions == [status : Unfinished \cup {"completed", "closed", "superseded", "cancelled"},
            gen : Nat, context : SUBSET Inputs, run : RunIds \cup {NoRun},
            attempt : 0..MaxAttempts, isolated : BOOLEAN, result : RunIds \cup {NoRun}]
RunStatus == {"unused", "running", "completed", "waiting", "failed", "retryable", "superseded",
              "cancelled", "interrupted", "dispatch_unknown"}
Runs == [status : RunStatus, gen : Nat, accepting : BOOLEAN, fresh : BOOLEAN]
InputRows == [state : {"none", "direct", "waiting", "consumed", "superseded"},
              run : RunIds \cup {NoRun}, gen : Nat, event : Nat]
Turns == [status : {"prepared", "dispatching", "responded", "unknown"}, inputs : SUBSET Inputs]
Loops == [pc : {"none", "setup", "loop", "built", "prepared", "sent", "answered", "closed", "failing"},
          prompt : SUBSET Inputs, said : SUBSET Inputs, new : SUBSET Inputs, open : BOOLEAN]

-----------------------------------------------------------------------------
(* The inductive invariant *)

Rows ==
    /\ item \in [status : LiveStatus \cup {"cancelled"}, stopped : BOOLEAN]
    /\ act \in Actions
    /\ run \in [RunIds -> Runs]
    /\ row \in [Inputs -> InputRows]
    /\ turn \in [RunIds -> Seq(Turns)]
    /\ exec \in [RunIds -> Loops]
    /\ known \in [RunIds -> SUBSET Inputs]
    /\ dropped \subseteq Inputs /\ up \in BOOLEAN
    /\ left \in [messages : SUBSET Inputs, command : Nat, fault : Nat]

Sent == {i \in Inputs : ~Unsent(i)}
Live == act.status \in {"ready", "running"}

\* Messages that nothing has taken back.
Kept == {i \in Sent : row[i].state # "superseded" /\ i \notin dropped}

\* The Run in progress is the one the Action names, under the Action's identity;
\* a Run that was never claimed has read nothing.
OneRuns ==
    /\ (act.status = "running") = (act.run # NoRun)
    /\ act.status = "ready" => act.attempt < MaxAttempts
    /\ \A r \in RunIds :
         /\ (run[r].status = "running") = (act.run = r)
         /\ run[r].gen <= act.gen
         /\ act.run = r => run[r].gen = act.gen
         /\ run[r].status = "unused" => known[r] = {} /\ exec[r].pc = "none"
    /\ act.status = "completed" => act.result # NoRun /\ exec[act.result].pc = "none"

\* A row is dated by the generation of its last event, and a message that was
\* dropped is dated before the restart.
RowsAreDated ==
    /\ \A i \in Inputs : row[i].gen = row[i].event /\ row[i].gen <= act.gen
    /\ dropped \subseteq Sent
    /\ \A i \in dropped : row[i].gen < act.gen

\* A waiting message that is in the context already waits for no Run; once the
\* Action runs, none is, and what waits under its identity waits for its Run.
ContextIsRead ==
    /\ act.context \subseteq Sent
    /\ Live => act.context \cap (dropped \cup {i \in Inputs : row[i].state = "superseded"}) = {}
    /\ act.status = "ready" =>
         \A i \in act.context \cap Waiting : row[i].run = NoRun /\ row[i].gen = act.gen
    /\ act.status = "running" =>
         /\ act.context \cap Waiting = {}
         /\ \A i \in Waiting : row[i].gen = act.gen => row[i].run = act.run

\* A message that is kept is in the context, waits, or was read by a Run that
\* consumed it; the Run in progress has read what it consumed.
Carried(i) ==
    /\ row[i].gen = act.gen
    /\ \/ row[i].state = "waiting"
       \/ row[i].state = "consumed" /\ row[i].run # NoRun
    /\ act.status = "running" /\ row[i].state = "consumed" => i \in known[act.run]
KeptIsCarried == Live => \A i \in Kept \ act.context : Carried(i)

\* The loop of a Run says what it drained, and binds only that to its turn.
Sound(r) ==
    /\ InRequest(r) \cup known[r] \subseteq Sent
    /\ exec[r].new \subseteq exec[r].said
    /\ exec[r].open => turn[r] # <<>> /\ Last(r).inputs \subseteq exec[r].said
    /\ exec[r].pc \in {"prepared", "sent"} => exec[r].open
    /\ exec[r].pc \in {"answered", "closed"} => InRequest(r) \subseteq known[r]
LoopsAreSound == \A r \in RunIds : Sound(r)

\* The instruction of the Run in progress is the context of the Action; once its
\* input is closed nothing waits for it.
Current(r) ==
    /\ exec[r].pc # "none" => exec[r].prompt = act.context
    /\ exec[r].pc = "closed" => ~run[r].accepting /\ PendingOf(r) = {}
LoopIsCurrent == \A r \in RunIds : act.run = r => Current(r)

IInv ==
    /\ Rows /\ OneRuns /\ RowsAreDated /\ ContextIsRead /\ KeptIsCarried
    /\ LoopsAreSound /\ LoopIsCurrent

-----------------------------------------------------------------------------
(* Kinds of steps *)

\* The Action keeps the Run it names, if any.
Holds ==
    /\ act' = act
    /\ \A r \in RunIds : /\ run'[r].status = run[r].status /\ run'[r].gen = run[r].gen
                         /\ run'[r].accepting => run[r].accepting

\* No Run is in progress any more, under the identity and context that were.
LetsGo ==
    /\ act.status \in Unfinished
    /\ act'.run = NoRun /\ act'.gen = act.gen /\ act'.context = act.context
    /\ act'.status # "running"
    /\ act'.status = "ready" => act.status = "running" /\ act'.attempt < MaxAttempts
    /\ act'.status = "completed" =>
         /\ act.run # NoRun /\ act'.result = act.run
         /\ exec[act.run].pc = "closed" /\ exec'[act.run].pc = "none"
    /\ \A r \in RunIds : /\ run'[r].status # "running" /\ run'[r].gen = run[r].gen
                         /\ run'[r].status = "unused" <=> run[r].status = "unused"

\* The loop of a Run says nothing more and opens no turn.
Rests(r) ==
    /\ exec'[r].pc # "none" =>
         /\ exec[r].pc # "none"
         /\ exec'[r].prompt = exec[r].prompt /\ exec'[r].said = exec[r].said
         /\ exec'[r].new = exec[r].new
    /\ exec'[r].pc = "none" => exec'[r] = exec[r] \/ exec'[r] = Idle
    /\ exec'[r].open => exec[r].open
    /\ exec'[r].pc \in {"prepared", "sent"} => exec'[r].open
    /\ exec'[r].pc \in {"answered", "closed"} => exec'[r].pc = exec[r].pc
    /\ turn[r] # <<>> => turn'[r] # <<>> /\ Last(r)'.inputs = Last(r).inputs

\* The rows stay, or all that wait are superseded with the Action.
RowsStay ==
    \/ row' = row
    \/ /\ LetsGo /\ row' = Superseded(Waiting)
       /\ act'.status \in {"cancelled", "superseded", "closed"}

-----------------------------------------------------------------------------
(* InputDelivery: what a step does to the fates of the messages *)

\* A step of InputDelivery, or none of its business.
Serves == [Delivery!Next]_(Delivery!vars)

LEMMA FateValues ==
    ASSUME NEW i \in Inputs
    PROVE  /\ Fate[i] = IF Unsent(i) THEN "unsent"
                        ELSE IF Withdrawn(i) THEN "withdrawn"
                        ELSE IF i \in ReadBy THEN "read" ELSE "accepted"
           /\ Fate'[i] = IF Unsent(i)' THEN "unsent"
                         ELSE IF Withdrawn(i)' THEN "withdrawn"
                         ELSE IF i \in ReadBy' THEN "read" ELSE "accepted"
           /\ Fate = [j \in Inputs |-> Fate[j]] /\ Fate' = [j \in Inputs |-> Fate'[j]]
BY DEF Fate

\* No message changes, and the Action is as done as it was.
LEMMA StayServes ==
    ASSUME act'.status = "completed" <=> act.status = "completed",
           \A i \in Inputs : /\ Unsent(i)' <=> Unsent(i)
                             /\ Withdrawn(i)' <=> Withdrawn(i)
                             /\ i \in ReadBy' <=> i \in ReadBy
    PROVE  Serves
<1>1. \A i \in Inputs : Fate'[i] = Fate[i]
  BY FateValues
<1>2. Fate' = Fate
  BY <1>1, Zenon DEF Fate
<1>3. (act'.status = "completed") = (act.status = "completed")
  OBVIOUS
<1>. QED
  BY <1>2, <1>3 DEF Serves, Delivery!vars

\* An attempt is over, or a restart withdraws messages.
LEMMA GiveUpServes ==
    ASSUME act.status # "completed", act'.status # "completed", act'.run = NoRun,
           \A i \in Inputs : /\ Unsent(i)' <=> Unsent(i)
                             /\ Withdrawn(i) => Withdrawn(i)'
    PROVE  Serves
<1>1. ReadBy' = {}
  BY DEF ReadBy, Attempt
<1>. DEFINE W == {i \in Inputs : Fate'[i] = "withdrawn" /\ Fate[i] # "withdrawn"}
<1>2. ASSUME NEW i \in Inputs
      PROVE  /\ Fate'[i] = IF i \in W THEN "withdrawn" ELSE IF Fate[i] = "read" THEN "accepted" ELSE Fate[i]
             /\ i \in W => Fate[i] \in {"accepted", "read"}
  BY <1>1, FateValues
<1>3. Fate' = [i \in Inputs |-> Fate'[i]]
  BY DEF Fate
<1>. HIDE DEF W
<1>4. Fate' = [i \in Inputs |-> IF i \in W THEN "withdrawn"
                                ELSE IF Fate[i] = "read" THEN "accepted" ELSE Fate[i]]
  BY <1>2, <1>3
<1>5. W \in SUBSET Inputs
  BY DEF W
<1>6. Delivery!GiveUp(W)
  BY <1>2, <1>4, <1>5 DEF Delivery!GiveUp, Delivery!With
<1>7. CASE Fate' = Fate
  BY <1>7 DEF Serves, Delivery!vars
<1>8. CASE Fate' # Fate
  BY <1>5, <1>6, <1>8 DEF Serves, Delivery!Next
<1>. QED
  BY <1>7, <1>8

\* A message is accepted; where nothing was read, others may be withdrawn.
LEMMA AcceptServes ==
    ASSUME NEW i \in Inputs, Unsent(i), ~Unsent(i)', ~Withdrawn(i)', i \notin ReadBy',
           act.status # "completed", act'.status # "completed",
           \A j \in Inputs \ {i} : /\ Unsent(j)' <=> Unsent(j)
                                   /\ Withdrawn(j) => Withdrawn(j)'
                                   /\ j \in ReadBy' <=> j \in ReadBy
                                   /\ j \in ReadBy => (Withdrawn(j)' <=> Withdrawn(j))
    PROVE  Serves
<1>. DEFINE W == {j \in Inputs : j # i /\ Fate'[j] = "withdrawn" /\ Fate[j] # "withdrawn"}
<1>1. Fate[i] = "unsent" /\ Fate'[i] = "accepted" /\ i \notin W
  BY FateValues
<1>2. ASSUME NEW j \in Inputs, j # i
      PROVE  /\ Fate'[j] = IF j \in W THEN "withdrawn" ELSE Fate[j]
             /\ j \in W => Fate[j] = "accepted"
  BY <1>2, FateValues
<1>. HIDE DEF W
<1>3. W \in SUBSET Inputs /\ W \subseteq Delivery!With("accepted")
  BY <1>1, <1>2 DEF W, Delivery!With
<1>. DEFINE B == Delivery!Becomes(W, "withdrawn")
<1>4. B = [j \in Inputs |-> IF j \in W THEN "withdrawn" ELSE Fate[j]]
  BY DEF Delivery!Becomes
<1>. HIDE DEF B
<1>5. \A j \in Inputs : Fate'[j] = [B EXCEPT ![i] = "accepted"][j]
  BY <1>1, <1>2, <1>4
<1>6. Fate' = [j \in Inputs |-> Fate'[j]]
  BY DEF Fate
<1>7. Fate' = [B EXCEPT ![i] = "accepted"]
  BY <1>4, <1>5, <1>6
<1>8. Delivery!Accept(i, W)
  BY <1>1, <1>3, <1>7 DEF Delivery!Accept, B
<1>9. Fate' # Fate
  BY <1>1
<1>. QED
  BY <1>3, <1>8, <1>9 DEF Serves, Delivery!Next

\* The attempt in progress reads messages.
LEMMA ReadServes ==
    ASSUME act.status # "completed", act'.status # "completed",
           \A i \in Inputs : /\ Unsent(i)' <=> Unsent(i)
                             /\ Withdrawn(i)' <=> Withdrawn(i)
                             /\ i \in ReadBy => i \in ReadBy'
    PROVE  Serves
<1>. DEFINE S == {i \in Inputs : Fate'[i] = "read" /\ Fate[i] # "read"}
<1>1. ASSUME NEW i \in Inputs
      PROVE  /\ Fate'[i] = IF i \in S THEN "read" ELSE Fate[i]
             /\ i \in S => Fate[i] = "accepted"
  BY FateValues
<1>2. Fate' = [i \in Inputs |-> Fate'[i]]
  BY DEF Fate
<1>. HIDE DEF S
<1>3. Fate' = [i \in Inputs |-> IF i \in S THEN "read" ELSE Fate[i]]
  BY <1>1, <1>2
<1>4. S \in SUBSET Inputs
  BY DEF S
<1>5. Delivery!Read(S)
  BY <1>1, <1>3, <1>4 DEF Delivery!Read, Delivery!With, Delivery!Becomes
<1>6. CASE Fate' = Fate
  BY <1>6 DEF Serves, Delivery!vars
<1>7. CASE Fate' # Fate
  BY <1>4, <1>5, <1>7 DEF Serves, Delivery!Next
<1>. QED
  BY <1>6, <1>7

\* The attempt completes the Action: it has read all that is accepted.
LEMMA CompleteServes ==
    ASSUME act.status # "completed", act'.status = "completed",
           \A i \in Inputs : /\ Unsent(i)' <=> Unsent(i)
                             /\ Withdrawn(i)' <=> Withdrawn(i)
                             /\ i \in ReadBy' <=> i \in ReadBy
                             /\ Unsent(i) \/ Withdrawn(i) \/ i \in ReadBy
    PROVE  Serves
<1>1. \A i \in Inputs : Fate'[i] = Fate[i] /\ Fate[i] # "accepted"
  BY FateValues
<1>2. Fate' = Fate
  BY <1>1, Zenon DEF Fate
<1>3. Delivery!With("accepted") = {}
  BY <1>1 DEF Delivery!With
<1>4. Delivery!Complete
  BY <1>2, <1>3 DEF Delivery!Complete
<1>. QED
  BY <1>4 DEF Serves, Delivery!Next

-----------------------------------------------------------------------------
(* Steps that leave the rows and what was read *)

\* Superseding touches the state of a row only.
LEMMA SupersededTypes ==
    ASSUME row \in [Inputs -> InputRows], NEW S
    PROVE  /\ Superseded(S) \in [Inputs -> InputRows]
           /\ \A i \in Inputs :
                /\ Superseded(S)[i].gen = row[i].gen /\ Superseded(S)[i].event = row[i].event
                /\ Superseded(S)[i].run = row[i].run
                /\ Superseded(S)[i].state = IF i \in S THEN "superseded" ELSE row[i].state
                /\ i \notin S => Superseded(S)[i] = row[i]
<1>1. ASSUME NEW i \in Inputs
      PROVE  /\ Superseded(S)[i] \in InputRows
             /\ Superseded(S)[i].gen = row[i].gen /\ Superseded(S)[i].event = row[i].event
             /\ Superseded(S)[i].run = row[i].run
             /\ Superseded(S)[i].state = IF i \in S THEN "superseded" ELSE row[i].state
             /\ i \notin S => Superseded(S)[i] = row[i]
  <2>1. row[i] \in InputRows
    OBVIOUS
  <2>2. Superseded(S)[i] = IF i \in S THEN [row[i] EXCEPT !.state = "superseded"] ELSE row[i]
    BY DEF Superseded
  <2>. QED
    BY <2>1, <2>2 DEF InputRows
<1>2. Superseded(S) \in [Inputs -> InputRows]
  <2>1. Superseded(S) = [i \in Inputs |-> Superseded(S)[i]]
    BY DEF Superseded
  <2>. QED
    BY <1>1, <2>1
<1>. QED
  BY <1>1, <1>2

\* A step of these kinds preserves the invariant.
LEMMA RestHolds ==
    ASSUME IInv, Rows', Holds \/ LetsGo, \A r \in RunIds : Rests(r), RowsStay,
           UNCHANGED <<known, dropped>>
    PROVE  IInv'
<1>1. /\ Sent' = Sent /\ \A i \in Inputs : row'[i].gen = row[i].gen /\ row'[i].event = row[i].event
      /\ \A i \in Inputs : row'[i].state = "waiting" => row'[i] = row[i]
  <2>1. CASE row' = row
    BY <2>1 DEF Sent, Unsent
  <2>2. CASE row' = Superseded(Waiting)
    <3>1. ASSUME NEW i \in Inputs
          PROVE  /\ row'[i].gen = row[i].gen /\ row'[i].event = row[i].event
                 /\ row'[i].state = IF i \in Waiting THEN "superseded" ELSE row[i].state
                 /\ i \notin Waiting => row'[i] = row[i]
      BY <2>2, SupersededTypes DEF IInv, Rows
    <3>. QED
      BY <3>1 DEF Sent, Unsent, Waiting
  <2>. QED
    BY <2>1, <2>2 DEF RowsStay
<1>2. Live' => row' = row /\ Live
  BY DEF RowsStay, Holds, LetsGo, Live
<1>3. OneRuns'
  <2>. act \in Actions /\ act' \in Actions /\ NoRun \notin RunIds
    BY DEF IInv, Rows, RunIds, NoRun
  <2>1. CASE Holds
    BY <2>1 DEF OneRuns, Holds, Rests, IInv, Idle, Actions
  <2>2. CASE LetsGo
    BY <2>2 DEF OneRuns, LetsGo, Rests, IInv, Idle, Actions
  <2>. QED
    BY <2>1, <2>2
<1>4. RowsAreDated'
  <2>1. act'.gen = act.gen /\ dropped' = dropped
    BY DEF Holds, LetsGo
  <2>2. \A i \in Inputs : /\ row'[i].gen = row'[i].event /\ row'[i].gen <= act'.gen
                          /\ i \in dropped' => row'[i].gen < act'.gen
    BY <1>1, <2>1 DEF IInv, RowsAreDated
  <2>3. dropped' \subseteq Sent'
    BY <1>1, <2>1 DEF IInv, RowsAreDated
  <2>. QED
    BY <2>1, <2>2, <2>3 DEF RowsAreDated, Sent
<1>5. ContextIsRead'
  BY <1>1, <1>2 DEF ContextIsRead, IInv, Holds, LetsGo, Waiting, OneRuns, RowsAreDated
<1>6. KeptIsCarried'
  BY <1>1, <1>2 DEF KeptIsCarried, Carried, IInv, Holds, LetsGo, Kept, Live
<1>7. LoopsAreSound'
  BY <1>1 DEF LoopsAreSound, Sound, IInv, Rests, InRequest, Idle
<1>8. LoopIsCurrent'
  <2>1. CASE LetsGo
    BY <2>1 DEF LoopIsCurrent, LetsGo, IInv, Rows, RunIds, NoRun
  <2>2. ASSUME Holds, NEW r \in RunIds, act.run = r
        PROVE  /\ exec'[r].pc # "none" => exec'[r].prompt = act'.context
               /\ exec'[r].pc = "closed" => ~run'[r].accepting /\ PendingOf(r)' = {}
    <3>1. PendingOf(r)' \subseteq PendingOf(r)
      BY <1>1, <2>2 DEF Holds, PendingOf, Waiting
    <3>. QED
      BY <2>2, <3>1 DEF LoopIsCurrent, Current, IInv, Holds, Rests
  <2>. QED
    BY <2>1, <2>2 DEF LoopIsCurrent, Current, Holds
<1>. QED
  BY <1>3, <1>4, <1>5, <1>6, <1>7, <1>8 DEF IInv

\* The tables' share of a completion: the Run that is closed has read every
\* message that nothing has taken back, because it has read its context, what
\* waits for it is nothing, and what it consumed it has read.
LEMMA ClosedHasRead ==
    ASSUME IInv, act.run # NoRun, exec[act.run].pc = "closed", NEW i \in Kept
    PROVE  i \in known[act.run]
<1>. /\ act \in Actions /\ act.run \in RunIds /\ act.status = "running"
  BY DEF IInv, Rows, Actions, OneRuns
<1>1. /\ exec[act.run].prompt = act.context /\ PendingOf(act.run) = {}
      /\ run[act.run].gen = act.gen
  BY DEF IInv, LoopIsCurrent, Current, OneRuns
<1>2. act.context \subseteq known[act.run]
  BY <1>1 DEF IInv, LoopsAreSound, Sound, InRequest
<1>3. CASE i \notin act.context
  <2>1. Carried(i)
    BY <1>3 DEF IInv, KeptIsCarried, Live
  <2>2. row[i].state # "waiting"
    BY <1>1, <2>1 DEF Kept, Sent, Carried, PendingOf, Waiting, IInv, ContextIsRead
  <2>. QED
    BY <2>1, <2>2 DEF Carried
<1>. QED
  BY <1>2, <1>3

LEMMA RestServes ==
    ASSUME IInv, Holds \/ LetsGo, RowsStay, UNCHANGED <<known, dropped>> PROVE Serves
<1>. act \in Actions /\ row \in [Inputs -> InputRows]
  BY DEF IInv, Rows
<1>1. CASE Holds /\ row' = row
  BY <1>1, StayServes DEF Holds, Unsent, Withdrawn, ReadBy, Attempt
<1>2. CASE LetsGo /\ act'.status # "completed"
  <2>1. ASSUME NEW i \in Inputs
        PROVE  (Unsent(i)' <=> Unsent(i)) /\ (Withdrawn(i) => Withdrawn(i)')
    <3>1. CASE row' = row
      BY <3>1 DEF Unsent, Withdrawn
    <3>2. CASE row' = Superseded(Waiting)
      <4>1. row'[i].state = IF i \in Waiting THEN "superseded" ELSE row[i].state
        BY <3>2, SupersededTypes
      <4>. QED
        BY <4>1 DEF Unsent, Withdrawn, Waiting
    <3>. QED
      BY <3>1, <3>2 DEF RowsStay
  <2>. QED
    BY <1>2, <2>1, GiveUpServes DEF LetsGo, Unfinished
<1>3. CASE LetsGo /\ act'.status = "completed"
  <2>1. row' = row /\ ReadBy = known[act.run] /\ ReadBy' = known[act.run]
    BY <1>3 DEF RowsStay, LetsGo, ReadBy, Attempt, Unfinished
  <2>2. ASSUME NEW i \in Inputs
        PROVE  Unsent(i) \/ Withdrawn(i) \/ i \in ReadBy
    BY <1>3, <2>1, ClosedHasRead DEF LetsGo, Kept, Sent, Withdrawn
  <2>. QED
    BY <1>3, <2>1, <2>2, CompleteServes DEF LetsGo, Unfinished, Unsent, Withdrawn
<1>. QED
  BY <1>1, <1>2, <1>3 DEF RowsStay

LEMMA RestKeeps ==
    ASSUME IInv, Rows', Holds \/ LetsGo, \A r \in RunIds : Rests(r), RowsStay,
           UNCHANGED <<known, dropped>>
    PROVE  IInv' /\ Serves
BY RestHolds, RestServes

-----------------------------------------------------------------------------
(* The loop of a Run *)

Pcs == {"none", "setup", "loop", "built", "prepared", "sent", "answered", "closed", "failing"}

\* Goto moves the loop of one Run and changes nothing else of it.
LEMMA GotoMoves ==
    ASSUME exec \in [RunIds -> Loops], NEW r \in RunIds, NEW pc \in Pcs, Goto(r, pc)
    PROVE  /\ exec' \in [RunIds -> Loops] /\ exec'[r].pc = pc
           /\ exec'[r].prompt = exec[r].prompt /\ exec'[r].said = exec[r].said
           /\ exec'[r].new = exec[r].new /\ exec'[r].open = exec[r].open
           /\ \A q \in RunIds : q # r => exec'[q] = exec[q]
<1>. PICK e : e = [exec[r] EXCEPT !.pc = pc]
  OBVIOUS
<1>1. exec[r] \in Loops
  OBVIOUS
<1>2. /\ e \in Loops /\ e.pc = pc /\ e.prompt = exec[r].prompt /\ e.said = exec[r].said
      /\ e.new = exec[r].new /\ e.open = exec[r].open
  BY <1>1 DEF Loops, Pcs
<1>3. exec' = [exec EXCEPT ![r] = e]
  BY DEF Goto
<1>. QED
  BY <1>2, <1>3

LEMMA StartKeeps == ASSUME IInv, NEW r \in RunIds, Start(r) PROVE IInv' /\ Serves
<1>1. UNCHANGED <<item, act, run, row, turn, up, known, dropped, left>> /\ Goto(r, "loop")
  BY DEF Start, Goto
<1>2. exec \in [RunIds -> Loops] /\ "loop" \in Pcs
  BY DEF IInv, Rows, Pcs
<1>3. /\ exec' \in [RunIds -> Loops] /\ exec'[r].pc = "loop"
      /\ exec'[r].prompt = exec[r].prompt /\ exec'[r].said = exec[r].said
      /\ exec'[r].new = exec[r].new /\ exec'[r].open = exec[r].open
      /\ \A q \in RunIds : q # r => exec'[q] = exec[q]
  BY <1>1, <1>2, GotoMoves
<1>4. Rows'
  BY <1>1, <1>3 DEF IInv, Rows
<1>5. Holds /\ RowsStay /\ UNCHANGED <<known, dropped>>
  BY <1>1 DEF Holds, RowsStay
<1>6. \A q \in RunIds : Rests(q)
  BY <1>1, <1>3 DEF Start, IInv, LoopsAreSound, Sound, Rests, Last
<1>. QED
  BY <1>4, <1>5, <1>6, RestKeeps

\* A step of the loops leaves the tables as they are; what was read grows.
LEMMA TablesKept ==
    ASSUME IInv, Rows', Holds, UNCHANGED <<row, dropped>>,
           \A q \in RunIds : /\ exec'[q].pc # "none" => exec[q].pc # "none"
                             /\ known[q] \subseteq known'[q]
                             /\ exec[q].pc = "none" => known'[q] = known[q]
    PROVE  OneRuns' /\ RowsAreDated' /\ ContextIsRead' /\ KeptIsCarried'
<1>. act \in Actions /\ act' = act /\ NoRun \notin RunIds
  BY DEF IInv, Rows, Holds, RunIds, NoRun
<1>1. OneRuns'
  BY DEF OneRuns, Holds, IInv, Actions
<1>2. RowsAreDated'
  BY DEF RowsAreDated, IInv, Sent, Unsent
<1>3. ContextIsRead'
  BY DEF ContextIsRead, IInv, Sent, Unsent, Live, Waiting
<1>4. KeptIsCarried'
  BY DEF KeptIsCarried, Carried, IInv, Sent, Unsent, Live, Kept, OneRuns, Actions
<1>. QED
  BY <1>1, <1>2, <1>3, <1>4

\* What is taken in is said, and is new.
LEMMA TakeInMoves ==
    ASSUME exec \in [RunIds -> Loops], NEW r \in RunIds, NEW S \in SUBSET Inputs, NEW pc \in Pcs,
           TakeIn(r, S, pc)
    PROVE  /\ exec' \in [RunIds -> Loops] /\ exec'[r].pc = pc
           /\ exec'[r].prompt = exec[r].prompt /\ exec'[r].said = exec[r].said \cup S
           /\ exec'[r].new = S /\ exec'[r].open = exec[r].open
           /\ \A q \in RunIds : q # r => exec'[q] = exec[q]
<1>. PICK e : e = [exec[r] EXCEPT !.said = exec[r].said \cup S, !.new = S, !.pc = pc]
  OBVIOUS
<1>1. exec[r] \in Loops
  OBVIOUS
<1>2. /\ e \in Loops /\ e.pc = pc /\ e.prompt = exec[r].prompt /\ e.said = exec[r].said \cup S
      /\ e.new = S /\ e.open = exec[r].open
  BY <1>1 DEF Loops, Pcs
<1>3. exec' = [exec EXCEPT ![r] = e]
  BY DEF TakeIn
<1>. QED
  BY <1>2, <1>3

\* A loop takes in messages that were sent, and goes on.
LEMMA TakesKeeps ==
    ASSUME IInv, NEW r \in RunIds, NEW S \in SUBSET Sent, NEW pc \in {"built", "loop"},
           TakeIn(r, S, pc), UNCHANGED <<item, act, run, row, turn, up, known, dropped, left>>,
           exec[r].pc # "none"
    PROVE  IInv'
<1>1. /\ exec' \in [RunIds -> Loops]
      /\ exec'[r].pc = pc /\ exec'[r].prompt = exec[r].prompt
      /\ exec'[r].said = exec[r].said \cup S /\ exec'[r].new = S
      /\ exec'[r].open = exec[r].open
      /\ \A q \in RunIds : q # r => exec'[q] = exec[q]
  <2>1. S \in SUBSET Inputs /\ pc \in Pcs
    BY DEF Sent, Pcs
  <2>2. exec \in [RunIds -> Loops]
    BY DEF IInv, Rows
  <2>. QED
    BY <2>1, <2>2, TakeInMoves
<1>2. Rows'
  BY <1>1 DEF IInv, Rows
<1>3. Holds /\ \A q \in RunIds : exec'[q].pc # "none" => exec[q].pc # "none"
  BY <1>1 DEF Holds
<1>4. OneRuns' /\ RowsAreDated' /\ ContextIsRead' /\ KeptIsCarried'
  BY <1>2, <1>3, TablesKept
<1>5. LoopsAreSound'
  BY <1>1 DEF IInv, LoopsAreSound, Sound, InRequest, Sent, Unsent, Last
<1>6. LoopIsCurrent'
  BY <1>1 DEF IInv, LoopIsCurrent, Current, PendingOf, Waiting
<1>. QED
  BY <1>2, <1>4, <1>5, <1>6 DEF IInv

LEMMA DrainKeeps == ASSUME IInv, NEW r \in RunIds, Drain(r) PROVE IInv'
<1>1. listPendingActionInputs(r) \subseteq Sent
  BY DEF listPendingActionInputs, PendingOf, Waiting, Sent, Unsent
<1>2. /\ exec[r].pc = "loop" /\ TakeIn(r, listPendingActionInputs(r), "built")
      /\ UNCHANGED <<item, act, run, row, turn, up, known, dropped, left>>
  BY DEF Drain, Table
<1>. QED
  BY <1>1, <1>2, TakesKeeps

\* The open turn is the last one; its status may change.
LEMMA SetLastKeeps ==
    ASSUME Rows, NEW r \in RunIds, turn[r] # <<>>,
           NEW st \in {"prepared", "dispatching", "responded", "unknown"}, turn' = SetLast(r, st)
    PROVE  /\ turn' \in [RunIds -> Seq(Turns)]
           /\ turn'[r] # <<>> /\ Last(r)'.inputs = Last(r).inputs
           /\ \A q \in RunIds : q # r => turn'[q] = turn[q]
<1>1. turn[r] \in Seq(Turns) /\ turn \in [RunIds -> Seq(Turns)]
  BY DEF Rows
<1>. PICK n : n = Len(turn[r])
  OBVIOUS
<1>2. n \in 1..Len(turn[r]) /\ turn[r][n] \in Turns
  BY <1>1
<1>. PICK t : t = [turn[r][n] EXCEPT !.status = st]
  OBVIOUS
<1>3. t \in Turns /\ t.inputs = turn[r][n].inputs
  BY <1>2 DEF Turns
<1>. PICK s : s = [turn[r] EXCEPT ![n] = t]
  OBVIOUS
<1>4. s \in Seq(Turns) /\ Len(s) = n /\ s[n] = t
  BY <1>1, <1>2, <1>3
<1>5. turn' = [turn EXCEPT ![r] = s]
  BY DEF SetLast
<1>6. turn'[r] = s /\ \A q \in RunIds : q # r => turn'[q] = turn[q]
  BY <1>1, <1>5
<1>. QED
  BY <1>1, <1>2, <1>3, <1>4, <1>5, <1>6 DEF Last

LEMMA OpenMoves ==
    ASSUME exec \in [RunIds -> Loops], turn \in [RunIds -> Seq(Turns)], NEW r \in RunIds,
           turn' = [turn EXCEPT ![r] = Append(@, [status |-> "prepared", inputs |-> exec[r].new])],
           exec' = [exec EXCEPT ![r].open = TRUE, ![r].pc = "prepared"]
    PROVE  /\ exec' \in [RunIds -> Loops] /\ turn' \in [RunIds -> Seq(Turns)]
           /\ exec'[r].pc = "prepared" /\ exec'[r].prompt = exec[r].prompt
           /\ exec'[r].said = exec[r].said /\ exec'[r].new = exec[r].new /\ exec'[r].open
           /\ turn'[r] # <<>> /\ Last(r)'.inputs = exec[r].new
           /\ \A q \in RunIds : q # r => exec'[q] = exec[q] /\ turn'[q] = turn[q]
<1>1. exec[r] \in Loops /\ turn[r] \in Seq(Turns)
  OBVIOUS
<1>. PICK e : e = [exec[r] EXCEPT !.open = TRUE, !.pc = "prepared"]
  OBVIOUS
<1>2. /\ e \in Loops /\ e.pc = "prepared" /\ e.prompt = exec[r].prompt /\ e.said = exec[r].said
      /\ e.new = exec[r].new /\ e.open = TRUE
  BY <1>1 DEF Loops
<1>3. exec' = [exec EXCEPT ![r] = e]
  OBVIOUS
<1>4. exec' \in [RunIds -> Loops] /\ exec'[r] = e /\ \A q \in RunIds : q # r => exec'[q] = exec[q]
  BY <1>2, <1>3
<1>. PICK t : t = [status |-> "prepared", inputs |-> exec[r].new]
  OBVIOUS
<1>5. t \in Turns /\ t.inputs = exec[r].new
  BY <1>1 DEF Turns, Loops
<1>. PICK s : s = Append(turn[r], t)
  OBVIOUS
<1>6. s \in Seq(Turns) /\ s # <<>> /\ s[Len(s)] = t
  BY <1>1, <1>5
<1>7. turn' = [turn EXCEPT ![r] = s]
  OBVIOUS
<1>8. turn' \in [RunIds -> Seq(Turns)] /\ turn'[r] = s /\ \A q \in RunIds : q # r => turn'[q] = turn[q]
  BY <1>6, <1>7
<1>. QED
  BY <1>2, <1>4, <1>5, <1>6, <1>8 DEF Last

\* A step that leaves the Action, and where it closes no loop and changes no
\* prompt, leaves the loop of its Run current.
LEMMA CurrentKept ==
    ASSUME IInv, UNCHANGED <<act, run, row>>,
           \A q \in RunIds : /\ exec'[q].pc # "none" => /\ exec[q].pc # "none"
                                                        /\ exec'[q].prompt = exec[q].prompt
                             /\ exec'[q].pc = "closed" => exec[q].pc = "closed"
    PROVE  LoopIsCurrent'
BY DEF IInv, LoopIsCurrent, Current, PendingOf, Waiting

LEMMA PrepareTurnKeeps == ASSUME IInv, NEW r \in RunIds, PrepareTurn(r) PROVE IInv'
<1>. exec \in [RunIds -> Loops] /\ turn \in [RunIds -> Seq(Turns)]
  BY DEF IInv, Rows
<1>1. UNCHANGED <<item, act, run, row, up, known, dropped, left>> /\ exec[r].pc = "built"
  BY DEF PrepareTurn
<1>2. Holds /\ RowsStay
  BY <1>1 DEF Holds, RowsStay
<1>3. CASE UNCHANGED turn /\ \E pc \in {"prepared", "failing"} : Goto(r, pc) /\ (pc = "prepared" => exec[r].open)
  <2>. PICK pc \in {"prepared", "failing"} : Goto(r, pc) /\ (pc = "prepared" => exec[r].open)
    BY <1>3
  <2>1. /\ exec' \in [RunIds -> Loops] /\ exec'[r].pc = pc
        /\ exec'[r].prompt = exec[r].prompt /\ exec'[r].said = exec[r].said
        /\ exec'[r].new = exec[r].new /\ exec'[r].open = exec[r].open
        /\ \A q \in RunIds : q # r => exec'[q] = exec[q]
    BY GotoMoves DEF Pcs
  <2>2. Rows'
    BY <1>1, <1>3, <2>1 DEF IInv, Rows
  <2>3. \A q \in RunIds : Rests(q)
    BY <1>1, <1>3, <2>1 DEF IInv, LoopsAreSound, Sound, Rests, Last
  <2>. QED
    BY <1>1, <1>2, <2>2, <2>3, RestKeeps
<1>4. CASE /\ turn' = [turn EXCEPT ![r] = Append(@, [status |-> "prepared", inputs |-> exec[r].new])]
           /\ exec' = [exec EXCEPT ![r].open = TRUE, ![r].pc = "prepared"]
  <2>1. /\ exec' \in [RunIds -> Loops] /\ turn' \in [RunIds -> Seq(Turns)]
        /\ exec'[r].pc = "prepared" /\ exec'[r].prompt = exec[r].prompt
        /\ exec'[r].said = exec[r].said /\ exec'[r].new = exec[r].new /\ exec'[r].open
        /\ turn'[r] # <<>> /\ Last(r)'.inputs = exec[r].new
        /\ \A q \in RunIds : q # r => exec'[q] = exec[q] /\ turn'[q] = turn[q]
    BY <1>4, OpenMoves
  <2>2. Rows'
    BY <1>1, <2>1 DEF IInv, Rows
  <2>3. OneRuns' /\ RowsAreDated' /\ ContextIsRead' /\ KeptIsCarried'
    <3>1. \A q \in RunIds : /\ exec'[q].pc # "none" => exec[q].pc # "none"
                            /\ known'[q] = known[q]
      BY <1>1, <2>1
    <3>. QED
      BY <1>1, <1>2, <2>2, <3>1, TablesKept
  <2>4. ASSUME NEW q \in RunIds PROVE Sound(q)'
    <3>1. Sound(q) /\ Sent' = Sent /\ known' = known
      BY <1>1 DEF IInv, LoopsAreSound, Sent, Unsent
    <3>2. exec'[q].open => turn'[q] # <<>> /\ Last(q)'.inputs \subseteq exec'[q].said
      BY <2>1, <3>1 DEF Sound, Last
    <3>3. exec'[q].pc \in {"prepared", "sent"} => exec'[q].open
      BY <2>1, <3>1 DEF Sound
    <3>. QED
      BY <2>1, <3>1, <3>2, <3>3 DEF Sound, InRequest
  <2>5. LoopIsCurrent'
    BY <1>1, <2>1, CurrentKept
  <2>. QED
    BY <2>2, <2>3, <2>4, <2>5 DEF IInv, LoopsAreSound
<1>. QED
  BY <1>3, <1>4 DEF PrepareTurn

\* A Run that ends keeps its generation.
LEMMA CloseRun ==
    ASSUME run \in [RunIds -> Runs], NEW r \in RunIds, NEW st \in RunStatus,
           run' = [run EXCEPT ![r].status = st, ![r].accepting = FALSE]
    PROVE  /\ run' \in [RunIds -> Runs]
           /\ \A q \in RunIds : /\ run'[q].gen = run[q].gen
                                /\ run'[q].status = IF q = r THEN st ELSE run[q].status
<1>. PICK e : e = [run[r] EXCEPT !.status = st, !.accepting = FALSE]
  OBVIOUS
<1>1. run[r] \in Runs
  OBVIOUS
<1>2. e \in Runs /\ e.gen = run[r].gen /\ e.status = st
  BY <1>1 DEF Runs
<1>3. run' = [run EXCEPT ![r] = e]
  OBVIOUS
<1>. QED
  BY <1>2, <1>3

\* The open turn is given up: nothing happens, or the Action fails with its Run.
LEMMA FailTurnLets ==
    ASSUME IInv, NEW r \in RunIds, FailTurn(r)
    PROVE  /\ item' \in [status : LiveStatus \cup {"cancelled"}, stopped : BOOLEAN]
           /\ act' \in Actions /\ run' \in [RunIds -> Runs] /\ turn' \in [RunIds -> Seq(Turns)]
           /\ \A q \in RunIds : turn[q] # <<>> => turn'[q] # <<>> /\ Last(q)'.inputs = Last(q).inputs
           /\ Holds \/ LetsGo
<1>. Rows /\ item \in [status : LiveStatus \cup {"cancelled"}, stopped : BOOLEAN] /\ act \in Actions
  BY DEF IInv, Rows
<1>1. CASE UNCHANGED <<turn, run, act, item>>
  BY <1>1 DEF Rows, Holds, Last
<1>2. CASE ~UNCHANGED <<turn, run, act, item>>
  <2>1. /\ exec[r].open /\ IsActiveRun(r)
        /\ turn' = SetLast(r, "unknown")
        /\ run' = [run EXCEPT ![r].status = "dispatch_unknown", ![r].accepting = FALSE]
        /\ act' = [act EXCEPT !.status = "failed", !.run = NoRun]
        /\ item' = IF item.status = "running" THEN [item EXCEPT !.status = "needs_attention"]
                    ELSE item
    BY <1>2 DEF FailTurn
  <2>2. item' \in [status : LiveStatus \cup {"cancelled"}, stopped : BOOLEAN]
    BY <2>1 DEF LiveStatus
  <2>3. /\ act' \in Actions /\ act'.status = "failed" /\ act'.run = NoRun /\ act'.gen = act.gen
        /\ act'.context = act.context
    BY <2>1 DEF Actions, Unfinished
  <2>4. /\ run' \in [RunIds -> Runs]
        /\ \A q \in RunIds : /\ run'[q].gen = run[q].gen
                             /\ run'[q].status = IF q = r THEN "dispatch_unknown" ELSE run[q].status
    BY <2>1, CloseRun DEF Rows, RunStatus
  <2>5. turn[r] # <<>>
    BY <2>1 DEF IInv, LoopsAreSound, Sound
  <2>6. /\ turn' \in [RunIds -> Seq(Turns)]
        /\ turn'[r] # <<>> /\ Last(r)'.inputs = Last(r).inputs
        /\ \A q \in RunIds : q # r => turn'[q] = turn[q]
    BY <2>1, <2>5, SetLastKeeps
  <2>7. act.run = r /\ run[r].status = "running" /\ act.status \in Unfinished
    BY <2>1 DEF IsActiveRun, Owns, Unfinished
  <2>8. LetsGo
    BY <2>3, <2>4, <2>7 DEF LetsGo, IInv, OneRuns
  <2>. QED
    BY <2>2, <2>3, <2>4, <2>6, <2>8 DEF Last
<1>. QED
  BY <1>1, <1>2

\* A loop whose turn is settled: it goes on, or is about to submit.
LEMMA FailingMoves ==
    ASSUME exec \in [RunIds -> Loops], NEW r \in RunIds, NEW pc \in Pcs,
           exec' = [exec EXCEPT ![r].pc = pc, ![r].open = FALSE]
    PROVE  /\ exec' \in [RunIds -> Loops] /\ exec'[r].pc = pc
           /\ exec'[r].prompt = exec[r].prompt /\ exec'[r].said = exec[r].said
           /\ exec'[r].new = exec[r].new /\ exec'[r].open = FALSE
           /\ \A q \in RunIds : q # r => exec'[q] = exec[q]
<1>. PICK e : e = [exec[r] EXCEPT !.pc = pc, !.open = FALSE]
  OBVIOUS
<1>1. exec[r] \in Loops
  OBVIOUS
<1>2. /\ e \in Loops /\ e.pc = pc /\ e.prompt = exec[r].prompt /\ e.said = exec[r].said
      /\ e.new = exec[r].new /\ e.open = FALSE
  BY <1>1 DEF Loops, Pcs
<1>3. exec' = [exec EXCEPT ![r] = e]
  OBVIOUS
<1>. QED
  BY <1>2, <1>3

LEMMA SettledMoves ==
    ASSUME exec \in [RunIds -> Loops], NEW r \in RunIds, NEW pc \in Pcs,
           exec' = [exec EXCEPT ![r].open = FALSE, ![r].pc = pc]
    PROVE  /\ exec' \in [RunIds -> Loops] /\ exec'[r].pc = pc
           /\ exec'[r].prompt = exec[r].prompt /\ exec'[r].said = exec[r].said
           /\ exec'[r].new = exec[r].new /\ exec'[r].open = FALSE
           /\ \A q \in RunIds : q # r => exec'[q] = exec[q]
<1>. PICK e : e = [exec[r] EXCEPT !.open = FALSE, !.pc = pc]
  OBVIOUS
<1>1. exec[r] \in Loops
  OBVIOUS
<1>2. /\ e \in Loops /\ e.pc = pc /\ e.prompt = exec[r].prompt /\ e.said = exec[r].said
      /\ e.new = exec[r].new /\ e.open = FALSE
  BY <1>1 DEF Loops, Pcs
<1>3. exec' = [exec EXCEPT ![r] = e]
  OBVIOUS
<1>. QED
  BY <1>2, <1>3

LEMMA IdleIsLoop == Idle \in Loops /\ Idle.pc = "none" /\ Idle.open = FALSE
BY DEF Idle, Loops

\* The open turn is given up and the loop is about to submit.
LEMMA FailsKeeps ==
    ASSUME IInv, NEW r \in RunIds, FailTurn(r), UNCHANGED <<row, up, known, dropped, left>>,
           exec' = [exec EXCEPT ![r].pc = "failing", ![r].open = FALSE], exec[r].pc # "none"
    PROVE  IInv' /\ Serves
<1>1. /\ exec' \in [RunIds -> Loops] /\ exec'[r].pc = "failing"
      /\ exec'[r].prompt = exec[r].prompt /\ exec'[r].said = exec[r].said
      /\ exec'[r].new = exec[r].new /\ exec'[r].open = FALSE
      /\ \A q \in RunIds : q # r => exec'[q] = exec[q]
  BY FailingMoves DEF Pcs, IInv, Rows
<1>2. /\ item' \in [status : LiveStatus \cup {"cancelled"}, stopped : BOOLEAN]
      /\ act' \in Actions /\ run' \in [RunIds -> Runs] /\ turn' \in [RunIds -> Seq(Turns)]
      /\ \A q \in RunIds : turn[q] # <<>> => turn'[q] # <<>> /\ Last(q)'.inputs = Last(q).inputs
      /\ Holds \/ LetsGo
  BY FailTurnLets
<1>3. Rows' /\ RowsStay
  BY <1>1, <1>2 DEF IInv, Rows, RowsStay
<1>4. \A q \in RunIds : Rests(q)
  BY <1>1, <1>2 DEF IInv, LoopsAreSound, Sound, Rests
<1>. QED
  BY <1>2, <1>3, <1>4, RestKeeps

LEMMA ClaimTurnKeeps == ASSUME IInv, NEW r \in RunIds, ClaimTurn(r) PROVE IInv' /\ Serves
<1>. Rows /\ exec \in [RunIds -> Loops]
  BY DEF IInv, Rows
<1>1. UNCHANGED <<row, up, known, dropped, left>> /\ exec[r].pc = "prepared"
  BY DEF ClaimTurn
<1>2. exec[r].open /\ turn[r] # <<>>
  BY <1>1 DEF IInv, LoopsAreSound, Sound
<1>3. CASE turn' = SetLast(r, "dispatching") /\ Goto(r, "sent") /\ UNCHANGED <<item, act, run>>
  <2>1. /\ exec' \in [RunIds -> Loops] /\ exec'[r].pc = "sent"
        /\ exec'[r].prompt = exec[r].prompt /\ exec'[r].said = exec[r].said
        /\ exec'[r].new = exec[r].new /\ exec'[r].open = exec[r].open
        /\ \A q \in RunIds : q # r => exec'[q] = exec[q]
    BY <1>3, GotoMoves DEF Pcs
  <2>2. /\ turn' \in [RunIds -> Seq(Turns)]
        /\ turn'[r] # <<>> /\ Last(r)'.inputs = Last(r).inputs
        /\ \A q \in RunIds : q # r => turn'[q] = turn[q]
    BY <1>2, <1>3, SetLastKeeps
  <2>3. Rows' /\ Holds /\ RowsStay
    BY <1>1, <1>3, <2>1, <2>2 DEF Rows, Holds, RowsStay
  <2>4. \A q \in RunIds : Rests(q)
    BY <1>1, <1>2, <2>1, <2>2 DEF IInv, LoopsAreSound, Sound, Rests, Last
  <2>. QED
    BY <1>1, <2>3, <2>4, RestKeeps
<1>4. CASE FailTurn(r) /\ exec' = [exec EXCEPT ![r].pc = "failing", ![r].open = FALSE]
  BY <1>1, <1>4, FailsKeeps
<1>. QED
  BY <1>3, <1>4 DEF ClaimTurn

LEMMA RequestFailsKeeps == ASSUME IInv, NEW r \in RunIds, RequestFails(r) PROVE IInv' /\ Serves
BY FailsKeeps DEF RequestFails

LEMMA AbortKeeps == ASSUME IInv, NEW r \in RunIds, Abort(r) PROVE IInv' /\ Serves
<1>1. UNCHANGED <<row, up, known, dropped, left>> /\ exec' = [exec EXCEPT ![r] = Idle]
  BY DEF Abort
<1>2. FailTurn(r) \/ UNCHANGED <<turn, run, act, item>>
  BY DEF Abort
<1>3. /\ item' \in [status : LiveStatus \cup {"cancelled"}, stopped : BOOLEAN]
      /\ act' \in Actions /\ run' \in [RunIds -> Runs] /\ turn' \in [RunIds -> Seq(Turns)]
      /\ \A q \in RunIds : turn[q] # <<>> => turn'[q] # <<>> /\ Last(q)'.inputs = Last(q).inputs
      /\ Holds \/ LetsGo
  <2>1. CASE FailTurn(r)
    BY <2>1, FailTurnLets
  <2>2. CASE UNCHANGED <<turn, run, act, item>>
    BY <2>2 DEF IInv, Rows, Holds, Last
  <2>. QED
    BY <1>2, <2>1, <2>2
<1>4. exec' \in [RunIds -> Loops] /\ exec'[r] = Idle /\ \A q \in RunIds : q # r => exec'[q] = exec[q]
  BY <1>1, IdleIsLoop DEF IInv, Rows
<1>5. Rows' /\ RowsStay
  BY <1>1, <1>3, <1>4 DEF IInv, Rows, RowsStay
<1>6. \A q \in RunIds : Rests(q)
  <2>1. \A q \in RunIds \ {r} : Rests(q)
    BY <1>3, <1>4 DEF IInv, LoopsAreSound, Sound, Rests
  <2>2. Rests(r)
    BY <1>3, <1>4 DEF Rests, Idle
  <2>. QED
    BY <2>1, <2>2
<1>. QED
  BY <1>1, <1>3, <1>5, <1>6, RestKeeps

Outcomes == {"completed", "waiting", "failed", "retryable"}

\* What a submission does to the tables: nothing, or it ends the Run.
LEMMA SubmitLets ==
    ASSUME IInv, NEW r \in RunIds, NEW outcome \in Outcomes, Submit(r, outcome)
    PROVE  /\ item' \in [status : LiveStatus \cup {"cancelled"}, stopped : BOOLEAN]
           /\ act' \in Actions /\ run' \in [RunIds -> Runs]
           /\ exec' \in [RunIds -> Loops] /\ exec'[r] = Idle
           /\ \A q \in RunIds : q # r => exec'[q] = exec[q]
           /\ Holds \/ LetsGo
           /\ act' = act \/ (LetsGo /\ act.run = r /\ (act'.status = "completed" =>
                                outcome = "completed" /\ act'.result = r))
<1>. /\ Rows /\ item \in [status : LiveStatus \cup {"cancelled"}, stopped : BOOLEAN]
     /\ act \in Actions /\ exec \in [RunIds -> Loops] /\ NoRun \notin RunIds
  BY DEF IInv, Rows, RunIds, NoRun
<1>1. exec' \in [RunIds -> Loops] /\ exec'[r] = Idle /\ \A q \in RunIds : q # r => exec'[q] = exec[q]
  BY IdleIsLoop DEF Submit
<1>2. CASE UNCHANGED <<run, act, item>>
  BY <1>1, <1>2 DEF Rows, Holds
<1>3. CASE ~UNCHANGED <<run, act, item>>
  <2>1. /\ IsActiveRun(r)
        /\ run' = [run EXCEPT ![r].status = outcome, ![r].accepting = FALSE]
        /\ act' = [act EXCEPT !.status = ActionStatusAfter(outcome), !.run = NoRun,
                              !.result = IF outcome = "completed" THEN r ELSE @]
        /\ item' = Become(StatusFor(ActionStatusAfter(outcome)))
    BY <1>3 DEF Submit
  <2>2. /\ ActionStatusAfter(outcome) \in {"completed", "waiting", "ready", "failed"}
        /\ ActionStatusAfter(outcome) = "completed" => outcome = "completed"
        /\ ActionStatusAfter(outcome) = "ready" => act.attempt < MaxAttempts
    BY DEF ActionStatusAfter, Outcomes
  <2>3. item' \in [status : LiveStatus \cup {"cancelled"}, stopped : BOOLEAN]
    <3>1. StatusFor(ActionStatusAfter(outcome)) \in LiveStatus
      BY <2>2 DEF StatusFor, LiveStatus
    <3>. QED
      BY <2>1, <3>1 DEF Become, LiveStatus
  <2>. PICK s : s = ActionStatusAfter(outcome)
    OBVIOUS
  <2>4. act' = [act EXCEPT !.status = s, !.run = NoRun,
                           !.result = IF outcome = "completed" THEN r ELSE act.result]
    BY <2>1
  <2>5. /\ act' \in Actions /\ act'.status = s /\ act'.run = NoRun /\ act'.gen = act.gen
        /\ act'.context = act.context /\ act'.attempt = act.attempt
        /\ outcome = "completed" => act'.result = r
    BY <2>2, <2>4 DEF Actions, Unfinished
  <2>6. /\ run' \in [RunIds -> Runs]
        /\ \A q \in RunIds : /\ run'[q].gen = run[q].gen
                             /\ run'[q].status = IF q = r THEN outcome ELSE run[q].status
    <3>1. run \in [RunIds -> Runs]
      BY DEF Rows
    <3>2. outcome \in RunStatus
      BY DEF Outcomes, RunStatus
    <3>. QED
      BY <2>1, <3>1, <3>2, CloseRun
  <2>7. act.run = r /\ run[r].status = "running" /\ act.status = "running"
    BY <2>1 DEF IsActiveRun, Owns
  <2>8. LetsGo
    <3>1. \A q \in RunIds : run[q].status = "running" => q = r
      BY <2>7 DEF IInv, OneRuns
    <3>2. outcome # "running" /\ outcome # "unused"
      BY DEF Outcomes
    <3>3. \A q \in RunIds : /\ run'[q].status # "running" /\ run'[q].gen = run[q].gen
                            /\ run'[q].status = "unused" <=> run[q].status = "unused"
      BY <2>6, <2>7, <3>1, <3>2
    <3>4. act'.status = "completed" =>
            /\ act.run # NoRun /\ act'.result = act.run
            /\ exec[act.run].pc = "closed" /\ exec'[act.run].pc = "none"
      BY <1>1, <2>2, <2>5, <2>7, IdleIsLoop DEF Submit
    <3>5. /\ act'.status # "running" /\ (act'.status = "ready" => act'.attempt < MaxAttempts)
          /\ act.status \in Unfinished
      BY <2>2, <2>5, <2>7 DEF Unfinished
    <3>. QED
      BY <2>5, <2>7, <3>3, <3>4, <3>5 DEF LetsGo
  <2>. QED
    BY <1>1, <2>2, <2>3, <2>5, <2>6, <2>7, <2>8
<1>. QED
  BY <1>2, <1>3

LEMMA SubmitKeeps == ASSUME IInv, NEW r \in RunIds, NEW o \in Outcomes, Submit(r, o) PROVE IInv' /\ Serves
<1>1. UNCHANGED <<row, turn, up, known, dropped, left>>
  BY DEF Submit
<1>2. /\ item' \in [status : LiveStatus \cup {"cancelled"}, stopped : BOOLEAN]
      /\ act' \in Actions /\ run' \in [RunIds -> Runs]
      /\ exec' \in [RunIds -> Loops] /\ exec'[r] = Idle
      /\ \A q \in RunIds : q # r => exec'[q] = exec[q]
      /\ Holds \/ LetsGo
  BY SubmitLets
<1>3. Rows' /\ RowsStay
  BY <1>1, <1>2 DEF IInv, Rows, RowsStay
<1>4. \A q \in RunIds \ {r} : Rests(q)
  BY <1>1, <1>2 DEF IInv, LoopsAreSound, Sound, Rests, Last
<1>5. Rests(r)
  BY <1>1, <1>2 DEF Rests, Idle, Last
<1>. QED
  BY <1>1, <1>2, <1>3, <1>4, <1>5, RestKeeps

-----------------------------------------------------------------------------
(* Leases, crashes and recovery *)

LEMMA MayStays ==
    ASSUME Rows, NEW c \in {"command", "fault"}, May(c)
    PROVE  left' \in [messages : SUBSET Inputs, command : Nat, fault : Nat]
<1>. DEFINE L == [messages : SUBSET Inputs, command : Nat, fault : Nat]
<1>1. left \in L /\ left[c] > 0
  BY DEF Rows, May
<1>2. CASE c = "command"
  <2>. PICK n : n = left.command - 1
    OBVIOUS
  <2>1. n \in Nat
    BY <1>1, <1>2
  <2>2. left' = [left EXCEPT !.command = n]
    BY <1>2 DEF May
  <2>. QED
    BY <1>1, <2>1, <2>2
<1>3. CASE c = "fault"
  <2>. PICK n : n = left.fault - 1
    OBVIOUS
  <2>1. n \in Nat
    BY <1>1, <1>3
  <2>2. left' = [left EXCEPT !.fault = n]
    BY <1>3 DEF May
  <2>. QED
    BY <1>1, <2>1, <2>2
<1>. QED
  BY <1>2, <1>3

LEMMA LeaseExpiresKeeps == ASSUME IInv, NEW r \in RunIds, LeaseExpires(r) PROVE IInv' /\ Serves
<1>. Rows
  BY DEF IInv
<1>1. /\ run' = [run EXCEPT ![r].fresh = FALSE]
      /\ UNCHANGED <<item, act, row, turn, exec, up, known, dropped>>
  BY DEF LeaseExpires
<1>2. left' \in [messages : SUBSET Inputs, command : Nat, fault : Nat]
  BY MayStays DEF LeaseExpires, FaultIf, Rows
<1>3. run' \in [RunIds -> Runs] /\ \A q \in RunIds : /\ run'[q].status = run[q].status
                                                    /\ run'[q].gen = run[q].gen
                                                    /\ run'[q].accepting = run[q].accepting
  <2>. PICK e : e = [run[r] EXCEPT !.fresh = FALSE]
    OBVIOUS
  <2>1. run[r] \in Runs /\ run \in [RunIds -> Runs]
    BY DEF Rows
  <2>2. e \in Runs /\ e.status = run[r].status /\ e.gen = run[r].gen /\ e.accepting = run[r].accepting
    BY <2>1 DEF Runs
  <2>3. run' = [run EXCEPT ![r] = e]
    BY <1>1
  <2>. QED
    BY <2>1, <2>2, <2>3
<1>4. Rows' /\ Holds /\ RowsStay
  BY <1>1, <1>2, <1>3 DEF Rows, Holds, RowsStay
<1>5. \A q \in RunIds : Rests(q)
  BY <1>1 DEF IInv, LoopsAreSound, Sound, Rests, Last
<1>. QED
  BY <1>1, <1>4, <1>5, RestKeeps

LEMMA StopExecutionKeeps == ASSUME IInv, StopExecution PROVE IInv' /\ Serves
<1>1. UNCHANGED <<act, run, row, turn, exec, up, known, dropped>>
  BY DEF StopExecution
<1>2. Rows' /\ Holds /\ RowsStay
  BY <1>1, MayStays DEF StopExecution, IInv, Rows, Holds, RowsStay, LiveStatus
<1>3. \A q \in RunIds : Rests(q)
  BY <1>1 DEF IInv, LoopsAreSound, Sound, Rests, Last
<1>. QED
  BY <1>1, <1>2, <1>3, RestKeeps

LEMMA CrashKeeps == ASSUME IInv, Crash PROVE IInv' /\ Serves
<1>1. /\ up' = FALSE /\ exec' = [r \in RunIds |-> Idle]
      /\ UNCHANGED <<item, act, run, row, turn, known, dropped>>
  BY DEF Crash
<1>2. Rows' /\ Holds /\ RowsStay
  BY <1>1, MayStays, IdleIsLoop DEF Crash, IInv, Rows, Holds, RowsStay
<1>3. \A q \in RunIds : Rests(q)
  BY <1>1 DEF Rests, Last, Idle
<1>. QED
  BY <1>1, <1>2, <1>3, RestKeeps

\* Recovery in the tables R, A, I, of all Runs in S: the Action that names one
\* of them lets go of it.
LEMMA RecoveredLets ==
    ASSUME NEW R \in [RunIds -> Runs], NEW A \in Actions, NEW S \in SUBSET RunIds,
           NEW I \in [status : LiveStatus \cup {"cancelled"}, stopped : BOOLEAN],
           Recovered(R, A, I, S)
    PROVE  /\ item' \in [status : LiveStatus \cup {"cancelled"}, stopped : BOOLEAN]
           /\ act' \in Actions /\ run' \in [RunIds -> Runs]
           /\ \A r \in RunIds \ S : run'[r] = R[r]
           /\ \A r \in S : run'[r].gen = R[r].gen /\ run'[r].status \in {"interrupted", "superseded"}
           /\ ~(A.status = "running" /\ A.run \in S) => act' = A
           /\ A.status = "running" /\ A.run \in S =>
                /\ act'.run = NoRun /\ act'.gen = A.gen /\ act'.context = A.context
                /\ act'.status \in {"ready", "failed"}
                /\ act'.status = "ready" => act'.attempt < MaxAttempts
<1>. DEFINE owner == A.status = "running" /\ A.run \in S
            next == IF A.attempt < MaxAttempts THEN "ready" ELSE "failed"
<1>1. /\ run' = [r \in RunIds |->
             IF r \notin S THEN R[r]
             ELSE [R[r] EXCEPT !.status = IF owner /\ A.run = r /\ I.status = "running"
                                          THEN "interrupted" ELSE "superseded"]]
      /\ act' = IF owner THEN [A EXCEPT !.status = next, !.run = NoRun] ELSE A
      /\ item' = IF owner /\ I.status \in LiveStatus /\ ~I.stopped
                 THEN [I EXCEPT !.status = StatusFor(next)] ELSE I
  BY DEF Recovered
<1>2. next \in {"ready", "failed"} /\ (next = "ready" => A.attempt < MaxAttempts)
  OBVIOUS
<1>3. item' \in [status : LiveStatus \cup {"cancelled"}, stopped : BOOLEAN]
  <2>1. StatusFor(next) \in LiveStatus
    BY <1>2 DEF StatusFor, LiveStatus
  <2>. QED
    BY <1>1, <2>1
<1>4. ASSUME NEW r \in RunIds
      PROVE  /\ run'[r] \in Runs
             /\ r \notin S => run'[r] = R[r]
             /\ r \in S => run'[r].gen = R[r].gen /\ run'[r].status \in {"interrupted", "superseded"}
  <2>1. CASE r \in S
    <3>. PICK s \in {"interrupted", "superseded"} :
           s = IF owner /\ A.run = r /\ I.status = "running" THEN "interrupted" ELSE "superseded"
      OBVIOUS
    <3>1. run'[r] = [R[r] EXCEPT !.status = s]
      BY <1>1, <2>1
    <3>2. R[r] \in Runs
      OBVIOUS
    <3>. QED
      BY <2>1, <3>1, <3>2 DEF Runs, RunStatus
  <2>2. CASE r \notin S
    BY <1>1, <2>2
  <2>. QED
    BY <2>1, <2>2
<1>5. run' \in [RunIds -> Runs]
  <2>1. run' = [r \in RunIds |-> run'[r]]
    BY <1>1
  <2>. QED
    BY <1>4, <2>1
<1>6. /\ act' \in Actions
      /\ ~owner => act' = A
      /\ owner => /\ act'.run = NoRun /\ act'.gen = A.gen /\ act'.context = A.context
                  /\ act'.status \in {"ready", "failed"}
                  /\ act'.status = "ready" => act'.attempt < MaxAttempts
  <2>1. CASE ~owner
    BY <1>1, <2>1
  <2>2. CASE owner
    <3>. PICK n : n = next
      OBVIOUS
    <3>1. act' = [A EXCEPT !.status = n, !.run = NoRun]
      BY <1>1, <2>2
    <3>. HIDE DEF owner
    <3>. QED
      BY <1>2, <2>2, <3>1 DEF Actions, Unfinished
  <2>. QED
    BY <2>1, <2>2
<1>. QED
  BY <1>3, <1>4, <1>5, <1>6

LEMMA RecoverKeeps == ASSUME IInv, Recover PROVE IInv' /\ Serves
<1>. DEFINE lost == {r \in RunIds : run[r].status = "running" /\ ~run[r].fresh}
<1>0. UNCHANGED <<row, turn, exec, up, known, dropped, left>> /\ Recovered(run, act, item, lost)
  BY DEF Recover
<1>1. /\ run \in [RunIds -> Runs] /\ act \in Actions
      /\ item \in [status : LiveStatus \cup {"cancelled"}, stopped : BOOLEAN]
      /\ lost \in SUBSET RunIds
  BY DEF IInv, Rows
<1>2. \A r \in lost : act.run = r /\ act.status = "running"
  BY DEF IInv, OneRuns, RunIds, NoRun
<1>. HIDE DEF lost
<1>3. /\ item' \in [status : LiveStatus \cup {"cancelled"}, stopped : BOOLEAN]
      /\ act' \in Actions /\ run' \in [RunIds -> Runs]
      /\ \A r \in RunIds \ lost : run'[r] = run[r]
      /\ \A r \in lost : run'[r].gen = run[r].gen /\ run'[r].status \in {"interrupted", "superseded"}
      /\ ~(act.status = "running" /\ act.run \in lost) => act' = act
      /\ act.status = "running" /\ act.run \in lost =>
                /\ act'.run = NoRun /\ act'.gen = act.gen /\ act'.context = act.context
                /\ act'.status \in {"ready", "failed"}
                /\ act'.status = "ready" => act'.attempt < MaxAttempts
  BY <1>0, <1>1, RecoveredLets
<1>4. Rows' /\ RowsStay
  BY <1>0, <1>3 DEF IInv, Rows, RowsStay
<1>5. Holds \/ LetsGo
  <2>1. CASE lost = {}
    BY <1>3, <2>1 DEF Holds
  <2>2. CASE lost # {}
    <3>1. act.status = "running" /\ act.run \in lost /\ lost = {act.run}
      BY <1>2, <2>2
    <3>2. \A r \in RunIds : run[r].status = "running" <=> r \in lost
      BY <3>1 DEF IInv, OneRuns
    <3>. QED
      BY <1>3, <3>1, <3>2 DEF LetsGo, Unfinished
  <2>. QED
    BY <2>1, <2>2
<1>6. \A q \in RunIds : Rests(q)
  BY <1>0 DEF IInv, LoopsAreSound, Sound, Rests, Last
<1>. QED
  BY <1>0, <1>4, <1>5, <1>6, RestKeeps

LEMMA BootTurnsOfRun ==
    ASSUME NEW s \in Seq(Turns), NEW t,
           t = [n \in DOMAIN s |-> IF s[n].status = "dispatching"
                                   THEN [s[n] EXCEPT !.status = "unknown"] ELSE s[n]]
    PROVE  t \in Seq(Turns) /\ (s # <<>> => t # <<>> /\ t[Len(t)].inputs = s[Len(s)].inputs)
<1>. PICK k \in Nat : k = Len(s)
  OBVIOUS
<1>1. DOMAIN s = 1..k
  OBVIOUS
<1>2. ASSUME NEW n \in 1..k
      PROVE  t[n] \in Turns /\ t[n].inputs = s[n].inputs
  <2>1. s[n] \in Turns
    BY <1>1
  <2>2. t[n] = IF s[n].status = "dispatching" THEN [s[n] EXCEPT !.status = "unknown"] ELSE s[n]
    BY <1>1
  <2>3. /\ [s[n] EXCEPT !.status = "unknown"] \in Turns
        /\ [s[n] EXCEPT !.status = "unknown"].inputs = s[n].inputs
    BY <2>1 DEF Turns
  <2>. QED
    BY <2>1, <2>2, <2>3
<1>3. t \in [1..k -> Turns]
  BY <1>1, <1>2
<1>4. t \in Seq(Turns) /\ Len(t) = k
  BY <1>3
<1>. QED
  BY <1>2, <1>4

\* The turns after a start: a request that was dispatched has an unknown fate.
LEMMA BootTurns ==
    ASSUME Rows,
           turn' = [r \in RunIds |-> [n \in DOMAIN turn[r] |->
             IF turn[r][n].status = "dispatching"
             THEN [turn[r][n] EXCEPT !.status = "unknown"] ELSE turn[r][n]]]
    PROVE  /\ turn' \in [RunIds -> Seq(Turns)]
           /\ \A q \in RunIds : turn[q] # <<>> => turn'[q] # <<>> /\ Last(q)'.inputs = Last(q).inputs
<1>1. ASSUME NEW q \in RunIds
      PROVE  /\ turn'[q] \in Seq(Turns)
             /\ turn[q] # <<>> => turn'[q] # <<>> /\ Last(q)'.inputs = Last(q).inputs
  <2>1. turn[q] \in Seq(Turns)
    BY DEF Rows
  <2>2. turn'[q] = [n \in DOMAIN turn[q] |->
             IF turn[q][n].status = "dispatching"
             THEN [turn[q][n] EXCEPT !.status = "unknown"] ELSE turn[q][n]]
    OBVIOUS
  <2>. QED
    BY <2>1, <2>2, BootTurnsOfRun DEF Last
<1>2. turn' \in [RunIds -> Seq(Turns)]
  <2>1. turn' = [r \in RunIds |-> turn'[r]]
    OBVIOUS
  <2>. QED
    BY <1>1, <2>1
<1>. QED
  BY <1>1, <1>2

\* A start of the process ends what was in progress, with its turn or without.
LEMMA BootLets ==
    ASSUME IInv, Boot
    PROVE  /\ item' \in [status : LiveStatus \cup {"cancelled"}, stopped : BOOLEAN]
           /\ act' \in Actions /\ run' \in [RunIds -> Runs]
           /\ Holds \/ LetsGo
<1>. DEFINE asked == {r \in RunIds : \E n \in DOMAIN turn[r] : turn[r][n].status = "dispatching"}
            R == [r \in RunIds |-> IF r \in asked /\ run[r].status = "running"
                  THEN [run[r] EXCEPT !.status = "dispatch_unknown", !.accepting = FALSE] ELSE run[r]]
            A == IF act.status = "running" /\ act.run \in asked
                 THEN [act EXCEPT !.status = "failed", !.run = NoRun] ELSE act
            I == IF asked # {} /\ item.status = "running"
                 THEN [item EXCEPT !.status = "needs_attention"] ELSE item
            S == {r \in RunIds : R[r].status = "running"}
<1>1. Recovered(R, A, I, S) /\ exec' = exec
  BY DEF Boot
<1>. /\ run \in [RunIds -> Runs] /\ act \in Actions /\ NoRun \notin RunIds
     /\ item \in [status : LiveStatus \cup {"cancelled"}, stopped : BOOLEAN]
  BY DEF IInv, Rows, RunIds, NoRun
<1>2. asked \subseteq RunIds
  OBVIOUS
<1>. HIDE DEF asked
<1>3. I \in [status : LiveStatus \cup {"cancelled"}, stopped : BOOLEAN]
  BY DEF LiveStatus
<1>4. /\ A \in Actions
      /\ ~(act.status = "running" /\ act.run \in asked) => A = act
      /\ act.status = "running" /\ act.run \in asked =>
           /\ A.run = NoRun /\ A.status = "failed" /\ A.gen = act.gen /\ A.context = act.context
  BY DEF Actions, Unfinished
<1>5. ASSUME NEW r \in RunIds
      PROVE  /\ R[r] \in Runs /\ R[r].gen = run[r].gen
             /\ ~(r \in asked /\ run[r].status = "running") => R[r] = run[r]
             /\ r \in asked /\ run[r].status = "running" => R[r].status = "dispatch_unknown"
  <2>1. run[r] \in Runs
    OBVIOUS
  <2>2. R[r] = IF r \in asked /\ run[r].status = "running"
                  THEN [run[r] EXCEPT !.status = "dispatch_unknown", !.accepting = FALSE] ELSE run[r]
    OBVIOUS
  <2>. HIDE DEF R
  <2>. QED
    BY <2>1, <2>2 DEF Runs, RunStatus
<1>6. R \in [RunIds -> Runs]
  BY <1>5
<1>7. S = {r \in RunIds : run[r].status = "running" /\ r \notin asked}
  BY <1>5
<1>. HIDE DEF R, A, I, S
<1>8. /\ item' \in [status : LiveStatus \cup {"cancelled"}, stopped : BOOLEAN]
      /\ act' \in Actions /\ run' \in [RunIds -> Runs]
      /\ \A r \in RunIds \ S : run'[r] = R[r]
      /\ \A r \in S : run'[r].gen = R[r].gen /\ run'[r].status \in {"interrupted", "superseded"}
      /\ ~(A.status = "running" /\ A.run \in S) => act' = A
      /\ A.status = "running" /\ A.run \in S =>
                /\ act'.run = NoRun /\ act'.gen = A.gen /\ act'.context = A.context
                /\ act'.status \in {"ready", "failed"}
                /\ act'.status = "ready" => act'.attempt < MaxAttempts
  <2>1. S \in SUBSET RunIds
    BY <1>7
  <2>. QED
    BY <1>1, <1>3, <1>4, <1>6, <2>1, RecoveredLets
<1>9. \A r \in RunIds : run[r].status = "running" => act.run = r /\ act.status = "running"
  BY DEF IInv, OneRuns
<1>10. CASE \A r \in RunIds : run[r].status # "running"
  <2>1. S = {} /\ A = act /\ \A r \in RunIds : R[r] = run[r]
    <3>1. act.status # "running"
      BY <1>10 DEF IInv, OneRuns, Actions
    <3>. QED
      BY <1>4, <1>5, <1>7, <1>10, <3>1
  <2>2. act' = act /\ \A r \in RunIds : run'[r] = run[r]
    BY <1>8, <2>1
  <2>. QED
    BY <1>8, <2>2 DEF Holds
<1>11. ASSUME NEW r \in RunIds, run[r].status = "running"
       PROVE  LetsGo
  <2>1. act.run = r /\ act.status = "running" /\ \A q \in RunIds : run[q].status = "running" <=> q = r
    BY <1>9, <1>11
  <2>2. CASE r \in asked
    <3>1. /\ S = {} /\ A.run = NoRun /\ A.status = "failed"
          /\ A.gen = act.gen /\ A.context = act.context
      BY <1>4, <1>7, <2>1, <2>2
    <3>2. act' = A /\ \A q \in RunIds : run'[q] = R[q]
      BY <1>8, <3>1
    <3>3. \A q \in RunIds : /\ run'[q].status # "running" /\ run'[q].gen = run[q].gen
                            /\ run'[q].status = "unused" <=> run[q].status = "unused"
      BY <1>5, <2>1, <2>2, <3>2
    <3>. QED
      BY <2>1, <3>1, <3>2, <3>3 DEF LetsGo, Unfinished
  <2>3. CASE r \notin asked
    <3>1. S = {r} /\ A = act /\ \A q \in RunIds : R[q] = run[q]
      BY <1>4, <1>5, <1>7, <2>1, <2>3
    <3>2. \A q \in RunIds : /\ run'[q].status # "running" /\ run'[q].gen = run[q].gen
                            /\ run'[q].status = "unused" <=> run[q].status = "unused"
      <4>1. run'[r].gen = run[r].gen /\ run'[r].status \in {"interrupted", "superseded"}
        BY <1>8, <3>1
      <4>2. \A q \in RunIds : q # r => run'[q] = run[q]
        BY <1>8, <3>1
      <4>. QED
        BY <2>1, <4>1, <4>2
    <3>. QED
      BY <1>8, <2>1, <3>1, <3>2 DEF LetsGo, Unfinished
  <2>. QED
    BY <2>2, <2>3
<1>. QED
  BY <1>8, <1>10, <1>11

LEMMA BootKeeps == ASSUME IInv, Boot PROVE IInv' /\ Serves
<1>1. UNCHANGED <<row, exec, known, dropped, left>> /\ up' = TRUE
  BY DEF Boot
<1>2. /\ item' \in [status : LiveStatus \cup {"cancelled"}, stopped : BOOLEAN]
      /\ act' \in Actions /\ run' \in [RunIds -> Runs]
      /\ Holds \/ LetsGo
  BY BootLets
<1>3. /\ turn' \in [RunIds -> Seq(Turns)]
      /\ \A q \in RunIds : turn[q] # <<>> => turn'[q] # <<>> /\ Last(q)'.inputs = Last(q).inputs
  BY BootTurns DEF Boot, IInv
<1>4. Rows' /\ RowsStay
  BY <1>1, <1>2, <1>3 DEF IInv, Rows, RowsStay
<1>5. \A q \in RunIds : Rests(q)
  BY <1>1, <1>3 DEF IInv, LoopsAreSound, Sound, Rests
<1>. QED
  BY <1>1, <1>2, <1>4, <1>5, RestKeeps

-----------------------------------------------------------------------------
(* The Action ends without a result *)

LEMMA BecomeTypes ==
    ASSUME Rows, NEW s \in LiveStatus \cup {"cancelled"}
    PROVE  Become(s) \in [status : LiveStatus \cup {"cancelled"}, stopped : BOOLEAN]
BY DEF Rows, Become, LiveStatus

\* The Action is given a status in which it does not run, and no Run is left.
LEMMA EndKeeps ==
    ASSUME IInv, NEW s \in {"cancelled", "superseded", "closed"}, End(s),
           item' \in [status : LiveStatus \cup {"cancelled"}, stopped : BOOLEAN],
           left' \in [messages : SUBSET Inputs, command : Nat, fault : Nat],
           run' = CancelledRuns \/ (run' = run /\ act.run = NoRun)
    PROVE  IInv' /\ Serves
<1>. act \in Actions /\ run \in [RunIds -> Runs] /\ row \in [Inputs -> InputRows] /\ NoRun \notin RunIds
  BY DEF IInv, Rows, RunIds, NoRun
<1>1. UNCHANGED <<turn, exec, up, known, dropped>> /\ row' = Superseded(Waiting)
  BY DEF End
<1>2. /\ act' \in Actions /\ act'.status = s /\ act'.run = NoRun /\ act'.gen = act.gen
      /\ act'.context = act.context
  BY DEF End, Actions
<1>3. ASSUME NEW r \in RunIds
      PROVE  /\ run'[r] \in Runs /\ run'[r].status # "running" /\ run'[r].gen = run[r].gen
             /\ run'[r].status = "unused" <=> run[r].status = "unused"
  <2>1. CASE run' = CancelledRuns
    <3>. PICK e : e = [run[r] EXCEPT !.status = "cancelled", !.accepting = FALSE]
      OBVIOUS
    <3>1. run[r] \in Runs
      OBVIOUS
    <3>2. e \in Runs /\ e.status = "cancelled" /\ e.gen = run[r].gen
      BY <3>1 DEF Runs, RunStatus
    <3>3. run'[r] = IF run[r].status = "running" THEN e ELSE run[r]
      BY <2>1 DEF CancelledRuns
    <3>. QED
      BY <3>1, <3>2, <3>3
  <2>2. CASE run' = run /\ act.run = NoRun
    BY <2>2 DEF IInv, OneRuns
  <2>. QED
    BY <2>1, <2>2
<1>4. run' \in [RunIds -> Runs]
  <2>1. run' = [r \in RunIds |-> run'[r]]
    BY DEF CancelledRuns
  <2>. QED
    BY <1>3, <2>1
<1>5. row' \in [Inputs -> InputRows]
  BY <1>1, SupersededTypes
<1>6. Rows' /\ LetsGo
  <2>1. act.status \in Unfinished
    BY DEF End
  <2>2. Rows'
    BY <1>1, <1>2, <1>3, <1>4, <1>5 DEF IInv, Rows
  <2>. QED
    BY <1>1, <1>2, <1>3, <2>1, <2>2 DEF LetsGo
<1>7. RowsStay
  BY <1>1, <1>2, <1>6 DEF RowsStay
<1>8. \A q \in RunIds : Rests(q)
  BY <1>1 DEF IInv, LoopsAreSound, Sound, Rests, Last
<1>. QED
  BY <1>1, <1>6, <1>7, <1>8, RestKeeps

LEMMA CancelItemKeeps == ASSUME IInv, CancelItem PROVE IInv' /\ Serves
<1>1. item' \in [status : LiveStatus \cup {"cancelled"}, stopped : BOOLEAN]
  BY BecomeTypes DEF CancelItem, IInv
<1>2. left' \in [messages : SUBSET Inputs, command : Nat, fault : Nat]
  BY MayStays DEF CancelItem, IInv
<1>. QED
  BY <1>1, <1>2, EndKeeps DEF CancelItem

LEMMA ResumeExecutionKeeps == ASSUME IInv, ResumeExecution PROVE IInv' /\ Serves
<1>1. item' \in [status : LiveStatus \cup {"cancelled"}, stopped : BOOLEAN]
  BY DEF ResumeExecution, LiveStatus
<1>2. left' \in [messages : SUBSET Inputs, command : Nat, fault : Nat]
  BY DEF ResumeExecution, IInv, Rows
<1>. QED
  BY <1>1, <1>2, EndKeeps DEF ResumeExecution

LEMMA CloseActionKeeps ==
    ASSUME IInv, NEW s \in {"closed", "superseded"}, CloseAction(s) PROVE IInv' /\ Serves
<1>1. item' \in [status : LiveStatus \cup {"cancelled"}, stopped : BOOLEAN]
  BY DEF CloseAction, IInv, Rows
<1>2. left' \in [messages : SUBSET Inputs, command : Nat, fault : Nat]
  BY MayStays DEF CloseAction, IInv
<1>3. run' = run /\ act.run = NoRun
  BY DEF CloseAction, IInv, OneRuns
<1>. QED
  BY <1>1, <1>2, <1>3, EndKeeps DEF CloseAction

-----------------------------------------------------------------------------
(* The Action starts again *)

\* What a restart does to the rows: those that were sent keep their dates, and
\* the message of the restart, if any, is in the new context.
Restarted(S) ==
    /\ S \subseteq Inputs \ Sent
    /\ \A j \in Sent : /\ row'[j].gen = row[j].gen /\ row'[j].event = row[j].event
                       /\ row'[j].state # "none"
    /\ \A j \in Inputs \ Sent : j \notin S => row'[j] = row[j]
    /\ \A j \in S : /\ row'[j].state = "direct"
                    /\ row'[j].gen = act.gen + 1 /\ row'[j].event = act.gen + 1

LEMMA RestartKeeps ==
    ASSUME IInv, NEW S \in SUBSET Inputs, Restart(S), Restarted(S),
           row' \in [Inputs -> InputRows], run' \in [RunIds -> Runs],
           item' \in [status : LiveStatus \cup {"cancelled"}, stopped : BOOLEAN],
           left' \in [messages : SUBSET Inputs, command : Nat, fault : Nat],
           \A r \in RunIds : /\ run'[r].status # "running" /\ run'[r].gen = run[r].gen
                             /\ run'[r].status = "unused" <=> run[r].status = "unused"
    PROVE  IInv'
<1>. /\ act \in Actions /\ row \in [Inputs -> InputRows] /\ NoRun \notin RunIds
     /\ MaxAttempts \in Nat \ {0}
  BY InputsAssumption DEF IInv, Rows, RunIds, NoRun
<1>1. /\ act' = [act EXCEPT !.status = "ready", !.gen = @ + 1, !.context = S,
                            !.run = NoRun, !.attempt = 0, !.result = NoRun]
      /\ dropped' = dropped \cup Sent
      /\ UNCHANGED <<turn, exec, up, known>>
  BY DEF Restart, Sent
<1>2. /\ act' \in Actions /\ act'.status = "ready" /\ act'.gen = act.gen + 1 /\ act'.context = S
      /\ act'.run = NoRun /\ act'.attempt = 0
  <2>. PICK g : g = act.gen + 1
    OBVIOUS
  <2>1. g \in Nat
    BY DEF Actions
  <2>2. act' = [act EXCEPT !.status = "ready", !.gen = g, !.context = S,
                           !.run = NoRun, !.attempt = 0, !.result = NoRun]
    BY <1>1
  <2>3. act' = [status |-> "ready", gen |-> g, context |-> S, run |-> NoRun, attempt |-> 0,
                isolated |-> act.isolated, result |-> NoRun]
    BY <2>2 DEF Actions
  <2>4. 0 \in 0..MaxAttempts /\ act.isolated \in BOOLEAN
    BY DEF Actions
  <2>5. act' \in Actions
    BY <2>1, <2>3, <2>4 DEF Actions, Unfinished
  <2>. QED
    BY <2>3, <2>5
<1>3. dropped \subseteq Sent
  BY DEF IInv, RowsAreDated
<1>4. Sent' = Sent \cup S
  <2>1. \A j \in Inputs \ Sent : row[j].state = "none"
    BY DEF Sent, Unsent
  <2>. QED
    BY <2>1 DEF Sent, Unsent, Restarted
<1>5. Rows'
  BY <1>1, <1>2, <1>3 DEF IInv, Rows, Sent
<1>6. OneRuns'
  <2>1. \A r \in RunIds : run[r].gen <= act.gen /\ run'[r].gen \in Nat
    BY DEF IInv, OneRuns, Runs
  <2>2. \A r \in RunIds : run'[r].gen <= act'.gen
    BY <1>2, <2>1 DEF Actions
  <2>. QED
    BY <1>1, <1>2, <2>2 DEF IInv, OneRuns
<1>7. RowsAreDated'
  <2>1. ASSUME NEW j \in Inputs
        PROVE  /\ row'[j].gen = row'[j].event /\ row'[j].gen <= act'.gen
               /\ j \in Sent => row'[j].gen < act'.gen
    <3>1. row[j].gen = row[j].event /\ row[j].gen <= act.gen /\ row[j].gen \in Nat /\ act.gen \in Nat
      BY DEF IInv, RowsAreDated, InputRows, Actions
    <3>. QED
      BY <1>2, <3>1 DEF Restarted
  <2>2. dropped' = Sent
    BY <1>1, <1>3
  <2>. QED
    BY <1>4, <2>1, <2>2 DEF RowsAreDated, Sent
<1>8. ContextIsRead'
  <2>1. \A j \in S : row'[j].state = "direct" /\ j \notin dropped'
    BY <1>1, <1>3 DEF Restarted
  <2>. QED
    BY <1>2, <1>4, <2>1 DEF ContextIsRead, Waiting
<1>9. KeptIsCarried'
  <2>1. Kept' \subseteq S
    BY <1>1, <1>4 DEF Kept
  <2>. QED
    BY <1>2, <2>1 DEF KeptIsCarried
<1>10. LoopsAreSound'
  BY <1>1, <1>4 DEF IInv, LoopsAreSound, Sound, InRequest, Last
<1>11. LoopIsCurrent'
  BY <1>2 DEF LoopIsCurrent
<1>. QED
  BY <1>5, <1>6, <1>7, <1>8, <1>9, <1>10, <1>11 DEF IInv

LEMMA AddToSettledKeeps == ASSUME IInv, NEW i \in Inputs, AddToSettled(i) PROVE IInv'
<1>. act \in Actions /\ row \in [Inputs -> InputRows] /\ NoRun \in RunIds \cup {NoRun}
  BY DEF IInv, Rows
<1>1. /\ i \notin Sent /\ Restart({i}) /\ UNCHANGED <<item, run>>
      /\ act.run = NoRun
  BY DEF AddToSettled, IInv, OneRuns, Sent
<1>. PICK g \in Nat : g = act.gen + 1
  BY DEF Actions
<1>2. row' = [row EXCEPT ![i] = [state |-> "direct", run |-> NoRun, gen |-> g, event |-> g]]
  BY DEF AddToSettled
<1>3. row' \in [Inputs -> InputRows]
  BY <1>2 DEF InputRows
<1>4. Restarted({i})
  <2>1. \A j \in Inputs : j # i => row'[j] = row[j]
    BY <1>2
  <2>2. row'[i].state = "direct" /\ row'[i].gen = g /\ row'[i].event = g
    BY <1>2
  <2>. QED
    BY <1>1, <2>1, <2>2 DEF Restarted, Sent, Unsent
<1>5. left' \in [messages : SUBSET Inputs, command : Nat, fault : Nat]
  BY MayStays DEF AddToSettled, IInv
<1>6. \A r \in RunIds : run[r].status # "running"
  BY <1>1 DEF IInv, OneRuns, RunIds, NoRun
<1>. QED
  BY <1>1, <1>3, <1>4, <1>5, <1>6, RestartKeeps DEF IInv, Rows

LEMMA RetryKeeps == ASSUME IInv, Retry PROVE IInv'
<1>1. Restart({}) /\ UNCHANGED <<item, run, row>> /\ act.run = NoRun
  BY DEF Retry, IInv, OneRuns
<1>2. Restarted({})
  BY <1>1 DEF Restarted, Sent, Unsent
<1>3. left' \in [messages : SUBSET Inputs, command : Nat, fault : Nat]
  BY MayStays DEF Retry, IInv
<1>4. \A r \in RunIds : run[r].status # "running"
  BY <1>1 DEF IInv, OneRuns, RunIds, NoRun
<1>. QED
  BY <1>1, <1>2, <1>3, <1>4, RestartKeeps DEF IInv, Rows

LEMMA GuideActionsKeeps == ASSUME IInv, GuideActions PROVE IInv'
<1>1. Restart({}) /\ UNCHANGED <<run, row>> /\ act.run = NoRun
  BY DEF GuideActions, IInv, OneRuns
<1>2. Restarted({})
  BY <1>1 DEF Restarted, Sent, Unsent
<1>3. left' \in [messages : SUBSET Inputs, command : Nat, fault : Nat]
  BY MayStays DEF GuideActions, IInv
<1>4. \A r \in RunIds : run[r].status # "running"
  BY <1>1 DEF IInv, OneRuns, RunIds, NoRun
<1>5. item' \in [status : LiveStatus \cup {"cancelled"}, stopped : BOOLEAN]
  BY BecomeTypes DEF GuideActions, IInv, LiveStatus
<1>. QED
  BY <1>1, <1>2, <1>3, <1>4, <1>5, RestartKeeps DEF IInv, Rows

LEMMA AddGuidanceKeeps == ASSUME IInv, AddGuidance PROVE IInv'
<1>. row \in [Inputs -> InputRows] /\ run \in [RunIds -> Runs] /\ act \in Actions
  BY DEF IInv, Rows
<1>1. Restart({}) /\ row' = Superseded(Waiting)
  BY DEF AddGuidance
<1>2. row' \in [Inputs -> InputRows] /\ Restarted({})
  <2>. PICK W : W = Waiting
    OBVIOUS
  <2>0. \A j \in W : row[j].state # "none"
    BY DEF Waiting
  <2>1. /\ row' \in [Inputs -> InputRows]
        /\ \A j \in Inputs : /\ row'[j].gen = row[j].gen /\ row'[j].event = row[j].event
                             /\ row'[j].state = IF j \in W THEN "superseded" ELSE row[j].state
                             /\ j \notin W => row'[j] = row[j]
    BY <1>1, SupersededTypes
  <2>. QED
    BY <2>0, <2>1 DEF Restarted, Sent, Unsent
<1>3. left' \in [messages : SUBSET Inputs, command : Nat, fault : Nat]
  BY MayStays DEF AddGuidance, IInv
<1>4. item' \in [status : LiveStatus \cup {"cancelled"}, stopped : BOOLEAN]
  BY BecomeTypes DEF AddGuidance, IInv, LiveStatus
<1>5. /\ run' \in [RunIds -> Runs]
      /\ \A r \in RunIds : /\ run'[r].status # "running" /\ run'[r].gen = run[r].gen
                           /\ run'[r].status = "unused" <=> run[r].status = "unused"
  <2>1. CASE act.status = "running"
    <3>. PICK q : q = act.run
      OBVIOUS
    <3>1. q \in RunIds /\ run[q].status = "running" /\ \A r \in RunIds : run[r].status = "running" => r = q
      BY <2>1 DEF IInv, OneRuns, Actions
    <3>2. run' = [run EXCEPT ![q].status = "superseded"]
      BY <2>1 DEF AddGuidance
    <3>. PICK e : e = [run[q] EXCEPT !.status = "superseded"]
      OBVIOUS
    <3>3. run[q] \in Runs
      BY <3>1
    <3>4. e \in Runs /\ e.status = "superseded" /\ e.gen = run[q].gen
      BY <3>3 DEF Runs, RunStatus
    <3>5. run' = [run EXCEPT ![q] = e]
      BY <3>2
    <3>. QED
      BY <3>1, <3>4, <3>5
  <2>2. CASE act.status # "running"
    BY <2>2 DEF AddGuidance, IInv, OneRuns, RunIds, NoRun
  <2>. QED
    BY <2>1, <2>2
<1>. QED
  BY <1>1, <1>2, <1>3, <1>4, <1>5, RestartKeeps

-----------------------------------------------------------------------------
(* A user adds a message *)

LEMMA AddToRunningKeeps == ASSUME IInv, NEW i \in Inputs, AddToRunning(i) PROVE IInv'
<1>. /\ act \in Actions /\ row \in [Inputs -> InputRows] /\ NoRun \notin RunIds
  BY DEF IInv, Rows, RunIds, NoRun
<1>1. /\ UNCHANGED <<item, act, run, turn, exec, up, known, dropped, left>>
      /\ i \notin Sent /\ act.status = "running" /\ run[act.run].accepting
  BY DEF AddToRunning, Sent, Accepting
<1>2. act.run \in RunIds /\ act.gen \in Nat
  BY <1>1 DEF IInv, OneRuns, Actions
<1>. PICK e : e = [state |-> "waiting", run |-> act.run, gen |-> act.gen, event |-> act.gen]
  OBVIOUS
<1>3. e \in InputRows /\ e.state = "waiting" /\ e.run = act.run /\ e.gen = act.gen /\ e.event = act.gen
  BY <1>2 DEF InputRows
<1>4. row' = [row EXCEPT ![i] = e]
  BY DEF AddToRunning
<1>5. row' \in [Inputs -> InputRows] /\ row'[i] = e /\ \A j \in Inputs : j # i => row'[j] = row[j]
  BY <1>3, <1>4
<1>6. row[i].state = "none" /\ i \notin dropped /\ i \notin act.context
  BY <1>1 DEF Sent, Unsent, IInv, RowsAreDated, ContextIsRead
<1>7. Sent' = Sent \cup {i} /\ Waiting' = Waiting \cup {i}
  <2>1. \A j \in Inputs : row'[j].state = IF j = i THEN "waiting" ELSE row[j].state
    BY <1>3, <1>5
  <2>. QED
    BY <1>6, <2>1 DEF Sent, Unsent, Waiting
<1>8. Rows' /\ OneRuns'
  BY <1>1, <1>5 DEF IInv, Rows, OneRuns
<1>9. RowsAreDated'
  <2>1. ASSUME NEW j \in Inputs
        PROVE  row'[j].gen = row'[j].event /\ row'[j].gen <= act.gen
    BY <1>2, <1>3, <1>5 DEF IInv, RowsAreDated
  <2>2. \A j \in dropped : j # i
    BY <1>6
  <2>. QED
    BY <1>1, <1>5, <1>7, <2>1, <2>2 DEF IInv, RowsAreDated, Sent
<1>10. ContextIsRead'
  <2>1. \A j \in act.context : row'[j] = row[j] /\ j # i
    BY <1>5, <1>6 DEF Actions
  <2>2. act.status # "ready"
    BY <1>1
  <2>. QED
    BY <1>1, <1>3, <1>5, <1>7, <2>1, <2>2 DEF IInv, ContextIsRead, Live, Waiting
<1>11. KeptIsCarried'
  <2>1. ASSUME NEW j \in Kept' \ act'.context PROVE Carried(j)'
    <3>1. CASE j = i
      BY <1>1, <1>3, <1>5, <3>1 DEF Carried
    <3>2. CASE j # i
      <4>1. j \in Kept \ act.context /\ row'[j] = row[j]
        BY <1>1, <1>5, <1>7, <3>2 DEF Kept, Sent
      <4>2. Carried(j)
        BY <1>1, <4>1 DEF IInv, KeptIsCarried, Live
      <4>. QED
        BY <1>1, <4>1, <4>2 DEF Carried
    <3>. QED
      BY <3>1, <3>2
  <2>. QED
    BY <2>1 DEF KeptIsCarried
<1>12. LoopsAreSound'
  BY <1>1, <1>7 DEF IInv, LoopsAreSound, Sound, InRequest, Last
<1>13. LoopIsCurrent'
  BY <1>1 DEF IInv, LoopIsCurrent, Current
<1>. QED
  BY <1>8, <1>9, <1>10, <1>11, <1>12, <1>13 DEF IInv

\* The rows after a message was added to a ready Action.
AddedRow(i, j, next) ==
    IF j = i THEN [state |-> "direct", run |-> NoRun, gen |-> next, event |-> next]
    ELSE IF j \in Inherited THEN [row[j] EXCEPT !.run = NoRun, !.gen = next, !.event = next]
    ELSE IF j \in Waiting THEN [row[j] EXCEPT !.state = "superseded"]
    ELSE row[j]

LEMMA AddedRowTypes ==
    ASSUME row \in [Inputs -> InputRows], NEW i \in Inputs, NEW j \in Inputs, NEW next \in Nat,
           NEW e, e = AddedRow(i, j, next)
    PROVE  /\ e \in InputRows
           /\ j = i => e.state = "direct" /\ e.gen = next /\ e.event = next
           /\ j # i /\ j \in Inherited => /\ e.state = row[j].state /\ e.run = NoRun
                                          /\ e.gen = next /\ e.event = next
           /\ j # i /\ j \notin Inherited => /\ e.gen = row[j].gen /\ e.event = row[j].event
                                             /\ e.run = row[j].run
                                             /\ e.state = IF j \in Waiting THEN "superseded"
                                                          ELSE row[j].state
<1>1. row[j] \in InputRows
  OBVIOUS
<1>2. CASE j = i
  BY <1>2 DEF AddedRow, InputRows
<1>3. CASE j # i /\ j \in Inherited
  <2>1. e = [row[j] EXCEPT !.run = NoRun, !.gen = next, !.event = next]
    BY <1>3 DEF AddedRow
  <2>. QED
    BY <1>1, <1>3, <2>1 DEF InputRows
<1>4. CASE j # i /\ j \notin Inherited
  <2>1. e = IF j \in Waiting THEN [row[j] EXCEPT !.state = "superseded"] ELSE row[j]
    BY <1>4 DEF AddedRow
  <2>. QED
    BY <1>1, <1>4, <2>1 DEF InputRows
<1>. QED
  BY <1>2, <1>3, <1>4

LEMMA AddToReadyKeeps == ASSUME IInv, NEW i \in Inputs, AddToReady(i) PROVE IInv'
<1>. /\ act \in Actions /\ row \in [Inputs -> InputRows] /\ NoRun \notin RunIds
     /\ MaxAttempts \in Nat \ {0}
  BY InputsAssumption DEF IInv, Rows, RunIds, NoRun
<1>1. /\ UNCHANGED <<item, run, turn, exec, up, known, dropped, left>>
      /\ i \notin Sent /\ act.status = "ready"
  BY DEF AddToReady, Sent
<1>. PICK g \in Nat : g = act.gen + 1
  BY DEF Actions
<1>. PICK C : C = act.context \cup CurrentInputs \cup {i}
  OBVIOUS
<1>2. /\ act' = [act EXCEPT !.context = C, !.gen = g, !.attempt = 0, !.result = NoRun]
      /\ row' = [j \in Inputs |-> AddedRow(i, j, g)]
  BY DEF AddToReady, AddedRow
<1>3. act.run = NoRun /\ \A r \in RunIds : run[r].status # "running"
  BY <1>1 DEF IInv, OneRuns
<1>4. /\ \A j \in Inputs : row[j].gen = row[j].event /\ row[j].gen <= act.gen
      /\ dropped \subseteq Sent /\ \A j \in dropped : row[j].gen < act.gen
      /\ act.gen \in Nat /\ \A j \in Inputs : row[j].gen \in Nat /\ row[j] \in InputRows
  BY DEF IInv, RowsAreDated, Actions, InputRows
<1>5. \A j \in Inputs : j \in Inherited <=> (row[j].state = "waiting" /\ row[j].gen = act.gen)
  BY <1>3 DEF Inherited, Waiting, SourceStopped, InputRows
<1>6. \A j \in Inputs : j \in CurrentInputs <=>
                           row[j].state \notin {"none", "superseded"} /\ row[j].gen = act.gen
  BY <1>4 DEF CurrentInputs
<1>7. row[i].state = "none" /\ i \notin dropped
  BY <1>1, <1>4 DEF Sent, Unsent
<1>8. ASSUME NEW j \in Inputs
      PROVE  /\ row'[j] \in InputRows
             /\ j = i => row'[j].state = "direct" /\ row'[j].gen = g /\ row'[j].event = g
             /\ j # i /\ j \in Inherited => /\ row'[j].state = row[j].state /\ row'[j].run = NoRun
                                            /\ row'[j].gen = g /\ row'[j].event = g
             /\ j # i /\ j \notin Inherited => /\ row'[j].gen = row[j].gen
                                               /\ row'[j].event = row[j].event
                                               /\ row'[j].state = IF row[j].state = "waiting"
                                                                  THEN "superseded" ELSE row[j].state
  <2>1. row'[j] = AddedRow(i, j, g)
    BY <1>2
  <2>2. j \in Waiting <=> row[j].state = "waiting"
    BY DEF Waiting
  <2>. QED
    BY <2>1, <2>2, AddedRowTypes
<1>9. row' \in [Inputs -> InputRows]
  <2>1. row' = [j \in Inputs |-> row'[j]]
    BY <1>2
  <2>. QED
    BY <1>8, <2>1
<1>10. C \subseteq Inputs
  BY DEF Actions, CurrentInputs
<1>11. /\ act' \in Actions /\ act'.status = "ready" /\ act'.run = NoRun
       /\ act'.gen = g /\ act'.context = C /\ act'.attempt = 0
  <2>1. act' = [status |-> "ready", gen |-> g, context |-> C, run |-> NoRun, attempt |-> 0,
                isolated |-> act.isolated, result |-> NoRun]
    BY <1>1, <1>2, <1>3 DEF Actions
  <2>2. 0 \in 0..MaxAttempts /\ act.isolated \in BOOLEAN
    BY DEF Actions
  <2>3. act' \in Actions
    BY <1>10, <2>1, <2>2 DEF Actions, Unfinished
  <2>. QED
    BY <2>1, <2>3
<1>12. Sent' = Sent \cup {i}
  <2>1. \A j \in Inputs : row'[j].state = "none" <=> (row[j].state = "none" /\ j # i)
    BY <1>5, <1>8
  <2>. QED
    BY <2>1 DEF Sent, Unsent
<1>13. Rows'
  BY <1>1, <1>9, <1>11 DEF IInv, Rows
<1>14. OneRuns'
  <2>1. \A r \in RunIds : run[r].gen <= act.gen /\ run[r].gen \in Nat
    BY DEF IInv, OneRuns, Rows, Runs
  <2>2. \A r \in RunIds : run[r].gen <= g
    BY <1>4, <2>1
  <2>. QED
    BY <1>1, <1>3, <1>11, <2>2 DEF IInv, OneRuns
<1>15. RowsAreDated'
  <2>1. ASSUME NEW j \in Inputs
        PROVE  row'[j].gen = row'[j].event /\ row'[j].gen <= g
    <3>. PICK h \in Nat : h = row[j].gen
      BY <1>4
    <3>. QED
      BY <1>4, <1>8
  <2>2. ASSUME NEW j \in dropped
        PROVE  row'[j].gen < g
    <3>1. j \in Inputs /\ j # i /\ row[j].gen < act.gen
      BY <1>4, <1>7 DEF Sent
    <3>2. j \notin Inherited
      BY <1>4, <1>5, <3>1
    <3>. QED
      BY <1>4, <1>8, <3>1, <3>2
  <2>. QED
    BY <1>1, <1>4, <1>11, <1>12, <2>1, <2>2 DEF RowsAreDated
<1>16. ASSUME NEW j \in C
       PROVE  /\ j \in Sent \cup {i} /\ j \notin dropped /\ row'[j].state # "superseded"
              /\ row'[j].state = "waiting" => row'[j].run = NoRun /\ row'[j].gen = g
  <2>1. j \in Inputs
    BY <1>10
  <2>2. CASE j = i
    BY <1>7, <1>8, <2>2
  <2>3. CASE j # i /\ j \in act.context
    <3>1. j \in Sent /\ j \notin dropped /\ row[j].state # "superseded"
      BY <1>1, <2>1, <2>3 DEF IInv, ContextIsRead, Live
    <3>2. row[j].state = "waiting" => row[j].gen = act.gen
      BY <1>1, <2>1, <2>3 DEF IInv, ContextIsRead, Waiting
    <3>. QED
      BY <1>5, <1>8, <2>1, <2>3, <3>1, <3>2
  <2>4. CASE j # i /\ j \in CurrentInputs
    <3>1. row[j].state \notin {"none", "superseded"} /\ row[j].gen = act.gen
      BY <1>6, <2>1, <2>4
    <3>2. j \in Sent /\ j \notin dropped
      BY <1>4, <2>1, <3>1 DEF Sent, Unsent
    <3>. QED
      BY <1>5, <1>8, <2>1, <2>4, <3>1, <3>2
  <2>. QED
    BY <2>2, <2>3, <2>4
<1>17. ContextIsRead'
  BY <1>1, <1>11, <1>12, <1>16 DEF ContextIsRead, Waiting
<1>18. ASSUME NEW j \in Sent \cup {i}, row'[j].state # "superseded", j \notin dropped
       PROVE  j \in C
  <2>1. CASE j # i
    <3>1. j \in Inputs /\ j \in Sent
      BY <1>18, <2>1 DEF Sent
    <3>2. j \in Kept
      <4>1. row[j].state # "superseded"
        BY <1>5, <1>8, <1>18, <2>1, <3>1
      <4>. QED
        BY <1>18, <3>1, <4>1 DEF Kept
    <3>3. j \in act.context \/ Carried(j)
      BY <1>1, <3>2 DEF IInv, KeptIsCarried, Live
    <3>. QED
      BY <1>6, <3>1, <3>3 DEF Carried
  <2>. QED
    BY <2>1
<1>19. KeptIsCarried'
  <2>1. Kept' \subseteq C
    BY <1>1, <1>12, <1>18 DEF Kept
  <2>. QED
    BY <1>11, <2>1 DEF KeptIsCarried
<1>20. LoopsAreSound'
  BY <1>1, <1>12 DEF IInv, LoopsAreSound, Sound, InRequest, Last
<1>21. LoopIsCurrent'
  BY <1>11 DEF LoopIsCurrent
<1>. QED
  BY <1>13, <1>14, <1>15, <1>17, <1>19, <1>20, <1>21 DEF IInv

-----------------------------------------------------------------------------
(* Claiming *)

\* A set of numbers that is not empty has a least one.
LEMMA LeastNatural ==
    ASSUME NEW T, T \subseteq Nat, T # {}
    PROVE  \E m \in T : \A k \in T : m <= k
<1>. DEFINE R == {p \in Nat \X Nat : p[1] < p[2]}
<1>1. R = OpToRel(<, Nat)
  BY DEF OpToRel
<1>2. IsWellFoundedOn(R, Nat)
  BY <1>1, NatLessThanWellFounded
<1>3. PICK m \in T : \A k \in T : ~(<<k, m>> \in R)
  BY <1>2, WFMin
<1>4. ASSUME NEW k \in T, k < m
      PROVE  FALSE
  <2>1. <<k, m>> \in Nat \X Nat /\ <<k, m>>[1] < <<k, m>>[2]
    BY <1>4
  <2>2. <<k, m>> \in R
    BY <2>1
  <2>. QED
    BY <2>2, <1>3
<1>. QED
  BY <1>4

\* The next Run is the first that was never used.
LEMMA NextRunIsFirst ==
    ASSUME HasRun
    PROVE  NextRun \in RunIds /\ run[NextRun].status = "unused"
<1>. DEFINE T == {r \in RunIds : run[r].status = "unused"}
<1>1. T \subseteq Nat /\ T # {}
  BY InputsAssumption DEF HasRun, RunIds
<1>2. PICK m \in T : \A k \in T : m <= k
  BY <1>1, LeastNatural
<1>3. \E r \in RunIds : /\ run[r].status = "unused"
                        /\ \A q \in RunIds : run[q].status = "unused" => r <= q
  BY <1>2
<1>. QED
  BY <1>3 DEF NextRun

LEMMA ClaimKeeps == ASSUME IInv, Claim PROVE IInv'
<1>. /\ act \in Actions /\ row \in [Inputs -> InputRows] /\ NoRun \notin RunIds
     /\ run \in [RunIds -> Runs] /\ exec \in [RunIds -> Loops]
     /\ MaxAttempts \in Nat \ {0}
  BY InputsAssumption DEF IInv, Rows, RunIds, NoRun
<1>. PICK C : C = act.context \cup Promoted
  OBVIOUS
<1>g. PICK g : g = act.gen + (IF C # act.context THEN 1 ELSE 0)
  OBVIOUS
<1>n. PICK n : n = IF C # act.context THEN 1 ELSE act.attempt + 1
  OBVIOUS
<1>. PICK r : r = NextRun
  OBVIOUS
<1>1. /\ UNCHANGED <<turn, up, known, dropped, left>>
      /\ act.status = "ready" /\ r \in RunIds /\ run[r].status = "unused"
      /\ item' = Become("running")
  BY NextRunIsFirst DEF Claim
<1>2. /\ act' = [act EXCEPT !.status = "running", !.run = r, !.context = C, !.gen = g, !.attempt = n]
      /\ row' = [i \in Inputs |-> IF i \in Promoted
                THEN [state |-> "consumed", run |-> NoRun, gen |-> g, event |-> g]
                ELSE row[i]]
      /\ run' = [run EXCEPT ![r] = [status |-> "running", gen |-> g,
                                    accepting |-> TRUE, fresh |-> TRUE]]
      /\ exec' = [exec EXCEPT ![r] = [Idle EXCEPT !.pc = "setup", !.prompt = C]]
  BY <1>g, <1>n DEF Claim
<1>3. act.run = NoRun /\ \A q \in RunIds : run[q].status # "running"
  BY <1>1 DEF IInv, OneRuns
<1>4. /\ \A j \in Inputs : row[j].gen = row[j].event /\ row[j].gen <= act.gen
      /\ dropped \subseteq Sent /\ \A j \in dropped : row[j].gen < act.gen
      /\ act.gen \in Nat /\ \A j \in Inputs : row[j].gen \in Nat /\ row[j] \in InputRows
  BY DEF IInv, RowsAreDated, Actions, InputRows
<1>5. \A j \in Inputs : j \in Promoted <=>
        /\ row[j].gen = act.gen
        /\ row[j].state = "waiting" \/ (row[j].state = "consumed" /\ row[j].run # NoRun)
  BY <1>3 DEF Promoted, Waiting, SourceStopped, InputRows
<1>6. g \in Nat /\ (g = act.gen \/ g = act.gen + 1) /\ n \in 1..MaxAttempts
      /\ (C = act.context => g = act.gen)
  BY <1>g, <1>n, <1>1, <1>4 DEF IInv, OneRuns, Actions
<1>7. C \subseteq Inputs /\ Promoted \subseteq Inputs
  BY DEF Actions, Promoted
<1>8. /\ act' \in Actions /\ act'.status = "running" /\ act'.run = r
      /\ act'.gen = g /\ act'.context = C
  <2>1. act' = [status |-> "running", gen |-> g, context |-> C, run |-> r, attempt |-> n,
                isolated |-> act.isolated, result |-> act.result]
    BY <1>2 DEF Actions
  <2>2. n \in 0..MaxAttempts /\ act.isolated \in BOOLEAN /\ act.result \in RunIds \cup {NoRun}
    BY <1>6 DEF Actions
  <2>3. act' \in Actions
    BY <1>1, <1>6, <1>7, <2>1, <2>2 DEF Actions, Unfinished
  <2>. QED
    BY <2>1, <2>3
<1>9. ASSUME NEW j \in Inputs
      PROVE  /\ row'[j] \in InputRows
             /\ j \in Promoted => /\ row'[j].state = "consumed" /\ row'[j].run = NoRun
                                  /\ row'[j].gen = g /\ row'[j].event = g
             /\ j \notin Promoted => row'[j] = row[j]
  BY <1>2, <1>6 DEF InputRows
<1>10. row' \in [Inputs -> InputRows]
  <2>1. row' = [j \in Inputs |-> row'[j]]
    BY <1>2
  <2>. QED
    BY <1>9, <2>1
<1>11. /\ run' \in [RunIds -> Runs] /\ run'[r].status = "running" /\ run'[r].gen = g
       /\ \A q \in RunIds : q # r => run'[q] = run[q]
  <2>. PICK e : e = [status |-> "running", gen |-> g, accepting |-> TRUE, fresh |-> TRUE]
    OBVIOUS
  <2>1. e \in Runs /\ e.status = "running" /\ e.gen = g
    BY <1>6 DEF Runs, RunStatus
  <2>2. run' = [run EXCEPT ![r] = e] /\ r \in RunIds
    BY <1>1, <1>2
  <2>. QED
    BY <2>1, <2>2
<1>12. /\ exec' \in [RunIds -> Loops] /\ exec'[r].pc = "setup" /\ exec'[r].prompt = C
       /\ exec'[r].said = {} /\ exec'[r].new = {} /\ exec'[r].open = FALSE
       /\ \A q \in RunIds : q # r => exec'[q] = exec[q]
  <2>. PICK e : e = [Idle EXCEPT !.pc = "setup", !.prompt = C]
    OBVIOUS
  <2>1. /\ e \in Loops /\ e.pc = "setup" /\ e.prompt = C /\ e.said = {} /\ e.new = {} /\ e.open = FALSE
    BY <1>7 DEF Idle, Loops
  <2>2. exec' = [exec EXCEPT ![r] = e] /\ r \in RunIds
    BY <1>1, <1>2
  <2>. QED
    BY <2>1, <2>2
<1>13. Rows'
  <2>1. item' \in [status : LiveStatus \cup {"cancelled"}, stopped : BOOLEAN]
    BY <1>1, BecomeTypes DEF IInv, LiveStatus
  <2>. QED
    BY <1>1, <1>8, <1>10, <1>11, <1>12, <2>1 DEF IInv, Rows
<1>14. Sent' = Sent
  <2>1. \A j \in Inputs : row'[j].state = "none" <=> row[j].state = "none"
    BY <1>5, <1>9
  <2>. QED
    BY <2>1 DEF Sent, Unsent
<1>15. OneRuns'
  <2>1. \A q \in RunIds : run[q].gen <= g
    <3>1. \A q \in RunIds : run[q].gen <= act.gen /\ run[q].gen \in Nat
      BY DEF IInv, OneRuns, Runs
    <3>. QED
      BY <1>4, <1>6, <3>1
  <2>2. \A q \in RunIds : run'[q].gen <= act'.gen
    BY <1>6, <1>8, <1>11, <2>1
  <2>3. (act'.status = "running") = (act'.run # NoRun) /\ act'.status # "ready" /\ act'.status # "completed"
    BY <1>1, <1>8
  <2>4. ASSUME NEW q \in RunIds
        PROVE  /\ (run'[q].status = "running") = (act'.run = q)
               /\ act'.run = q => run'[q].gen = act'.gen
               /\ run'[q].status = "unused" => known'[q] = {} /\ exec'[q].pc = "none"
    <3>1. CASE q = r
      BY <1>8, <1>11, <3>1
    <3>2. CASE q # r
      <4>1. run[q].status = "unused" => known[q] = {} /\ exec[q].pc = "none"
        BY DEF IInv, OneRuns
      <4>. QED
        BY <1>1, <1>3, <1>8, <1>11, <1>12, <3>2, <4>1
    <3>. QED
      BY <3>1, <3>2
  <2>. QED
    BY <2>2, <2>3, <2>4 DEF OneRuns
<1>16. RowsAreDated'
  <2>1. ASSUME NEW j \in Inputs
        PROVE  row'[j].gen = row'[j].event /\ row'[j].gen <= g
    <3>1. row[j].gen <= g
      BY <1>4, <1>6
    <3>. QED
      BY <1>4, <1>6, <1>9, <3>1
  <2>2. ASSUME NEW j \in dropped
        PROVE  row'[j].gen < g
    <3>1. j \in Inputs /\ row[j].gen < act.gen /\ row[j].gen \in Nat
      BY <1>4 DEF Sent
    <3>2. j \notin Promoted
      BY <1>4, <1>5, <3>1
    <3>. QED
      BY <1>4, <1>6, <1>9, <3>1, <3>2
  <2>. QED
    BY <1>1, <1>4, <1>8, <1>14, <2>1, <2>2 DEF RowsAreDated
<1>17. ASSUME NEW j \in C
       PROVE  /\ j \in Sent /\ j \notin dropped
              /\ row'[j].state # "superseded" /\ row'[j].state # "waiting"
  <2>1. j \in Inputs
    BY <1>7
  <2>2. CASE j \in Promoted
    <3>1. row[j].state # "none" /\ row[j].gen = act.gen
      BY <1>5, <2>1, <2>2
    <3>2. j \in Sent /\ j \notin dropped
      BY <1>4, <2>1, <3>1 DEF Sent, Unsent
    <3>. QED
      BY <1>9, <2>1, <2>2, <3>2
  <2>3. CASE j \notin Promoted
    <3>1. j \in act.context /\ row'[j] = row[j]
      BY <1>9, <2>1, <2>3
    <3>2. j \in Sent /\ j \notin dropped /\ row[j].state # "superseded"
      BY <1>1, <2>1, <3>1 DEF IInv, ContextIsRead, Live
    <3>3. row[j].state = "waiting" => row[j].gen = act.gen
      BY <1>1, <2>1, <3>1 DEF IInv, ContextIsRead, Waiting
    <3>4. row[j].state # "waiting"
      BY <1>5, <2>1, <2>3, <3>3
    <3>. QED
      BY <3>1, <3>2, <3>4
  <2>. QED
    BY <2>2, <2>3
<1>18. ASSUME NEW j \in Inputs, row'[j].state = "waiting"
       PROVE  row'[j].gen # g
  <2>1. j \notin Promoted /\ row'[j] = row[j]
    BY <1>9, <1>18
  <2>2. row[j].gen # act.gen /\ row[j].gen <= act.gen /\ row[j].gen \in Nat
    BY <1>4, <1>5, <1>18, <2>1
  <2>. QED
    BY <1>4, <1>6, <2>1, <2>2
<1>19. ContextIsRead'
  BY <1>1, <1>8, <1>14, <1>17, <1>18 DEF ContextIsRead, Waiting
<1>20. KeptIsCarried'
  <2>1. ASSUME NEW j \in Kept' \ C PROVE FALSE
    <3>1. j \in Inputs /\ j \notin Promoted /\ j \in Sent /\ j \notin dropped /\ row'[j].state # "superseded"
      BY <1>1, <1>14 DEF Kept, Sent
    <3>2. row'[j] = row[j]
      BY <1>9, <3>1
    <3>3. j \in Kept \ act.context
      BY <3>1, <3>2 DEF Kept
    <3>4. Carried(j)
      BY <1>1, <3>3 DEF IInv, KeptIsCarried, Live
    <3>. QED
      BY <1>5, <3>1, <3>4 DEF Carried
  <2>. QED
    BY <1>8, <2>1 DEF KeptIsCarried
<1>21. LoopsAreSound'
  <2>1. ASSUME NEW q \in RunIds PROVE Sound(q)'
    <3>1. Sound(q)
      BY DEF IInv, LoopsAreSound
    <3>2. CASE q = r
      <4>1. known[q] \subseteq Sent /\ C \subseteq Sent
        BY <1>17, <3>1 DEF Sound
      <4>. QED
        BY <1>1, <1>12, <1>14, <3>2, <4>1 DEF Sound, InRequest
    <3>3. CASE q # r
      BY <1>1, <1>12, <1>14, <3>1, <3>3 DEF Sound, InRequest, Last
    <3>. QED
      BY <3>2, <3>3
  <2>. QED
    BY <2>1 DEF LoopsAreSound
<1>22. LoopIsCurrent'
  BY <1>8, <1>12 DEF LoopIsCurrent, Current
<1>. QED
  BY <1>13, <1>15, <1>16, <1>19, <1>20, <1>21, <1>22 DEF IInv

\* The Run falls back to the shared workspace under a new identity.
LEMMA FallBackKeeps == ASSUME IInv, NEW r \in RunIds, FallBack(r) PROVE IInv'
<1>. /\ act \in Actions /\ row \in [Inputs -> InputRows] /\ NoRun \notin RunIds
     /\ run \in [RunIds -> Runs] /\ exec \in [RunIds -> Loops]
  BY DEF IInv, Rows, RunIds, NoRun
<1>. PICK C : C = act.context \cup CurrentInputs
  OBVIOUS
<1>. PICK P : P = PendingOf(r)
  OBVIOUS
<1>. PICK g \in Nat : g = act.gen + 1
  BY DEF Actions
<1>1. /\ UNCHANGED <<item, turn, up, known, dropped, left>>
      /\ exec[r].pc = "setup" /\ act.status = "running" /\ act.run = r
  BY DEF FallBack, IsActiveRun, Owns
<1>2. /\ act' = [act EXCEPT !.isolated = FALSE, !.context = C, !.gen = g, !.result = NoRun]
      /\ run' = [run EXCEPT ![r].gen = g]
      /\ row' = [i \in Inputs |-> IF i \in P THEN FallBackRow(i, g) ELSE row[i]]
      /\ exec' = [exec EXCEPT ![r].prompt = C, ![r].pc = "loop"]
  BY DEF FallBack
<1>3. run[r].status = "running" /\ run[r].gen = act.gen
  BY <1>1 DEF IInv, OneRuns
<1>4. /\ \A j \in Inputs : row[j].gen = row[j].event /\ row[j].gen <= act.gen
      /\ dropped \subseteq Sent /\ \A j \in dropped : row[j].gen < act.gen
      /\ act.gen \in Nat /\ \A j \in Inputs : row[j].gen \in Nat /\ row[j] \in InputRows
  BY DEF IInv, RowsAreDated, Actions, InputRows
<1>5. \A j \in Inputs : j \in P <=> row[j].state = "waiting" /\ row[j].gen = act.gen
  BY <1>1, <1>3 DEF PendingOf, Waiting, IInv, ContextIsRead
<1>6. \A j \in Inputs : j \in CurrentInputs <=>
                           row[j].state \notin {"none", "superseded"} /\ row[j].gen = act.gen
  BY <1>4 DEF CurrentInputs
<1>7. C \subseteq Inputs /\ P \subseteq Inputs
  BY DEF Actions, CurrentInputs, PendingOf, Waiting
<1>8. /\ act' \in Actions /\ act'.status = "running" /\ act'.run = r
      /\ act'.gen = g /\ act'.context = C
  <2>1. act' = [status |-> "running", gen |-> g, context |-> C, run |-> r, attempt |-> act.attempt,
                isolated |-> FALSE, result |-> NoRun]
    BY <1>1, <1>2 DEF Actions
  <2>2. act.attempt \in 0..MaxAttempts
    BY DEF Actions
  <2>3. act' \in Actions
    BY <1>7, <2>1, <2>2 DEF Actions, Unfinished
  <2>. QED
    BY <2>1, <2>3
<1>9. ASSUME NEW j \in Inputs
      PROVE  /\ row'[j] \in InputRows
             /\ j \in P => /\ row'[j].state = "consumed" /\ row'[j].gen = g /\ row'[j].event = g
             /\ j \notin P => row'[j] = row[j]
  <2>. PICK e : e = [row[j] EXCEPT !.gen = g, !.event = g, !.state = "consumed"]
    OBVIOUS
  <2>1. row[j] \in InputRows
    OBVIOUS
  <2>2. e \in InputRows /\ e.state = "consumed" /\ e.gen = g /\ e.event = g
    BY <2>1 DEF InputRows
  <2>3. row'[j] = IF j \in P THEN e ELSE row[j]
    BY <1>2 DEF FallBackRow
  <2>. QED
    BY <2>1, <2>2, <2>3
<1>10. row' \in [Inputs -> InputRows]
  <2>1. row' = [j \in Inputs |-> row'[j]]
    BY <1>2
  <2>. QED
    BY <1>9, <2>1
<1>11. /\ run' \in [RunIds -> Runs] /\ run'[r].status = "running" /\ run'[r].gen = g
       /\ \A q \in RunIds : q # r => run'[q] = run[q]
  <2>. PICK e : e = [run[r] EXCEPT !.gen = g]
    OBVIOUS
  <2>1. run[r] \in Runs
    OBVIOUS
  <2>2. e \in Runs /\ e.status = "running" /\ e.gen = g
    BY <1>3, <2>1 DEF Runs
  <2>3. run' = [run EXCEPT ![r] = e]
    BY <1>2
  <2>. QED
    BY <2>2, <2>3
<1>12. /\ exec' \in [RunIds -> Loops] /\ exec'[r].pc = "loop" /\ exec'[r].prompt = C
       /\ exec'[r].said = exec[r].said /\ exec'[r].new = exec[r].new
       /\ exec'[r].open = exec[r].open
       /\ \A q \in RunIds : q # r => exec'[q] = exec[q]
  <2>. PICK e : e = [exec[r] EXCEPT !.prompt = C, !.pc = "loop"]
    OBVIOUS
  <2>1. exec[r] \in Loops
    OBVIOUS
  <2>2. /\ e \in Loops /\ e.pc = "loop" /\ e.prompt = C /\ e.said = exec[r].said
        /\ e.new = exec[r].new /\ e.open = exec[r].open
    BY <1>7, <2>1 DEF Loops
  <2>3. exec' = [exec EXCEPT ![r] = e]
    BY <1>2
  <2>. QED
    BY <2>2, <2>3
<1>13. Rows'
  BY <1>1, <1>8, <1>10, <1>11, <1>12 DEF IInv, Rows
<1>14. Sent' = Sent
  <2>1. \A j \in Inputs : row'[j].state = "none" <=> row[j].state = "none"
    BY <1>5, <1>9
  <2>. QED
    BY <2>1 DEF Sent, Unsent
<1>15. OneRuns'
  <2>1. \A q \in RunIds : run[q].gen <= g
    <3>1. \A q \in RunIds : run[q].gen <= act.gen /\ run[q].gen \in Nat
      BY DEF IInv, OneRuns, Runs
    <3>. QED
      BY <1>4, <3>1
  <2>2. \A q \in RunIds : run'[q].gen <= act'.gen
    BY <1>8, <1>11, <2>1
  <2>3. (act'.status = "running") = (act'.run # NoRun) /\ act'.status # "ready" /\ act'.status # "completed"
    BY <1>8
  <2>4. ASSUME NEW q \in RunIds
        PROVE  /\ (run'[q].status = "running") = (act'.run = q)
               /\ act'.run = q => run'[q].gen = act'.gen
               /\ run'[q].status = "unused" => known'[q] = {} /\ exec'[q].pc = "none"
    <3>1. CASE q = r
      BY <1>8, <1>11, <3>1
    <3>2. CASE q # r
      <4>1. /\ run[q].status = "unused" => known[q] = {} /\ exec[q].pc = "none"
            /\ run[q].status # "running"
        BY <1>1, <3>2 DEF IInv, OneRuns
      <4>. QED
        BY <1>1, <1>8, <1>11, <1>12, <3>2, <4>1
    <3>. QED
      BY <3>1, <3>2
  <2>. QED
    BY <2>2, <2>3, <2>4 DEF OneRuns
<1>16. RowsAreDated'
  <2>1. ASSUME NEW j \in Inputs
        PROVE  row'[j].gen = row'[j].event /\ row'[j].gen <= g
    <3>1. row[j].gen <= g
      BY <1>4
    <3>. QED
      BY <1>4, <1>9, <3>1
  <2>2. ASSUME NEW j \in dropped
        PROVE  row'[j].gen < g
    <3>1. j \in Inputs /\ row[j].gen < act.gen /\ row[j].gen \in Nat
      BY <1>4 DEF Sent
    <3>2. j \notin P
      BY <1>4, <1>5, <3>1
    <3>. QED
      BY <1>4, <1>9, <3>1, <3>2
  <2>. QED
    BY <1>1, <1>4, <1>8, <1>14, <2>1, <2>2 DEF RowsAreDated
<1>17. ASSUME NEW j \in C
       PROVE  /\ j \in Sent /\ j \notin dropped
              /\ row'[j].state # "superseded" /\ row'[j].state # "waiting"
  <2>1. j \in Inputs
    BY <1>7
  <2>2. CASE j \in act.context
    <3>1. j \in Sent /\ j \notin dropped /\ row[j].state # "superseded" /\ row[j].state # "waiting"
      BY <1>1, <2>1, <2>2 DEF IInv, ContextIsRead, Live, Waiting
    <3>. QED
      BY <1>5, <1>9, <2>1, <3>1
  <2>3. CASE j \in CurrentInputs
    <3>1. row[j].state \notin {"none", "superseded"} /\ row[j].gen = act.gen
      BY <1>6, <2>1, <2>3
    <3>2. j \in Sent /\ j \notin dropped
      BY <1>4, <2>1, <3>1 DEF Sent, Unsent
    <3>. QED
      BY <1>5, <1>9, <2>1, <3>1, <3>2
  <2>. QED
    BY <2>2, <2>3
<1>18. ASSUME NEW j \in Inputs, row'[j].state = "waiting"
       PROVE  row'[j].gen # g
  BY <1>4, <1>9, <1>18
<1>19. ContextIsRead'
  BY <1>1, <1>8, <1>14, <1>17, <1>18 DEF ContextIsRead, Waiting
<1>20. KeptIsCarried'
  <2>1. ASSUME NEW j \in Kept' \ C PROVE FALSE
    <3>1. j \in Inputs /\ j \in Sent /\ j \notin dropped /\ row'[j].state # "superseded"
      BY <1>1, <1>14 DEF Kept, Sent
    <3>2. row[j].state # "superseded"
      BY <1>5, <1>9, <3>1
    <3>3. j \in Kept \ act.context
      BY <3>1, <3>2 DEF Kept
    <3>4. Carried(j)
      BY <1>1, <3>3 DEF IInv, KeptIsCarried, Live
    <3>. QED
      BY <1>6, <3>1, <3>4 DEF Carried
  <2>. QED
    BY <1>8, <2>1 DEF KeptIsCarried
<1>21. LoopsAreSound'
  <2>1. ASSUME NEW q \in RunIds PROVE Sound(q)'
    <3>1. Sound(q)
      BY DEF IInv, LoopsAreSound
    <3>2. C \subseteq Sent
      BY <1>17
    <3>. QED
      BY <1>1, <1>12, <1>14, <3>1, <3>2 DEF Sound, InRequest, Last
  <2>. QED
    BY <2>1 DEF LoopsAreSound
<1>22. LoopIsCurrent'
  BY <1>8, <1>12 DEF LoopIsCurrent, Current
<1>. QED
  BY <1>13, <1>15, <1>16, <1>19, <1>20, <1>21, <1>22 DEF IInv

-----------------------------------------------------------------------------
(* Answers, and the end of a query *)

\* What is read of a request is known to the Run.
LEMMA ReadMoves ==
    ASSUME Rows, NEW r \in RunIds, known' = [known EXCEPT ![r] = @ \cup InRequest(r)]
    PROVE  /\ known' \in [RunIds -> SUBSET Inputs] /\ known'[r] = known[r] \cup InRequest(r)
           /\ \A q \in RunIds : q # r => known'[q] = known[q]
BY DEF Rows, Loops, InRequest

LEMMA AnswerBreaksOffKeeps ==
    ASSUME IInv, NEW r \in RunIds, NEW more \in BOOLEAN, AnswerBreaksOff(r, more) PROVE IInv'
<1>. PICK pc : pc = AfterAnswer(more)
  OBVIOUS
<1>1. /\ UNCHANGED <<item, act, run, row, turn, up, dropped>> /\ Goto(r, pc)
      /\ exec[r].pc = "sent" /\ pc \in {"loop", "answered"} /\ May("fault")
      /\ known' = [known EXCEPT ![r] = @ \cup InRequest(r)]
  BY DEF AnswerBreaksOff, AfterAnswer
<1>2. /\ exec' \in [RunIds -> Loops] /\ exec'[r].pc = pc
      /\ exec'[r].prompt = exec[r].prompt /\ exec'[r].said = exec[r].said
      /\ exec'[r].new = exec[r].new /\ exec'[r].open = exec[r].open
      /\ \A q \in RunIds : q # r => exec'[q] = exec[q]
  BY <1>1, GotoMoves DEF IInv, Rows, Pcs
<1>3. /\ known' \in [RunIds -> SUBSET Inputs] /\ known'[r] = known[r] \cup InRequest(r)
      /\ \A q \in RunIds : q # r => known'[q] = known[q]
  BY <1>1, ReadMoves DEF IInv
<1>4. left' \in [messages : SUBSET Inputs, command : Nat, fault : Nat]
  BY <1>1, MayStays DEF IInv
<1>5. Rows' /\ Holds
  BY <1>1, <1>2, <1>3, <1>4 DEF IInv, Rows, Holds
<1>6. OneRuns' /\ RowsAreDated' /\ ContextIsRead' /\ KeptIsCarried'
  <2>1. \A q \in RunIds : /\ exec'[q].pc # "none" => exec[q].pc # "none"
                          /\ known[q] \subseteq known'[q]
                          /\ exec[q].pc = "none" => known'[q] = known[q]
    BY <1>1, <1>2, <1>3
  <2>. QED
    BY <1>1, <1>5, <2>1, TablesKept
<1>7. LoopsAreSound'
  <2>1. Sent' = Sent
    BY <1>1 DEF Sent, Unsent
  <2>2. ASSUME NEW q \in RunIds PROVE Sound(q)'
    BY <1>1, <1>2, <1>3, <2>1 DEF IInv, LoopsAreSound, Sound, InRequest, Last
  <2>. QED
    BY <2>2 DEF LoopsAreSound
<1>8. LoopIsCurrent'
  BY <1>1, <1>2, CurrentKept
<1>. QED
  BY <1>5, <1>6, <1>7, <1>8 DEF IInv

\* An answer that arrives for a Run that was taken away ends its loop.
LEMMA AnswerKeeps ==
    ASSUME IInv, NEW r \in RunIds, NEW more \in BOOLEAN, Answer(r, more) PROVE IInv'
<1>. /\ act \in Actions /\ row \in [Inputs -> InputRows] /\ NoRun \notin RunIds
     /\ exec \in [RunIds -> Loops] /\ Rows
  BY DEF IInv, Rows, RunIds, NoRun
<1>1. UNCHANGED <<item, act, run, up, dropped>> /\ exec[r].pc = "sent" /\ FaultIf(more)
  BY DEF Answer
<1>2. left' \in [messages : SUBSET Inputs, command : Nat, fault : Nat]
  BY <1>1, MayStays DEF FaultIf, Rows
<1>3. exec[r].open /\ turn[r] # <<>> /\ Last(r).inputs \subseteq exec[r].said
  BY <1>1 DEF IInv, LoopsAreSound, Sound
<1>4. Holds
  BY <1>1 DEF Holds
<1>5. CASE ~IsActiveRun(r)
  <2>1. /\ exec' = [exec EXCEPT ![r].open = FALSE, ![r].pc = "failing"]
        /\ UNCHANGED <<turn, row, known>>
    BY <1>5 DEF Answer
  <2>2. /\ exec' \in [RunIds -> Loops] /\ exec'[r].pc = "failing"
        /\ exec'[r].prompt = exec[r].prompt /\ exec'[r].said = exec[r].said
        /\ exec'[r].new = exec[r].new /\ exec'[r].open = FALSE
        /\ \A q \in RunIds : q # r => exec'[q] = exec[q]
    BY <2>1, SettledMoves DEF Pcs
  <2>3. Rows' /\ RowsStay
    BY <1>1, <1>2, <2>1, <2>2 DEF Rows, RowsStay
  <2>4. \A q \in RunIds : Rests(q)
    BY <1>1, <2>1, <2>2 DEF IInv, LoopsAreSound, Sound, Rests, Last
  <2>. QED
    BY <1>1, <1>4, <2>1, <2>3, <2>4, RestKeeps
<1>6. CASE IsActiveRun(r)
  <2>. PICK pc : pc = AfterAnswer(more)
    OBVIOUS
  <2>d. PICK D : D = {i \in Inputs : i \in Last(r).inputs /\ row[i].run = r /\ i \in Waiting}
    OBVIOUS
  <2>1. /\ turn' = SetLast(r, "responded")
        /\ row' = [i \in Inputs |-> IF i \in D THEN ConsumedRow(i) ELSE row[i]]
        /\ known' = [known EXCEPT ![r] = @ \cup InRequest(r)]
        /\ exec' = [exec EXCEPT ![r].open = FALSE, ![r].pc = pc]
        /\ pc \in {"loop", "answered"}
    BY <2>d, <1>6 DEF Answer, AfterAnswer
  <2>2. /\ exec' \in [RunIds -> Loops] /\ exec'[r].pc = pc
        /\ exec'[r].prompt = exec[r].prompt /\ exec'[r].said = exec[r].said
        /\ exec'[r].new = exec[r].new /\ exec'[r].open = FALSE
        /\ \A q \in RunIds : q # r => exec'[q] = exec[q]
    BY <2>1, SettledMoves DEF Pcs
  <2>3. /\ known' \in [RunIds -> SUBSET Inputs] /\ known'[r] = known[r] \cup InRequest(r)
        /\ \A q \in RunIds : q # r => known'[q] = known[q]
    BY <2>1, ReadMoves
  <2>4. /\ turn' \in [RunIds -> Seq(Turns)]
        /\ turn'[r] # <<>> /\ Last(r)'.inputs = Last(r).inputs
        /\ \A q \in RunIds : q # r => turn'[q] = turn[q]
    BY <1>3, <2>1, SetLastKeeps
  <2>5. ASSUME NEW j \in Inputs
        PROVE  /\ row'[j] \in InputRows /\ row'[j].run = row[j].run
               /\ row'[j].gen = row[j].gen /\ row'[j].event = row[j].event
               /\ j \in D => row'[j].state = "consumed"
               /\ j \notin D => row'[j] = row[j]
    <3>. PICK e : e = [row[j] EXCEPT !.state = "consumed"]
      OBVIOUS
    <3>1. row[j] \in InputRows
      OBVIOUS
    <3>2. /\ e \in InputRows /\ e.state = "consumed" /\ e.gen = row[j].gen
          /\ e.event = row[j].event /\ e.run = row[j].run
      BY <3>1 DEF InputRows
    <3>3. row'[j] = IF j \in D THEN e ELSE row[j]
      BY <2>1 DEF ConsumedRow
    <3>. QED
      BY <3>1, <3>2, <3>3
  <2>6. row' \in [Inputs -> InputRows]
    <3>1. row' = [j \in Inputs |-> row'[j]]
      BY <2>1
    <3>. QED
      BY <2>5, <3>1
  <2>7. Rows'
    BY <1>1, <1>2, <2>2, <2>3, <2>4, <2>6 DEF Rows
  <2>8. \A j \in D : j \in Inputs /\ row[j].state = "waiting" /\ row[j].run = r /\ j \in exec[r].said
    BY <2>d, <1>3 DEF Waiting
  <2>9. Sent' = Sent
    <3>1. \A j \in Inputs : row'[j].state = "none" <=> row[j].state = "none"
      BY <2>5, <2>8
    <3>. QED
      BY <3>1 DEF Sent, Unsent
  <2>10. /\ \A q \in RunIds : /\ exec'[q].pc # "none" => exec[q].pc # "none"
                              /\ known[q] \subseteq known'[q]
         /\ act.run = r /\ act.status = "running"
    BY <1>1, <1>6, <2>2, <2>3 DEF IsActiveRun, Owns
  <2>11. OneRuns'
    <3>1. run[r].status = "running" /\ act.status # "completed"
      BY <2>10 DEF IInv, OneRuns
    <3>. QED
      BY <1>1, <2>2, <2>3, <3>1 DEF IInv, OneRuns
  <2>12. RowsAreDated'
    BY <1>1, <2>5, <2>9 DEF IInv, RowsAreDated, Sent
  <2>13. ContextIsRead'
    <3>1. \A j \in act.context : j \in Inputs /\ row[j].state # "waiting" /\ row[j].state # "superseded"
      BY <2>10 DEF IInv, ContextIsRead, Waiting, Live, Actions
    <3>2. \A j \in act.context : row'[j] = row[j]
      BY <2>5, <2>8, <3>1
    <3>3. \A j \in Inputs : row'[j].state = "waiting" => row'[j] = row[j]
      BY <2>5
    <3>. QED
      BY <1>1, <2>9, <2>10, <3>1, <3>2, <3>3 DEF IInv, ContextIsRead, Waiting, Live
  <2>14. KeptIsCarried'
    <3>1. ASSUME NEW j \in Kept' \ act'.context PROVE Carried(j)'
      <4>1. j \in Inputs /\ j \in Kept \ act.context
        BY <1>1, <2>5, <2>8, <2>9, <3>1 DEF Kept, Sent
      <4>2. Carried(j)
        BY <2>10, <4>1 DEF IInv, KeptIsCarried, Live
      <4>3. CASE j \in D
        BY <1>1, <2>3, <2>5, <2>8, <2>10, <4>1, <4>2, <4>3 DEF Carried, InRequest
      <4>4. CASE j \notin D
        BY <1>1, <2>3, <2>5, <2>10, <4>1, <4>2, <4>4 DEF Carried
      <4>. QED
        BY <4>3, <4>4
    <3>. QED
      BY <3>1 DEF KeptIsCarried
  <2>15. LoopsAreSound'
    <3>1. ASSUME NEW q \in RunIds PROVE Sound(q)'
      <4>1. Sound(q)
        BY DEF IInv, LoopsAreSound
      <4>2. CASE q = r
        BY <2>1, <2>2, <2>3, <2>9, <4>1, <4>2 DEF Sound, InRequest
      <4>3. CASE q # r
        BY <2>2, <2>3, <2>4, <2>9, <4>1, <4>3 DEF Sound, InRequest, Last
      <4>. QED
        BY <4>2, <4>3
    <3>. QED
      BY <3>1 DEF LoopsAreSound
  <2>16. LoopIsCurrent'
    <3>1. exec'[r].prompt = act'.context /\ exec'[r].pc # "closed"
      BY <1>1, <2>1, <2>2, <2>10 DEF IInv, LoopIsCurrent, Current
    <3>. QED
      BY <1>1, <2>10, <3>1 DEF LoopIsCurrent, Current
  <2>. QED
    BY <2>7, <2>11, <2>12, <2>13, <2>14, <2>15, <2>16 DEF IInv
<1>. QED
  BY <1>5, <1>6

LEMMA CloseInputKeeps == ASSUME IInv, NEW r \in RunIds, CloseInput(r) PROVE IInv'
<1>. /\ act \in Actions /\ NoRun \notin RunIds /\ run \in [RunIds -> Runs]
     /\ exec \in [RunIds -> Loops] /\ Rows
  BY DEF IInv, Rows, RunIds, NoRun
<1>1. UNCHANGED <<item, act, row, turn, up, known, dropped, left>> /\ exec[r].pc = "answered"
  BY DEF CloseInput
<1>2. CASE CanClose(r) /\ run' = ClosedRun(r) /\ Goto(r, "closed")
  <2>1. /\ exec' \in [RunIds -> Loops] /\ exec'[r].pc = "closed"
        /\ exec'[r].prompt = exec[r].prompt /\ exec'[r].said = exec[r].said
        /\ exec'[r].new = exec[r].new /\ exec'[r].open = exec[r].open
        /\ \A q \in RunIds : q # r => exec'[q] = exec[q]
    BY <1>2, GotoMoves DEF Pcs
  <2>2. /\ run' \in [RunIds -> Runs] /\ ~run'[r].accepting
        /\ \A q \in RunIds : /\ run'[q].status = run[q].status /\ run'[q].gen = run[q].gen
                             /\ run'[q].accepting => run[q].accepting
    <3>. PICK e : e = [run[r] EXCEPT !.accepting = FALSE]
      OBVIOUS
    <3>1. run[r] \in Runs
      OBVIOUS
    <3>2. e \in Runs /\ e.accepting = FALSE /\ e.status = run[r].status /\ e.gen = run[r].gen
      BY <3>1 DEF Runs
    <3>3. run' = [run EXCEPT ![r] = e]
      BY <1>2 DEF ClosedRun
    <3>. QED
      BY <3>2, <3>3
  <2>3. Rows' /\ Holds
    BY <1>1, <2>1, <2>2 DEF Rows, Holds
  <2>4. OneRuns' /\ RowsAreDated' /\ ContextIsRead' /\ KeptIsCarried'
    <3>1. \A q \in RunIds : /\ exec'[q].pc # "none" => exec[q].pc # "none"
                            /\ known'[q] = known[q]
      BY <1>1, <2>1
    <3>. QED
      BY <1>1, <2>3, <3>1, TablesKept
  <2>5. LoopsAreSound'
    <3>1. Sent' = Sent
      BY <1>1 DEF Sent, Unsent
    <3>2. ASSUME NEW q \in RunIds PROVE Sound(q)'
      BY <1>1, <2>1, <3>1 DEF IInv, LoopsAreSound, Sound, InRequest, Last
    <3>. QED
      BY <3>2 DEF LoopsAreSound
  <2>6. LoopIsCurrent'
    <3>1. act.run = r /\ PendingOf(r) = {} /\ exec[r].prompt = act.context
      BY <1>1, <1>2 DEF CanClose, IsActiveRun, Owns, IInv, LoopIsCurrent, Current
    <3>2. PendingOf(r)' = PendingOf(r)
      BY <1>1, <2>2 DEF PendingOf, Waiting
    <3>. QED
      BY <1>1, <2>1, <2>2, <3>1, <3>2 DEF LoopIsCurrent, Current
  <2>. QED
    BY <2>3, <2>4, <2>5, <2>6 DEF IInv
<1>3. CASE UNCHANGED run /\ Goto(r, "failing")
  <2>1. /\ exec' \in [RunIds -> Loops] /\ exec'[r].pc = "failing"
        /\ exec'[r].prompt = exec[r].prompt /\ exec'[r].said = exec[r].said
        /\ exec'[r].new = exec[r].new /\ exec'[r].open = exec[r].open
        /\ \A q \in RunIds : q # r => exec'[q] = exec[q]
    BY <1>3, GotoMoves DEF Pcs
  <2>2. Rows' /\ Holds /\ RowsStay
    BY <1>1, <1>3, <2>1 DEF Rows, Holds, RowsStay
  <2>3. \A q \in RunIds : Rests(q)
    BY <1>1, <2>1 DEF IInv, LoopsAreSound, Sound, Rests, Last
  <2>. QED
    BY <1>1, <2>2, <2>3, RestKeeps
<1>4. CASE UNCHANGED run /\ TakeIn(r, listPendingActionInputs(r), "loop")
  <2>1. listPendingActionInputs(r) \subseteq Sent
    BY DEF listPendingActionInputs, PendingOf, Waiting, Sent, Unsent
  <2>. QED
    BY <1>1, <1>4, <2>1, TakesKeeps DEF Pcs
<1>. QED
  BY <1>2, <1>3, <1>4 DEF CloseInput

-----------------------------------------------------------------------------
(* The other steps as steps of InputDelivery *)

\* The loops alone change nothing that InputDelivery tells apart.
LEMMA TablesServe == ASSUME UNCHANGED <<act, row, known, dropped>> PROVE Serves
BY StayServes DEF Unsent, Withdrawn, ReadBy, Attempt

\* A restart gives the attempt up and withdraws every message that was sent.
LEMMA RestartServes ==
    ASSUME IInv, Restart({}), Restarted({}), act.status # "completed"
    PROVE  Serves
<1>1. act'.status # "completed" /\ act'.run = NoRun
  BY DEF Restart, IInv, Rows, Actions
<1>2. ASSUME NEW j \in Inputs
      PROVE  (Unsent(j)' <=> Unsent(j)) /\ (Withdrawn(j) => Withdrawn(j)')
  <2>1. CASE j \in Sent
    BY <2>1 DEF Restarted, Restart, Sent, Unsent, Withdrawn
  <2>2. CASE j \notin Sent
    BY <2>2 DEF Restarted, Restart, Sent, Unsent, Withdrawn
  <2>. QED
    BY <2>1, <2>2
<1>. QED
  BY <1>1, <1>2, GiveUpServes

LEMMA RestartsServe == ASSUME IInv, Retry \/ GuideActions \/ AddGuidance PROVE Serves
<1>1. Restart({}) /\ act.status # "completed" /\ (row' = row \/ row' = Superseded(Waiting))
  BY DEF Retry, GuideActions, AddGuidance
<1>2. Restarted({})
  <2>1. CASE row' = row
    BY <2>1 DEF Restarted, Sent, Unsent
  <2>2. CASE row' = Superseded(Waiting)
    <3>1. \A j \in Inputs : /\ row'[j].gen = row[j].gen /\ row'[j].event = row[j].event
                            /\ row'[j].state = IF j \in Waiting THEN "superseded" ELSE row[j].state
                            /\ j \notin Waiting => row'[j] = row[j]
      BY <2>2, SupersededTypes DEF IInv, Rows
    <3>. QED
      BY <3>1 DEF Restarted, Sent, Unsent, Waiting
  <2>. QED
    BY <1>1, <2>1, <2>2
<1>. QED
  BY <1>1, <1>2, RestartServes

LEMMA AddToSettledServes == ASSUME IInv, NEW i \in Inputs, AddToSettled(i) PROVE Serves
<1>. act \in Actions /\ row \in [Inputs -> InputRows]
  BY DEF IInv, Rows
<1>1. /\ Unsent(i) /\ act.status \in {"waiting", "failed"} /\ act.run = NoRun
      /\ act'.status = "ready" /\ act'.run = NoRun
      /\ dropped' = dropped \cup {j \in Inputs : ~Unsent(j)}
  BY DEF AddToSettled, Restart, IInv, OneRuns, Actions
<1>2. row'[i].state = "direct" /\ \A j \in Inputs : j # i => row'[j] = row[j]
  BY DEF AddToSettled
<1>3. i \notin dropped'
  BY <1>1 DEF IInv, RowsAreDated, Sent
<1>4. ReadBy = {} /\ ReadBy' = {}
  BY <1>1 DEF ReadBy, Attempt
<1>5. ~Unsent(i)' /\ ~Withdrawn(i)'
  BY <1>2, <1>3 DEF Unsent, Withdrawn
<1>6. ASSUME NEW j \in Inputs \ {i}
      PROVE  (Unsent(j)' <=> Unsent(j)) /\ (Withdrawn(j) => Withdrawn(j)')
  BY <1>1, <1>2 DEF Unsent, Withdrawn
<1>. QED
  BY <1>1, <1>4, <1>5, <1>6, AcceptServes

LEMMA AddToReadyServes == ASSUME IInv, NEW i \in Inputs, AddToReady(i) PROVE Serves
<1>. act \in Actions /\ row \in [Inputs -> InputRows]
  BY DEF IInv, Rows
<1>1. /\ Unsent(i) /\ act.status = "ready" /\ act.run = NoRun
      /\ act'.status = "ready" /\ act'.run = NoRun /\ dropped' = dropped
  BY DEF AddToReady, IInv, OneRuns, Actions
<1>. PICK J : J = Inherited
  OBVIOUS
<1>2. J \subseteq Waiting
  BY DEF Inherited
<1>3. row'[i].state = "direct"
  BY DEF AddToReady
<1>4. ASSUME NEW j \in Inputs \ {i}
      PROVE  row'[j].state = row[j].state \/ (j \in Waiting /\ row'[j].state = "superseded")
  <2>. PICK g : g = act.gen + 1
    OBVIOUS
  <2>1. row'[j] = IF j \in J THEN [row[j] EXCEPT !.run = NoRun, !.gen = g, !.event = g]
                  ELSE IF j \in Waiting THEN [row[j] EXCEPT !.state = "superseded"]
                  ELSE row[j]
    BY DEF AddToReady
  <2>2. row[j] \in InputRows
    OBVIOUS
  <2>. QED
    BY <2>1, <2>2 DEF InputRows
<1>5. i \notin dropped
  BY <1>1 DEF IInv, RowsAreDated, Sent
<1>6. ReadBy = {} /\ ReadBy' = {}
  BY <1>1 DEF ReadBy, Attempt
<1>7. ~Unsent(i)' /\ ~Withdrawn(i)'
  BY <1>1, <1>3, <1>5 DEF Unsent, Withdrawn
<1>8. ASSUME NEW j \in Inputs \ {i}
      PROVE  (Unsent(j)' <=> Unsent(j)) /\ (Withdrawn(j) => Withdrawn(j)')
  BY <1>1, <1>4 DEF Unsent, Withdrawn, Waiting
<1>. QED
  BY <1>1, <1>6, <1>7, <1>8, AcceptServes

LEMMA AddToRunningServes == ASSUME IInv, NEW i \in Inputs, AddToRunning(i) PROVE Serves
<1>. act \in Actions /\ row \in [Inputs -> InputRows] /\ NoRun \notin RunIds
  BY DEF IInv, Rows, RunIds, NoRun
<1>1. /\ Unsent(i) /\ act.status = "running" /\ UNCHANGED <<act, known, dropped>>
  BY DEF AddToRunning
<1>2. row'[i].state = "waiting" /\ \A j \in Inputs : j # i => row'[j] = row[j]
  BY DEF AddToRunning
<1>3. i \notin Sent
  BY <1>1 DEF Sent
<1>4. i \notin dropped /\ i \notin known[act.run] /\ act.run \in RunIds
  BY <1>1, <1>3 DEF IInv, RowsAreDated, LoopsAreSound, Sound, OneRuns, Actions
<1>5. ReadBy' = ReadBy /\ i \notin ReadBy
  BY <1>1, <1>4 DEF ReadBy, Attempt
<1>6. ~Unsent(i)' /\ ~Withdrawn(i)'
  BY <1>1, <1>2, <1>4 DEF Unsent, Withdrawn
<1>7. ASSUME NEW j \in Inputs \ {i}
      PROVE  (Unsent(j)' <=> Unsent(j)) /\ (Withdrawn(j) <=> Withdrawn(j)')
  BY <1>1, <1>2 DEF Unsent, Withdrawn
<1>. QED
  BY <1>1, <1>5, <1>6, <1>7, AcceptServes

\* A row that is consumed is neither withdrawn nor sent by it.
LEMMA ConsumedServes ==
    ASSUME NEW i \in Inputs, dropped' = dropped,
           row'[i] = row[i] \/ (row'[i].state = "consumed" /\ row[i].state \in {"waiting", "consumed"})
    PROVE  (Unsent(i)' <=> Unsent(i)) /\ (Withdrawn(i)' <=> Withdrawn(i))
BY DEF Unsent, Withdrawn

LEMMA ClaimServes == ASSUME IInv, Claim PROVE Serves
<1>. act \in Actions /\ NoRun \notin RunIds
  BY DEF IInv, Rows, RunIds, NoRun
<1>. PICK P, g : P = Promoted /\ row' = [i \in Inputs |-> IF i \in P
                THEN [state |-> "consumed", run |-> NoRun, gen |-> g, event |-> g] ELSE row[i]]
  BY DEF Claim
<1>1. \A i \in P : row[i].state \in {"waiting", "consumed"}
  BY DEF Promoted, Waiting
<1>2. NextRun \in RunIds /\ run[NextRun].status = "unused"
  BY NextRunIsFirst DEF Claim
<1>. PICK q : q = NextRun
  OBVIOUS
<1>3. /\ act.status = "ready" /\ act.run = NoRun /\ act'.status = "running" /\ act'.run = q
      /\ known' = known /\ dropped' = dropped
  BY DEF Claim, IInv, OneRuns, Actions
<1>4. ReadBy = {} /\ ReadBy' = {}
  BY <1>2, <1>3 DEF ReadBy, Attempt, IInv, OneRuns
<1>5. ASSUME NEW i \in Inputs
      PROVE  (Unsent(i)' <=> Unsent(i)) /\ (Withdrawn(i)' <=> Withdrawn(i))
  <2>1. row'[i] = row[i] \/ (row'[i].state = "consumed" /\ row[i].state \in {"waiting", "consumed"})
    BY <1>1
  <2>. QED
    BY <1>3, <2>1, ConsumedServes
<1>. QED
  BY <1>3, <1>4, <1>5, StayServes

LEMMA FallBackServes == ASSUME IInv, NEW r \in RunIds, FallBack(r) PROVE Serves
<1>. act \in Actions /\ row \in [Inputs -> InputRows]
  BY DEF IInv, Rows
<1>. PICK g : g = act.gen + 1
  OBVIOUS
<1>1. /\ act.status = "running" /\ act'.status = "running" /\ act'.run = act.run
      /\ known' = known /\ dropped' = dropped
      /\ row' = [i \in Inputs |-> IF i \in PendingOf(r)
                 THEN [row[i] EXCEPT !.gen = g, !.event = g, !.state = "consumed"] ELSE row[i]]
  BY DEF FallBack, FallBackRow, IsActiveRun, Owns, Actions
<1>2. ASSUME NEW i \in Inputs
      PROVE  (Unsent(i)' <=> Unsent(i)) /\ (Withdrawn(i)' <=> Withdrawn(i))
  <2>1. row[i] \in InputRows
    OBVIOUS
  <2>2. row'[i] = row[i] \/ (row'[i].state = "consumed" /\ row[i].state \in {"waiting", "consumed"})
    BY <1>1, <2>1 DEF PendingOf, Waiting, InputRows
  <2>. QED
    BY <1>1, <2>2, ConsumedServes
<1>. QED
  BY <1>1, <1>2, StayServes DEF ReadBy, Attempt

\* What an answer adds is read by the attempt in progress; an Action that has
\* completed did so with a Run whose loop is gone.
LEMMA KnowsServes ==
    ASSUME IInv, NEW r \in RunIds, exec[r].pc = "sent", UNCHANGED <<act, dropped>>,
           known' = [known EXCEPT ![r] = @ \cup InRequest(r)],
           \A i \in Inputs : row'[i] = row[i] \/ (row'[i].state = "consumed" /\ row[i].state = "waiting")
    PROVE  Serves
<1>1. \A i \in Inputs : (Unsent(i)' <=> Unsent(i)) /\ (Withdrawn(i)' <=> Withdrawn(i))
  BY ConsumedServes
<1>2. \A q \in RunIds : known[q] \subseteq known'[q] /\ (q # r => known'[q] = known[q])
  BY DEF IInv, Rows
<1>. act \in Actions /\ NoRun \notin RunIds
  BY DEF IInv, Rows, RunIds, NoRun
<1>3. CASE act.status # "completed"
  BY <1>1, <1>2, <1>3, ReadServes DEF ReadBy, Attempt, Actions
<1>4. CASE act.status = "completed"
  <2>1. act.result \in RunIds /\ act.result # r
    BY <1>4 DEF IInv, OneRuns, Actions
  <2>. QED
    BY <1>1, <1>2, <1>4, <2>1, StayServes DEF ReadBy, Attempt
<1>. QED
  BY <1>3, <1>4

LEMMA AnswersServe ==
    ASSUME IInv, NEW r \in RunIds, NEW more \in BOOLEAN, Answer(r, more) \/ AnswerBreaksOff(r, more)
    PROVE  Serves
<1>1. CASE AnswerBreaksOff(r, more)
  BY <1>1, KnowsServes DEF AnswerBreaksOff
<1>2. CASE Answer(r, more) /\ ~IsActiveRun(r)
  BY <1>2, TablesServe DEF Answer
<1>3. CASE Answer(r, more) /\ IsActiveRun(r)
  <2>1. row' = [i \in Inputs |->
                 IF i \in Last(r).inputs /\ row[i].run = r /\ i \in Waiting
                 THEN ConsumedRow(i) ELSE row[i]]
    BY <1>3 DEF Answer
  <2>2. ASSUME NEW i \in Inputs
        PROVE  row'[i] = row[i] \/ (row'[i].state = "consumed" /\ row[i].state = "waiting")
    <3>1. row[i] \in InputRows
      BY DEF IInv, Rows
    <3>. QED
      BY <2>1, <3>1 DEF ConsumedRow, Waiting, InputRows
  <2>. QED
    BY <1>3, <2>2, KnowsServes DEF Answer
<1>. QED
  BY <1>1, <1>2, <1>3

-----------------------------------------------------------------------------
(* Theorems *)

LEMMA InitHolds == Init => IInv
<1>. SUFFICES ASSUME Init PROVE IInv
  OBVIOUS
<1>0. MaxAttempts \in Nat \ {0} /\ NoRun \notin RunIds /\ left \in Loads
  BY InputsAssumption DEF RunIds, NoRun, Init
<1>1. \A r \in RunIds : exec[r] = Idle /\ known[r] = {} /\ run[r].status = "unused" /\ run[r].gen = 0
                        /\ turn[r] = <<>>
  BY DEF Init
<1>2. \A i \in Inputs : row[i].state = "none" /\ row[i].gen = 0 /\ row[i].event = 0
  BY DEF Init
<1>3. /\ act.status = "ready" /\ act.gen = 1 /\ act.context = {} /\ act.run = NoRun
      /\ act.attempt = 0 /\ dropped = {}
  BY DEF Init
<1>4. Rows
  <2>1. item \in [status : LiveStatus \cup {"cancelled"}, stopped : BOOLEAN]
    BY DEF Init, LiveStatus
  <2>2. act \in Actions
    BY <1>0 DEF Init, Actions, Unfinished
  <2>3. run \in [RunIds -> Runs] /\ row \in [Inputs -> InputRows]
    BY DEF Init, Runs, RunStatus, InputRows
  <2>4. exec \in [RunIds -> Loops] /\ turn \in [RunIds -> Seq(Turns)] /\ known \in [RunIds -> SUBSET Inputs]
    BY IdleIsLoop DEF Init
  <2>5. left \in [messages : SUBSET Inputs, command : Nat, fault : Nat] /\ up = TRUE
    BY <1>0, InputsAssumption DEF Init
  <2>. QED
    BY <1>3, <2>1, <2>2, <2>3, <2>4, <2>5 DEF Rows
<1>5. Sent = {}
  BY <1>2 DEF Sent, Unsent
<1>6. OneRuns
  BY <1>0, <1>1, <1>3, IdleIsLoop DEF OneRuns
<1>7. RowsAreDated /\ ContextIsRead
  BY <1>2, <1>3, <1>5 DEF RowsAreDated, ContextIsRead, Waiting
<1>8. KeptIsCarried
  BY <1>5 DEF KeptIsCarried, Kept
<1>9. LoopsAreSound
  BY <1>1 DEF LoopsAreSound, Sound, InRequest, Idle
<1>10. LoopIsCurrent
  BY <1>0, <1>3 DEF LoopIsCurrent
<1>. QED
  BY <1>4, <1>6, <1>7, <1>8, <1>9, <1>10 DEF IInv

LEMMA StutterHolds == ASSUME IInv, UNCHANGED vars PROVE IInv'
BY DEF vars, IInv, Rows, OneRuns, RowsAreDated, ContextIsRead, KeptIsCarried, LoopsAreSound,
       LoopIsCurrent, Sent, Unsent, Live, Kept, Waiting, Carried, Sound, Current, InRequest, Last,
       PendingOf

LEMMA NextHolds == ASSUME IInv, Next PROVE IInv'
<1>1. CASE Crash
  BY <1>1, CrashKeeps
<1>2. CASE \E r \in RunIds : ClaimTurn(r)
  BY <1>2, ClaimTurnKeeps
<1>3. CASE UserStep
  <2>1. left.messages \subseteq Inputs
    BY DEF IInv, Rows
  <2>. QED
    BY <1>3, <2>1, AddToReadyKeeps, AddToRunningKeeps, AddToSettledKeeps, RetryKeeps,
       AddGuidanceKeeps, CancelItemKeeps, StopExecutionKeeps, ResumeExecutionKeeps DEF UserStep
<1>4. CASE CoordinatorStep
  BY <1>4, GuideActionsKeeps, CloseActionKeeps DEF CoordinatorStep
<1>5. CASE Claim \/ Recover \/ Boot
  BY <1>5, ClaimKeeps, RecoverKeeps, BootKeeps
<1>6. ASSUME NEW r \in RunIds, EngineStep(r) PROVE IInv'
  BY <1>6, StartKeeps, FallBackKeeps, DrainKeeps, PrepareTurnKeeps, AnswerKeeps,
     RequestFailsKeeps, CloseInputKeeps, SubmitKeeps DEF EngineStep, Outcomes
<1>7. ASSUME NEW r \in RunIds,
             Abort(r) \/ LeaseExpires(r) \/ \E more \in BOOLEAN : AnswerBreaksOff(r, more)
      PROVE  IInv'
  BY <1>7, AbortKeeps, LeaseExpiresKeeps, AnswerBreaksOffKeeps
<1>. QED
  BY <1>1, <1>2, <1>3, <1>4, <1>5, <1>6, <1>7 DEF Next

\* The tables and the loops keep to the inductive invariant in every reachable
\* state, whatever is sent, lost and restarted.
THEOREM Inductive == Spec => []IInv
<1>1. IInv /\ [Next]_vars => IInv'
  BY NextHolds, StutterHolds
<1>. QED
  BY InitHolds, <1>1, PTL DEF Spec

\* The rows have their types, and neither the claim nor the fall-back of the
\* workspace leaves in the queue what the instruction says (InputsInv).
LEMMA InputsFollow == IInv => InputsInv
<1>. SUFFICES ASSUME IInv PROVE InputsInv
  OBVIOUS
<1>1. /\ act \in Actions /\ item \in [status : LiveStatus \cup {"cancelled"}, stopped : BOOLEAN]
      /\ run \in [RunIds -> Runs] /\ row \in [Inputs -> InputRows]
      /\ known \in [RunIds -> SUBSET Inputs] /\ exec \in [RunIds -> Loops]
      /\ dropped \subseteq Inputs /\ up \in BOOLEAN
  BY DEF IInv, Rows
<1>2. ASSUME NEW r \in RunIds
      PROVE  /\ run[r].gen \in 0..act.gen /\ known[r] \subseteq Inputs
             /\ exec[r].pc # "none" => run[r].status # "unused"
             /\ exec[r].open => turn[r] # <<>>
  BY <1>1 DEF IInv, OneRuns, LoopsAreSound, Sound, Runs, Actions
<1>3. ASSUME NEW i \in Inputs
      PROVE  /\ row[i].state \in {"none", "direct", "waiting", "consumed", "superseded"}
             /\ row[i].run \in RunIds \cup {NoRun}
             /\ row[i].gen \in 0..act.gen /\ row[i].event \in 0..act.gen
  BY <1>1 DEF IInv, RowsAreDated, InputRows, Actions
<1>4. TypeOK
  BY <1>1, <1>2, <1>3 DEF TypeOK, Actions, IInv, OneRuns
<1>5. ProjectedOnce
  BY DEF ProjectedOnce, Owns, PendingOf, IInv, LoopIsCurrent, Current, ContextIsRead
<1>. QED
  BY <1>4, <1>5 DEF InputsInv

\* A message is in the instruction of a Run or in its queue of pending rows, never
\* in both (InputsInv).
THEOREM InstructedOrQueued == Spec => []InputsInv
BY Inductive, InputsFollow, PTL

\* A message that a restart left out, or that was superseded, never comes back
\* into the context (WithdrawnStaysOut).
THEOREM WithdrawnIsGone == Spec => []WithdrawnStaysOut
<1>1. IInv => WithdrawnStaysOut
  BY DEF IInv, ContextIsRead, Live, WithdrawnStaysOut
<1>. QED
  BY Inductive, <1>1, PTL

LEMMA NextServes == ASSUME IInv, Next PROVE Serves
<1>1. CASE Crash
  BY <1>1, CrashKeeps
<1>2. CASE \E r \in RunIds : ClaimTurn(r)
  BY <1>2, ClaimTurnKeeps
<1>3. CASE UserStep
  <2>1. left.messages \subseteq Inputs
    BY DEF IInv, Rows
  <2>. QED
    BY <1>3, <2>1, AddToReadyServes, AddToRunningServes, AddToSettledServes, RestartsServe,
       CancelItemKeeps, StopExecutionKeeps, ResumeExecutionKeeps DEF UserStep
<1>4. CASE CoordinatorStep
  BY <1>4, RestartsServe, CloseActionKeeps DEF CoordinatorStep
<1>5. CASE Claim \/ Recover \/ Boot
  BY <1>5, ClaimServes, RecoverKeeps, BootKeeps
<1>6. ASSUME NEW r \in RunIds, EngineStep(r) PROVE Serves
  <2>1. Drain(r) \/ PrepareTurn(r) \/ CloseInput(r) => UNCHANGED <<act, row, known, dropped>>
    BY DEF Drain, PrepareTurn, CloseInput, Table
  <2>. QED
    BY <1>6, <2>1, TablesServe, StartKeeps, FallBackServes, AnswersServe, RequestFailsKeeps,
       SubmitKeeps DEF EngineStep, Outcomes
<1>7. ASSUME NEW r \in RunIds,
             Abort(r) \/ LeaseExpires(r) \/ \E more \in BOOLEAN : AnswerBreaksOff(r, more)
      PROVE  Serves
  BY <1>7, AbortKeeps, LeaseExpiresKeeps, AnswersServe
<1>. QED
  BY <1>1, <1>2, <1>3, <1>4, <1>5, <1>6, <1>7 DEF Next

LEMMA InitServes == Init => Delivery!Init
<1>. SUFFICES ASSUME Init PROVE Delivery!Init
  OBVIOUS
<1>1. act.status # "completed" /\ \A i \in Inputs : Unsent(i)
  BY DEF Init, Unsent
<1>2. Fate = [i \in Inputs |-> "unsent"]
  BY <1>1 DEF Fate
<1>. QED
  BY <1>1, <1>2 DEF Delivery!Init

\* What users may rely on: whatever is lost, restarted or withdrawn, the attempt
\* that completes the Action has read every message that was accepted and not
\* withdrawn.  Every behaviour of the tables and loops is one of InputDelivery.
THEOREM Implements == Spec => DeliversInputs
<1>1. IInv /\ [Next]_vars => [Delivery!Next]_(Delivery!vars)
  <2>1. ASSUME UNCHANGED vars PROVE Serves
    BY <2>1, TablesServe DEF vars
  <2>. QED
    BY <2>1, NextServes DEF Serves
<1>. QED
  BY Inductive, InitServes, <1>1, PTL DEF Spec, DeliversInputs, Delivery!Spec

=============================================================================
