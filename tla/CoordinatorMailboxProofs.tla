---------------------- MODULE CoordinatorMailboxProofs ----------------------
(***************************************************************************)
(* Proofs about CoordinatorMailbox, for any limit of failures and any      *)
(* bounds: one executor acts, a decision is committed over the state its   *)
(* request showed, and a wake is kept until it is answered.                *)
(*                                                                         *)
(* claim_epoch grows without a bound in the code, so the theorems are      *)
(* about an infinite set of Epochs; a run uses as few as tell the holders  *)
(* apart.                                                                  *)
(***************************************************************************)
EXTENDS CoordinatorMailbox, FiniteSetTheorems, WellFoundedInduction, TLAPS

-----------------------------------------------------------------------------
(* The inductive invariant *)

\* A turn that thinks, and a WorkItem that is not stopped, have a failure left.
FailureIsLeft ==
    /\ wi.credit >= 0
    /\ Thinking \/ ~wi.stopped => wi.credit >= 1

\* The turn of an entry is a turn about it; a user's message is a turn's own.
LinksAgree ==
    /\ \A e \in Entries : entry[e].turn # NoTurn => turn[entry[e].turn].entry = e
    /\ \A t \in Turns : ~turn[t].auto => entry[turn[t].entry].kind = "message"

\* The entry of the thinking turn waits for it.
ThinkerHasEntry ==
    \A t \in Turns : turn[t].status = "thinking" =>
        /\ entry[turn[t].entry].turn = t
        /\ entry[turn[t].entry].status \in {"pending", "claimed"}

\* No executor outlives its process, and only a running process scans.
ProcessRuns ==
    /\ life = "down" => exec = {}
    /\ scan # "idle" => life = "up"

\* No two executors of a turn have the same epoch.
EpochsDiffer ==
    \A x, y \in exec : x.turn = y.turn /\ x.epoch = y.epoch => x = y

\* What the row of an executor that holds the claim says, by what it waits for.
RowMatches(x, row) ==
    /\ x.pc \in {"prepared", "calling", "answered"} => row.asked = Asks(x)
    /\ x.pc = "prepared" => row.status \in {"prepared", "dispatching"} /\ row.epoch = x.epoch
    /\ x.pc = "calling" => row.status = "dispatching" /\ row.epoch = x.epoch
    /\ x.pc = "answered" => row.status = "responded"

HolderIsRight ==
    \A x \in exec : Holds(x) =>
        turn[x.turn].status = "thinking" /\ RowMatches(x, Row(x))

IInv ==
    /\ TypeOK /\ IsFiniteSet(exec)
    /\ OneTurnThinks /\ FailureIsLeft /\ LinksAgree /\ ThinkerHasEntry
    /\ ProcessRuns /\ EpochsDiffer /\ HolderIsRight

\* What DecisionMatchesRequest and WakeIsKept say of one step.
DecisionStep ==
    \A t \in Turns :
        turn[t].status = "thinking" /\ turn'[t].status = "completed" =>
            \E a \in Attempts : /\ turn[t].rows[a].status = "responded"
                                /\ turn[t].rows[a].asked.ver = wi.ver

WakeStep ==
    \A e \in Entries :
        LET t == entry'[e].turn IN
        entry[e].kind = "wake" /\ entry[e].status # "acked" /\ entry'[e].status = "acked" =>
            \/ turn'[t].status = "completed"
            \/ turn'[t].status = "failed" /\ wi'.stopped
            \/ \E a \in Attempts : turn'[t].rows[a].status \in {"unknown", "cancelled"}

Good == IInv' /\ DecisionStep /\ WakeStep

-----------------------------------------------------------------------------
(* Types *)

ItemType ==
    [status : {"open", "cancelled", "done"}, stopped : BOOLEAN, ver : Nat,
     backoff : BOOLEAN, credit : Int, action : {"none", "ready", "running"}]

LEMMA Facts ==
    ASSUME TypeOK
    PROVE  /\ wi \in ItemType
           /\ entry \in Seq(EntryType) /\ Len(entry) \in Nat /\ Entries = 1..Len(entry)
           /\ turn \in Seq(TurnType) /\ Len(turn) \in Nat /\ Turns = 1..Len(turn)
           /\ \A e \in Entries : entry[e] \in EntryType /\ entry[e].turn \in Turns \cup {NoTurn}
           /\ \A t \in Turns : turn[t] \in TurnType /\ turn[t].entry \in Entries
           /\ exec \subseteq ExecType /\ \A x \in exec : x.turn \in Turns
           /\ life \in {"up", "closing", "down"} /\ scan \in {"idle", "mailbox", "resume"}
           /\ left \in [Counters -> Nat]
BY DEF TypeOK, ItemType, Entries, Turns

LEMMA NextVersion ==
    ASSUME wi \in ItemType
    PROVE  \E v \in Nat : v = wi.ver + 1
BY DEF ItemType

LEMMA LeftTyped ==
    ASSUME left \in [Counters -> Nat], NEW S, May(S)
    PROVE  left' \in [Counters -> Nat]
<1>1. \A c \in Counters : left[c] - (IF c \in S THEN 1 ELSE 0) \in Nat
  BY DEF May
<1>. QED
  BY <1>1 DEF May

\* One entry, or one turn, changes.
LEMMA EntryPut ==
    ASSUME TypeOK, NEW e \in Entries, NEW m \in EntryType, entry' = [entry EXCEPT ![e] = m]
    PROVE  /\ entry' \in Seq(EntryType) /\ Entries' = Entries /\ entry'[e] = m
           /\ \A f \in Entries \ {e} : entry'[f] = entry[f]
BY Facts DEF Entries

LEMMA TurnPut ==
    ASSUME TypeOK, NEW t \in Turns, NEW u \in TurnType, turn' = [turn EXCEPT ![t] = u]
    PROVE  /\ turn' \in Seq(TurnType) /\ Turns' = Turns /\ Len(turn') = Len(turn)
           /\ turn'[t] = u /\ \A s \in Turns \ {t} : turn'[s] = turn[s]
BY Facts DEF Turns

LEMMA RowTyped ==
    ASSUME NEW u \in TurnType, NEW a \in Attempts
    PROVE  u.rows[a] \in RowType
BY DEF TurnType

\* An entry, or a turn, is added.
LEMMA EntryAdd ==
    ASSUME TypeOK, NEW m \in EntryType, entry' = Append(entry, m)
    PROVE  /\ entry' \in Seq(EntryType) /\ Entries' = 1..(Len(entry) + 1)
           /\ Len(entry) + 1 \in Entries' /\ Len(entry) + 1 \notin Entries
           /\ entry'[Len(entry) + 1] = m /\ \A f \in Entries : f \in Entries' /\ entry'[f] = entry[f]
           /\ \A f \in Entries' : f \in Entries \/ f = Len(entry) + 1
BY Facts DEF Entries

LEMMA TurnAdd ==
    ASSUME TypeOK, NEW u \in TurnType, turn' = Append(turn, u)
    PROVE  /\ turn' \in Seq(TurnType) /\ Turns' = 1..(Len(turn) + 1) /\ Len(turn') = Len(turn) + 1
           /\ Len(turn) + 1 \in Turns' /\ Len(turn) + 1 \notin Turns
           /\ turn'[Len(turn) + 1] = u /\ \A s \in Turns : s \in Turns' /\ turn'[s] = turn[s]
           /\ \A s \in Turns' : s \in Turns \/ s = Len(turn) + 1
BY Facts DEF Turns

LEMMA WakeTyped ==
    ASSUME NEW kind \in {"message", "wake"}, NEW t \in Nat
    PROVE  Wake \in EntryType /\ [Wake EXCEPT !.kind = kind, !.turn = t] \in EntryType
BY DEF Wake, EntryType, NoTurn

-----------------------------------------------------------------------------
(* Claims and their holders *)

TurnsKept ==
    /\ Turns \subseteq Turns'
    /\ \A t \in Turns : turn'[t].entry = turn[t].entry /\ turn'[t].auto = turn[t].auto

\* A claim is new only under an epoch that no executor of the entry holds.
ClaimsKept ==
    /\ Entries \subseteq Entries'
    /\ \A e \in Entries :
         /\ entry'[e].kind = entry[e].kind
         /\ entry'[e].status = "claimed" /\ entry'[e].live =>
              \/ /\ entry[e].status = "claimed" /\ entry[e].live
                 /\ entry'[e].epoch = entry[e].epoch /\ entry'[e].turn = entry[e].turn
              \/ \A x \in exec : turn[x.turn].entry = e => x.epoch # entry'[e].epoch

LEMMA HoldsBefore ==
    ASSUME IInv, TurnsKept, ClaimsKept, NEW x \in exec, Holds(x)'
    PROVE  Holds(x)
<1>1. x.turn \in Turns /\ turn[x.turn].entry \in Entries
  BY Facts DEF IInv
<1>2. turn'[x.turn].entry = turn[x.turn].entry
  BY <1>1 DEF TurnsKept
<1>. DEFINE e == turn[x.turn].entry
<1>3. entry'[e].status = "claimed" /\ entry'[e].live /\ entry'[e].epoch = x.epoch
      /\ entry'[e].turn = x.turn
  BY <1>2 DEF Holds, ClaimHolds
<1>4. entry[e].status = "claimed" /\ entry[e].live
      /\ entry'[e].epoch = entry[e].epoch /\ entry'[e].turn = entry[e].turn
  BY <1>1, <1>3 DEF ClaimsKept
<1>. QED
  BY <1>3, <1>4 DEF Holds, ClaimHolds

LEMMA HoldersAgree == IInv => OneExecutorActs
<1>. SUFFICES ASSUME IInv
              PROVE  OneExecutorActs
  OBVIOUS
<1>1. \A x \in exec : Holds(x) => turn[x.turn].status = "thinking" /\ x.turn \in Turns
  BY Facts DEF IInv, HolderIsRight
<1>2. ASSUME NEW x \in exec, NEW y \in exec, Holds(x), Holds(y)
      PROVE  x = y
  <2>1. x.turn = y.turn
    BY <1>1, <1>2 DEF IInv, OneTurnThinks
  <2>2. x.epoch = y.epoch
    BY <1>2, <2>1 DEF Holds, ClaimHolds
  <2>. QED
    BY <2>1, <2>2 DEF IInv, EpochsDiffer
<1>. QED
  BY <1>1, <1>2 DEF OneExecutorActs

LEMMA ExecutorsKept ==
    ASSUME IInv, TurnsKept, ClaimsKept, exec' \subseteq exec,
           \A x \in exec' : Holds(x) /\ Holds(x)' =>
               /\ turn'[x.turn].status = "thinking"
               /\ RowMatches(x, turn'[x.turn].rows[x.attempt])
    PROVE  EpochsDiffer' /\ HolderIsRight' /\ IsFiniteSet(exec')
<1>1. EpochsDiffer'
  BY DEF IInv, EpochsDiffer
<1>2. HolderIsRight'
  BY HoldsBefore DEF HolderIsRight, Row
<1>3. IsFiniteSet(exec')
  BY FS_Subset DEF IInv
<1>. QED
  BY <1>1, <1>2, <1>3

\* An executor starts, or one of them goes on as y.
LEMMA ExecutorAdded ==
    ASSUME IInv, TurnsKept, ClaimsKept, NEW others \in SUBSET exec, NEW y,
           exec' = others \cup {y},
           \A x \in others : x.turn = y.turn => x.epoch # y.epoch,
           \A x \in others : Holds(x) /\ Holds(x)' =>
               /\ turn'[x.turn].status = "thinking"
               /\ RowMatches(x, turn'[x.turn].rows[x.attempt]),
           Holds(y)' => /\ turn'[y.turn].status = "thinking"
                        /\ RowMatches(y, turn'[y.turn].rows[y.attempt])
    PROVE  EpochsDiffer' /\ HolderIsRight' /\ IsFiniteSet(exec')
<1>1. EpochsDiffer'
  BY DEF IInv, EpochsDiffer
<1>2. HolderIsRight'
  <2>1. SUFFICES ASSUME NEW x \in exec', Holds(x)'
                 PROVE  /\ turn'[x.turn].status = "thinking"
                        /\ RowMatches(x, turn'[x.turn].rows[x.attempt])
    BY DEF HolderIsRight, Row
  <2>2. CASE x = y
    BY <2>1, <2>2
  <2>3. CASE x \in others
    <3>1. Holds(x)
      BY <2>1, <2>3, HoldsBefore
    <3>. QED
      BY <2>1, <2>3, <3>1
  <2>. QED
    BY <2>2, <2>3
<1>3. IsFiniteSet(exec')
  <2>1. IsFiniteSet(others)
    BY FS_Subset DEF IInv
  <2>. QED
    BY <2>1, FS_AddElement
<1>. QED
  BY <1>1, <1>2, <1>3

\* The next epoch of an entry is one that no executor about it has.
LEMMA FreshEpoch ==
    ASSUME IInv, ~IsFiniteSet(Epochs), NEW e \in Entries
    PROVE  /\ NextEpoch(e) \in Epochs
           /\ \A x \in exec : turn[x.turn].entry = e => x.epoch # NextEpoch(e)
<1>. DEFINE F == {x.epoch : x \in exec}
            f == [x \in exec |-> x.epoch]
            rows == turn[entry[e].turn].rows
            G == {entry[e].epoch, rows[1].epoch, rows[2].epoch}
<1>1. IsFiniteSet(F)
  <2>1. f \in Surjection(exec, F)
    BY DEF Surjection
  <2>2. IsFiniteSet(exec)
    BY DEF IInv
  <2>. QED
    BY <2>1, <2>2, FS_Surjection
<1>2. IsFiniteSet(G)
  <2>1. IsFiniteSet({}) /\ IsFiniteSet({entry[e].epoch})
    BY FS_EmptySet, FS_Singleton
  <2>2. IsFiniteSet({entry[e].epoch} \cup {rows[1].epoch})
    BY <2>1, FS_AddElement
  <2>3. IsFiniteSet(({entry[e].epoch} \cup {rows[1].epoch}) \cup {rows[2].epoch})
    BY <2>2, FS_AddElement
  <2>4. G = ({entry[e].epoch} \cup {rows[1].epoch}) \cup {rows[2].epoch}
    OBVIOUS
  <2>. QED
    BY <2>3, <2>4
<1>3. IsFiniteSet(F \cup G)
  BY <1>1, <1>2, FS_Union
<1>4. PICK k \in Epochs : k \notin F \cup G
  <2>1. ASSUME Epochs \subseteq F \cup G
        PROVE  FALSE
    BY <1>3, <2>1, FS_Subset
  <2>. QED
    BY <2>1
<1>5. /\ k # entry[e].epoch
      /\ \A x \in exec : x.epoch # k
      /\ \A a \in Attempts : turn[entry[e].turn].rows[a].epoch # k
  BY <1>4 DEF Attempts
<1>. QED
  BY <1>4, <1>5 DEF NextEpoch

-----------------------------------------------------------------------------
(* Steps of the mailbox only *)

\* Entries are added, claimed, lapse or are returned; none is acknowledged.
MailMoves ==
    /\ entry' \in Seq(EntryType) /\ Entries \subseteq Entries'
    /\ \A e \in Entries' \ Entries : entry'[e].turn = NoTurn
    /\ \A e \in Entries :
         /\ entry'[e].turn = entry[e].turn
         /\ entry[e].status \in {"pending", "claimed"} => entry'[e].status \in {"pending", "claimed"}
         /\ entry'[e].status = "acked" => entry[e].status = "acked"

\* What the other variables become.
RestTyped ==
    /\ wi' \in ItemType
    /\ life' \in {"up", "closing", "down"} /\ scan' \in {"idle", "mailbox", "resume"}
    /\ left' \in [Counters -> Nat]

LEMMA MailStep ==
    ASSUME IInv, MailMoves, ClaimsKept, UNCHANGED turn, exec' \subseteq exec,
           RestTyped, FailureIsLeft', ProcessRuns'
    PROVE  Good
<1>. USE Facts DEF IInv
<1>1. TurnsKept
  BY DEF TurnsKept, Turns
<1>2. TypeOK'
  <2>1. \A e \in Entries' : entry'[e].turn \in Turns' \cup {NoTurn}
    BY DEF MailMoves, Turns
  <2>2. \A t \in Turns' : turn'[t].entry \in Entries'
    BY DEF MailMoves, Turns
  <2>3. exec' \subseteq ExecType /\ \A x \in exec' : x.turn \in Turns'
    BY DEF Turns
  <2>. QED
    BY <2>1, <2>2, <2>3 DEF TypeOK, RestTyped, ItemType, MailMoves
<1>3. OneTurnThinks'
  BY DEF OneTurnThinks, Turns
<1>4. LinksAgree'
  <2>1. ASSUME NEW e \in Entries', entry'[e].turn # NoTurn
        PROVE  turn'[entry'[e].turn].entry = e
    BY <2>1 DEF MailMoves, LinksAgree
  <2>2. ASSUME NEW t \in Turns', ~turn'[t].auto
        PROVE  entry'[turn'[t].entry].kind = "message"
    BY <2>2 DEF ClaimsKept, LinksAgree, Turns
  <2>. QED
    BY <2>1, <2>2 DEF LinksAgree
<1>5. ThinkerHasEntry'
  <2>1. ASSUME NEW t \in Turns', turn'[t].status = "thinking"
        PROVE  /\ entry'[turn'[t].entry].turn = t
               /\ entry'[turn'[t].entry].status \in {"pending", "claimed"}
    <3>1. t \in Turns /\ turn[t].status = "thinking" /\ turn'[t].entry = turn[t].entry
          /\ turn[t].entry \in Entries
      BY <2>1 DEF Turns
    <3>2. entry[turn[t].entry].turn = t /\ entry[turn[t].entry].status \in {"pending", "claimed"}
      BY <3>1 DEF ThinkerHasEntry
    <3>. QED
      BY <3>1, <3>2 DEF MailMoves
  <2>. QED
    BY <2>1 DEF ThinkerHasEntry
<1>6. EpochsDiffer' /\ HolderIsRight' /\ IsFiniteSet(exec')
  <2>1. \A x \in exec' : Holds(x) /\ Holds(x)' =>
            /\ turn'[x.turn].status = "thinking"
            /\ RowMatches(x, turn'[x.turn].rows[x.attempt])
    BY DEF HolderIsRight, Row
  <2>. QED
    BY <1>1, <2>1, ExecutorsKept
<1>7. DecisionStep
  BY DEF DecisionStep
<1>8. WakeStep
  BY DEF WakeStep, MailMoves
<1>. QED
  BY <1>2, <1>3, <1>4, <1>5, <1>6, <1>7, <1>8 DEF Good

\* Entries stay as they are, or a wake is added.
LEMMA MailKept ==
    ASSUME IInv, entry' = entry \/ entry' = Append(entry, Wake)
    PROVE  MailMoves /\ ClaimsKept
<1>. USE Facts DEF IInv
<1>1. CASE entry' = entry
  BY <1>1 DEF MailMoves, ClaimsKept, Entries
<1>2. CASE entry' = Append(entry, Wake)
  <2>1. Wake \in EntryType /\ Wake.turn = NoTurn
    BY WakeTyped DEF NoTurn, Wake
  <2>. QED
    BY <1>2, <2>1, EntryAdd DEF MailMoves, ClaimsKept
<1>. QED
  BY <1>1, <1>2

LEMMA QuietStep ==
    ASSUME IInv, UNCHANGED turn, entry' = entry \/ entry' = Append(entry, Wake),
           exec' \subseteq exec, RestTyped, FailureIsLeft', ProcessRuns'
    PROVE  Good
BY MailKept, MailStep

\* Steps that leave the turns and the mailbox alone, or add a wake.
LEMMA WorkItemSteps ==
    ASSUME IInv,
           \/ BackoffEnds \/ ActionClaimed \/ ActionSettles \/ UpdateContract
           \/ Cancel \/ StopExecution \/ Extend
    PROVE  Good
<1>0. wi \in ItemType /\ left \in [Counters -> Nat]
      /\ life \in {"up", "closing", "down"} /\ scan \in {"idle", "mailbox", "resume"}
  BY Facts DEF IInv
<1>1. UNCHANGED <<turn, exec, life, scan>> /\ left' \in [Counters -> Nat]
      /\ (entry' = entry \/ entry' = Append(entry, Wake))
  BY <1>0, LeftTyped DEF BackoffEnds, ActionClaimed, ActionSettles, UpdateContract, Cancel,
                         StopExecution, Extend
<1>. DEFINE Fine == /\ wi' \in ItemType
                    /\ wi'.credit = wi.credit \/ wi'.credit = wi.credit + 1
                    /\ wi'.stopped = wi.stopped \/ wi'.stopped
<1>9. PICK v \in Nat : v = wi.ver + 1
  BY <1>0, NextVersion
<1>2. Fine
  <2>1. CASE BackoffEnds
    BY <1>0, <2>1 DEF BackoffEnds, ItemType
  <2>2. CASE ActionClaimed
    <3>1. wi' = [wi EXCEPT !.action = "running", !.ver = v]
      BY <1>9, <2>2 DEF ActionClaimed
    <3>. QED
      BY <1>0, <3>1 DEF ItemType
  <2>3. CASE ActionSettles
    <3>1. wi' = [wi EXCEPT !.action = "none", !.ver = v]
      BY <1>9, <2>3 DEF ActionSettles
    <3>. QED
      BY <1>0, <3>1 DEF ItemType
  <2>4. CASE UpdateContract
    <3>1. wi' = [wi EXCEPT !.ver = v, !.action = "none"]
      BY <1>9, <2>4 DEF UpdateContract
    <3>. QED
      BY <1>0, <3>1 DEF ItemType
  <2>5. CASE Cancel
    <3>1. wi' = [wi EXCEPT !.status = "cancelled", !.ver = v, !.action = "none"]
      BY <1>9, <2>5 DEF Cancel
    <3>. QED
      BY <1>0, <3>1 DEF ItemType
  <2>6. CASE StopExecution
    BY <1>0, <2>6 DEF StopExecution, ItemType
  <2>7. CASE Extend
    BY <1>0, <2>7 DEF Extend, ItemType
  <2>. QED
    BY <2>1, <2>2, <2>3, <2>4, <2>5, <2>6, <2>7
<1>3. wi.credit \in Int
  BY <1>0 DEF ItemType
<1>4. FailureIsLeft'
  BY <1>1, <1>2, <1>3 DEF IInv, FailureIsLeft, Thinking
<1>5. ProcessRuns' /\ RestTyped
  BY <1>0, <1>1, <1>2 DEF IInv, ProcessRuns, RestTyped
<1>. QED
  BY <1>1, <1>4, <1>5, QuietStep

\* The process ends in one way or the other.
LEMMA ProcessSteps ==
    ASSUME IInv, Shutdown \/ ShutdownEnds \/ Crash
    PROVE  Good
<1>. USE Facts DEF IInv
<1>1. UNCHANGED <<wi, entry, turn>> /\ exec' \subseteq exec /\ RestTyped
  BY LeftTyped DEF Shutdown, ShutdownEnds, Crash, RestTyped
<1>2. FailureIsLeft'
  BY <1>1 DEF FailureIsLeft, Thinking
<1>3. ProcessRuns'
  BY DEF ProcessRuns, Shutdown, ShutdownEnds, Crash, Up, Free
<1>. QED
  BY <1>1, <1>2, <1>3, QuietStep

\* An executor returns without a trace.
LEMMA GiveUpStep ==
    ASSUME IInv, NEW x \in exec, GiveUp(x)
    PROVE  Good
<1>. USE Facts DEF IInv
<1>1. UNCHANGED <<wi, entry, turn, life, scan, left>> /\ exec' \subseteq exec
  BY DEF GiveUp
<1>2. RestTyped /\ FailureIsLeft' /\ ProcessRuns'
  BY <1>1 DEF RestTyped, FailureIsLeft, Thinking, ProcessRuns
<1>. QED
  BY <1>1, <1>2, QuietStep

\* A lease lapses, in time.
LEMMA LeaseStep ==
    ASSUME IInv, NEW e \in Entries, LeaseExpires(e)
    PROVE  Good
<1>. USE Facts DEF IInv
<1>. DEFINE m == [entry[e] EXCEPT !.live = FALSE]
<1>1. m \in EntryType /\ m.turn = entry[e].turn /\ m.kind = entry[e].kind
      /\ m.status = entry[e].status /\ ~m.live
  BY DEF EntryType
<1>2. entry' = [entry EXCEPT ![e] = m]
  BY DEF LeaseExpires
<1>3. UNCHANGED <<wi, turn, exec, life, scan>> /\ left' \in [Counters -> Nat]
  BY LeftTyped DEF LeaseExpires
<1>. HIDE DEF m
<1>4. MailMoves /\ ClaimsKept
  <2>1. /\ entry' \in Seq(EntryType) /\ Entries' = Entries /\ entry'[e] = m
        /\ \A f \in Entries \ {e} : entry'[f] = entry[f]
    BY <1>1, <1>2, EntryPut
  <2>. QED
    BY <1>1, <2>1 DEF MailMoves, ClaimsKept
<1>5. RestTyped /\ FailureIsLeft' /\ ProcessRuns'
  BY <1>3 DEF RestTyped, FailureIsLeft, Thinking, ProcessRuns
<1>. QED
  BY <1>3, <1>4, <1>5, MailStep

\* A set of numbers that is not empty has a least one.
LEMMA LeastNatural ==
    ASSUME NEW T, T \subseteq Nat, T # {}
    PROVE  \E m \in T : \A k \in T : m <= k
<1>. DEFINE R == {p \in Nat \X Nat : p[1] < p[2]}
<1>1. R = OpToRel(<, Nat)
  BY DEF OpToRel
<1>2. IsWellFoundedOn(R, Nat)
  BY <1>1, NatLessThanWellFounded
<1>3. PICK m \in T : \A k \in T : ~(<<k, m>> \in R)
  BY <1>2, WFMin
<1>4. ASSUME NEW k \in T, k < m
      PROVE  FALSE
  <2>1. <<k, m>> \in Nat \X Nat /\ <<k, m>>[1] < <<k, m>>[2]
    BY <1>4
  <2>2. <<k, m>> \in R
    BY <2>1
  <2>. QED
    BY <2>2, <1>3
<1>. QED
  BY <1>4

\* The entry that can be claimed first.
LEMMA FirstWaiting ==
    ASSUME TypeOK, Waiting # {}
    PROVE  First(Waiting) \in Entries /\ Claimable(First(Waiting))
<1>1. Waiting \subseteq Nat /\ Waiting # {}
  BY Facts DEF Waiting
<1>2. \E e \in Waiting : \A f \in Waiting : e <= f
  BY <1>1, LeastNatural
<1>. QED
  BY <1>2 DEF First, Waiting

-----------------------------------------------------------------------------
(* Steps of the executor that holds the claim *)

LEMMA ExecFacts ==
    ASSUME IInv, NEW x \in exec
    PROVE  /\ x \in ExecType /\ x.turn \in Turns /\ x.attempt \in Attempts
           /\ turn[x.turn] \in TurnType /\ Row(x) \in RowType /\ Asks(x) \in Requests
           /\ turn[x.turn].entry \in Entries /\ entry[turn[x.turn].entry] \in EntryType
           /\ life # "down" /\ IsFiniteSet(exec)
<1>1. x \in ExecType /\ x.turn \in Turns /\ turn[x.turn] \in TurnType
      /\ turn[x.turn].entry \in Entries /\ entry[turn[x.turn].entry] \in EntryType
  BY Facts DEF IInv
<1>2. x.attempt \in Attempts
  BY <1>1 DEF ExecType
<1>3. Row(x) \in RowType
  BY <1>1, <1>2, RowTyped DEF Row
<1>4. Asks(x) \in Requests
  BY <1>1 DEF ExecType, Asks, Requests
<1>. QED
  BY <1>1, <1>2, <1>3, <1>4 DEF IInv, ProcessRuns

\* The holder is the only one.
LEMMA OthersDoNotHold ==
    ASSUME IInv, NEW x \in exec, Holds(x), NEW z \in exec, z # x
    PROVE  ~Holds(z)
BY HoldersAgree DEF OneExecutorActs

\* The steps of a turn that change one of its rows keep all else.
LEMMA RowStep ==
    ASSUME IInv, NEW x \in exec, Holds(x), NEW row \in RowType, NEW y \in ExecType,
           turn' = [turn EXCEPT ![x.turn].rows[x.attempt] = row],
           exec' = (exec \ {x}) \cup {y}, y.turn = x.turn, y.epoch = x.epoch,
           y.attempt = x.attempt => RowMatches(y, row),
           y.attempt # x.attempt => y.pc = "again",
           UNCHANGED <<wi, entry, life, scan, left>>
    PROVE  Good
<1>. DEFINE t == x.turn
            u == [turn[t] EXCEPT !.rows[x.attempt] = row]
<1>1. t \in Turns /\ turn[t] \in TurnType /\ x.attempt \in Attempts /\ life # "down"
  BY ExecFacts
<1>2. /\ u \in TurnType /\ u.entry = turn[t].entry /\ u.auto = turn[t].auto
      /\ u.status = turn[t].status /\ u.rows[x.attempt] = row
  BY <1>1 DEF TurnType
<1>3. turn' = [turn EXCEPT ![t] = u]
  OBVIOUS
<1>. HIDE DEF u
<1>4. /\ turn' \in Seq(TurnType) /\ Turns' = Turns /\ Len(turn') = Len(turn)
      /\ turn'[t] = u /\ \A s \in Turns \ {t} : turn'[s] = turn[s]
  BY <1>1, <1>2, <1>3, TurnPut DEF IInv
<1>5. /\ \A s \in Turns : /\ turn'[s].status = turn[s].status
                          /\ turn'[s].entry = turn[s].entry /\ turn'[s].auto = turn[s].auto
      /\ TurnsKept /\ ClaimsKept
  BY <1>2, <1>4 DEF TurnsKept, ClaimsKept, Entries
<1>6. TypeOK'
  <2>1. entry' \in Seq(EntryType) /\ \A e \in Entries' : entry'[e].turn \in Turns' \cup {NoTurn}
    BY <1>4 DEF IInv, TypeOK, Entries
  <2>2. \A s \in Turns' : turn'[s].entry \in Entries'
    BY <1>4, <1>5, Facts DEF IInv, Entries
  <2>3. exec' \subseteq ExecType /\ \A z \in exec' : z.turn \in Turns'
    BY <1>1, <1>4, Facts DEF IInv
  <2>. QED
    BY <1>4, <2>1, <2>2, <2>3 DEF IInv, TypeOK
<1>7. OneTurnThinks' /\ LinksAgree' /\ ThinkerHasEntry'
  <2>1. OneTurnThinks'
    BY <1>4, <1>5 DEF IInv, OneTurnThinks
  <2>2. LinksAgree'
    BY <1>4, <1>5, Facts DEF IInv, LinksAgree, Entries, NoTurn
  <2>3. ThinkerHasEntry'
    BY <1>4, <1>5 DEF IInv, ThinkerHasEntry
  <2>. QED
    BY <2>1, <2>2, <2>3
<1>8. FailureIsLeft' /\ ProcessRuns'
  <2>1. Thinking' => Thinking
    <3>1. Thinking' => Len(turn) \in Turns
      BY <1>4, Facts DEF IInv, Thinking
    <3>2. turn = <<>> => ~(Len(turn) \in Turns)
      BY DEF Turns
    <3>. QED
      BY <1>4, <1>5, <3>1, <3>2 DEF Thinking
  <2>. QED
    BY <1>1, <2>1 DEF IInv, FailureIsLeft, ProcessRuns
<1>9. EpochsDiffer' /\ HolderIsRight' /\ IsFiniteSet(exec')
  <2>1. \A z \in exec \ {x} : z.turn = y.turn => z.epoch # y.epoch
    BY DEF IInv, EpochsDiffer
  <2>2. \A z \in exec \ {x} : ~Holds(z)
    BY OthersDoNotHold
  <2>3. turn'[y.turn].status = "thinking"
    BY <1>1, <1>5 DEF IInv, HolderIsRight
  <2>4. RowMatches(y, turn'[y.turn].rows[y.attempt])
    <3>1. CASE y.attempt = x.attempt
      BY <1>2, <1>4, <3>1
    <3>2. CASE y.attempt # x.attempt
      BY <3>2 DEF RowMatches
    <3>. QED
      BY <3>1, <3>2
  <2>5. exec \ {x} \in SUBSET exec
    OBVIOUS
  <2>. QED
    BY <1>5, <2>1, <2>2, <2>3, <2>4, <2>5, ExecutorAdded
<1>10. DecisionStep /\ WakeStep
  BY <1>5 DEF DecisionStep, WakeStep
<1>. QED
  BY <1>6, <1>7, <1>8, <1>9, <1>10 DEF IInv, Good

\* One of two attempts is asked, answered or rejected.
LEMMA RowSteps ==
    ASSUME IInv, NEW x \in exec, PrepareNew(x) \/ Dispatch(x) \/ Respond(x) \/ InvalidResponse(x)
    PROVE  Good
<1>1. /\ x \in ExecType /\ Row(x) \in RowType /\ Asks(x) \in Requests
      /\ x.turn \in Turns /\ turn[x.turn] \in TurnType /\ x.attempt \in Attempts
  BY ExecFacts
<1>2. x.epoch \in Epochs \cup {0}
  BY <1>1 DEF ExecType
<1>3. Holds(x) /\ RowMatches(x, Row(x))
  BY DEF PrepareNew, Dispatch, Respond, InvalidResponse, Reject, IInv, HolderIsRight
<1>. DEFINE to(pc) == [x EXCEPT !.pc = pc]
            marked(status) == [Row(x) EXCEPT !.status = status]
<1>4. \A pc \in {"prepared", "calling", "answered"} :
        /\ to(pc) \in ExecType /\ to(pc).turn = x.turn /\ to(pc).epoch = x.epoch
        /\ to(pc).attempt = x.attempt /\ to(pc).pc = pc /\ Asks(to(pc)) = Asks(x)
  BY <1>1 DEF ExecType, Asks
<1>5. \A status \in RowStatus :
        /\ marked(status) \in RowType /\ marked(status).status = status
        /\ marked(status).epoch = Row(x).epoch /\ marked(status).asked = Row(x).asked
  BY <1>1 DEF RowType
<1>6. \A status : [turn EXCEPT ![x.turn].rows[x.attempt].status = status]
                    = [turn EXCEPT ![x.turn].rows[x.attempt] = marked(status)]
  BY DEF Row
<1>7. CASE PrepareNew(x)
  <2>. DEFINE row == [status |-> "prepared", epoch |-> x.epoch, asked |-> Asks(x)]
              y == to("prepared")
  <2>1. row \in RowType /\ row.status = "prepared" /\ row.epoch = x.epoch /\ row.asked = Asks(x)
    BY <1>1, <1>2 DEF RowType, RowStatus
  <2>2. turn' = [turn EXCEPT ![x.turn].rows[x.attempt] = row] /\ exec' = (exec \ {x}) \cup {y}
        /\ UNCHANGED <<wi, entry, life, scan, left>>
    BY <1>7 DEF PrepareNew, Moved
  <2>. HIDE DEF row, to
  <2>3. RowMatches(y, row)
    BY <1>4, <2>1 DEF RowMatches
  <2>. QED
    BY <1>3, <1>4, <2>1, <2>2, <2>3, RowStep
<1>8. CASE Dispatch(x)
  <2>. DEFINE row == marked("dispatching")
              y == to("calling")
  <2>1. turn' = [turn EXCEPT ![x.turn].rows[x.attempt] = row] /\ exec' = (exec \ {x}) \cup {y}
        /\ UNCHANGED <<wi, entry, life, scan, left>> /\ x.pc = "prepared"
    BY <1>6, <1>8 DEF Dispatch, Moved
  <2>. HIDE DEF marked, to
  <2>2. RowMatches(y, row) /\ row \in RowType
    BY <1>3, <1>4, <1>5, <2>1 DEF RowMatches, RowStatus
  <2>. QED
    BY <1>3, <1>4, <2>1, <2>2, RowStep
<1>9. CASE Respond(x)
  <2>. DEFINE row == marked("responded")
              y == to("answered")
  <2>1. turn' = [turn EXCEPT ![x.turn].rows[x.attempt] = row] /\ exec' = (exec \ {x}) \cup {y}
        /\ UNCHANGED <<wi, entry, life, scan, left>> /\ x.pc = "calling"
    BY <1>6, <1>9 DEF Respond, Moved
  <2>. HIDE DEF marked, to
  <2>2. RowMatches(y, row) /\ row \in RowType
    BY <1>3, <1>4, <1>5, <2>1 DEF RowMatches, RowStatus
  <2>. QED
    BY <1>3, <1>4, <2>1, <2>2, RowStep
<1>10. CASE InvalidResponse(x)
  <2>. DEFINE row == marked("cancelled")
              y == [x EXCEPT !.pc = "again", !.attempt = @ + 1]
  <2>1. turn' = [turn EXCEPT ![x.turn].rows[x.attempt] = row] /\ exec' = (exec \ {x}) \cup {y}
        /\ UNCHANGED <<wi, entry, life, scan, left>> /\ x.attempt + 1 \in Attempts
    BY <1>6, <1>10 DEF InvalidResponse, Reject
  <2>2. y \in ExecType /\ y.turn = x.turn /\ y.epoch = x.epoch /\ y.pc = "again"
    <3>1. PICK b \in Attempts : b = x.attempt + 1
      BY <2>1
    <3>. QED
      BY <1>1, <3>1 DEF ExecType
  <2>. HIDE DEF marked, y
  <2>3. RowMatches(y, row) /\ row \in RowType
    BY <1>5, <2>2 DEF RowMatches, RowStatus
  <2>. QED
    BY <1>3, <2>1, <2>2, <2>3, RowStep
<1>. QED
  BY <1>7, <1>8, <1>9, <1>10

\* The turn of the holder is the one that thinks, about the entry it claimed.
LEMMA HolderThinks ==
    ASSUME IInv, NEW x \in exec, Holds(x)
    PROVE  /\ turn[x.turn].status = "thinking" /\ x.turn = Len(turn) /\ Thinking
           /\ wi.credit >= 1 /\ wi.credit \in Int
           /\ entry[turn[x.turn].entry].turn = x.turn
           /\ entry[turn[x.turn].entry].status = "claimed"
<1>1. turn[x.turn].status = "thinking"
  BY DEF IInv, HolderIsRight
<1>2. x.turn \in Turns /\ x.turn = Len(turn)
  BY <1>1, ExecFacts DEF IInv, OneTurnThinks
<1>3. Thinking
  BY <1>1, <1>2 DEF Thinking, Turns
<1>4. wi.credit \in Int
  BY Facts DEF IInv, ItemType
<1>. QED
  BY <1>1, <1>2, <1>3, <1>4 DEF IInv, FailureIsLeft, Holds, ClaimHolds

\* The request is there already and is this one.
LEMMA PrepareAgainStep ==
    ASSUME IInv, NEW x \in exec, PrepareAgain(x)
    PROVE  Good
<1>. DEFINE pc == IF Row(x).status = "responded" THEN "answered" ELSE "prepared"
            y == [x EXCEPT !.pc = pc]
<1>1. /\ Holds(x) /\ Row(x).status \in {"prepared", "dispatching", "responded"}
      /\ Row(x).asked = Asks(x) /\ Row(x).epoch = x.epoch
      /\ exec' = (exec \ {x}) \cup {y} /\ UNCHANGED <<wi, entry, turn, life, scan, left>>
  BY DEF PrepareAgain, SameRequest, Moved
<1>2. /\ x \in ExecType /\ x.turn \in Turns /\ x.attempt \in Attempts
      /\ turn[x.turn] \in TurnType /\ Row(x) \in RowType
  BY ExecFacts
<1>3. y \in ExecType /\ y.turn = x.turn /\ y.epoch = x.epoch /\ y.attempt = x.attempt
      /\ y.pc = pc /\ Asks(y) = Asks(x)
  BY <1>2 DEF ExecType, Asks
<1>4. turn' = [turn EXCEPT ![x.turn].rows[x.attempt] = Row(x)]
  <2>1. [turn[x.turn] EXCEPT !.rows[x.attempt] = Row(x)] = turn[x.turn]
    BY <1>2 DEF TurnType, Row
  <2>2. turn = [turn EXCEPT ![x.turn] = turn[x.turn]]
    BY <1>2, Facts DEF IInv
  <2>. QED
    BY <1>1, <2>1, <2>2
<1>5. RowMatches(y, Row(x))
  BY <1>1, <1>3 DEF RowMatches
<1>. HIDE DEF y
<1>. QED
  BY <1>1, <1>2, <1>3, <1>4, <1>5, RowStep

LEMMA LinksKept ==
    ASSUME TypeOK, LinksAgree, Entries' = Entries, Turns' = Turns,
           \A s \in Turns : turn'[s].entry = turn[s].entry /\ turn'[s].auto = turn[s].auto,
           \A f \in Entries : entry'[f].turn = entry[f].turn /\ entry'[f].kind = entry[f].kind
    PROVE  LinksAgree'
<1>1. \A f \in Entries : entry[f].turn # NoTurn => entry[f].turn \in Turns
  BY Facts
<1>2. \A s \in Turns : turn[s].entry \in Entries
  BY Facts
<1>. QED
  BY <1>1, <1>2 DEF LinksAgree

\* The turn goes on without its executor, or ends, and its entry with it.
LEMMA TurnEnds ==
    ASSUME IInv, NEW x \in exec, Holds(x), NEW u \in TurnType, NEW m \in EntryType,
           u.entry = turn[x.turn].entry, u.auto = turn[x.turn].auto,
           m.kind = entry[u.entry].kind, m.turn = entry[u.entry].turn,
           turn' = [turn EXCEPT ![x.turn] = u],
           entry' = [entry EXCEPT ![u.entry] = m],
           exec' = exec \ {x}, UNCHANGED <<life, scan>>, RestTyped, FailureIsLeft',
           \/ u.status = "thinking" /\ m = entry[u.entry]
           \/ u.status # "thinking" /\ ~m.live,
           u.status = "completed" => /\ Row(x).status = "responded"
                                     /\ Row(x).asked.ver = wi.ver,
           m.status = "acked" /\ m.kind = "wake" =>
               u.status = "completed" \/ (u.status = "failed" /\ wi'.stopped)
    PROVE  Good
<1>. DEFINE t == x.turn
            e == u.entry
<1>1. /\ t \in Turns /\ turn[t] \in TurnType /\ x.attempt \in Attempts /\ e \in Entries
      /\ entry[e] \in EntryType /\ life # "down"
  BY ExecFacts
<1>2. /\ turn[t].status = "thinking" /\ t = Len(turn) /\ entry[e].turn = t
      /\ entry[e].status = "claimed"
  BY HolderThinks
<1>3. /\ turn' \in Seq(TurnType) /\ Turns' = Turns /\ Len(turn') = Len(turn)
      /\ turn'[t] = u /\ \A s \in Turns \ {t} : turn'[s] = turn[s]
  BY <1>1, TurnPut DEF IInv
<1>4. /\ entry' \in Seq(EntryType) /\ Entries' = Entries /\ entry'[e] = m
      /\ \A f \in Entries \ {e} : entry'[f] = entry[f]
  BY <1>1, EntryPut DEF IInv
<1>5. /\ \A s \in Turns : turn'[s].entry = turn[s].entry /\ turn'[s].auto = turn[s].auto
      /\ \A f \in Entries : entry'[f].turn = entry[f].turn /\ entry'[f].kind = entry[f].kind
  BY <1>3, <1>4
<1>6. TurnsKept /\ ClaimsKept
  <2>1. TurnsKept
    BY <1>3, <1>5 DEF TurnsKept
  <2>2. ClaimsKept
    BY <1>4, <1>5 DEF ClaimsKept
  <2>. QED
    BY <2>1, <2>2
<1>7. TypeOK'
  <2>1. \A f \in Entries' : entry'[f].turn \in Turns' \cup {NoTurn}
    BY <1>3, <1>4, <1>5, Facts DEF IInv
  <2>2. \A s \in Turns' : turn'[s].entry \in Entries'
    BY <1>3, <1>4, <1>5, Facts DEF IInv
  <2>3. exec' \subseteq ExecType /\ \A z \in exec' : z.turn \in Turns'
    BY <1>3, Facts DEF IInv
  <2>. QED
    BY <1>3, <1>4, <2>1, <2>2, <2>3 DEF TypeOK, RestTyped, ItemType
<1>8. OneTurnThinks' /\ LinksAgree' /\ ThinkerHasEntry'
  <2>1. \A s \in Turns : turn'[s].status = "thinking" =>
            s = t /\ turn[s].status = "thinking" /\ u.status = "thinking"
    BY <1>2, <1>3 DEF IInv, OneTurnThinks
  <2>2. OneTurnThinks'
    BY <1>2, <1>3, <2>1 DEF OneTurnThinks
  <2>3. LinksAgree'
    <3>1. TypeOK /\ LinksAgree
      BY DEF IInv
    <3>. QED
      BY <1>3, <1>4, <1>5, <3>1, LinksKept
  <2>4. ThinkerHasEntry'
    BY <1>1, <1>2, <1>3, <1>4, <2>1 DEF ThinkerHasEntry
  <2>. QED
    BY <2>2, <2>3, <2>4
<1>9. ProcessRuns'
  BY <1>1 DEF IInv, ProcessRuns
<1>10. EpochsDiffer' /\ HolderIsRight' /\ IsFiniteSet(exec')
  <2>1. \A z \in exec \ {x} : ~Holds(z)
    BY OthersDoNotHold
  <2>. QED
    BY <1>6, <2>1, ExecutorsKept
<1>11. DecisionStep
  <2>1. ASSUME NEW s \in Turns, turn[s].status = "thinking", turn'[s].status = "completed"
        PROVE  s = t /\ u.status = "completed"
    BY <1>2, <1>3, <2>1 DEF IInv, OneTurnThinks
  <2>. QED
    BY <1>1, <2>1 DEF DecisionStep, Row
<1>12. WakeStep
  <2>1. ASSUME NEW f \in Entries, entry[f].kind = "wake", entry[f].status # "acked",
               entry'[f].status = "acked"
        PROVE  f = e /\ (u.status = "completed" \/ (u.status = "failed" /\ wi'.stopped))
    BY <1>4, <2>1
  <2>2. entry'[e].turn = t /\ turn'[t] = u
    BY <1>1, <1>2, <1>3, <1>5
  <2>. QED
    BY <2>1, <2>2 DEF WakeStep
<1>. QED
  BY <1>7, <1>8, <1>9, <1>10, <1>11, <1>12 DEF IInv, Good

\* What coordinatorFailed does to a WorkItem with a failure left.
LEMMA FailureCounted ==
    ASSUME wi \in ItemType, wi.credit >= 1
    PROVE  /\ CoordinatorFailed(wi) \in ItemType
           /\ CoordinatorFailed(wi).credit >= 0 /\ CoordinatorFailed(wi).credit \in Int
           /\ ~CoordinatorFailed(wi).stopped => CoordinatorFailed(wi).credit >= 1
           /\ CoordinatorFailed(wi).action = wi.action /\ CoordinatorFailed(wi).ver = wi.ver
<1>1. wi.credit \in Int /\ wi.stopped \in BOOLEAN
  BY DEF ItemType
<1>2. PICK c \in Int : c = wi.credit - 1
  BY <1>1
<1>3. PICK s \in BOOLEAN : s = (wi.stopped \/ wi.credit <= 1)
  BY <1>1
<1>4. CoordinatorFailed(wi) = [wi EXCEPT !.credit = c, !.backoff = TRUE, !.stopped = s]
  BY <1>2, <1>3 DEF CoordinatorFailed
<1>5. /\ CoordinatorFailed(wi) \in ItemType /\ CoordinatorFailed(wi).credit = c
      /\ CoordinatorFailed(wi).stopped = s
      /\ CoordinatorFailed(wi).action = wi.action /\ CoordinatorFailed(wi).ver = wi.ver
  BY <1>4 DEF ItemType
<1>6. PICK d \in Int : d = wi.credit
  BY <1>1
<1>7. c >= 0 /\ (~(wi.credit <= 1) => c >= 1)
  BY <1>2, <1>6
<1>8. ~s => ~(wi.credit <= 1)
  BY <1>3, Zenon
<1>. QED
  BY <1>5, <1>7, <1>8

LEMMA EntrySettled ==
    ASSUME NEW m \in EntryType
    PROVE  /\ Returned(m) \in EntryType /\ Returned(m).kind = m.kind /\ Returned(m).turn = m.turn
           /\ Returned(m).status = "pending" /\ ~Returned(m).live
           /\ Acked(m) \in EntryType /\ Acked(m).kind = m.kind /\ Acked(m).turn = m.turn
           /\ Acked(m).status = "acked" /\ ~Acked(m).live
BY DEF EntryType, Returned, Acked

\* The catch of an executor that lost its claim changes nothing.
LEMMA FailLost ==
    ASSUME IInv, NEW x \in exec, NEW interrupted, FailTurn(x, interrupted), ~Holds(x)
    PROVE  Good
<1>1. turn[x.turn] \in TurnType /\ x.turn \in Turns /\ turn \in Seq(TurnType)
  BY ExecFacts, Facts DEF IInv
<1>2. turn' = [turn EXCEPT ![x.turn].rows = turn[x.turn].rows, ![x.turn].status = turn[x.turn].status]
      /\ UNCHANGED <<wi, entry, life, scan, left>> /\ exec' \subseteq exec
  BY DEF FailTurn
<1>3. turn' = turn
  <2>1. [turn[x.turn] EXCEPT !.rows = turn[x.turn].rows, !.status = turn[x.turn].status] = turn[x.turn]
    BY <1>1 DEF TurnType
  <2>2. turn = [turn EXCEPT ![x.turn] = turn[x.turn]]
    BY <1>1
  <2>. QED
    BY <1>2, <2>1, <2>2
<1>4. RestTyped /\ FailureIsLeft' /\ ProcessRuns'
  BY <1>2, <1>3, Facts DEF IInv, RestTyped, FailureIsLeft, Thinking, ProcessRuns
<1>. QED
  BY <1>2, <1>3, <1>4, QuietStep

LEMMA FailHeld ==
    ASSUME IInv, NEW x \in exec, NEW interrupted \in BOOLEAN, FailTurn(x, interrupted), Holds(x)
    PROVE  Good
<1>. DEFINE t == turn[x.turn]
            e == t.entry
            cut == [t.rows EXCEPT ![x.attempt].status = "cancelled"]
            rows == IF x.pc = "answered" THEN cut ELSE t.rows
            settles == \A a \in Attempts : rows[a].status # "responded"
            w == IF interrupted THEN wi ELSE CoordinatorFailed(wi)
            u == [t EXCEPT !.rows = rows, !.status = IF settles THEN "failed" ELSE "thinking"]
            m == IF ~settles THEN entry[e]
                 ELSE IF t.auto /\ ~w.stopped THEN Returned(entry[e]) ELSE Acked(entry[e])
<1>1. /\ x.turn \in Turns /\ t \in TurnType /\ x.attempt \in Attempts /\ e \in Entries
      /\ entry[e] \in EntryType /\ wi \in ItemType /\ entry \in Seq(EntryType)
      /\ turn \in Seq(TurnType)
  BY ExecFacts, Facts DEF IInv
<1>2. /\ t.status = "thinking" /\ x.turn = Len(turn) /\ Thinking /\ wi.credit >= 1
      /\ wi.credit \in Int /\ entry[e].status = "claimed"
  BY HolderThinks
<1>3. /\ turn' = [turn EXCEPT ![x.turn] = u]
      /\ wi' = (IF settles THEN w ELSE wi)
      /\ entry' = IF settles THEN [entry EXCEPT ![e] = m] ELSE entry
      /\ exec' = exec \ {x} /\ UNCHANGED <<life, scan, left>>
  BY <1>2 DEF FailTurn
<1>4. rows \in [Attempts -> RowType]
  <2>1. t.rows \in [Attempts -> RowType]
    BY <1>1 DEF TurnType
  <2>2. [t.rows[x.attempt] EXCEPT !.status = "cancelled"] \in RowType
    BY <1>1, <2>1 DEF RowType, RowStatus
  <2>. QED
    BY <1>1, <2>1, <2>2
<1>. HIDE DEF rows
<1>5. /\ u \in TurnType /\ u.entry = e /\ u.auto = t.auto
      /\ u.status = IF settles THEN "failed" ELSE "thinking"
  BY <1>1, <1>4 DEF TurnType
<1>. HIDE DEF u
<1>6. w \in ItemType /\ w.credit >= 0 /\ w.credit \in Int /\ (~w.stopped => w.credit >= 1)
  BY <1>1, <1>2, FailureCounted
<1>. HIDE DEF w
<1>7. /\ m \in EntryType /\ m.kind = entry[e].kind /\ m.turn = entry[e].turn
      /\ settles => ~m.live
      /\ m.status = "acked" => settles /\ (~t.auto \/ w.stopped)
  BY <1>1, <1>2, EntrySettled
<1>8. entry' = [entry EXCEPT ![e] = m]
  <2>1. entry = [entry EXCEPT ![e] = entry[e]]
    BY <1>1
  <2>. QED
    BY <1>3, <2>1
<1>9. m.status = "acked" /\ m.kind = "wake" => u.status = "failed" /\ wi'.stopped
  <2>1. ~t.auto => entry[e].kind = "message"
    BY <1>1 DEF IInv, LinksAgree
  <2>. QED
    BY <1>3, <1>5, <1>7, <2>1
<1>. HIDE DEF m
<1>10. RestTyped
  BY <1>1, <1>3, <1>6, Facts DEF IInv, RestTyped
<1>11. FailureIsLeft'
  <2>1. settles => ~Thinking'
    <3>1. Len(turn') = Len(turn) /\ turn'[x.turn] = u
      BY <1>1, <1>3, <1>5, TurnPut DEF IInv
    <3>. QED
      BY <1>2, <1>5, <3>1 DEF Thinking
  <2>2. CASE settles
    BY <1>3, <1>6, <2>1, <2>2 DEF FailureIsLeft
  <2>3. CASE ~settles
    BY <1>2, <1>3, <2>3 DEF IInv, FailureIsLeft
  <2>. QED
    BY <2>2, <2>3
<1>12. \/ u.status = "thinking" /\ m = entry[e]
       \/ u.status # "thinking" /\ ~m.live
  BY <1>5, <1>7 DEF m
<1>13. /\ u \in TurnType /\ m \in EntryType
       /\ u.entry = turn[x.turn].entry /\ u.auto = turn[x.turn].auto
       /\ m.kind = entry[u.entry].kind /\ m.turn = entry[u.entry].turn
       /\ m = entry[e] => m = entry[u.entry]
       /\ turn' = [turn EXCEPT ![x.turn] = u] /\ entry' = [entry EXCEPT ![u.entry] = m]
       /\ exec' = exec \ {x} /\ UNCHANGED <<life, scan>> /\ u.status # "completed"
  BY <1>3, <1>5, <1>7, <1>8
<1>. HIDE DEF settles, w
<1>. QED
  BY <1>9, <1>10, <1>11, <1>12, <1>13, TurnEnds

\* The turns that end without a decision.
LEMMA FailSteps ==
    ASSUME IInv, NEW x \in exec, PrepareChanged(x) \/ ExecError(x) \/ DecisionRefused(x)
    PROVE  Good
<1>1. PICK interrupted \in BOOLEAN : FailTurn(x, interrupted)
  BY DEF PrepareChanged, ExecError, DecisionRefused
<1>. QED
  BY <1>1, FailLost, FailHeld

\* The turn ends with its decision.
LEMMA CommitSteps ==
    ASSUME IInv, NEW x \in exec, Answer(x) \/ CreateActions(x) \/ Complete(x)
    PROVE  Good
<1>. DEFINE t == turn[x.turn]
            e == t.entry
            u == [t EXCEPT !.status = "completed"]
            m == Acked(entry[e])
<1>1. Commit(x)
  BY DEF Answer, CreateActions, Complete
<1>2. /\ Holds(x) /\ x.ver = wi.ver /\ x.pc = "answered"
      /\ turn' = [turn EXCEPT ![x.turn] = u] /\ entry' = [entry EXCEPT ![e] = m]
      /\ exec' = exec \ {x} /\ UNCHANGED <<life, scan>>
  BY <1>1 DEF Commit
<1>3. /\ x.turn \in Turns /\ t \in TurnType /\ entry[e] \in EntryType /\ wi \in ItemType
      /\ left \in [Counters -> Nat]
  BY ExecFacts, Facts DEF IInv
<1>4. /\ u \in TurnType /\ u.entry = e /\ u.auto = t.auto /\ u.status = "completed"
      /\ m \in EntryType /\ m.kind = entry[e].kind /\ m.turn = entry[e].turn /\ ~m.live
  BY <1>3, EntrySettled DEF TurnType
<1>5. Row(x).status = "responded" /\ Row(x).asked.ver = wi.ver
  <2>1. RowMatches(x, Row(x))
    BY <1>2 DEF IInv, HolderIsRight
  <2>2. Asks(x).ver = x.ver
    BY DEF Asks
  <2>. QED
    BY <1>2, <2>1, <2>2 DEF RowMatches
<1>. HIDE DEF u, m
<1>6. wi' \in ItemType /\ wi'.credit = wi.credit
  <2>1. PICK v \in Nat : v = wi.ver + 1
    BY <1>3, NextVersion
  <2>2. CASE Answer(x)
    BY <1>3, <2>2 DEF Answer
  <2>3. CASE CreateActions(x)
    <3>1. wi' = [wi EXCEPT !.action = "ready", !.ver = v]
      BY <2>1, <2>3 DEF CreateActions
    <3>. QED
      BY <1>3, <3>1 DEF ItemType
  <2>4. CASE Complete(x)
    BY <1>3, <2>4 DEF Complete, ItemType
  <2>. QED
    BY <2>2, <2>3, <2>4
<1>7. left' \in [Counters -> Nat]
  BY <1>3, LeftTyped DEF Answer, CreateActions, Complete
<1>8. RestTyped
  BY <1>2, <1>6, <1>7, Facts DEF IInv, RestTyped
<1>9. FailureIsLeft'
  BY <1>2, <1>6, HolderThinks DEF FailureIsLeft
<1>10. /\ u.entry = turn[x.turn].entry /\ u.auto = turn[x.turn].auto
       /\ m.kind = entry[u.entry].kind /\ m.turn = entry[u.entry].turn
       /\ entry' = [entry EXCEPT ![u.entry] = m]
  BY <1>2, <1>4
<1>. QED
  BY <1>2, <1>4, <1>5, <1>8, <1>9, <1>10, TurnEnds

\* Every step of an executor.
LEMMA ExecSteps ==
    ASSUME IInv, NEW x \in exec, ExecStep(x)
    PROVE  Good
<1>1. PrepareLost(x) \/ DecisionLost(x) => GiveUp(x)
  BY DEF PrepareLost, DecisionLost
<1>. QED
  BY <1>1, RowSteps, PrepareAgainStep, FailSteps, GiveUpStep, CommitSteps DEF ExecStep

-----------------------------------------------------------------------------
(* Claims, new turns and recovery *)

\* The entry that is claimed gets an epoch of its own.
LEMMA ClaimIsFresh ==
    ASSUME IInv, ~IsFiniteSet(Epochs), NEW e \in Entries
    PROVE  /\ Claim(e) \in EntryType /\ Claim(e).status = "claimed"
           /\ Claim(e).epoch = NextEpoch(e) /\ NextEpoch(e) \in Epochs
           /\ Claim(e).turn = entry[e].turn /\ Claim(e).kind = entry[e].kind
           /\ \A x \in exec : turn[x.turn].entry = e => x.epoch # Claim(e).epoch
<1>1. entry[e] \in EntryType
  BY Facts DEF IInv
<1>2. NextEpoch(e) \in Epochs
      /\ \A x \in exec : turn[x.turn].entry = e => x.epoch # NextEpoch(e)
  BY FreshEpoch
<1>. QED
  BY <1>1, <1>2 DEF Claim, EntryType

\* The claim that finds no turn to begin, and the one that a crash cuts off.
LEMMA ClaimSteps ==
    ASSUME IInv, ~IsFiniteSet(Epochs), AdvanceRefused \/ AdvanceCut
    PROVE  Good
<1>. DEFINE e == First(Waiting)
<1>1. CanAdvance /\ UNCHANGED <<wi, turn, scan>> /\ exec' \subseteq exec
      /\ scan = "idle" /\ life = "up"
  BY DEF AdvanceRefused, AdvanceCut, CanAdvance, Up, Free
<1>2. e \in Entries /\ Claimable(e)
  BY <1>1, FirstWaiting DEF IInv, CanAdvance
<1>3. entry[e] \in EntryType /\ entry \in Seq(EntryType)
  BY <1>2, Facts DEF IInv
<1>4. MailMoves /\ ClaimsKept
  <2>1. PICK n \in EntryType :
          /\ entry' = [entry EXCEPT ![e] = n] /\ n.kind = entry[e].kind /\ n.turn = entry[e].turn
          /\ \/ n.status = "pending"
             \/ /\ n.status = "claimed"
                /\ \A x \in exec : turn[x.turn].entry = e => x.epoch # n.epoch
    <3>1. CASE AdvanceRefused
      BY <1>3, <3>1, EntrySettled DEF AdvanceRefused
    <3>2. CASE AdvanceCut
      BY <1>2, <3>2, ClaimIsFresh DEF AdvanceCut
    <3>. QED
      BY <3>1, <3>2
  <2>2. /\ entry' \in Seq(EntryType) /\ Entries' = Entries /\ entry'[e] = n
        /\ \A f \in Entries \ {e} : entry'[f] = entry[f]
    BY <1>2, <2>1, EntryPut DEF IInv
  <2>. HIDE DEF e
  <2>. QED
    BY <2>1, <2>2 DEF MailMoves, ClaimsKept
<1>5. RestTyped
  BY <1>1, Facts, LeftTyped DEF IInv, RestTyped, AdvanceRefused, AdvanceCut
<1>6. FailureIsLeft' /\ ProcessRuns'
  BY <1>1 DEF IInv, FailureIsLeft, Thinking, ProcessRuns, AdvanceRefused, AdvanceCut
<1>. QED
  BY <1>1, <1>4, <1>5, <1>6, MailStep

\* recoverCoordinatorMailbox returns what lapsed.
LEMMA LapsedTyped ==
    ASSUME TypeOK
    PROVE  /\ LapsedReturned \in Seq(EntryType) /\ DOMAIN LapsedReturned = Entries
           /\ \A e \in Entries :
                /\ LapsedReturned[e] \in EntryType
                /\ LapsedReturned[e].kind = entry[e].kind /\ LapsedReturned[e].turn = entry[e].turn
                /\ \/ LapsedReturned[e] = entry[e]
                   \/ entry[e].status = "claimed" /\ LapsedReturned[e].status = "pending"
<1>1. \A e \in Entries : (IF Lapsed(e) THEN Returned(entry[e]) ELSE entry[e]) \in EntryType
  BY Facts, EntrySettled
<1>2. LapsedReturned \in Seq(EntryType) /\ DOMAIN LapsedReturned = Entries
  BY <1>1, Facts DEF LapsedReturned
<1>3. \A e \in Entries : LapsedReturned[e] = IF Lapsed(e) THEN Returned(entry[e]) ELSE entry[e]
  BY DEF LapsedReturned
<1>. QED
  BY <1>1, <1>2, <1>3, Facts, EntrySettled DEF Lapsed

LEMMA ScanMailboxStep ==
    ASSUME IInv, ScanMailbox
    PROVE  Good
<1>1. entry' = LapsedReturned /\ scan' = "resume" /\ scan = "mailbox"
      /\ UNCHANGED <<wi, turn, exec, life, left>>
  BY DEF ScanMailbox
<1>2. MailMoves /\ ClaimsKept
  BY <1>1, LapsedTyped DEF IInv, MailMoves, ClaimsKept, Entries
<1>3. RestTyped /\ FailureIsLeft' /\ ProcessRuns'
  BY <1>1, Facts DEF IInv, RestTyped, FailureIsLeft, Thinking, ProcessRuns
<1>. QED
  BY <1>1, <1>2, <1>3, MailStep

LEMMA NewTurnTyped ==
    ASSUME NEW e \in Nat \ {0}, NEW auto \in BOOLEAN
    PROVE  /\ NewTurn(e, auto) \in TurnType /\ NewTurn(e, auto).entry = e
           /\ NewTurn(e, auto).auto = auto /\ NewTurn(e, auto).status = "thinking"
<1>1. NoRow \in RowType
  BY DEF NoRow, RowType, RowStatus, Requests
<1>. QED
  BY <1>1 DEF NewTurn, TurnType

LEMMA StartTyped ==
    ASSUME wi \in ItemType, NEW t \in Nat \ {0}, NEW k \in Epochs,
           NEW text \in {"none", "message", "trigger"}, NEW driven \in BOOLEAN
    PROVE  /\ Start(t, k, text, driven) \in ExecType /\ Start(t, k, text, driven).turn = t
           /\ Start(t, k, text, driven).epoch = k /\ Start(t, k, text, driven).attempt = 1
           /\ Start(t, k, text, driven).pc = "start"
<1>1. wi.ver \in Nat
  BY DEF ItemType
<1>. QED
  BY <1>1 DEF Start, ExecType, Attempts

\* A turn begins when none thinks.
LEMMA NoThinker ==
    ASSUME IInv, ~Thinking
    PROVE  /\ \A t \in Turns : turn[t].status # "thinking"
           /\ \A x \in exec : ~Holds(x)
<1>1. \A t \in Turns : turn[t].status # "thinking"
  BY DEF IInv, OneTurnThinks, Thinking, Turns
<1>2. \A x \in exec : x.turn \in Turns
  BY ExecFacts
<1>. QED
  BY <1>1, <1>2 DEF IInv, HolderIsRight

\* What a beginning turn leaves true, whatever becomes of its entry e: a new
\* entry, or one that waited.
LEMMA TurnBegins ==
    ASSUME IInv, ~Thinking, NEW e \in Entries', NEW auto \in BOOLEAN,
           turn' = Append(turn, NewTurn(e, auto)),
           entry' \in Seq(EntryType), Entries \subseteq Entries',
           \A f \in Entries' : f \in Entries \/ f = e,
           \A f \in Entries \ {e} : entry'[f] = entry[f],
           e \in Entries => entry'[e].kind = entry[e].kind,
           entry'[e].turn = Len(turn) + 1, entry'[e].status \in {"pending", "claimed"},
           ~auto => entry'[e].kind = "message",
           ClaimsKept, RestTyped, UNCHANGED <<wi, scan>>, wi.credit >= 1,
           life' = "down" => exec' = {}, scan = "idle",
           \/ exec' = {}
           \/ \E y \in ExecType : /\ exec' = exec \cup {y}
                                  /\ y.turn = Len(turn) + 1 /\ y.pc = "start"
    PROVE  Good
<1>. DEFINE t == Len(turn) + 1
            u == NewTurn(e, auto)
<1>1. t \in Nat \ {0} /\ e \in Nat \ {0}
  <2>1. Len(entry') \in Nat /\ Entries' = 1..Len(entry')
    BY DEF Entries
  <2>. QED
    BY <2>1, Facts DEF IInv
<1>2. /\ u \in TurnType /\ u.entry = e /\ u.auto = auto /\ u.status = "thinking"
      /\ turn' = Append(turn, u)
  BY <1>1, NewTurnTyped
<1>. HIDE DEF u
<1>3. /\ turn' \in Seq(TurnType) /\ Turns' = 1..t /\ Len(turn') = t
      /\ t \in Turns' /\ t \notin Turns
      /\ turn'[t] = u /\ \A s \in Turns : s \in Turns' /\ turn'[s] = turn[s]
      /\ \A s \in Turns' : s \in Turns \/ s = t
  BY <1>2, TurnAdd DEF IInv
<1>. HIDE DEF t
<1>4. /\ \A s \in Turns : turn[s].status # "thinking" /\ turn[s].entry \in Entries
      /\ \A x \in exec : ~Holds(x) /\ x.turn \in Turns /\ x \in ExecType
      /\ \A f \in Entries : entry[f].turn \in Turns \cup {NoTurn}
  BY NoThinker, ExecFacts, Facts DEF IInv
<1>5. TurnsKept
  BY <1>3 DEF TurnsKept
<1>6. entry'[e].turn = t
  BY DEF t
<1>7. TypeOK'
  <2>1. \A f \in Entries' : entry'[f].turn \in Turns' \cup {NoTurn}
    BY <1>3, <1>4, <1>6
  <2>2. \A s \in Turns' : turn'[s].entry \in Entries'
    BY <1>2, <1>3, <1>4
  <2>3. exec' \subseteq ExecType /\ \A z \in exec' : z.turn \in Turns'
    BY <1>3, <1>4 DEF t
  <2>. QED
    BY <1>3, <2>1, <2>2, <2>3 DEF TypeOK, RestTyped, ItemType
<1>8. OneTurnThinks' /\ ThinkerHasEntry'
  <2>1. \A s \in Turns' : turn'[s].status = "thinking" => s = t
    BY <1>3, <1>4
  <2>. QED
    BY <1>2, <1>3, <1>6, <2>1 DEF OneTurnThinks, ThinkerHasEntry
<1>9. LinksAgree'
  <2>1. ASSUME NEW f \in Entries', entry'[f].turn # NoTurn
        PROVE  turn'[entry'[f].turn].entry = f
    <3>1. CASE f = e
      BY <1>2, <1>3, <1>6, <3>1
    <3>2. CASE f # e
      BY <1>3, <1>4, <2>1, <3>2 DEF IInv, LinksAgree
    <3>. QED
      BY <3>1, <3>2
  <2>2. ASSUME NEW s \in Turns', ~turn'[s].auto
        PROVE  entry'[turn'[s].entry].kind = "message"
    <3>1. CASE s = t
      BY <1>2, <1>3, <2>2, <3>1
    <3>2. CASE s # t
      <4>1. s \in Turns /\ turn'[s] = turn[s] /\ turn[s].entry \in Entries
        BY <1>3, <1>4, <3>2
      <4>2. entry[turn[s].entry].kind = "message"
        BY <2>2, <4>1 DEF IInv, LinksAgree
      <4>. QED
        BY <4>1, <4>2
    <3>. QED
      BY <3>1, <3>2
  <2>. QED
    BY <2>1, <2>2 DEF LinksAgree
<1>10. FailureIsLeft' /\ ProcessRuns'
  <2>1. wi.credit \in Int
    BY Facts DEF IInv, ItemType
  <2>. QED
    BY <2>1 DEF FailureIsLeft, ProcessRuns
<1>11. EpochsDiffer' /\ HolderIsRight' /\ IsFiniteSet(exec')
  <2>1. CASE exec' = {}
    BY <1>4, <1>5, <2>1, ExecutorsKept
  <2>2. ASSUME NEW y \in ExecType, exec' = exec \cup {y}, y.turn = t, y.pc = "start"
        PROVE  EpochsDiffer' /\ HolderIsRight' /\ IsFiniteSet(exec')
    <3>1. \A z \in exec : z.turn = y.turn => z.epoch # y.epoch
      BY <1>3, <1>4, <2>2
    <3>2. turn'[y.turn].status = "thinking" /\ RowMatches(y, turn'[y.turn].rows[y.attempt])
      BY <1>2, <1>3, <2>2 DEF RowMatches
    <3>. QED
      BY <1>4, <1>5, <2>2, <3>1, <3>2, ExecutorAdded
  <2>. QED
    BY <2>1, <2>2 DEF t
<1>12. DecisionStep /\ WakeStep
  BY <1>4 DEF DecisionStep, WakeStep
<1>. QED
  BY <1>7, <1>8, <1>9, <1>10, <1>11, <1>12 DEF IInv, Good

LEMMA MessageSteps ==
    ASSUME IInv, ~IsFiniteSet(Epochs), Message \/ MessageCut
    PROVE  Good
<1>. DEFINE e == Len(entry) + 1
            t == Len(turn) + 1
            k == CHOOSE k \in Epochs : TRUE
<1>1. /\ Active /\ ~Thinking /\ turn' = Append(turn, NewTurn(e, FALSE))
      /\ UNCHANGED <<wi, scan>> /\ scan = "idle" /\ life = "up"
      /\ ~wi.stopped /\ left' \in [Counters -> Nat]
  BY Facts, LeftTyped DEF IInv, Message, MessageCut, BeginMessage, Up, Free, Active
<1>2. wi \in ItemType /\ t \in Nat \ {0} /\ wi.credit >= 1 /\ entry \in Seq(EntryType)
  BY <1>1, Facts DEF IInv, FailureIsLeft
<1>3. k \in Epochs
  <2>1. Epochs # {}
    BY FS_EmptySet
  <2>. QED
    BY <2>1
<1>4. PICK m \in EntryType :
        /\ entry' = Append(entry, m) /\ m.turn = t /\ m.kind = "message"
        /\ m.status \in {"pending", "claimed"}
  <2>1. CASE Message
    <3>. DEFINE m == [kind |-> "message", status |-> "claimed", epoch |-> k, live |-> TRUE, turn |-> t]
    <3>1. m \in EntryType
      BY <1>2, <1>3 DEF EntryType
    <3>2. entry' = Append(entry, m)
      BY <2>1 DEF Message
    <3>. QED
      BY <3>1, <3>2
  <2>2. CASE MessageCut
    <3>. DEFINE m == [Wake EXCEPT !.kind = "message", !.turn = t]
    <3>1. m \in EntryType /\ m.turn = t /\ m.kind = "message" /\ m.status = "pending"
      BY <1>2, WakeTyped DEF Wake
    <3>2. entry' = Append(entry, m)
      BY <2>2 DEF MessageCut
    <3>. QED
      BY <3>1, <3>2
  <2>. QED
    BY <2>1, <2>2
<1>5. /\ entry' \in Seq(EntryType) /\ e \in Entries' /\ e \notin Entries /\ entry'[e] = m
      /\ \A f \in Entries : f \in Entries' /\ entry'[f] = entry[f]
      /\ \A f \in Entries' : f \in Entries \/ f = e
  BY <1>4, EntryAdd DEF IInv
<1>6. ClaimsKept
  BY <1>5 DEF ClaimsKept
<1>7. \/ exec' = {}
      \/ \E y \in ExecType : exec' = exec \cup {y} /\ y.turn = t /\ y.pc = "start"
  <2>1. CASE Message
    <3>1. exec' = exec \cup {Start(t, k, "message", FALSE)}
      BY <2>1 DEF Message
    <3>2. Start(t, k, "message", FALSE) \in ExecType /\ Start(t, k, "message", FALSE).turn = t
          /\ Start(t, k, "message", FALSE).pc = "start"
      BY <1>2, <1>3, StartTyped
    <3>. QED
      BY <3>1, <3>2
  <2>2. CASE MessageCut
    BY <2>2 DEF MessageCut
  <2>. QED
    BY <2>1, <2>2
<1>8. RestTyped /\ (life' = "down" => exec' = {})
  BY <1>1, <1>2, Facts DEF IInv, RestTyped, Message, MessageCut
<1>9. /\ entry'[e].turn = t /\ entry'[e].status \in {"pending", "claimed"}
      /\ entry'[e].kind = "message" /\ Entries \subseteq Entries'
      /\ \A f \in Entries \ {e} : entry'[f] = entry[f]
  BY <1>4, <1>5
<1>. HIDE DEF e, k
<1>. QED
  BY <1>1, <1>2, <1>5, <1>6, <1>7, <1>8, <1>9, TurnBegins

LEMMA AdvanceStep ==
    ASSUME IInv, ~IsFiniteSet(Epochs), Advance
    PROVE  Good
<1>. DEFINE e == Chosen
            t == Len(turn) + 1
            m == [Claim(e) EXCEPT !.turn = t]
            y == Start(t, NextEpoch(e), "trigger", TRUE)
<1>1. /\ CanAdvance /\ ~Thinking /\ turn' = Append(turn, NewTurn(e, TRUE))
      /\ e = First(Waiting) /\ UNCHANGED <<wi, life, scan, left>> /\ scan = "idle" /\ life = "up"
      /\ ~wi.stopped /\ entry' = [entry EXCEPT ![e] = m] /\ exec' = exec \cup {y}
  BY DEF Advance, CanAdvance, CanCoordinate, Active, Up, Free
<1>2. wi \in ItemType /\ t \in Nat \ {0} /\ wi.credit >= 1
  BY <1>1, Facts DEF IInv, FailureIsLeft
<1>3. e \in Entries
  BY <1>1, FirstWaiting DEF IInv, CanAdvance
<1>. HIDE DEF e
<1>4. /\ Claim(e) \in EntryType /\ Claim(e).status = "claimed"
      /\ Claim(e).kind = entry[e].kind /\ NextEpoch(e) \in Epochs
      /\ \A x \in exec : turn[x.turn].entry = e => x.epoch # Claim(e).epoch
  BY <1>3, ClaimIsFresh
<1>5. /\ m \in EntryType /\ m.turn = t /\ m.status = "claimed" /\ m.kind = entry[e].kind
      /\ m.epoch = Claim(e).epoch
  BY <1>2, <1>4 DEF EntryType
<1>6. y \in ExecType /\ y.turn = t /\ y.pc = "start"
  BY <1>2, <1>4, StartTyped
<1>. HIDE DEF m, y
<1>7. /\ entry' \in Seq(EntryType) /\ Entries' = Entries /\ entry'[e] = m
      /\ \A f \in Entries \ {e} : entry'[f] = entry[f]
  BY <1>1, <1>3, <1>5, EntryPut DEF IInv
<1>8. ClaimsKept
  BY <1>4, <1>5, <1>7 DEF ClaimsKept
<1>9. RestTyped
  BY <1>1, Facts DEF IInv, RestTyped
<1>10. /\ e \in Entries' /\ Entries \subseteq Entries' /\ \A f \in Entries' : f \in Entries \/ f = e
       /\ entry'[e].turn = t /\ entry'[e].status \in {"pending", "claimed"}
       /\ entry'[e].kind = entry[e].kind /\ life' # "down"
  BY <1>1, <1>3, <1>5, <1>7
<1>11. \E z \in ExecType : exec' = exec \cup {z} /\ z.turn = t /\ z.pc = "start"
  BY <1>1, <1>6
<1>. QED
  BY <1>1, <1>2, <1>7, <1>8, <1>9, <1>10, <1>11, TurnBegins

\* recoverCoordinatorProviderTurns moves requests in doubt to unknown.
LEMMA DoubtTyped ==
    ASSUME TypeOK
    PROVE  /\ TurnsInDoubtSettled \in Seq(TurnType) /\ DOMAIN TurnsInDoubtSettled = Turns
           /\ Len(TurnsInDoubtSettled) = Len(turn)
           /\ \A t \in Turns :
                /\ TurnsInDoubtSettled[t] \in TurnType
                /\ TurnsInDoubtSettled[t].entry = turn[t].entry
                /\ TurnsInDoubtSettled[t].auto = turn[t].auto
                /\ TurnsInDoubtSettled[t].status = turn[t].status
                /\ \A a \in Attempts :
                     \/ TurnsInDoubtSettled[t].rows[a] = turn[t].rows[a]
                     \/ InDoubt(t, a) /\ TurnsInDoubtSettled[t].rows[a].status = "unknown"
<1>. DEFINE now(t) == [turn[t] EXCEPT !.rows = [a \in Attempts |-> RowSettled(t, a)]]
<1>1. ASSUME NEW t \in Turns
      PROVE  /\ now(t) \in TurnType /\ now(t).entry = turn[t].entry
             /\ now(t).auto = turn[t].auto /\ now(t).status = turn[t].status
             /\ \A a \in Attempts :
                  \/ now(t).rows[a] = turn[t].rows[a]
                  \/ InDoubt(t, a) /\ now(t).rows[a].status = "unknown"
  <2>1. turn[t] \in TurnType
    BY Facts
  <2>2. ASSUME NEW a \in Attempts
        PROVE  /\ RowSettled(t, a) \in RowType
               /\ \/ RowSettled(t, a) = turn[t].rows[a]
                  \/ InDoubt(t, a) /\ RowSettled(t, a).status = "unknown"
    <3>1. turn[t].rows[a] \in RowType
      BY <2>1, RowTyped
    <3>. QED
      BY <3>1 DEF RowSettled, RowType, RowStatus
  <2>. DEFINE rows == [a \in Attempts |-> RowSettled(t, a)]
  <2>3. rows \in [Attempts -> RowType] /\ \A a \in Attempts : rows[a] = RowSettled(t, a)
    BY <2>2
  <2>. HIDE DEF rows
  <2>4. now(t) = [turn[t] EXCEPT !.rows = rows]
    BY DEF rows
  <2>5. /\ now(t) \in TurnType /\ now(t).entry = turn[t].entry /\ now(t).rows = rows
        /\ now(t).auto = turn[t].auto /\ now(t).status = turn[t].status
    BY <2>1, <2>3, <2>4 DEF TurnType
  <2>. HIDE DEF now
  <2>. QED
    BY <2>2, <2>3, <2>5
<1>2. TurnsInDoubtSettled = [t \in Turns |-> now(t)]
  BY DEF TurnsInDoubtSettled
<1>. HIDE DEF now
<1>3. Turns = 1..Len(turn) /\ Len(turn) \in Nat
  BY Facts
<1>4. TurnsInDoubtSettled \in Seq(TurnType) /\ DOMAIN TurnsInDoubtSettled = Turns
      /\ Len(TurnsInDoubtSettled) = Len(turn)
  BY <1>1, <1>2, <1>3
<1>. QED
  BY <1>1, <1>2, <1>4

LEMMA ScanTurnsStep ==
    ASSUME IInv, ScanTurns
    PROVE  Good
<1>1. turn' = TurnsInDoubtSettled /\ scan' = "mailbox" /\ life = "up"
      /\ UNCHANGED <<wi, entry, exec, life, left>>
  BY DEF ScanTurns, Up
<1>2. /\ turn' \in Seq(TurnType) /\ Turns' = Turns /\ Len(turn') = Len(turn)
      /\ \A t \in Turns :
           /\ turn'[t].entry = turn[t].entry /\ turn'[t].auto = turn[t].auto
           /\ turn'[t].status = turn[t].status
           /\ \A a \in Attempts :
                \/ turn'[t].rows[a] = turn[t].rows[a]
                \/ InDoubt(t, a) /\ turn'[t].rows[a].status = "unknown"
  BY <1>1, DoubtTyped DEF IInv, Turns
<1>3. TurnsKept /\ ClaimsKept
  BY <1>1, <1>2 DEF TurnsKept, ClaimsKept, Entries
<1>4. TypeOK'
  <2>1. entry' \in Seq(EntryType) /\ \A e \in Entries' : entry'[e].turn \in Turns' \cup {NoTurn}
    BY <1>1, <1>2 DEF IInv, TypeOK, Entries
  <2>2. \A s \in Turns' : turn'[s].entry \in Entries'
    BY <1>1, <1>2, Facts DEF IInv, Entries
  <2>3. exec' \subseteq ExecType /\ \A z \in exec' : z.turn \in Turns'
    BY <1>1, <1>2, Facts DEF IInv
  <2>. QED
    BY <1>1, <1>2, <2>1, <2>2, <2>3 DEF IInv, TypeOK
<1>5. OneTurnThinks' /\ ThinkerHasEntry'
  BY <1>1, <1>2 DEF IInv, OneTurnThinks, ThinkerHasEntry
<1>6. LinksAgree'
  <2>1. TypeOK /\ LinksAgree /\ Entries' = Entries
    BY <1>1 DEF IInv, Entries
  <2>. QED
    BY <1>1, <1>2, <2>1, LinksKept
<1>7. FailureIsLeft' /\ ProcessRuns'
  <2>1. Thinking' => Thinking
    <3>1. Thinking' => Len(turn) \in Turns
      BY <1>2, Facts DEF IInv, Thinking
    <3>2. turn = <<>> => ~(Len(turn) \in Turns)
      BY DEF Turns
    <3>. QED
      BY <1>2, <3>1, <3>2 DEF Thinking
  <2>. QED
    BY <1>1, <2>1 DEF IInv, FailureIsLeft, ProcessRuns
<1>8. EpochsDiffer' /\ HolderIsRight' /\ IsFiniteSet(exec')
  <2>1. ASSUME NEW x \in exec, Holds(x)
        PROVE  /\ turn'[x.turn].status = "thinking"
               /\ RowMatches(x, turn'[x.turn].rows[x.attempt])
    <3>1. x.turn \in Turns /\ x.attempt \in Attempts
      BY ExecFacts
    <3>2. turn[x.turn].status = "thinking" /\ RowMatches(x, Row(x))
      BY <2>1 DEF IInv, HolderIsRight
    <3>3. CASE turn'[x.turn].rows[x.attempt] = Row(x)
      BY <1>2, <3>1, <3>2, <3>3
    <3>4. CASE InDoubt(x.turn, x.attempt)
      <4>1. Row(x).status = "dispatching" /\ Row(x).epoch # x.epoch
        BY <2>1, <3>4 DEF InDoubt, Holds, Row
      <4>2. x.pc \notin {"prepared", "calling", "answered"}
        BY <3>2, <4>1 DEF RowMatches
      <4>. QED
        BY <1>2, <3>1, <3>2, <4>2 DEF RowMatches
    <3>. QED
      BY <1>2, <3>1, <3>3, <3>4 DEF Row
  <2>. QED
    BY <1>1, <1>3, <2>1, ExecutorsKept
<1>9. DecisionStep /\ WakeStep
  BY <1>1, <1>2 DEF DecisionStep, WakeStep
<1>. QED
  BY <1>4, <1>5, <1>6, <1>7, <1>8, <1>9 DEF IInv, Good

\* A turn that is resumed has no holder, and gets one.
LEMMA ScanResumeStep ==
    ASSUME IInv, ~IsFiniteSet(Epochs), ScanResume
    PROVE  Good
<1>1. UNCHANGED <<wi, life, left>> /\ scan' = "idle" /\ life = "up"
  BY DEF ScanResume, IInv, ProcessRuns
<1>2. CASE ~\E t \in Turns : Resumable(t)
  <2>1. UNCHANGED <<entry, turn, exec>>
    BY <1>2 DEF ScanResume
  <2>2. RestTyped /\ FailureIsLeft' /\ ProcessRuns'
    BY <1>1, <2>1, Facts DEF IInv, RestTyped, FailureIsLeft, Thinking, ProcessRuns
  <2>. QED
    BY <2>1, <2>2, QuietStep
<1>3. CASE \E t \in Turns : Resumable(t)
  <2>. DEFINE t == CHOOSE t \in Turns : Resumable(t)
              e == turn[t].entry
              k == NextEpoch(e)
              m == Claim(e)
              rows == TransferRows(t, k)
              u == [turn[t] EXCEPT !.rows = rows]
              y == Start(t, k, IF turn[t].auto THEN "none" ELSE "message", FALSE)
  <2>1. t \in Turns /\ Resumable(t)
    BY <1>3
  <2>2. /\ entry' = [entry EXCEPT ![e] = m] /\ turn' = [turn EXCEPT ![t] = u]
        /\ exec' = exec \cup {y}
    BY <1>3 DEF ScanResume
  <2>. HIDE DEF t
  <2>3. /\ turn[t] \in TurnType /\ e \in Entries /\ wi \in ItemType /\ t \in Nat \ {0}
        /\ entry[e] \in EntryType
    BY <2>1, Facts DEF IInv
  <2>4. turn[t].status = "thinking" /\ entry[e].turn = t /\ Claimable(e) /\ t = Len(turn)
    BY <2>1 DEF Resumable, CanResume, IInv, OneTurnThinks
  <2>5. /\ m \in EntryType /\ m.status = "claimed" /\ m.turn = t /\ m.kind = entry[e].kind
        /\ k \in Epochs /\ m.epoch = k
        /\ \A x \in exec : turn[x.turn].entry = e => x.epoch # k
    BY <2>3, <2>4, ClaimIsFresh
  <2>. HIDE DEF m, k
  <2>6. rows \in [Attempts -> RowType]
    <3>1. ASSUME NEW a \in Attempts
          PROVE  turn[t].rows[a] \in RowType /\ [turn[t].rows[a] EXCEPT !.epoch = k] \in RowType
      BY <2>3, <2>5, RowTyped DEF RowType
    <3>. QED
      BY <3>1 DEF TransferRows
  <2>. HIDE DEF rows
  <2>7. /\ u \in TurnType /\ u.entry = e /\ u.auto = turn[t].auto
        /\ u.status = "thinking"
    BY <2>3, <2>4, <2>6 DEF TurnType
  <2>. HIDE DEF u
  <2>8. y \in ExecType /\ y.turn = t /\ y.epoch = k /\ y.pc = "start"
    <3>1. PICK text \in {"none", "message", "trigger"} :
            text = IF turn[t].auto THEN "none" ELSE "message"
      OBVIOUS
    <3>2. y = Start(t, k, text, FALSE)
      BY <3>1
    <3>. HIDE DEF y
    <3>3. t \in Nat \ {0} /\ k \in Epochs /\ wi \in ItemType
      BY <2>3, <2>5
    <3>4. /\ Start(t, k, text, FALSE) \in ExecType /\ Start(t, k, text, FALSE).turn = t
          /\ Start(t, k, text, FALSE).epoch = k /\ Start(t, k, text, FALSE).pc = "start"
      BY <3>3 DEF Start, ExecType, Attempts, ItemType
    <3>. QED
      BY <3>2, <3>4
  <2>. HIDE DEF y
  <2>9. /\ turn' \in Seq(TurnType) /\ Turns' = Turns /\ Len(turn') = Len(turn)
        /\ turn'[t] = u /\ \A s \in Turns \ {t} : turn'[s] = turn[s]
    BY <2>1, <2>2, <2>7, TurnPut DEF IInv
  <2>10. /\ entry' \in Seq(EntryType) /\ Entries' = Entries /\ entry'[e] = m
         /\ \A f \in Entries \ {e} : entry'[f] = entry[f]
    BY <2>2, <2>3, <2>5, EntryPut DEF IInv
  <2>11. /\ \A s \in Turns : /\ turn'[s].entry = turn[s].entry /\ turn'[s].auto = turn[s].auto
                             /\ turn'[s].status = turn[s].status
         /\ \A f \in Entries : /\ entry'[f].turn = entry[f].turn /\ entry'[f].kind = entry[f].kind
                               /\ entry'[f] = entry[f] \/ entry'[f].status = "claimed"
    BY <2>4, <2>5, <2>7, <2>9, <2>10
  <2>12. TurnsKept /\ ClaimsKept
    <3>1. TurnsKept
      BY <2>9, <2>11 DEF TurnsKept
    <3>2. ClaimsKept
      BY <2>5, <2>10, <2>11 DEF ClaimsKept
    <3>. QED
      BY <3>1, <3>2
  <2>13. TypeOK'
    <3>1. \A f \in Entries' : entry'[f].turn \in Turns' \cup {NoTurn}
      BY <2>9, <2>10, <2>11, Facts DEF IInv
    <3>2. \A s \in Turns' : turn'[s].entry \in Entries'
      BY <2>9, <2>10, <2>11, Facts DEF IInv
    <3>3. exec' \subseteq ExecType /\ \A z \in exec' : z.turn \in Turns'
      BY <2>1, <2>2, <2>8, <2>9, Facts DEF IInv
    <3>. QED
      BY <1>1, <2>9, <2>10, <3>1, <3>2, <3>3 DEF IInv, TypeOK
  <2>14. OneTurnThinks' /\ ThinkerHasEntry'
    <3>1. \A s \in Turns : turn'[s].status = "thinking" => s = t
      BY <2>4, <2>11 DEF IInv, OneTurnThinks
    <3>. QED
      BY <2>4, <2>5, <2>7, <2>9, <2>10, <3>1 DEF OneTurnThinks, ThinkerHasEntry
  <2>15. LinksAgree'
    <3>1. TypeOK /\ LinksAgree
      BY DEF IInv
    <3>. QED
      BY <2>9, <2>10, <2>11, <3>1, LinksKept
  <2>16. FailureIsLeft' /\ ProcessRuns'
    <3>1. Thinking
      BY <2>1, <2>4 DEF Thinking, Turns
    <3>. QED
      BY <1>1, <3>1 DEF IInv, FailureIsLeft, ProcessRuns
  <2>17. EpochsDiffer' /\ HolderIsRight' /\ IsFiniteSet(exec')
    <3>1. ASSUME NEW x \in exec
          PROVE  ~Holds(x) /\ (x.turn = y.turn => x.epoch # y.epoch)
      <4>1. Holds(x) => x.turn = t /\ entry[e].status = "claimed" /\ entry[e].live
        BY <2>4, HolderThinks DEF Holds, ClaimHolds
      <4>2. ~Holds(x)
        BY <2>4, <4>1 DEF Claimable, Lapsed
      <4>3. x.turn = y.turn => x.epoch # y.epoch
        BY <2>5, <2>8
      <4>. QED
        BY <4>2, <4>3
    <3>2. turn'[y.turn].status = "thinking" /\ RowMatches(y, turn'[y.turn].rows[y.attempt])
      BY <2>7, <2>8, <2>9 DEF RowMatches
    <3>. QED
      BY <2>2, <2>12, <3>1, <3>2, ExecutorAdded
  <2>18. DecisionStep /\ WakeStep
    BY <2>11 DEF DecisionStep, WakeStep
  <2>. QED
    BY <2>13, <2>14, <2>15, <2>16, <2>17, <2>18 DEF IInv, Good
<1>. QED
  BY <1>2, <1>3

LEMMA RetiredTyped ==
    ASSUME NEW m \in EntryType
    PROVE  /\ Retired(m) \in EntryType /\ Retired(m).kind = m.kind /\ Retired(m).turn = m.turn
           /\ Retired(m) = m \/ Retired(m).status = "cancelled"
           /\ Thinking /\ m.turn = Len(turn) => Retired(m).status \notin {"pending", "claimed"}
BY DEF EntryType, Retired

\* A user's Resume retires the thinking turn, its entry and its holder.
LEMMA ResumeStep ==
    ASSUME IInv, ResumeItem
    PROVE  Good
<1>. DEFINE mail == [e \in Entries |-> Retired(entry[e])]
            n == Len(entry) + 1
            u == [turn[Len(turn)] EXCEPT !.status = "failed"]
<1>1. /\ wi \in ItemType /\ entry \in Seq(EntryType) /\ turn \in Seq(TurnType)
      /\ Entries = 1..Len(entry) /\ Turns = 1..Len(turn)
      /\ Len(entry) \in Nat /\ Len(turn) \in Nat
      /\ \A e \in Entries : entry[e] \in EntryType /\ entry[e].turn \in Turns \cup {NoTurn}
      /\ \A t \in Turns : turn[t] \in TurnType /\ turn[t].entry \in Entries
  BY Facts DEF IInv
<1>2. /\ wi.credit > 0 /\ entry' = Append(mail, Wake)
      /\ turn' = IF Thinking THEN [turn EXCEPT ![Len(turn)] = u] ELSE turn
      /\ UNCHANGED <<exec, life, scan>> /\ life = "up" /\ left' \in [Counters -> Nat]
  BY Facts, LeftTyped DEF IInv, ResumeItem, Up
<1>3. wi' \in ItemType /\ wi'.credit = wi.credit /\ wi.credit \in Int
  <2>1. PICK v \in Nat : v = wi.ver + 1
    BY <1>1, NextVersion
  <2>2. wi' = [wi EXCEPT !.status = "open", !.stopped = FALSE, !.backoff = FALSE,
                         !.ver = v, !.action = "none"]
    BY <2>1 DEF ResumeItem
  <2>. QED
    BY <1>1, <2>2 DEF ItemType
<1>4. /\ mail \in Seq(EntryType) /\ Len(mail) = Len(entry)
      /\ \A e \in Entries : mail[e] = Retired(entry[e]) /\ mail[e] \in EntryType
  <2>1. \A e \in Entries : Retired(entry[e]) \in EntryType
    BY <1>1, RetiredTyped
  <2>. QED
    BY <1>1, <2>1
<1>. HIDE DEF mail
<1>5. /\ entry' \in Seq(EntryType) /\ Entries' = 1..n /\ n \notin Entries
      /\ \A e \in Entries : e \in Entries' /\ entry'[e] = Retired(entry[e])
      /\ \A e \in Entries' : e \in Entries \/ e = n
      /\ entry'[n].turn = NoTurn
  <2>1. Wake \in EntryType /\ Wake.turn = NoTurn
    BY WakeTyped DEF Wake, NoTurn
  <2>. HIDE DEF n
  <2>2. Entries' = 1..Len(entry') /\ n = Len(mail) + 1
    BY <1>4 DEF Entries, n
  <2>3. entry' \in Seq(EntryType) /\ Len(entry') = n /\ entry'[n] = Wake
        /\ \A e \in 1..Len(mail) : entry'[e] = mail[e]
    BY <1>2, <1>4, <2>1, <2>2
  <2>. QED
    BY <1>1, <1>4, <2>1, <2>2, <2>3
<1>6. \A e \in Entries :
        /\ entry'[e].kind = entry[e].kind /\ entry'[e].turn = entry[e].turn
        /\ entry'[e] = entry[e] \/ entry'[e].status = "cancelled"
        /\ Thinking /\ entry[e].turn = Len(turn) => entry'[e].status \notin {"pending", "claimed"}
  BY <1>1, <1>5, RetiredTyped
<1>7. /\ turn' \in Seq(TurnType) /\ Turns' = Turns /\ Len(turn') = Len(turn)
      /\ \A t \in Turns : /\ turn'[t].entry = turn[t].entry /\ turn'[t].auto = turn[t].auto
                          /\ turn'[t].status \notin {"thinking", "completed"}
                             \/ turn'[t].status = turn[t].status
                          /\ turn'[t].status # "thinking"
  <2>1. CASE ~Thinking
    <3>1. turn' = turn /\ Turns' = Turns
      BY <1>2, <2>1 DEF Turns
    <3>. QED
      BY <1>1, <2>1, <3>1, NoThinker
  <2>2. CASE Thinking
    <3>1. Len(turn) \in Turns
      BY <1>1, <2>2 DEF Thinking
    <3>2. u \in TurnType /\ u.entry = turn[Len(turn)].entry /\ u.auto = turn[Len(turn)].auto
          /\ u.status = "failed"
      BY <1>1, <3>1 DEF TurnType
    <3>. HIDE DEF u
    <3>3. /\ turn' \in Seq(TurnType) /\ Turns' = Turns /\ Len(turn') = Len(turn)
          /\ turn'[Len(turn)] = u /\ \A s \in Turns \ {Len(turn)} : turn'[s] = turn[s]
      BY <1>2, <2>2, <3>1, <3>2, TurnPut DEF IInv
    <3>4. \A s \in Turns \ {Len(turn)} : turn[s].status # "thinking"
      BY DEF IInv, OneTurnThinks
    <3>. QED
      BY <3>2, <3>3, <3>4
  <2>. QED
    BY <2>1, <2>2
<1>8. TurnsKept /\ ClaimsKept
  BY <1>5, <1>6, <1>7 DEF TurnsKept, ClaimsKept
<1>9. TypeOK'
  <2>1. \A e \in Entries' : entry'[e].turn \in Turns' \cup {NoTurn}
    BY <1>1, <1>5, <1>6, <1>7
  <2>2. \A t \in Turns' : turn'[t].entry \in Entries'
    BY <1>1, <1>5, <1>7
  <2>3. /\ exec' \subseteq ExecType /\ \A z \in exec' : z.turn \in Turns'
        /\ life' \in {"up", "closing", "down"} /\ scan' \in {"idle", "mailbox", "resume"}
    BY <1>2, <1>7, Facts DEF IInv
  <2>. QED
    BY <1>2, <1>3, <1>5, <1>7, <2>1, <2>2, <2>3 DEF TypeOK, ItemType
<1>10. OneTurnThinks' /\ ThinkerHasEntry'
  BY <1>7 DEF OneTurnThinks, ThinkerHasEntry
<1>11. LinksAgree'
  <2>1. ASSUME NEW e \in Entries', entry'[e].turn # NoTurn
        PROVE  turn'[entry'[e].turn].entry = e
    <3>1. e \in Entries /\ entry'[e].turn = entry[e].turn /\ entry[e].turn \in Turns
      BY <1>1, <1>5, <1>6, <2>1
    <3>2. turn[entry[e].turn].entry = e
      BY <2>1, <3>1 DEF IInv, LinksAgree
    <3>. QED
      BY <1>7, <3>1, <3>2
  <2>2. ASSUME NEW t \in Turns', ~turn'[t].auto
        PROVE  entry'[turn'[t].entry].kind = "message"
    <3>1. t \in Turns /\ ~turn[t].auto /\ turn'[t].entry = turn[t].entry /\ turn[t].entry \in Entries
      BY <1>1, <1>7, <2>2
    <3>2. entry[turn[t].entry].kind = "message"
      BY <3>1 DEF IInv, LinksAgree
    <3>. QED
      BY <1>6, <3>1, <3>2
  <2>. QED
    BY <2>1, <2>2 DEF LinksAgree
<1>12. FailureIsLeft' /\ ProcessRuns'
  <2>1. PICK c \in Int : c = wi.credit
    BY <1>3
  <2>2. c >= 1 /\ c >= 0
    BY <1>2, <2>1
  <2>3. FailureIsLeft'
    BY <1>3, <2>1, <2>2 DEF FailureIsLeft
  <2>. QED
    BY <1>2, <2>3 DEF IInv, ProcessRuns
<1>13. EpochsDiffer' /\ HolderIsRight' /\ IsFiniteSet(exec')
  <2>1. ASSUME NEW x \in exec, Holds(x), Holds(x)'
        PROVE  FALSE
    <3>. DEFINE e == turn[x.turn].entry
    <3>1. x.turn \in Turns /\ e \in Entries /\ Thinking /\ entry[e].turn = Len(turn)
      BY <2>1, ExecFacts, HolderThinks
    <3>2. entry'[e].status = "claimed"
      BY <1>7, <2>1, <3>1 DEF Holds, ClaimHolds
    <3>. QED
      BY <1>6, <3>1, <3>2
  <2>2. exec' \subseteq exec
    BY <1>2
  <2>. QED
    BY <1>8, <2>1, <2>2, ExecutorsKept
<1>14. DecisionStep
  BY <1>7 DEF DecisionStep
<1>15. WakeStep
  BY <1>6 DEF WakeStep
<1>. QED
  BY <1>9, <1>10, <1>11, <1>12, <1>13, <1>14, <1>15 DEF IInv, Good

-----------------------------------------------------------------------------
(* Starting again *)

\* recoverInterruptedCoordinatorTurns changes the entry of its turn only.
LEMMA InterruptedTyped ==
    ASSUME NEW m \in EntryType, NEW t
    PROVE  /\ Interrupted(m, t) \in EntryType
           /\ Interrupted(m, t).kind = m.kind /\ Interrupted(m, t).turn = m.turn
           /\ m.turn # t => Interrupted(m, t) = m
           /\ AskedNothing(t) /\ Interrupted(m, t).status = "acked" => m.status = "acked"
<1>1. CASE m.turn # t
  BY <1>1 DEF Interrupted
<1>2. CASE m.turn = t /\ ~AskedNothing(t)
  BY <1>2, EntrySettled DEF Interrupted
<1>3. CASE m.turn = t /\ AskedNothing(t)
  BY <1>3, EntrySettled DEF Interrupted
<1>. QED
  BY <1>1, <1>2, <1>3

\* A turn that was cut off and asked something has a request of an unknown
\* outcome, or a rejected response.
LEMMA CutTurnAsked ==
    ASSUME IInv, Thinking, ~CanResume(Len(turn), TurnsInDoubtSettled[Len(turn)].rows),
           ~AskedNothing(Len(turn)), turn[Len(turn)].auto
    PROVE  \E a \in Attempts :
             TurnsInDoubtSettled[Len(turn)].rows[a].status \in {"unknown", "cancelled"}
<1>. DEFINE t == Len(turn)
            now == TurnsInDoubtSettled[t]
<1>1. t \in Turns /\ turn[t].status = "thinking"
  BY Facts DEF IInv, Thinking
<1>2. entry[turn[t].entry].turn = t /\ entry[turn[t].entry].status \in {"pending", "claimed"}
  BY <1>1 DEF IInv, ThinkerHasEntry
<1>3. now.rows[1].status \notin {"prepared", "dispatching", "responded"}
  BY <1>1, <1>2 DEF CanResume, Attempts
<1>4. /\ now \in TurnType
      /\ now.rows[1] = turn[t].rows[1] \/ now.rows[1].status = "unknown"
  BY <1>1, DoubtTyped DEF IInv, Attempts
<1>5. now.rows[1] \in RowType
  BY <1>4, RowTyped DEF Attempts
<1>6. turn[t].rows[1].status # "none"
  BY DEF AskedNothing
<1>7. now.rows[1].status \in {"unknown", "cancelled"}
  BY <1>3, <1>4, <1>5, <1>6 DEF RowType, RowStatus
<1>. QED
  BY <1>7 DEF Attempts

LEMMA BootStep ==
    ASSUME IInv, NEW retryable \in BOOLEAN, Boot(retryable)
    PROVE  Good
<1>. DEFINE mail == LapsedReturned
            now == TurnsInDoubtSettled
            t == Len(turn)
            cut == Thinking /\ ~CanResume(t, now[t].rows)
            w == IF cut THEN CoordinatorFailed(wi) ELSE wi
            kept == IF cut THEN [e \in Entries |-> Interrupted(mail[e], t)] ELSE mail
            ran == wi.action = "running"
            u == [now[t] EXCEPT !.status = "failed"]
<1>1. /\ life = "down" /\ life' = "up" /\ UNCHANGED <<exec, scan, left>>
      /\ turn' = IF cut THEN [now EXCEPT ![t] = u] ELSE now
      /\ wi' = IF ~ran THEN w
               ELSE [w EXCEPT !.ver = @ + 1, !.action = IF retryable THEN "ready" ELSE "none"]
      /\ entry' = kept \/ entry' = Append(kept, Wake)
  BY DEF Boot
<1>2. /\ wi \in ItemType /\ Entries = 1..Len(entry) /\ Turns = 1..Len(turn)
      /\ Len(entry) \in Nat /\ Len(turn) \in Nat
      /\ \A e \in Entries : entry[e] \in EntryType /\ entry[e].turn \in Turns \cup {NoTurn}
      /\ \A s \in Turns : turn[s] \in TurnType /\ turn[s].entry \in Entries
      /\ scan \in {"idle", "mailbox", "resume"} /\ left \in [Counters -> Nat]
      /\ wi.credit >= 0 /\ (Thinking \/ ~wi.stopped => wi.credit >= 1)
      /\ exec = {} /\ scan = "idle"
  <2>1. exec = {} /\ scan = "idle" /\ scan \in {"idle", "mailbox", "resume"}
    BY <1>1, Facts DEF IInv, ProcessRuns
  <2>. QED
    BY <2>1, Facts DEF IInv, FailureIsLeft
<1>3. /\ now \in Seq(TurnType) /\ DOMAIN now = Turns /\ Len(now) = Len(turn)
      /\ \A s \in Turns : /\ now[s] \in TurnType /\ now[s].entry = turn[s].entry
                          /\ now[s].auto = turn[s].auto /\ now[s].status = turn[s].status
  BY DoubtTyped DEF IInv
<1>4. cut => /\ t \in Turns /\ turn[t].status = "thinking"
             /\ \A s \in Turns \ {t} : turn[s].status # "thinking"
  BY <1>2 DEF IInv, Thinking, OneTurnThinks
<1>. HIDE DEF now
<1>5. /\ turn' \in Seq(TurnType) /\ Turns' = Turns /\ Len(turn') = Len(turn)
      /\ \A s \in Turns : /\ turn'[s].entry = turn[s].entry /\ turn'[s].auto = turn[s].auto
                          /\ turn'[s].status = turn[s].status \/ turn'[s].status = "failed"
                          /\ cut => turn'[s].status # "thinking"
      /\ cut => turn'[t].status = "failed" /\ turn'[t].rows = now[t].rows
  <2>1. CASE cut
    <3>1. /\ u \in TurnType /\ u.entry = turn[t].entry /\ u.auto = turn[t].auto
          /\ u.status = "failed" /\ u.rows = now[t].rows
      BY <1>3, <1>4, <2>1 DEF TurnType
    <3>. HIDE DEF u
    <3>2. turn' = [now EXCEPT ![t] = u]
      BY <1>1, <2>1
    <3>3. /\ turn' \in Seq(TurnType) /\ DOMAIN turn' = DOMAIN now /\ Len(turn') = Len(now)
          /\ turn'[t] = u /\ \A s \in Turns \ {t} : turn'[s] = now[s]
      BY <1>3, <1>4, <2>1, <3>1, <3>2
    <3>. HIDE DEF cut, t
    <3>. QED
      BY <1>3, <1>4, <2>1, <3>1, <3>3 DEF Turns
  <2>2. CASE ~cut
    <3>1. turn' = now
      BY <1>1, <2>2
    <3>. HIDE DEF cut
    <3>. QED
      BY <1>3, <2>2, <3>1 DEF Turns
  <2>. QED
    BY <2>1, <2>2
<1>6. /\ mail \in Seq(EntryType) /\ DOMAIN mail = Entries
      /\ \A e \in Entries :
           /\ mail[e] \in EntryType
           /\ mail[e].kind = entry[e].kind /\ mail[e].turn = entry[e].turn
           /\ \/ mail[e] = entry[e]
              \/ entry[e].status = "claimed" /\ mail[e].status = "pending"
  BY LapsedTyped DEF IInv
<1>. HIDE DEF mail
<1>7. /\ kept \in Seq(EntryType) /\ DOMAIN kept = Entries
      /\ \A e \in Entries :
           /\ kept[e] \in EntryType
           /\ kept[e].kind = entry[e].kind /\ kept[e].turn = entry[e].turn
           /\ ~cut => kept[e] = mail[e]
           /\ kept[e].status = "acked" /\ entry[e].status # "acked" =>
                cut /\ entry[e].turn = t /\ ~AskedNothing(t)
  <2>1. CASE cut
    <3>1. \A e \in Entries : Interrupted(mail[e], t) \in EntryType
      BY <1>6, InterruptedTyped
    <3>2. kept = [e \in Entries |-> Interrupted(mail[e], t)]
      BY <2>1
    <3>3. kept \in Seq(EntryType) /\ DOMAIN kept = Entries
      BY <1>2, <3>1, <3>2
    <3>4. \A e \in Entries : kept[e] = Interrupted(mail[e], t)
      BY <3>2
    <3>5. ASSUME NEW e \in Entries
          PROVE  /\ kept[e].kind = mail[e].kind /\ kept[e].turn = mail[e].turn
                 /\ kept[e].status = "acked" /\ mail[e].status # "acked" =>
                      mail[e].turn = t /\ ~AskedNothing(t)
      BY <1>6, <3>4, InterruptedTyped
    <3>. HIDE DEF kept, cut, t
    <3>. QED
      BY <1>6, <2>1, <3>1, <3>3, <3>4, <3>5
  <2>2. CASE ~cut
    <3>1. kept = mail
      BY <2>2
    <3>. HIDE DEF kept, cut
    <3>. QED
      BY <1>6, <2>2, <3>1
  <2>. QED
    BY <2>1, <2>2
<1>. HIDE DEF kept
<1>8. /\ entry' \in Seq(EntryType) /\ Entries \subseteq Entries'
      /\ \A e \in Entries : entry'[e] = kept[e]
      /\ \A e \in Entries' \ Entries : entry'[e].turn = NoTurn
  <2>1. CASE entry' = kept
    BY <1>7, <2>1 DEF Entries
  <2>2. CASE entry' = Append(kept, Wake)
    <3>1. Wake \in EntryType /\ Wake.turn = NoTurn
      BY WakeTyped DEF Wake, NoTurn
    <3>2. Entries' = DOMAIN entry'
      BY DEF Entries
    <3>3. Len(kept) = Len(entry) /\ Entries = 1..Len(kept)
      BY <1>2, <1>7
    <3>4. entry' \in Seq(EntryType) /\ DOMAIN entry' = 1..(Len(kept) + 1)
          /\ entry'[Len(kept) + 1] = Wake /\ \A e \in 1..Len(kept) : entry'[e] = kept[e]
      BY <1>7, <2>2, <3>1
    <3>. QED
      BY <1>2, <3>1, <3>2, <3>3, <3>4
  <2>. QED
    BY <1>1, <2>1, <2>2
<1>9. /\ w \in ItemType /\ w.credit \in Int /\ w.credit >= 0
      /\ (~w.stopped => w.credit >= 1) /\ (Thinking /\ ~cut => w.credit >= 1)
  <2>1. CASE cut
    BY <1>2, <2>1, FailureCounted
  <2>2. CASE ~cut
    BY <1>2, <2>2 DEF ItemType
  <2>. QED
    BY <2>1, <2>2
<1>. HIDE DEF w, cut
<1>10. wi' \in ItemType /\ wi'.credit = w.credit /\ wi'.stopped = w.stopped
  <2>1. PICK v \in Nat : v = w.ver + 1
    BY <1>9 DEF ItemType
  <2>2. PICK action \in {"none", "ready", "running"} :
          action = IF retryable THEN "ready" ELSE "none"
    OBVIOUS
  <2>3. wi' = w \/ wi' = [w EXCEPT !.ver = v, !.action = action]
    BY <1>1, <2>1, <2>2
  <2>. QED
    BY <1>9, <2>3 DEF ItemType
<1>. HIDE DEF t
<1>11. TypeOK'
  <2>1. \A e \in Entries' : entry'[e].turn \in Turns' \cup {NoTurn}
    BY <1>2, <1>5, <1>7, <1>8
  <2>2. \A s \in Turns' : turn'[s].entry \in Entries'
    BY <1>2, <1>5, <1>8
  <2>3. /\ exec' \subseteq ExecType /\ \A z \in exec' : z.turn \in Turns'
        /\ life' \in {"up", "closing", "down"} /\ scan' \in {"idle", "mailbox", "resume"}
        /\ left' \in [Counters -> Nat]
    BY <1>1, <1>2
  <2>. QED
    BY <1>5, <1>8, <1>10, <2>1, <2>2, <2>3 DEF TypeOK, ItemType
<1>12. OneTurnThinks' /\ ThinkerHasEntry'
  <2>1. ASSUME NEW s \in Turns', turn'[s].status = "thinking"
        PROVE  /\ s = Len(turn') /\ entry'[turn'[s].entry].turn = s
               /\ entry'[turn'[s].entry].status \in {"pending", "claimed"}
    <3>1. s \in Turns /\ ~cut /\ turn[s].status = "thinking" /\ turn'[s].entry = turn[s].entry
          /\ turn[s].entry \in Entries
      BY <1>2, <1>5, <2>1
    <3>2. /\ entry[turn[s].entry].turn = s
          /\ entry[turn[s].entry].status \in {"pending", "claimed"} /\ s = Len(turn)
      BY <3>1 DEF IInv, ThinkerHasEntry, OneTurnThinks
    <3>. QED
      BY <1>5, <1>6, <1>7, <1>8, <3>1, <3>2
  <2>. QED
    BY <2>1 DEF OneTurnThinks, ThinkerHasEntry
<1>13. LinksAgree'
  <2>1. ASSUME NEW e \in Entries', entry'[e].turn # NoTurn
        PROVE  turn'[entry'[e].turn].entry = e
    <3>1. e \in Entries /\ entry'[e].turn = entry[e].turn /\ entry[e].turn \in Turns
      BY <1>2, <1>7, <1>8, <2>1
    <3>2. turn[entry[e].turn].entry = e
      BY <2>1, <3>1 DEF IInv, LinksAgree
    <3>. QED
      BY <1>5, <3>1, <3>2
  <2>2. ASSUME NEW s \in Turns', ~turn'[s].auto
        PROVE  entry'[turn'[s].entry].kind = "message"
    <3>1. s \in Turns /\ ~turn[s].auto /\ turn'[s].entry = turn[s].entry /\ turn[s].entry \in Entries
      BY <1>2, <1>5, <2>2
    <3>2. entry[turn[s].entry].kind = "message"
      BY <3>1 DEF IInv, LinksAgree
    <3>. QED
      BY <1>7, <1>8, <3>1, <3>2
  <2>. QED
    BY <2>1, <2>2 DEF LinksAgree
<1>14. FailureIsLeft' /\ ProcessRuns'
  <2>1. Thinking' => Thinking /\ ~cut
    <3>1. Thinking' => Len(turn) \in Turns
      BY <1>2, <1>5 DEF Thinking
    <3>2. turn = <<>> => ~(Len(turn) \in Turns)
      BY DEF Turns
    <3>. QED
      BY <1>5, <3>1, <3>2 DEF Thinking
  <2>. QED
    BY <1>1, <1>2, <1>9, <1>10, <2>1 DEF FailureIsLeft, ProcessRuns
<1>15. EpochsDiffer' /\ HolderIsRight' /\ IsFiniteSet(exec')
  BY <1>1, <1>2, FS_EmptySet DEF EpochsDiffer, HolderIsRight
<1>16. DecisionStep
  BY <1>5 DEF DecisionStep
<1>17. WakeStep
  <2>1. ASSUME NEW e \in Entries, entry[e].kind = "wake", entry[e].status # "acked",
               entry'[e].status = "acked"
        PROVE  \E a \in Attempts : turn'[entry'[e].turn].rows[a].status \in {"unknown", "cancelled"}
    <3>1. cut /\ entry[e].turn = t /\ ~AskedNothing(t) /\ entry'[e].turn = t
      BY <1>7, <1>8, <2>1
    <3>2. t \in Turns /\ turn'[t].rows = now[t].rows
      BY <1>4, <1>5, <3>1
    <3>3. turn[t].entry = e
      BY <1>2, <3>1, <3>2 DEF IInv, LinksAgree, NoTurn
    <3>4. turn[t].auto
      BY <2>1, <3>2, <3>3 DEF IInv, LinksAgree
    <3>5. \E a \in Attempts : now[t].rows[a].status \in {"unknown", "cancelled"}
      BY <3>1, <3>4, CutTurnAsked DEF cut, t, now
    <3>. QED
      BY <3>1, <3>2, <3>5
  <2>. QED
    BY <2>1 DEF WakeStep
<1>. QED
  BY <1>11, <1>12, <1>13, <1>14, <1>15, <1>16, <1>17 DEF IInv, Good

-----------------------------------------------------------------------------
(* The theorems *)

LEMMA InitHolds == Init => IInv
<1>. SUFFICES ASSUME Init
              PROVE  IInv
  OBVIOUS
<1>1. Wake \in EntryType /\ Wake.turn = NoTurn /\ Wake.kind = "wake"
  BY WakeTyped DEF Wake, NoTurn
<1>. DEFINE w == [status |-> "open", stopped |-> FALSE, ver |-> 1, backoff |-> FALSE,
                  credit |-> Failures, action |-> "none"]
<1>2. w \in ItemType /\ w.credit \in Nat \ {0} /\ w.stopped = FALSE
  BY MailboxAssumption DEF MailboxAssumption, ItemType
<1>3. wi = w /\ entry = <<Wake>> /\ turn = <<>> /\ exec = {} /\ life = "up" /\ scan = "idle"
      /\ left \in [Counters -> Nat]
  BY MailboxAssumption DEF MailboxAssumption, Init
<1>. HIDE DEF w
<1>4. /\ entry \in Seq(EntryType) /\ Entries = {1} /\ entry[1].turn = NoTurn
      /\ turn \in Seq(TurnType) /\ Turns = {}
  BY <1>1, <1>3 DEF Entries, Turns
<1>5. TypeOK
  BY <1>2, <1>3, <1>4 DEF TypeOK, ItemType
<1>6. FailureIsLeft /\ ProcessRuns /\ EpochsDiffer /\ HolderIsRight /\ IsFiniteSet(exec)
  BY <1>2, <1>3, FS_EmptySet DEF FailureIsLeft, ProcessRuns, EpochsDiffer, HolderIsRight
<1>7. OneTurnThinks /\ LinksAgree /\ ThinkerHasEntry
  BY <1>4 DEF OneTurnThinks, LinksAgree, ThinkerHasEntry
<1>. QED
  BY <1>5, <1>6, <1>7 DEF IInv

LEMMA Stutters == IInv /\ UNCHANGED vars => IInv'
<1>. SUFFICES ASSUME IInv, UNCHANGED vars
              PROVE  IInv'
  OBVIOUS
<1>1. UNCHANGED <<wi, entry, turn, exec, life, scan, left>>
  BY DEF vars
<1>2. RestTyped /\ FailureIsLeft' /\ ProcessRuns'
  BY <1>1, Facts DEF IInv, RestTyped, FailureIsLeft, Thinking, ProcessRuns
<1>. QED
  BY <1>1, <1>2, QuietStep DEF Good

LEMMA NextStep ==
    ASSUME ~IsFiniteSet(Epochs), IInv, Next
    PROVE  Good
BY ExecSteps, LeaseStep, WorkItemSteps, ProcessSteps, ClaimSteps, AdvanceStep, MessageSteps,
   ScanTurnsStep, ScanMailboxStep, ScanResumeStep, ResumeStep, BootStep
   DEF Next, Drive, Scan, UserStep, FailureStep

\* The invariant is inductive, for epochs that do not run out.
THEOREM Inductive ==
    ASSUME ~IsFiniteSet(Epochs)
    PROVE  Spec => []IInv
<1>1. IInv /\ [Next]_vars => IInv'
  BY NextStep, Stutters DEF Good
<1>. QED
  BY InitHolds, <1>1, PTL DEF Spec

\* The rows have their types, one turn thinks at most, and the Coordinator never
\* fails more turns than its limit allows (beginCoordinatorTurn,
\* beginDynamicCoordinatorTurn, coordinatorFailed).
THEOREM TurnsAreRight ==
    ASSUME ~IsFiniteSet(Epochs)
    PROVE  Spec => []TurnsInv
<1>1. IInv => TurnsInv
  BY DEF IInv, TurnsInv, FailureIsLeft
<1>2. Spec => []IInv
  BY Inductive
<1>. QED
  BY <1>1, <1>2, PTL

\* Of the executors of a WorkItem one at most holds the claim, and its turn
\* thinks (claimCoordinatorTurn, #activeCoordinatorMailboxClaim).
THEOREM OneActs ==
    ASSUME ~IsFiniteSet(Epochs)
    PROVE  Spec => []OneExecutorActs
<1>1. Spec => []IInv
  BY Inductive
<1>. QED
  BY <1>1, HoldersAgree, PTL

\* A decision is committed only over the state that its request showed
\* (completeCoordinatorTurn, prepareCoordinatorProviderTurn).
THEOREM DecisionsMatch ==
    ASSUME ~IsFiniteSet(Epochs)
    PROVE  Spec => DecisionMatchesRequest
<1>1. IInv /\ [Next]_vars => [DecisionStep]_vars
  BY NextStep DEF Good
<1>2. Spec => []IInv
  BY Inductive
<1>. QED
  BY <1>1, <1>2, PTL DEF Spec, DecisionMatchesRequest, DecisionStep

\* A wake is acknowledged by the decision it led to, by a turn that failed under
\* a stop, or with a request whose outcome is unknown or whose response was
\* rejected (failCoordinatorTurn, recoverInterruptedCoordinatorTurns).
THEOREM WakesAreKept ==
    ASSUME ~IsFiniteSet(Epochs)
    PROVE  Spec => WakeIsKept
<1>1. IInv /\ [Next]_vars => [WakeStep]_vars
  BY NextStep DEF Good
<1>2. Spec => []IInv
  BY Inductive
<1>. QED
  BY <1>1, <1>2, PTL DEF Spec, WakeIsKept, WakeStep

=============================================================================
