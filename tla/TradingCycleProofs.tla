------------------------- MODULE TradingCycleProofs -------------------------
(***************************************************************************)
(* What TradingCycle promises, for every number of positions, pair-sets,   *)
(* invocations and every value of the limits.                              *)
(***************************************************************************)
EXTENDS TradingCycle, FiniteSetTheorems, TLAPS

-----------------------------------------------------------------------------
(* Lemmas about the reconciliation *)

\* A function's values are no more than its arguments.
LEMMA ImageIsSmaller ==
  ASSUME NEW S, IsFiniteSet(S), NEW f, f = [x \in S |-> f[x]]
  PROVE  /\ IsFiniteSet({f[x] : x \in S})
         /\ Cardinality({f[x] : x \in S}) <= Cardinality(S)
<1> DEFINE T == {f[x] : x \in S}
<1>1. f \in Surjection(S, T)
  BY DEF Surjection
<1>2. QED
  BY <1>1, FS_Surjection

\* Reading positions.cursor gives a finite list of genuine copies, if the file
\* holds nothing but positions the broker opened.
LEMMA ReadAllReads ==
  ASSUME NEW log \in Seq(Positions)
  PROVE  /\ ReadAll(log) \subseteq Entries
         /\ IsFiniteSet(ReadAll(log))
         /\ PositionsOf(ReadAll(log)) = Logged(log)
<1>1. Len(log) \in Nat /\ \A n \in 1..Len(log) : log[n] \in Positions
  OBVIOUS
<1>2. ReadAll(log) \subseteq Entries
  BY <1>1 DEF ReadAll, Entries
<1>3. IsFiniteSet(ReadAll(log))
  <2> DEFINE f == [n \in 1..Len(log) |-> [line |-> n, pos |-> log[n]]]
  <2>1. IsFiniteSet(1..Len(log))
    BY <1>1, FS_Interval
  <2>2. IsFiniteSet({f[n] : n \in 1..Len(log)})
    BY <2>1, ImageIsSmaller
  <2>3. {f[n] : n \in 1..Len(log)} = ReadAll(log)
    BY DEF ReadAll
  <2>4. QED
    BY <2>2, <2>3
<1>4. PositionsOf(ReadAll(log)) = Logged(log)
  <2>1. \A n \in 1..Len(log) : [line |-> n, pos |-> log[n]].pos = log[n]
    OBVIOUS
  <2>2. PositionsOf(ReadAll(log)) \subseteq Logged(log)
    BY <2>1 DEF ReadAll, PositionsOf, Logged
  <2>3. ASSUME NEW n \in 1..Len(log)
        PROVE  log[n] \in PositionsOf(ReadAll(log))
    <3>1. [line |-> n, pos |-> log[n]] \in ReadAll(log)
      BY DEF ReadAll
    <3>2. QED
      BY <2>1, <3>1 DEF PositionsOf
  <2>4. QED
    BY <2>2, <2>3 DEF Logged
<1>5. QED
  BY <1>2, <1>3, <1>4

\* Reconciling a finite list gives a finite list.
LEMMA ReconciledIsFinite ==
  ASSUME NEW known, IsFiniteSet(known), IsFiniteSet(broker)
  PROVE  IsFiniteSet(Reconciled(known))
<1> DEFINE new == {q \in broker : q.id \notin IdsOf(PositionsOf(known))}
           f   == [p \in new |-> [line |-> 0, pos |-> p]]
<1>1. IsFiniteSet(new)
  BY FS_Subset
<1>2. IsFiniteSet({f[p] : p \in new})
  <2>1. f = [p \in new |-> f[p]]
    OBVIOUS
  <2>2. QED
    <3> HIDE DEF f, new
    <3>1. QED
      BY <1>1, <2>1, ImageIsSmaller
<1>3. {f[p] : p \in new} = UnknownToLocal(known)
  BY DEF UnknownToLocal
<1>4. IsFiniteSet(Confirmed(known))
  BY FS_Subset DEF Confirmed
<1>5. QED
  BY <1>2, <1>3, <1>4, FS_Union DEF Reconciled

\* Reconciling genuine copies gives genuine copies, of every position the
\* broker holds: an id both sides know stands for the same position.
LEMMA ReconciledIsGenuine ==
  ASSUME NEW known \in SUBSET Entries,
         broker \subseteq Positions, broker \subseteq issued,
         PositionsOf(known) \subseteq issued,
         \A p, q \in issued : p.id = q.id => p = q
  PROVE  /\ Reconciled(known) \subseteq Entries
         /\ PositionsOf(Reconciled(known)) \subseteq issued
         /\ broker \subseteq PositionsOf(Reconciled(known))
<1>1. UnknownToLocal(known) \subseteq Entries
  BY DEF UnknownToLocal, Entries
<1>2. PositionsOf(UnknownToLocal(known)) \subseteq issued
  <2>1. ASSUME NEW e \in UnknownToLocal(known)
        PROVE  e.pos \in issued
    <3>1. PICK p \in broker : e = [line |-> 0, pos |-> p]
      BY DEF UnknownToLocal
    <3>2. QED
      BY <3>1
  <2>2. QED
    BY <2>1 DEF PositionsOf
<1>3. ASSUME NEW p \in broker
      PROVE  p \in PositionsOf(Reconciled(known))
  <2>1. CASE p.id \in IdsOf(PositionsOf(known))
    <3>1. PICK e \in known : e.pos.id = p.id
      BY <2>1 DEF IdsOf, PositionsOf
    <3>2. e.pos = p
      BY <3>1 DEF PositionsOf
    <3>3. e \in Confirmed(known)
      BY <3>1 DEF Confirmed, IdsOf
    <3>4. QED
      BY <3>2, <3>3 DEF Reconciled, PositionsOf
  <2>2. CASE p.id \notin IdsOf(PositionsOf(known))
    <3>1. [line |-> 0, pos |-> p] \in UnknownToLocal(known)
      BY <2>2 DEF UnknownToLocal
    <3>2. [line |-> 0, pos |-> p].pos = p
      OBVIOUS
    <3>3. QED
      BY <3>1, <3>2 DEF Reconciled, PositionsOf
  <2>3. QED
    BY <2>1, <2>2
<1>4. QED
  BY <1>1, <1>2, <1>3 DEF Reconciled, Confirmed, PositionsOf

\* While every own position is in the list, they are no more than its elements.
LEMMA WatchedAreCounted ==
  ASSUME IsFiniteSet(open), Own \subseteq PositionsOf(open)
  PROVE  IsFiniteSet(Own) /\ Cardinality(Own) <= Cardinality(open)
<1> DEFINE f == [e \in open |-> e.pos]
<1>1. {f[e] : e \in open} = PositionsOf(open)
  BY DEF PositionsOf
<1>2. /\ IsFiniteSet(PositionsOf(open))
      /\ Cardinality(PositionsOf(open)) <= Cardinality(open)
  <2>1. f = [e \in open |-> f[e]]
    OBVIOUS
  <2>2. QED
    <3> HIDE DEF f
    <3>1. QED
      BY <1>1, <2>1, ImageIsSmaller
<1>3. /\ IsFiniteSet(Own)
      /\ Cardinality(Own) <= Cardinality(PositionsOf(open))
  BY <1>2, FS_Subset
<1>4. Cardinality(Own) \in Nat /\ Cardinality(open) \in Nat
      /\ Cardinality(PositionsOf(open)) \in Nat
  BY <1>2, <1>3, FS_CardinalityType
<1>5. QED
  BY <1>2, <1>3, <1>4

-----------------------------------------------------------------------------
(* Lemmas about the steps *)

\* Own positions that only leave the broker stay capped, spaced and watched.
LEMMA OwnShrinks ==
  ASSUME IInv, Own' \subseteq Own
  PROVE  OwnPositionsCapped' /\ OwnPositionsSpaced'
<1>1. IsFiniteSet(Own)
  BY FS_Subset DEF IInv, Finite, Own
<1>2. IsFiniteSet(Own') /\ Cardinality(Own') <= Cardinality(Own)
  BY <1>1, FS_Subset
<1>3. Cardinality(Own) \in Nat /\ Cardinality(Own') \in Nat
  BY <1>1, <1>2, FS_CardinalityType
<1>4. OwnPositionsCapped'
  BY <1>2, <1>3, LimitsAssumption DEF IInv, OwnPositionsCapped
<1>5. OwnPositionsSpaced'
  BY DEF IInv, OwnPositionsSpaced
<1>6. QED
  BY <1>4, <1>5

\* Whatever becomes of the state directory, a process that is gone, or about to
\* push, leaves the invariant true.
LEMMA MemoryGone ==
  ASSUME IInv, ForgetMemory, pc' \in {"idle", "push"},
         UNCHANGED world, dir' \in StateDirs, repo' \in StateDirs,
         Logged(dir.log)' \subseteq issued, Logged(repo.log)' \subseteq issued
  PROVE  IInv'
<1>1. Own' = Own
  BY DEF Own, world
<1>2. OwnPositionsCapped' /\ OwnPositionsSpaced'
  BY <1>1, OwnShrinks
<1>3. Len(PairSets) \in Nat
  BY PairsAssumption
<1>4. TypeOK'
  BY <1>3 DEF IInv, TypeOK, ForgetMemory, Stages, world
<1>5. CopiesAreGenuine'
  BY DEF IInv, CopiesAreGenuine, ForgetMemory, world, PositionsOf
<1>6. Finite'
  BY FS_EmptySet DEF IInv, Finite, ForgetMemory, world
<1>7. DatesInOrder'
  BY DEF IInv, TypeOK, DatesInOrder, ForgetMemory, world
<1>8. (EntryInLoop /\ OrderChecked /\ LoggedOrPending /\ EveryOwnPositionWatched)'
  BY DEF EntryInLoop, OrderChecked, LoggedOrPending, EveryOwnPositionWatched,
         Watching
<1>9. QED
  BY <1>2, <1>4, <1>5, <1>6, <1>7, <1>8 DEF IInv

\* A position filled when an order was checked enters the book as PositionBook
\* allows, and keeps it capped and spaced.
LEMMA FillKeepsTheBook ==
  ASSUME IInv, pc = "submit", NEW id \in Ids, Fills(id), UNCHANGED clock
  PROVE  /\ Book!Enter(id, order.pair, order.dir)
         /\ order.pair \in Pairs /\ order.dir \in Directions
         /\ broker' \subseteq Positions /\ issued' \subseteq Positions
         /\ broker' \subseteq issued' /\ issued \subseteq issued'
         /\ \A p, q \in issued' : p.id = q.id => p = q
         /\ \A p \in issued' : p.at <= clock
         /\ IsFiniteSet(broker')
         /\ OwnPositionsCapped' /\ OwnPositionsSpaced'
<1> DEFINE new == [id |-> id, pair |-> order.pair, dir |-> order.dir,
                   at |-> clock, own |-> TRUE]
<1>1. /\ broker' = broker \cup {new} /\ issued' = issued \cup {new}
      /\ id \notin IdsOf(issued)
  BY DEF Fills, Fresh
<1>2. /\ order \in Readings /\ Cardinality(open) < MaxOpen
      /\ \A e \in open : e.pos.pair = order.pair => now - e.pos.at >= MinGap
  BY DEF IInv, OrderChecked
<1>3. order.pair \in Pairs /\ order.dir \in Directions
  BY <1>2 DEF Readings
<1>4. new \in Positions /\ new.own
  BY <1>3 DEF IInv, TypeOK, Positions
<1>5. Own' = Own \cup {new}
  BY <1>1, <1>4 DEF Own
<1>6. Own \subseteq PositionsOf(open)
  BY DEF IInv, EveryOwnPositionWatched, Watching
<1>7. IsFiniteSet(Own) /\ Cardinality(Own) < MaxOpen
  <2>1. IsFiniteSet(Own) /\ Cardinality(Own) <= Cardinality(open)
    BY <1>6, WatchedAreCounted DEF IInv, Finite
  <2>2. Cardinality(Own) \in Nat /\ Cardinality(open) \in Nat
    BY <2>1, FS_CardinalityType DEF IInv, Finite
  <2>3. QED
    BY <1>2, <2>1, <2>2, LimitsAssumption
<1>8. \A q \in Own : q.pair = order.pair => clock - q.at >= MinGap
  <2>1. SUFFICES ASSUME NEW q \in Own, q.pair = order.pair
                 PROVE  clock - q.at >= MinGap
    OBVIOUS
  <2>2. PICK e \in open : e.pos = q
    BY <1>6 DEF PositionsOf
  <2>3. now - q.at >= MinGap
    BY <1>2, <2>1, <2>2
  <2>4. q.at \in Nat /\ clock \in Nat /\ now \in Nat /\ now <= clock
    BY DEF IInv, TypeOK, DatesInOrder, Own, Positions
  <2>5. QED
    BY <2>3, <2>4, LimitsAssumption
<1>9. \A q \in Own : q.id # id
  BY <1>1 DEF IInv, CopiesAreGenuine, Own, IdsOf
<1>10. Book!Enter(id, order.pair, order.dir)
  <2>1. Book!Cardinality(Own) = Cardinality(Own)
    BY DEF Book!Cardinality, Cardinality
  <2>2. QED
    BY <1>5, <1>7, <1>8, <1>9, <2>1 DEF Book!Enter
<1>11. OwnPositionsCapped'
  <2>1. IsFiniteSet(Own') /\ Cardinality(Own') <= Cardinality(Own) + 1
    <3>1. Cardinality(Own) \in Nat
      BY <1>7, FS_CardinalityType
    <3>2. QED
      <4> HIDE DEF new
      <4>1. QED
        BY <1>5, <1>7, <3>1, FS_AddElement
  <2>2. Cardinality(Own) \in Nat /\ Cardinality(Own') \in Nat
    BY <1>7, <2>1, FS_CardinalityType
  <2>3. QED
    BY <1>7, <2>1, <2>2, LimitsAssumption DEF OwnPositionsCapped
<1>12. OwnPositionsSpaced'
  <2>1. new.pair = order.pair /\ new.at = clock
    OBVIOUS
  <2>2. \A p, q \in Own : p.pair = q.pair /\ p # q
          => p.at - q.at >= MinGap \/ q.at - p.at >= MinGap
    BY DEF IInv, OwnPositionsSpaced
  <2>3. QED
    <3> HIDE DEF new
    <3>1. QED
      BY <1>5, <1>8, <2>1, <2>2 DEF OwnPositionsSpaced
<1>13. \A p, q \in issued' : p.id = q.id => p = q
  <2>1. new.id = id /\ \A p \in issued : p.id # id
    BY <1>1 DEF IdsOf
  <2>2. \A p, q \in issued : p.id = q.id => p = q
    BY DEF IInv, CopiesAreGenuine
  <2>3. QED
    <3> HIDE DEF new
    <3>1. QED
      BY <1>1, <2>1, <2>2
<1>14. \A p \in issued' : p.at <= clock
  BY <1>1 DEF IInv, TypeOK, DatesInOrder
<1>15. IsFiniteSet(broker')
  BY <1>1, FS_AddElement DEF IInv, Finite
<1>16. QED
  BY <1>1, <1>3, <1>4, <1>10, <1>11, <1>12, <1>13, <1>14, <1>15
     DEF IInv, TypeOK, CopiesAreGenuine

\* A step of the process in its own memory keeps what is said of the world.
LEMMA WorldUnchanged ==
  ASSUME IInv, UNCHANGED world, UNCHANGED <<dir, repo>>,
         now' = now \/ now' = clock,
         PositionsOf(open)' \cup PositionsOf(pending)' \subseteq issued
  PROVE  /\ OwnPositionsCapped' /\ OwnPositionsSpaced'
         /\ CopiesAreGenuine' /\ DatesInOrder'
         /\ Own' = Own
<1>1. Own' = Own
  BY DEF Own, world
<1>2. OwnPositionsCapped' /\ OwnPositionsSpaced'
  BY <1>1, OwnShrinks
<1>3. CopiesAreGenuine'
  BY DEF IInv, CopiesAreGenuine, world, PositionsOf, Logged
<1>4. DatesInOrder'
  BY DEF IInv, TypeOK, DatesInOrder, world
<1>5. QED
  BY <1>1, <1>2, <1>3, <1>4

\* A position that leaves the broker, and nothing else but pending changing.
LEMMA PositionLeaves ==
  ASSUME IInv, broker' \subseteq broker, pending' \subseteq pending,
         UNCHANGED <<clock, issued, runs, dir, repo,
                     pc, now, open, readings, k, order>>,
         pc \in {"sweepPersist", "fillPersist"} => pending' = pending
  PROVE  IInv'
<1>1. Own' \subseteq Own
  BY DEF Own
<1>2. OwnPositionsCapped' /\ OwnPositionsSpaced'
  BY <1>1, OwnShrinks
<1>3. TypeOK'
  BY DEF IInv, TypeOK
<1>4. CopiesAreGenuine' /\ DatesInOrder'
  BY DEF IInv, CopiesAreGenuine, DatesInOrder, PositionsOf, Logged
<1>5. Finite'
  BY FS_Subset DEF IInv, Finite
<1>6. EntryInLoop' /\ OrderChecked'
  BY DEF IInv, EntryInLoop, OrderChecked
<1>7. LoggedOrPending' /\ EveryOwnPositionWatched'
  BY <1>1 DEF IInv, LoggedOrPending, EveryOwnPositionWatched, PositionsOf, Logged
<1>8. QED
  BY <1>2, <1>3, <1>4, <1>5, <1>6, <1>7 DEF IInv

\* A reconciliation into the list in memory, of the log or of the list itself.
LEMMA ReconciledKeeps ==
  ASSUME IInv, NEW known \in SUBSET Entries, IsFiniteSet(known),
         PositionsOf(known) \subseteq issued,
         open' = Reconciled(known), UNCHANGED <<broker, issued>>
  PROVE  /\ open' \subseteq Entries /\ IsFiniteSet(open')
         /\ PositionsOf(open') \subseteq issued
         /\ Finite' /\ EveryOwnPositionWatched'
         /\ Own' \subseteq PositionsOf(open')
<1>1. IsFiniteSet(open')
  BY ReconciledIsFinite DEF IInv, Finite
<1>2. /\ open' \subseteq Entries
      /\ PositionsOf(open') \subseteq issued
      /\ broker \subseteq PositionsOf(open')
  BY ReconciledIsGenuine DEF IInv, TypeOK, CopiesAreGenuine
<1>3. Own' \subseteq PositionsOf(open')
  BY <1>2 DEF Own
<1>4. EveryOwnPositionWatched'
  BY <1>3 DEF EveryOwnPositionWatched, PositionsOf
<1>5. QED
  BY <1>1, <1>2, <1>3, <1>4 DEF IInv, Finite

\* The reconciliation after a fill, about to append every element of the list.
LEMMA ReconciledPersists ==
  ASSUME IInv, open' = Reconciled(open), pending' = open',
         pc' \in {"sweepPersist", "fillPersist"},
         pc' = "fillPersist" => pc = "fillReconcile",
         UNCHANGED <<now, readings, k, order>>, UNCHANGED <<dir, repo>>,
         UNCHANGED world
  PROVE  IInv'
<1>1. /\ open' \subseteq Entries /\ PositionsOf(open') \subseteq issued
      /\ Finite' /\ EveryOwnPositionWatched' /\ Own' \subseteq PositionsOf(open')
  BY ReconciledKeeps DEF world, IInv, TypeOK, Finite, CopiesAreGenuine
<1>2. OwnPositionsCapped' /\ OwnPositionsSpaced' /\ CopiesAreGenuine' /\ DatesInOrder'
  BY <1>1, WorldUnchanged DEF PositionsOf
<1>3. TypeOK'
  BY <1>1 DEF world, IInv, TypeOK, Stages
<1>4. LoggedOrPending'
  BY <1>1 DEF LoggedOrPending, PositionsOf
<1>5. EntryInLoop' /\ OrderChecked'
  BY DEF IInv, EntryInLoop, OrderChecked
<1>6. QED
  BY <1>1, <1>2, <1>3, <1>4, <1>5 DEF IInv

-----------------------------------------------------------------------------
(* The invariant *)

LEMMA InitEstablishes == Init => IInv
<1> SUFFICES ASSUME Init PROVE IInv
  OBVIOUS
<1>1. Len(PairSets) \in Nat
  BY PairsAssumption
<1>2. TypeOK
  BY <1>1 DEF Init, TypeOK, StateDirs, Stages
<1>3. Own = {}
  BY DEF Init, Own
<1>4. CopiesAreGenuine
  BY DEF Init, CopiesAreGenuine, Logged, PositionsOf
<1>5. Finite /\ OwnPositionsCapped
  BY <1>3, FS_EmptySet, LimitsAssumption DEF Init, Finite, OwnPositionsCapped
<1>6. DatesInOrder /\ EntryInLoop /\ OrderChecked /\ LoggedOrPending
      /\ EveryOwnPositionWatched /\ OwnPositionsSpaced
  BY <1>3 DEF Init, DatesInOrder, EntryInLoop, OrderChecked, LoggedOrPending,
              EveryOwnPositionWatched, OwnPositionsSpaced
<1>7. QED
  BY <1>2, <1>4, <1>5, <1>6 DEF IInv

\* The steps that start, end or kill an invocation.
LEMMA InvocationSteps ==
  ASSUME IInv, StartPaused \/ Start \/ Push \/ Fail \/ HeartbeatFails
               \/ GateRefuses \/ EntriesDone
  PROVE  IInv'
<1>1. CASE StartPaused
  <2>1. Own' = Own
    BY <1>1 DEF StartPaused, Own
  <2>2. OwnPositionsCapped' /\ OwnPositionsSpaced'
    BY <2>1, OwnShrinks
  <2>3. TypeOK'
    BY <1>1 DEF StartPaused, IInv, TypeOK, StateDirs, Stages
  <2>4. CopiesAreGenuine' /\ Finite' /\ DatesInOrder'
    BY <1>1 DEF StartPaused, IInv, TypeOK, StateDirs, CopiesAreGenuine, Finite,
                DatesInOrder, PositionsOf, Logged
  <2>5. (EntryInLoop /\ OrderChecked /\ LoggedOrPending /\ EveryOwnPositionWatched)'
    BY <1>1 DEF StartPaused, EntryInLoop, OrderChecked, LoggedOrPending,
                EveryOwnPositionWatched, Watching
  <2>6. QED
    BY <2>2, <2>3, <2>4, <2>5 DEF IInv
<1>2. CASE Start
  <2>1. Own' = Own
    BY <1>2 DEF Start, Own
  <2>2. OwnPositionsCapped' /\ OwnPositionsSpaced'
    BY <2>1, OwnShrinks
  <2>3. TypeOK'
    BY <1>2 DEF Start, IInv, TypeOK, Stages
  <2>4. CopiesAreGenuine' /\ Finite' /\ DatesInOrder'
    BY <1>2 DEF Start, IInv, CopiesAreGenuine, Finite, DatesInOrder,
                PositionsOf, Logged
  <2>5. (EntryInLoop /\ OrderChecked /\ LoggedOrPending /\ EveryOwnPositionWatched)'
    BY <1>2 DEF Start, EntryInLoop, OrderChecked, LoggedOrPending,
                EveryOwnPositionWatched, Watching
  <2>6. QED
    BY <2>2, <2>3, <2>4, <2>5 DEF IInv
<1>3. CASE Push
  BY <1>3, MemoryGone
     DEF Push, ProcessGone, world, IInv, TypeOK, CopiesAreGenuine, Logged
<1>4. CASE Fail
  BY <1>4, MemoryGone
     DEF Fail, ProcessGone, world, IInv, TypeOK, CopiesAreGenuine, Logged
<1>5. CASE End
  <2>1. dir' \in StateDirs /\ dir'.log = dir.log
    BY <1>5 DEF End, IInv, TypeOK, StateDirs
  <2>2. QED
    BY <1>5, <2>1, MemoryGone
       DEF End, IInv, TypeOK, CopiesAreGenuine, Logged
<1>6. QED
  BY <1>1, <1>2, <1>3, <1>4, <1>5 DEF HeartbeatFails, GateRefuses, EntriesDone

\* The steps from the startup reconciliation to the end of the exit sweep.
LEMMA SweepSteps ==
  ASSUME IInv, StartupReconcile \/ Snapshot \/ Sweep
  PROVE  IInv'
<1>1. CASE StartupReconcile
  <2>1. /\ ReadAll(dir.log) \subseteq Entries /\ IsFiniteSet(ReadAll(dir.log))
        /\ PositionsOf(ReadAll(dir.log)) \subseteq issued
    BY ReadAllReads DEF IInv, TypeOK, StateDirs, CopiesAreGenuine
  <2>2. /\ open' \subseteq Entries /\ PositionsOf(open') \subseteq issued
        /\ Finite' /\ EveryOwnPositionWatched'
    BY <1>1, <2>1, ReconciledKeeps DEF StartupReconcile, world
  <2>3. /\ OwnPositionsCapped' /\ OwnPositionsSpaced'
        /\ CopiesAreGenuine' /\ DatesInOrder'
    <3>1. PositionsOf(open)' \cup PositionsOf(pending)' \subseteq issued
      BY <1>1, <2>2 DEF StartupReconcile, IInv, CopiesAreGenuine, PositionsOf
    <3>2. QED
      BY <1>1, <3>1, WorldUnchanged DEF StartupReconcile
  <2>4. TypeOK'
    BY <1>1, <2>2 DEF StartupReconcile, world, IInv, TypeOK, Stages
  <2>5. (EntryInLoop /\ OrderChecked /\ LoggedOrPending)'
    BY <1>1 DEF StartupReconcile, EntryInLoop, OrderChecked, LoggedOrPending
  <2>6. QED
    BY <2>2, <2>3, <2>4, <2>5 DEF IInv
<1>2. CASE Snapshot
  <2>1. /\ OwnPositionsCapped' /\ OwnPositionsSpaced'
        /\ CopiesAreGenuine' /\ DatesInOrder' /\ Own' = Own
    BY <1>2, WorldUnchanged DEF Snapshot, IInv, CopiesAreGenuine, PositionsOf
  <2>2. TypeOK'
    BY <1>2 DEF Snapshot, world, IInv, TypeOK, Stages
  <2>3. EveryOwnPositionWatched'
    BY <1>2, <2>1 DEF Snapshot, IInv, EveryOwnPositionWatched, Watching, PositionsOf
  <2>4. (Finite /\ EntryInLoop /\ OrderChecked /\ LoggedOrPending)'
    BY <1>2 DEF Snapshot, world, IInv, Finite, EntryInLoop, OrderChecked,
                LoggedOrPending
  <2>5. QED
    BY <2>1, <2>2, <2>3, <2>4 DEF IInv
<1>3. CASE EvaluateExits
  <2>1. /\ pending' \subseteq open /\ pc = "exits" /\ pc' \in {"gates", "close"}
        /\ UNCHANGED <<now, open, readings, k, order, dir, repo>>
        /\ UNCHANGED world
    BY <1>3 DEF EvaluateExits
  <2>2. /\ OwnPositionsCapped' /\ OwnPositionsSpaced'
        /\ CopiesAreGenuine' /\ DatesInOrder' /\ Own' = Own
    BY <2>1, WorldUnchanged DEF IInv, CopiesAreGenuine, PositionsOf
  <2>3. TypeOK'
    BY <2>1 DEF world, IInv, TypeOK, Stages
  <2>4. EveryOwnPositionWatched'
    BY <2>1, <2>2 DEF IInv, EveryOwnPositionWatched, Watching, PositionsOf
  <2>5. (Finite /\ EntryInLoop /\ OrderChecked /\ LoggedOrPending)'
    BY <2>1 DEF world, IInv, Finite, EntryInLoop, OrderChecked, LoggedOrPending
  <2>6. QED
    BY <2>2, <2>3, <2>4, <2>5 DEF IInv
<1>4. ASSUME NEW e \in pending, CloseExecuted(e) \/ CloseFails(e)
      PROVE  IInv'
  BY <1>4, PositionLeaves DEF CloseExecuted, CloseFails, world
<1>5. CASE ReconcileAfterFill("close", "sweepPersist")
  <2>1. /\ open' = Reconciled(open) /\ pending' = open' /\ pc' = "sweepPersist"
        /\ UNCHANGED <<now, readings, k, order>> /\ UNCHANGED <<dir, repo>>
        /\ UNCHANGED world
    BY <1>5 DEF ReconcileAfterFill
  <2>2. pc' \in {"sweepPersist", "fillPersist"} /\ pc' # "fillPersist"
    BY <2>1
  <2>3. QED
    BY <2>1, <2>2, ReconciledPersists DEF world
<1>6. CASE SweepPersisted
  <2>1. /\ OwnPositionsCapped' /\ OwnPositionsSpaced'
        /\ CopiesAreGenuine' /\ DatesInOrder' /\ Own' = Own
    BY <1>6, WorldUnchanged DEF SweepPersisted, IInv, CopiesAreGenuine, PositionsOf
  <2>2. TypeOK'
    BY <1>6 DEF SweepPersisted, world, IInv, TypeOK, Stages
  <2>3. EveryOwnPositionWatched'
    BY <1>6, <2>1
       DEF SweepPersisted, IInv, EveryOwnPositionWatched, Watching, PositionsOf
  <2>4. (Finite /\ EntryInLoop /\ OrderChecked /\ LoggedOrPending)'
    BY <1>6 DEF SweepPersisted, world, IInv, Finite, EntryInLoop, OrderChecked,
                LoggedOrPending
  <2>5. QED
    BY <2>1, <2>2, <2>3, <2>4 DEF IInv
<1>7. QED
  BY <1>1, <1>2, <1>3, <1>4, <1>5, <1>6 DEF Sweep

\* An order executed: the broker has one more position.
LEMMA OrderExecuted ==
  ASSUME IInv, pc = "submit", NEW id \in Ids, Fills(id), UNCHANGED <<clock, runs>>,
         SubmitFilled(id) \/ SubmitReplyLost(id)
  PROVE  IInv'
<1>1. /\ broker' \subseteq Positions /\ issued' \subseteq Positions
      /\ broker' \subseteq issued' /\ issued \subseteq issued'
      /\ \A p, q \in issued' : p.id = q.id => p = q
      /\ \A p \in issued' : p.at <= clock
      /\ IsFiniteSet(broker')
      /\ OwnPositionsCapped' /\ OwnPositionsSpaced'
  BY FillKeepsTheBook
<1>2. Len(PairSets) \in Nat
  BY PairsAssumption
<1>3. CASE SubmitFilled(id)
  <2>1. TypeOK'
    BY <1>1, <1>3 DEF SubmitFilled, IInv, TypeOK, Stages
  <2>2. CopiesAreGenuine' /\ Finite' /\ DatesInOrder'
    BY <1>1, <1>3 DEF SubmitFilled, IInv, CopiesAreGenuine, Finite, DatesInOrder,
                      PositionsOf, Logged
  <2>3. EntryInLoop' /\ OrderChecked' /\ LoggedOrPending' /\ EveryOwnPositionWatched'
    BY <1>3 DEF SubmitFilled, IInv, EntryInLoop, OrderChecked, LoggedOrPending,
                EveryOwnPositionWatched, Watching
  <2>4. QED
    BY <1>1, <2>1, <2>2, <2>3 DEF IInv
<1>4. CASE SubmitReplyLost(id)
  <2>1. TypeOK'
    BY <1>1, <1>2, <1>4
       DEF SubmitReplyLost, ProcessGone, ForgetMemory, IInv, TypeOK, Stages
  <2>2. CopiesAreGenuine' /\ DatesInOrder'
    BY <1>1, <1>4 DEF SubmitReplyLost, ProcessGone, ForgetMemory, IInv, TypeOK,
                      CopiesAreGenuine, DatesInOrder, PositionsOf, Logged
  <2>3. Finite'
    BY <1>1, <1>4, FS_EmptySet DEF SubmitReplyLost, ProcessGone, ForgetMemory, Finite
  <2>4. EntryInLoop' /\ OrderChecked' /\ LoggedOrPending' /\ EveryOwnPositionWatched'
    BY <1>4 DEF SubmitReplyLost, ProcessGone, EntryInLoop, OrderChecked,
                LoggedOrPending, EveryOwnPositionWatched, Watching
  <2>5. QED
    BY <1>1, <2>1, <2>2, <2>3, <2>4 DEF IInv
<1>5. QED
  BY <1>3, <1>4

\* The steps of the entry loop, after the gates.
LEMMA EntrySteps ==
  ASSUME IInv, EntryLoop
  PROVE  IInv'
<1> USE PairsAssumption
<1>1. ASSUME UNCHANGED <<now, open, pending, readings>>, UNCHANGED <<dir, repo>>,
             UNCHANGED world,
             pc \in {"gates", "entries", "submit", "fillPersist"},
             pc' \in {"entries", "submit", "fillReconcile"}
      PROVE  /\ OwnPositionsCapped' /\ OwnPositionsSpaced'
             /\ CopiesAreGenuine' /\ DatesInOrder' /\ Finite'
             /\ LoggedOrPending' /\ EveryOwnPositionWatched'
  <2>1. /\ OwnPositionsCapped' /\ OwnPositionsSpaced'
        /\ CopiesAreGenuine' /\ DatesInOrder' /\ Own' = Own
    BY <1>1, WorldUnchanged DEF IInv, CopiesAreGenuine, PositionsOf
  <2>2. LoggedOrPending' /\ EveryOwnPositionWatched' /\ Finite'
    BY <1>1, <2>1 DEF IInv, Finite, LoggedOrPending, EveryOwnPositionWatched,
                      Watching, PositionsOf, world
  <2>3. QED
    BY <2>1, <2>2
<1>2. CASE GateRefuses \/ EntriesDone
  BY <1>2, InvocationSteps
<1>3. CASE GatesPass
  <2>1. TypeOK' /\ EntryInLoop' /\ OrderChecked'
    BY <1>3 DEF GatesPass, world, IInv, TypeOK, Stages, EntryInLoop, OrderChecked
  <2>2. QED
    BY <1>1, <1>3, <2>1 DEF GatesPass, IInv
<1>4. CASE PassOver
  <2>1. TypeOK' /\ EntryInLoop' /\ OrderChecked'
    BY <1>4 DEF PassOver, world, IInv, TypeOK, Stages, EntryInLoop, OrderChecked
  <2>2. QED
    BY <1>1, <1>4, <2>1 DEF PassOver, IInv
<1>5. CASE Approve
  <2>1. readings[k] \in Readings
    BY <1>5 DEF Approve, IInv, TypeOK
  <2>2. TypeOK' /\ EntryInLoop'
    BY <1>5, <2>1 DEF Approve, world, IInv, TypeOK, Stages, EntryInLoop
  <2>3. \A e \in open : e.pos.pair = readings[k].pair => now - e.pos.at >= MinGap
    <3>1. \A e \in open : e.pos.at \in Nat
      BY DEF IInv, TypeOK, Entries, Positions
    <3>2. QED
      BY <1>5, <3>1, LimitsAssumption DEF Approve, AlreadyEntered, IInv, TypeOK
  <2>4. OrderChecked'
    BY <1>5, <2>1, <2>3 DEF Approve, OrderChecked
  <2>5. QED
    BY <1>1, <1>5, <2>2, <2>4 DEF Approve, IInv
<1>6. ASSUME NEW id \in Ids, SubmitFilled(id) \/ SubmitReplyLost(id)
      PROVE  IInv'
  <2>1. pc = "submit" /\ Fills(id) /\ UNCHANGED <<clock, runs>>
    BY <1>6 DEF SubmitFilled, SubmitReplyLost
  <2>2. QED
    BY <1>6, <2>1, OrderExecuted
<1>7. CASE SubmitPartial
  <2>1. TypeOK' /\ EntryInLoop' /\ OrderChecked'
    BY <1>7 DEF SubmitPartial, world, IInv, TypeOK, Stages, EntryInLoop, OrderChecked
  <2>2. QED
    BY <1>1, <1>7, <2>1 DEF SubmitPartial, IInv
<1>8. CASE ReconcileAfterFill("fillReconcile", "fillPersist")
  <2>1. /\ open' = Reconciled(open) /\ pending' = open' /\ pc' = "fillPersist"
        /\ UNCHANGED <<now, readings, k, order>> /\ UNCHANGED <<dir, repo>>
        /\ UNCHANGED world /\ pc = "fillReconcile"
    BY <1>8 DEF ReconcileAfterFill
  <2>2. pc' \in {"sweepPersist", "fillPersist"}
    BY <2>1
  <2>3. QED
    BY <2>1, <2>2, ReconciledPersists DEF world
<1>9. CASE EntryPersisted
  <2>1. TypeOK' /\ EntryInLoop' /\ OrderChecked'
    BY <1>9 DEF EntryPersisted, world, IInv, TypeOK, Stages, EntryInLoop, OrderChecked
  <2>2. QED
    BY <1>1, <1>9, <2>1 DEF EntryPersisted, IInv
<1>10. QED
  BY <1>2, <1>3, <1>4, <1>5, <1>6, <1>7, <1>8, <1>9 DEF EntryLoop

\* Appending to positions.cursor.
LEMMA AppendStep ==
  ASSUME IInv, NEW e \in pending, AppendPosition(e)
  PROVE  IInv'
<1>1. /\ dir.log \in Seq(Positions) /\ e.pos \in Positions /\ e.pos \in issued
      /\ dir' \in StateDirs /\ dir'.log = Append(dir.log, e.pos)
  <2>1. dir \in StateDirs /\ dir.log \in Seq(Positions) /\ e.pos \in Positions
    BY DEF IInv, TypeOK, StateDirs, Entries
  <2>2. e.pos \in issued
    BY DEF IInv, CopiesAreGenuine, PositionsOf
  <2>3. Append(dir.log, e.pos) \in Seq(Positions)
    BY <2>1
  <2>4. QED
    BY <2>1, <2>2, <2>3 DEF AppendPosition, StateDirs
<1>2. Logged(dir.log)' = Logged(dir.log) \cup {e.pos}
  <2>1. Len(dir'.log) = Len(dir.log) + 1 /\ Len(dir.log) \in Nat
    BY <1>1
  <2>2. \A n \in 1..Len(dir.log) : dir'.log[n] = dir.log[n]
    BY <1>1
  <2>3. dir'.log[Len(dir.log) + 1] = e.pos
    BY <1>1
  <2>4. QED
    BY <2>1, <2>2, <2>3 DEF Logged
<1>3. Own' = Own
  BY DEF AppendPosition, world, Own
<1>4. OwnPositionsCapped' /\ OwnPositionsSpaced'
  BY <1>3, OwnShrinks
<1>5. TypeOK'
  BY <1>1 DEF AppendPosition, world, IInv, TypeOK
<1>6. CopiesAreGenuine'
  <2>1. Logged(repo.log)' = Logged(repo.log)
    BY DEF AppendPosition, Logged
  <2>2. PositionsOf(open)' = PositionsOf(open)
        /\ PositionsOf(pending)' \subseteq PositionsOf(pending)
    BY DEF AppendPosition, PositionsOf
  <2>3. QED
    BY <1>1, <1>2, <2>1, <2>2 DEF AppendPosition, world, IInv, CopiesAreGenuine
<1>7. (Finite /\ DatesInOrder /\ EntryInLoop /\ OrderChecked)'
  BY DEF AppendPosition, world, IInv, Finite, DatesInOrder, EntryInLoop, OrderChecked
<1>8. EveryOwnPositionWatched'
  BY <1>3 DEF AppendPosition, IInv, EveryOwnPositionWatched, PositionsOf
<1>9. LoggedOrPending'
  <2>1. PositionsOf(pending) \subseteq PositionsOf(pending)' \cup {e.pos}
    BY DEF AppendPosition, PositionsOf
  <2>2. QED
    BY <1>2, <1>3, <2>1 DEF AppendPosition, IInv, LoggedOrPending
<1>10. QED
  BY <1>4, <1>5, <1>6, <1>7, <1>8, <1>9 DEF IInv

\* The broker, the account holder and the clock.
LEMMA EnvironmentSteps ==
  ASSUME IInv, Environment
  PROVE  IInv'
<1>1. ASSUME NEW p \in broker, BrokerCloses(p)
      PROVE  IInv'
  BY <1>1, PositionLeaves DEF BrokerCloses, process
<1>2. ASSUME NEW id \in Ids, NEW pair \in Pairs, NEW d \in Directions,
             OpenByHand(id, pair, d)
      PROVE  IInv'
  <2> DEFINE new == [id |-> id, pair |-> pair, dir |-> d, at |-> clock, own |-> FALSE]
  <2>1. /\ broker' = broker \cup {new} /\ issued' = issued \cup {new}
        /\ id \notin IdsOf(issued)
        /\ UNCHANGED <<clock, runs, dir, repo>> /\ UNCHANGED process
    BY <1>2 DEF OpenByHand, Fresh
  <2>2. /\ new \in Positions /\ new.id = id /\ new.at = clock /\ ~new.own
        /\ \A p \in issued : p.id # id
    BY <2>1 DEF IInv, TypeOK, Positions, IdsOf
  <2> HIDE DEF new
  <2>3. Own' = Own
    BY <2>1, <2>2 DEF Own
  <2>4. OwnPositionsCapped' /\ OwnPositionsSpaced'
    BY <2>3, OwnShrinks
  <2>5. TypeOK'
    BY <2>1, <2>2 DEF process, IInv, TypeOK
  <2>6. CopiesAreGenuine'
    BY <2>1, <2>2 DEF process, IInv, CopiesAreGenuine, PositionsOf, Logged
  <2>7. Finite'
    BY <2>1, FS_AddElement DEF process, IInv, Finite
  <2>8. DatesInOrder'
    BY <2>1, <2>2 DEF process, IInv, TypeOK, DatesInOrder
  <2>9. (EntryInLoop /\ OrderChecked /\ LoggedOrPending /\ EveryOwnPositionWatched)'
    BY <2>1, <2>3 DEF process, IInv, EntryInLoop, OrderChecked, LoggedOrPending,
                      EveryOwnPositionWatched, PositionsOf, Logged
  <2>10. QED
    BY <2>4, <2>5, <2>6, <2>7, <2>8, <2>9 DEF IInv
<1>3. CASE Tick
  <2>1. Own' = Own
    BY <1>3 DEF Tick, Own
  <2>2. OwnPositionsCapped' /\ OwnPositionsSpaced'
    BY <2>1, OwnShrinks
  <2>3. TypeOK' /\ CopiesAreGenuine' /\ Finite'
    BY <1>3 DEF Tick, process, IInv, TypeOK, CopiesAreGenuine, Finite,
                PositionsOf, Logged
  <2>4. DatesInOrder'
    <3>1. \A p \in issued : p.at \in Nat
      BY DEF IInv, TypeOK, Positions
    <3>2. QED
      BY <1>3, <3>1 DEF Tick, process, IInv, TypeOK, DatesInOrder
  <2>5. (EntryInLoop /\ OrderChecked /\ LoggedOrPending /\ EveryOwnPositionWatched)'
    BY <1>3, <2>1 DEF Tick, process, IInv, EntryInLoop, OrderChecked,
                      LoggedOrPending, EveryOwnPositionWatched, PositionsOf, Logged
  <2>6. QED
    BY <2>2, <2>3, <2>4, <2>5 DEF IInv
<1>4. QED
  BY <1>1, <1>2, <1>3 DEF Environment

\* A step in which nothing happens.
LEMMA StutteringStep ==
  ASSUME IInv, UNCHANGED vars
  PROVE  IInv'
<1>1. Own' = Own
  BY DEF vars, Own
<1>2. OwnPositionsCapped' /\ OwnPositionsSpaced'
  BY <1>1, OwnShrinks
<1>3. TypeOK' /\ CopiesAreGenuine' /\ Finite' /\ DatesInOrder'
  BY DEF vars, IInv, TypeOK, CopiesAreGenuine, Finite, DatesInOrder, PositionsOf,
         Logged
<1>4. EntryInLoop' /\ OrderChecked' /\ LoggedOrPending' /\ EveryOwnPositionWatched'
  BY <1>1 DEF vars, IInv, EntryInLoop, OrderChecked, LoggedOrPending,
              EveryOwnPositionWatched, PositionsOf, Logged
<1>5. QED
  BY <1>2, <1>3, <1>4 DEF IInv

\* The inductive invariant of run_real_cycle and the world around it: lost
\* replies, crashes and reverted logs included, it is true of every state.
THEOREM InductiveInvariant == Spec => []IInv
<1>1. IInv /\ [Next]_vars => IInv'
  <2> SUFFICES ASSUME IInv, [Next]_vars PROVE IInv'
    OBVIOUS
  <2>1. CASE StartPaused \/ Start \/ Fail \/ HeartbeatFails \/ Push
    BY <2>1, InvocationSteps
  <2>2. CASE StartupReconcile \/ Snapshot \/ Sweep
    BY <2>2, SweepSteps
  <2>3. CASE EntryLoop
    BY <2>3, EntrySteps
  <2>4. ASSUME NEW e \in pending, AppendPosition(e) PROVE IInv'
    BY <2>4, AppendStep
  <2>5. CASE Environment
    BY <2>5, EnvironmentSteps
  <2>6. CASE UNCHANGED vars
    BY <2>6, StutteringStep
  <2>7. QED
    BY <2>1, <2>2, <2>3, <2>4, <2>5, <2>6 DEF Next, Step
<1>2. QED
  BY <1>1, InitEstablishes, PTL DEF Spec

\* Every variable always has its type.
THEOREM TypeCorrect == Spec => []TypeOK
<1>1. IInv => TypeOK
  BY DEF IInv
<1>2. QED
  BY <1>1, InductiveInvariant, PTL

\* The daemon never has more than max_open_positions positions of its own at
\* the broker.
THEOREM CapHolds == Spec => []OwnPositionsCapped
<1>1. IInv => OwnPositionsCapped
  BY DEF IInv
<1>2. QED
  BY <1>1, InductiveInvariant, PTL

\* Its open positions on one pair are always MinGap apart.
THEOREM SpacingHolds == Spec => []OwnPositionsSpaced
<1>1. IInv => OwnPositionsSpaced
  BY DEF IInv
<1>2. QED
  BY <1>1, InductiveInvariant, PTL

\* No own position escapes the exit sweep and the risk checks of an invocation.
THEOREM NothingUnwatched == Spec => []EveryOwnPositionWatched
<1>1. IInv => EveryOwnPositionWatched
  BY DEF IInv
<1>2. QED
  BY <1>1, InductiveInvariant, PTL

\* When a fill has been persisted, the log holds every own open position.
THEOREM PersistedFillsAreLogged == Spec => FillsAreLogged
<1> DEFINE A == (pc \in {"sweepPersist", "fillPersist"} /\ pc' \in {"gates", "entries"})
                  => Own \subseteq Logged(dir.log)
<1>1. IInv /\ [Next]_vars => [A]_vars
  <2> SUFFICES ASSUME IInv, [Next]_vars,
                      pc \in {"sweepPersist", "fillPersist"},
                      pc' \in {"gates", "entries"}
               PROVE  Own \subseteq Logged(dir.log)
    OBVIOUS
  <2>1. SweepPersisted \/ EntryPersisted
    BY DEF Next, Step, Sweep, EntryLoop, Environment, StartPaused, Start, Push, Fail,
           ProcessGone, End, HeartbeatFails, StartupReconcile, Snapshot,
           EvaluateExits, CloseExecuted, CloseFails, ReconcileAfterFill,
           AppendPosition, GateRefuses, GatesPass, PassOver, Approve,
           SubmitFilled, SubmitReplyLost, SubmitPartial, EntriesDone,
           BrokerCloses, OpenByHand, Tick, process, vars
  <2>2. pending = {}
    BY <2>1 DEF SweepPersisted, EntryPersisted
  <2>3. QED
    BY <2>2 DEF IInv, LoggedOrPending, PositionsOf
<1>2. QED
  BY <1>1, InductiveInvariant, PTL DEF Spec, FillsAreLogged

-----------------------------------------------------------------------------
(* Refinement *)

\* A fill is an entry into the book, whether its reply arrives or not.
LEMMA FillEnters ==
  ASSUME IInv, NEW id \in Ids, SubmitFilled(id) \/ SubmitReplyLost(id)
  PROVE  Book!Next
<1>1. pc = "submit" /\ Fills(id) /\ UNCHANGED clock
  BY DEF SubmitFilled, SubmitReplyLost
<1>2. /\ Book!Enter(id, order.pair, order.dir)
      /\ order.pair \in Pairs /\ order.dir \in Directions
  BY <1>1, FillKeepsTheBook
<1>3. QED
  BY <1>2 DEF Book!Next

\* A close the daemon or the broker makes takes at most one position away.
LEMMA CloseLeaves ==
  ASSUME IInv, NEW p \in broker, broker' = {q \in broker : q.id # p.id},
         UNCHANGED clock
  PROVE  [Book!Next]_(Book!bookVars)
<1>1. \A q \in broker : q.id = p.id => q = p
  BY DEF IInv, CopiesAreGenuine
<1>2. Own' = Own \ {p}
  BY <1>1 DEF Own
<1>3. CASE p \in Own
  BY <1>2, <1>3 DEF Book!Next, Book!Leave
<1>4. CASE p \notin Own
  BY <1>2, <1>4 DEF Book!bookVars
<1>5. QED
  BY <1>3, <1>4

\* Every step of the daemon and its world is a step of PositionBook or leaves
\* the book and the clock alone.
LEMMA StepSimulation ==
  ASSUME IInv, [Next]_vars
  PROVE  [Book!Next]_(Book!bookVars)
<1>1. ASSUME UNCHANGED <<broker, clock>>
      PROVE  UNCHANGED Book!bookVars
  BY <1>1 DEF Own, Book!bookVars
<1>2. CASE StartPaused \/ Start \/ Push \/ Fail \/ HeartbeatFails
  BY <1>1, <1>2 DEF StartPaused, Start, Push, Fail, HeartbeatFails, End, world
<1>3. CASE StartupReconcile \/ Snapshot
  BY <1>1, <1>3 DEF StartupReconcile, Snapshot, world
<1>4. CASE Sweep
  <2>1. ASSUME NEW e \in pending, CloseExecuted(e)
        PROVE  [Book!Next]_(Book!bookVars)
    <3>1. PICK p \in broker : p.id = e.pos.id
      BY <2>1 DEF CloseExecuted, IdsOf
    <3>2. QED
      BY <2>1, <3>1, CloseLeaves DEF CloseExecuted
  <2>2. ASSUME NEW e \in pending, CloseFails(e)
        PROVE  [Book!Next]_(Book!bookVars)
    BY <1>1, <2>2 DEF CloseFails, world
  <2>3. CASE EvaluateExits \/ ReconcileAfterFill("close", "sweepPersist")
             \/ SweepPersisted
    BY <1>1, <2>3 DEF EvaluateExits, ReconcileAfterFill, SweepPersisted, world
  <2>4. QED
    BY <1>4, <2>1, <2>2, <2>3 DEF Sweep
<1>5. CASE EntryLoop
  <2>1. ASSUME NEW id \in Ids, SubmitFilled(id) \/ SubmitReplyLost(id)
        PROVE  [Book!Next]_(Book!bookVars)
    BY <2>1, FillEnters
  <2>2. CASE GateRefuses \/ GatesPass \/ PassOver \/ Approve \/ SubmitPartial
             \/ ReconcileAfterFill("fillReconcile", "fillPersist")
             \/ EntryPersisted \/ EntriesDone
    BY <1>1, <2>2 DEF GateRefuses, GatesPass, PassOver, Approve, SubmitPartial,
       ReconcileAfterFill, EntryPersisted, EntriesDone, End, world
  <2>3. QED
    BY <1>5, <2>1, <2>2 DEF EntryLoop
<1>6. ASSUME NEW e \in pending, AppendPosition(e)
      PROVE  [Book!Next]_(Book!bookVars)
  BY <1>1, <1>6 DEF AppendPosition, world
<1>7. ASSUME NEW p \in broker, BrokerCloses(p)
      PROVE  [Book!Next]_(Book!bookVars)
  <2>1. broker' = {q \in broker : q.id # p.id}
    BY <1>7 DEF BrokerCloses, IInv, CopiesAreGenuine
  <2>2. QED
    BY <1>7, <2>1, CloseLeaves DEF BrokerCloses
<1>8. ASSUME NEW id \in Ids, NEW pair \in Pairs, NEW d \in Directions,
             OpenByHand(id, pair, d)
      PROVE  UNCHANGED Book!bookVars
  <2>1. Own' = Own /\ UNCHANGED clock
    BY <1>8 DEF OpenByHand, Own
  <2>2. QED
    BY <2>1 DEF Book!bookVars
<1>9. CASE Tick
  <2>1. Own' = Own
    BY <1>9 DEF Tick, Own
  <2>2. QED
    BY <1>9, <2>1 DEF Tick, Book!Next, Book!Tick
<1>10. CASE UNCHANGED vars
  BY <1>1, <1>10 DEF vars
<1>11. QED
  BY <1>2, <1>3, <1>4, <1>5, <1>6, <1>7, <1>8, <1>9, <1>10
     DEF Next, Step, Environment

\* run_real_cycle implements PositionBook.
THEOREM Refinement == Spec => ImplementsPositionBook
<1>1. Init => Book!Init
  BY DEF Init, Book!Init, Own
<1>2. IInv /\ [Next]_vars => [Book!Next]_(Book!bookVars)
  BY StepSimulation
<1>3. QED
  BY <1>1, <1>2, InductiveInvariant, PTL DEF Spec, Book!Spec, ImplementsPositionBook

=============================================================================
