---------------------------- MODULE TradingCycle ----------------------------
(***************************************************************************)
(* run_real_cycle (daemon/src/main.rs): the short-lived process that a     *)
(* scheduler starts every five minutes.  One invocation reconciles the     *)
(* positions log with the broker, reads the market, sweeps exits, and      *)
(* inside a macro window walks the configured pair-sets for entries.       *)
(* Everything in memory is lost when it ends; what survives is the state   *)
(* directory, and it is pushed to the state repository only when the       *)
(* invocation succeeded.                                                   *)
(*                                                                         *)
(* Between any two steps the broker may close a position (its own stop or  *)
(* target), the account holder may open one by hand, the clock advances,   *)
(* and the process may die or return an error.  The reply to an order or   *)
(* to a close may be lost after the broker executed it.                    *)
(*                                                                         *)
(* Abstractions.  A reconciled Vec<Position> is a set of entries, one per  *)
(* element: the order of the list is immaterial, its length and its        *)
(* repetitions are not.  What evaluate_smt answers is an input,            *)
(* constrained only by its type: MarketState is about the answers it       *)
(* really gives.  Which positions are beyond their stop or target, and the *)
(* verdicts of the spread filter, the True Open gate, the health checks    *)
(* and the arithmetic of the risk engine are inputs as well.  A position's *)
(* entry time is the clock when the broker filled it: the two clocks       *)
(* agree.                                                                  *)
(***************************************************************************)
EXTENDS Integers, FiniteSets, Sequences

CONSTANTS
  Pairs,        \* currency pairs
  Directions,   \* Buy and Sell
  Ids,          \* position ids the broker can issue (bounds the positions)
  PairSets,     \* config.pairs: a sequence of [primary, secondary]
  MaxOpen,      \* config.risk.max_open_positions
  MinGap,       \* MIN_MINUTES_BETWEEN_ENTRIES_SAME_PAIR
  None,         \* Option::None
  MaxRuns,      \* bound: invocations
  MaxClock,     \* bound: clock
  MaxByHand,    \* bound: only the first positions of the account are by hand
  ByHandFrom    \* bound: the clock from which the account holder trades

ASSUME PairsAssumption ==
  /\ None \notin [pair : Pairs, dir : Directions]
  /\ PairSets \in Seq([primary : Pairs, secondary : Pairs])
  /\ Len(PairSets) > 0

ASSUME LimitsAssumption ==
  /\ MaxOpen \in Nat
  /\ MinGap \in Nat
  /\ MaxRuns \in Nat /\ MaxClock \in Nat /\ MaxByHand \in Nat /\ ByHandFrom \in Nat

VARIABLES
  \* the world outside the process
  clock,
  broker,    \* the positions open at the broker
  issued,    \* history: every position the broker ever opened
  dir,       \* the state directory: positions.cursor and status.json
  repo,      \* the state directory as last pushed to the state repository
  runs,      \* invocations started
  \* the process
  pc,        \* the stage of run_real_cycle
  now,       \* the local variable now
  open,      \* open_positions, one entry per element of the vector
  readings,  \* resolved_divergence of each pair-set
  pending,   \* the entries still to close, or still to append to the log
  k,         \* the pair-set the entry loop is at
  order      \* the order about to be sent

world   == <<clock, broker, issued, runs>>
process == <<pc, now, open, readings, pending, k, order>>
vars    == <<clock, broker, issued, dir, repo, runs,
             pc, now, open, readings, pending, k, order>>

-----------------------------------------------------------------------------
(* Data *)

\* own is ground truth the daemon cannot see: it opened the position itself.
Positions == [id : Ids, pair : Pairs, dir : Directions, at : Nat, own : BOOLEAN]

\* An element of open_positions: the line of positions.cursor its copy was read
\* from, or 0 for a copy of what the broker reported.
Entries == [line : Nat, pos : Positions]

Readings == [pair : Pairs, dir : Directions]

\* positions.cursor, and the invocation that wrote status.json (its last_run).
StateDirs == [log : Seq(Positions), status : Nat]

Stages == {"idle", "reconcile", "snapshot", "exits", "close", "sweepPersist",
           "gates", "entries", "submit", "fillReconcile",
           "fillPersist", "push"}

TypeOK ==
  /\ clock \in Nat
  /\ broker \subseteq Positions
  /\ issued \subseteq Positions
  /\ dir \in StateDirs
  /\ repo \in StateDirs
  /\ runs \in Nat
  /\ pc \in Stages
  /\ now \in Nat
  /\ open \subseteq Entries
  /\ readings \in [1..Len(PairSets) -> Readings \cup {None}]
  /\ pending \subseteq Entries
  /\ k \in 1..(Len(PairSets) + 1)
  /\ order \in Readings \cup {None}

-----------------------------------------------------------------------------
(* Helpers *)

IdsOf(positions) == {p.id : p \in positions}
PositionsOf(entries) == {e.pos : e \in entries}
Own == {p \in broker : p.own}

\* positions_cursor.read_all(): every line ever appended, oldest first.
ReadAll(log) == {[line |-> n, pos |-> log[n]] : n \in 1..Len(log)}

\* reconcile: the local copies the broker still lists, repetitions included.
Confirmed(known) == {e \in known : e.pos.id \in IdsOf(broker)}

\* reconcile: what the broker lists and no local copy has the id of.
UnknownToLocal(known) ==
  {[line |-> 0, pos |-> p] :
     p \in {q \in broker : q.id \notin IdsOf(PositionsOf(known))}}

\* Variant: what only the broker knows of is reported and not adopted.
Reconciled_ConfirmedOnly(known) == Confirmed(known)

\* apply_reconciliation
Reconciled(known) == Confirmed(known) \cup UnknownToLocal(known)

\* Variant: only positions read back from positions.cursor count.
AlreadyEntered_LoggedOnly(pair) ==
  \E e \in open : e.line > 0 /\ e.pos.pair = pair /\ now - e.pos.at < MinGap

\* already_entered_this_cycle, as the entry loop calls it: over open_positions.
AlreadyEntered(pair) ==
  \E e \in open : e.pos.pair = pair /\ now - e.pos.at < MinGap

\* current_divergences: a map collected in pair-set order, so the last pair-set
\* whose reading names the pair is the one that stays.
CurrentDivergence(pair) ==
  LET naming == {j \in DOMAIN readings :
                   readings[j] # None /\ readings[j].pair = pair}
  IN  IF naming = {} THEN None
      ELSE readings[CHOOSE j \in naming : \A i \in naming : i <= j].dir

\* smt_contradiction_exit
Contradicted(p) == CurrentDivergence(p.pair) \notin {None, p.dir}

\* What evaluate_smt may return for pair-set j: it names one of its two pairs.
ReadingsOf(j) ==
  {None} \cup [pair : {PairSets[j].primary, PairSets[j].secondary},
               dir  : Directions]

\* run_real_cycle has returned, and its local variables are gone.
ForgetMemory ==
  /\ now' = 0
  /\ open' = {}
  /\ readings' = [j \in 1..Len(PairSets) |-> None]
  /\ pending' = {}
  /\ k' = 1
  /\ order' = None

ProcessGone == pc' = "idle" /\ ForgetMemory

\* An early return or the end of the loop: write_status, then Ok, and the job
\* goes on to its push step. A failed status write is only logged; here it
\* succeeds.
End ==
  /\ dir' = [dir EXCEPT !.status = runs]
  /\ pc' = "push"
  /\ ForgetMemory
  /\ UNCHANGED <<world, repo>>

-----------------------------------------------------------------------------
Init ==
  /\ clock = 0 /\ runs = 0
  /\ broker = {} /\ issued = {}
  /\ dir = [log |-> <<>>, status |-> 0]
  /\ repo = dir
  /\ pc = "idle" /\ now = 0 /\ open = {}
  /\ readings = [j \in 1..Len(PairSets) |-> None]
  /\ pending = {} /\ k = 1 /\ order = None

(* Invocation: start, push, failure *)

\* kill_switch_engaged is read once, here. Paused, the run only writes a status.
StartPaused ==
  /\ pc = "idle" /\ runs < MaxRuns
  /\ runs' = runs + 1
  /\ dir' = [dir EXCEPT !.status = runs + 1]
  /\ pc' = "push"
  /\ UNCHANGED <<clock, broker, issued, repo>>
  /\ UNCHANGED <<now, open, readings, pending, k, order>>

Start ==
  /\ pc = "idle" /\ runs < MaxRuns
  /\ runs' = runs + 1
  /\ pc' = "reconcile"
  /\ UNCHANGED <<clock, broker, issued, dir, repo>>
  /\ UNCHANGED <<now, open, readings, pending, k, order>>

\* The workflow's last step commits and pushes the state directory.
Push ==
  /\ pc = "push"
  /\ repo' = dir
  /\ ProcessGone
  /\ UNCHANGED <<world, dir>>

\* Any `?` on the way, a kill, a crash of the runner or a rejected push. No
\* status is written and nothing is pushed: the next run sees the directory as
\* it was left (a local deployment) or the last pushed one (a fresh checkout).
Fail ==
  /\ pc # "idle"
  /\ ProcessGone
  /\ dir' \in {dir, repo}
  /\ UNCHANGED <<world, repo>>

-----------------------------------------------------------------------------
(* Startup reconciliation and market data *)

StartupReconcile ==
  /\ pc = "reconcile"
  /\ open' = Reconciled(ReadAll(dir.log))
  /\ pc' = "snapshot"
  /\ UNCHANGED <<now, readings, pending, k, order>>
  /\ UNCHANGED <<world, dir, repo>>

\* check_broker_heartbeat returned an error or timed out.
HeartbeatFails ==
  /\ pc = "snapshot"
  /\ End

\* The snapshot arrived: now is read (main.rs:296), and then every pair-set's reading
\* is resolved.
Snapshot ==
  /\ pc = "snapshot"
  /\ now' = clock
  /\ readings' \in {r \in [1..Len(PairSets) -> Readings \cup {None}] :
                      \A j \in 1..Len(PairSets) : r[j] \in ReadingsOf(j)}
  /\ pc' = "exits"
  /\ UNCHANGED <<open, pending, k, order>>
  /\ UNCHANGED <<world, dir, repo>>

-----------------------------------------------------------------------------
(* Exit sweep *)

\* evaluate_exits over every entry: beyond its stop or target (an input, the
\* same for every copy of a position), or contradicted by the live reading.
EvaluateExits ==
  /\ pc = "exits"
  /\ \E beyond \in SUBSET PositionsOf(open) :
       LET exits == {e \in open : e.pos \in beyond \/ Contradicted(e.pos)}
       IN  /\ pending' = exits
           /\ pc' = IF exits = {} THEN "gates" ELSE "close"
  /\ UNCHANGED <<now, open, readings, k, order>>
  /\ UNCHANGED <<world, dir, repo>>

\* One broker.close_position per exit. Executed, or executed with its reply lost.
CloseExecuted(e) ==
  /\ pc = "close" /\ e \in pending
  /\ e.pos.id \in IdsOf(broker)
  /\ broker' = {p \in broker : p.id # e.pos.id}
  /\ pending' = pending \ {e}
  /\ UNCHANGED <<clock, issued, runs, dir, repo,
                 pc, now, open, readings, k, order>>

\* Variant: a close that failed is tried again.
CloseFails_Retried(e) ==
  /\ pc = "close" /\ e \in pending
  /\ UNCHANGED <<process, world, dir, repo>>

\* Refused, timed out before it executed, or nothing left to close: only logged.
CloseFails(e) ==
  /\ pc = "close" /\ e \in pending
  /\ pending' = pending \ {e}
  /\ UNCHANGED <<pc, now, open, readings, k, order>>
  /\ UNCHANGED <<world, dir, repo>>

\* Variant: the list from before the reconciliation is what is appended.
ReconcileAfterFill_AppendsOldList(here, next) ==
  /\ pc = here /\ pending = {}
  /\ open' = Reconciled(open)
  /\ pending' = open
  /\ pc' = next
  /\ UNCHANGED <<now, readings, k, order>>
  /\ UNCHANGED <<world, dir, repo>>

\* After a fill (an exit or an entry) the list in memory is reconciled again and
\* every element of the result is appended to positions.cursor.
ReconcileAfterFill(here, next) ==
  /\ pc = here /\ pending = {}
  /\ open' = Reconciled(open)
  /\ pending' = open'
  /\ pc' = next
  /\ UNCHANGED <<now, readings, k, order>>
  /\ UNCHANGED <<world, dir, repo>>

AppendPosition(e) ==
  /\ pc \in {"sweepPersist", "fillPersist"} /\ e \in pending
  /\ dir' = [dir EXCEPT !.log = Append(@, e.pos)]
  /\ pending' = pending \ {e}
  /\ UNCHANGED <<pc, now, open, readings, k, order>>
  /\ UNCHANGED <<world, repo>>

SweepPersisted ==
  /\ pc = "sweepPersist" /\ pending = {}
  /\ pc' = "gates"
  /\ UNCHANGED <<now, open, readings, pending, k, order>>
  /\ UNCHANGED <<world, dir, repo>>

-----------------------------------------------------------------------------
(* Entry gates and the entry loop *)

\* outside_window, health_blocked, holiday_skip. The three verdicts are inputs
\* (the window's, because --force skips it): any run may end here or pass.
GateRefuses ==
  /\ pc = "gates"
  /\ End

GatesPass ==
  /\ pc = "gates"
  /\ pc' = "entries"
  /\ k' = 1
  /\ UNCHANGED <<now, open, readings, pending, order>>
  /\ UNCHANGED <<world, dir, repo>>

\* Variant: the loop does not stop at the last pair-set.
PassOver_NoEnd ==
  /\ pc = "entries"
  /\ k' = k + 1
  /\ UNCHANGED <<pc, now, open, readings, pending, order>>
  /\ UNCHANGED <<world, dir, repo>>

\* spread_rejected, no_divergence, gate_rejected, collision_skip, risk_rejected:
\* the pair-set is passed over and the loop goes on.
PassOver ==
  /\ pc = "entries" /\ k <= Len(PairSets)
  /\ k' = k + 1
  /\ UNCHANGED <<pc, now, open, readings, pending, order>>
  /\ UNCHANGED <<world, dir, repo>>

\* Variant: the cap compared with <= instead of <.
Approve_CapOffByOne ==
  /\ pc = "entries" /\ k <= Len(PairSets)
  /\ readings[k] # None
  /\ ~AlreadyEntered(readings[k].pair)
  /\ Cardinality(open) <= MaxOpen
  /\ order' = readings[k]
  /\ pc' = "submit"
  /\ UNCHANGED <<now, open, readings, pending, k>>
  /\ UNCHANGED <<world, dir, repo>>

\* A signal that is no collision and that the risk engine approves: among its
\* checks, the length of open_positions against max_open_positions.
Approve ==
  /\ pc = "entries" /\ k <= Len(PairSets)
  /\ readings[k] # None
  /\ ~AlreadyEntered(readings[k].pair)
  /\ Cardinality(open) < MaxOpen
  /\ order' = readings[k]
  /\ pc' = "submit"
  /\ UNCHANGED <<now, open, readings, pending, k>>
  /\ UNCHANGED <<world, dir, repo>>

\* An id the broker has not used yet. Ids are only compared, so which one it takes
\* makes no difference, and the model takes one.
Fresh(id) ==
  /\ id \notin IdsOf(issued)
  /\ id = CHOOSE i \in Ids : i \notin IdsOf(issued)

\* The broker fills the order: a new position under a new id.
Fills(id) ==
  /\ Fresh(id)
  /\ LET p == [id |-> id, pair |-> order.pair, dir |-> order.dir,
               at |-> clock, own |-> TRUE]
     IN  broker' = broker \cup {p} /\ issued' = issued \cup {p}

SubmitFilled(id) ==
  /\ pc = "submit"
  /\ Fills(id)
  /\ pc' = "fillReconcile"
  /\ order' = None
  /\ UNCHANGED <<clock, runs, dir, repo, now, open, readings, pending, k>>

\* The order executes and its reply is lost: submit_order returns an error and
\* the invocation ends there.
SubmitReplyLost(id) ==
  /\ pc = "submit"
  /\ Fills(id)
  /\ ProcessGone
  /\ dir' \in {dir, repo}
  /\ UNCHANGED <<clock, runs, repo>>

\* MockBroker's scripted partial fill: an Order comes back, no position exists.
SubmitPartial ==
  /\ pc = "submit"
  /\ pc' = "fillReconcile"
  /\ order' = None
  /\ UNCHANGED <<now, open, readings, pending, k>>
  /\ UNCHANGED <<world, dir, repo>>

EntryPersisted ==
  /\ pc = "fillPersist" /\ pending = {}
  /\ pc' = "entries"
  /\ k' = k + 1
  /\ UNCHANGED <<now, open, readings, pending, order>>
  /\ UNCHANGED <<world, dir, repo>>

EntriesDone ==
  /\ pc = "entries" /\ k = Len(PairSets) + 1
  /\ End

-----------------------------------------------------------------------------
(* The world around the process *)

\* The broker closes a position at its stop or target.
BrokerCloses(p) ==
  /\ p \in broker
  /\ broker' = broker \ {p}
  /\ UNCHANGED <<clock, issued, runs, dir, repo>>
  /\ UNCHANGED process

\* The account holder opens a position by hand on a pair the daemon knows.
OpenByHand(id, pair, d) ==
  /\ Fresh(id)
  /\ Cardinality(issued) < MaxByHand /\ clock >= ByHandFrom
  /\ LET p == [id |-> id, pair |-> pair, dir |-> d, at |-> clock, own |-> FALSE]
     IN  broker' = broker \cup {p} /\ issued' = issued \cup {p}
  /\ UNCHANGED <<clock, runs, dir, repo>>
  /\ UNCHANGED process

Tick ==
  /\ clock < MaxClock
  /\ clock' = clock + 1
  /\ UNCHANGED <<broker, issued, runs, dir, repo>>
  /\ UNCHANGED process

-----------------------------------------------------------------------------
Sweep ==
  \/ EvaluateExits
  \/ \E e \in pending : CloseExecuted(e) \/ CloseFails(e)
  \/ ReconcileAfterFill("close", "sweepPersist")
  \/ SweepPersisted

EntryLoop ==
  \/ GateRefuses
  \/ GatesPass
  \/ PassOver
  \/ Approve
  \/ \E id \in Ids : SubmitFilled(id) \/ SubmitReplyLost(id)
  \/ SubmitPartial
  \/ ReconcileAfterFill("fillReconcile", "fillPersist")
  \/ EntryPersisted
  \/ EntriesDone

\* A step forward of the process that is running.
Step ==
  \/ StartupReconcile
  \/ HeartbeatFails
  \/ Snapshot
  \/ Sweep
  \/ EntryLoop
  \/ \E e \in pending : AppendPosition(e)
  \/ Push

Environment ==
  \/ \E p \in broker : BrokerCloses(p)
  \/ \E id \in Ids, pair \in Pairs, d \in Directions : OpenByHand(id, pair, d)
  \/ Tick

Next == StartPaused \/ Start \/ Step \/ Fail \/ Environment

Spec == Init /\ [][Next]_vars

\* A running invocation is never left alone: what it awaits of the broker is
\* timed, its file operations and (assumed) its socket writes return, so it takes
\* its next step. Nothing is assumed of the scheduler, and no failure is assumed
\* to come and end it.
FairSpec == Spec /\ WF_vars(Step)

-----------------------------------------------------------------------------
(* Properties *)

\* max_open_positions holds for the positions the daemon opened, although the
\* cap is checked against a list that lost replies, crashes and reverted logs
\* can make stale, and although the broker and the account holder act between
\* the check and the order.
OwnPositionsCapped == Cardinality(Own) <= MaxOpen

\* Two open positions the daemon opened on one pair are MinGap apart: a crash or
\* a lost reply between the order and the log never lets the next invocation,
\* or the next pair-set, enter the pair a second time.
OwnPositionsSpaced ==
  \A p, q \in Own :
    p.pair = q.pair /\ p # q => p.at - q.at >= MinGap \/ q.at - p.at >= MinGap

\* From the startup reconciliation on, until a fill is in flight, every position
\* the daemon opened and the broker still holds is among the positions the sweep
\* watches and the risk checks count.
Watching == {"snapshot", "exits", "close", "sweepPersist",
             "gates", "entries", "submit", "fillPersist"}

EveryOwnPositionWatched ==
  pc \in Watching => Own \subseteq PositionsOf(open)

\* Once the reconciliation after a fill has been persisted and the cycle moves
\* on, positions.cursor holds every position the daemon opened and the broker
\* still has: the one just filled, and those adopted at startup as well.
Logged(log) == {log[n] : n \in 1..Len(log)}

FillsAreLogged ==
  [][(pc \in {"sweepPersist", "fillPersist"} /\ pc' \in {"gates", "entries"})
       => Own \subseteq Logged(dir.log)]_vars

\* An invocation always ends.
InvocationEnds == pc # "idle" ~> pc = "idle"

\* The positions the daemon opened behave as PositionBook: they are entered one
\* at a time under the cap and the gap, and otherwise only leave.
Book == INSTANCE PositionBook WITH book <- Own

ImplementsPositionBook == Book!Spec

-----------------------------------------------------------------------------
(* The inductive invariant *)

\* Every copy of a position, in memory or in a log, is a copy of one the broker
\* opened, and ids name positions: two copies with one id are equal.
CopiesAreGenuine ==
  /\ broker \subseteq issued
  /\ \A p, q \in issued : p.id = q.id => p = q
  /\ Logged(dir.log) \cup Logged(repo.log) \subseteq issued
  /\ PositionsOf(open) \cup PositionsOf(pending) \subseteq issued

Finite == IsFiniteSet(broker) /\ IsFiniteSet(open)

\* Nothing is dated in the future.
DatesInOrder == now <= clock /\ \A p \in issued : p.at <= clock

EntryInLoop ==
  pc \in {"submit", "fillReconcile", "fillPersist"} => k <= Len(PairSets)

\* What was checked of the order about to be sent is still true of the list.
OrderChecked ==
  pc = "submit" =>
    /\ order \in Readings
    /\ Cardinality(open) < MaxOpen
    /\ \A e \in open : e.pos.pair = order.pair => now - e.pos.at >= MinGap

LoggedOrPending ==
  pc \in {"sweepPersist", "fillPersist"} =>
    Own \subseteq PositionsOf(pending) \cup Logged(dir.log)

\* Why the cap and the spacing survive lost replies and crashes: between the
\* startup reconciliation and an order, every own position is a genuine copy in
\* the very list the collision guard and the cap are checked against.
IInv ==
  /\ TypeOK
  /\ CopiesAreGenuine
  /\ Finite
  /\ DatesInOrder
  /\ EntryInLoop
  /\ OrderChecked
  /\ LoggedOrPending
  /\ EveryOwnPositionWatched
  /\ OwnPositionsCapped
  /\ OwnPositionsSpaced

-----------------------------------------------------------------------------
(* What the code says of itself *)

\* What already_entered_this_cycle says of itself (operations.rs): a position
\* that opened and closed within the window still counts as an entry, so two
\* entries on one pair are MinGap apart whatever became of the first.
EnteredOncePerWindow ==
  \A p, q \in issued :
    p.own /\ q.own /\ p.pair = q.pair /\ p # q
      => p.at - q.at >= MinGap \/ q.at - p.at >= MinGap

=============================================================================
