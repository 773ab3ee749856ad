--------------------------- MODULE OrderAllocation ---------------------------
(***************************************************************************)
(* Production orders of one site: cycles allocate what they make to the    *)
(* first open order, scrap is deducted from it, and people edit orders     *)
(* meanwhile.  Everything runs under READ COMMITTED.  An allocation is     *)
(* part of its cycle's transaction, statement by statement: the rows it    *)
(* has written stay locked, and unseen by others, until it commits.  A     *)
(* user's operation reads in one statement and writes in a later one,      *)
(* without a transaction around them.                                      *)
(*                                                                         *)
(* Source: order/allocation.ts, order/order.ts and the deduction of        *)
(* inventory/disposition-log.ts.  Numbers, customers and notes of an order *)
(* are left out.                                                           *)
(***************************************************************************)
EXTENDS Integers, FiniteSets, Functions

CONSTANTS
  Orders, Products,
  Cycles,        \* cycle transactions that may run at once
  Users,         \* people who edit orders at once
  Scraps,        \* disposition logs that are ever recorded
  Null,
  AutoComplete,  \* the site's orderAutoComplete setting
  MaxTarget,     \* largest target quantity of a line
  MaxMade,       \* no cycle begins once this many items are allocated
  MaxSequence    \* no order is given a larger sequence

Status == {"DRAFT", "OPEN", "IN_PROGRESS", "ON_HOLD", "COMPLETED", "CANCELLED"}
LineStatus == {"PENDING", "IN_PROGRESS", "COMPLETED"}
Lines == Orders \X Products

OrderRow == [status: Status, previousStatus: Status \cup {Null},
             sequence: Nat \cup {Null}, deleted: BOOLEAN]
LineRow == [target: Nat, completed: Nat, scrap: Nat, status: LineStatus]

ASSUME OrderAssumption ==
  /\ AutoComplete \in BOOLEAN
  /\ MaxTarget \in Nat /\ MaxMade \in Nat /\ MaxSequence \in Nat
  /\ Null \notin Orders \cup Products \cup Cycles \cup Users \cup Status \cup Nat
  /\ Null \notin OrderRow /\ Null \notin LineRow

VARIABLES
  orders,  \* committed row of each order, Null before it is created
  lines,   \* committed row of each order's line for a product, or Null
  made,    \* items allocated to a line: its positive allocation rows
  taken,   \* items deducted from it: its negative allocation rows
  tx,      \* cycle transactions
  edit,    \* what each user has read and is about to write
  scraps   \* what became of the deduction of each disposition log

vars == <<orders, lines, made, taken, tx, edit, scraps>>

\* todo: products still to allocate.  order, product, open and sequence: what
\* Select returned, and after: the line's status computed from it; cleared once
\* used.  orders, lines and new: the rows written but not committed.
NoTx == [pc |-> "idle", todo |-> {}, product |-> Null, order |-> Null,
         open |-> FALSE, sequence |-> Null, after |-> Null,
         orders |-> [o \in Orders |-> Null], lines |-> [l \in Lines |-> Null],
         new |-> {}]

NoEdit == [op |-> "none", order |-> Null, product |-> Null, status |-> Null,
           to |-> Null, sequence |-> Null]

NoScrap == [pc |-> "none", line |-> Null, after |-> Null]
DoneScrap == [NoScrap EXCEPT !.pc = "done"]

Init ==
  /\ orders = [o \in Orders |-> Null]
  /\ lines = [l \in Lines |-> Null]
  /\ made = [l \in Lines |-> 0] /\ taken = [l \in Lines |-> 0]
  /\ tx = [c \in Cycles |-> NoTx]
  /\ edit = [u \in Users |-> NoEdit]
  /\ scraps = [d \in Scraps |-> NoScrap]

-----------------------------------------------------------------------------
(* Rows *)

Good(row) == row.completed - row.scrap
Fulfilled(row) == Good(row) >= row.target

\* An order that can be allocated to.
Active(row) == row # Null /\ row.status \in {"OPEN", "IN_PROGRESS"} /\ ~row.deleted

\* A transaction sees its own writes over the committed rows.
OrderOf(c, o) == IF tx[c].orders[o] # Null THEN tx[c].orders[o] ELSE orders[o]
LineOf(c, l) == IF tx[c].lines[l] # Null THEN tx[c].lines[l] ELSE lines[l]

\* Mutant: a quantity that was read without its lock is written back.
LineUnlocked(p, l) == TRUE

\* Nobody but p holds the row's lock.
OrderFree(p, o) == \A c \in Cycles \ {p} : tx[c].orders[o] = Null
LineFree(p, l) == \A c \in Cycles \ {p} : tx[c].lines[l] = Null

LinesOf(o) == {l \in Lines : l[1] = o /\ lines[l] # Null}
HasAllocations(o) == \E l \in LinesOf(o) : made[l] > 0 \/ taken[l] > 0

-----------------------------------------------------------------------------
(* allocateInventory, in the transaction of a cycle *)

\* A statement of c's transaction, with what nobody sees yet.
Statement(c, t) ==
  /\ tx' = [tx EXCEPT ![c] = t]
  /\ UNCHANGED <<orders, lines, made, taken, edit, scraps>>

\* The products still to allocate: those its cycle made when it begins, then
\* one after the other.
Todo(c) ==
  CASE tx[c].pc = "idle" -> IF SumFunction(made) < MaxMade THEN SUBSET Products \ {{}} ELSE {}
    [] tx[c].pc = "heal" -> {tx[c].todo}
    [] OTHER -> {}

\* Lines that are fulfilled by now, and orders whose lines all are.
StaleLines(c) ==
  {l \in Lines : /\ LineOf(c, l) # Null /\ LineOf(c, l).status # "COMPLETED"
                 /\ LineOf(c, l).completed > 0 /\ Fulfilled(LineOf(c, l))}
DoneOrders(c) ==
  {o \in Orders : /\ AutoComplete /\ Active(OrderOf(c, o)) /\ LinesOf(o) # {}
                  /\ \A l \in LinesOf(o) : Fulfilled(LineOf(c, l))}

\* The first two statements: such lines become COMPLETED and, if the site
\* completes by itself, so do such orders.
Heal(c) ==
  /\ \A l \in StaleLines(c) : LineFree(c, l)
  /\ \A o \in DoneOrders(c) : OrderFree(c, o)
  /\ \E todo \in Todo(c) : Statement(c, [tx[c] EXCEPT
       !.pc = "select", !.todo = todo,
       !.lines = [l \in Lines |-> IF l \in StaleLines(c)
         THEN [LineOf(c, l) EXCEPT !.status = "COMPLETED"] ELSE tx[c].lines[l]],
       !.orders = [o \in Orders |-> IF o \in DoneOrders(c)
         THEN [OrderOf(c, o) EXCEPT !.status = "COMPLETED"] ELSE tx[c].orders[o]]])

Rank(row) == IF row.sequence = Null THEN MaxSequence + 1 ELSE row.sequence

\* What the third statement may return: the active orders with a line for the
\* product, the fulfilled ones skipped if the site completes by itself.
Eligible(c, p) ==
  {o \in Orders : /\ Active(OrderOf(c, o)) /\ LineOf(c, <<o, p>>) # Null
                  /\ ~(AutoComplete /\ Fulfilled(LineOf(c, <<o, p>>)))}

\* The line's status after one more item than was seen.
StatusAfter(seen) ==
  IF seen.completed + 1 - seen.scrap >= seen.target THEN "COMPLETED" ELSE "IN_PROGRESS"

\* The step that follows, the ones without an effect left out.
NextProduct(t) == IF t.todo = {} THEN "commit" ELSE "heal"
AfterDemote(t) == IF AutoComplete THEN "complete" ELSE NextProduct(t)
AfterPromote(t) == IF t.sequence = Null THEN AfterDemote(t) ELSE "demote"

Select(c) ==
  /\ tx[c].pc = "select"
  /\ \E p \in tx[c].todo :
       LET rest == [tx[c] EXCEPT !.todo = @ \ {p}]
       IN  IF Eligible(c, p) = {}
           THEN Statement(c, [rest EXCEPT !.pc = NextProduct(rest)])
           ELSE \E o \in Eligible(c, p) :
                  /\ \A q \in Eligible(c, p) : Rank(OrderOf(c, o)) <= Rank(OrderOf(c, q))
                  /\ Statement(c, [rest EXCEPT
                       !.pc = "allocate", !.product = p, !.order = o,
                       !.open = OrderOf(c, o).status = "OPEN",
                       !.sequence = OrderOf(c, o).sequence,
                       !.after = StatusAfter(LineOf(c, <<o, p>>))])

\* The allocation row is inserted and the line's quantity incremented; a line
\* deleted meanwhile fails the foreign key, and with it the cycle.
Allocate(c) ==
  LET l == <<tx[c].order, tx[c].product>>
  IN  /\ tx[c].pc = "allocate"
      /\ LineOf(c, l) # Null /\ LineFree(c, l)
      /\ Statement(c, [tx[c] EXCEPT
           !.pc = IF tx[c].open THEN "promote" ELSE AfterPromote(tx[c]),
           !.new = tx[c].new \cup {l}, !.after = Null,
           !.lines = [tx[c].lines EXCEPT ![l] =
             [LineOf(c, l) EXCEPT !.completed = @ + 1, !.status = tx[c].after]]])

\* An order that was seen OPEN is IN_PROGRESS now, whatever it became meanwhile.
Promote(c) ==
  LET o == tx[c].order
  IN  /\ tx[c].pc = "promote" /\ OrderFree(c, o)
      /\ Statement(c, [tx[c] EXCEPT
           !.pc = AfterPromote(tx[c]), !.open = FALSE,
           !.orders = [tx[c].orders EXCEPT ![o] =
             [OrderOf(c, o) EXCEPT !.status = "IN_PROGRESS", !.previousStatus = "OPEN"]]])

\* Mutant: a later order of the product is opened whatever its status.
DemotedAny(c) ==
  {o \in Orders \ {tx[c].order} :
     LET row == OrderOf(c, o)
     IN  /\ row # Null /\ ~row.deleted
         /\ row.sequence # Null /\ tx[c].sequence # Null /\ row.sequence > tx[c].sequence
         /\ LineOf(c, <<o, tx[c].product>>) # Null}

Demoted(c) ==
  {o \in Orders \ {tx[c].order} :
     LET row == OrderOf(c, o)
     IN  /\ row # Null /\ row.status = "IN_PROGRESS" /\ ~row.deleted
         /\ row.sequence # Null /\ tx[c].sequence # Null /\ row.sequence > tx[c].sequence
         /\ LineOf(c, <<o, tx[c].product>>) # Null}

\* Later orders in progress for the product are OPEN again.
Demote(c) ==
  /\ tx[c].pc = "demote"
  /\ \A o \in Demoted(c) : OrderFree(c, o)
  /\ Statement(c, [tx[c] EXCEPT
       !.pc = AfterDemote(tx[c]), !.sequence = Null,
       !.orders = [o \in Orders |-> IF o \in Demoted(c)
         THEN [OrderOf(c, o) EXCEPT !.status = "OPEN", !.previousStatus = "IN_PROGRESS"]
         ELSE tx[c].orders[o]]])

\* The order is completed if none of its lines is short of its target.
Complete(c) ==
  LET o == tx[c].order
      completes == \A l \in LinesOf(o) : Fulfilled(LineOf(c, l))
  IN  /\ tx[c].pc = "complete"
      /\ completes => OrderFree(c, o)
      /\ Statement(c, [tx[c] EXCEPT
           !.pc = NextProduct(tx[c]), !.product = Null,
           !.orders = IF completes
             THEN [tx[c].orders EXCEPT ![o] = [OrderOf(c, o) EXCEPT !.status = "COMPLETED"]]
             ELSE tx[c].orders])

Commit(c) ==
  /\ tx[c].pc = "commit"
  /\ orders' = [o \in Orders |-> OrderOf(c, o)]
  /\ lines' = [l \in Lines |-> LineOf(c, l)]
  /\ made' = [l \in Lines |-> IF l \in tx[c].new THEN made[l] + 1 ELSE made[l]]
  /\ tx' = [tx EXCEPT ![c] = NoTx]
  /\ UNCHANGED <<taken, edit, scraps>>

\* A failed statement, a deadlock's victim or a dead process.
Abort(c) ==
  /\ tx[c].pc # "idle"
  /\ Statement(c, NoTx)

-----------------------------------------------------------------------------
(* deductScrap, started by a disposition log and awaited by nobody *)

Reduced ==
  {l \in Lines : LET row == orders[l[1]]
                 IN  /\ row # Null /\ row.status = "IN_PROGRESS" /\ ~row.deleted
                     /\ lines[l] # Null /\ lines[l].completed > 0}

\* The line's status after one more scrapped item than was seen.
ScrappedStatus(seen) ==
  IF seen.completed = 0 THEN "PENDING"
  ELSE IF seen.completed - (seen.scrap + 1) >= seen.target THEN "COMPLETED" ELSE "IN_PROGRESS"

\* The first order in progress that has made the product is looked up.
FindScrapped(d) ==
  /\ scraps[d].pc = "none"
  /\ \E p \in Products :
       LET found == {l \in Reduced : l[2] = p}
       IN  IF found = {}
           THEN scraps' = [scraps EXCEPT ![d] = DoneScrap]
           ELSE \E l \in found :
                  /\ \A k \in found : Rank(orders[l[1]]) <= Rank(orders[k[1]])
                  /\ scraps' = [scraps EXCEPT ![d] = [pc |-> "found", line |-> l,
                                                      after |-> ScrappedStatus(lines[l])]]
  /\ UNCHANGED <<orders, lines, made, taken, tx, edit>>

\* The negative allocation is inserted and the line's scrap incremented.
Deduct(d) ==
  LET l == scraps[d].line
  IN  /\ scraps[d].pc = "found"
      /\ lines[l] # Null /\ LineFree(Null, l)
      /\ lines' = [lines EXCEPT ![l] = [lines[l] EXCEPT
           !.scrap = @ + 1, !.status = scraps[d].after]]
      /\ taken' = [taken EXCEPT ![l] = @ + 1]
      /\ scraps' = [scraps EXCEPT ![d] = DoneScrap]
      /\ UNCHANGED <<orders, made, tx, edit>>

\* The deduction fails: the error is logged and nobody tries again.
LoseDeduction(d) ==
  /\ scraps[d].pc = "found"
  /\ scraps' = [scraps EXCEPT ![d] = DoneScrap]
  /\ UNCHANGED <<orders, lines, made, taken, tx, edit>>

-----------------------------------------------------------------------------
(* The operations of order.ts: a check in one step, the write in another *)

Transitions ==
  [DRAFT |-> {"OPEN", "CANCELLED"},
   OPEN |-> {"COMPLETED", "ON_HOLD", "CANCELLED"},
   IN_PROGRESS |-> {"ON_HOLD", "COMPLETED", "CANCELLED"},
   ON_HOLD |-> {"OPEN", "IN_PROGRESS", "CANCELLED"},
   COMPLETED |-> {}, CANCELLED |-> {}]

Sequences ==
  {orders[o].sequence : o \in {q \in Orders : orders[q] # Null /\ ~orders[q].deleted}} \ {Null}

\* One more than the largest sequence, or 1.
IsNextSequence(n) == (\A k \in Sequences : k < n) /\ (n = 1 \/ n - 1 \in Sequences)

Idle(u) == edit[u].op = "none"
Reads(u, read) ==
  /\ edit' = [edit EXCEPT ![u] = read]
  /\ UNCHANGED <<orders, lines, made, taken, tx, scraps>>

\* Mutant: an order that becomes OPEN is left without a place in the sequence.
Unplaced(to, sequence) == FALSE

\* An order that becomes OPEN gets the next place in the sequence if it has none.
NeedsPlace(to, sequence) == to = "OPEN" /\ sequence = Null

BeginCreate(u) ==
  /\ Idle(u)
  /\ \E o \in Orders, to \in {"DRAFT", "OPEN"} :
       /\ orders[o] = Null
       /\ Reads(u, [NoEdit EXCEPT !.op = IF NeedsPlace(to, Null) THEN "place" ELSE "create",
                                  !.order = o, !.to = to])

BeginTransition(u) ==
  /\ Idle(u)
  /\ \E o \in Orders :
       /\ orders[o] # Null /\ ~orders[o].deleted
       /\ \E to \in Transitions[orders[o].status] :
            Reads(u, [NoEdit EXCEPT
              !.op = IF NeedsPlace(to, orders[o].sequence) THEN "place" ELSE "transition",
              !.order = o, !.to = to, !.status = orders[o].status])

\* The largest sequence is read before the order is written.
Place(u) ==
  /\ edit[u].op = "place"
  /\ \E n \in 1..MaxSequence :
       /\ IsNextSequence(n)
       /\ Reads(u, [edit[u] EXCEPT !.sequence = n,
                                   !.op = IF edit[u].status = Null THEN "create" ELSE "transition"])

NewLine(target) == [target |-> target, completed |-> 0, scrap |-> 0, status |-> "PENDING"]

\* The order is inserted with its lines, unless its number is taken by now.
Create(u) ==
  LET o == edit[u].order
  IN  /\ edit[u].op = "create" /\ orders[o] = Null
      /\ orders' = [orders EXCEPT ![o] = [status |-> edit[u].to, previousStatus |-> Null,
                                          sequence |-> edit[u].sequence, deleted |-> FALSE]]
      /\ \E ps \in SUBSET Products, target \in 1..MaxTarget :
           lines' = [l \in Lines |-> IF l[1] = o /\ l[2] \in ps THEN NewLine(target) ELSE lines[l]]
      /\ edit' = [edit EXCEPT ![u] = NoEdit]
      /\ UNCHANGED <<made, taken, tx, scraps>>

\* Mutant: previousStatus is taken over only from an order in progress.
PreviousInProgress(e, previous) ==
  IF e.to = "ON_HOLD" /\ e.status = "IN_PROGRESS" THEN e.status
  ELSE IF e.status = "ON_HOLD" /\ e.to # "CANCELLED" THEN Null ELSE previous

\* previousStatus is set on the way into ON_HOLD and cleared on the way back.
PreviousAfter(e, previous) ==
  IF e.to = "ON_HOLD" THEN e.status
  ELSE IF e.status = "ON_HOLD" /\ e.to # "CANCELLED" THEN Null ELSE previous

\* The order is updated by its id, whatever it became since it was checked.
Transition(u) ==
  LET e == edit[u]
  IN  /\ e.op = "transition" /\ OrderFree(Null, e.order)
      /\ orders' = [orders EXCEPT ![e.order] = [orders[e.order] EXCEPT
           !.status = e.to, !.previousStatus = PreviousAfter(e, @),
           !.sequence = IF e.sequence # Null THEN e.sequence ELSE @]]
      /\ edit' = [edit EXCEPT ![u] = NoEdit]
      /\ UNCHANGED <<lines, made, taken, tx, scraps>>

BeginRemove(u) ==
  /\ Idle(u)
  /\ \E o \in Orders :
       /\ orders[o] # Null /\ ~orders[o].deleted
       /\ orders[o].status \in {"DRAFT", "CANCELLED"}
       /\ Reads(u, [NoEdit EXCEPT !.op = "remove", !.order = o])

Remove(u) ==
  /\ edit[u].op = "remove" /\ OrderFree(Null, edit[u].order)
  /\ orders' = [orders EXCEPT ![edit[u].order].deleted = TRUE]
  /\ edit' = [edit EXCEPT ![u] = NoEdit]
  /\ UNCHANGED <<lines, made, taken, tx, scraps>>

\* addLineItem, updateLineItem and removeLineItem: only without allocations.
BeginLine(u) ==
  /\ Idle(u)
  /\ \E l \in Lines, op \in {"add", "retarget", "drop"} :
       /\ orders[l[1]] # Null /\ ~HasAllocations(l[1])
       /\ IF op = "add" THEN lines[l] = Null /\ ~orders[l[1]].deleted ELSE lines[l] # Null
       /\ Reads(u, [NoEdit EXCEPT !.op = op, !.order = l[1], !.product = l[2]])

\* A deleted line takes its allocation rows along.
WriteLine(u) ==
  LET l == <<edit[u].order, edit[u].product>>
      op == edit[u].op
  IN  /\ op \in {"add", "retarget", "drop"}
      /\ (op = "add") = (lines[l] = Null)
      /\ LineFree(Null, l)
      /\ \E target \in 1..MaxTarget :
           lines' = [lines EXCEPT ![l] =
             CASE op = "add" -> NewLine(target)
               [] op = "retarget" -> [lines[l] EXCEPT !.target = target]
               [] op = "drop" -> Null]
      /\ made' = [made EXCEPT ![l] = IF op = "drop" THEN 0 ELSE @]
      /\ taken' = [taken EXCEPT ![l] = IF op = "drop" THEN 0 ELSE @]
      /\ edit' = [edit EXCEPT ![u] = NoEdit]
      /\ UNCHANGED <<orders, tx, scraps>>

\* The request fails on a constraint or is cut off.
GiveUp(u) ==
  /\ ~Idle(u)
  /\ Reads(u, NoEdit)

\* reorder: the listed orders are numbered from 1 on, whatever their status.
Reorder(u) ==
  /\ Idle(u)
  /\ \E listed \in SUBSET {o \in Orders : orders[o] # Null} :
       /\ listed # {} /\ Cardinality(listed) <= MaxSequence
       /\ \A o \in listed : OrderFree(Null, o)
       /\ \E place \in Bijection(listed, 1..Cardinality(listed)) :
            orders' = [o \in Orders |-> IF o \in listed
              THEN [orders[o] EXCEPT !.sequence = place[o]] ELSE orders[o]]
  /\ UNCHANGED <<lines, made, taken, tx, edit, scraps>>

-----------------------------------------------------------------------------

Next ==
  \/ \E c \in Cycles :
       \/ Heal(c) \/ Select(c) \/ Allocate(c) \/ Promote(c)
       \/ Demote(c) \/ Complete(c) \/ Commit(c) \/ Abort(c)
  \/ \E d \in Scraps : FindScrapped(d) \/ Deduct(d) \/ LoseDeduction(d)
  \/ \E u \in Users :
       \/ BeginCreate(u) \/ BeginTransition(u) \/ Place(u) \/ Create(u) \/ Transition(u)
       \/ BeginRemove(u) \/ Remove(u) \/ BeginLine(u) \/ WriteLine(u) \/ GiveUp(u)
       \/ Reorder(u)

Spec == Init /\ [][Next]_vars

-----------------------------------------------------------------------------
(* Properties *)

\* Rows, transactions and what users have read stay in their types.
TypeOK ==
  /\ orders \in [Orders -> OrderRow \cup {Null}]
  /\ lines \in [Lines -> LineRow \cup {Null}]
  /\ made \in [Lines -> Nat] /\ taken \in [Lines -> Nat]
  /\ tx \in [Cycles ->
       [pc: {"idle", "heal", "select", "allocate", "promote", "demote", "complete", "commit"},
        todo: SUBSET Products, product: Products \cup {Null}, order: Orders \cup {Null},
        open: BOOLEAN, sequence: Nat \cup {Null}, after: LineStatus \cup {Null},
        orders: [Orders -> OrderRow \cup {Null}], lines: [Lines -> LineRow \cup {Null}],
        new: SUBSET Lines]]
  /\ edit \in [Users ->
       [op: {"none", "place", "create", "transition", "remove", "add", "retarget", "drop"},
        order: Orders \cup {Null}, product: Products \cup {Null},
        status: Status \cup {Null}, to: Status \cup {Null}, sequence: Nat \cup {Null}]]
  /\ scraps \in [Scraps -> [pc: {"none", "found", "done"}, line: Lines \cup {Null},
                            after: LineStatus \cup {Null}]]

\* Allocations, deductions and edits race, some roll back, and a line's
\* quantities are still the sums of its allocation rows.
QuantitiesAddUp ==
  \A l \in Lines : lines[l] # Null => lines[l].completed = made[l] /\ lines[l].scrap = taken[l]

\* An order that was ever opened keeps a place in the sequence, so the
\* allocator's NULLS LAST never hides a live order behind the others.
OpenedOrdersSequenced ==
  \A o \in Orders : orders[o] # Null /\ orders[o].status \notin {"DRAFT", "CANCELLED"}
                      => orders[o].sequence # Null

\* Whatever an allocation or another user did meanwhile, an order on hold
\* remembers a status that it can resume.
HeldOrdersRememberStatus ==
  \A o \in Orders : orders[o] # Null /\ orders[o].status = "ON_HOLD"
                      => orders[o].previousStatus \in Transitions["ON_HOLD"] \ {"CANCELLED"}

Terminal(o) == orders[o] # Null /\ orders[o].status \in {"COMPLETED", "CANCELLED"}

\* Somebody looked at the order's status, and may still write on the strength of it.
InHand(o) ==
  \/ \E c \in Cycles : tx[c].order = o \/ \E l \in tx[c].new : l[1] = o
  \/ \E u \in Users : edit[u].order = o /\ edit[u].op \in {"place", "transition"}

\* A completed or cancelled order is final once nobody holds an earlier read
\* of it: no allocation, demotion or transition that starts later reopens it.
SettledOrdersStay == [][\A o \in Orders : Terminal(o) /\ ~InHand(o) => Terminal(o)']_vars

\* One cycle allocates, or one user has read what is still to be written;
\* deductions and reorders, which are one write each, may come in between.
OneWriter ==
  /\ \A c, d \in Cycles : tx[c].pc # "idle" /\ tx[d].pc # "idle" => c = d
  /\ \A u, v \in Users : ~Idle(u) /\ ~Idle(v) => u = v
  /\ \A c \in Cycles, u \in Users : tx[c].pc = "idle" \/ Idle(u)

\* Deductions take turns too: one is written before anything else begins.
OneActor ==
  /\ OneWriter
  /\ \A d \in Scraps : scraps[d].pc = "found" =>
       /\ (\A c \in Cycles : tx[c].pc = "idle") /\ (\A u \in Users : Idle(u))
       /\ \A e \in Scraps : scraps[e].pc = "found" => e = d

-----------------------------------------------------------------------------
(* What the code does not guarantee: TLC refutes each of these.  The first,  *)
(* the second and NeverOverAllocated do hold when cycles and edits take      *)
(* turns, LineStatusAgrees when deductions do as well: OrderAllocationProofs  *)
(* has the theorems.                                                         *)

\* COMPLETED and CANCELLED have no way out.
TerminalOrdersStay == [][\A o \in Orders : Terminal(o) => Terminal(o)']_vars

\* Line items of an order with allocations cannot be modified.
AllocatedLinesStay == [][\A l \in Lines : made[l] > 0 => lines'[l] # Null]_vars

\* No two live orders share a place in the sequence.
SequencesDistinct ==
  \A o, q \in Orders : Active(orders[o]) /\ Active(orders[q]) /\ o # q
                         => orders[o].sequence # orders[q].sequence

\* A site that completes by itself never allocates more than the target.
NeverOverAllocated ==
  \A l \in Lines : AutoComplete /\ lines[l] # Null => Good(lines[l]) <= lines[l].target

\* A line's status agrees with its quantities.
LineStatusAgrees ==
  \A l \in Lines : lines[l] # Null /\ lines[l].status = "COMPLETED" => Fulfilled(lines[l])

=============================================================================
