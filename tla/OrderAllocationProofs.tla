------------------------ MODULE OrderAllocationProofs ------------------------
(* Theorems about OrderAllocation, for any orders, products, cycles, users  *)
(* and bounds.                                                              *)
EXTENDS OrderAllocation, TLAPS

\* The fields of a cycle's transaction, of an edit and of a deduction.
TxType ==
  [pc: {"idle", "heal", "select", "allocate", "promote", "demote", "complete", "commit"},
   todo: SUBSET Products, product: Products \cup {Null}, order: Orders \cup {Null},
   open: BOOLEAN, sequence: Nat \cup {Null}, after: LineStatus \cup {Null},
   orders: [Orders -> OrderRow \cup {Null}], lines: [Lines -> LineRow \cup {Null}],
   new: SUBSET Lines]
EditType ==
  [op: {"none", "place", "create", "transition", "remove", "add", "retarget", "drop"},
   order: Orders \cup {Null}, product: Products \cup {Null},
   status: Status \cup {Null}, to: Status \cup {Null}, sequence: Nat \cup {Null}]
ScrapType ==
  [pc: {"none", "found", "done"}, line: Lines \cup {Null}, after: LineStatus \cup {Null}]

\* What a transaction has written of a line is one item ahead of what is
\* committed if it has allocated to it, and it allocates to a product once.
LinesWritten(t) ==
  /\ \A l \in Lines : t.lines[l] # Null =>
       /\ lines[l] # Null
       /\ t.lines[l].completed = made[l] + (IF l \in t.new THEN 1 ELSE 0)
       /\ t.lines[l].scrap = taken[l]
  /\ \A l \in t.new : t.lines[l] # Null /\ l[2] \notin t.todo
  /\ t.pc = "idle" => t.new = {}

\* The orders it has written keep their place, and are live or completed; one
\* that comes back to life was live before, or has an item of the transaction.
OrdersWritten(t) ==
  \A o \in Orders : t.orders[o] # Null =>
    /\ orders[o] # Null
    /\ orders[o].sequence # Null /\ t.orders[o].sequence = orders[o].sequence
    /\ t.orders[o].status \in {"OPEN", "IN_PROGRESS", "COMPLETED"}
    /\ t.orders[o].status # "COMPLETED" => ~Terminal(o) \/ \E l \in t.new : l[1] = o

\* What Select returned is an order with a place, and a product that is next.
PlanSound(t) ==
  /\ t.order # Null => orders[t.order] # Null /\ orders[t.order].sequence # Null
  /\ t.pc = "allocate" =>
       /\ t.order \in Orders /\ t.product \in Products /\ t.after \in LineStatus
       /\ t.product \notin t.todo
       /\ \A l \in t.new : l[2] # t.product
  /\ t.pc = "promote" => t.order \in Orders /\ \E l \in t.new : l[1] = t.order

\* Two transactions never write one row.
Exclusive ==
  \A c, d \in Cycles : c # d =>
    /\ \A l \in Lines : tx[c].lines[l] = Null \/ tx[d].lines[l] = Null
    /\ \A o \in Orders : tx[c].orders[o] = Null \/ tx[d].orders[o] = Null

TxSound ==
  \A c \in Cycles : LinesWritten(tx[c]) /\ OrdersWritten(tx[c]) /\ PlanSound(tx[c])

\* A line belongs to an order, and without a line there are no allocations.
Homes ==
  \A l \in Lines :
    /\ lines[l] # Null => orders[l[1]] # Null
    /\ lines[l] = Null => made[l] = 0 /\ taken[l] = 0

\* What a user is about to write fits the order, however it moved since.
EditSound(e) ==
  /\ e.op # "none" => e.order \in Orders
  /\ e.op \in {"transition", "remove", "add", "retarget", "drop"} => orders[e.order] # Null
  /\ e.op \in {"add", "retarget", "drop"} => e.product \in Products
  /\ e.op = "place" => e.to = "OPEN" /\ (e.status # Null => orders[e.order] # Null)
  /\ e.op = "create" => e.to \in {"DRAFT", "OPEN"} /\ (e.to = "OPEN" => e.sequence # Null)
  /\ e.op = "transition" =>
       /\ e.to \in Status
       /\ e.to \notin {"DRAFT", "CANCELLED"} => e.sequence # Null \/ orders[e.order].sequence # Null
       /\ e.to = "ON_HOLD" => e.status \in {"OPEN", "IN_PROGRESS"}

EditsSound == \A u \in Users : EditSound(edit[u])

\* A deduction that found a line knows which.
ScrapsSound ==
  \A d \in Scraps : scraps[d].pc = "found" => scraps[d].line \in Lines /\ scraps[d].after \in LineStatus

Data ==
  /\ orders \in [Orders -> OrderRow \cup {Null}]
  /\ lines \in [Lines -> LineRow \cup {Null}]
  /\ made \in [Lines -> Nat] /\ taken \in [Lines -> Nat]

Inductive ==
  /\ Data /\ tx \in [Cycles -> TxType] /\ edit \in [Users -> EditType] /\ scraps \in [Scraps -> ScrapType]
  /\ Homes /\ QuantitiesAddUp /\ OpenedOrdersSequenced /\ HeldOrdersRememberStatus
  /\ Exclusive /\ TxSound /\ EditsSound /\ ScrapsSound

-----------------------------------------------------------------------------
(* Rows *)

\* A line is an order and a product, and null is neither kind of row.
LEMMA LinePair ==
  /\ \A l \in Lines : l[1] \in Orders /\ l[2] \in Products /\ l = <<l[1], l[2]>>
  /\ \A o \in Orders, p \in Products : <<o, p>> \in Lines /\ <<o, p>>[1] = o /\ <<o, p>>[2] = p
BY DEF Lines

\* The type invariant in the words of this module.
LEMMA Types ==
  TypeOK <=> /\ Data /\ tx \in [Cycles -> TxType] /\ edit \in [Users -> EditType]
             /\ scraps \in [Scraps -> ScrapType]
BY DEF TypeOK, Data, TxType, EditType, ScrapType

\* What a transaction sees of a row is a row.
LEMMA Seen ==
  ASSUME Inductive, NEW c \in Cycles
  PROVE  /\ tx[c] \in TxType
         /\ \A o \in Orders : OrderOf(c, o) \in OrderRow \cup {Null} /\ (OrderOf(c, o) = Null <=> orders[o] = Null)
         /\ \A l \in Lines : LineOf(c, l) \in LineRow \cup {Null} /\ (LineOf(c, l) = Null <=> lines[l] = Null)
<1>1. tx[c] \in TxType
  BY DEF Inductive
<1>2. \A o \in Orders : tx[c].orders[o] \in OrderRow \cup {Null} /\ orders[o] \in OrderRow \cup {Null}
  BY <1>1 DEF Inductive, Data, TxType
<1>3. \A l \in Lines : tx[c].lines[l] \in LineRow \cup {Null} /\ lines[l] \in LineRow \cup {Null}
  BY <1>1 DEF Inductive, Data, TxType
<1> QED
  BY <1>1, <1>2, <1>3 DEF Inductive, TxSound, LinesWritten, OrdersWritten, OrderOf, LineOf

\* An order that a transaction sees keeps its committed place; one that has
\* been opened has one, and one on hold is as it was committed.
LEMMA SeenOrder ==
  ASSUME Inductive, NEW c \in Cycles, NEW o \in Orders, orders[o] # Null
  PROVE  /\ OrderOf(c, o).sequence = orders[o].sequence
         /\ OrderOf(c, o).status \notin {"DRAFT", "CANCELLED"} => orders[o].sequence # Null
         /\ OrderOf(c, o).status \in {"OPEN", "IN_PROGRESS"}
              => ~Terminal(o) \/ \E l \in tx[c].new : l[1] = o
BY DEF Inductive, TxSound, OrdersWritten, OrderOf, OpenedOrdersSequenced, Terminal

\* A line that a transaction sees adds up with what the transaction allocated.
LEMMA SeenLine ==
  ASSUME Inductive, NEW c \in Cycles, NEW l \in Lines, lines[l] # Null
  PROVE  /\ LineOf(c, l).completed = made[l] + (IF l \in tx[c].new THEN 1 ELSE 0)
         /\ LineOf(c, l).scrap = taken[l]
<1>1. CASE tx[c].lines[l] # Null
  BY <1>1 DEF Inductive, TxSound, LinesWritten, LineOf
<1>2. CASE tx[c].lines[l] = Null
  <2>1. l \notin tx[c].new
    BY <1>2 DEF Inductive, TxSound, LinesWritten
  <2>2. made[l] \in Nat
    BY DEF Inductive, Data
  <2> QED
    BY <1>2, <2>1, <2>2 DEF Inductive, QuantitiesAddUp, LineOf
<1> QED
  BY <1>1, <1>2

\* A step of one transaction that writes nothing committed keeps the invariant
\* if what it has written and planned is sound, and no one else has written it.
LEMMA TxStep ==
  ASSUME Inductive, NEW c \in Cycles, NEW t \in TxType,
         Statement(c, t),
         LinesWritten(t), OrdersWritten(t), PlanSound(t),
         \A l \in Lines : t.lines[l] # Null => tx[c].lines[l] # Null \/ LineFree(c, l),
         \A o \in Orders : t.orders[o] # Null => tx[c].orders[o] # Null \/ OrderFree(c, o)
  PROVE  Inductive'
<1> USE DEF Statement
<1>1. tx' \in [Cycles -> TxType] /\ tx'[c] = t /\ \A d \in Cycles : d # c => tx'[d] = tx[d]
  BY DEF Inductive
<1>2. Exclusive'
  BY <1>1 DEF Inductive, Exclusive, LineFree, OrderFree
<1>3. TxSound'
  <2>1. \A d \in Cycles : LinesWritten(tx'[d]) /\ OrdersWritten(tx'[d]) /\ PlanSound(tx'[d])
    BY <1>1 DEF Inductive, TxSound
  <2> QED
    BY <2>1 DEF TxSound, LinesWritten, OrdersWritten, PlanSound, Terminal
<1>4. /\ Data' /\ edit' \in [Users -> EditType] /\ scraps' \in [Scraps -> ScrapType]
      /\ Homes' /\ QuantitiesAddUp' /\ OpenedOrdersSequenced' /\ HeldOrdersRememberStatus'
  BY DEF Inductive, Data, Homes, QuantitiesAddUp, OpenedOrdersSequenced, HeldOrdersRememberStatus
<1>5. EditsSound' /\ ScrapsSound'
  BY DEF Inductive, EditsSound, EditSound, ScrapsSound
<1> QED
  BY <1>1, <1>2, <1>3, <1>4, <1>5 DEF Inductive

-----------------------------------------------------------------------------
(* allocateInventory *)

\* What allocates is what a line's status may become.
LEMMA StatusTypes ==
  ASSUME NEW seen \in LineRow
  PROVE  StatusAfter(seen) \in LineStatus /\ ScrappedStatus(seen) \in LineStatus
BY DEF StatusAfter, ScrappedStatus, LineStatus

\* Healing completes lines and live orders, and forgets nothing allocated.
LEMMA HealStep ==
  ASSUME Inductive, NEW c \in Cycles, Heal(c)
  PROVE  Inductive'
<1> DEFINE stale == StaleLines(c)
           done == DoneOrders(c)
           newLines == [l \in Lines |-> IF l \in stale
             THEN [LineOf(c, l) EXCEPT !.status = "COMPLETED"] ELSE tx[c].lines[l]]
           newOrders == [o \in Orders |-> IF o \in done
             THEN [OrderOf(c, o) EXCEPT !.status = "COMPLETED"] ELSE tx[c].orders[o]]
           T(todo) == [tx[c] EXCEPT !.pc = "select", !.todo = todo, !.lines = newLines, !.orders = newOrders]
<1>1. PICK todo \in Todo(c) : Statement(c, T(todo))
  BY DEF Heal
<1>2. /\ \A l \in stale : LineFree(c, l)
      /\ \A o \in done : OrderFree(c, o)
      /\ stale \subseteq Lines /\ done \subseteq Orders
  BY DEF Heal, StaleLines, DoneOrders
<1> DEFINE t == T(todo)
<1>3. tx[c] \in TxType
  BY Seen
<1>4. todo \in SUBSET Products /\ (todo = tx[c].todo \/ tx[c].new = {})
  <2>1. CASE tx[c].pc = "idle"
    BY <1>1, <2>1 DEF Todo, Inductive, TxSound, LinesWritten
  <2>2. CASE tx[c].pc = "heal"
    BY <1>1, <1>3, <2>2 DEF Todo, TxType
  <2>3. CASE tx[c].pc \notin {"idle", "heal"}
    BY <1>1, <2>3 DEF Todo
  <2> QED
    BY <2>1, <2>2, <2>3
<1>5. /\ newLines \in [Lines -> LineRow \cup {Null}]
      /\ \A l \in stale : lines[l] # Null /\ LineOf(c, l) \in LineRow
  BY <1>3, Seen DEF StaleLines, TxType, LineRow, LineStatus
<1>6. /\ newOrders \in [Orders -> OrderRow \cup {Null}]
      /\ \A o \in done : orders[o] # Null /\ OrderOf(c, o) \in OrderRow
                         /\ OrderOf(c, o).status \in {"OPEN", "IN_PROGRESS"}
  <2>1. \A o \in done : orders[o] # Null /\ OrderOf(c, o) \in OrderRow
                         /\ OrderOf(c, o).status \in {"OPEN", "IN_PROGRESS"}
    BY Seen DEF Active, DoneOrders
  <2> QED
    BY <1>3, <2>1 DEF TxType, OrderRow, Status
<1>7. /\ t \in TxType /\ t.pc = "select" /\ t.todo = todo /\ t.lines = newLines /\ t.orders = newOrders
      /\ t.new = tx[c].new /\ t.order = tx[c].order
  BY <1>3, <1>4, <1>5, <1>6 DEF TxType
<1> HIDE DEF t
<1>8. LinesWritten(t)
  <2>1. ASSUME NEW l \in stale
        PROVE  newLines[l] # Null /\ newLines[l].completed = LineOf(c, l).completed
               /\ newLines[l].scrap = LineOf(c, l).scrap
    <3>1. l \in Lines /\ LineOf(c, l) \in LineRow
      BY <1>2, <1>5
    <3>2. newLines[l] = [LineOf(c, l) EXCEPT !.status = "COMPLETED"]
      BY <3>1
    <3>3. newLines[l] \in LineRow
      BY <3>1, <3>2 DEF LineRow, LineStatus
    <3> QED
      BY <3>1, <3>2, <3>3, OrderAssumption DEF LineRow
  <2>2. \A l \in Lines : l \notin stale => newLines[l] = tx[c].lines[l]
    OBVIOUS
  <2>3. \A l \in stale : lines[l] # Null
    BY <1>5
  <2>4. LinesWritten(tx[c])
    BY DEF Inductive, TxSound
  <2> HIDE DEF newLines, stale
  <2>5. ASSUME NEW l \in Lines, t.lines[l] # Null
        PROVE  /\ lines[l] # Null
               /\ t.lines[l].completed = made[l] + (IF l \in t.new THEN 1 ELSE 0)
               /\ t.lines[l].scrap = taken[l]
    <3>1. CASE l \in stale
      BY <1>7, <2>1, <2>3, <3>1, SeenLine
    <3>2. CASE l \notin stale
      BY <1>7, <2>2, <2>4, <2>5, <3>2 DEF LinesWritten
    <3> QED
      BY <3>1, <3>2
  <2>6. \A l \in t.new : t.lines[l] # Null /\ l[2] \notin t.todo
    <3>1. t.new \subseteq Lines /\ t.new = tx[c].new /\ t.todo \subseteq tx[c].todo \cup Products
      BY <1>3, <1>4, <1>7 DEF TxType
    <3>2. \A l \in t.new : tx[c].lines[l] # Null /\ l[2] \notin t.todo
      BY <1>4, <1>7, <2>4 DEF LinesWritten
    <3>3. \A l \in t.new : newLines[l] # Null
      BY <2>1, <2>2, <3>1, <3>2
    <3> QED
      BY <1>7, <3>2, <3>3
  <2> QED
    BY <1>7, <2>5, <2>6 DEF LinesWritten
<1>9. OrdersWritten(t)
  <2>1. \A o \in done : newOrders[o].sequence = OrderOf(c, o).sequence /\ newOrders[o].status = "COMPLETED"
    BY <1>2, <1>6 DEF OrderRow
  <2>2. \A o \in Orders : o \notin done => newOrders[o] = tx[c].orders[o]
    OBVIOUS
  <2>3. OrdersWritten(tx[c])
    BY DEF Inductive, TxSound
  <2> HIDE DEF newOrders, done
  <2> QED
    BY <1>6, <1>7, <2>1, <2>2, <2>3, SeenOrder DEF OrdersWritten
<1>10. PlanSound(t)
  BY <1>7 DEF Inductive, TxSound, PlanSound
<1>11. /\ \A l \in Lines : t.lines[l] # Null => tx[c].lines[l] # Null \/ LineFree(c, l)
       /\ \A o \in Orders : t.orders[o] # Null => tx[c].orders[o] # Null \/ OrderFree(c, o)
  BY <1>2, <1>7
<1>12. Statement(c, t)
  BY <1>1 DEF t
<1> HIDE DEF newLines, newOrders, stale, done
<1> QED
  BY <1>2, <1>7, <1>8, <1>9, <1>10, <1>11, <1>12, TxStep

\* The steps that follow one another are steps.
LEMMA NextSteps ==
  ASSUME NEW t
  PROVE  /\ NextProduct(t) \in {"commit", "heal"}
         /\ AfterDemote(t) \in {"complete", "commit", "heal"}
         /\ AfterPromote(t) \in {"demote", "complete", "commit", "heal"}
BY DEF NextProduct, AfterDemote, AfterPromote

\* Selecting an order writes nothing, and plans a product that is new to it.
LEMMA SelectStep ==
  ASSUME Inductive, NEW c \in Cycles, Select(c)
  PROVE  Inductive'
<1>1. PICK p \in tx[c].todo :
        LET rest == [tx[c] EXCEPT !.todo = @ \ {p}]
        IN  IF Eligible(c, p) = {}
            THEN Statement(c, [rest EXCEPT !.pc = NextProduct(rest)])
            ELSE \E o \in Eligible(c, p) :
                   /\ \A q \in Eligible(c, p) : Rank(OrderOf(c, o)) <= Rank(OrderOf(c, q))
                   /\ Statement(c, [rest EXCEPT
                        !.pc = "allocate", !.product = p, !.order = o,
                        !.open = OrderOf(c, o).status = "OPEN",
                        !.sequence = OrderOf(c, o).sequence,
                        !.after = StatusAfter(LineOf(c, <<o, p>>))])
  BY DEF Select
<1>2. tx[c] \in TxType /\ p \in Products /\ tx[c].pc = "select"
  BY Seen DEF Select, TxType
<1>3. LinesWritten(tx[c]) /\ OrdersWritten(tx[c]) /\ PlanSound(tx[c])
  BY DEF Inductive, TxSound
<1> DEFINE rest == [tx[c] EXCEPT !.todo = tx[c].todo \ {p}]
<1>4. /\ rest \in TxType /\ rest.todo = tx[c].todo \ {p} /\ rest.new = tx[c].new
      /\ rest.lines = tx[c].lines /\ rest.orders = tx[c].orders /\ rest.order = tx[c].order
      /\ rest.pc = "select"
  BY <1>2 DEF TxType
<1> HIDE DEF rest
<1>5. CASE Eligible(c, p) = {}
  <2> DEFINE t == [rest EXCEPT !.pc = NextProduct(rest)]
  <2>1. Statement(c, t)
    BY <1>1, <1>5 DEF rest
  <2>2. /\ t \in TxType /\ t.pc \in {"commit", "heal"} /\ t.todo = rest.todo /\ t.new = rest.new
        /\ t.lines = rest.lines /\ t.orders = rest.orders /\ t.order = rest.order
    BY <1>4, NextSteps DEF TxType
  <2> HIDE DEF t
  <2>3. LinesWritten(t) /\ OrdersWritten(t) /\ PlanSound(t)
    BY <1>3, <1>4, <2>2 DEF LinesWritten, OrdersWritten, PlanSound
  <2> QED
    BY <1>4, <2>1, <2>2, <2>3, TxStep
<1>6. CASE Eligible(c, p) # {}
  <2>1. PICK o \in Eligible(c, p) : Statement(c, [rest EXCEPT
                        !.pc = "allocate", !.product = p, !.order = o,
                        !.open = OrderOf(c, o).status = "OPEN",
                        !.sequence = OrderOf(c, o).sequence,
                        !.after = StatusAfter(LineOf(c, <<o, p>>))])
    BY <1>1, <1>6 DEF rest
  <2> DEFINE open == OrderOf(c, o).status = "OPEN"
             seq == OrderOf(c, o).sequence
             after == StatusAfter(LineOf(c, <<o, p>>))
             t == [rest EXCEPT !.pc = "allocate", !.product = p, !.order = o,
                               !.open = open, !.sequence = seq, !.after = after]
  <2>2. /\ o \in Orders /\ orders[o] # Null /\ orders[o].sequence # Null
        /\ OrderOf(c, o) \in OrderRow /\ LineOf(c, <<o, p>>) \in LineRow
    BY <1>2, <2>1, Seen, SeenOrder, LinePair DEF Eligible, Active
  <2>3. open \in BOOLEAN /\ seq \in Nat \cup {Null} /\ after \in LineStatus
    BY <2>2, StatusTypes DEF OrderRow
  <2>4. Statement(c, t)
    BY <2>1
  <2> HIDE DEF open, seq, after
  <2>5. /\ t \in TxType /\ t.pc = "allocate" /\ t.todo = rest.todo /\ t.new = rest.new
        /\ t.lines = rest.lines /\ t.orders = rest.orders
        /\ t.order = o /\ t.product = p /\ t.after = after
    BY <1>2, <1>4, <2>2, <2>3 DEF TxType
  <2> HIDE DEF t
  <2>6. LinesWritten(t) /\ OrdersWritten(t)
    BY <1>3, <1>4, <2>5 DEF LinesWritten, OrdersWritten
  <2>7. PlanSound(t)
    <3>1. \A l \in t.new : l[2] # p
      BY <1>3, <1>4, <2>5 DEF LinesWritten
    <3> QED
      BY <1>2, <1>4, <2>2, <2>3, <2>5, <3>1, OrderAssumption DEF PlanSound
  <2> QED
    BY <1>4, <2>4, <2>5, <2>6, <2>7, TxStep
<1> QED
  BY <1>5, <1>6

\* A line that counts differently is still a line.
LEMMA RowMoves ==
  ASSUME NEW seen \in LineRow, NEW n \in Nat, NEW status \in LineStatus
  PROVE  /\ [seen EXCEPT !.completed = n, !.status = status] \in LineRow
         /\ [seen EXCEPT !.completed = n, !.status = status].completed = n
         /\ [seen EXCEPT !.completed = n, !.status = status].scrap = seen.scrap
BY DEF LineRow

\* An allocation is one item, and one more of what is made once committed.
LEMMA AllocateStep ==
  ASSUME Inductive, NEW c \in Cycles, Allocate(c)
  PROVE  Inductive'
<1> DEFINE l == <<tx[c].order, tx[c].product>>
           row == [LineOf(c, l) EXCEPT !.completed = LineOf(c, l).completed + 1, !.status = tx[c].after]
           newLines == [tx[c].lines EXCEPT ![l] = row]
           pc == IF tx[c].open THEN "promote" ELSE AfterPromote(tx[c])
           t == [tx[c] EXCEPT !.pc = pc, !.new = tx[c].new \cup {l}, !.after = Null, !.lines = newLines]
<1>1. LinesWritten(tx[c]) /\ OrdersWritten(tx[c]) /\ PlanSound(tx[c]) /\ tx[c] \in TxType
  BY Seen DEF Inductive, TxSound
<1>2. /\ l \in Lines /\ l[1] = tx[c].order /\ l[2] = tx[c].product /\ l \notin tx[c].new
      /\ l[2] \notin tx[c].todo /\ tx[c].after \in LineStatus
  BY <1>1, LinePair DEF Allocate, PlanSound
<1>3. LineOf(c, l) \in LineRow /\ lines[l] # Null /\ LineFree(c, l)
  BY <1>2, Seen DEF Allocate
<1>4. row \in LineRow /\ row.completed = LineOf(c, l).completed + 1 /\ row.scrap = LineOf(c, l).scrap
  <2> DEFINE seen == LineOf(c, l)
             n == LineOf(c, l).completed + 1
  <2>1. seen \in LineRow /\ n \in Nat /\ tx[c].after \in LineStatus
    BY <1>2, <1>3 DEF LineRow
  <2>2. row = [seen EXCEPT !.completed = n, !.status = tx[c].after]
    OBVIOUS
  <2> HIDE DEF l, seen, n, row
  <2>3. row \in LineRow /\ row.completed = n /\ row.scrap = seen.scrap
    BY <2>1, <2>2 DEF LineRow
  <2> QED
    BY <2>3 DEF seen, n
<1> HIDE DEF row
<1>5. /\ newLines \in [Lines -> LineRow \cup {Null}] /\ newLines[l] = row
      /\ \A k \in Lines : k # l => newLines[k] = tx[c].lines[k]
  BY <1>1, <1>2, <1>4 DEF TxType
<1>6. Statement(c, t)
  BY DEF Allocate, row, newLines
<1>7. pc \in {"promote", "demote", "complete", "commit", "heal"}
  BY NextSteps
<1> HIDE DEF newLines, pc
<1>8. /\ t \in TxType /\ t.pc = pc /\ t.lines = newLines /\ t.orders = tx[c].orders
      /\ t.new = tx[c].new \cup {l} /\ t.todo = tx[c].todo /\ t.order = tx[c].order
  BY <1>1, <1>2, <1>5, <1>7 DEF TxType
<1> HIDE DEF t, l
<1>9. LinesWritten(t)
  <2>1. row.completed = made[l] + 1 /\ row.scrap = taken[l]
    <3>1. LineOf(c, l).completed = made[l] + 0 /\ LineOf(c, l).scrap = taken[l] /\ made[l] \in Nat
      BY <1>2, <1>3, SeenLine DEF Inductive, Data
    <3> QED
      BY <1>4, <3>1
  <2>2. \A k \in Lines : t.lines[k] = IF k = l THEN row ELSE tx[c].lines[k]
    BY <1>5, <1>8
  <2>3. \A k \in Lines : k \in t.new <=> k = l \/ k \in tx[c].new
    BY <1>2, <1>8
  <2>4. \A k \in t.new : t.lines[k] # Null /\ k[2] \notin t.todo
    BY <1>1, <1>2, <1>4, <1>8, <2>2, OrderAssumption DEF LinesWritten, TxType
  <2>5. ASSUME NEW k \in Lines, t.lines[k] # Null
        PROVE  /\ lines[k] # Null
               /\ t.lines[k].completed = made[k] + (IF k \in t.new THEN 1 ELSE 0)
               /\ t.lines[k].scrap = taken[k]
    BY <1>1, <1>3, <2>1, <2>2, <2>3, <2>5 DEF LinesWritten
  <2> QED
    BY <1>7, <1>8, <2>4, <2>5 DEF LinesWritten
<1>10. OrdersWritten(t) /\ PlanSound(t)
  BY <1>1, <1>2, <1>7, <1>8 DEF OrdersWritten, PlanSound, Allocate
<1>11. \A k \in Lines : t.lines[k] # Null => tx[c].lines[k] # Null \/ LineFree(c, k)
  BY <1>3, <1>5, <1>8
<1> QED
  BY <1>6, <1>8, <1>9, <1>10, <1>11, TxStep

\* An order that a transaction writes is one that it has read with a place.
LEMMA OrderStep ==
  ASSUME Inductive, NEW c \in Cycles, NEW t \in TxType, Statement(c, t),
         t.lines = tx[c].lines, t.new = tx[c].new, t.todo = tx[c].todo, t.order = tx[c].order,
         t.pc \notin {"idle", "allocate", "promote"},
         \A o \in Orders :
           \/ t.orders[o] = tx[c].orders[o]
           \/ /\ OrderFree(c, o) /\ orders[o] # Null /\ orders[o].sequence # Null
              /\ t.orders[o].sequence = OrderOf(c, o).sequence
              /\ t.orders[o].status \in {"OPEN", "IN_PROGRESS", "COMPLETED"}
              /\ t.orders[o].status # "COMPLETED" => ~Terminal(o) \/ \E l \in tx[c].new : l[1] = o
  PROVE  Inductive'
<1>1. LinesWritten(tx[c]) /\ OrdersWritten(tx[c]) /\ PlanSound(tx[c])
  BY DEF Inductive, TxSound
<1>2. LinesWritten(t) /\ PlanSound(t)
  BY <1>1 DEF LinesWritten, PlanSound
<1>3. OrdersWritten(t)
  BY <1>1, SeenOrder DEF OrdersWritten
<1> QED
  BY <1>2, <1>3, TxStep

\* The order in hand goes into progress although it may have been settled
\* meanwhile: the transaction has an item for it.
LEMMA PromoteStep ==
  ASSUME Inductive, NEW c \in Cycles, Promote(c)
  PROVE  Inductive'
<1> DEFINE o == tx[c].order
           row == [OrderOf(c, o) EXCEPT !.status = "IN_PROGRESS", !.previousStatus = "OPEN"]
           newOrders == [tx[c].orders EXCEPT ![o] = row]
           pc == AfterPromote(tx[c])
           t == [tx[c] EXCEPT !.pc = pc, !.open = FALSE, !.orders = newOrders]
<1>1. tx[c] \in TxType /\ PlanSound(tx[c]) /\ OrderFree(c, o)
  BY Seen DEF Promote, Inductive, TxSound
<1>2. /\ o \in Orders /\ orders[o] # Null /\ orders[o].sequence # Null
      /\ \E l \in tx[c].new : l[1] = o
  BY <1>1, OrderAssumption DEF Promote, PlanSound
<1>3. OrderOf(c, o) \in OrderRow
  BY <1>2, Seen
<1>4. row \in OrderRow /\ row.sequence = OrderOf(c, o).sequence /\ row.status = "IN_PROGRESS"
  BY <1>3 DEF OrderRow, Status
<1>5. Statement(c, t)
  BY DEF Promote
<1> HIDE DEF row
<1>6. /\ newOrders \in [Orders -> OrderRow \cup {Null}] /\ newOrders[o] = row
      /\ \A q \in Orders : q # o => newOrders[q] = tx[c].orders[q]
  BY <1>1, <1>2, <1>4 DEF TxType
<1>7. pc \in {"demote", "complete", "commit", "heal"}
  BY NextSteps
<1> HIDE DEF newOrders, pc
<1>8. /\ t \in TxType /\ t.pc = pc /\ t.orders = newOrders /\ t.lines = tx[c].lines /\ t.new = tx[c].new
      /\ t.todo = tx[c].todo /\ t.order = tx[c].order
  BY <1>1, <1>6, <1>7 DEF TxType
<1> HIDE DEF t, o
<1> QED
  BY <1>1, <1>2, <1>4, <1>5, <1>6, <1>7, <1>8, OrderStep

\* Later orders come back to OPEN from IN_PROGRESS, with the place they had.
LEMMA DemoteStep ==
  ASSUME Inductive, NEW c \in Cycles, Demote(c)
  PROVE  Inductive'
<1> DEFINE newOrders == [o \in Orders |-> IF o \in Demoted(c)
             THEN [OrderOf(c, o) EXCEPT !.status = "OPEN", !.previousStatus = "IN_PROGRESS"]
             ELSE tx[c].orders[o]]
           pc == AfterDemote(tx[c])
           t == [tx[c] EXCEPT !.pc = pc, !.sequence = Null, !.orders = newOrders]
<1>1. tx[c] \in TxType /\ \A o \in Demoted(c) : OrderFree(c, o)
  BY Seen DEF Demote
<1>2. \A o \in Demoted(c) : /\ o \in Orders /\ orders[o] # Null /\ OrderOf(c, o) \in OrderRow
                            /\ OrderOf(c, o).status = "IN_PROGRESS"
  BY Seen DEF Demoted
<1>3. \A o \in Demoted(c) : /\ newOrders[o] \in OrderRow /\ newOrders[o].status = "OPEN"
                            /\ newOrders[o].sequence = OrderOf(c, o).sequence
  BY <1>2 DEF OrderRow, Status
<1>4. Statement(c, t)
  BY DEF Demote
<1>5. /\ newOrders \in [Orders -> OrderRow \cup {Null}]
      /\ \A o \in Orders : o \notin Demoted(c) => newOrders[o] = tx[c].orders[o]
  BY <1>1, <1>3 DEF TxType
<1>6. pc \in {"complete", "commit", "heal"}
  BY NextSteps
<1> HIDE DEF newOrders, pc
<1>7. /\ t \in TxType /\ t.pc = pc /\ t.orders = newOrders /\ t.lines = tx[c].lines /\ t.new = tx[c].new
      /\ t.todo = tx[c].todo /\ t.order = tx[c].order
  BY <1>1, <1>5, <1>6 DEF TxType
<1> HIDE DEF t
<1> QED
  BY <1>1, <1>2, <1>3, <1>4, <1>5, <1>6, <1>7, SeenOrder, OrderStep

\* The order in hand is completed with the place it had.
LEMMA CompleteStep ==
  ASSUME Inductive, NEW c \in Cycles, Complete(c)
  PROVE  Inductive'
<1> DEFINE o == tx[c].order
           completes == \A l \in LinesOf(o) : Fulfilled(LineOf(c, l))
           row == [OrderOf(c, o) EXCEPT !.status = "COMPLETED"]
           newOrders == IF completes THEN [tx[c].orders EXCEPT ![o] = row] ELSE tx[c].orders
           pc == NextProduct(tx[c])
           t == [tx[c] EXCEPT !.pc = pc, !.product = Null, !.orders = newOrders]
<1>1. tx[c] \in TxType /\ PlanSound(tx[c]) /\ (completes => OrderFree(c, o))
  BY Seen DEF Complete, Inductive, TxSound
<1>2. o \in Orders => /\ orders[o] # Null /\ orders[o].sequence # Null
                      /\ row \in OrderRow /\ row.sequence = OrderOf(c, o).sequence
                      /\ row.status = "COMPLETED"
  <2>1. o \in Orders => orders[o] # Null /\ orders[o].sequence # Null
    BY <1>1, OrderAssumption DEF PlanSound
  <2>2. o \in Orders => OrderOf(c, o) \in OrderRow
    BY <2>1, Seen
  <2> QED
    BY <2>1, <2>2 DEF OrderRow, Status
<1>3. Statement(c, t)
  BY DEF Complete
<1> HIDE DEF row
<1>4. /\ newOrders \in [Orders -> OrderRow \cup {Null}]
      /\ \A q \in Orders : newOrders[q] = tx[c].orders[q] \/ (q = o /\ completes /\ newOrders[q] = row)
  BY <1>1, <1>2 DEF TxType
<1>5. pc \in {"commit", "heal"}
  BY NextSteps
<1> HIDE DEF newOrders, pc, completes
<1>6. /\ t \in TxType /\ t.pc = pc /\ t.orders = newOrders /\ t.lines = tx[c].lines /\ t.new = tx[c].new
      /\ t.todo = tx[c].todo /\ t.order = tx[c].order
  BY <1>1, <1>4, <1>5 DEF TxType
<1> HIDE DEF t, o
<1> QED
  BY <1>1, <1>2, <1>3, <1>4, <1>5, <1>6, OrderStep

\* A transaction that is over has written nothing.
LEMMA NoTxSound ==
  /\ NoTx \in TxType /\ LinesWritten(NoTx) /\ OrdersWritten(NoTx) /\ PlanSound(NoTx)
  /\ \A l \in Lines : NoTx.lines[l] = Null
  /\ \A o \in Orders : NoTx.orders[o] = Null
  /\ NoTx.new = {} /\ NoTx.order = Null
BY OrderAssumption DEF NoTx, TxType, LinesWritten, OrdersWritten, PlanSound

\* An abort leaves what was committed.
LEMMA AbortStep ==
  ASSUME Inductive, NEW c \in Cycles, Abort(c)
  PROVE  Inductive'
BY NoTxSound, TxStep DEF Abort

-----------------------------------------------------------------------------
(* The commit, the deductions and the operations of order.ts *)

\* What a step may do to the orders while others plan with them: none
\* disappears or loses its place.
Kept ==
  \A o \in Orders : orders[o] # Null =>
    orders'[o] # Null /\ (orders[o].sequence # Null => orders'[o].sequence # Null)

\* A transaction is not disturbed by a step that leaves its rows alone.
LEMMA TxKept ==
  ASSUME Inductive, NEW c \in Cycles, NEW t \in TxType,
         LinesWritten(t), OrdersWritten(t), PlanSound(t), Kept,
         \A l \in Lines : t.lines[l] # Null =>
           lines'[l] = lines[l] /\ made'[l] = made[l] /\ taken'[l] = taken[l],
         \A o \in Orders : t.orders[o] # Null => orders'[o] = orders[o]
  PROVE  LinesWritten(t)' /\ OrdersWritten(t)' /\ PlanSound(t)'
<1>1. LinesWritten(t)'
  BY DEF LinesWritten
<1>2. OrdersWritten(t)'
  BY DEF OrdersWritten, Terminal
<1>3. PlanSound(t)'
  BY OrderAssumption DEF PlanSound, Kept, TxType
<1> QED
  BY <1>1, <1>2, <1>3

\* An edit stays sound while orders are kept.
LEMMA EditKept ==
  ASSUME NEW e \in EditType, EditSound(e), Kept
  PROVE  EditSound(e)'
BY DEF EditSound, Kept, EditType

\* An edit that is over is sound.
LEMMA NoEditSound == NoEdit \in EditType /\ EditSound(NoEdit)
BY DEF NoEdit, EditType, EditSound

\* A commit publishes what the transaction has seen, which adds up.
LEMMA CommitStep ==
  ASSUME Inductive, NEW c \in Cycles, Commit(c)
  PROVE  Inductive'
<1>1. /\ orders' = [o \in Orders |-> OrderOf(c, o)]
      /\ lines' = [l \in Lines |-> LineOf(c, l)]
      /\ made' = [l \in Lines |-> IF l \in tx[c].new THEN made[l] + 1 ELSE made[l]]
      /\ tx' = [tx EXCEPT ![c] = NoTx]
      /\ UNCHANGED <<taken, edit, scraps>>
  BY DEF Commit
<1>2. Data'
  BY <1>1, Seen DEF Data, Inductive
<1>3. tx' \in [Cycles -> TxType] /\ tx'[c] = NoTx /\ \A d \in Cycles : d # c => tx'[d] = tx[d]
  BY <1>1, NoTxSound DEF Inductive
<1>4. \A o \in Orders : /\ (orders'[o] = Null <=> orders[o] = Null)
                        /\ (tx[c].orders[o] = Null => orders'[o] = orders[o])
                        /\ (orders[o] # Null => orders'[o].sequence = orders[o].sequence)
  BY <1>1, Seen, SeenOrder DEF OrderOf
<1>5. Kept
  BY <1>4 DEF Kept
<1>6. \A l \in Lines : /\ (lines'[l] = Null <=> lines[l] = Null)
                       /\ (tx[c].lines[l] = Null => lines'[l] = lines[l] /\ made'[l] = made[l])
                       /\ (lines[l] # Null => lines'[l].completed = made'[l] /\ lines'[l].scrap = taken[l])
  <2>1. ASSUME NEW l \in Lines, lines[l] # Null
        PROVE  lines'[l].completed = made'[l] /\ lines'[l].scrap = taken[l]
    <3>1. made[l] \in Nat
      BY DEF Inductive, Data
    <3> QED
      BY <1>1, <2>1, <3>1, SeenLine
  <2>2. \A l \in Lines : tx[c].lines[l] = Null => l \notin tx[c].new
    BY DEF Inductive, TxSound, LinesWritten
  <2> QED
    BY <1>1, <2>1, <2>2, Seen DEF LineOf
<1>7. Homes'
  <2>1. \A l \in Lines : lines[l] = Null => made'[l] = made[l]
    <3>1. \A l \in Lines : lines[l] = Null => tx[c].lines[l] = Null
      BY DEF Inductive, TxSound, LinesWritten
    <3> QED
      BY <1>6, <3>1
  <2> QED
    BY <1>1, <1>4, <1>6, <2>1, LinePair DEF Inductive, Homes
<1>8. QuantitiesAddUp'
  BY <1>1, <1>6 DEF QuantitiesAddUp
<1>9. OpenedOrdersSequenced' /\ HeldOrdersRememberStatus'
  <2>1. ASSUME NEW o \in Orders, orders[o] # Null
        PROVE  /\ orders'[o].status \notin {"DRAFT", "CANCELLED"} => orders'[o].sequence # Null
               /\ orders'[o].status = "ON_HOLD" => orders'[o] = orders[o]
    <3>1. CASE tx[c].orders[o] = Null
      BY <1>4, <2>1, <3>1 DEF Inductive, OpenedOrdersSequenced
    <3>2. CASE tx[c].orders[o] # Null
      BY <1>1, <1>4, <2>1, <3>2 DEF Inductive, TxSound, OrdersWritten, OrderOf
    <3> QED
      BY <3>1, <3>2
  <2> QED
    BY <1>4, <2>1 DEF Inductive, OpenedOrdersSequenced, HeldOrdersRememberStatus
<1>10. Exclusive'
  BY <1>3, NoTxSound DEF Inductive, Exclusive
<1>11. TxSound'
  <2>1. ASSUME NEW d \in Cycles, d # c
        PROVE  LinesWritten(tx[d])' /\ OrdersWritten(tx[d])' /\ PlanSound(tx[d])'
    <3>1. \A l \in Lines : tx[d].lines[l] # Null => tx[c].lines[l] = Null
      BY <2>1 DEF Inductive, Exclusive
    <3>2. \A o \in Orders : tx[d].orders[o] # Null => tx[c].orders[o] = Null
      BY <2>1 DEF Inductive, Exclusive
    <3>3. tx[d] \in TxType /\ LinesWritten(tx[d]) /\ OrdersWritten(tx[d]) /\ PlanSound(tx[d])
      BY DEF Inductive, TxSound
    <3>4. tx'[d] = tx[d]
      BY <1>3, <2>1
    <3>5. /\ \A l \in Lines : tx[d].lines[l] # Null =>
               lines'[l] = lines[l] /\ made'[l] = made[l] /\ taken'[l] = taken[l]
          /\ \A o \in Orders : tx[d].orders[o] # Null => orders'[o] = orders[o]
      BY <1>1, <1>4, <1>6, <3>1, <3>2
    <3> HIDE DEF Kept
    <3>6. \A t \in TxType : t = tx[d] => LinesWritten(t)' /\ OrdersWritten(t)' /\ PlanSound(t)'
      BY <1>5, <3>3, <3>5, TxKept
    <3> QED
      BY <3>3, <3>4, <3>6
  <2>2. LinesWritten(NoTx)' /\ OrdersWritten(NoTx)' /\ PlanSound(NoTx)'
    BY NoTxSound, OrderAssumption DEF LinesWritten, OrdersWritten, PlanSound, NoTx
  <2> QED
    BY <1>3, <2>1, <2>2 DEF TxSound
<1>12. EditsSound'
  BY <1>1, <1>5, EditKept DEF Inductive, EditsSound
<1>13. edit' \in [Users -> EditType] /\ scraps' \in [Scraps -> ScrapType] /\ ScrapsSound'
  BY <1>1 DEF Inductive, ScrapsSound
<1> QED
  BY <1>2, <1>3, <1>7, <1>8, <1>9, <1>10, <1>11, <1>12, <1>13 DEF Inductive

\* A step outside the transactions keeps the invariant if it writes rows that
\* nobody has locked, keeps the orders and leaves sound rows and edits.
LEMMA DataStep ==
  ASSUME Inductive, UNCHANGED tx, Data', Homes', QuantitiesAddUp',
         OpenedOrdersSequenced', HeldOrdersRememberStatus', Kept,
         edit' \in [Users -> EditType], EditsSound',
         scraps' \in [Scraps -> ScrapType], ScrapsSound',
         \A l \in Lines : LineFree(Null, l) \/ (lines'[l] = lines[l] /\ made'[l] = made[l] /\ taken'[l] = taken[l]),
         \A o \in Orders : OrderFree(Null, o) \/ orders'[o] = orders[o]
  PROVE  Inductive'
<1>1. \A c \in Cycles : LinesWritten(tx[c])' /\ OrdersWritten(tx[c])' /\ PlanSound(tx[c])'
  <2> SUFFICES ASSUME NEW c \in Cycles
               PROVE  LinesWritten(tx[c])' /\ OrdersWritten(tx[c])' /\ PlanSound(tx[c])'
    OBVIOUS
  <2>1. tx[c] \in TxType /\ LinesWritten(tx[c]) /\ OrdersWritten(tx[c]) /\ PlanSound(tx[c])
    BY DEF Inductive, TxSound
  <2>2. /\ \A l \in Lines : tx[c].lines[l] # Null =>
             lines'[l] = lines[l] /\ made'[l] = made[l] /\ taken'[l] = taken[l]
        /\ \A o \in Orders : tx[c].orders[o] # Null => orders'[o] = orders[o]
    BY OrderAssumption DEF LineFree, OrderFree
  <2>3. \A t \in TxType : t = tx[c] => LinesWritten(t)' /\ OrdersWritten(t)' /\ PlanSound(t)'
    BY <2>1, <2>2, TxKept
  <2> QED
    BY <2>1, <2>3
<1>2. TxSound' /\ Exclusive'
  BY <1>1 DEF Inductive, TxSound, Exclusive
<1> QED
  BY <1>2 DEF Inductive

\* A step that writes no row keeps what is said about rows.
LEMMA RowsIdle ==
  ASSUME Inductive, UNCHANGED <<orders, lines, made, taken>>
  PROVE  /\ Data' /\ Homes' /\ QuantitiesAddUp' /\ OpenedOrdersSequenced' /\ HeldOrdersRememberStatus'
         /\ Kept
BY DEF Inductive, Data, Homes, QuantitiesAddUp, OpenedOrdersSequenced, HeldOrdersRememberStatus, Kept

\* A user who has only read keeps the invariant if what was read is sound.
LEMMA ReadStep ==
  ASSUME Inductive, NEW u \in Users, NEW e \in EditType, Reads(u, e), EditSound(e)
  PROVE  Inductive'
<1>1. UNCHANGED <<orders, lines, made, taken, tx, scraps>>
  BY DEF Reads
<1>2. edit' \in [Users -> EditType] /\ edit'[u] = e /\ \A v \in Users : v # u => edit'[v] = edit[v]
  BY DEF Reads, Inductive
<1>3. EditsSound'
  <2>1. \A v \in Users : EditSound(edit'[v])
    BY <1>2 DEF Inductive, EditsSound
  <2> QED
    BY <1>1, <2>1 DEF EditsSound, EditSound
<1>4. scraps' \in [Scraps -> ScrapType] /\ ScrapsSound'
  BY <1>1 DEF Inductive, ScrapsSound
<1> QED
  BY <1>1, <1>2, <1>3, <1>4, RowsIdle, DataStep

\* A deduction counts one item more in the line and in its allocation rows.
LEMMA ScrapStep ==
  ASSUME Inductive, NEW d \in Scraps, FindScrapped(d) \/ Deduct(d) \/ LoseDeduction(d)
  PROVE  Inductive'
<1>1. UNCHANGED <<orders, made, tx, edit>> /\ Kept
  BY DEF FindScrapped, Deduct, LoseDeduction, Kept
<1>2. edit' \in [Users -> EditType] /\ EditsSound'
  BY <1>1, EditKept DEF Inductive, EditsSound
<1>3. DoneScrap \in ScrapType /\ DoneScrap.pc = "done"
  BY DEF DoneScrap, NoScrap, ScrapType
<1>4. CASE FindScrapped(d)
  <2>1. PICK p \in Products :
          LET found == {l \in Reduced : l[2] = p}
          IN  IF found = {}
              THEN scraps' = [scraps EXCEPT ![d] = DoneScrap]
              ELSE \E l \in found :
                     /\ \A k \in found : Rank(orders[l[1]]) <= Rank(orders[k[1]])
                     /\ scraps' = [scraps EXCEPT ![d] = [pc |-> "found", line |-> l,
                                                         after |-> ScrappedStatus(lines[l])]]
    BY <1>4 DEF FindScrapped
  <2>2. \/ scraps' = [scraps EXCEPT ![d] = DoneScrap]
        \/ \E l \in Reduced : scraps' = [scraps EXCEPT ![d] =
             [pc |-> "found", line |-> l, after |-> ScrappedStatus(lines[l])]]
    BY <2>1
  <2>3. \A l \in Reduced : l \in Lines /\ ScrappedStatus(lines[l]) \in LineStatus
    BY StatusTypes DEF Reduced, Inductive, Data
  <2>4. scraps' \in [Scraps -> ScrapType] /\ ScrapsSound'
    <3>1. PICK r \in ScrapType : scraps' = [scraps EXCEPT ![d] = r]
                                  /\ (r.pc = "found" => r.line \in Lines /\ r.after \in LineStatus)
      <4>1. \A l \in Reduced : [pc |-> "found", line |-> l, after |-> ScrappedStatus(lines[l])] \in ScrapType
        BY <2>3 DEF ScrapType
      <4> QED
        BY <1>3, <2>2, <2>3, <4>1
    <3> QED
      BY <3>1 DEF Inductive, ScrapsSound
  <2> QED
    BY <1>1, <1>2, <1>4, <2>4, RowsIdle, DataStep DEF FindScrapped
<1>5. CASE LoseDeduction(d)
  <2>1. scraps' \in [Scraps -> ScrapType] /\ ScrapsSound'
    BY <1>3, <1>5 DEF LoseDeduction, Inductive, ScrapsSound
  <2> QED
    BY <1>1, <1>2, <1>5, <2>1, RowsIdle, DataStep DEF LoseDeduction
<1>6. CASE Deduct(d)
  <2> DEFINE l == scraps[d].line
             row == [lines[l] EXCEPT !.scrap = lines[l].scrap + 1, !.status = scraps[d].after]
  <2>1. /\ l \in Lines /\ lines[l] \in LineRow /\ scraps[d].after \in LineStatus /\ LineFree(Null, l)
        /\ lines[l].scrap = taken[l] /\ lines[l].completed = made[l] /\ taken[l] \in Nat
    BY <1>6 DEF Deduct, Inductive, ScrapsSound, Data, QuantitiesAddUp
  <2>2. /\ lines' = [lines EXCEPT ![l] = row] /\ taken' = [taken EXCEPT ![l] = taken[l] + 1]
        /\ scraps' = [scraps EXCEPT ![d] = DoneScrap]
    BY <1>6 DEF Deduct
  <2>3. row \in LineRow /\ row.scrap = taken[l] + 1 /\ row.completed = made[l]
    <3>1. lines[l].scrap + 1 \in Nat
      BY <2>1
    <3> HIDE DEF l
    <3> QED
      BY <2>1, <3>1 DEF LineRow
  <2> HIDE DEF row, l
  <2>4. Data'
    BY <1>1, <2>1, <2>2, <2>3 DEF Inductive, Data
  <2>5. Homes' /\ QuantitiesAddUp'
    BY <1>1, <2>1, <2>2, <2>3, OrderAssumption DEF Inductive, Data, Homes, QuantitiesAddUp
  <2>6. OpenedOrdersSequenced' /\ HeldOrdersRememberStatus'
    BY <1>1 DEF Inductive, OpenedOrdersSequenced, HeldOrdersRememberStatus
  <2>7. scraps' \in [Scraps -> ScrapType] /\ ScrapsSound'
    BY <1>3, <2>2 DEF Inductive, ScrapsSound
  <2>8. \A k \in Lines : LineFree(Null, k) \/ (lines'[k] = lines[k] /\ made'[k] = made[k] /\ taken'[k] = taken[k])
    BY <1>1, <2>1, <2>2 DEF Inductive, Data
  <2> QED
    BY <1>1, <1>2, <2>4, <2>5, <2>6, <2>7, <2>8, DataStep
<1> QED
  BY <1>4, <1>5, <1>6

\* What an order may become is a status; on hold comes only what can resume.
LEMMA TransitionTargets ==
  ASSUME NEW status \in Status, NEW to \in Transitions[status]
  PROVE  /\ to \in Status /\ to # "DRAFT"
         /\ to = "ON_HOLD" => status \in {"OPEN", "IN_PROGRESS"}
         /\ to \notin {"OPEN", "CANCELLED"} => status # "DRAFT" /\ status # "CANCELLED"
BY DEF Status, Transitions

\* An order on hold resumes what it was before.
LEMMA HeldTargets == Transitions["ON_HOLD"] \ {"CANCELLED"} = {"OPEN", "IN_PROGRESS"}
BY DEF Transitions

\* What users read before they write is sound when it is read.
LEMMA BeginSteps ==
  ASSUME Inductive, NEW u \in Users,
         BeginCreate(u) \/ BeginTransition(u) \/ Place(u) \/ BeginRemove(u) \/ BeginLine(u) \/ GiveUp(u)
  PROVE  Inductive'
<1>1. CASE BeginCreate(u)
  <2>1. PICK o \in Orders, to \in {"DRAFT", "OPEN"} :
          Reads(u, [NoEdit EXCEPT !.op = IF NeedsPlace(to, Null) THEN "place" ELSE "create",
                                  !.order = o, !.to = to])
    BY <1>1 DEF BeginCreate
  <2> DEFINE op == IF NeedsPlace(to, Null) THEN "place" ELSE "create"
             e == [NoEdit EXCEPT !.op = op, !.order = o, !.to = to]
  <2>2. op \in {"place", "create"} /\ (op = "place" <=> to = "OPEN")
    BY DEF NeedsPlace
  <2>3. Reads(u, e)
    BY <2>1
  <2> HIDE DEF op
  <2>4. /\ e \in EditType /\ e.op = op /\ e.order = o /\ e.to = to /\ e.status = Null
    BY <2>2 DEF NoEdit, EditType, Status
  <2> HIDE DEF e
  <2>5. EditSound(e)
    BY <2>2, <2>4 DEF EditSound
  <2> QED
    BY <2>3, <2>4, <2>5, ReadStep
<1>2. CASE BeginTransition(u)
  <2>1. PICK o \in Orders : /\ orders[o] # Null
          /\ \E to \in Transitions[orders[o].status] :
               Reads(u, [NoEdit EXCEPT
                 !.op = IF NeedsPlace(to, orders[o].sequence) THEN "place" ELSE "transition",
                 !.order = o, !.to = to, !.status = orders[o].status])
    BY <1>2 DEF BeginTransition
  <2> DEFINE status == orders[o].status
             sequence == orders[o].sequence
  <2>2. PICK to \in Transitions[status] :
          Reads(u, [NoEdit EXCEPT
            !.op = IF NeedsPlace(to, sequence) THEN "place" ELSE "transition",
            !.order = o, !.to = to, !.status = status])
    BY <2>1
  <2> DEFINE op == IF NeedsPlace(to, sequence) THEN "place" ELSE "transition"
             e == [NoEdit EXCEPT !.op = op, !.order = o, !.to = to, !.status = status]
  <2>3. status \in Status /\ (status \notin {"DRAFT", "CANCELLED"} => sequence # Null)
    BY <2>1 DEF Inductive, Data, OrderRow, OpenedOrdersSequenced
  <2>4. op \in {"place", "transition"} /\ (op = "place" <=> to = "OPEN" /\ sequence = Null)
    BY DEF NeedsPlace
  <2>5. Reads(u, e)
    BY <2>2
  <2> HIDE DEF op, status
  <2>6. /\ to \in Status /\ to # "DRAFT" /\ (to = "ON_HOLD" => status \in {"OPEN", "IN_PROGRESS"})
        /\ to \notin {"OPEN", "CANCELLED"} => status # "DRAFT" /\ status # "CANCELLED"
    BY <2>3, TransitionTargets
  <2>7. e \in EditType /\ e.op = op /\ e.order = o /\ e.to = to /\ e.status = status /\ e.sequence = Null
    BY <2>3, <2>4, <2>6 DEF NoEdit, EditType
  <2> HIDE DEF e
  <2>8. EditSound(e)
    BY <2>1, <2>3, <2>4, <2>6, <2>7 DEF EditSound
  <2> QED
    BY <2>5, <2>7, <2>8, ReadStep
<1>3. CASE Place(u)
  <2>1. PICK n \in 1..MaxSequence :
          Reads(u, [edit[u] EXCEPT !.sequence = n,
                                   !.op = IF edit[u].status = Null THEN "create" ELSE "transition"])
    BY <1>3 DEF Place
  <2> DEFINE op == IF edit[u].status = Null THEN "create" ELSE "transition"
             e == [edit[u] EXCEPT !.sequence = n, !.op = op]
  <2>2. /\ edit[u] \in EditType /\ EditSound(edit[u]) /\ edit[u].op = "place"
    BY <1>3 DEF Place, Inductive, EditsSound
  <2>a. n \in Nat
    BY OrderAssumption
  <2>b. n # Null
    BY <2>a, OrderAssumption
  <2>3. op \in {"create", "transition"} /\ (op = "transition" => edit[u].status # Null)
    OBVIOUS
  <2>4. Reads(u, e)
    BY <2>1
  <2> HIDE DEF op
  <2>5. /\ e \in EditType /\ e.op = op /\ e.sequence = n /\ e.order = edit[u].order
        /\ e.to = edit[u].to
    BY <2>2, <2>a, <2>3 DEF EditType
  <2> HIDE DEF e
  <2>6. EditSound(e)
    BY <2>2, <2>b, <2>3, <2>5 DEF EditSound, Status
  <2> QED
    BY <2>4, <2>5, <2>6, ReadStep
<1>4. CASE BeginRemove(u)
  <2>1. PICK o \in Orders : orders[o] # Null /\ Reads(u, [NoEdit EXCEPT !.op = "remove", !.order = o])
    BY <1>4 DEF BeginRemove
  <2> DEFINE e == [NoEdit EXCEPT !.op = "remove", !.order = o]
  <2>2. e \in EditType /\ e.op = "remove" /\ e.order = o
    BY DEF NoEdit, EditType
  <2>3. Reads(u, e)
    BY <2>1
  <2> HIDE DEF e
  <2>4. EditSound(e)
    BY <2>1, <2>2 DEF EditSound
  <2> QED
    BY <2>2, <2>3, <2>4, ReadStep
<1>5. CASE BeginLine(u)
  <2>1. PICK l \in Lines, op \in {"add", "retarget", "drop"} :
          orders[l[1]] # Null /\ Reads(u, [NoEdit EXCEPT !.op = op, !.order = l[1], !.product = l[2]])
    BY <1>5 DEF BeginLine
  <2> DEFINE o == l[1]
             p == l[2]
             e == [NoEdit EXCEPT !.op = op, !.order = o, !.product = p]
  <2>2. o \in Orders /\ p \in Products
    BY LinePair
  <2>3. Reads(u, e)
    BY <2>1
  <2>a. orders[o] # Null
    BY <2>1
  <2> HIDE DEF o, p
  <2>4. e \in EditType /\ e.op = op /\ e.order = o /\ e.product = p
    BY <2>2 DEF NoEdit, EditType
  <2> HIDE DEF e
  <2>5. EditSound(e)
    BY <2>a, <2>2, <2>4 DEF EditSound
  <2> QED
    BY <2>3, <2>4, <2>5, ReadStep
<1>6. CASE GiveUp(u)
  BY <1>6, NoEditSound, ReadStep DEF GiveUp
<1> QED
  BY <1>1, <1>2, <1>3, <1>4, <1>5, <1>6

\* A user's write to orders only, of rows nobody has locked, keeps the
\* invariant if the rows it leaves are sound.
LEMMA OrdersStep ==
  ASSUME Inductive, NEW u \in Users,
         edit' = [edit EXCEPT ![u] = NoEdit] \/ UNCHANGED edit,
         UNCHANGED <<lines, made, taken, tx, scraps>>, Kept,
         \A o \in Orders : orders'[o] = orders[o] \/
           /\ OrderFree(Null, o) /\ orders'[o] \in OrderRow
           /\ orders'[o].status \notin {"DRAFT", "CANCELLED"} => orders'[o].sequence # Null
           /\ orders'[o].status = "ON_HOLD" => orders'[o].previousStatus \in {"OPEN", "IN_PROGRESS"},
         orders' = [o \in Orders |-> orders'[o]]
  PROVE  Inductive'
<1>1. Data'
  BY DEF Inductive, Data
<1>2. Homes' /\ QuantitiesAddUp'
  BY LinePair DEF Inductive, Homes, QuantitiesAddUp, Kept
<1>3. OpenedOrdersSequenced' /\ HeldOrdersRememberStatus'
  BY HeldTargets DEF Inductive, OpenedOrdersSequenced, HeldOrdersRememberStatus
<1>4. edit' \in [Users -> EditType] /\ EditsSound'
  <2>1. edit' \in [Users -> EditType] /\ \A v \in Users : edit'[v] = edit[v] \/ edit'[v] = NoEdit
    BY NoEditSound DEF Inductive
  <2>2. \A v \in Users : EditSound(edit'[v])
    BY <2>1, NoEditSound DEF Inductive, EditsSound
  <2>3. \A e \in EditType : EditSound(e) => EditSound(e)'
    BY EditKept
  <2> QED
    BY <2>1, <2>2, <2>3 DEF EditsSound
<1>5. scraps' \in [Scraps -> ScrapType] /\ ScrapsSound'
  BY DEF Inductive, ScrapsSound
<1> QED
  BY <1>1, <1>2, <1>3, <1>4, <1>5, DataStep

\* A transition writes the status that was checked, with a place for it.
LEMMA TransitionStep ==
  ASSUME Inductive, NEW u \in Users, Transition(u)
  PROVE  Inductive'
<1> DEFINE e == edit[u]
           o == edit[u].order
           previous == PreviousAfter(e, orders[o].previousStatus)
           sequence == IF e.sequence # Null THEN e.sequence ELSE orders[o].sequence
           row == [orders[o] EXCEPT !.status = e.to, !.previousStatus = previous, !.sequence = sequence]
<1>1. e \in EditType /\ EditSound(e) /\ e.op = "transition" /\ OrderFree(Null, o)
  BY DEF Transition, Inductive, EditsSound
<1>2. /\ orders' = [orders EXCEPT ![o] = row] /\ edit' = [edit EXCEPT ![u] = NoEdit]
      /\ UNCHANGED <<lines, made, taken, tx, scraps>>
  BY DEF Transition
<1>3. /\ o \in Orders /\ orders[o] \in OrderRow /\ e.to \in Status
      /\ (e.to \notin {"DRAFT", "CANCELLED"} => e.sequence # Null \/ orders[o].sequence # Null)
      /\ (e.to = "ON_HOLD" => e.status \in {"OPEN", "IN_PROGRESS"})
  BY <1>1 DEF EditSound, Inductive, Data
<1>4. /\ previous \in Status \cup {Null} /\ sequence \in Nat \cup {Null}
      /\ e.to = "ON_HOLD" => previous \in {"OPEN", "IN_PROGRESS"}
      /\ orders[o].sequence # Null => sequence # Null
  BY <1>1, <1>3 DEF PreviousAfter, EditType, OrderRow
<1>5. e.to \notin {"DRAFT", "CANCELLED"} => sequence # Null
  BY <1>3
<1> HIDE DEF previous, sequence
<1>6. row \in OrderRow /\ row.status = e.to /\ row.previousStatus = previous /\ row.sequence = sequence
  BY <1>3, <1>4 DEF OrderRow
<1> HIDE DEF row, o, e
<1>7. /\ orders' = [q \in Orders |-> orders'[q]] /\ orders'[o] = row
      /\ \A q \in Orders : q # o => orders'[q] = orders[q]
  BY <1>2, <1>3 DEF Inductive, Data
<1>8. Kept
  BY <1>4, <1>6, <1>7, OrderAssumption DEF Kept
<1> QED
  BY <1>1, <1>2, <1>4, <1>5, <1>6, <1>7, <1>8, OrdersStep

\* Removing marks the row.
LEMMA RemoveStep ==
  ASSUME Inductive, NEW u \in Users, Remove(u)
  PROVE  Inductive'
<1> DEFINE o == edit[u].order
           row == [orders[o] EXCEPT !.deleted = TRUE]
<1>1. /\ o \in Orders /\ orders[o] \in OrderRow /\ OrderFree(Null, o)
  BY DEF Remove, EditSound, Inductive, EditsSound, Data
<1>2. /\ orders' = [orders EXCEPT ![o] = row] /\ edit' = [edit EXCEPT ![u] = NoEdit]
      /\ UNCHANGED <<lines, made, taken, tx, scraps>>
  BY DEF Remove
<1>3. /\ row \in OrderRow /\ row.status = orders[o].status /\ row.sequence = orders[o].sequence
      /\ row.previousStatus = orders[o].previousStatus
  BY <1>1 DEF OrderRow
<1> HIDE DEF row, o
<1>4. /\ orders' = [q \in Orders |-> orders'[q]] /\ orders'[o] = row
      /\ \A q \in Orders : q # o => orders'[q] = orders[q]
  BY <1>1, <1>2 DEF Inductive, Data
<1>5. Kept
  BY <1>3, <1>4, OrderAssumption DEF Kept
<1>6. /\ row.status \notin {"DRAFT", "CANCELLED"} => row.sequence # Null
      /\ row.status = "ON_HOLD" => row.previousStatus \in {"OPEN", "IN_PROGRESS"}
  BY <1>1, <1>3, HeldTargets, OrderAssumption
  DEF Inductive, OpenedOrdersSequenced, HeldOrdersRememberStatus
<1> QED
  BY <1>1, <1>2, <1>3, <1>4, <1>5, <1>6, OrdersStep

\* Reordering gives every listed order a place.
LEMMA ReorderStep ==
  ASSUME Inductive, NEW u \in Users, Reorder(u)
  PROVE  Inductive'
<1>1. PICK listed \in SUBSET {o \in Orders : orders[o] # Null} :
        /\ \A o \in listed : OrderFree(Null, o)
        /\ \E place \in Bijection(listed, 1..Cardinality(listed)) :
             orders' = [o \in Orders |-> IF o \in listed
               THEN [orders[o] EXCEPT !.sequence = place[o]] ELSE orders[o]]
  BY DEF Reorder
<1>2. PICK place \in Bijection(listed, 1..Cardinality(listed)) :
        orders' = [o \in Orders |-> IF o \in listed
          THEN [orders[o] EXCEPT !.sequence = place[o]] ELSE orders[o]]
  BY <1>1
<1>3. \A o \in listed : place[o] \in Nat
  <2>1. place \in [listed -> 1..Cardinality(listed)]
    BY DEF Bijection, Injection
  <2> QED
    BY <2>1
<1>4. \A o \in listed : place[o] # Null
  BY <1>3, OrderAssumption
<1>5. \A o \in listed : /\ orders'[o] \in OrderRow /\ orders'[o].sequence # Null
                        /\ orders'[o].status = orders[o].status
                        /\ orders'[o].previousStatus = orders[o].previousStatus
  BY <1>2, <1>3, <1>4 DEF Inductive, Data, OrderRow
<1>6. \A o \in Orders : o \notin listed => orders'[o] = orders[o]
  BY <1>2
<1>7. Kept
  BY <1>5, <1>6, OrderAssumption DEF Kept
<1>8. \A o \in listed : orders[o].status = "ON_HOLD" => orders[o].previousStatus \in {"OPEN", "IN_PROGRESS"}
  BY HeldTargets DEF Inductive, HeldOrdersRememberStatus
<1>9. orders' = [o \in Orders |-> orders'[o]] /\ UNCHANGED <<lines, made, taken, tx, edit, scraps>>
  BY <1>2 DEF Reorder
<1> QED
  BY <1>1, <1>5, <1>6, <1>7, <1>8, <1>9, OrdersStep

\* A new line has its type and has counted nothing.
LEMMA NewLineRow ==
  ASSUME NEW target \in 1..MaxTarget
  PROVE  /\ NewLine(target) \in LineRow /\ NewLine(target) # Null
         /\ NewLine(target).completed = 0 /\ NewLine(target).scrap = 0
BY OrderAssumption DEF NewLine, LineRow, LineStatus

\* A new order has lines without quantities, and a place if it is open.
LEMMA CreateStep ==
  ASSUME Inductive, NEW u \in Users, Create(u)
  PROVE  Inductive'
<1> DEFINE o == edit[u].order
           to == edit[u].to
           sequence == edit[u].sequence
           row == [status |-> to, previousStatus |-> Null, sequence |-> sequence, deleted |-> FALSE]
<1>1. PICK ps \in SUBSET Products, target \in 1..MaxTarget :
        lines' = [l \in Lines |-> IF l[1] = o /\ l[2] \in ps THEN NewLine(target) ELSE lines[l]]
  BY DEF Create
<1>2. /\ orders[o] = Null /\ orders' = [orders EXCEPT ![o] = row]
      /\ edit' = [edit EXCEPT ![u] = NoEdit] /\ UNCHANGED <<made, taken, tx, scraps>>
  BY DEF Create
<1>3. /\ o \in Orders /\ to \in {"DRAFT", "OPEN"} /\ (to = "OPEN" => sequence # Null)
      /\ sequence \in Nat \cup {Null}
  <2>1. edit[u] \in EditType /\ EditSound(edit[u]) /\ edit[u].op = "create"
    BY DEF Create, Inductive, EditsSound
  <2> QED
    BY <2>1 DEF EditSound, EditType
<1> HIDE DEF o, to, sequence
<1>4. row \in OrderRow /\ row # Null /\ row.status = to /\ row.sequence = sequence
  <2>1. to \in Status
    BY <1>3 DEF Status
  <2>2. row \in OrderRow
    BY <1>3, <2>1 DEF OrderRow
  <2> QED
    BY <2>2, OrderAssumption
<1> HIDE DEF row
<1>5. orders' \in [Orders -> OrderRow \cup {Null}] /\ orders'[o] = row
      /\ \A q \in Orders : q # o => orders'[q] = orders[q]
  BY <1>2, <1>3, <1>4 DEF Inductive, Data
<1>6. Kept
  BY <1>2, <1>5 DEF Kept
<1>7. \A l \in Lines : \/ lines'[l] = lines[l]
                       \/ l[1] = o /\ lines[l] = Null /\ lines'[l] = NewLine(target)
  BY <1>1, <1>2 DEF Inductive, Homes
<1>8. Data'
  BY <1>1, <1>2, <1>5, <1>7, NewLineRow DEF Inductive, Data
<1>9. Homes'
  BY <1>2, <1>4, <1>5, <1>7, NewLineRow, LinePair DEF Inductive, Homes
<1>10. QuantitiesAddUp'
  BY <1>2, <1>7, NewLineRow DEF Inductive, Homes, QuantitiesAddUp
<1>11. OpenedOrdersSequenced' /\ HeldOrdersRememberStatus'
  BY <1>3, <1>4, <1>5 DEF Inductive, OpenedOrdersSequenced, HeldOrdersRememberStatus
<1>12. edit' \in [Users -> EditType] /\ EditsSound'
  <2>1. edit' \in [Users -> EditType] /\ \A v \in Users : edit'[v] = edit[v] \/ edit'[v] = NoEdit
    BY <1>2, NoEditSound DEF Inductive
  <2>2. \A v \in Users : EditSound(edit'[v])
    BY <2>1, NoEditSound DEF Inductive, EditsSound
  <2>3. \A e \in EditType : EditSound(e) => EditSound(e)'
    BY <1>6, EditKept
  <2> QED
    BY <2>1, <2>2, <2>3 DEF EditsSound
<1>13. \A q \in Orders : OrderFree(Null, q) \/ orders'[q] = orders[q]
  BY <1>2, <1>5 DEF Inductive, TxSound, OrdersWritten, OrderFree
<1>14. \A l \in Lines : LineFree(Null, l) \/ (lines'[l] = lines[l] /\ made'[l] = made[l] /\ taken'[l] = taken[l])
  BY <1>2, <1>7 DEF Inductive, TxSound, LinesWritten, LineFree
<1>15. scraps' \in [Scraps -> ScrapType] /\ ScrapsSound'
  BY <1>2 DEF Inductive, ScrapsSound
<1> QED
  BY <1>2, <1>6, <1>8, <1>9, <1>10, <1>11, <1>12, <1>13, <1>14, <1>15, DataStep

\* A line that is written keeps what it counted; one that is dropped takes its
\* allocation rows along.
LEMMA WriteLineStep ==
  ASSUME Inductive, NEW u \in Users, WriteLine(u)
  PROVE  Inductive'
<1> DEFINE l == <<edit[u].order, edit[u].product>>
           op == edit[u].op
<1>1. /\ l \in Lines /\ l[1] = edit[u].order /\ orders[l[1]] # Null
      /\ op \in {"add", "retarget", "drop"} /\ LineFree(Null, l)
      /\ (op = "add") = (lines[l] = Null)
  <2>1. EditSound(edit[u]) /\ op \in {"add", "retarget", "drop"}
    BY DEF WriteLine, Inductive, EditsSound
  <2> QED
    BY <2>1, LinePair DEF EditSound, WriteLine
<1>2. PICK target \in 1..MaxTarget :
        lines' = [lines EXCEPT ![l] =
             CASE op = "add" -> NewLine(target)
               [] op = "retarget" -> [lines[l] EXCEPT !.target = target]
               [] op = "drop" -> Null]
  BY DEF WriteLine
<1>3. /\ made' = [made EXCEPT ![l] = IF op = "drop" THEN 0 ELSE made[l]]
      /\ taken' = [taken EXCEPT ![l] = IF op = "drop" THEN 0 ELSE taken[l]]
      /\ edit' = [edit EXCEPT ![u] = NoEdit] /\ UNCHANGED <<orders, tx, scraps>>
  BY DEF WriteLine
<1> HIDE DEF l, op
<1>4. \A k \in Lines : k # l => lines'[k] = lines[k] /\ made'[k] = made[k] /\ taken'[k] = taken[k]
  BY <1>1, <1>2, <1>3 DEF Inductive, Data
<1>5. /\ lines' \in [Lines -> LineRow \cup {Null}]
      /\ made' \in [Lines -> Nat] /\ taken' \in [Lines -> Nat]
      /\ lines'[l] # Null => lines'[l].completed = made'[l] /\ lines'[l].scrap = taken'[l]
      /\ lines'[l] = Null => made'[l] = 0 /\ taken'[l] = 0
  <2>1. /\ lines \in [Lines -> LineRow \cup {Null}] /\ made \in [Lines -> Nat] /\ taken \in [Lines -> Nat]
        /\ lines[l] # Null => lines[l].completed = made[l] /\ lines[l].scrap = taken[l]
        /\ lines[l] = Null => made[l] = 0 /\ taken[l] = 0
    BY <1>1 DEF Inductive, Data, QuantitiesAddUp, Homes
  <2>2. CASE op = "add"
    <3>1. lines' = [lines EXCEPT ![l] = NewLine(target)]
      BY <1>2, <2>2
    <3> QED
      BY <1>1, <1>3, <2>1, <2>2, <3>1, NewLineRow
  <2>3. CASE op = "retarget"
    <3> DEFINE row == [lines[l] EXCEPT !.target = target]
    <3>1. lines' = [lines EXCEPT ![l] = row]
      BY <1>2, <2>3
    <3>2. target \in Nat /\ lines[l] \in LineRow
      BY <1>1, <2>1, <2>3, OrderAssumption
    <3>3. row \in LineRow /\ row # Null /\ row.completed = lines[l].completed /\ row.scrap = lines[l].scrap
      BY <3>2, OrderAssumption DEF LineRow
    <3> HIDE DEF row
    <3> QED
      BY <1>1, <1>3, <2>1, <2>3, <3>1, <3>2, <3>3
  <2>4. CASE op = "drop"
    <3>1. lines' = [lines EXCEPT ![l] = Null]
      BY <1>2, <2>4
    <3> QED
      BY <1>1, <1>3, <2>1, <2>4, <3>1
  <2> QED
    BY <1>1, <2>2, <2>3, <2>4
<1>6. Data' /\ Homes' /\ QuantitiesAddUp'
  BY <1>1, <1>3, <1>4, <1>5 DEF Inductive, Data, Homes, QuantitiesAddUp
<1>7. OpenedOrdersSequenced' /\ HeldOrdersRememberStatus' /\ Kept
  BY <1>3 DEF Inductive, OpenedOrdersSequenced, HeldOrdersRememberStatus, Kept
<1>8. edit' \in [Users -> EditType] /\ EditsSound'
  <2>1. edit' \in [Users -> EditType] /\ \A v \in Users : edit'[v] = edit[v] \/ edit'[v] = NoEdit
    BY <1>3, NoEditSound DEF Inductive
  <2>2. \A v \in Users : EditSound(edit'[v])
    BY <2>1, NoEditSound DEF Inductive, EditsSound
  <2>3. \A v \in Users : EditSound(edit[v])'
    BY <1>3, <2>2 DEF EditSound
  <2> QED
    BY <2>1, <2>3 DEF EditsSound, EditSound
<1>9. scraps' \in [Scraps -> ScrapType] /\ ScrapsSound'
  BY <1>3 DEF Inductive, ScrapsSound
<1> QED
  BY <1>1, <1>3, <1>4, <1>6, <1>7, <1>8, <1>9, DataStep

-----------------------------------------------------------------------------
(* The theorems. *)

\* Nothing has been ordered and nobody is at work.
LEMMA InitInductive == Init => Inductive
<1> SUFFICES ASSUME Init PROVE Inductive
  OBVIOUS
<1>1. /\ Data /\ tx \in [Cycles -> TxType] /\ edit \in [Users -> EditType]
  BY NoTxSound, NoEditSound DEF Init, Data
<1>2. scraps \in [Scraps -> ScrapType] /\ ScrapsSound
  BY DEF Init, NoScrap, ScrapType, ScrapsSound
<1>3. Homes /\ QuantitiesAddUp /\ OpenedOrdersSequenced /\ HeldOrdersRememberStatus
  BY DEF Init, Homes, QuantitiesAddUp, OpenedOrdersSequenced, HeldOrdersRememberStatus
<1>4. Exclusive /\ TxSound /\ EditsSound
  BY NoTxSound, NoEditSound DEF Init, Exclusive, TxSound, EditsSound
<1> QED
  BY <1>1, <1>2, <1>3, <1>4 DEF Inductive

\* Every step keeps the invariant.
LEMMA NextInductive == Inductive /\ [Next]_vars => Inductive'
<1> SUFFICES ASSUME Inductive, [Next]_vars PROVE Inductive'
  OBVIOUS
<1>1. ASSUME NEW c \in Cycles,
             Heal(c) \/ Select(c) \/ Allocate(c) \/ Promote(c)
             \/ Demote(c) \/ Complete(c) \/ Commit(c) \/ Abort(c)
      PROVE  Inductive'
  BY <1>1, HealStep, SelectStep, AllocateStep, PromoteStep, DemoteStep, CompleteStep, CommitStep, AbortStep
<1>2. ASSUME NEW d \in Scraps, FindScrapped(d) \/ Deduct(d) \/ LoseDeduction(d)
      PROVE  Inductive'
  BY <1>2, ScrapStep
<1>3. ASSUME NEW u \in Users,
             \/ BeginCreate(u) \/ BeginTransition(u) \/ Place(u) \/ Create(u) \/ Transition(u)
             \/ BeginRemove(u) \/ Remove(u) \/ BeginLine(u) \/ WriteLine(u) \/ GiveUp(u)
             \/ Reorder(u)
      PROVE  Inductive'
  BY <1>3, BeginSteps, CreateStep, TransitionStep, RemoveStep, WriteLineStep, ReorderStep
<1>4. CASE UNCHANGED vars
  BY <1>4 DEF vars, Inductive, Data, Homes, QuantitiesAddUp, OpenedOrdersSequenced,
     HeldOrdersRememberStatus, Exclusive, TxSound, LinesWritten, OrdersWritten, PlanSound, Terminal,
     EditsSound, EditSound, ScrapsSound
<1> QED
  BY <1>1, <1>2, <1>3, <1>4 DEF Next

\* The invariant holds in every state that the code can reach.
THEOREM InductiveInvariant == Spec => []Inductive
BY InitInductive, NextInductive, PTL DEF Spec

\* Every row, transaction and edit keeps its type.
THEOREM TypeCorrect == Spec => []TypeOK
<1>1. Inductive => TypeOK
  BY Types DEF Inductive
<1> QED
  BY <1>1, InductiveInvariant, PTL

\* However allocations, deductions, edits and aborts race, a line's quantities
\* are the sums of its allocation rows.
THEOREM QuantitiesAlwaysAddUp == Spec => []QuantitiesAddUp
<1>1. Inductive => QuantitiesAddUp
  BY DEF Inductive
<1> QED
  BY <1>1, InductiveInvariant, PTL

\* An order that is open, in progress, on hold or completed has a place.
THEOREM OpenedOrdersHavePlaces == Spec => []OpenedOrdersSequenced
<1>1. Inductive => OpenedOrdersSequenced
  BY DEF Inductive
<1> QED
  BY <1>1, InductiveInvariant, PTL

\* An order on hold can always be resumed.
THEOREM HeldOrdersCanResume == Spec => []HeldOrdersRememberStatus
<1>1. Inductive => HeldOrdersRememberStatus
  BY DEF Inductive
<1> QED
  BY <1>1, InductiveInvariant, PTL

\* One step brings no settled order back that nobody has in hand: a cycle's
\* commit writes only what it allocated to, and an edit what it looked at.
LEMMA SettledStep ==
  ASSUME Inductive, [Next]_vars, NEW o \in Orders, Terminal(o), ~InHand(o)
  PROVE  Terminal(o)'
<1>1. orders[o] \in OrderRow /\ orders[o] # Null
  BY DEF Inductive, Data, Terminal
<1>2. ASSUME NEW c \in Cycles, Commit(c) PROVE Terminal(o)'
  <2>1. orders'[o] = OrderOf(c, o)
    BY <1>2 DEF Commit
  <2>2. CASE tx[c].orders[o] = Null
    BY <2>1, <2>2 DEF OrderOf, Terminal
  <2>3. CASE tx[c].orders[o] # Null
    <3>1. tx[c].orders[o].status = "COMPLETED"
      BY <2>3 DEF Inductive, TxSound, OrdersWritten, InHand
    <3> QED
      BY <2>1, <2>3, <3>1 DEF OrderOf, Terminal
  <2> QED
    BY <2>2, <2>3
<1>3. ASSUME NEW u \in Users, Create(u) PROVE Terminal(o)'
  <2>1. orders[edit[u].order] = Null /\ edit[u].order # o
    BY <1>1, <1>3 DEF Create
  <2>2. orders'[o] = orders[o]
    BY <1>3, <2>1 DEF Create, Inductive, Data
  <2> QED
    BY <2>2 DEF Terminal
<1>4. ASSUME NEW u \in Users, Transition(u) PROVE Terminal(o)'
  <2>1. edit[u].order # o
    BY <1>4 DEF Transition, InHand
  <2>2. orders'[o] = orders[o]
    BY <1>4, <2>1 DEF Transition, Inductive, Data
  <2> QED
    BY <2>2 DEF Terminal
<1>5. ASSUME NEW u \in Users, Remove(u) PROVE Terminal(o)'
  <2> DEFINE q == edit[u].order
             row == [orders[q] EXCEPT !.deleted = TRUE]
  <2>1. orders' = [orders EXCEPT ![q] = row]
    BY <1>5 DEF Remove
  <2>2. orders'[o] = IF o = q THEN row ELSE orders[o]
    BY <2>1 DEF Inductive, Data
  <2>3. o = q => row \in OrderRow /\ row # Null /\ row.status = orders[o].status
    BY <1>1, OrderAssumption DEF OrderRow
  <2> QED
    BY <2>2, <2>3 DEF Terminal
<1>6. ASSUME NEW u \in Users, Reorder(u) PROVE Terminal(o)'
  <2>1. PICK place :
          \/ orders'[o] = orders[o]
          \/ /\ place \in Nat
             /\ orders'[o] = [orders[o] EXCEPT !.sequence = place]
    BY <1>6 DEF Reorder, Bijection, Injection
  <2>2. CASE place \in Nat /\ orders'[o] = [orders[o] EXCEPT !.sequence = place]
    <3> DEFINE row == [orders[o] EXCEPT !.sequence = place]
    <3>1. row \in OrderRow /\ row # Null /\ row.status = orders[o].status
      BY <1>1, <2>2, OrderAssumption DEF OrderRow
    <3> QED
      BY <2>2, <3>1 DEF Terminal
  <2> QED
    BY <2>1, <2>2 DEF Terminal
<1>7. CASE UNCHANGED orders
  BY <1>7 DEF Terminal
<1>8. ASSUME NEW c \in Cycles,
             \/ Heal(c) \/ Select(c) \/ Allocate(c) \/ Promote(c)
             \/ Demote(c) \/ Complete(c) \/ Abort(c)
      PROVE  UNCHANGED orders
  <2>1. ASSUME NEW t, Statement(c, t) PROVE UNCHANGED orders
    BY <2>1 DEF Statement
  <2>2. CASE Heal(c)
    BY <2>1, <2>2 DEF Heal
  <2>3. CASE Select(c)
    BY <2>1, <2>3 DEF Select
  <2>4. CASE Allocate(c)
    BY <2>1, <2>4 DEF Allocate
  <2>5. CASE Promote(c)
    BY <2>1, <2>5 DEF Promote
  <2>6. CASE Demote(c)
    BY <2>1, <2>6 DEF Demote
  <2>7. CASE Complete(c)
    BY <2>1, <2>7 DEF Complete
  <2>8. CASE Abort(c)
    BY <2>1, <2>8 DEF Abort, Statement
  <2> QED
    BY <1>8, <2>2, <2>3, <2>4, <2>5, <2>6, <2>7, <2>8
<1>9. ASSUME NEW d \in Scraps, FindScrapped(d) \/ Deduct(d) \/ LoseDeduction(d)
      PROVE  UNCHANGED orders
  BY <1>9 DEF FindScrapped, Deduct, LoseDeduction
<1>10. ASSUME NEW u \in Users,
              \/ BeginCreate(u) \/ BeginTransition(u) \/ Place(u) \/ BeginRemove(u)
              \/ BeginLine(u) \/ WriteLine(u) \/ GiveUp(u)
       PROVE  UNCHANGED orders
  <2>1. ASSUME NEW read, Reads(u, read) PROVE UNCHANGED orders
    BY <2>1 DEF Reads
  <2>2. CASE BeginCreate(u) \/ BeginTransition(u) \/ Place(u)
    BY <2>1, <2>2 DEF BeginCreate, BeginTransition, Place
  <2>3. CASE BeginRemove(u) \/ BeginLine(u)
    BY <2>1, <2>3 DEF BeginRemove, BeginLine
  <2>4. CASE WriteLine(u) \/ GiveUp(u)
    BY <2>1, <2>4 DEF WriteLine, GiveUp
  <2> QED
    BY <1>10, <2>2, <2>3, <2>4
<1>11. \/ UNCHANGED orders
       \/ \E c \in Cycles : Commit(c)
       \/ \E u \in Users : Create(u) \/ Transition(u) \/ Remove(u) \/ Reorder(u)
  BY <1>8, <1>9, <1>10 DEF Next, vars
<1> QED
  BY <1>2, <1>3, <1>4, <1>5, <1>6, <1>7, <1>11

\* A completed or cancelled order is final once nobody holds an earlier read.
THEOREM SettledOrdersAreFinal == Spec => SettledOrdersStay
<1>1. Inductive /\ [Next]_vars => [\A o \in Orders : Terminal(o) /\ ~InHand(o) => Terminal(o)']_vars
  BY SettledStep
<1> QED
  BY <1>1, InductiveInvariant, PTL DEF Spec, SettledOrdersStay

-----------------------------------------------------------------------------
(* When cycles and edits take turns *)

\* No order that a cycle or a user works on has been completed or cancelled,
\* and no line that a user edits has been allocated to.
CycleFresh(t) ==
  /\ t.pc = "idle" => t = NoTx
  /\ t.order # Null => ~Terminal(t.order)
  /\ \A o \in Orders : t.orders[o] # Null => ~Terminal(o)
  /\ \A l \in t.new : ~Terminal(l[1])
EditFresh(e) ==
  /\ e.op \in {"place", "transition"} => ~Terminal(e.order)
  /\ e.op \in {"add", "retarget", "drop"} => \A l \in Lines : l[1] = e.order => made[l] = 0

NothingStale == (\A c \in Cycles : CycleFresh(tx[c])) /\ (\A u \in Users : EditFresh(edit[u]))

\* The row can be allocated n more items.
Room(row, n) == row # Null => Good(row) + n <= row.target

\* Every row is within its target, and will be after the next allocation.
HasRoom(c) == tx[c].pc = "allocate" => Room(LineOf(c, <<tx[c].order, tx[c].product>>), 1)
WithinTargets ==
  /\ \A l \in Lines : Room(lines[l], 0)
  /\ \A c \in Cycles, l \in Lines : Room(tx[c].lines[l], 0)
  /\ \A c \in Cycles : HasRoom(c)

\* What a cycle does before it commits changes none
\* of the committed rows.
LEMMA StatementKeeps ==
  ASSUME NEW c \in Cycles,
         \/ Heal(c) \/ Select(c) \/ Allocate(c) \/ Promote(c)
         \/ Demote(c) \/ Complete(c) \/ Abort(c)
  PROVE  \E t : Statement(c, t)
<1>1. CASE Heal(c)
  BY <1>1 DEF Heal
<1>2. CASE Select(c)
  <2>1. PICK p \in tx[c].todo :
       LET rest == [tx[c] EXCEPT !.todo = @ \ {p}]
       IN  IF Eligible(c, p) = {}
           THEN Statement(c, [rest EXCEPT !.pc = NextProduct(rest)])
           ELSE \E o \in Eligible(c, p) : \E t : Statement(c, t)
    BY <1>2 DEF Select
  <2> QED
    BY <2>1
<1>3. CASE Allocate(c) \/ Promote(c)
  BY <1>3 DEF Allocate, Promote
<1>4. CASE Demote(c) \/ Complete(c) \/ Abort(c)
  BY <1>4 DEF Demote, Complete, Abort
<1> QED
  BY <1>1, <1>2, <1>3, <1>4

\* Nor does what a user only reads.
LEMMA ReadKeeps ==
  ASSUME NEW u \in Users,
         \/ BeginCreate(u) \/ BeginTransition(u) \/ Place(u)
         \/ BeginRemove(u) \/ BeginLine(u) \/ GiveUp(u)
  PROVE  \E e : Reads(u, e)
<1>1. CASE BeginCreate(u) \/ BeginTransition(u) \/ Place(u)
  BY <1>1 DEF BeginCreate, BeginTransition, Place
<1>2. CASE BeginRemove(u) \/ BeginLine(u) \/ GiveUp(u)
  BY <1>2 DEF BeginRemove, BeginLine, GiveUp
<1> QED
  BY <1>1, <1>2

\* An order that a transaction sees open or in progress is neither completed
\* nor cancelled, and nor is one whose row it has written.
LEMMA LiveSeen ==
  ASSUME Inductive, NEW c \in Cycles, CycleFresh(tx[c]), NEW o \in Orders,
         OrderOf(c, o) # Null, OrderOf(c, o).status \in {"OPEN", "IN_PROGRESS"}
  PROVE  ~Terminal(o)
BY DEF CycleFresh, OrderOf, Terminal

\* An aborted or committed transaction, and an edit that is over, hold nothing.
LEMMA NothingHeld == CycleFresh(NoTx) /\ EditFresh(NoEdit)
BY NoTxSound DEF CycleFresh, EditFresh, NoEdit

\* The statements of a cycle, up to its commit, work on orders that are live.
LEMMA StatementFresh ==
  ASSUME Inductive, NEW c \in Cycles, CycleFresh(tx[c]),
         \/ Heal(c) \/ Select(c) \/ Allocate(c) \/ Promote(c)
         \/ Demote(c) \/ Complete(c) \/ Abort(c)
  PROVE  \E t : Statement(c, t) /\ CycleFresh(t)
<1>1. tx[c] \in TxType /\ Null \notin Orders
  BY OrderAssumption DEF Inductive
<1>2. ASSUME NEW t, Statement(c, t), t.pc # "idle", t.order # Null => ~Terminal(t.order),
             \A o \in Orders : t.orders[o] # Null => ~Terminal(o),
             \A l \in t.new : ~Terminal(l[1])
      PROVE  \E s : Statement(c, s) /\ CycleFresh(s)
  BY <1>2 DEF CycleFresh
<1>3. ASSUME NEW t PROVE NextProduct(t) # "idle" /\ AfterDemote(t) # "idle" /\ AfterPromote(t) # "idle"
  BY DEF NextProduct, AfterDemote, AfterPromote
<1>4. /\ tx[c].order # Null => ~Terminal(tx[c].order)
      /\ \A o \in Orders : tx[c].orders[o] # Null => ~Terminal(o)
      /\ \A l \in tx[c].new : ~Terminal(l[1])
  BY DEF CycleFresh
<1>5. CASE Heal(c)
  <2>1. PICK todo \in Todo(c) : Statement(c, [tx[c] EXCEPT
          !.pc = "select", !.todo = todo,
          !.lines = [l \in Lines |-> IF l \in StaleLines(c)
            THEN [LineOf(c, l) EXCEPT !.status = "COMPLETED"] ELSE tx[c].lines[l]],
          !.orders = [o \in Orders |-> IF o \in DoneOrders(c)
            THEN [OrderOf(c, o) EXCEPT !.status = "COMPLETED"] ELSE tx[c].orders[o]]])
    BY <1>5 DEF Heal
  <2> DEFINE ls == [l \in Lines |-> IF l \in StaleLines(c)
            THEN [LineOf(c, l) EXCEPT !.status = "COMPLETED"] ELSE tx[c].lines[l]]
             os == [o \in Orders |-> IF o \in DoneOrders(c)
            THEN [OrderOf(c, o) EXCEPT !.status = "COMPLETED"] ELSE tx[c].orders[o]]
             t == [tx[c] EXCEPT !.pc = "select", !.todo = todo, !.lines = ls, !.orders = os]
  <2>2. Statement(c, t)
    BY <2>1
  <2>3. \A o \in Orders : os[o] # Null => ~Terminal(o)
    <3>1. \A o \in DoneOrders(c) : ~Terminal(o)
      BY LiveSeen DEF DoneOrders, Active
    <3> QED
      BY <1>4, <3>1
  <2>4. t.pc = "select" /\ t.order = tx[c].order /\ t.orders = os /\ t.new = tx[c].new
    BY <1>1 DEF TxType
  <2> HIDE DEF t, os
  <2> QED
    BY <1>2, <1>4, <2>2, <2>3, <2>4
<1>6. CASE Select(c)
  <2>1. PICK p \in tx[c].todo :
       LET rest == [tx[c] EXCEPT !.todo = @ \ {p}]
       IN  IF Eligible(c, p) = {}
           THEN Statement(c, [rest EXCEPT !.pc = NextProduct(rest)])
           ELSE \E o \in Eligible(c, p) :
                  /\ \A q \in Eligible(c, p) : Rank(OrderOf(c, o)) <= Rank(OrderOf(c, q))
                  /\ Statement(c, [rest EXCEPT
                       !.pc = "allocate", !.product = p, !.order = o,
                       !.open = OrderOf(c, o).status = "OPEN",
                       !.sequence = OrderOf(c, o).sequence,
                       !.after = StatusAfter(LineOf(c, <<o, p>>))])
    BY <1>6 DEF Select
  <2> DEFINE rest == [tx[c] EXCEPT !.todo = @ \ {p}]
             s == [rest EXCEPT !.pc = NextProduct(rest)]
  <2>2. CASE Eligible(c, p) = {}
    <3>1. Statement(c, s)
      BY <2>1, <2>2
    <3>2. s.pc = NextProduct(rest) /\ s.order = tx[c].order /\ s.orders = tx[c].orders /\ s.new = tx[c].new
      BY <1>1 DEF TxType
    <3> HIDE DEF s, rest
    <3> QED
      BY <1>2, <1>3, <1>4, <3>1, <3>2
  <2>3. CASE Eligible(c, p) # {}
    <3>1. PICK o \in Eligible(c, p) : Statement(c, [rest EXCEPT
                       !.pc = "allocate", !.product = p, !.order = o,
                       !.open = OrderOf(c, o).status = "OPEN",
                       !.sequence = OrderOf(c, o).sequence,
                       !.after = StatusAfter(LineOf(c, <<o, p>>))])
      BY <2>1, <2>3
    <3> DEFINE t == [rest EXCEPT
                       !.pc = "allocate", !.product = p, !.order = o,
                       !.open = OrderOf(c, o).status = "OPEN",
                       !.sequence = OrderOf(c, o).sequence,
                       !.after = StatusAfter(LineOf(c, <<o, p>>))]
    <3>2. t.pc = "allocate" /\ t.order = o /\ t.orders = tx[c].orders /\ t.new = tx[c].new
      BY <1>1 DEF TxType
    <3>3. Statement(c, t)
      BY <3>1
    <3>4. ~Terminal(o)
      BY LiveSeen DEF Eligible, Active
    <3> HIDE DEF t
    <3> QED
      BY <1>2, <1>4, <3>2, <3>3, <3>4
  <2> QED
    BY <2>2, <2>3
<1>7. CASE Allocate(c)
  <2> DEFINE l == <<tx[c].order, tx[c].product>>
             t == [tx[c] EXCEPT
           !.pc = IF tx[c].open THEN "promote" ELSE AfterPromote(tx[c]),
           !.new = tx[c].new \cup {l}, !.after = Null,
           !.lines = [tx[c].lines EXCEPT ![l] =
             [LineOf(c, l) EXCEPT !.completed = @ + 1, !.status = tx[c].after]]]
  <2>1. Statement(c, t) /\ tx[c].order # Null
    BY <1>1, <1>7 DEF Allocate, Inductive, TxSound, PlanSound
  <2>2. /\ t.pc = (IF tx[c].open THEN "promote" ELSE AfterPromote(tx[c]))
        /\ t.order = tx[c].order /\ t.orders = tx[c].orders /\ t.new = tx[c].new \cup {l}
    BY <1>1 DEF TxType
  <2>3. \A k \in t.new : ~Terminal(k[1])
    BY <1>4, <2>1, <2>2
  <2> HIDE DEF t
  <2> QED
    BY <1>2, <1>3, <1>4, <2>1, <2>2, <2>3
<1>8. CASE Promote(c)
  <2> DEFINE o == tx[c].order
             os == [tx[c].orders EXCEPT ![o] =
             [OrderOf(c, o) EXCEPT !.status = "IN_PROGRESS", !.previousStatus = "OPEN"]]
             t == [tx[c] EXCEPT !.pc = AfterPromote(tx[c]), !.open = FALSE, !.orders = os]
  <2>1. Statement(c, t) /\ o \in Orders
    BY <1>8 DEF Promote, Inductive, TxSound, PlanSound
  <2>2. t.pc = AfterPromote(tx[c]) /\ t.order = o /\ t.orders = os /\ t.new = tx[c].new
    BY <1>1 DEF TxType
  <2>3. \A q \in Orders : os[q] # Null => ~Terminal(q)
    BY <1>1, <1>4, <2>1 DEF TxType
  <2> HIDE DEF t, os
  <2> QED
    BY <1>2, <1>3, <1>4, <2>1, <2>2, <2>3
<1>9. CASE Demote(c)
  <2> DEFINE os == [o \in Orders |-> IF o \in Demoted(c)
         THEN [OrderOf(c, o) EXCEPT !.status = "OPEN", !.previousStatus = "IN_PROGRESS"]
         ELSE tx[c].orders[o]]
             t == [tx[c] EXCEPT !.pc = AfterDemote(tx[c]), !.sequence = Null, !.orders = os]
  <2>1. Statement(c, t)
    BY <1>9 DEF Demote
  <2>2. t.pc = AfterDemote(tx[c]) /\ t.order = tx[c].order /\ t.orders = os /\ t.new = tx[c].new
    BY <1>1 DEF TxType
  <2>3. \A q \in Orders : os[q] # Null => ~Terminal(q)
    <3>1. \A q \in Demoted(c) : ~Terminal(q)
      BY LiveSeen DEF Demoted
    <3> QED
      BY <1>4, <3>1
  <2> HIDE DEF t, os
  <2> QED
    BY <1>2, <1>3, <1>4, <2>1, <2>2, <2>3
<1>10. CASE Complete(c)
  <2> DEFINE o == tx[c].order
             completes == \A l \in LinesOf(o) : Fulfilled(LineOf(c, l))
             os == IF completes
             THEN [tx[c].orders EXCEPT ![o] = [OrderOf(c, o) EXCEPT !.status = "COMPLETED"]]
             ELSE tx[c].orders
             t == [tx[c] EXCEPT !.pc = NextProduct(tx[c]), !.product = Null, !.orders = os]
  <2>1. Statement(c, t)
    BY <1>10 DEF Complete
  <2>2. t.pc = NextProduct(tx[c]) /\ t.order = o /\ t.orders = os /\ t.new = tx[c].new
    BY <1>1 DEF TxType
  <2>3. \A q \in Orders : os[q] # Null => ~Terminal(q)
    <3>1. \A q \in Orders : q # o => os[q] = tx[c].orders[q]
      BY <1>1 DEF TxType
    <3> HIDE DEF os
    <3> QED
      BY <1>1, <1>4, <3>1
  <2> HIDE DEF t, os
  <2> QED
    BY <1>2, <1>3, <1>4, <2>1, <2>2, <2>3
<1>11. CASE Abort(c)
  BY <1>11, NothingHeld DEF Abort
<1> QED
  BY <1>5, <1>6, <1>7, <1>8, <1>9, <1>10, <1>11

\* Who writes a committed line.
LEMMA LinesMove ==
  ASSUME [Next]_vars
  PROVE  \/ UNCHANGED lines
         \/ \E c \in Cycles : Commit(c)
         \/ \E u \in Users : Create(u) \/ WriteLine(u)
         \/ \E d \in Scraps : Deduct(d)
<1>1. ASSUME NEW c \in Cycles,
             \/ Heal(c) \/ Select(c) \/ Allocate(c) \/ Promote(c)
             \/ Demote(c) \/ Complete(c) \/ Abort(c)
      PROVE  UNCHANGED lines
  BY <1>1, StatementKeeps DEF Statement
<1>2. ASSUME NEW u \in Users,
             \/ BeginCreate(u) \/ BeginTransition(u) \/ Place(u)
             \/ BeginRemove(u) \/ BeginLine(u) \/ GiveUp(u)
      PROVE  UNCHANGED lines
  BY <1>2, ReadKeeps DEF Reads
<1>3. ASSUME NEW u \in Users, Transition(u) \/ Remove(u) \/ Reorder(u) PROVE UNCHANGED lines
  BY <1>3 DEF Transition, Remove, Reorder
<1>4. ASSUME NEW d \in Scraps, FindScrapped(d) \/ LoseDeduction(d) PROVE UNCHANGED lines
  BY <1>4 DEF FindScrapped, LoseDeduction
<1> QED
  BY <1>1, <1>2, <1>3, <1>4 DEF Next, vars

\* A deduction writes one line that no cycle has written: one more is scrapped.
LEMMA DeductedRow ==
  ASSUME Inductive, NEW d \in Scraps, Deduct(d)
  PROVE  \E l \in Lines, row \in LineRow :
           /\ lines' = [lines EXCEPT ![l] = row] /\ LineFree(Null, l)
           /\ lines[l] \in LineRow /\ row.target = lines[l].target
           /\ row.completed = lines[l].completed /\ row.scrap = lines[l].scrap + 1
<1> DEFINE l == scraps[d].line
           row == [lines[l] EXCEPT !.scrap = lines[l].scrap + 1, !.status = scraps[d].after]
<1>1. l \in Lines /\ lines[l] \in LineRow /\ scraps[d].after \in LineStatus /\ LineFree(Null, l)
  BY DEF Deduct, Inductive, ScrapsSound, Data
<1>2. lines' = [lines EXCEPT ![l] = row]
  BY DEF Deduct
<1>3. /\ row \in LineRow /\ row.target = lines[l].target
      /\ row.completed = lines[l].completed /\ row.scrap = lines[l].scrap + 1
  <2>1. lines[l].scrap + 1 \in Nat
    BY <1>1 DEF LineRow
  <2> HIDE DEF l
  <2> QED
    BY <1>1, <2>1 DEF LineRow
<1> HIDE DEF row, l
<1> QED
  BY <1>1, <1>2, <1>3

\* What users read is fresh: live orders to change, and lines without allocations.
LEMMA ReadFresh ==
  ASSUME Inductive, NEW u \in Users, EditFresh(edit[u]),
         \/ BeginCreate(u) \/ BeginTransition(u) \/ Place(u)
         \/ BeginRemove(u) \/ BeginLine(u) \/ GiveUp(u)
  PROVE  \E e : Reads(u, e) /\ EditFresh(e)
<1>1. edit[u] \in EditType
  BY DEF Inductive
<1>2. CASE BeginCreate(u)
  <2>1. PICK o \in Orders, to \in {"DRAFT", "OPEN"} :
          /\ orders[o] = Null
          /\ Reads(u, [NoEdit EXCEPT !.op = IF NeedsPlace(to, Null) THEN "place" ELSE "create",
                                     !.order = o, !.to = to])
    BY <1>2 DEF BeginCreate
  <2> DEFINE e == [NoEdit EXCEPT !.op = IF NeedsPlace(to, Null) THEN "place" ELSE "create",
                                 !.order = o, !.to = to]
  <2>2. e.op \in {"place", "create"} /\ e.order = o
    BY DEF NoEdit
  <2> HIDE DEF e
  <2>3. ~Terminal(o)
    BY <2>1 DEF Terminal
  <2>4. EditFresh(e)
    BY <2>2, <2>3 DEF EditFresh
  <2> QED
    BY <2>1, <2>4 DEF e
<1>3. CASE BeginTransition(u)
  <2>1. PICK o \in Orders :
          /\ orders[o] # Null /\ ~orders[o].deleted
          /\ \E to \in Transitions[orders[o].status] :
               Reads(u, [NoEdit EXCEPT
                 !.op = IF NeedsPlace(to, orders[o].sequence) THEN "place" ELSE "transition",
                 !.order = o, !.to = to, !.status = orders[o].status])
    BY <1>3 DEF BeginTransition
  <2>2. PICK to \in Transitions[orders[o].status] :
               Reads(u, [NoEdit EXCEPT
                 !.op = IF NeedsPlace(to, orders[o].sequence) THEN "place" ELSE "transition",
                 !.order = o, !.to = to, !.status = orders[o].status])
    BY <2>1
  <2> DEFINE e == [NoEdit EXCEPT
                 !.op = IF NeedsPlace(to, orders[o].sequence) THEN "place" ELSE "transition",
                 !.order = o, !.to = to, !.status = orders[o].status]
  <2>3. e.op \in {"place", "transition"} /\ e.order = o
    BY DEF NoEdit
  <2> HIDE DEF e
  <2>4. ~Terminal(o)
    BY <2>2 DEF Terminal, Transitions
  <2>5. EditFresh(e)
    BY <2>3, <2>4 DEF EditFresh
  <2> QED
    BY <2>2, <2>5 DEF e
<1>4. CASE Place(u)
  <2>1. PICK n \in 1..MaxSequence :
          Reads(u, [edit[u] EXCEPT !.sequence = n,
                                   !.op = IF edit[u].status = Null THEN "create" ELSE "transition"])
    BY <1>4 DEF Place
  <2> DEFINE e == [edit[u] EXCEPT !.sequence = n,
                                  !.op = IF edit[u].status = Null THEN "create" ELSE "transition"]
  <2>2. e.op \in {"create", "transition"} /\ e.order = edit[u].order
    BY <1>1 DEF EditType
  <2> HIDE DEF e
  <2>3. ~Terminal(edit[u].order)
    BY <1>4 DEF Place, EditFresh
  <2>4. EditFresh(e)
    BY <2>2, <2>3 DEF EditFresh
  <2> QED
    BY <2>1, <2>4 DEF e
<1>5. CASE BeginRemove(u)
  <2>1. PICK o \in Orders : Reads(u, [NoEdit EXCEPT !.op = "remove", !.order = o])
    BY <1>5 DEF BeginRemove
  <2>2. EditFresh([NoEdit EXCEPT !.op = "remove", !.order = o])
    BY DEF NoEdit, EditFresh
  <2> QED
    BY <2>1, <2>2
<1>6. CASE BeginLine(u)
  <2>1. PICK l \in Lines, op \in {"add", "retarget", "drop"} :
          /\ ~HasAllocations(l[1])
          /\ Reads(u, [NoEdit EXCEPT !.op = op, !.order = l[1], !.product = l[2]])
    BY <1>6 DEF BeginLine
  <2> DEFINE e == [NoEdit EXCEPT !.op = op, !.order = l[1], !.product = l[2]]
  <2>2. e.op \in {"add", "retarget", "drop"} /\ e.order = l[1]
    BY DEF NoEdit
  <2> HIDE DEF e
  <2>3. \A k \in Lines : k[1] = l[1] => made[k] = 0
    <3>1. \A k \in Lines : k[1] = l[1] /\ lines[k] # Null => ~(made[k] > 0)
      BY <2>1 DEF HasAllocations, LinesOf
    <3>2. \A k \in Lines : made[k] \in Nat /\ (lines[k] = Null => made[k] = 0)
      BY DEF Inductive, Data, Homes
    <3> QED
      BY <3>1, <3>2
  <2>4. EditFresh(e)
    BY <2>2, <2>3 DEF EditFresh
  <2> QED
    BY <2>1, <2>4 DEF e
<1>7. CASE GiveUp(u)
  BY <1>7, NothingHeld DEF GiveUp
<1> QED
  BY <1>2, <1>3, <1>4, <1>5, <1>6, <1>7

\* A cycle whose turn it is, is alone.
LEMMA CycleAlone ==
  ASSUME Inductive, OneWriter, NothingStale, NEW c \in Cycles, tx[c].pc # "idle"
  PROVE  (\A d \in Cycles : d # c => tx[d] = NoTx) /\ \A u \in Users : edit[u].op = "none"
BY DEF OneWriter, NothingStale, CycleFresh, Idle

\* So is a user.
LEMMA UserAlone ==
  ASSUME Inductive, OneWriter, NothingStale, NEW u \in Users, ~Idle(u)
  PROVE  (\A c \in Cycles : tx[c] = NoTx) /\ \A v \in Users : v # u => edit[v].op = "none"
BY DEF OneWriter, NothingStale, CycleFresh, Idle

\* Every step keeps it, as long as cycles and edits take turns.
LEMMA FreshStep ==
  ASSUME Inductive, OneWriter, NothingStale, [Next]_vars
  PROVE  NothingStale'
<1>1. tx \in [Cycles -> TxType] /\ edit \in [Users -> EditType]
  BY DEF Inductive
<1>2. /\ \A c \in Cycles : CycleFresh(tx[c])
      /\ \A u \in Users : EditFresh(edit[u])
  BY DEF NothingStale
<1>3. ASSUME NEW c \in Cycles, NEW t, Statement(c, t), CycleFresh(t)
      PROVE  NothingStale'
  <2>1. \A o : Terminal(o)' <=> Terminal(o)
    BY <1>3 DEF Statement, Terminal
  <2>2. UNCHANGED <<made, edit>> /\ \A d \in Cycles : tx'[d] = IF d = c THEN t ELSE tx[d]
    BY <1>1, <1>3 DEF Statement
  <2>3. /\ \A d \in Cycles : CycleFresh(tx'[d])
        /\ \A u \in Users : EditFresh(edit'[u])
    BY <1>2, <1>3, <2>2
  <2> QED
    BY <2>1, <2>2, <2>3 DEF NothingStale, CycleFresh, EditFresh
<1>4. ASSUME NEW u \in Users, NEW e, Reads(u, e), EditFresh(e)
      PROVE  NothingStale'
  <2>1. \A o : Terminal(o)' <=> Terminal(o)
    BY <1>4 DEF Reads, Terminal
  <2>2. UNCHANGED <<made, tx>> /\ \A v \in Users : edit'[v] = IF v = u THEN e ELSE edit[v]
    BY <1>1, <1>4 DEF Reads
  <2>3. /\ \A c \in Cycles : CycleFresh(tx'[c])
        /\ \A v \in Users : EditFresh(edit'[v])
    BY <1>2, <1>4, <2>2
  <2> QED
    BY <2>1, <2>2, <2>3 DEF NothingStale, CycleFresh, EditFresh
<1>5. ASSUME NEW c \in Cycles, Commit(c) PROVE NothingStale'
  <2>1. /\ \A d \in Cycles : tx'[d] = NoTx
        /\ \A u \in Users : edit'[u].op = "none"
    <3>1. tx' = [tx EXCEPT ![c] = NoTx] /\ edit' = edit /\ tx[c].pc # "idle"
      BY <1>5 DEF Commit
    <3> QED
      BY <1>1, <3>1, CycleAlone
  <2> QED
    BY <2>1, NoTxSound DEF NothingStale, CycleFresh, EditFresh
<1>6. ASSUME NEW u \in Users, Create(u) \/ Transition(u) \/ Remove(u) \/ WriteLine(u)
      PROVE  NothingStale'
  <2>1. edit' = [edit EXCEPT ![u] = NoEdit] /\ tx' = tx /\ ~Idle(u)
    BY <1>6 DEF Create, Transition, Remove, WriteLine, Idle
  <2>2. /\ \A c \in Cycles : tx'[c] = NoTx
        /\ \A v \in Users : edit'[v].op = "none"
    BY <1>1, <2>1, UserAlone DEF NoEdit
  <2> QED
    BY <2>2, NoTxSound DEF NothingStale, CycleFresh, EditFresh
<1>7. ASSUME NEW u \in Users, Reorder(u) PROVE NothingStale'
  <2>1. UNCHANGED <<made, tx, edit>>
    BY <1>7 DEF Reorder
  <2>2. ASSUME NEW o \in Orders PROVE Terminal(o)' <=> Terminal(o)
    <3>1. orders[o] \in OrderRow \cup {Null} /\ orders \in [Orders -> OrderRow \cup {Null}]
      BY DEF Inductive, Data
    <3>2. PICK place :
            \/ orders'[o] = orders[o]
            \/ /\ place \in Nat /\ orders[o] # Null
               /\ orders'[o] = [orders[o] EXCEPT !.sequence = place]
      BY <1>7 DEF Reorder, Bijection, Injection
    <3>3. CASE place \in Nat /\ orders[o] # Null /\ orders'[o] = [orders[o] EXCEPT !.sequence = place]
      <4> DEFINE row == [orders[o] EXCEPT !.sequence = place]
      <4>1. row \in OrderRow /\ row # Null /\ row.status = orders[o].status
        BY <3>1, <3>3, OrderAssumption DEF OrderRow
      <4> QED
        BY <3>3, <4>1 DEF Terminal
    <3> QED
      BY <3>2, <3>3 DEF Terminal
  <2>3. ASSUME NEW c \in Cycles PROVE CycleFresh(tx[c])'
    <3>1. CycleFresh(tx[c]) /\ tx[c] \in TxType /\ tx'[c] = tx[c]
      BY <1>1, <1>2, <2>1
    <3>2. \A l \in tx[c].new : l[1] \in Orders
      BY <3>1, LinePair DEF TxType
    <3> QED
      BY <2>1, <2>2, <3>1, <3>2 DEF CycleFresh, TxType
  <2>4. ASSUME NEW v \in Users PROVE EditFresh(edit[v])'
    <3>1. EditFresh(edit[v]) /\ EditSound(edit[v]) /\ edit'[v] = edit[v]
      BY <1>2, <2>1 DEF Inductive, EditsSound
    <3> QED
      BY <2>1, <2>2, <3>1 DEF EditFresh, EditSound
  <2> QED
    BY <2>3, <2>4 DEF NothingStale
<1>8. ASSUME UNCHANGED <<orders, made, tx, edit>> PROVE NothingStale'
  BY <1>8 DEF NothingStale, CycleFresh, EditFresh, Terminal
<1>9. ASSUME NEW c \in Cycles,
             \/ Heal(c) \/ Select(c) \/ Allocate(c) \/ Promote(c)
             \/ Demote(c) \/ Complete(c) \/ Abort(c)
      PROVE  NothingStale'
  BY <1>2, <1>3, <1>9, StatementFresh
<1>10. ASSUME NEW u \in Users,
              \/ BeginCreate(u) \/ BeginTransition(u) \/ Place(u)
              \/ BeginRemove(u) \/ BeginLine(u) \/ GiveUp(u)
       PROVE  NothingStale'
  BY <1>2, <1>4, <1>10, ReadFresh
<1>11. ASSUME NEW d \in Scraps, FindScrapped(d) \/ Deduct(d) \/ LoseDeduction(d)
       PROVE  NothingStale'
  BY <1>8, <1>11 DEF FindScrapped, Deduct, LoseDeduction
<1>12. CASE UNCHANGED vars
  BY <1>8, <1>12 DEF vars
<1> QED
  BY <1>5, <1>6, <1>7, <1>9, <1>10, <1>11, <1>12 DEF Next

\* Completed and cancelled orders are not in hand, so they stay (SettledStep).
LEMMA TerminalStep ==
  ASSUME Inductive, NothingStale, [Next]_vars
  PROVE  \A o \in Orders : Terminal(o) => Terminal(o)'
<1> SUFFICES ASSUME NEW o \in Orders, Terminal(o) PROVE Terminal(o)'
  OBVIOUS
<1>1. ~InHand(o)
  BY OrderAssumption DEF InHand, NothingStale, CycleFresh, EditFresh
<1> QED
  BY <1>1, SettledStep

\* The one step that removes a line is a user's, who has seen no allocation.
LEMMA LineStep ==
  ASSUME Inductive, NothingStale, [Next]_vars, NEW l \in Lines, made[l] > 0
  PROVE  lines'[l] # Null
<1>1. lines[l] # Null /\ lines[l] \in LineRow /\ lines \in [Lines -> LineRow \cup {Null}]
  BY DEF Inductive, Homes, Data
<1>2. ASSUME NEW c \in Cycles, Commit(c) PROVE lines'[l] # Null
  BY <1>1, <1>2, Seen DEF Commit
<1>3. ASSUME NEW u \in Users, Create(u) PROVE lines'[l] # Null
  BY <1>1, <1>3, NewLineRow, OrderAssumption DEF Create
<1>4. ASSUME NEW u \in Users, WriteLine(u) PROVE lines'[l] # Null
  <2> DEFINE k == <<edit[u].order, edit[u].product>>
             op == edit[u].op
  <2>1. op \in {"add", "retarget", "drop"} /\ k \in Lines /\ k[1] = edit[u].order
    BY <1>4, LinePair DEF WriteLine, Inductive, EditsSound, EditSound
  <2>2. k # l
    <3>1. made[k] = 0
      BY <2>1 DEF NothingStale, EditFresh
    <3> QED
      BY <3>1
  <2>3. lines'[l] = lines[l]
    BY <1>1, <1>4, <2>2 DEF WriteLine
  <2> QED
    BY <1>1, <2>3
<1>5. ASSUME NEW d \in Scraps, Deduct(d) PROVE lines'[l] # Null
  BY <1>1, <1>5, DeductedRow, OrderAssumption
<1>6. \/ UNCHANGED lines
      \/ \E c \in Cycles : Commit(c)
      \/ \E u \in Users : Create(u) \/ WriteLine(u)
      \/ \E d \in Scraps : Deduct(d)
  BY LinesMove
<1> QED
  BY <1>1, <1>2, <1>3, <1>4, <1>5, <1>6

\* COMPLETED and CANCELLED have no way out when cycles and edits take turns.
THEOREM TurnsKeepOrdersFinal == Spec /\ []OneWriter => TerminalOrdersStay
<1>1. Init => NothingStale
  BY NothingHeld DEF Init, NothingStale
<1>2. Inductive /\ OneWriter /\ NothingStale /\ [Next]_vars => NothingStale'
  BY FreshStep
<1>3. Inductive /\ NothingStale /\ [Next]_vars => [\A o \in Orders : Terminal(o) => Terminal(o)']_vars
  BY TerminalStep
<1> QED
  BY <1>1, <1>2, <1>3, InductiveInvariant, PTL DEF Spec, TerminalOrdersStay

\* A line with allocations is not removed when cycles and edits take turns.
THEOREM TurnsKeepAllocatedLines == Spec /\ []OneWriter => AllocatedLinesStay
<1>1. Init => NothingStale
  BY NothingHeld DEF Init, NothingStale
<1>2. Inductive /\ OneWriter /\ NothingStale /\ [Next]_vars => NothingStale'
  BY FreshStep
<1>3. Inductive /\ NothingStale /\ [Next]_vars => [\A l \in Lines : made[l] > 0 => lines'[l] # Null]_vars
  BY LineStep
<1> QED
  BY <1>1, <1>2, <1>3, InductiveInvariant, PTL DEF Spec, AllocatedLinesStay

\* A statement keeps every row within its target if what it writes is.
LEMMA RoomAfter ==
  ASSUME Inductive, WithinTargets, NEW c \in Cycles, NEW t, Statement(c, t),
         \A l \in Lines : Room(t.lines[l], 0),
         t.pc = "allocate" =>
           LET l == <<t.order, t.product>>
           IN  Room(IF t.lines[l] # Null THEN t.lines[l] ELSE lines[l], 1)
  PROVE  WithinTargets'
<1>1. lines' = lines /\ \A d \in Cycles : tx'[d] = IF d = c THEN t ELSE tx[d]
  BY DEF Statement, Inductive
<1>2. \A l \in Lines : Room(lines'[l], 0)
  BY <1>1 DEF WithinTargets
<1>3. \A d \in Cycles, l \in Lines : Room(tx'[d].lines[l], 0)
  BY <1>1 DEF WithinTargets
<1>4. ASSUME NEW d \in Cycles PROVE HasRoom(d)'
  <2>1. CASE d = c
    BY <1>1, <2>1 DEF HasRoom, LineOf, Room, Good
  <2>2. CASE d # c
    <3>1. tx'[d] = tx[d] /\ HasRoom(d)
      BY <1>1, <2>2 DEF WithinTargets
    <3> QED
      BY <1>1, <3>1 DEF HasRoom, LineOf, Room, Good
  <2> QED
    BY <2>1, <2>2
<1> QED
  BY <1>2, <1>3, <1>4 DEF WithinTargets, Room, Good

\* A cycle allocates to a line that has room, on a site that completes by itself.
LEMMA StatementWithin ==
  ASSUME Inductive, AutoComplete, WithinTargets, NEW c \in Cycles,
         \/ Heal(c) \/ Select(c) \/ Allocate(c) \/ Promote(c)
         \/ Demote(c) \/ Complete(c) \/ Abort(c)
  PROVE  WithinTargets'
<1>1. tx[c] \in TxType /\ \A l \in Lines : Room(tx[c].lines[l], 0)
  BY DEF Inductive, WithinTargets
<1>2. /\ \A l \in Lines : LineOf(c, l) \in LineRow \cup {Null}
      /\ \A l \in Lines : Room(LineOf(c, l), 0)
  <2>1. \A l \in Lines : Room(lines[l], 0)
    BY DEF WithinTargets
  <2> QED
    BY <1>1, <2>1, Seen DEF LineOf
<1>3. ASSUME NEW t, Statement(c, t), t.pc # "allocate", \A l \in Lines : Room(t.lines[l], 0)
      PROVE  WithinTargets'
  BY <1>3, RoomAfter
<1>4. ASSUME NEW t PROVE /\ NextProduct(t) # "allocate" /\ AfterDemote(t) # "allocate"
                         /\ AfterPromote(t) # "allocate"
  BY DEF NextProduct, AfterDemote, AfterPromote
<1>5. CASE Heal(c)
  <2>1. PICK todo \in Todo(c) : Statement(c, [tx[c] EXCEPT
          !.pc = "select", !.todo = todo,
          !.lines = [l \in Lines |-> IF l \in StaleLines(c)
            THEN [LineOf(c, l) EXCEPT !.status = "COMPLETED"] ELSE tx[c].lines[l]],
          !.orders = [o \in Orders |-> IF o \in DoneOrders(c)
            THEN [OrderOf(c, o) EXCEPT !.status = "COMPLETED"] ELSE tx[c].orders[o]]])
    BY <1>5 DEF Heal
  <2> DEFINE ls == [l \in Lines |-> IF l \in StaleLines(c)
            THEN [LineOf(c, l) EXCEPT !.status = "COMPLETED"] ELSE tx[c].lines[l]]
             os == [o \in Orders |-> IF o \in DoneOrders(c)
            THEN [OrderOf(c, o) EXCEPT !.status = "COMPLETED"] ELSE tx[c].orders[o]]
             t == [tx[c] EXCEPT !.pc = "select", !.todo = todo, !.lines = ls, !.orders = os]
  <2>2. Statement(c, t)
    BY <2>1
  <2>3. t.pc = "select" /\ t.lines = ls
    BY <1>1 DEF TxType
  <2>4. ASSUME NEW l \in Lines PROVE Room(ls[l], 0)
    <3>1. CASE l \in StaleLines(c)
      <4> DEFINE row == [LineOf(c, l) EXCEPT !.status = "COMPLETED"]
      <4>1. LineOf(c, l) # Null /\ LineOf(c, l) \in LineRow
        BY <1>2, <3>1 DEF StaleLines
      <4>2. row.target = LineOf(c, l).target /\ Good(row) = Good(LineOf(c, l))
        BY <4>1 DEF LineRow, Good
      <4>3. Room(row, 0)
        BY <1>2, <4>1, <4>2 DEF Room
      <4> QED
        BY <3>1, <4>3
    <3>2. CASE l \notin StaleLines(c)
      BY <1>1, <3>2
    <3> QED
      BY <3>1, <3>2
  <2> HIDE DEF t, ls, os
  <2> QED
    BY <1>3, <2>2, <2>3, <2>4
<1>6. CASE Select(c)
  <2>1. PICK p \in tx[c].todo :
       LET rest == [tx[c] EXCEPT !.todo = @ \ {p}]
       IN  IF Eligible(c, p) = {}
           THEN Statement(c, [rest EXCEPT !.pc = NextProduct(rest)])
           ELSE \E o \in Eligible(c, p) :
                  /\ \A q \in Eligible(c, p) : Rank(OrderOf(c, o)) <= Rank(OrderOf(c, q))
                  /\ Statement(c, [rest EXCEPT
                       !.pc = "allocate", !.product = p, !.order = o,
                       !.open = OrderOf(c, o).status = "OPEN",
                       !.sequence = OrderOf(c, o).sequence,
                       !.after = StatusAfter(LineOf(c, <<o, p>>))])
    BY <1>6 DEF Select
  <2> DEFINE rest == [tx[c] EXCEPT !.todo = @ \ {p}]
             s == [rest EXCEPT !.pc = NextProduct(rest)]
  <2>2. CASE Eligible(c, p) = {}
    <3>1. Statement(c, s)
      BY <2>1, <2>2
    <3>2. s.pc = NextProduct(rest) /\ s.lines = tx[c].lines
      BY <1>1 DEF TxType
    <3> HIDE DEF s, rest
    <3> QED
      BY <1>1, <1>3, <1>4, <3>1, <3>2
  <2>3. CASE Eligible(c, p) # {}
    <3>1. PICK o \in Eligible(c, p) : Statement(c, [rest EXCEPT
                       !.pc = "allocate", !.product = p, !.order = o,
                       !.open = OrderOf(c, o).status = "OPEN",
                       !.sequence = OrderOf(c, o).sequence,
                       !.after = StatusAfter(LineOf(c, <<o, p>>))])
      BY <2>1, <2>3
    <3> DEFINE t == [rest EXCEPT
                       !.pc = "allocate", !.product = p, !.order = o,
                       !.open = OrderOf(c, o).status = "OPEN",
                       !.sequence = OrderOf(c, o).sequence,
                       !.after = StatusAfter(LineOf(c, <<o, p>>))]
               l == <<o, p>>
    <3>2. t.order = o /\ t.product = p /\ t.lines = tx[c].lines
      BY <1>1 DEF TxType
    <3>3. Statement(c, t)
      BY <3>1
    <3>4. Room(LineOf(c, l), 1)
      <4>1. l \in Lines
        BY <1>1, LinePair DEF Eligible, TxType
      <4>2. LineOf(c, l) \in LineRow /\ ~Fulfilled(LineOf(c, l))
        BY <1>2, <4>1 DEF Eligible
      <4> QED
        BY <4>2 DEF Room, Fulfilled, Good, LineRow
    <3>5. Room(IF t.lines[l] # Null THEN t.lines[l] ELSE lines[l], 1)
      BY <3>2, <3>4 DEF LineOf
    <3> HIDE DEF t
    <3> QED
      BY <1>1, <3>2, <3>3, <3>5, RoomAfter
  <2> QED
    BY <2>2, <2>3
<1>7. CASE Allocate(c)
  <2> DEFINE l == <<tx[c].order, tx[c].product>>
             row == [LineOf(c, l) EXCEPT !.completed = @ + 1, !.status = tx[c].after]
             ls == [tx[c].lines EXCEPT ![l] = row]
             t == [tx[c] EXCEPT
           !.pc = IF tx[c].open THEN "promote" ELSE AfterPromote(tx[c]),
           !.new = tx[c].new \cup {l}, !.after = Null, !.lines = ls]
  <2>1. Statement(c, t) /\ LineOf(c, l) # Null /\ tx[c].pc = "allocate"
    BY <1>7 DEF Allocate
  <2>2. t.pc = (IF tx[c].open THEN "promote" ELSE AfterPromote(tx[c])) /\ t.lines = ls
    BY <1>1 DEF TxType
  <2>3. l \in Lines /\ LineOf(c, l) \in LineRow
    BY <1>2, <2>1, LinePair DEF Inductive, TxSound, PlanSound
  <2>4. Good(LineOf(c, l)) + 1 <= LineOf(c, l).target
    BY <2>1 DEF WithinTargets, HasRoom, Room
  <2>5. Room(row, 0)
    <3>1. /\ row.completed = LineOf(c, l).completed + 1 /\ row.scrap = LineOf(c, l).scrap
          /\ row.target = LineOf(c, l).target
      BY <2>3 DEF LineRow
    <3>2. LineOf(c, l).completed \in Nat /\ LineOf(c, l).scrap \in Nat /\ LineOf(c, l).target \in Nat
      BY <2>3 DEF LineRow
    <3> HIDE DEF row, l
    <3> QED
      BY <2>4, <3>1, <3>2 DEF Room, Good
  <2>6. \A k \in Lines : ls[k] = IF k = l THEN row ELSE tx[c].lines[k]
    BY <1>1 DEF TxType
  <2> HIDE DEF t, ls, row, l
  <2>7. \A k \in Lines : Room(ls[k], 0)
    BY <1>1, <2>5, <2>6
  <2>8. t.pc # "allocate"
    BY <1>4, <2>2
  <2> QED
    BY <1>3, <2>1, <2>2, <2>7, <2>8
<1>8. CASE Promote(c)
  <2> DEFINE t == [tx[c] EXCEPT !.pc = AfterPromote(tx[c]), !.open = FALSE,
                     !.orders = [tx[c].orders EXCEPT ![tx[c].order] =
             [OrderOf(c, tx[c].order) EXCEPT !.status = "IN_PROGRESS", !.previousStatus = "OPEN"]]]
  <2>1. Statement(c, t)
    BY <1>8 DEF Promote
  <2>2. t.pc = AfterPromote(tx[c]) /\ t.lines = tx[c].lines
    BY <1>1 DEF TxType
  <2> HIDE DEF t
  <2> QED
    BY <1>1, <1>3, <1>4, <2>1, <2>2
<1>9. CASE Demote(c)
  <2> DEFINE t == [tx[c] EXCEPT !.pc = AfterDemote(tx[c]), !.sequence = Null,
                     !.orders = [o \in Orders |-> IF o \in Demoted(c)
         THEN [OrderOf(c, o) EXCEPT !.status = "OPEN", !.previousStatus = "IN_PROGRESS"]
         ELSE tx[c].orders[o]]]
  <2>1. Statement(c, t)
    BY <1>9 DEF Demote
  <2>2. t.pc = AfterDemote(tx[c]) /\ t.lines = tx[c].lines
    BY <1>1 DEF TxType
  <2> HIDE DEF t
  <2> QED
    BY <1>1, <1>3, <1>4, <2>1, <2>2
<1>10. CASE Complete(c)
  <2> DEFINE o == tx[c].order
             completes == \A l \in LinesOf(o) : Fulfilled(LineOf(c, l))
             t == [tx[c] EXCEPT !.pc = NextProduct(tx[c]), !.product = Null,
                     !.orders = IF completes
             THEN [tx[c].orders EXCEPT ![o] = [OrderOf(c, o) EXCEPT !.status = "COMPLETED"]]
             ELSE tx[c].orders]
  <2>1. Statement(c, t)
    BY <1>10 DEF Complete
  <2>2. t.pc = NextProduct(tx[c]) /\ t.lines = tx[c].lines
    BY <1>1 DEF TxType
  <2> HIDE DEF t
  <2> QED
    BY <1>1, <1>3, <1>4, <2>1, <2>2
<1>11. CASE Abort(c)
  <2>1. NoTx.pc # "allocate" /\ \A l \in Lines : Room(NoTx.lines[l], 0)
    BY DEF NoTx, Room
  <2> QED
    BY <1>3, <1>11, <2>1 DEF Abort
<1> QED
  BY <1>5, <1>6, <1>7, <1>8, <1>9, <1>10, <1>11

\* Committed rows within their targets are enough when no cycle runs.
LEMMA IdleWithin ==
  ASSUME \A l \in Lines : Room(lines'[l], 0), \A c \in Cycles : tx'[c] = NoTx
  PROVE  WithinTargets'
<1>1. NoTx.pc # "allocate" /\ \A l \in Lines : NoTx.lines[l] = Null
  BY DEF NoTx
<1> QED
  BY <1>1 DEF WithinTargets, HasRoom, Room, Good

\* Nothing takes a row above its target while cycles and edits take turns.
LEMMA WithinStep ==
  ASSUME Inductive, OneWriter, NothingStale, AutoComplete, WithinTargets, [Next]_vars
  PROVE  WithinTargets'
<1>1. /\ lines \in [Lines -> LineRow \cup {Null}] /\ tx \in [Cycles -> TxType]
      /\ \A l \in Lines : Room(lines[l], 0)
      /\ \A c \in Cycles, l \in Lines : Room(tx[c].lines[l], 0)
      /\ \A c \in Cycles : HasRoom(c)
  BY DEF Inductive, Data, WithinTargets
<1>2. ASSUME NEW c \in Cycles, Commit(c) PROVE WithinTargets'
  <2>1. tx' = [tx EXCEPT ![c] = NoTx] /\ tx[c].pc # "idle"
    BY <1>2 DEF Commit
  <2>2. \A d \in Cycles : tx'[d] = NoTx
    BY <1>1, <2>1, CycleAlone
  <2>3. \A l \in Lines : Room(lines'[l], 0)
    BY <1>1, <1>2 DEF Commit, LineOf
  <2> QED
    BY <2>2, <2>3, IdleWithin
<1>3. ASSUME NEW u \in Users, Create(u) PROVE WithinTargets'
  <2>1. \A l \in Lines : Room(lines'[l], 0)
    <3>1. PICK ps \in SUBSET Products, target \in 1..MaxTarget :
             lines' = [l \in Lines |-> IF l[1] = edit[u].order /\ l[2] \in ps
                                       THEN NewLine(target) ELSE lines[l]]
      BY <1>3 DEF Create
    <3>2. Room(NewLine(target), 0)
      BY DEF NewLine, Room, Good
    <3> QED
      BY <1>1, <3>1, <3>2
  <2>2. tx' = tx /\ ~Idle(u)
    BY <1>3 DEF Create, Idle
  <2> QED
    BY <2>1, <2>2, UserAlone, IdleWithin
<1>4. ASSUME NEW u \in Users, WriteLine(u) PROVE WithinTargets'
  <2> DEFINE k == <<edit[u].order, edit[u].product>>
             op == edit[u].op
  <2>1. op \in {"add", "retarget", "drop"} /\ k \in Lines /\ k[1] = edit[u].order
        /\ (op = "add") = (lines[k] = Null)
    BY <1>4, LinePair DEF WriteLine, Inductive, EditsSound, EditSound
  <2>2. PICK target \in 1..MaxTarget :
           lines' = [lines EXCEPT ![k] =
             CASE op = "add" -> NewLine(target)
               [] op = "retarget" -> [lines[k] EXCEPT !.target = target]
               [] op = "drop" -> Null]
    BY <1>4 DEF WriteLine
  <2>3. Room(NewLine(target), 0) /\ Room(Null, 0)
    BY DEF NewLine, Room, Good
  <2>4. ASSUME op = "retarget" PROVE Room([lines[k] EXCEPT !.target = target], 0)
    <3> DEFINE row == [lines[k] EXCEPT !.target = target]
    <3>1. lines[k] # Null /\ lines[k] \in LineRow
      BY <1>1, <2>1, <2>4
    <3>2. made[k] = 0
      BY <2>1 DEF NothingStale, EditFresh
    <3>3. lines[k].completed = 0 /\ lines[k].scrap \in Nat /\ target \in Nat
      BY <2>1, <3>1, <3>2 DEF Inductive, QuantitiesAddUp, LineRow
    <3>4. row.completed = lines[k].completed /\ row.scrap = lines[k].scrap /\ row.target = target
      BY <3>1 DEF LineRow
    <3> HIDE DEF row, k, op
    <3>5. Room(row, 0)
      BY <3>3, <3>4 DEF Room, Good
    <3> QED
      BY <3>5 DEF row
  <2>5. Room(lines'[k], 0) /\ \A l \in Lines : l # k => lines'[l] = lines[l]
    BY <1>1, <2>1, <2>2, <2>3, <2>4
  <2>6. tx' = tx /\ ~Idle(u)
    BY <1>4 DEF WriteLine, Idle
  <2> HIDE DEF k, op
  <2>7. \A l \in Lines : Room(lines'[l], 0)
    BY <1>1, <2>5
  <2> QED
    BY <2>6, <2>7, UserAlone, IdleWithin
<1>5. ASSUME NEW d \in Scraps, Deduct(d) PROVE WithinTargets'
  <2>1. PICK l \in Lines, row \in LineRow :
           /\ lines' = [lines EXCEPT ![l] = row] /\ LineFree(Null, l)
           /\ lines[l] \in LineRow /\ row.target = lines[l].target
           /\ row.completed = lines[l].completed /\ row.scrap = lines[l].scrap + 1
    BY <1>5, DeductedRow
  <2>2. tx' = tx /\ lines[l] # Null /\ \A c \in Cycles : tx[c].lines[l] = Null
    BY <1>5, <2>1, OrderAssumption DEF Deduct, LineFree
  <2>3. \A n \in {0, 1} : Room(lines[l], n) => Room(row, n)
    BY <2>1, <2>2 DEF Room, Good, LineRow
  <2>4. lines'[l] = row /\ \A k : k # l => lines'[k] = lines[k]
    BY <1>1, <2>1
  <2>5. \A k \in Lines : Room(lines'[k], 0)
    BY <1>1, <2>3, <2>4
  <2>6. ASSUME NEW c \in Cycles PROVE HasRoom(c)'
    <3> DEFINE k == <<tx[c].order, tx[c].product>>
    <3>1. tx'[c] = tx[c] /\ (tx[c].pc = "allocate" => Room(LineOf(c, k), 1))
      BY <1>1, <2>2 DEF HasRoom
    <3>2. CASE k = l
      BY <2>2, <2>3, <2>4, <3>1, <3>2 DEF HasRoom, LineOf
    <3>3. CASE k # l
      BY <2>2, <2>4, <3>1, <3>3 DEF HasRoom, LineOf
    <3> QED
      BY <3>2, <3>3
  <2> QED
    BY <1>1, <2>2, <2>5, <2>6 DEF WithinTargets, Room, Good
<1>6. CASE UNCHANGED <<lines, tx>>
  BY <1>1, <1>6 DEF WithinTargets, HasRoom, LineOf, Room, Good
<1>7. ASSUME NEW c \in Cycles,
             \/ Heal(c) \/ Select(c) \/ Allocate(c) \/ Promote(c)
             \/ Demote(c) \/ Complete(c) \/ Abort(c)
      PROVE  WithinTargets'
  BY <1>7, StatementWithin
<1>8. ASSUME NEW u \in Users,
             \/ BeginCreate(u) \/ BeginTransition(u) \/ Place(u)
             \/ BeginRemove(u) \/ BeginLine(u) \/ GiveUp(u)
      PROVE  UNCHANGED <<lines, tx>>
  BY <1>8, ReadKeeps DEF Reads
<1>9. ASSUME NEW u \in Users, Transition(u) \/ Remove(u) \/ Reorder(u)
      PROVE  UNCHANGED <<lines, tx>>
  BY <1>9 DEF Transition, Remove, Reorder
<1>10. ASSUME NEW d \in Scraps, FindScrapped(d) \/ LoseDeduction(d)
       PROVE  UNCHANGED <<lines, tx>>
  BY <1>10 DEF FindScrapped, LoseDeduction
<1>11. CASE UNCHANGED vars
  BY <1>6, <1>11 DEF vars
<1> QED
  BY <1>2, <1>3, <1>4, <1>5, <1>6, <1>7, <1>8, <1>9, <1>10, <1>11 DEF Next

\* A site that completes by itself never allocates more than the target when
\* cycles and edits take turns.
THEOREM TurnsNeverOverAllocate == Spec /\ []OneWriter => []NeverOverAllocated
<1>1. Init => NothingStale
  BY NothingHeld DEF Init, NothingStale
<1>2. Inductive /\ OneWriter /\ NothingStale /\ [Next]_vars => NothingStale'
  BY FreshStep
<1> DEFINE Within == AutoComplete => WithinTargets
<1>3. Init => Within
  <2>1. NoTx.pc # "allocate" /\ \A l \in Lines : NoTx.lines[l] = Null
    BY DEF NoTx
  <2> QED
    BY <2>1 DEF Init, WithinTargets, HasRoom, Room
<1>4. Inductive /\ OneWriter /\ NothingStale /\ Within /\ [Next]_vars => Within'
  BY WithinStep
<1>5. Inductive /\ Within => NeverOverAllocated
  <2> SUFFICES ASSUME Inductive, Within, NEW l \in Lines, AutoComplete, lines[l] # Null
               PROVE  Good(lines[l]) <= lines[l].target
    BY DEF NeverOverAllocated
  <2>1. Room(lines[l], 0) /\ lines[l] \in LineRow
    BY DEF WithinTargets, Inductive, Data
  <2> QED
    BY <2>1 DEF Room, Good, LineRow
<1> HIDE DEF Within
<1> QED
  BY <1>1, <1>2, <1>3, <1>4, <1>5, InductiveInvariant, PTL DEF Spec

\* A line is COMPLETED for a reason, those that a cycle has written but not
\* committed included, and the statuses still to be written are those of the
\* rows as they are. A target is never zero, so a new line is not fulfilled.
Honest(row) == row # Null => row.target > 0 /\ (row.status = "COMPLETED" => Fulfilled(row))
PlanAgrees(c) ==
  tx[c].pc = "allocate" =>
    \A row \in {LineOf(c, <<tx[c].order, tx[c].product>>)} : row # Null => tx[c].after = StatusAfter(row)
StatusesAgree ==
  /\ \A l \in Lines : Honest(lines[l])
  /\ \A c \in Cycles, l \in Lines : Honest(tx[c].lines[l])
  /\ \A c \in Cycles : PlanAgrees(c)
  /\ \A d \in Scraps : scraps[d].pc = "found" => scraps[d].after = ScrappedStatus(lines[scraps[d].line])

\* A statement keeps it if what it writes and what it plans to write agree.
LEMMA AgreesAfter ==
  ASSUME Inductive, StatusesAgree, NEW c \in Cycles, NEW t, Statement(c, t),
         \A l \in Lines : Honest(t.lines[l]),
         t.pc = "allocate" =>
           \A row \in {IF t.lines[<<t.order, t.product>>] # Null
                       THEN t.lines[<<t.order, t.product>>] ELSE lines[<<t.order, t.product>>]} :
             row # Null => t.after = StatusAfter(row)
  PROVE  StatusesAgree'
<1>1. lines' = lines /\ scraps' = scraps /\ \A d \in Cycles : tx'[d] = IF d = c THEN t ELSE tx[d]
  BY DEF Statement, Inductive
<1>2. \A l \in Lines : Honest(lines'[l])
  BY <1>1 DEF StatusesAgree
<1>3. \A d \in Cycles, l \in Lines : Honest(tx'[d].lines[l])
  BY <1>1 DEF StatusesAgree
<1>4. ASSUME NEW d \in Cycles PROVE PlanAgrees(d)'
  <2>1. CASE d = c
    BY <1>1, <2>1 DEF PlanAgrees, LineOf, StatusAfter
  <2>2. CASE d # c
    <3>1. tx'[d] = tx[d] /\ PlanAgrees(d)
      BY <1>1, <2>2 DEF StatusesAgree
    <3> QED
      BY <1>1, <3>1 DEF PlanAgrees, LineOf, StatusAfter
  <2> QED
    BY <2>1, <2>2
<1>5. \A d \in Scraps : scraps'[d].pc = "found" => scraps'[d].after = ScrappedStatus(lines'[scraps'[d].line])
  BY <1>1 DEF StatusesAgree
<1> QED
  BY <1>2, <1>3, <1>4, <1>5 DEF StatusesAgree, Honest, Fulfilled, Good, ScrappedStatus

\* The statements of a cycle write the status of the row that they see.
LEMMA StatementAgrees ==
  ASSUME Inductive, StatusesAgree, NEW c \in Cycles,
         \/ Heal(c) \/ Select(c) \/ Allocate(c) \/ Promote(c)
         \/ Demote(c) \/ Complete(c) \/ Abort(c)
  PROVE  StatusesAgree'
<1>1. tx[c] \in TxType /\ \A l \in Lines : Honest(tx[c].lines[l])
  BY DEF Inductive, StatusesAgree
<1>2. \A l \in Lines : LineOf(c, l) \in LineRow \cup {Null}
  BY Seen
<1>h. ASSUME NEW l \in Lines PROVE Honest(LineOf(c, l))
  BY DEF LineOf, StatusesAgree
<1>3. ASSUME NEW t, Statement(c, t), t.pc # "allocate", \A l \in Lines : Honest(t.lines[l])
      PROVE  StatusesAgree'
  BY <1>3, AgreesAfter
<1>4. ASSUME NEW t PROVE /\ NextProduct(t) # "allocate" /\ AfterDemote(t) # "allocate"
                         /\ AfterPromote(t) # "allocate"
  BY DEF NextProduct, AfterDemote, AfterPromote
<1>5. CASE Heal(c)
  <2>1. PICK todo \in Todo(c) : Statement(c, [tx[c] EXCEPT
          !.pc = "select", !.todo = todo,
          !.lines = [l \in Lines |-> IF l \in StaleLines(c)
            THEN [LineOf(c, l) EXCEPT !.status = "COMPLETED"] ELSE tx[c].lines[l]],
          !.orders = [o \in Orders |-> IF o \in DoneOrders(c)
            THEN [OrderOf(c, o) EXCEPT !.status = "COMPLETED"] ELSE tx[c].orders[o]]])
    BY <1>5 DEF Heal
  <2> DEFINE ls == [l \in Lines |-> IF l \in StaleLines(c)
            THEN [LineOf(c, l) EXCEPT !.status = "COMPLETED"] ELSE tx[c].lines[l]]
             os == [o \in Orders |-> IF o \in DoneOrders(c)
            THEN [OrderOf(c, o) EXCEPT !.status = "COMPLETED"] ELSE tx[c].orders[o]]
             t == [tx[c] EXCEPT !.pc = "select", !.todo = todo, !.lines = ls, !.orders = os]
  <2>2. Statement(c, t)
    BY <2>1
  <2>3. t.pc = "select" /\ t.lines = ls
    BY <1>1 DEF TxType
  <2>4. ASSUME NEW l \in Lines PROVE Honest(ls[l])
    <3>1. CASE l \in StaleLines(c)
      <4> DEFINE row == [LineOf(c, l) EXCEPT !.status = "COMPLETED"]
      <4>1. LineOf(c, l) # Null /\ LineOf(c, l) \in LineRow /\ Fulfilled(LineOf(c, l))
        BY <1>2, <3>1, OrderAssumption DEF StaleLines
      <4>2. row.target = LineOf(c, l).target /\ Good(row) = Good(LineOf(c, l))
        BY <4>1 DEF LineRow, Good
      <4>3. Honest(row)
        BY <1>h, <4>1, <4>2 DEF Honest, Fulfilled
      <4> QED
        BY <3>1, <4>3
    <3>2. CASE l \notin StaleLines(c)
      BY <1>1, <3>2
    <3> QED
      BY <3>1, <3>2
  <2> HIDE DEF t, ls, os
  <2> QED
    BY <1>3, <2>2, <2>3, <2>4
<1>6. CASE Select(c)
  <2>1. PICK p \in tx[c].todo :
       LET rest == [tx[c] EXCEPT !.todo = @ \ {p}]
       IN  IF Eligible(c, p) = {}
           THEN Statement(c, [rest EXCEPT !.pc = NextProduct(rest)])
           ELSE \E o \in Eligible(c, p) :
                  /\ \A q \in Eligible(c, p) : Rank(OrderOf(c, o)) <= Rank(OrderOf(c, q))
                  /\ Statement(c, [rest EXCEPT
                       !.pc = "allocate", !.product = p, !.order = o,
                       !.open = OrderOf(c, o).status = "OPEN",
                       !.sequence = OrderOf(c, o).sequence,
                       !.after = StatusAfter(LineOf(c, <<o, p>>))])
    BY <1>6 DEF Select
  <2> DEFINE rest == [tx[c] EXCEPT !.todo = @ \ {p}]
             s == [rest EXCEPT !.pc = NextProduct(rest)]
  <2>2. CASE Eligible(c, p) = {}
    <3>1. Statement(c, s)
      BY <2>1, <2>2
    <3>2. s.pc = NextProduct(rest) /\ s.lines = tx[c].lines
      BY <1>1 DEF TxType
    <3> HIDE DEF s, rest
    <3> QED
      BY <1>1, <1>3, <1>4, <3>1, <3>2
  <2>3. CASE Eligible(c, p) # {}
    <3>1. PICK o \in Eligible(c, p) : Statement(c, [rest EXCEPT
                       !.pc = "allocate", !.product = p, !.order = o,
                       !.open = OrderOf(c, o).status = "OPEN",
                       !.sequence = OrderOf(c, o).sequence,
                       !.after = StatusAfter(LineOf(c, <<o, p>>))])
      BY <2>1, <2>3
    <3> DEFINE t == [rest EXCEPT
                       !.pc = "allocate", !.product = p, !.order = o,
                       !.open = OrderOf(c, o).status = "OPEN",
                       !.sequence = OrderOf(c, o).sequence,
                       !.after = StatusAfter(LineOf(c, <<o, p>>))]
    <3>2. t.order = o /\ t.product = p /\ t.lines = tx[c].lines /\ t.after = StatusAfter(LineOf(c, <<o, p>>))
      BY <1>1 DEF TxType
    <3>3. Statement(c, t)
      BY <3>1
    <3> HIDE DEF t
    <3> QED
      BY <1>1, <3>2, <3>3, AgreesAfter DEF LineOf
  <2> QED
    BY <2>2, <2>3
<1>7. CASE Allocate(c)
  <2> DEFINE l == <<tx[c].order, tx[c].product>>
             seen == LineOf(c, l)
             row == [seen EXCEPT !.completed = @ + 1, !.status = tx[c].after]
             ls == [tx[c].lines EXCEPT ![l] = row]
             t == [tx[c] EXCEPT
           !.pc = IF tx[c].open THEN "promote" ELSE AfterPromote(tx[c]),
           !.new = tx[c].new \cup {l}, !.after = Null, !.lines = ls]
  <2>1. Statement(c, t) /\ seen # Null /\ tx[c].pc = "allocate"
    BY <1>7 DEF Allocate
  <2>2. t.pc = (IF tx[c].open THEN "promote" ELSE AfterPromote(tx[c])) /\ t.lines = ls
    BY <1>1 DEF TxType
  <2>3. l \in Lines /\ seen \in LineRow
    BY <1>2, <2>1, LinePair DEF Inductive, TxSound, PlanSound
  <2>4. tx[c].after = StatusAfter(seen)
    BY <2>1 DEF StatusesAgree, PlanAgrees
  <2>5. Honest(row)
    <3>1. /\ row.completed = seen.completed + 1 /\ row.scrap = seen.scrap
          /\ row.target = seen.target /\ row.status = StatusAfter(seen)
      BY <2>3, <2>4 DEF LineRow
    <3>2. seen.completed \in Nat /\ seen.scrap \in Nat /\ seen.target \in Nat
      BY <2>3 DEF LineRow
    <3>3. seen.target > 0
      BY <1>h, <2>1, <2>3 DEF Honest
    <3> HIDE DEF row, seen
    <3> QED
      BY <3>1, <3>2, <3>3 DEF Honest, Fulfilled, Good, StatusAfter
  <2>6. \A k \in Lines : ls[k] = IF k = l THEN row ELSE tx[c].lines[k]
    BY <1>1 DEF TxType
  <2> HIDE DEF t, ls, row, seen, l
  <2>7. \A k \in Lines : Honest(ls[k])
    BY <1>1, <2>5, <2>6
  <2>8. t.pc # "allocate"
    BY <1>4, <2>2
  <2> QED
    BY <1>3, <2>1, <2>2, <2>7, <2>8
<1>8. CASE Promote(c)
  <2> DEFINE t == [tx[c] EXCEPT !.pc = AfterPromote(tx[c]), !.open = FALSE,
                     !.orders = [tx[c].orders EXCEPT ![tx[c].order] =
             [OrderOf(c, tx[c].order) EXCEPT !.status = "IN_PROGRESS", !.previousStatus = "OPEN"]]]
  <2>1. Statement(c, t)
    BY <1>8 DEF Promote
  <2>2. t.pc = AfterPromote(tx[c]) /\ t.lines = tx[c].lines
    BY <1>1 DEF TxType
  <2> HIDE DEF t
  <2> QED
    BY <1>1, <1>3, <1>4, <2>1, <2>2
<1>9. CASE Demote(c)
  <2> DEFINE t == [tx[c] EXCEPT !.pc = AfterDemote(tx[c]), !.sequence = Null,
                     !.orders = [o \in Orders |-> IF o \in Demoted(c)
         THEN [OrderOf(c, o) EXCEPT !.status = "OPEN", !.previousStatus = "IN_PROGRESS"]
         ELSE tx[c].orders[o]]]
  <2>1. Statement(c, t)
    BY <1>9 DEF Demote
  <2>2. t.pc = AfterDemote(tx[c]) /\ t.lines = tx[c].lines
    BY <1>1 DEF TxType
  <2> HIDE DEF t
  <2> QED
    BY <1>1, <1>3, <1>4, <2>1, <2>2
<1>10. CASE Complete(c)
  <2> DEFINE o == tx[c].order
             completes == \A l \in LinesOf(o) : Fulfilled(LineOf(c, l))
             t == [tx[c] EXCEPT !.pc = NextProduct(tx[c]), !.product = Null,
                     !.orders = IF completes
             THEN [tx[c].orders EXCEPT ![o] = [OrderOf(c, o) EXCEPT !.status = "COMPLETED"]]
             ELSE tx[c].orders]
  <2>1. Statement(c, t)
    BY <1>10 DEF Complete
  <2>2. t.pc = NextProduct(tx[c]) /\ t.lines = tx[c].lines
    BY <1>1 DEF TxType
  <2> HIDE DEF t
  <2> QED
    BY <1>1, <1>3, <1>4, <2>1, <2>2
<1>11. CASE Abort(c)
  <2>1. NoTx.pc # "allocate" /\ \A l \in Lines : Honest(NoTx.lines[l])
    BY DEF NoTx, Honest
  <2> QED
    BY <1>3, <1>11, <2>1 DEF Abort
<1> QED
  BY <1>5, <1>6, <1>7, <1>8, <1>9, <1>10, <1>11

\* Committed rows are enough when no cycle runs and no deduction is waiting.
LEMMA IdleAgrees ==
  ASSUME \A l \in Lines : Honest(lines'[l]), \A c \in Cycles : tx'[c] = NoTx,
         \A d \in Scraps : scraps'[d].pc # "found"
  PROVE  StatusesAgree'
<1>1. NoTx.pc # "allocate" /\ \A l \in Lines : NoTx.lines[l] = Null
  BY DEF NoTx
<1> QED
  BY <1>1 DEF StatusesAgree, PlanAgrees, Honest, Fulfilled, Good

\* Nothing completes a line before its time, or leaves it completed when it is
\* not, while cycles, edits and deductions take turns.
LEMMA AgreesStep ==
  ASSUME Inductive, OneActor, NothingStale, StatusesAgree, [Next]_vars
  PROVE  StatusesAgree'
<1>1. /\ lines \in [Lines -> LineRow \cup {Null}] /\ tx \in [Cycles -> TxType]
      /\ \A l \in Lines : Honest(lines[l])
      /\ \A c \in Cycles, l \in Lines : Honest(tx[c].lines[l])
      /\ OneWriter
  BY DEF Inductive, Data, StatusesAgree, OneActor
<1>a. /\ \A c \in Cycles : tx[c].pc # "idle" => \A d \in Scraps : scraps[d].pc # "found"
      /\ \A u \in Users : ~Idle(u) => \A d \in Scraps : scraps[d].pc # "found"
  BY DEF OneActor
<1>2. ASSUME NEW c \in Cycles, Commit(c) PROVE StatusesAgree'
  <2>1. tx' = [tx EXCEPT ![c] = NoTx] /\ tx[c].pc # "idle" /\ scraps' = scraps
    BY <1>2 DEF Commit
  <2>2. \A d \in Cycles : tx'[d] = NoTx
    BY <1>1, <2>1, CycleAlone
  <2>3. \A l \in Lines : Honest(lines'[l])
    BY <1>1, <1>2 DEF Commit, LineOf
  <2> QED
    BY <1>a, <2>1, <2>2, <2>3, IdleAgrees
<1>3. ASSUME NEW u \in Users, Create(u) PROVE StatusesAgree'
  <2>1. \A l \in Lines : Honest(lines'[l])
    <3>1. PICK ps \in SUBSET Products, target \in 1..MaxTarget :
             lines' = [l \in Lines |-> IF l[1] = edit[u].order /\ l[2] \in ps
                                       THEN NewLine(target) ELSE lines[l]]
      BY <1>3 DEF Create
    <3>2. Honest(NewLine(target))
      BY DEF NewLine, Honest
    <3> QED
      BY <1>1, <3>1, <3>2
  <2>2. tx' = tx /\ scraps' = scraps /\ ~Idle(u)
    BY <1>3 DEF Create, Idle
  <2> QED
    BY <1>1, <1>a, <2>1, <2>2, UserAlone, IdleAgrees
<1>4. ASSUME NEW u \in Users, WriteLine(u) PROVE StatusesAgree'
  <2> DEFINE k == <<edit[u].order, edit[u].product>>
             op == edit[u].op
  <2>1. op \in {"add", "retarget", "drop"} /\ k \in Lines /\ k[1] = edit[u].order
        /\ (op = "add") = (lines[k] = Null)
    BY <1>4, LinePair DEF WriteLine, Inductive, EditsSound, EditSound
  <2>2. PICK target \in 1..MaxTarget :
           lines' = [lines EXCEPT ![k] =
             CASE op = "add" -> NewLine(target)
               [] op = "retarget" -> [lines[k] EXCEPT !.target = target]
               [] op = "drop" -> Null]
    BY <1>4 DEF WriteLine
  <2>3. Honest(NewLine(target)) /\ Honest(Null)
    BY OrderAssumption DEF NewLine, Honest
  <2>4. ASSUME op = "retarget" PROVE Honest([lines[k] EXCEPT !.target = target])
    <3> DEFINE row == [lines[k] EXCEPT !.target = target]
    <3>1. lines[k] # Null /\ lines[k] \in LineRow
      BY <1>1, <2>1, <2>4
    <3>2. made[k] = 0
      BY <2>1 DEF NothingStale, EditFresh
    <3>3. lines[k].completed = 0 /\ lines[k].scrap \in Nat /\ lines[k].target \in Nat
      BY <2>1, <3>1, <3>2 DEF Inductive, QuantitiesAddUp, LineRow
    <3>4. row.status = lines[k].status /\ row.target > 0 /\ Honest(lines[k])
      BY <1>1, <2>1, <3>1 DEF LineRow
    <3> HIDE DEF row, k, op
    <3>5. lines[k].status # "COMPLETED"
      BY <3>1, <3>3, <3>4 DEF Honest, Fulfilled, Good
    <3>6. Honest(row)
      BY <3>4, <3>5 DEF Honest
    <3> QED
      BY <3>6 DEF row
  <2>5. Honest(lines'[k]) /\ \A l \in Lines : l # k => lines'[l] = lines[l]
    BY <1>1, <2>1, <2>2, <2>3, <2>4
  <2>6. tx' = tx /\ scraps' = scraps /\ ~Idle(u)
    BY <1>4 DEF WriteLine, Idle
  <2> HIDE DEF k, op
  <2>7. \A l \in Lines : Honest(lines'[l])
    BY <1>1, <2>5
  <2> QED
    BY <1>1, <1>a, <2>6, <2>7, UserAlone, IdleAgrees
<1>5. ASSUME NEW d \in Scraps, Deduct(d) PROVE StatusesAgree'
  <2> DEFINE l == scraps[d].line
             row == [lines[l] EXCEPT !.scrap = lines[l].scrap + 1, !.status = scraps[d].after]
  <2>1. l \in Lines /\ lines[l] \in LineRow /\ scraps[d].after = ScrappedStatus(lines[l])
    BY <1>5 DEF Deduct, Inductive, ScrapsSound, Data, StatusesAgree
  <2>2. lines' = [lines EXCEPT ![l] = row] /\ tx' = tx
    BY <1>5 DEF Deduct
  <2>3. Honest(row)
    <3>1. /\ row.completed = lines[l].completed /\ row.scrap = lines[l].scrap + 1
          /\ row.target = lines[l].target /\ row.status = ScrappedStatus(lines[l])
      BY <2>1 DEF LineRow
    <3>2. lines[l].completed \in Nat /\ lines[l].scrap \in Nat /\ lines[l].target \in Nat
      BY <2>1 DEF LineRow
    <3>3. lines[l].target > 0
      BY <1>1, <2>1, OrderAssumption DEF Honest
    <3> HIDE DEF row, l
    <3> QED
      BY <3>1, <3>2, <3>3 DEF Honest, Fulfilled, Good, ScrappedStatus
  <2>4. \A c \in Cycles : tx[c] = NoTx
    BY <1>5 DEF Deduct, OneActor, NothingStale, CycleFresh
  <2>5. \A e \in Scraps : scraps'[e].pc # "found"
    <3>1. \A e \in Scraps : e # d => scraps'[e] = scraps[e] /\ scraps[e].pc # "found"
      BY <1>5 DEF Deduct, OneActor, Inductive, ScrapsSound
    <3>2. scraps'[d].pc = "done"
      BY <1>5 DEF Deduct, DoneScrap, NoScrap, Inductive, ScrapsSound
    <3> QED
      BY <3>1, <3>2
  <2> HIDE DEF row, l
  <2>6. \A k \in Lines : Honest(lines'[k])
    BY <1>1, <2>1, <2>2, <2>3
  <2> QED
    BY <2>2, <2>4, <2>5, <2>6, IdleAgrees
<1>6. CASE UNCHANGED <<lines, tx, scraps>>
  BY <1>6 DEF StatusesAgree, PlanAgrees, LineOf, Honest, Fulfilled, Good, StatusAfter, ScrappedStatus
<1>7. ASSUME NEW c \in Cycles,
             \/ Heal(c) \/ Select(c) \/ Allocate(c) \/ Promote(c)
             \/ Demote(c) \/ Complete(c) \/ Abort(c)
      PROVE  StatusesAgree'
  BY <1>7, StatementAgrees
<1>8. ASSUME NEW u \in Users,
             \/ BeginCreate(u) \/ BeginTransition(u) \/ Place(u)
             \/ BeginRemove(u) \/ BeginLine(u) \/ GiveUp(u)
      PROVE  UNCHANGED <<lines, tx, scraps>>
  BY <1>8, ReadKeeps DEF Reads
<1>9. ASSUME NEW u \in Users, Transition(u) \/ Remove(u) \/ Reorder(u)
      PROVE  UNCHANGED <<lines, tx, scraps>>
  BY <1>9 DEF Transition, Remove, Reorder
<1>10. ASSUME NEW d \in Scraps, FindScrapped(d) \/ LoseDeduction(d)
       PROVE  StatusesAgree'
  <2>1. UNCHANGED <<lines, tx>>
    BY <1>10 DEF FindScrapped, LoseDeduction
  <2>2. \/ scraps' = [scraps EXCEPT ![d] = DoneScrap]
        \/ \E l \in Lines : scraps' = [scraps EXCEPT ![d] = [pc |-> "found", line |-> l,
                                                      after |-> ScrappedStatus(lines[l])]]
    BY <1>10 DEF FindScrapped, LoseDeduction, Reduced
  <2>3. DOMAIN scraps = Scraps /\ DoneScrap.pc = "done"
    BY DEF Inductive, ScrapsSound, DoneScrap, NoScrap
  <2>4. ASSUME NEW e \in Scraps, scraps'[e].pc = "found"
        PROVE  scraps'[e].after = ScrappedStatus(lines[scraps'[e].line])
    <3>1. CASE scraps'[e] = scraps[e]
      BY <2>4, <3>1 DEF StatusesAgree
    <3>2. CASE scraps'[e] # scraps[e]
      BY <2>2, <2>3, <2>4, <3>2
    <3> QED
      BY <3>1, <3>2
  <2> QED
    BY <2>1, <2>4 DEF StatusesAgree, PlanAgrees, LineOf, Honest, Fulfilled, Good, StatusAfter, ScrappedStatus
<1>11. CASE UNCHANGED vars
  BY <1>6, <1>11 DEF vars
<1> QED
  BY <1>2, <1>3, <1>4, <1>5, <1>6, <1>7, <1>8, <1>9, <1>10, <1>11 DEF Next

\* No line is COMPLETED that is short of its target when cycles, edits and
\* deductions take turns.
THEOREM TurnsKeepLineStatus == Spec /\ []OneActor => []LineStatusAgrees
<1>1. Init => NothingStale
  BY NothingHeld DEF Init, NothingStale
<1>2. Inductive /\ OneActor /\ NothingStale /\ [Next]_vars => NothingStale'
  BY FreshStep DEF OneActor
<1>3. Init => StatusesAgree
  <2>1. NoTx.pc # "allocate" /\ (\A l \in Lines : NoTx.lines[l] = Null) /\ NoScrap.pc = "none"
    BY DEF NoTx, NoScrap
  <2> QED
    BY <2>1 DEF Init, StatusesAgree, PlanAgrees, Honest
<1>4. Inductive /\ OneActor /\ NothingStale /\ StatusesAgree /\ [Next]_vars => StatusesAgree'
  BY AgreesStep
<1>5. StatusesAgree => LineStatusAgrees
  BY DEF StatusesAgree, Honest, LineStatusAgrees
<1> QED
  BY <1>1, <1>2, <1>3, <1>4, <1>5, InductiveInvariant, PTL DEF Spec

=============================================================================
