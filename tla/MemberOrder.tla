----------------------------- MODULE MemberOrder -----------------------------
(***************************************************************************)
(* The order of a relationship's members (relationship-reorder.ts): a map  *)
(* from member to position, and the five operations that make a new map    *)
(* of it.  A map that was never stored is the empty one.                   *)
(***************************************************************************)
EXTENDS Integers, FiniteSets, SequencesExt

Unordered == << >>

Positions(order) == {order[m] : m \in DOMAIN order}

LastOf(ids, m) == SelectLastInSeq(ids, LAMBDA x : x = m)
FirstOf(ids, m) == SelectInSeq(ids, LAMBDA x : x = m)

\* The position of an id that is given twice is its last one.
DefaultOrder(ids) == [m \in ToSet(ids) |-> LastOf(ids, m) - 1]

\* The members of an order, by position: the i-th has i - 1 before it.
Ahead(order, m) == {a \in DOMAIN order : order[a] < order[m]}
Ordered(order) ==
  [i \in 1..Cardinality(DOMAIN order) |->
     CHOOSE m \in DOMAIN order : Cardinality(Ahead(order, m)) = i - 1]

\* What is left of ids when those in gone are filtered out.
Without(ids, gone) ==
  LET kept == Ordered([i \in {i \in DOMAIN ids : ids[i] \notin gone} |-> i]) IN
  [k \in DOMAIN kept |-> ids[kept[k]]]

CompactOrder(order) == DefaultOrder(Ordered(order))

\* sortMemberIdsByOrder: how a relationship's members are shown.
SortedMembers(ids, order) ==
  LET at(m) == IF m \in DOMAIN order THEN order[m] ELSE Cardinality(DOMAIN order)
      before(i, j) == at(ids[i]) < at(ids[j]) \/ (at(ids[i]) = at(ids[j]) /\ i < j)
      sorted == SetToSortSeq(DOMAIN ids, before) IN
  [i \in DOMAIN ids |-> ids[sorted[i]]]

\* The order a reordering or an update starts from: the stored one, or the array's.
WorkingOrder(order, ids) == IF order = Unordered THEN DefaultOrder(ids) ELSE order

-----------------------------------------------------------------------------
(* The operations.  Each is refused when it names a memory that has no     *)
(* position; set_order when its ids are not exactly the members.           *)

Operations(ids, max) ==
  [type : {"move_to_index"}, memory : ids, index : 0..max]
    \cup [type : {"swap", "move_before", "move_after"}, memory : ids, other : ids]
    \cup [type : {"set_order"}, ids : SeqOf(ids, max)]

Permitted(order, ids, op) ==
  CASE op.type = "set_order" -> ToSet(op.ids) = ToSet(ids)
    [] op.type = "move_to_index" -> op.memory \in DOMAIN order
    [] OTHER -> {op.memory, op.other} \subseteq DOMAIN order

\* Put m at index i of what remains when m is taken out.
Reinsert(order, m, i(_)) ==
  LET rest == Without(Ordered(order), {m}) IN DefaultOrder(InsertAt(rest, i(rest) + 1, m))

\* Slip: what is moved forward does not count the place it left.
MoveToIndexSlip(order, m, index) ==
  LET to == IF index > order[m] THEN index - 1 ELSE index IN
  IF order[m] = index THEN CompactOrder(order)
  ELSE Reinsert(order, m, LAMBDA rest : IF to < Len(rest) THEN to ELSE Len(rest))

\* The current position is compared with the index, also when positions have gaps.
MoveToIndex(order, m, index) ==
  IF order[m] = index THEN CompactOrder(order)
  ELSE Reinsert(order, m, LAMBDA rest : IF index < Len(rest) THEN index ELSE Len(rest))

Swap(order, m, other) == [order EXCEPT ![m] = order[other], ![other] = order[m]]

MoveBefore(order, m, other) ==
  IF m = other THEN CompactOrder(order)
  ELSE Reinsert(order, m, LAMBDA rest : FirstOf(rest, other) - 1)

MoveAfter(order, m, other) ==
  IF m = other THEN CompactOrder(order)
  ELSE Reinsert(order, m, LAMBDA rest : FirstOf(rest, other))

ApplyReorder(order, ids, op) ==
  LET from == WorkingOrder(order, ids) IN
  CASE op.type = "move_to_index" -> MoveToIndex(from, op.memory, op.index)
    [] op.type = "swap" -> Swap(from, op.memory, op.other)
    [] op.type = "set_order" -> DefaultOrder(op.ids)
    [] op.type = "move_before" -> MoveBefore(from, op.memory, op.other)
    [] op.type = "move_after" -> MoveAfter(from, op.memory, op.other)

\* An update: new members at the end, then removed ones out, closing the gaps.
Extended(order, new) ==
  LET top == IF order = Unordered THEN -1
             ELSE CHOOSE p \in Positions(order) : \A q \in Positions(order) : q <= p IN
  [m \in DOMAIN order \cup ToSet(new) |->
     IF m \in ToSet(new) THEN top + LastOf(new, m) ELSE order[m]]

Reduced(order, gone) ==
  IF gone = {} THEN order
  ELSE CompactOrder([m \in DOMAIN order \ gone |-> order[m]])

-----------------------------------------------------------------------------
(* What the operations mean, said without them.                            *)

Before(order, a, b) == order[a] < order[b]
Dense(order) == Positions(order) = 0..(Cardinality(DOMAIN order) - 1)
Adjacent(order, a, b) ==
  Before(order, a, b) /\ ~\E c \in DOMAIN order : Before(order, a, c) /\ Before(order, c, b)

\* Those other than ms stand as they did.
SameBut(old, new, ms) ==
  \A a, b \in DOMAIN old \ ms : Before(old, a, b) <=> Before(new, a, b)

Meant(old, new, op) ==
  CASE op.type = "move_to_index" ->
         /\ SameBut(old, new, {op.memory})
         /\ Dense(old) => new[op.memory] = (CHOOSE i \in {op.index, Cardinality(DOMAIN old) - 1} :
                                             i <= op.index /\ i < Cardinality(DOMAIN old))
    [] op.type = "swap" ->
         /\ SameBut(old, new, {op.memory, op.other})
         /\ new[op.memory] = old[op.other] /\ new[op.other] = old[op.memory]
    [] op.type = "set_order" ->
         \A i, j \in DOMAIN op.ids :
           ((i < j /\ op.ids[i] # op.ids[j]
               /\ \A k \in DOMAIN op.ids : k > i => op.ids[k] # op.ids[i]) =>
              (Before(new, op.ids[i], op.ids[j])))
    [] op.type = "move_before" ->
         /\ SameBut(old, new, {op.memory})
         /\ op.memory # op.other => Adjacent(new, op.memory, op.other)
    [] op.type = "move_after" ->
         /\ SameBut(old, new, {op.memory})
         /\ op.memory # op.other => Adjacent(new, op.other, op.memory)

=============================================================================
