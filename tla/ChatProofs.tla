----------------------------- MODULE ChatProofs -----------------------------
(***************************************************************************)
(* The chat, for any number of messages, any clocks and any set of iOS and *)
(* Android owners: the types, no message twice on a screen, the two apps'  *)
(* lists up to date when their snapshots are handled, and the refinement   *)
(* of the abstract room.                                                   *)
(*                                                                         *)
(* One invariant, ChatInv, carries all of them.  What is on a screen is    *)
(* related to what the device has (Local) through what the listener has    *)
(* seen and the snapshots that wait: these hold disjoint changes of a set  *)
(* that grows, and the last of them holds all of it.  Numbered, that every *)
(* message has a number of its own, makes the query's order an order.      *)
(***************************************************************************)
EXTENDS Chat, CommonProofs, SequenceTheorems

\* The messages handed to the room: on the server or in a mutation queue.
Posted == Contents(server) \cup UNION {Contents(pending[p]) : p \in Pet}
Ids(S) == {m.id : m \in S}
RowIds(rows) == {rows[i].id : i \in 1 .. Len(rows)}

\* A set of messages in which an identity is that of one message.
Unique(S) == \A m, n \in S : m.id = n.id => m = n

\* Every message has a number of its own, given out in turn.
Numbered == Unique(Posted) /\ \A m \in Posted : m.id <= sent

\* The snapshots that wait: each holds what the one before held and its own
\* changes, the last one what the listener has seen.
EventsOk(ev, docs) ==
  /\ \A i \in 1 .. Len(ev) : ev[i].new \subseteq ev[i].all /\ ev[i].all \subseteq docs
  /\ \A i, j \in 1 .. Len(ev) :
       i < j => ev[i].all \subseteq ev[j].all /\ ev[i].all \cap ev[j].new = {}
  /\ ev # << >> => ev[Len(ev)].all = docs

Distinct(rows) == \A i, j \in 1 .. Len(rows) : rows[i].id = rows[j].id => i = j

\* iOS: with nothing waiting the list is the listener's, before that it shows
\* no more than the next snapshot.
IosOk(rows, ev, docs) ==
  /\ ev = << >> => rows = Rows(docs)
  /\ ev # << >> => RowIds(rows) \subseteq Ids(ev[1].all)

\* m is on the screen, or is taken for a message that is.
Represented(m, rows) ==
  m.id \in RowIds(rows) \/ \E i \in 1 .. Len(rows) : rows[i].time = m.time

\* m is in a snapshot that waits and will not be passed over.
Told(m, ev) == \E i \in 1 .. Len(ev) : ~ev[i].local /\ m \in ev[i].new

\* Android: the changes that wait are not on the screen yet, and besides them
\* and the numbers passed over nothing is missing.
AndroidOk(rows, ev, docs, over) ==
  /\ \A i \in 1 .. Len(ev) : ~ev[i].local => RowIds(rows) \cap Ids(ev[i].new) = {}
  /\ \A m \in docs : Represented(m, rows) \/ m.id \in over \/ Told(m, ev)

\* The numbers that are new to the room: none, unless a message is being sent.
Beyond(docs) == Ids(docs) \ 1 .. sent

ChatOk(p) ==
  /\ seen[p] = IF phase[p] = "listening" THEN Local(p) ELSE {}
  /\ EventsOk(events[p], seen[p])
  /\ Distinct(list[p])
  /\ RowIds(list[p]) \subseteq Ids(seen[p])
  /\ IF p \in Ios THEN IosOk(list[p], events[p], seen[p])
     ELSE AndroidOk(list[p], events[p], seen[p], passed[p])

ChatInv == TypeOK /\ Numbered /\ \A p \in Pet : ChatOk(p)

----------------------------------------------------------------------------
(* The query's order *)

\* A set of messages with a number each is finite, and the query orders it.
LEMMA UniqueFinite ==
  ASSUME NEW S \in SUBSET Message, Unique(S)
  PROVE  IsFiniteSet(S)
<1> DEFINE f == [m \in S |-> m.id]
<1>1. f \in Injection(S, Id)
  BY DEF Injection, IsInjective, Unique, Message
<1>2. IsFiniteSet(Id)
  BY ChatAssumption, FS_Interval DEF Id
<1> QED BY <1>1, <1>2, FS_Injection

\* orderBy("time"): the list of a set of messages has each of them once, the
\* i-th being the one with i - 1 before it.
LEMMA ByTimeLists ==
  ASSUME NEW S \in SUBSET Message, Unique(S)
  PROVE  /\ Cardinality(S) \in Nat
         /\ \A i \in 1 .. Cardinality(S) : ByTime(S)[i] \in S
         /\ \A i, j \in 1 .. Cardinality(S) : ByTime(S)[i] = ByTime(S)[j] => i = j
         /\ \A m \in S : \E i \in 1 .. Cardinality(S) : ByTime(S)[i] = m
<1> DEFINE R == {e \in S \X S : Before(e[1], e[2])}
           count(m) == Cardinality({n \in S : Before(n, m)})
<1>1. IsFiniteSet(S)
  BY UniqueFinite
<1>2. \A m \in S : m.time \in Nat /\ m.id \in Nat
  <2>1. \A m \in S : m.time \in Times /\ m.id \in 1 .. MaxMessages
    BY DEF Message, Id
  <2>2. Times \subseteq Nat /\ 1 .. MaxMessages \subseteq Nat
    BY ChatAssumption
  <2> QED BY <2>1, <2>2
<1>3. \A m, n \in S : <<m, n>> \in R <=> Before(m, n)
  OBVIOUS
<1>4. OrdersStrictly(R, S)
  <2>1. \A m \in S : ~Before(m, m)
    BY <1>2 DEF Before
  <2>2. \A m, n \in S : m # n => Before(m, n) \/ Before(n, m)
    BY <1>2 DEF Before, Unique
  <2>3. \A l, m, n \in S : Before(l, m) /\ Before(m, n) => Before(l, n)
    BY <1>2 DEF Before
  <2> HIDE DEF R
  <2> QED BY <1>3, <2>1, <2>2, <2>3 DEF OrdersStrictly
<1>5. \A m \in S : Earlier(S, R, m) = {n \in S : Before(n, m)}
  BY <1>3 DEF Earlier
<1> HIDE DEF R
<1>6. /\ Cardinality(S) \in Nat
      /\ \A m, n \in S : count(m) = count(n) => m = n
      /\ \A m \in S : count(m) + 1 \in 1 .. Cardinality(S)
      /\ \A i \in 1 .. Cardinality(S) : \E m \in S : count(m) = i - 1
  <2>1. \A m \in S : count(m) = Cardinality(Earlier(S, R, m))
    BY <1>5
  <2> HIDE DEF count
  <2> QED BY <1>1, <1>4, <2>1, Ranks
<1>7. ByTime(S) = [i \in 1 .. Cardinality(S) |-> CHOOSE m \in S : count(m) = i - 1]
  BY DEF ByTime
<1> HIDE DEF count
<1>8. \A i \in 1 .. Cardinality(S) : ByTime(S)[i] \in S /\ count(ByTime(S)[i]) = i - 1
  BY <1>6, <1>7
<1>9. \A i, j \in 1 .. Cardinality(S) : ByTime(S)[i] = ByTime(S)[j] => i = j
  BY <1>6, <1>8
<1>10. ASSUME NEW m \in S
       PROVE  \E i \in 1 .. Cardinality(S) : ByTime(S)[i] = m
  <2>1. count(m) + 1 \in 1 .. Cardinality(S)
    BY <1>6
  <2>2. count(m) \in Int
    BY <1>5, <1>1, FS_CardinalityType, FS_Subset DEF count, Earlier
  <2>3. count(ByTime(S)[count(m) + 1]) = count(m)
    BY <1>8, <2>1, <2>2
  <2>4. ByTime(S)[count(m) + 1] = m
    BY <1>6, <1>8, <2>1, <2>3
  <2> QED BY <2>1, <2>4
<1> QED BY <1>6, <1>8, <1>9, <1>10

\* The rows made of a set of messages: a row for each, with its number and time.
LEMMA RowsShow ==
  ASSUME NEW S \in SUBSET Message, Unique(S)
  PROVE  /\ Rows(S) \in Seq(Row)
         /\ Distinct(Rows(S))
         /\ RowIds(Rows(S)) = Ids(S)
         /\ \A m \in S : \E i \in 1 .. Len(Rows(S)) : Rows(S)[i].time = m.time
<1> DEFINE n == Cardinality(S)
           b == ByTime(S)
<1>1. /\ n \in Nat
      /\ \A i \in 1 .. n : b[i] \in S
      /\ \A i, j \in 1 .. n : b[i] = b[j] => i = j
      /\ \A m \in S : \E i \in 1 .. n : b[i] = m
  BY ByTimeLists
<1>2. Rows(S) = [i \in 1 .. n |-> RowOf(b[i])]
  BY DEF Rows
<1> HIDE DEF n, b
<1>3. \A m \in S : RowOf(m) \in Row /\ RowOf(m).id = m.id /\ RowOf(m).time = m.time
  BY DEF RowOf, Row, Message
<1>4. Rows(S) \in Seq(Row) /\ Len(Rows(S)) = n
  BY <1>1, <1>2, <1>3
<1>5. \A i \in 1 .. n : Rows(S)[i].id = b[i].id /\ Rows(S)[i].time = b[i].time
  BY <1>1, <1>2, <1>3
<1>6. Distinct(Rows(S))
  BY <1>1, <1>4, <1>5 DEF Distinct, Unique
<1>7. RowIds(Rows(S)) = Ids(S)
  BY <1>1, <1>4, <1>5 DEF RowIds, Ids
<1>8. \A m \in S : \E i \in 1 .. Len(Rows(S)) : Rows(S)[i].time = m.time
  BY <1>1, <1>4, <1>5
<1> QED BY <1>4, <1>6, <1>7, <1>8

\* The list of no messages is empty.
LEMMA RowsOfNone == Rows({}) = << >>
  BY FS_EmptySet DEF Rows

----------------------------------------------------------------------------
(* What a snapshot that is taken, or handled, does to a screen *)

\* The listener's changes follow what waits already: nothing is told twice.
LEMMA EventsAppend ==
  ASSUME NEW ev \in Seq(Snapshot), NEW docs \in SUBSET Message, NEW more \in SUBSET Message,
         docs \subseteq more, EventsOk(ev, docs), NEW l \in BOOLEAN
  PROVE  EventsOk(Append(ev, [new |-> more \ docs, all |-> more, local |-> l]), more)
<1> DEFINE s == [new |-> more \ docs, all |-> more, local |-> l]
           e == Append(ev, s)
<1>s. s \in Snapshot
  BY DEF Snapshot
<1>a. Len(ev) \in Nat /\ Len(e) = Len(ev) + 1
  BY <1>s, AppendProperties
<1>2. \A i \in 1 .. Len(ev) : e[i] = ev[i]
  BY <1>s, AppendProperties
<1>3. e[Len(ev) + 1] = s
  BY <1>s, AppendProperties
<1>1. Len(ev) \in Nat /\ Len(e) = Len(ev) + 1 /\ e # << >>
  BY <1>s, <1>a, AppendProperties
<1>4. s.new = more \ docs /\ s.all = more
  OBVIOUS
<1> HIDE DEF s, e
<1>5. \A i \in 1 .. Len(e) : i \in 1 .. Len(ev) \/ i = Len(ev) + 1
  BY <1>1
<1>6. \A i \in 1 .. Len(e) : e[i].new \subseteq e[i].all /\ e[i].all \subseteq more
  BY <1>2, <1>3, <1>4, <1>5 DEF EventsOk
<1>7. ASSUME NEW i \in 1 .. Len(e), NEW j \in 1 .. Len(e), i < j
      PROVE  e[i].all \subseteq e[j].all /\ e[i].all \cap e[j].new = {}
  <2>1. i \in 1 .. Len(ev)
    BY <1>1, <1>7
  <2>2. CASE j \in 1 .. Len(ev)
    BY <1>2, <1>7, <2>1, <2>2 DEF EventsOk
  <2>3. CASE j = Len(ev) + 1
    BY <1>2, <1>3, <1>4, <2>1, <2>3 DEF EventsOk
  <2> QED BY <1>5, <2>2, <2>3
<1>8. e[Len(e)].all = more
  BY <1>1, <1>3, <1>4
<1> QED BY <1>6, <1>7, <1>8 DEF EventsOk, e, s

\* A screen whose listener takes one more snapshot.
LEMMA ScreenAppend ==
  ASSUME NEW ev \in Seq(Snapshot), NEW docs \in SUBSET Message, NEW more \in SUBSET Message,
         docs \subseteq more, Unique(more), EventsOk(ev, docs), NEW l \in BOOLEAN,
         NEW rows \in Seq(Row), RowIds(rows) \subseteq Ids(docs), NEW over
  PROVE  LET e == Append(ev, [new |-> more \ docs, all |-> more, local |-> l])
         IN  /\ IosOk(rows, ev, docs) => IosOk(rows, e, more)
             /\ AndroidOk(rows, ev, docs, over) =>
                  AndroidOk(rows, e, more, IF l THEN over \cup Ids(more \ docs) ELSE over)
<1> DEFINE s == [new |-> more \ docs, all |-> more, local |-> l]
           e == Append(ev, s)
<1>s. s \in Snapshot
  BY DEF Snapshot
<1>a. Len(ev) \in Nat /\ Len(e) = Len(ev) + 1
  BY <1>s, AppendProperties
<1>2. \A i \in 1 .. Len(ev) : e[i] = ev[i]
  BY <1>s, AppendProperties
<1>3. e[Len(ev) + 1] = s
  BY <1>s, AppendProperties
<1>1. Len(ev) \in Nat /\ Len(e) = Len(ev) + 1 /\ e # << >>
  BY <1>s, <1>a, AppendProperties
<1>4. s.new = more \ docs /\ s.all = more /\ s.local = l
  OBVIOUS
<1>0. ev # << >> => 1 \in 1 .. Len(ev)
  BY <1>1
<1>i. ev = << >> => Len(ev) = 0
  OBVIOUS
<1> HIDE DEF s, e
<1>5. \A i \in 1 .. Len(e) : i \in 1 .. Len(ev) \/ i = Len(ev) + 1
  BY <1>1
<1>6. RowIds(rows) \cap Ids(more \ docs) = {}
  BY DEF Ids, Unique
<1>7. ASSUME IosOk(rows, ev, docs)
      PROVE  IosOk(rows, e, more)
  <2>1. RowIds(rows) \subseteq Ids(e[1].all)
    <3>1. CASE ev = << >>
      BY <1>i, <1>3, <1>4, <3>1 DEF Ids
    <3>2. CASE ev # << >>
      BY <1>0, <1>2, <1>7, <3>2 DEF IosOk
    <3> QED BY <3>1, <3>2
  <2> QED BY <1>1, <2>1 DEF IosOk
<1> DEFINE beyond == IF l THEN over \cup Ids(more \ docs) ELSE over
<1>8. ASSUME AndroidOk(rows, ev, docs, over)
      PROVE  AndroidOk(rows, e, more, beyond)
  <2>1. \A i \in 1 .. Len(e) : ~e[i].local => RowIds(rows) \cap Ids(e[i].new) = {}
    BY <1>2, <1>3, <1>4, <1>5, <1>6, <1>8 DEF AndroidOk
  <2>2. ASSUME NEW m \in docs
        PROVE  Represented(m, rows) \/ m.id \in beyond \/ Told(m, e)
    <3>1. Represented(m, rows) \/ m.id \in over \/ Told(m, ev)
      BY <1>8 DEF AndroidOk
    <3>2. 1 .. Len(ev) \subseteq 1 .. Len(e)
      BY <1>1
    <3>3. Told(m, ev) => Told(m, e)
      BY <1>2, <3>2 DEF Told
    <3> QED BY <3>1, <3>3
  <2>3. ASSUME NEW m \in more \ docs
        PROVE  m.id \in beyond \/ Told(m, e)
    <3>1. l => m.id \in beyond
      BY DEF Ids
    <3>2. Len(ev) + 1 \in 1 .. Len(e)
      BY <1>1
    <3>3. ~l => Told(m, e)
      BY <1>3, <1>4, <3>2 DEF Told
    <3> QED BY <3>1, <3>3
  <2> HIDE DEF beyond
  <2> QED BY <2>1, <2>2, <2>3 DEF AndroidOk
<1> QED BY <1>7, <1>8 DEF e, s

\* Raise: the listener takes a snapshot of what the device has, or nothing has
\* changed.  The screen does not change.
LEMMA RaiseKeeps ==
  ASSUME TypeOK, NEW p \in Pet, NEW docs \in SUBSET Message, NEW l \in BOOLEAN,
         seen[p] \subseteq docs, Unique(docs), Raise(p, docs, l),
         EventsOk(events[p], seen[p]), RowIds(list[p]) \subseteq Ids(seen[p])
  PROVE  /\ seen' \in [Pet -> SUBSET Message] /\ seen'[p] = docs
         /\ events' \in [Pet -> Seq(Snapshot)] /\ passed' \in [Pet -> SUBSET Id]
         /\ \A q \in Pet \ {p} :
              seen'[q] = seen[q] /\ events'[q] = events[q] /\ passed'[q] = passed[q]
         /\ EventsOk(events'[p], docs)
         /\ IosOk(list[p], events[p], seen[p]) => IosOk(list[p], events'[p], docs)
         /\ AndroidOk(list[p], events[p], seen[p], passed[p])
              => AndroidOk(list[p], events'[p], docs, passed'[p] \cup Beyond(docs))
         /\ l /\ EventsOk(events[p], seen[p]) =>
              \A i \in 1 .. Len(events'[p]) : ~events'[p][i].local => events'[p][i].new \subseteq seen[p]
<1> DEFINE s == [new |-> docs \ seen[p], all |-> docs, local |-> l]
           ids == {m.id : m \in docs \ seen[p]}
           over == IF l THEN passed[p] \cup (ids \cap 1 .. sent) ELSE passed[p]
<1>1. /\ seen[p] \in SUBSET Message /\ events[p] \in Seq(Snapshot)
      /\ list[p] \in Seq(Row) /\ passed[p] \in SUBSET Id
  BY DEF TypeOK
<1>2. seen' = [seen EXCEPT ![p] = docs]
  BY DEF Raise
<1>3. seen' \in [Pet -> SUBSET Message] /\ seen'[p] = docs /\ \A q \in Pet \ {p} : seen'[q] = seen[q]
  BY <1>2 DEF TypeOK
<1>a. ASSUME NEW rows, NEW ev, NEW X, NEW Y, X \subseteq Y, AndroidOk(rows, ev, docs, X)
      PROVE  AndroidOk(rows, ev, docs, Y)
  BY <1>a DEF AndroidOk
<1>4. CASE docs \ seen[p] = {}
  <2>1. docs = seen[p]
    BY <1>4
  <2>2. UNCHANGED <<events, passed>>
    BY <1>4, Zenon DEF Raise
  <2>3. \A i \in 1 .. Len(events[p]) : events[p][i].new \subseteq seen[p]
    BY DEF EventsOk
  <2>4. AndroidOk(list[p], events[p], docs, passed[p])
          => AndroidOk(list[p], events[p], docs, passed[p] \cup Beyond(docs))
    BY <1>a
  <2> QED BY <1>3, <2>1, <2>2, <2>3, <2>4 DEF TypeOK
<1>5. CASE docs \ seen[p] # {}
  <2>1. /\ events' = [events EXCEPT ![p] = Append(@, s)]
        /\ passed' = [passed EXCEPT ![p] = over]
    BY <1>5, Zenon DEF Raise
  <2>2. s \in Snapshot
    BY DEF Snapshot
  <2>3. /\ Append(events[p], s) \in Seq(Snapshot)
        /\ Len(Append(events[p], s)) = Len(events[p]) + 1
        /\ \A i \in 1 .. Len(events[p]) : Append(events[p], s)[i] = events[p][i]
        /\ Append(events[p], s)[Len(events[p]) + 1] = s
    BY <1>1, <2>2, AppendProperties
  <2>4. /\ EventsOk(Append(events[p], s), docs)
        /\ IosOk(list[p], events[p], seen[p]) => IosOk(list[p], Append(events[p], s), docs)
    BY <1>1, EventsAppend, ScreenAppend
  <2>5. s.local = l
    OBVIOUS
  <2>a. AndroidOk(list[p], events[p], seen[p], passed[p])
          => AndroidOk(list[p], Append(events[p], s), docs, over \cup Beyond(docs))
    <3> DEFINE all == IF l THEN passed[p] \cup Ids(docs \ seen[p]) ELSE passed[p]
    <3>1. AndroidOk(list[p], events[p], seen[p], passed[p])
            => AndroidOk(list[p], Append(events[p], s), docs, all)
      BY <1>1, ScreenAppend
    <3>2. all \subseteq over \cup Beyond(docs)
      BY DEF Beyond, Ids
    <3> HIDE DEF all, over, s
    <3> QED BY <1>a, <3>1, <3>2
  <2>b. over \in SUBSET Id
    BY <1>1 DEF Message
  <2> HIDE DEF s, over
  <2>6. events'[p] = Append(events[p], s) /\ passed'[p] = over
    BY <2>1, Zenon DEF TypeOK
  <2>7. \A q \in Pet \ {p} : events'[q] = events[q] /\ passed'[q] = passed[q]
    BY <2>1, Zenon DEF TypeOK
  <2>8. events' \in [Pet -> Seq(Snapshot)] /\ passed' \in [Pet -> SUBSET Id]
    <3>1. events' \in [Pet -> Seq(Snapshot)]
      BY <2>1, <2>3 DEF TypeOK
    <3> QED BY <2>1, <2>b, <3>1 DEF TypeOK
  <2>9. ASSUME l, NEW i \in 1 .. Len(events'[p]), ~events'[p][i].local
        PROVE  events'[p][i].new \subseteq seen[p]
    <3>1. i \in 1 .. Len(events[p]) \/ i = Len(events[p]) + 1
      BY <1>1, <2>3, <2>6, <2>9
    <3>2. i # Len(events[p]) + 1
      BY <2>3, <2>5, <2>6, <2>9
    <3>3. events'[p][i] = events[p][i]
      BY <2>3, <2>6, <3>1, <3>2
    <3> QED BY <3>1, <3>2, <3>3 DEF EventsOk
  <2> QED BY <1>3, <2>4, <2>6, <2>7, <2>8, <2>9, <2>a
<1> QED BY <1>4, <1>5

\* The contents of queues.
LEMMA ContentsOf ==
  ASSUME NEW T, NEW s \in Seq(T)
  PROVE  /\ Contents(s) \subseteq T
         /\ \A x \in T : Contents(Append(s, x)) = Contents(s) \cup {x}
         /\ s # << >> => /\ Head(s) \in T /\ Tail(s) \in Seq(T)
                         /\ Contents(s) = {Head(s)} \cup Contents(Tail(s))
         /\ s = << >> => Contents(s) = {}
<1>1. Contents(s) \subseteq T
  BY DEF Contents
<1>2. ASSUME NEW x \in T
      PROVE  Contents(Append(s, x)) = Contents(s) \cup {x}
  <2>1. /\ Len(Append(s, x)) = Len(s) + 1 /\ Len(s) \in Nat
        /\ \A i \in 1 .. Len(s) : Append(s, x)[i] = s[i]
        /\ Append(s, x)[Len(s) + 1] = x
    BY AppendProperties
  <2>2. 1 .. Len(s) + 1 = (1 .. Len(s)) \cup {Len(s) + 1}
    BY <2>1
  <2> QED BY <2>1, <2>2 DEF Contents
<1>3. ASSUME s # << >>
      PROVE  /\ Head(s) \in T /\ Tail(s) \in Seq(T)
             /\ Contents(s) = {Head(s)} \cup Contents(Tail(s))
  <2>1. /\ Head(s) \in T /\ Tail(s) \in Seq(T) /\ Len(s) \in Nat \ {0}
        /\ Len(Tail(s)) = Len(s) - 1 /\ Head(s) = s[1]
        /\ \A i \in 1 .. Len(s) - 1 : Tail(s)[i] = s[i + 1]
    BY <1>3
  <2>2. \A i \in 1 .. Len(s) : i = 1 \/ (i - 1 \in 1 .. Len(s) - 1 /\ s[i] = Tail(s)[i - 1])
    BY <2>1
  <2>3. \A i \in 1 .. Len(s) - 1 : i + 1 \in 1 .. Len(s)
    BY <2>1
  <2>4. ASSUME NEW x \in Contents(s)
        PROVE  x \in {Head(s)} \cup Contents(Tail(s))
    <3>1. PICK i \in 1 .. Len(s) : x = s[i]
      BY <2>4 DEF Contents
    <3> QED BY <2>1, <2>2, <3>1 DEF Contents
  <2>5. ASSUME NEW x \in Contents(Tail(s))
        PROVE  x \in Contents(s)
    <3>1. PICK i \in 1 .. Len(s) - 1 : x = Tail(s)[i]
      BY <2>1, <2>5 DEF Contents
    <3> QED BY <2>1, <2>3, <3>1 DEF Contents
  <2>6. Head(s) \in Contents(s)
    BY <2>1 DEF Contents
  <2> QED BY <2>1, <2>4, <2>5, <2>6
<1>4. s = << >> => Contents(s) = {}
  BY DEF Contents
<1> QED BY <1>1, <1>2, <1>3, <1>4

\* A chat that nothing happened to.
LEMMA ChatUntouched ==
  ASSUME NEW q \in Pet, ChatOk(q), Local(q)' = Local(q),
         phase'[q] = phase[q], seen'[q] = seen[q], events'[q] = events[q],
         list'[q] = list[q], passed'[q] = passed[q]
  PROVE  ChatOk(q)'
  BY DEF ChatOk

----------------------------------------------------------------------------
(* The steps keep the invariant *)

\* What a device sees was handed to the room.
LEMMA PostedTypes ==
  ASSUME TypeOK
  PROVE  /\ Posted \subseteq Message
         /\ \A p \in Pet : Local(p) \subseteq Posted
         /\ Numbered => Unique(Posted) /\ \A p \in Pet : Unique(Local(p))
<1>1. \A p \in Pet : Contents(pending[p]) \subseteq Message
  BY ContentsOf DEF TypeOK
<1>2. Contents(server) \subseteq Message
  BY ContentsOf DEF TypeOK
<1>3. Posted \subseteq Message
  BY <1>1, <1>2 DEF Posted
<1>4. \A p \in Pet : Local(p) \subseteq Posted
  <2>1. \A p \in Pet : synced[p] \subseteq Contents(server)
    BY DEF TypeOK
  <2> QED BY <2>1 DEF Local, Posted
<1> QED BY <1>3, <1>4 DEF Numbered, Unique

\* The messages handed to the room have numbers given out before.
LEMMA PostedNumbers ==
  ASSUME TypeOK, Numbered
  PROVE  /\ \A docs \in SUBSET Posted : Beyond(docs) = {}
         /\ \A p \in Pet : Beyond(Local(p)) = {}
<1>1. \A m \in Posted : m.id \in 1 .. MaxMessages /\ m.id <= sent
  BY PostedTypes DEF Numbered, Message, Id
<1>2. \A m \in Posted : m.id \in 1 .. sent
  BY <1>1, ChatAssumption DEF TypeOK
<1>3. \A p \in Pet : Local(p) \in SUBSET Posted
  BY PostedTypes
<1> QED BY <1>2, <1>3 DEF Beyond, Ids

\* The message that is typed next.
LEMMA NextMessage ==
  ASSUME TypeOK, sent < MaxMessages, NEW p \in Pet, NEW t \in Times, NEW r \in BOOLEAN
  PROVE  NewMessage(p, t, r) \in Message /\ NewMessage(p, t, r).id = sent + 1
<1>1. sent + 1 \in Id
  BY ChatAssumption DEF TypeOK, Id
<1> QED BY <1>1 DEF NewMessage, Message

\* Messenger.upload, newMessage: the room is handed a message with a number of
\* its own, which only the sender's device sees.
LEMMA QueuedKeeps ==
  ASSUME TypeOK, Numbered, NEW p \in Pet, NEW m \in Message, m.id = sent + 1, Queued(p, m)
  PROVE  /\ sent' \in 0 .. MaxMessages
         /\ server' = server /\ synced' = synced
         /\ pending' \in [Pet -> Seq(Message)]
         /\ Posted' = Posted \cup {m}
         /\ Numbered'
         /\ m.id \notin Ids(Posted)
         /\ Local(p)' = Local(p) \cup {m}
         /\ \A q \in Pet \ {p} : Local(q)' = Local(q)
<1>1. /\ sent' = sent + 1 /\ sent \in Nat /\ sent' \in 0 .. MaxMessages
      /\ server' = server /\ synced' = synced
      /\ pending' = [pending EXCEPT ![p] = Append(@, m)]
  BY ChatAssumption DEF Queued, TypeOK
<1>2. pending[p] \in Seq(Message)
  BY DEF TypeOK
<1>3. pending'[p] = Append(pending[p], m) /\ \A q \in Pet \ {p} : pending'[q] = pending[q]
  BY <1>1 DEF TypeOK
<1>4. pending' \in [Pet -> Seq(Message)]
  <2>1. Append(pending[p], m) \in Seq(Message)
    BY <1>2
  <2> QED BY <1>1, <2>1 DEF TypeOK
<1>5. Contents(pending'[p]) = Contents(pending[p]) \cup {m}
  BY <1>2, <1>3, ContentsOf
<1>6. Local(p)' = Local(p) \cup {m}
  BY <1>1, <1>5 DEF Local
<1>7. \A q \in Pet \ {p} : Local(q)' = Local(q)
  BY <1>1, <1>3 DEF Local
<1>8. Posted' = Posted \cup {m}
  <2>1. UNION {Contents(pending'[q]) : q \in Pet} = (UNION {Contents(pending[q]) : q \in Pet}) \cup {m}
    BY <1>3, <1>5
  <2> QED BY <1>1, <2>1 DEF Posted
<1>9. \A x \in Posted : x.id \in Nat /\ x.id <= sent
  BY PostedTypes, ChatAssumption DEF Numbered, Message, Id
<1>10. m.id \notin Ids(Posted)
  BY <1>1, <1>9 DEF Ids
<1>11. Numbered'
  <2>1. Unique(Posted')
    BY <1>8, <1>10 DEF Numbered, Unique, Ids
  <2>2. \A x \in Posted' : x.id <= sent'
    BY <1>1, <1>8, <1>9
  <2> QED BY <2>1, <2>2 DEF Numbered
<1> QED BY <1>1, <1>4, <1>6, <1>7, <1>8, <1>10, <1>11

\* An empty screen with nothing waiting and nothing seen.
LEMMA BlankScreen ==
  /\ EventsOk(<< >>, {}) /\ Distinct(<< >>) /\ RowIds(<< >>) \subseteq Ids({})
  /\ IosOk(<< >>, << >>, {})
  /\ \A over \in SUBSET Id : AndroidOk(<< >>, << >>, {}, over)
  BY RowsOfNone DEF EventsOk, Distinct, RowIds, Ids, IosOk, AndroidOk

\* With nobody in the room everything is empty.
LEMMA InitChat == Init => ChatInv
<1> SUFFICES ASSUME Init PROVE ChatInv
  OBVIOUS
<1>1. TypeOK
  BY ChatAssumption DEF Init, TypeOK, Contents
<1>2. Posted = {}
  BY DEF Init, Posted, Contents
<1>3. Numbered
  BY <1>2 DEF Numbered, Unique
<1>4. ASSUME NEW p \in Pet PROVE ChatOk(p)
  <2>1. phase[p] = "closed" /\ seen[p] = {} /\ events[p] = << >> /\ list[p] = << >> /\ passed[p] \in SUBSET Id
    BY DEF Init
  <2> QED BY <2>1, BlankScreen DEF ChatOk
<1> QED BY <1>1, <1>3, <1>4 DEF ChatInv

\* Without a window there is no list and no listener.
LEMMA OpenKeeps == ASSUME ChatInv, NEW p \in Pet, Open(p) PROVE ChatInv'
<1>1. UNCHANGED <<server, pending, synced, seen, events, list, passed, sent>>
  BY DEF Open
<1>2. phase' = [phase EXCEPT ![p] = "loading"] /\ phase[p] = "closed"
  BY DEF Open
<1>3. TypeOK'
  BY <1>1, <1>2 DEF ChatInv, TypeOK
<1>4. Posted' = Posted /\ \A q \in Pet : Local(q)' = Local(q)
  BY <1>1 DEF Posted, Local
<1>5. Numbered'
  BY <1>1, <1>4 DEF ChatInv, Numbered
<1>6. ASSUME NEW q \in Pet PROVE ChatOk(q)'
  <2>1. (phase'[q] = "listening") <=> (phase[q] = "listening")
    BY <1>2 DEF ChatInv, TypeOK
  <2> QED BY <1>1, <1>4, <2>1 DEF ChatInv, ChatOk
<1> QED BY <1>3, <1>5, <1>6 DEF ChatInv

\* A listener whose documents change: of the chat's parts that the snapshot
\* does not change, only the rows may.
LEMMA RaiseChat ==
  ASSUME ChatInv, NEW p \in Pet, NEW docs \in SUBSET Message, NEW l \in BOOLEAN,
         seen[p] \subseteq docs, Unique(docs), Raise(p, docs, l),
         phase'[p] = "listening", Local(p)' = docs, list'[p] = list[p],
         p \notin Ios => Beyond(docs) = {}
  PROVE  ChatOk(p)'
<1>1. /\ TypeOK /\ EventsOk(events[p], seen[p]) /\ RowIds(list[p]) \subseteq Ids(seen[p])
      /\ Distinct(list[p])
      /\ p \in Ios => IosOk(list[p], events[p], seen[p])
      /\ p \notin Ios => AndroidOk(list[p], events[p], seen[p], passed[p])
  BY DEF ChatInv, ChatOk
<1>2. /\ seen'[p] = docs /\ EventsOk(events'[p], docs)
      /\ IosOk(list[p], events[p], seen[p]) => IosOk(list[p], events'[p], docs)
      /\ AndroidOk(list[p], events[p], seen[p], passed[p])
           => AndroidOk(list[p], events'[p], docs, passed'[p] \cup Beyond(docs))
  BY <1>1, RaiseKeeps
<1>3. RowIds(list[p]) \subseteq Ids(docs)
  BY <1>1 DEF Ids
<1>4. p \notin Ios => passed'[p] \cup Beyond(docs) = passed'[p]
  OBVIOUS
<1> QED BY <1>1, <1>2, <1>3, <1>4 DEF ChatOk

\* startListen, listenToRoom: the first snapshot is what the device has.
LEMMA ListenKeeps == ASSUME ChatInv, NEW p \in Pet, Listen(p) PROVE ChatInv'
<1>1. /\ TypeOK /\ Numbered
      /\ UNCHANGED <<server, pending, synced, list, sent>>
      /\ phase[p] = "loading" /\ phase' = [phase EXCEPT ![p] = "listening"]
  BY DEF ChatInv, Listen
<1>2. Posted' = Posted /\ \A q \in Pet : Local(q)' = Local(q)
  BY <1>1 DEF Posted, Local
<1>3. Raise(p, Local(p), pending[p] # << >>)
  BY DEF Listen
<1>4. /\ seen[p] = {} /\ EventsOk(events[p], seen[p]) /\ RowIds(list[p]) \subseteq Ids(seen[p])
  BY <1>1 DEF ChatInv, ChatOk
<1>5. Local(p) \in SUBSET Message /\ Unique(Local(p))
  BY <1>1, PostedTypes
<1>6. (pending[p] # << >>) \in BOOLEAN
  OBVIOUS
<1>7. /\ seen' \in [Pet -> SUBSET Message]
      /\ events' \in [Pet -> Seq(Snapshot)] /\ passed' \in [Pet -> SUBSET Id]
      /\ \A q \in Pet \ {p} :
           seen'[q] = seen[q] /\ events'[q] = events[q] /\ passed'[q] = passed[q]
  BY <1>1, <1>3, <1>4, <1>5, <1>6, RaiseKeeps
<1>8. phase'[p] = "listening" /\ \A q \in Pet \ {p} : phase'[q] = phase[q]
  BY <1>1 DEF TypeOK
<1>9. TypeOK'
  BY <1>1, <1>7, <1>8 DEF TypeOK
<1>10. Numbered'
  BY <1>1, <1>2 DEF Numbered
<1>11. ChatOk(p)'
  BY <1>1, <1>2, <1>3, <1>4, <1>5, <1>6, <1>8, PostedNumbers, RaiseChat DEF ChatInv
<1>12. \A q \in Pet \ {p} : ChatOk(q)'
  BY <1>1, <1>2, <1>7, <1>8, ChatUntouched DEF ChatInv
<1> QED BY <1>9, <1>10, <1>11, <1>12 DEF ChatInv

\* The window and the listener go, and with them what the app has not shown.
LEMMA CloseKeeps ==
  ASSUME TypeOK, NEW p \in Pet, Close(p)
  PROVE  /\ phase' \in [Pet -> {"closed", "loading", "listening"}]
         /\ seen' \in [Pet -> SUBSET Message]
         /\ events' \in [Pet -> Seq(Snapshot)]
         /\ list' \in [Pet -> Seq(Row)]
         /\ passed' \in [Pet -> SUBSET Id]
         /\ \A q \in Pet : phase'[q] # "listening" => list'[q] = << >> /\ events'[q] = << >>
         /\ ChatOk(p)'
         /\ \A q \in Pet \ {p} :
              /\ phase'[q] = phase[q] /\ seen'[q] = seen[q] /\ events'[q] = events[q]
              /\ list'[q] = list[q] /\ passed'[q] = passed[q]
<1>1. /\ phase' \in [Pet -> {"closed", "loading", "listening"}] /\ phase'[p] = "closed"
      /\ seen' \in [Pet -> SUBSET Message] /\ seen'[p] = {}
      /\ events' \in [Pet -> Seq(Snapshot)] /\ events'[p] = << >>
      /\ list' \in [Pet -> Seq(Row)] /\ list'[p] = << >>
      /\ passed' \in [Pet -> SUBSET Id]
  BY DEF Close, TypeOK
<1>2. \A q \in Pet \ {p} :
        /\ phase'[q] = phase[q] /\ seen'[q] = seen[q] /\ events'[q] = events[q]
        /\ list'[q] = list[q] /\ passed'[q] = passed[q]
  BY DEF Close, TypeOK
<1>3. ChatOk(p)'
  <2>1. passed'[p] \in SUBSET Id
    BY <1>1
  <2> QED BY <1>1, <2>1, BlankScreen DEF ChatOk
<1>4. \A q \in Pet : phase'[q] # "listening" => list'[q] = << >> /\ events'[q] = << >>
  BY <1>1, <1>2 DEF TypeOK
<1> QED BY <1>1, <1>2, <1>3, <1>4

LEMMA LeaveKeeps == ASSUME ChatInv, NEW p \in Pet, Leave(p) PROVE ChatInv'
<1>1. TypeOK /\ Numbered /\ Close(p) /\ UNCHANGED <<server, pending, synced, sent>>
  BY DEF ChatInv, Leave
<1>2. Posted' = Posted /\ \A q \in Pet : Local(q)' = Local(q)
  BY <1>1 DEF Posted, Local
<1>3. TypeOK'
  BY <1>1, CloseKeeps DEF TypeOK
<1>4. Numbered'
  BY <1>1, <1>2 DEF Numbered
<1>5. \A q \in Pet : ChatOk(q)'
  <2>1. ChatOk(p)'
    BY <1>1, CloseKeeps
  <2>2. \A q \in Pet \ {p} : ChatOk(q)'
    BY <1>1, <1>2, CloseKeeps, ChatUntouched DEF ChatInv
  <2> QED BY <2>1, <2>2
<1> QED BY <1>3, <1>4, <1>5 DEF ChatInv

\* SendIos: the list is left to the snapshot of the pending write.
LEMMA SendIosKeeps == ASSUME ChatInv, NEW p \in Pet, SendIos(p) PROVE ChatInv'
<1>1. PICK t \in Times :
        /\ phase[p] = "listening" /\ Queued(p, NewMessage(p, t, TRUE))
        /\ Raise(p, Local(p) \cup {NewMessage(p, t, TRUE)}, TRUE)
        /\ UNCHANGED <<phase, list>>
  BY DEF SendIos
<1>p. p \in Ios
  BY DEF SendIos
<1> DEFINE m == NewMessage(p, t, TRUE)
           docs == Local(p) \cup {m}
<1>2. m \in Message /\ m.id = sent + 1
  BY <1>1, NextMessage DEF ChatInv, Queued
<1> HIDE DEF m
<1>3. /\ sent' \in 0 .. MaxMessages /\ server' = server /\ synced' = synced
      /\ pending' \in [Pet -> Seq(Message)]
      /\ Posted' = Posted \cup {m} /\ Numbered'
      /\ Local(p)' = docs /\ \A q \in Pet \ {p} : Local(q)' = Local(q)
  BY <1>1, <1>2, QueuedKeeps DEF ChatInv, m
<1>4. docs \in SUBSET Message /\ Unique(docs)
  <2>1. Local(p) \subseteq Posted /\ Posted \subseteq Message
    BY PostedTypes DEF ChatInv
  <2>2. docs \subseteq Posted'
    BY <1>3, <2>1
  <2> QED BY <1>2, <1>3, <2>1, <2>2 DEF Numbered, Unique
<1>5. /\ seen[p] = Local(p) /\ EventsOk(events[p], seen[p])
      /\ RowIds(list[p]) \subseteq Ids(seen[p])
  BY <1>1 DEF ChatInv, ChatOk
<1>6. seen[p] \subseteq docs /\ Raise(p, docs, TRUE)
  BY <1>1, <1>5 DEF m
<1>7. /\ seen' \in [Pet -> SUBSET Message]
      /\ events' \in [Pet -> Seq(Snapshot)] /\ passed' \in [Pet -> SUBSET Id]
      /\ \A q \in Pet \ {p} :
           seen'[q] = seen[q] /\ events'[q] = events[q] /\ passed'[q] = passed[q]
  BY <1>4, <1>5, <1>6, RaiseKeeps DEF ChatInv
<1>8. TypeOK'
  BY <1>1, <1>3, <1>7 DEF ChatInv, TypeOK
<1>9. ChatOk(p)'
  BY <1>1, <1>3, <1>4, <1>6, <1>p, RaiseChat
<1>10. \A q \in Pet \ {p} : ChatOk(q)'
  BY <1>1, <1>3, <1>7, ChatUntouched DEF ChatInv
<1> QED BY <1>3, <1>8, <1>9, <1>10 DEF ChatInv

\* Sent before the room is read: nothing listens yet.
LEMMA SendEarlyIosKeeps == ASSUME ChatInv, NEW p \in Pet, SendEarlyIos(p) PROVE ChatInv'
<1>1. PICK t \in Times :
        /\ phase[p] = "loading" /\ Queued(p, NewMessage(p, t, FALSE))
        /\ UNCHANGED <<phase, seen, events, list, passed>>
  BY DEF SendEarlyIos
<1> DEFINE m == NewMessage(p, t, FALSE)
<1>2. m \in Message /\ m.id = sent + 1
  BY <1>1, NextMessage DEF ChatInv, Queued
<1> HIDE DEF m
<1>3. /\ sent' \in 0 .. MaxMessages /\ server' = server /\ synced' = synced
      /\ pending' \in [Pet -> Seq(Message)] /\ Numbered'
      /\ \A q \in Pet \ {p} : Local(q)' = Local(q)
  BY <1>1, <1>2, QueuedKeeps DEF ChatInv, m
<1>4. TypeOK'
  BY <1>1, <1>3 DEF ChatInv, TypeOK
<1>5. ChatOk(p)'
  BY <1>1 DEF ChatInv, ChatOk
<1>6. \A q \in Pet \ {p} : ChatOk(q)'
  BY <1>1, <1>3, ChatUntouched DEF ChatInv
<1> QED BY <1>3, <1>4, <1>5, <1>6 DEF ChatInv

\* Sent before the profiles are there: the write is queued and the app ends.
LEMMA SendEarlyAndroidKeeps == ASSUME ChatInv, NEW p \in Pet, SendEarlyAndroid(p) PROVE ChatInv'
<1>1. PICK t \in Times : Queued(p, NewMessage(p, t, TRUE)) /\ Close(p)
  BY DEF SendEarlyAndroid
<1> DEFINE m == NewMessage(p, t, TRUE)
<1>2. m \in Message /\ m.id = sent + 1
  BY <1>1, NextMessage DEF ChatInv, Queued
<1> HIDE DEF m
<1>3. /\ sent' \in 0 .. MaxMessages /\ server' = server /\ synced' = synced
      /\ pending' \in [Pet -> Seq(Message)] /\ Numbered'
      /\ \A q \in Pet \ {p} : Local(q)' = Local(q)
  BY <1>1, <1>2, QueuedKeeps DEF ChatInv, m
<1>4. TypeOK'
  BY <1>1, <1>3, CloseKeeps DEF ChatInv, TypeOK
<1>5. ChatOk(p)'
  BY <1>1, CloseKeeps DEF ChatInv
<1>6. \A q \in Pet \ {p} : ChatOk(q)'
  BY <1>1, <1>3, CloseKeeps, ChatUntouched DEF ChatInv
<1> QED BY <1>3, <1>4, <1>5, <1>6 DEF ChatInv

\* Rows put after rows.
LEMMA RowsConcat ==
  ASSUME NEW r \in Seq(Row), NEW s \in Seq(Row)
  PROVE  /\ r \o s \in Seq(Row)
         /\ RowIds(r \o s) = RowIds(r) \cup RowIds(s)
         /\ Distinct(r) /\ Distinct(s) /\ RowIds(r) \cap RowIds(s) = {} => Distinct(r \o s)
         /\ \A m \in Message : Represented(m, r) => Represented(m, r \o s)
<1> DEFINE c == r \o s
<1>1. /\ c \in Seq(Row) /\ Len(r) \in Nat /\ Len(s) \in Nat /\ Len(c) = Len(r) + Len(s)
      /\ \A i \in 1 .. Len(c) : c[i] = IF i <= Len(r) THEN r[i] ELSE s[i - Len(r)]
  BY ConcatProperties
<1> HIDE DEF c
<1>2. \A i \in 1 .. Len(r) : i \in 1 .. Len(c) /\ c[i] = r[i]
  BY <1>1
<1>3. \A i \in 1 .. Len(s) : i + Len(r) \in 1 .. Len(c) /\ c[i + Len(r)] = s[i]
  <2> TAKE i \in 1 .. Len(s)
  <2>1. i + Len(r) \in 1 .. Len(c) /\ ~(i + Len(r) <= Len(r)) /\ i + Len(r) - Len(r) = i
    BY <1>1
  <2> QED BY <1>1, <2>1
<1>4. \A i \in 1 .. Len(c) :
        \/ i \in 1 .. Len(r) /\ c[i] = r[i]
        \/ i - Len(r) \in 1 .. Len(s) /\ c[i] = s[i - Len(r)]
  BY <1>1
<1>5. RowIds(c) = RowIds(r) \cup RowIds(s)
  <2>1. RowIds(c) \subseteq RowIds(r) \cup RowIds(s)
    BY <1>4 DEF RowIds
  <2>2. RowIds(r) \subseteq RowIds(c)
    BY <1>2 DEF RowIds
  <2>3. RowIds(s) \subseteq RowIds(c)
    BY <1>3 DEF RowIds
  <2> QED BY <2>1, <2>2, <2>3
<1>6. ASSUME Distinct(r), Distinct(s), RowIds(r) \cap RowIds(s) = {},
             NEW i \in 1 .. Len(c), NEW j \in 1 .. Len(c), c[i].id = c[j].id
      PROVE  i = j
  <2>1. \A k \in 1 .. Len(r), l \in 1 .. Len(s) : r[k].id # s[l].id
    BY <1>6 DEF RowIds
  <2>2. CASE i \in 1 .. Len(r) /\ c[i] = r[i] /\ j \in 1 .. Len(r) /\ c[j] = r[j]
    BY <1>6, <2>2 DEF Distinct
  <2>3. CASE i - Len(r) \in 1 .. Len(s) /\ c[i] = s[i - Len(r)]
             /\ j - Len(r) \in 1 .. Len(s) /\ c[j] = s[j - Len(r)]
    <3>1. i - Len(r) = j - Len(r)
      BY <1>6, <2>3 DEF Distinct
    <3> QED BY <1>1, <3>1
  <2>4. CASE i \in 1 .. Len(r) /\ c[i] = r[i] /\ j - Len(r) \in 1 .. Len(s) /\ c[j] = s[j - Len(r)]
    BY <1>6, <2>1, <2>4
  <2>5. CASE j \in 1 .. Len(r) /\ c[j] = r[j] /\ i - Len(r) \in 1 .. Len(s) /\ c[i] = s[i - Len(r)]
    BY <1>6, <2>1, <2>5
  <2> QED BY <1>4, <2>2, <2>3, <2>4, <2>5
<1>7. ASSUME NEW m \in Message, Represented(m, r)
      PROVE  Represented(m, c)
  BY <1>2, <1>5, <1>7 DEF Represented
<1> QED BY <1>1, <1>5, <1>6, <1>7 DEF Distinct, c

\* SendAndroid: the sender's own row is the only one with its number, and shows
\* the message, whose snapshot is one that is passed over.
LEMMA SendAndroidKeeps == ASSUME ChatInv, NEW p \in Pet, SendAndroid(p) PROVE ChatInv'
<1>1. PICK t \in Times, again \in Times :
        /\ p \notin Ios /\ phase[p] = "listening" /\ Queued(p, NewMessage(p, t, TRUE))
        /\ Raise(p, Local(p) \cup {NewMessage(p, t, TRUE)}, TRUE)
        /\ list' = [list EXCEPT ![p] = Append(@, [id |-> sent + 1, time |-> again])]
        /\ UNCHANGED phase
  BY DEF SendAndroid
<1> DEFINE m == NewMessage(p, t, TRUE)
           docs == Local(p) \cup {m}
           r == [id |-> sent + 1, time |-> again]
<1>2. m \in Message /\ m.id = sent + 1
  BY <1>1, NextMessage DEF ChatInv, Queued
<1>r. r \in Row /\ r.id = m.id
  BY <1>2 DEF Row, Message
<1> HIDE DEF m
<1>3. /\ sent' \in 0 .. MaxMessages /\ server' = server /\ synced' = synced
      /\ pending' \in [Pet -> Seq(Message)]
      /\ Posted' = Posted \cup {m} /\ Numbered' /\ m.id \notin Ids(Posted)
      /\ Local(p)' = docs /\ \A q \in Pet \ {p} : Local(q)' = Local(q)
  BY <1>1, <1>2, QueuedKeeps DEF ChatInv, m
<1>p. Local(p) \subseteq Posted /\ Posted \subseteq Message
  BY PostedTypes DEF ChatInv
<1>4. docs \in SUBSET Message /\ Unique(docs)
  <2>2. docs \subseteq Posted'
    BY <1>3, <1>p
  <2> QED BY <1>2, <1>3, <1>p, <2>2 DEF Numbered, Unique
<1>5. /\ seen[p] = Local(p) /\ EventsOk(events[p], seen[p])
      /\ RowIds(list[p]) \subseteq Ids(seen[p]) /\ Distinct(list[p])
      /\ AndroidOk(list[p], events[p], seen[p], passed[p])
  BY <1>1 DEF ChatInv, ChatOk
<1>6. seen[p] \subseteq docs /\ Raise(p, docs, TRUE)
  BY <1>1, <1>5 DEF m
<1>7. /\ seen' \in [Pet -> SUBSET Message]
      /\ events' \in [Pet -> Seq(Snapshot)] /\ passed' \in [Pet -> SUBSET Id]
      /\ \A q \in Pet \ {p} :
           seen'[q] = seen[q] /\ events'[q] = events[q] /\ passed'[q] = passed[q]
  BY <1>4, <1>5, <1>6, RaiseKeeps DEF ChatInv
<1>8. /\ seen'[p] = docs /\ EventsOk(events'[p], docs)
      /\ AndroidOk(list[p], events'[p], docs, passed'[p] \cup Beyond(docs))
      /\ \A i \in 1 .. Len(events'[p]) : ~events'[p][i].local => events'[p][i].new \subseteq seen[p]
  BY <1>4, <1>5, <1>6, RaiseKeeps DEF ChatInv
<1>9. list[p] \in Seq(Row) /\ list' = [list EXCEPT ![p] = Append(@, r)]
  BY <1>1 DEF ChatInv, TypeOK
<1>10. list'[p] = list[p] \o << r >> /\ \A q \in Pet \ {p} : list'[q] = list[q]
  <2>1. list[p] \o << r >> = Append(list[p], r)
    BY <1>9, <1>r
  <2> QED BY <1>9, <2>1 DEF ChatInv, TypeOK
<1> HIDE DEF r
<1>11. << r >> \in Seq(Row) /\ RowIds(<< r >>) = {m.id} /\ Distinct(<< r >>)
  BY <1>r DEF RowIds, Distinct
<1>12. m.id \notin RowIds(list[p])
  BY <1>3, <1>5, <1>p DEF Ids
<1>13. list'[p] \in Seq(Row) /\ RowIds(list'[p]) = RowIds(list[p]) \cup {m.id} /\ Distinct(list'[p])
  <2>1. RowIds(list[p]) \cap RowIds(<< r >>) = {}
    BY <1>11, <1>12
  <2>2. /\ list[p] \o << r >> \in Seq(Row)
        /\ RowIds(list[p] \o << r >>) = RowIds(list[p]) \cup RowIds(<< r >>)
        /\ Distinct(list[p] \o << r >>)
    BY <1>5, <1>9, <1>11, <2>1, RowsConcat
  <2> QED BY <1>10, <1>11, <2>2
<1>14. TypeOK'
  <2>1. list' \in [Pet -> Seq(Row)]
    BY <1>9, <1>10, <1>13 DEF ChatInv, TypeOK
  <2>2. \A q \in Pet : phase'[q] # "listening" => list'[q] = << >> /\ events'[q] = << >>
    BY <1>1, <1>7, <1>10 DEF ChatInv, TypeOK
  <2> QED BY <1>1, <1>3, <1>7, <2>1, <2>2 DEF ChatInv, TypeOK
<1>15. ChatOk(p)'
  <2>1. RowIds(list'[p]) \subseteq Ids(docs)
    BY <1>5, <1>13 DEF Ids
  <2>2. Beyond(docs) \subseteq {m.id}
    <3>1. Beyond(Local(p)) = {}
      BY PostedNumbers DEF ChatInv
    <3> QED BY <3>1 DEF Beyond, Ids
  <2>3. ASSUME NEW n \in docs
        PROVE  Represented(n, list'[p]) \/ n.id \in passed'[p] \/ Told(n, events'[p])
    <3>1. CASE n.id = m.id
      BY <1>13, <3>1 DEF Represented
    <3>2. CASE Represented(n, list[p])
      <4>1. n \in Message
        BY <1>4
      <4>2. Represented(n, list[p] \o << r >>)
        BY ONLY <1>9, <1>11, <3>2, <4>1, RowsConcat
      <4> QED BY <1>10, <4>2
    <3>3. Represented(n, list[p]) \/ n.id \in passed'[p] \cup Beyond(docs) \/ Told(n, events'[p])
      BY <1>8 DEF AndroidOk
    <3> QED BY <2>2, <3>1, <3>2, <3>3
  <2>4. ASSUME NEW i \in 1 .. Len(events'[p]), ~events'[p][i].local
        PROVE  RowIds(list'[p]) \cap Ids(events'[p][i].new) = {}
    <3>1. RowIds(list[p]) \cap Ids(events'[p][i].new) = {}
      BY <1>8, <2>4 DEF AndroidOk
    <3>2. m.id \notin Ids(events'[p][i].new)
      BY <1>3, <1>5, <1>8, <1>p, <2>4 DEF Ids
    <3> QED BY <1>13, <3>1, <3>2
  <2>5. AndroidOk(list'[p], events'[p], docs, passed'[p])
    BY <2>3, <2>4 DEF AndroidOk
  <2> QED BY <1>1, <1>3, <1>8, <1>13, <2>1, <2>5 DEF ChatOk
<1>16. \A q \in Pet \ {p} : ChatOk(q)'
  BY <1>1, <1>3, <1>7, <1>10, ChatUntouched DEF ChatInv
<1> QED BY <1>3, <1>14, <1>15, <1>16 DEF ChatInv

\* The server applies the oldest write: no device sees other documents.
LEMMA FlushKeeps == ASSUME ChatInv, NEW p \in Pet, Flush(p) PROVE ChatInv' /\ Posted' = Posted
<1> DEFINE h == Head(pending[p])
<1>1. /\ pending[p] # << >>
      /\ server' = Append(server, h)
      /\ pending' = [pending EXCEPT ![p] = Tail(@)]
      /\ synced' = [synced EXCEPT ![p] = @ \cup {h}]
      /\ UNCHANGED <<phase, seen, events, list, passed, sent>>
  BY DEF Flush
<1>2. /\ pending[p] \in Seq(Message) /\ server \in Seq(Message)
      /\ synced \in [Pet -> SUBSET Contents(server)]
  BY DEF ChatInv, TypeOK
<1>3. h \in Message /\ Tail(pending[p]) \in Seq(Message)
      /\ Contents(pending[p]) = {h} \cup Contents(Tail(pending[p]))
  BY <1>1, <1>2, ContentsOf
<1> HIDE DEF h
<1>4. Contents(server') = Contents(server) \cup {h}
  BY <1>1, <1>2, <1>3, ContentsOf
<1>5. pending'[p] = Tail(pending[p]) /\ \A q \in Pet \ {p} : pending'[q] = pending[q]
  BY <1>1 DEF ChatInv, TypeOK
<1>6. synced'[p] = synced[p] \cup {h} /\ \A q \in Pet \ {p} : synced'[q] = synced[q]
  BY <1>1, <1>2
<1>7. \A q \in Pet : Local(q)' = Local(q)
  <2>1. Local(p)' = Local(p)
    BY <1>3, <1>5, <1>6 DEF Local
  <2>2. \A q \in Pet \ {p} : Local(q)' = Local(q)
    BY <1>5, <1>6 DEF Local
  <2> QED BY <2>1, <2>2
<1>8. Posted' = Posted
  <2>1. h \in Contents(pending[p])
    BY <1>3
  <2>2. {h} \cup UNION {Contents(pending'[q]) : q \in Pet} = UNION {Contents(pending[q]) : q \in Pet}
    BY <1>3, <1>5
  <2> QED BY <1>4, <2>2 DEF Posted
<1>9. TypeOK'
  <2>1. server' \in Seq(Message)
    BY <1>1, <1>2, <1>3
  <2>2. pending' \in [Pet -> Seq(Message)]
    BY <1>1, <1>3 DEF ChatInv, TypeOK
  <2>3. synced' \in [Pet -> SUBSET Contents(server)']
    BY <1>1, <1>2, <1>4
  <2> QED BY <1>1, <2>1, <2>2, <2>3 DEF ChatInv, TypeOK
<1>10. Numbered'
  BY <1>1, <1>8 DEF ChatInv, Numbered
<1>11. \A q \in Pet : ChatOk(q)'
  BY <1>1, <1>7, ChatUntouched DEF ChatInv
<1> QED BY <1>8, <1>9, <1>10, <1>11 DEF ChatInv

\* The server delivers messages: a device sees more of what was sent.
LEMMA DeliverKeeps == ASSUME ChatInv, NEW p \in Pet, Deliver(p) PROVE ChatInv'
<1>1. PICK k \in 1 .. Len(server) :
        LET now == synced[p] \cup Contents(SubSeq(server, 1, k))
        IN  /\ phase[p] = "listening"
            /\ synced' = [synced EXCEPT ![p] = now]
            /\ Raise(p, now \cup Contents(pending[p]), pending[p] # << >>)
            /\ UNCHANGED <<server, pending, phase, list, sent>>
  BY DEF Deliver
<1> DEFINE now == synced[p] \cup Contents(SubSeq(server, 1, k))
           docs == now \cup Contents(pending[p])
<1>2. now \subseteq Contents(server)
  <2>1. server \in Seq(Message) /\ synced[p] \subseteq Contents(server)
    BY DEF ChatInv, TypeOK
  <2>2. Len(SubSeq(server, 1, k)) = k /\ \A i \in 1 .. k : SubSeq(server, 1, k)[i] = server[i]
    BY <2>1
  <2>3. \A i \in 1 .. k : i \in 1 .. Len(server)
    BY <2>1
  <2>4. Contents(SubSeq(server, 1, k)) \subseteq Contents(server)
    BY <2>2, <2>3 DEF Contents
  <2> QED BY <2>1, <2>4
<1>3. Local(p) \subseteq docs
  BY DEF Local
<1> HIDE DEF now
<1>4. /\ phase[p] = "listening" /\ synced' = [synced EXCEPT ![p] = now]
      /\ Raise(p, docs, pending[p] # << >>)
      /\ UNCHANGED <<server, pending, phase, list, sent>>
  BY <1>1 DEF now
<1>p. docs \subseteq Posted
  BY <1>2 DEF Posted
<1>5. docs \in SUBSET Message /\ Unique(docs)
  BY <1>p, PostedTypes DEF ChatInv, Unique
<1>6. Posted' = Posted
  BY <1>4 DEF Posted
<1>7. synced'[p] = now /\ \A q \in Pet \ {p} : synced'[q] = synced[q]
  BY <1>4 DEF ChatInv, TypeOK
<1>8. Local(p)' = docs /\ \A q \in Pet \ {p} : Local(q)' = Local(q)
  BY <1>4, <1>7 DEF Local
<1>9. /\ seen[p] = Local(p) /\ EventsOk(events[p], seen[p])
      /\ RowIds(list[p]) \subseteq Ids(seen[p])
  BY <1>4 DEF ChatInv, ChatOk
<1>10. (pending[p] # << >>) \in BOOLEAN
  OBVIOUS
<1> HIDE DEF docs
<1>11. /\ seen' \in [Pet -> SUBSET Message]
       /\ events' \in [Pet -> Seq(Snapshot)] /\ passed' \in [Pet -> SUBSET Id]
       /\ \A q \in Pet \ {p} :
            seen'[q] = seen[q] /\ events'[q] = events[q] /\ passed'[q] = passed[q]
  BY <1>3, <1>4, <1>5, <1>9, <1>10, RaiseKeeps DEF ChatInv
<1>12. TypeOK'
  <2>1. synced' \in [Pet -> SUBSET Contents(server)']
    BY <1>2, <1>4 DEF ChatInv, TypeOK
  <2> QED BY <1>4, <1>11, <2>1 DEF ChatInv, TypeOK
<1>13. Numbered'
  BY <1>4, <1>6 DEF ChatInv, Numbered
<1>14. ChatOk(p)'
  BY <1>3, <1>4, <1>5, <1>8, <1>9, <1>10, <1>p, PostedNumbers, RaiseChat DEF ChatInv
<1>15. \A q \in Pet \ {p} : ChatOk(q)'
  BY <1>4, <1>8, <1>11, ChatUntouched DEF ChatInv
<1> QED BY <1>12, <1>13, <1>14, <1>15 DEF ChatInv

\* The head of the queue of snapshots is taken: what is left is in order.
LEMMA EventsTail ==
  ASSUME NEW ev \in Seq(Snapshot), ev # << >>, NEW docs, EventsOk(ev, docs)
  PROVE  /\ Tail(ev) \in Seq(Snapshot) /\ Len(ev) \in Nat \ {0} /\ Len(Tail(ev)) = Len(ev) - 1
         /\ Head(ev) = ev[1] /\ 1 \in 1 .. Len(ev)
         /\ Tail(ev) = << >> <=> Len(ev) = 1
         /\ \A i \in 1 .. Len(Tail(ev)) : i + 1 \in 1 .. Len(ev) /\ 1 < i + 1 /\ Tail(ev)[i] = ev[i + 1]
         /\ \A i \in 1 .. Len(ev) : i = 1 \/ \E j \in 1 .. Len(Tail(ev)) : ev[i] = Tail(ev)[j]
         /\ EventsOk(Tail(ev), docs)
<1> DEFINE t == Tail(ev)
<1>1. /\ t \in Seq(Snapshot) /\ Len(ev) \in Nat \ {0} /\ Len(t) = Len(ev) - 1
      /\ Head(ev) = ev[1] /\ 1 \in 1 .. Len(ev)
      /\ \A i \in 1 .. Len(ev) - 1 : t[i] = ev[i + 1]
  OBVIOUS
<1>2. t = << >> <=> Len(ev) = 1
  BY <1>1
<1> HIDE DEF t
<1>3. \A i \in 1 .. Len(t) : i + 1 \in 1 .. Len(ev) /\ 1 < i + 1 /\ t[i] = ev[i + 1]
  BY <1>1
<1>4. ASSUME NEW i \in 1 .. Len(ev), i # 1
      PROVE  \E j \in 1 .. Len(t) : ev[i] = t[j]
  <2>1. i - 1 \in 1 .. Len(t) /\ (i - 1) + 1 = i
    BY <1>1, <1>4
  <2> QED BY <1>3, <2>1
<1>5. \A i \in 1 .. Len(t) : t[i].new \subseteq t[i].all /\ t[i].all \subseteq docs
  BY <1>3 DEF EventsOk
<1>6. ASSUME NEW i \in 1 .. Len(t), NEW j \in 1 .. Len(t), i < j
      PROVE  t[i].all \subseteq t[j].all /\ t[i].all \cap t[j].new = {}
  <2>1. i + 1 < j + 1
    BY <1>1, <1>6
  <2> QED BY <1>3, <2>1 DEF EventsOk
<1>7. ASSUME t # << >>
      PROVE  t[Len(t)].all = docs
  <2>1. Len(t) \in 1 .. Len(t) /\ Len(t) + 1 = Len(ev)
    BY <1>1, <1>2, <1>7
  <2>2. t[Len(t)] = ev[Len(ev)]
    BY <1>3, <2>1
  <2> QED BY <2>2 DEF EventsOk
<1> QED BY <1>1, <1>2, <1>3, <1>4, <1>5, <1>6, <1>7 DEF EventsOk, t

\* Messenger.startListen: the list becomes the snapshot's.
LEMMA ListIosKeeps ==
  ASSUME NEW ev \in Seq(Snapshot), ev # << >>, NEW docs \in SUBSET Message, Unique(docs),
         EventsOk(ev, docs), NEW rows \in Seq(Row), IosOk(rows, ev, docs)
  PROVE  /\ ListIos(rows, Head(ev)) \in Seq(Row)
         /\ Distinct(ListIos(rows, Head(ev)))
         /\ RowIds(ListIos(rows, Head(ev))) \subseteq Ids(docs)
         /\ RowIds(rows) \subseteq RowIds(ListIos(rows, Head(ev)))
         /\ IosOk(ListIos(rows, Head(ev)), Tail(ev), docs)
<1> DEFINE all == ev[1].all
<1>1. ListIos(rows, Head(ev)) = Rows(all)
  BY EventsTail DEF ListIos
<1>2. all \subseteq docs
  BY EventsTail DEF EventsOk
<1>3. /\ Rows(all) \in Seq(Row) /\ Distinct(Rows(all)) /\ RowIds(Rows(all)) = Ids(all)
  <2>1. all \in SUBSET Message /\ Unique(all)
    BY <1>2 DEF Unique
  <2> QED BY <2>1, RowsShow
<1>4. Ids(all) \subseteq Ids(docs)
  BY <1>2 DEF Ids
<1>5. RowIds(rows) \subseteq Ids(all)
  BY DEF IosOk
<1>6. ASSUME Tail(ev) = << >>
      PROVE  Rows(all) = Rows(docs)
  <2>1. Len(ev) = 1
    BY <1>6, EventsTail
  <2> QED BY <2>1 DEF EventsOk
<1>7. ASSUME Tail(ev) # << >>
      PROVE  Ids(all) \subseteq Ids(Tail(ev)[1].all)
  <2> DEFINE n == Len(Tail(ev))
  <2>1. n \in Nat /\ n # 0
    BY <1>7, EventsTail
  <2> HIDE DEF n
  <2>2. 1 \in 1 .. n
    BY <2>1
  <2> USE DEF n
  <2>3. 2 \in 1 .. Len(ev) /\ 1 < 2 /\ Tail(ev)[1] = ev[2] /\ 1 \in 1 .. Len(ev)
    BY <2>2, EventsTail
  <2>4. all \subseteq ev[2].all
    BY <2>3 DEF EventsOk
  <2> QED BY <2>3, <2>4 DEF Ids
<1> HIDE DEF all
<1> QED BY <1>1, <1>3, <1>4, <1>5, <1>6, <1>7 DEF IosOk

\* listenToRoom: the changes follow the list, unless the snapshot is local.
LEMMA ListAndroidKeeps ==
  ASSUME NEW ev \in Seq(Snapshot), ev # << >>, NEW docs \in SUBSET Message, Unique(docs),
         EventsOk(ev, docs), NEW rows \in Seq(Row), NEW over,
         AndroidOk(rows, ev, docs, over), Distinct(rows), RowIds(rows) \subseteq Ids(docs)
  PROVE  /\ ListAndroid(rows, Head(ev)) \in Seq(Row)
         /\ Distinct(ListAndroid(rows, Head(ev)))
         /\ RowIds(ListAndroid(rows, Head(ev))) \subseteq Ids(docs)
         /\ RowIds(rows) \subseteq RowIds(ListAndroid(rows, Head(ev)))
         /\ AndroidOk(ListAndroid(rows, Head(ev)), Tail(ev), docs, over)
<1> DEFINE snap == ev[1]
           t == Tail(ev)
<1>0. /\ Head(ev) = snap /\ 1 \in 1 .. Len(ev)
      /\ \A i \in 1 .. Len(t) : i + 1 \in 1 .. Len(ev) /\ 1 < i + 1 /\ t[i] = ev[i + 1]
      /\ \A i \in 1 .. Len(ev) : i = 1 \/ \E j \in 1 .. Len(t) : ev[i] = t[j]
  BY EventsTail
<1>1. CASE snap.local
  <2>1. ListAndroid(rows, Head(ev)) = rows
    BY <1>0, <1>1 DEF ListAndroid
  <2>2. \A m \in docs : Told(m, ev) => Told(m, t)
    BY <1>0, <1>1 DEF Told
  <2>3. \A i \in 1 .. Len(t) : ~t[i].local => RowIds(rows) \cap Ids(t[i].new) = {}
    BY <1>0 DEF AndroidOk
  <2> QED BY <2>1, <2>2, <2>3 DEF AndroidOk
<1>2. CASE ~snap.local
  <2> DEFINE fresh == {m \in snap.new : \A i \in 1 .. Len(rows) : rows[i].time # m.time}
             more == Rows(fresh)
  <2>1. ListAndroid(rows, Head(ev)) = rows \o more
    BY <1>0, <1>2 DEF ListAndroid
  <2>2. snap.new \subseteq snap.all /\ snap.all \subseteq docs
    BY <1>0 DEF EventsOk
  <2>3. fresh \subseteq snap.new
    OBVIOUS
  <2>4. more \in Seq(Row) /\ Distinct(more) /\ RowIds(more) = Ids(fresh)
    <3>1. fresh \in SUBSET Message /\ Unique(fresh)
      BY <2>2, <2>3 DEF Unique
    <3> QED BY <3>1, RowsShow
  <2>5. \A m \in snap.new : m \in fresh \/ \E i \in 1 .. Len(rows) : rows[i].time = m.time
    OBVIOUS
  <2> HIDE DEF fresh, more
  <2>6. RowIds(rows) \cap Ids(fresh) = {}
    <3>1. RowIds(rows) \cap Ids(snap.new) = {}
      BY <1>0, <1>2 DEF AndroidOk
    <3> QED BY <2>3, <3>1 DEF Ids
  <2>7. /\ rows \o more \in Seq(Row) /\ Distinct(rows \o more)
        /\ RowIds(rows \o more) = RowIds(rows) \cup Ids(fresh)
        /\ \A m \in Message : Represented(m, rows) => Represented(m, rows \o more)
    <3>1. RowIds(rows) \cap RowIds(more) = {}
      BY <2>4, <2>6
    <3> QED BY <2>4, <3>1, RowsConcat
  <2>8. Ids(fresh) \subseteq Ids(docs)
    BY <2>2, <2>3 DEF Ids
  <2>9. ASSUME NEW i \in 1 .. Len(t), ~t[i].local
        PROVE  RowIds(rows \o more) \cap Ids(t[i].new) = {}
    <3>1. RowIds(rows) \cap Ids(t[i].new) = {}
      BY <1>0, <2>9 DEF AndroidOk
    <3>2. snap.all \cap t[i].new = {} /\ t[i].new \subseteq docs
      BY <1>0 DEF EventsOk
    <3>3. Ids(fresh) \cap Ids(t[i].new) = {}
      BY <2>2, <2>3, <3>2 DEF Ids, Unique
    <3> QED BY <2>7, <3>1, <3>3
  <2>10. ASSUME NEW m \in docs
         PROVE  Represented(m, rows \o more) \/ m.id \in over \/ Told(m, t)
    <3>1. CASE Represented(m, rows)
      BY <2>7, <3>1
    <3>2. CASE m \in snap.new
      <4>1. CASE m \in fresh
        BY <2>7, <4>1 DEF Represented, Ids
      <4>2. CASE \E i \in 1 .. Len(rows) : rows[i].time = m.time
        BY <2>7, <4>2 DEF Represented
      <4> QED BY <2>5, <3>2, <4>1, <4>2
    <3>3. Told(m, ev) => m \in snap.new \/ Told(m, t)
      BY <1>0 DEF Told
    <3>4. Represented(m, rows) \/ m.id \in over \/ Told(m, ev)
      BY DEF AndroidOk
    <3> QED BY <3>1, <3>2, <3>3, <3>4
  <2> QED BY <2>1, <2>7, <2>8, <2>9, <2>10 DEF AndroidOk
<1> QED BY <1>1, <1>2

\* The main thread handles a snapshot.
LEMMA HandleKeeps ==
  ASSUME ChatInv, NEW p \in Pet, Handle(p)
  PROVE  ChatInv' /\ RowIds(list[p]) \subseteq RowIds(list'[p])
<1> DEFINE snap == Head(events[p])
           rows == IF p \in Ios THEN ListIos(list[p], snap) ELSE ListAndroid(list[p], snap)
<1>1. /\ events[p] # << >>
      /\ list' = [list EXCEPT ![p] = rows]
      /\ events' = [events EXCEPT ![p] = Tail(@)]
      /\ UNCHANGED <<server, pending, synced, phase, seen, passed, sent>>
  BY DEF Handle
<1>2. TypeOK /\ Numbered /\ ChatOk(p)
  BY DEF ChatInv
<1>3. /\ events[p] \in Seq(Snapshot) /\ list[p] \in Seq(Row) /\ phase[p] = "listening"
      /\ seen[p] \in SUBSET Message /\ passed[p] \in SUBSET Id
  BY <1>1, <1>2 DEF TypeOK
<1>4. /\ seen[p] = Local(p) /\ EventsOk(events[p], seen[p])
      /\ Distinct(list[p]) /\ RowIds(list[p]) \subseteq Ids(seen[p])
      /\ p \in Ios => IosOk(list[p], events[p], seen[p])
      /\ p \notin Ios => AndroidOk(list[p], events[p], seen[p], passed[p])
  BY <1>2, <1>3 DEF ChatOk
<1>5. Unique(seen[p])
  BY <1>2, <1>4, PostedTypes
<1>6. Tail(events[p]) \in Seq(Snapshot) /\ EventsOk(Tail(events[p]), seen[p])
  BY <1>1, <1>3, <1>4, EventsTail
<1>7. /\ rows \in Seq(Row) /\ Distinct(rows) /\ RowIds(rows) \subseteq Ids(seen[p])
      /\ RowIds(list[p]) \subseteq RowIds(rows)
      /\ p \in Ios => IosOk(rows, Tail(events[p]), seen[p])
      /\ p \notin Ios => AndroidOk(rows, Tail(events[p]), seen[p], passed[p])
  <2>1. CASE p \in Ios
    <3>1. rows = ListIos(list[p], snap)
      BY <2>1
    <3> QED BY <1>1, <1>3, <1>4, <1>5, <2>1, <3>1, ListIosKeeps
  <2>2. CASE p \notin Ios
    <3>1. rows = ListAndroid(list[p], snap)
      BY <2>2
    <3>2. /\ ListAndroid(list[p], snap) \in Seq(Row)
          /\ Distinct(ListAndroid(list[p], snap))
          /\ RowIds(ListAndroid(list[p], snap)) \subseteq Ids(seen[p])
          /\ RowIds(list[p]) \subseteq RowIds(ListAndroid(list[p], snap))
          /\ AndroidOk(ListAndroid(list[p], snap), Tail(events[p]), seen[p], passed[p])
      BY <1>1, <1>3, <1>4, <1>5, <2>2, ListAndroidKeeps
    <3> HIDE DEF rows, snap
    <3> QED BY <2>2, <3>1, <3>2
  <2> QED BY <2>1, <2>2
<1> HIDE DEF rows
<1>8. /\ list'[p] = rows /\ events'[p] = Tail(events[p])
      /\ \A q \in Pet \ {p} : list'[q] = list[q] /\ events'[q] = events[q]
  BY <1>1, <1>2 DEF TypeOK
<1>9. Posted' = Posted /\ \A q \in Pet : Local(q)' = Local(q)
  BY <1>1 DEF Posted, Local
<1>10. TypeOK'
  <2>1. list' \in [Pet -> Seq(Row)] /\ events' \in [Pet -> Seq(Snapshot)]
    BY <1>1, <1>2, <1>6, <1>7 DEF TypeOK
  <2>2. \A q \in Pet : phase'[q] # "listening" => list'[q] = << >> /\ events'[q] = << >>
    BY <1>1, <1>2, <1>3, <1>8 DEF TypeOK
  <2> QED BY <1>1, <1>2, <2>1, <2>2 DEF TypeOK
<1>11. Numbered'
  BY <1>1, <1>2, <1>9 DEF Numbered
<1>12. ChatOk(p)'
  BY <1>1, <1>3, <1>4, <1>6, <1>7, <1>8, <1>9 DEF ChatOk
<1>13. \A q \in Pet \ {p} : ChatOk(q)'
  BY <1>1, <1>8, <1>9, ChatUntouched DEF ChatInv
<1> QED BY <1>7, <1>8, <1>10, <1>11, <1>12, <1>13 DEF ChatInv

\* Every step keeps the invariant.
LEMMA NextChat == ChatInv /\ [Next]_vars => ChatInv'
<1> SUFFICES ASSUME ChatInv, [Next]_vars PROVE ChatInv'
  OBVIOUS
<1>1. ASSUME NEW p \in Pet,
             \/ Open(p) \/ Listen(p) \/ Leave(p)
             \/ SendIos(p) \/ SendEarlyIos(p) \/ SendAndroid(p) \/ SendEarlyAndroid(p)
             \/ Flush(p) \/ Deliver(p) \/ Handle(p)
      PROVE  ChatInv'
  BY <1>1, OpenKeeps, ListenKeeps, LeaveKeeps, SendIosKeeps, SendEarlyIosKeeps, SendAndroidKeeps,
     SendEarlyAndroidKeeps, FlushKeeps, DeliverKeeps, HandleKeeps
<1>2. CASE UNCHANGED vars
  BY <1>2 DEF vars, ChatInv, TypeOK, Numbered, Posted, ChatOk, Local
<1> QED BY <1>1, <1>2 DEF Next

\* The invariant holds in every state of the chat.
LEMMA ChatAlways == Spec => []ChatInv
  BY InitChat, NextChat, PTL DEF Spec

----------------------------------------------------------------------------
(* What the invariant says of the screens *)

THEOREM ChatTypeOK == Spec => []TypeOK
<1>1. ChatInv => TypeOK
  BY DEF ChatInv
<1> QED BY <1>1, ChatAlways, PTL

\* Android's two sources of rows (the button, listenToRoom) and iOS's rebuilt
\* list (Messenger.startListen) put no message on a screen twice.
THEOREM NothingShownTwice == Spec => []ShownOnce
<1>1. ASSUME ChatInv, NEW p \in Pet
      PROVE  Cardinality(Shown(p)) = Len(list[p])
  <2> DEFINE ids == [i \in 1 .. Len(list[p]) |-> list[p][i].id]
  <2>1. Len(list[p]) \in Nat
    BY <1>1 DEF ChatInv, TypeOK
  <2>2. \A i, j \in 1 .. Len(list[p]) : ids[i] = ids[j] => i = j
    BY <1>1 DEF ChatInv, ChatOk, Distinct
  <2>3. Shown(p) = {ids[i] : i \in 1 .. Len(list[p])}
    BY DEF Shown
  <2> HIDE DEF ids
  <2>4. DOMAIN ids = 1 .. Len(list[p])
    BY DEF ids
  <2> QED BY <2>1, <2>2, <2>3, <2>4, DistinctCount
<1>2. ChatInv => ShownOnce
  BY <1>1 DEF ShownOnce
<1> QED BY <1>2, ChatAlways, PTL

\* An iOS list whose snapshots are handled is the query's.
THEOREM IosShowsAll == Spec => []IosUpToDate
<1>1. ChatInv => IosUpToDate
  BY ChatAssumption DEF ChatInv, ChatOk, IosOk, IosUpToDate
<1> QED BY <1>1, ChatAlways, PTL

\* An Android list whose snapshots are handled lacks only the messages that
\* listenToRoom passed over and those with the time of a row.
THEOREM AndroidShowsAll == Spec => []AndroidUpToDate
<1>1. ASSUME ChatInv, NEW p \in Pet \ Ios,
             phase[p] = "listening", events[p] = << >>, NEW m \in Local(p)
      PROVE  m.id \in Shown(p) \cup passed[p] \/ \E i \in 1 .. Len(list[p]) : list[p][i].time = m.time
  <2>1. seen[p] = Local(p) /\ AndroidOk(list[p], events[p], seen[p], passed[p])
    BY <1>1 DEF ChatInv, ChatOk
  <2>2. Len(events[p]) = 0
    BY <1>1
  <2>3. Represented(m, list[p]) \/ m.id \in passed[p] \/ Told(m, events[p])
    BY <2>1 DEF AndroidOk
  <2>4. ~Told(m, events[p])
    BY <2>2 DEF Told
  <2> QED BY <2>3, <2>4 DEF Represented, RowIds, Shown
<1>2. ChatInv => AndroidUpToDate
  BY <1>1 DEF AndroidUpToDate
<1> QED BY <1>2, ChatAlways, PTL

----------------------------------------------------------------------------
(* The apps implement the abstract room *)

\* The mapping, in the terms of this module.
RoomPosted == Ids(Posted)
RoomShown == [p \in Pet |-> Shown(p)]

\* The screens in the abstract room are the rows' numbers.
LEMMA RoomShownIs == \A p \in Pet : RoomShown[p] = RowIds(list[p])
  BY DEF RoomShown, Shown, RowIds

\* Nothing posted, nothing shown.
LEMMA InitRoom == Init => Room!Init
<1> SUFFICES ASSUME Init PROVE Room!Init
  OBVIOUS
<1>1. Posted = {}
  BY DEF Init, Posted, Contents
<1>2. \A p \in Pet : Shown(p) = {}
  BY DEF Init, Shown
<1> QED BY <1>1, <1>2 DEF Room!Init, Posted

\* The three steps of the room, as the apps take them.
LEMMA RoomSteps ==
  ASSUME NEW p \in Pet
  PROVE  /\ Room!Post(p) <=>
              \E m \in Id \ RoomPosted :
                /\ RoomPosted' = RoomPosted \cup {m}
                /\ RoomShown' \in {RoomShown, [RoomShown EXCEPT ![p] = @ \cup {m}]}
         /\ Room!Show(p) <=>
              \E new \in SUBSET RoomPosted :
                /\ RoomShown' = [RoomShown EXCEPT ![p] = @ \cup new]
                /\ UNCHANGED RoomPosted
         /\ Room!Leave(p) <=>
              /\ RoomShown' = [RoomShown EXCEPT ![p] = {}]
              /\ RoomPosted' \in {RoomPosted} \cup {RoomPosted \cup {m} : m \in Id}
  BY DEF Room!Post, Room!Show, Room!Leave, RoomPosted, RoomShown, Ids, Posted

\* A screen that changes alone.
LEMMA ShownChanges ==
  ASSUME NEW p \in Pet, \A q \in Pet \ {p} : list'[q] = list[q], NEW X, RowIds(list'[p]) = X
  PROVE  RoomShown' = [RoomShown EXCEPT ![p] = X]
<1>1. \A q \in Pet : Shown(q)' = RowIds(list'[q]) /\ Shown(q) = RowIds(list[q])
  BY DEF Shown, RowIds
<1> QED BY <1>1 DEF RoomShown

\* Handing a message to the room.
LEMMA QueuedRoom ==
  ASSUME ChatInv, NEW p \in Pet, NEW t \in Times, NEW r \in BOOLEAN, Queued(p, NewMessage(p, t, r))
  PROVE  /\ sent + 1 \in Id \ RoomPosted
         /\ RoomPosted' = RoomPosted \cup {sent + 1}
<1> DEFINE m == NewMessage(p, t, r)
<1>1. m \in Message /\ m.id = sent + 1
  BY NextMessage DEF ChatInv, Queued
<1> HIDE DEF m
<1>2. Posted' = Posted \cup {m} /\ m.id \notin Ids(Posted)
  BY <1>1, QueuedKeeps DEF ChatInv, m
<1>3. m.id \in Id
  BY <1>1 DEF Message
<1> QED BY <1>1, <1>2, <1>3 DEF RoomPosted, Ids

\* Every step of an app is a step of the room or changes neither what was
\* posted nor a screen.
LEMMA NextRoom ==
  ASSUME ChatInv, ChatInv', [Next]_vars
  PROVE  [Room!Next]_<<RoomPosted, RoomShown>>
<1>1. ASSUME list' = list
      PROVE  RoomShown' = RoomShown
  BY <1>1 DEF RoomShown, Shown
<1>2. ASSUME server' = server, pending' = pending
      PROVE  RoomPosted' = RoomPosted
  BY <1>2 DEF RoomPosted, Posted, Ids
<1>3. ASSUME NEW p \in Pet, Room!Post(p) \/ Room!Show(p) \/ Room!Leave(p)
      PROVE  Room!Next
  BY <1>3 DEF Room!Next
<1>4. ASSUME NEW p \in Pet, Close(p)
      PROVE  RoomShown' = [RoomShown EXCEPT ![p] = {}]
  <2>1. list'[p] = << >> /\ \A q \in Pet \ {p} : list'[q] = list[q]
    BY <1>4 DEF Close, ChatInv, TypeOK
  <2>2. RowIds(list'[p]) = {}
    BY <2>1 DEF RowIds
  <2> QED BY <2>1, <2>2, ShownChanges
<1>5. ASSUME NEW p \in Pet, Open(p) \/ Listen(p) \/ Deliver(p)
      PROVE  UNCHANGED <<RoomPosted, RoomShown>>
  BY <1>1, <1>2, <1>5 DEF Open, Listen, Deliver
<1>6. ASSUME NEW p \in Pet, Flush(p)
      PROVE  UNCHANGED <<RoomPosted, RoomShown>>
  <2>1. Posted' = Posted
    BY <1>6, FlushKeeps
  <2>2. list' = list
    BY <1>6 DEF Flush
  <2> QED BY <1>1, <2>1, <2>2 DEF RoomPosted, Ids
<1>7. ASSUME NEW p \in Pet, Leave(p)
      PROVE  Room!Leave(p)
  <2>1. RoomPosted' = RoomPosted
    BY <1>2, <1>7 DEF Leave
  <2>2. RoomShown' = [RoomShown EXCEPT ![p] = {}]
    BY <1>4, <1>7 DEF Leave
  <2> QED BY <2>1, <2>2, RoomSteps
<1>8. ASSUME NEW p \in Pet, SendIos(p) \/ SendEarlyIos(p)
      PROVE  Room!Post(p)
  <2>1. PICK t \in Times, r \in BOOLEAN : Queued(p, NewMessage(p, t, r)) /\ list' = list
    BY <1>8 DEF SendIos, SendEarlyIos
  <2>2. RoomShown' = RoomShown
    BY <1>1, <2>1
  <2>3. sent + 1 \in Id \ RoomPosted /\ RoomPosted' = RoomPosted \cup {sent + 1}
    BY <2>1, QueuedRoom
  <2> QED BY <2>2, <2>3, RoomSteps
<1>9. ASSUME NEW p \in Pet, SendAndroid(p)
      PROVE  Room!Post(p)
  <2>1. PICK t \in Times, again \in Times :
          /\ Queued(p, NewMessage(p, t, TRUE))
          /\ list' = [list EXCEPT ![p] = Append(@, [id |-> sent + 1, time |-> again])]
    BY <1>9 DEF SendAndroid
  <2> DEFINE r == [id |-> sent + 1, time |-> again]
  <2>2. sent + 1 \in Id \ RoomPosted /\ RoomPosted' = RoomPosted \cup {sent + 1}
    BY <2>1, QueuedRoom
  <2>3. r \in Row /\ r.id = sent + 1 /\ list[p] \in Seq(Row)
    BY <2>2 DEF Row, ChatInv, TypeOK
  <2>4. list' = [list EXCEPT ![p] = Append(@, r)]
    BY <2>1
  <2> HIDE DEF r
  <2>5. list'[p] = list[p] \o << r >> /\ \A q \in Pet \ {p} : list'[q] = list[q]
    <3>1. Append(list[p], r) = list[p] \o << r >>
      BY <2>3, AppendIsConcat
    <3> QED BY <2>4, <3>1 DEF ChatInv, TypeOK
  <2>6. RowIds(list'[p]) = RowIds(list[p]) \cup {sent + 1}
    <3>1. << r >> \in Seq(Row) /\ RowIds(<< r >>) = {sent + 1}
      BY <2>3 DEF RowIds
    <3>2. RowIds(list[p] \o << r >>) = RowIds(list[p]) \cup RowIds(<< r >>)
      BY <2>3, <3>1, RowsConcat
    <3> QED BY <2>5, <3>1, <3>2
  <2>7. RoomShown' = [RoomShown EXCEPT ![p] = RoomShown[p] \cup {sent + 1}]
    BY <2>5, <2>6, ShownChanges, RoomShownIs
  <2> QED BY <2>2, <2>7, RoomSteps
<1>10. ASSUME NEW p \in Pet, SendEarlyAndroid(p)
       PROVE  Room!Leave(p)
  <2>1. PICK t \in Times : Queued(p, NewMessage(p, t, TRUE)) /\ Close(p)
    BY <1>10 DEF SendEarlyAndroid
  <2>2. sent + 1 \in Id /\ RoomPosted' = RoomPosted \cup {sent + 1}
    BY <2>1, QueuedRoom
  <2>3. RoomShown' = [RoomShown EXCEPT ![p] = {}]
    BY <1>4, <2>1
  <2> QED BY <2>2, <2>3, RoomSteps
<1>11. ASSUME NEW p \in Pet, Handle(p)
       PROVE  Room!Show(p)
  <2>1. RowIds(list[p]) \subseteq RowIds(list'[p])
    BY <1>11, HandleKeeps
  <2>2. \A q \in Pet \ {p} : list'[q] = list[q]
    BY <1>11 DEF Handle, ChatInv, TypeOK
  <2>3. RowIds(list'[p]) \subseteq RoomPosted'
    <3>1. ChatOk(p)'
      BY DEF ChatInv
    <3>2. RowIds(list'[p]) \subseteq Ids(seen'[p])
      BY <3>1 DEF ChatOk
    <3>3. seen[p] \subseteq Posted
      BY PostedTypes DEF ChatInv, ChatOk
    <3>4. seen' = seen /\ Posted' = Posted
      BY <1>11 DEF Handle, Posted
    <3> QED BY <3>2, <3>3, <3>4 DEF RoomPosted, Ids
  <2>4. RoomPosted' = RoomPosted
    BY <1>2, <1>11 DEF Handle
  <2>5. RoomShown' = [RoomShown EXCEPT ![p] = RowIds(list'[p])]
    BY <2>2, ShownChanges
  <2>6. RoomShown[p] \cup RowIds(list'[p]) = RowIds(list'[p])
    BY <2>1, RoomShownIs
  <2> DEFINE new == RowIds(list'[p])
  <2>7. new \in SUBSET RoomPosted /\ RoomShown' = [RoomShown EXCEPT ![p] = RoomShown[p] \cup new]
    BY <2>3, <2>4, <2>5, <2>6
  <2> HIDE DEF new
  <2> QED BY <2>4, <2>7, RoomSteps
<1>12. CASE UNCHANGED vars
  BY <1>1, <1>2, <1>12 DEF vars
<1> QED BY <1>3, <1>5, <1>6, <1>7, <1>8, <1>9, <1>10, <1>11, <1>12 DEF Next

\* Both apps do what a chat promises: the screens show messages posted to the
\* room, and while a chat is open none disappears.
THEOREM ChatsImplementRoom == Spec => ImplementsRoom
<1>1. ChatInv /\ ChatInv' /\ [Next]_vars
        => [Room!Next]_<<{m.id : m \in Contents(server) \cup UNION {Contents(pending[p]) : p \in Pet}},
                         [p \in Pet |-> Shown(p)]>>
  BY NextRoom DEF RoomPosted, RoomShown, Ids, Posted
<1> QED BY <1>1, InitRoom, ChatAlways, PTL DEF Spec, ImplementsRoom, Room!Spec

=============================================================================
