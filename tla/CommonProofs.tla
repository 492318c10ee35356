---------------------------- MODULE CommonProofs ----------------------------
(***************************************************************************)
(* Lemmas that the proofs of several components cite: a set of naturals    *)
(* has a least element, a set of positions a last one; putting a finite    *)
(* set in order; the operators of Firestore.                               *)
(***************************************************************************)
EXTENDS Firestore, FiniteSetTheorems, WellFoundedInduction, TLAPS

(***************************************************************************)
(* First and last elements                                                 *)
(***************************************************************************)

\* A non-empty set of naturals has a least element.
LEMMA LeastNatural ==
  ASSUME NEW T \in SUBSET Nat, T # {}
  PROVE  \E x \in T : \A y \in T : x <= y
<1>1. IsWellFoundedOn(OpToRel(<, Nat), Nat)
  BY NatLessThanWellFounded
<1>2. PICK x \in T : \A y \in T : ~ (<<y, x>> \in OpToRel(<, Nat))
  BY <1>1, WFMin, Zenon
<1>3. \A u, v \in Nat : <<v, u>> \in OpToRel(<, Nat) <=> v < u
  BY DEF OpToRel
<1>4. \A y \in T : ~(y < x)
  BY <1>2, <1>3
<1>5. \A y \in T : x <= y
  BY <1>4
<1> QED BY <1>5

\* A non-empty set of positions has a last one.
LEMMA LastPosition ==
  ASSUME NEW n \in Nat, NEW S \in SUBSET (1 .. n), S # {}
  PROVE  \E i \in S : \A j \in S : j <= i
<1> DEFINE T == {n - i : i \in S}
<1>1. T \in SUBSET Nat /\ T # {}
  <2>1. \A i \in S : n - i \in Nat
    OBVIOUS
  <2> QED BY <2>1, Zenon
<1>2. PICK x \in T : \A y \in T : x <= y
  BY <1>1, LeastNatural
<1>3. PICK i \in S : x = n - i
  BY <1>2
<1>4. \A j \in S : n - i <= n - j
  BY <1>2, <1>3
<1>5. \A j \in S : j <= i
  BY <1>4
<1> QED BY <1>5

(***************************************************************************)
(* Putting a finite set in order: Chat orders messages and Matching pets   *)
(* by counting the elements before each; the counts are all different and  *)
(* leave none out.                                                         *)
(***************************************************************************)

\* The members of S that the relation R has before m.
Earlier(S, R, m) == {n \in S : <<n, m>> \in R}

\* R orders S strictly and totally.
OrdersStrictly(R, S) ==
  /\ \A m \in S : <<m, m>> \notin R
  /\ \A m, n \in S : m # n => <<m, n>> \in R \/ <<n, m>> \in R
  /\ \A l, m, n \in S : <<l, m>> \in R /\ <<m, n>> \in R => <<l, n>> \in R

\* The element after m has m and everything before m before it.
LEMMA EarlierGrows ==
  ASSUME NEW S, IsFiniteSet(S), NEW R, OrdersStrictly(R, S),
         NEW m \in S, NEW n \in S, <<m, n>> \in R
  PROVE  Cardinality(Earlier(S, R, m)) < Cardinality(Earlier(S, R, n))
<1>1. Earlier(S, R, m) \cup {m} \subseteq Earlier(S, R, n)
  BY DEF Earlier, OrdersStrictly
<1>2. m \notin Earlier(S, R, m)
  BY DEF Earlier, OrdersStrictly
<1>3. /\ IsFiniteSet(Earlier(S, R, m)) /\ Cardinality(Earlier(S, R, m)) \in Nat
      /\ IsFiniteSet(Earlier(S, R, n)) /\ Cardinality(Earlier(S, R, n)) \in Nat
  <2>1. Earlier(S, R, m) \in SUBSET S /\ Earlier(S, R, n) \in SUBSET S
    BY DEF Earlier
  <2> QED BY <2>1, FS_Subset, FS_CardinalityType
<1>4. Cardinality(Earlier(S, R, m) \cup {m}) = Cardinality(Earlier(S, R, m)) + 1
  BY <1>2, <1>3, FS_AddElement
<1>5. Cardinality(Earlier(S, R, m) \cup {m}) <= Cardinality(Earlier(S, R, n))
  BY <1>1, <1>3, FS_Subset
<1> QED BY <1>3, <1>4, <1>5

\* The numbers of elements before each are 0, 1, ... without a gap or a
\* repetition.
LEMMA Ranks ==
  ASSUME NEW S, IsFiniteSet(S), NEW R, OrdersStrictly(R, S)
  PROVE  /\ Cardinality(S) \in Nat
         /\ \A m, n \in S : Cardinality(Earlier(S, R, m)) = Cardinality(Earlier(S, R, n)) => m = n
         /\ \A m \in S : Cardinality(Earlier(S, R, m)) + 1 \in 1 .. Cardinality(S)
         /\ \A i \in 1 .. Cardinality(S) :
              \E m \in S : Cardinality(Earlier(S, R, m)) = i - 1
<1> DEFINE rank == [m \in S |-> Cardinality(Earlier(S, R, m)) + 1]
           places == 1 .. Cardinality(S)
<1>1. Cardinality(S) \in Nat
  BY FS_CardinalityType
<1>2. \A m \in S : Cardinality(Earlier(S, R, m)) + 1 \in places
  <2> TAKE m \in S
  <2>1. Earlier(S, R, m) \in SUBSET (S \ {m})
    BY DEF Earlier, OrdersStrictly
  <2>2. IsFiniteSet(S \ {m}) /\ Cardinality(S \ {m}) = Cardinality(S) - 1
    BY FS_RemoveElement
  <2>3. IsFiniteSet(Earlier(S, R, m)) /\ Cardinality(Earlier(S, R, m)) <= Cardinality(S) - 1
    BY <2>1, <2>2, FS_Subset
  <2>4. Cardinality(Earlier(S, R, m)) \in Nat
    BY <2>3, FS_CardinalityType
  <2> QED BY <1>1, <2>3, <2>4
<1>3. \A m, n \in S : Cardinality(Earlier(S, R, m)) = Cardinality(Earlier(S, R, n)) => m = n
  <2> TAKE m, n \in S
  <2>1. Cardinality(Earlier(S, R, m)) \in Int /\ Cardinality(Earlier(S, R, n)) \in Int
    <3>1. \A x \in S : IsFiniteSet(Earlier(S, R, x))
      BY FS_Subset DEF Earlier
    <3> QED BY <3>1, FS_CardinalityType
  <2>2. CASE <<m, n>> \in R
    BY <2>1, <2>2, EarlierGrows
  <2>3. CASE <<n, m>> \in R
    BY <2>1, <2>3, EarlierGrows
  <2> QED BY <2>2, <2>3 DEF OrdersStrictly
<1>4. \A x \in S : Cardinality(Earlier(S, R, x)) \in Int
  <2>1. \A x \in S : IsFiniteSet(Earlier(S, R, x))
    BY FS_Subset DEF Earlier
  <2> QED BY <2>1, FS_CardinalityType
<1>5. rank \in Injection(S, places)
  BY <1>2, <1>3, <1>4 DEF Injection, IsInjective
<1>6. IsFiniteSet(places) /\ Cardinality(places) = Cardinality(S)
  BY <1>1, FS_Interval
<1>7. rank \in Surjection(S, places)
  BY <1>5, <1>6, FS_Injection
<1>8. \A i \in places : \E m \in S : rank[m] = i
  BY <1>7 DEF Surjection
<1>9. \A i \in places : \E m \in S : Cardinality(Earlier(S, R, m)) = i - 1
  <2> TAKE i \in places
  <2>1. PICK m \in S : rank[m] = i
    BY <1>8
  <2>2. Cardinality(Earlier(S, R, m)) = i - 1
    BY <1>1, <1>4, <2>1
  <2> QED BY <2>2
<1> QED BY <1>1, <1>2, <1>3, <1>9

\* The members of a sequence without repetitions are as many as its positions.
LEMMA DistinctCount ==
  ASSUME NEW n \in Nat, NEW f, DOMAIN f = 1 .. n,
         \A i, j \in 1 .. n : f[i] = f[j] => i = j
  PROVE  Cardinality({f[i] : i \in 1 .. n}) = n
<1> DEFINE T == {f[i] : i \in 1 .. n}
           g == [i \in 1 .. n |-> f[i]]
<1>1. g \in Bijection(1 .. n, T)
  BY DEF Bijection, Injection, Surjection, IsInjective
<1>2. ExistsBijection(1 .. n, T)
  BY <1>1 DEF ExistsBijection
<1> QED BY <1>2, FS_CountingElements

(***************************************************************************)
(* What a device sees of a document                                        *)
(***************************************************************************)

\* What a device reads in a document is what the server holds or what one of
\* the device's own pending writes of that document puts there.
LEMMA ViewIsServerOrPending ==
  ASSUME NEW db, NEW q, Len(q) \in Nat, NEW d
  PROVE  \/ View(db, q, d) = db[d]
         \/ \E i \in 1 .. Len(q) : q[i].doc = d /\ View(db, q, d) = q[i].val
<1> DEFINE S == PendingOn(q, d)
<1>1. CASE S = {}
  BY <1>1 DEF View
<1>2. CASE S # {}
  <2>1. S \in SUBSET (1 .. Len(q))
    BY DEF PendingOn
  <2>2. \E i \in S : \A j \in S : j <= i
    BY <1>2, <2>1, LastPosition
  <2> DEFINE i == CHOOSE x \in S : \A j \in S : j <= x
  <2>3. i \in S
    BY <2>2
  <2>4. View(db, q, d) = q[i].val
    BY <1>2 DEF View
  <2> QED BY <2>3, <2>4 DEF PendingOn
<1> QED BY <1>1, <1>2

\* A function on the first numbers is a sequence.
LEMMA FunctionIsSequence ==
  ASSUME NEW n \in Nat, NEW S, NEW f \in [1 .. n -> S]
  PROVE  f \in Seq(S) /\ Len(f) = n
  OBVIOUS

\* Killing the app changes the completions of the queued writes only.
LEMMA WithoutAcksKeeps ==
  ASSUME NEW q, Len(q) \in Nat
  PROVE  /\ WithoutAcks(q) \in Seq({WithoutAcks(q)[i] : i \in 1 .. Len(q)})
         /\ Len(WithoutAcks(q)) = Len(q)
         /\ \A i \in 1 .. Len(q) : WithoutAcks(q)[i] = [q[i] EXCEPT !.ack = NoAck]
<1> DEFINE f == [i \in 1 .. Len(q) |-> [q[i] EXCEPT !.ack = NoAck]]
           S == {f[i] : i \in 1 .. Len(q)}
<1>1. \A i \in 1 .. Len(q) : f[i] = [q[i] EXCEPT !.ack = NoAck]
  OBVIOUS
<1>2. DOMAIN f = 1 .. Len(q) /\ f \in [1 .. Len(q) -> S]
  OBVIOUS
<1>3. WithoutAcks(q) = f
  BY DEF WithoutAcks
<1> HIDE DEF f
<1>4. f \in Seq(S) /\ Len(f) = Len(q)
  BY <1>2, FunctionIsSequence
<1> QED BY <1>1, <1>3, <1>4

\* What a device reads in a document is its last pending write of it.
LEMMA ViewIsLast ==
  ASSUME NEW db, NEW q, Len(q) \in Nat, NEW d,
         NEW i \in PendingOn(q, d), \A j \in PendingOn(q, d) : j <= i
  PROVE  View(db, q, d) = q[i].val
<1> DEFINE S == PendingOn(q, d)
<1>1. S \in SUBSET (1 .. Len(q))
  BY DEF PendingOn
<1>2. \A k \in S : (\A j \in S : j <= k) => k = i
  BY <1>1
<1>3. (CHOOSE k \in S : \A j \in S : j <= k) = i
  BY <1>2
<1> QED BY <1>3 DEF View

\* There is a last one, unless none is pending and the server is read.
LEMMA LastPending ==
  ASSUME NEW db, NEW q, Len(q) \in Nat, NEW d
  PROVE  /\ PendingOn(q, d) = {} => View(db, q, d) = db[d]
         /\ PendingOn(q, d) # {} =>
              \E i \in PendingOn(q, d) : \A j \in PendingOn(q, d) : j <= i
<1>1. PendingOn(q, d) \in SUBSET (1 .. Len(q))
  BY DEF PendingOn
<1> QED BY <1>1, LastPosition DEF View

\* A device reads back what it wrote last, and other documents as before.
LEMMA ViewAppend ==
  ASSUME NEW S, NEW q \in Seq(S), NEW w \in S, NEW db, NEW d
  PROVE  View(db, Append(q, w), d) = IF w.doc = d THEN w.val ELSE View(db, q, d)
<1> DEFINE p == Append(q, w)
           n == Len(q) + 1
<1>1. /\ Len(q) \in Nat /\ Len(p) = n /\ p[n] = w
      /\ \A i \in 1 .. Len(q) : p[i] = q[i]
  OBVIOUS
<1> HIDE DEF p
<1>2. n \in Nat /\ n \in 1 .. n /\ \A i \in 1 .. n : i \in 1 .. Len(q) \/ i = n
  BY <1>1
<1>3. \A i \in 1 .. Len(q) : i \in 1 .. n /\ i <= n /\ i # n
  BY <1>1
<1> HIDE DEF n
<1>4. CASE w.doc = d
  <2>1. n \in PendingOn(p, d) /\ \A j \in PendingOn(p, d) : j <= n
    BY <1>1, <1>2, <1>3, <1>4 DEF PendingOn
  <2>2. View(db, p, d) = p[n].val
    BY <1>1, <1>2, <2>1, ViewIsLast
  <2> QED BY <1>1, <1>4, <2>2 DEF p
<1>5. CASE w.doc # d
  <2>1. PendingOn(p, d) = PendingOn(q, d)
    BY <1>1, <1>2, <1>3, <1>5 DEF PendingOn
  <2>2. CASE PendingOn(q, d) = {}
    BY <1>5, <2>1, <2>2 DEF View, p
  <2>3. CASE PendingOn(q, d) # {}
    <3>1. PICK i \in PendingOn(q, d) : \A j \in PendingOn(q, d) : j <= i
      BY <1>1, <2>3, LastPending
    <3>2. View(db, q, d) = q[i].val /\ View(db, p, d) = p[i].val
      BY <1>1, <1>2, <2>1, <3>1, ViewIsLast
    <3>3. p[i] = q[i]
      BY <1>1 DEF PendingOn
    <3> QED BY <1>5, <3>2, <3>3 DEF p
  <2> QED BY <2>2, <2>3
<1> QED BY <1>4, <1>5

\* A device does not notice when the server applies its oldest write.
LEMMA ViewFlush ==
  ASSUME NEW S, NEW q \in Seq(S), q # << >>, NEW db, NEW after, NEW d,
         after[d] = IF Head(q).doc = d THEN Head(q).val ELSE db[d]
  PROVE  View(after, Tail(q), d) = View(db, q, d)
<1> DEFINE w == Head(q)
           t == Tail(q)
<1>1. /\ Len(q) \in Nat /\ Len(q) >= 1 /\ q[1] = w /\ 1 \in 1 .. Len(q)
      /\ Len(t) = Len(q) - 1 /\ Len(t) \in Nat
      /\ \A i \in 1 .. Len(t) : i + 1 \in 1 .. Len(q) /\ t[i] = q[i + 1]
  OBVIOUS
<1>2. after[d] = IF w.doc = d THEN w.val ELSE db[d]
  OBVIOUS
<1> HIDE DEF w, t
<1>3. \A i \in PendingOn(t, d) : i + 1 \in PendingOn(q, d)
  BY <1>1 DEF PendingOn
<1>4. \A i \in PendingOn(q, d) : i = 1 \/ i - 1 \in PendingOn(t, d)
  <2>1. ASSUME NEW i \in 1 .. Len(q), q[i].doc = d, i # 1
        PROVE  i - 1 \in 1 .. Len(t) /\ t[i - 1].doc = d
    <3>1. i - 1 \in 1 .. Len(t) /\ i - 1 + 1 = i
      BY <1>1, <2>1
    <3> QED BY <1>1, <2>1, <3>1
  <2> QED BY <2>1 DEF PendingOn
<1>5. 1 \in PendingOn(q, d) <=> w.doc = d
  BY <1>1 DEF PendingOn
<1>6. CASE PendingOn(t, d) # {}
  <2>1. PICK i \in PendingOn(t, d) : \A j \in PendingOn(t, d) : j <= i
    BY <1>1, <1>6, LastPending
  <2>2. i \in 1 .. Len(t) /\ i + 1 \in PendingOn(q, d)
    BY <1>3, <2>1 DEF PendingOn
  <2>3. ASSUME NEW j \in PendingOn(q, d) PROVE j <= i + 1
    <3>1. j \in Nat /\ i \in Nat /\ (j = 1 \/ j - 1 <= i)
      BY <1>1, <1>4, <2>1, <2>2 DEF PendingOn
    <3> QED BY <3>1
  <2>4. View(after, t, d) = t[i].val /\ View(db, q, d) = q[i + 1].val
    BY <1>1, <2>1, <2>2, <2>3, ViewIsLast
  <2> QED BY <1>1, <2>2, <2>4 DEF w, t
<1>7. CASE PendingOn(t, d) = {}
  <2>1. View(after, t, d) = after[d]
    BY <1>1, <1>7, LastPending
  <2>2. CASE w.doc = d
    <3>1. \A j \in PendingOn(q, d) : j <= 1
      BY <1>4, <1>7
    <3>2. View(db, q, d) = w.val
      BY <1>1, <1>5, <2>2, <3>1, ViewIsLast
    <3> QED BY <1>2, <2>1, <2>2, <3>2 DEF w, t
  <2>3. CASE w.doc # d
    <3>1. PendingOn(q, d) = {}
      BY <1>4, <1>5, <1>7, <2>3
    <3>2. View(db, q, d) = db[d]
      BY <1>1, <3>1, LastPending
    <3> QED BY <1>2, <2>1, <2>3, <3>2 DEF t
  <2> QED BY <2>2, <2>3
<1> QED BY <1>6, <1>7

=============================================================================
