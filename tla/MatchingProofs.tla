--------------------------- MODULE MatchingProofs ---------------------------
(***************************************************************************)
(* The list of best matches, for any number of pets of any kinds and any   *)
(* page size.                                                              *)
(*                                                                         *)
(* MatchInv says where every candidate of a page is: being checked, with   *)
(* an owner to be read, ready, or listed; and it counts what a page still  *)
(* waits for, so that a page that is complete has nothing left.  Alone     *)
(* says of Android, while the friend list stays as it is, that there is    *)
(* one page at a time and the list ends at the cursor.                     *)
(***************************************************************************)
EXTENDS Matching, CommonProofs, SequenceTheorems

OfKind(kinds, k) == {d \in Pets : kinds[d] = k}
Members(l) == {l[k] : k \in 1 .. Len(l)}

\* A page that was asked for: its pets are being checked, have an owner to be
\* read, or are ready.  Nobody but friends is counted out, and it is complete
\* when nothing is left to answer.
BatchOk(b, kinds, a) ==
  /\ b.phase = "asked" => b.ready = {}
  /\ b.phase # "open" => b.checks = {} /\ b.owners = {}
  /\ b.phase = "open" =>
       b.size = Cardinality(b.checks) + Cardinality(b.owners) + Cardinality(b.ready)
  /\ b.checks \cap b.owners = {} /\ b.checks \cap b.ready = {} /\ b.owners \cap b.ready = {}
  /\ b.checks \cup b.owners \cup b.ready \subseteq Page(b.from) \ OfKind(kinds, "own")
  /\ (b.owners \cup b.ready) \cap OfKind(kinds, "friend") = {}
  /\ b.phase # "asked" =>
       Page(b.from) \cap OfKind(kinds, "other") \subseteq b.checks \cup b.owners \cup b.ready
  /\ b.skip \cap OfKind(kinds, "other") = {}
  /\ a = "android" => OfKind(kinds, "friend") \subseteq b.skip

\* Every candidate up to pet n is in the list l.
ListedTo(n, l, kinds) == \A d \in OfKind(kinds, "other") : d <= n => d \in Members(l)

\* No own pet and no friend is in the list l.
Skips(l, kinds) == Members(l) \cap (OfKind(kinds, "own") \cup OfKind(kinds, "friend")) = {}

\* The variables' types; asking for pages stays within the bound, and each
\* listener has asked for one.
Typed ==
  /\ app \in {"ios", "android"} /\ kind \in [Pets -> {"own", "friend", "added", "removed", "other"}]
  /\ cursor \in 0 .. N
  /\ batches \in Seq(Batch)
  /\ asking \in Nat /\ Len(batches) + asking <= MaxBatches
  /\ listeners \in Nat /\ listeners <= Len(batches)
  /\ list \in Seq(Pets)
  /\ loading \in BOOLEAN /\ total \in 0 .. Len(list)
  /\ changes \in 0 .. MaxChanges

MatchInv ==
  /\ Typed
  /\ \A i \in 1 .. Len(batches) :
       BatchOk(batches[i], kind, app) /\ ListedTo(batches[i].from, list, kind)
  /\ ListedTo(cursor, list, kind)
  /\ Skips(list, kind)

\* Android, the friend list as it was: one page at a time, from the cursor, and
\* the list ends at the cursor.  A page is asked for, or is under way, or was
\* listed and the scroll listener has not seen it yet, or it waits for nothing.
Alone ==
  /\ asking <= 1
  /\ ~loading => /\ total = Len(list) /\ asking = 0
                 /\ \A i \in 1 .. Len(batches) : batches[i].phase = "done"
  /\ asking = 1 => total = Len(list) /\ \A i \in 1 .. Len(batches) : batches[i].phase = "done"
  /\ \A i \in 1 .. Len(batches) : batches[i].phase # "done" =>
       /\ total = Len(list) /\ batches[i].from = cursor
       /\ \A j \in 1 .. Len(batches) : batches[j].phase = "done" \/ j = i
  /\ \A k \in 1 .. Len(list) : list[k] <= cursor
  /\ \A k, l \in 1 .. Len(list) : list[k] = list[l] => k = l

OneAtATime == app = "android" /\ changes = 0 => Alone

----------------------------------------------------------------------------
(* Pages and their order *)

\* The bounds one by one.
LEMMA Bounds ==
  /\ N \in Nat /\ MaxChanges \in Nat
  /\ Limit \in Nat \ {0} /\ Threshold \in Nat \ {0} /\ MaxBatches \in Nat \ {0}
  BY MatchingAssumption

\* Sets of pets are finite.
LEMMA PetSets ==
  ASSUME NEW S \in SUBSET Pets
  PROVE  IsFiniteSet(S) /\ Cardinality(S) \in Nat
<1>1. IsFiniteSet(Pets)
  BY Bounds, FS_Interval DEF Pets
<1> QED BY <1>1, FS_Subset, FS_CardinalityType

\* A page has no more pets than the limit, and its last pet leaves none of the
\* pets before it out.
LEMMA PageFacts ==
  ASSUME NEW n \in 0 .. N
  PROVE  /\ Page(n) \subseteq Pets
         /\ \A S \in SUBSET Page(n) : Cardinality(S) \in 0 .. Limit
         /\ Page(n) # {} =>
              /\ Last(Page(n)) \in 0 .. N /\ n < Last(Page(n))
              /\ \A d \in Page(n) : d <= Last(Page(n))
              /\ \A d \in Pets : d <= Last(Page(n)) => d <= n \/ d \in Page(n)
<1>1. Page(n) \subseteq Pets
  BY DEF Page
<1>2. Page(n) \subseteq n + 1 .. n + Limit
  BY Bounds DEF Page, Pets
<1>3. ASSUME NEW S \in SUBSET Page(n)
      PROVE  Cardinality(S) \in 0 .. Limit
  <2>1. S \in SUBSET (n + 1 .. n + Limit)
    BY <1>2
  <2>2. IsFiniteSet(n + 1 .. n + Limit) /\ Cardinality(n + 1 .. n + Limit) = Limit
    BY Bounds, FS_Interval
  <2>3. Cardinality(S) <= Limit
    BY <2>1, <2>2, FS_Subset
  <2>4. Cardinality(S) \in Nat
    BY <1>1, PetSets
  <2> QED BY <2>3, <2>4, Bounds
<1>4. ASSUME Page(n) # {}
      PROVE  /\ Last(Page(n)) \in 0 .. N /\ n < Last(Page(n))
             /\ \A d \in Page(n) : d <= Last(Page(n))
             /\ \A d \in Pets : d <= Last(Page(n)) => d <= n \/ d \in Page(n)
  <2> DEFINE top == IF n + Limit <= N THEN n + Limit ELSE N
  <2>1. n \in Nat /\ n <= N /\ N \in Nat /\ Limit \in Nat
    BY Bounds
  <2>2. n < N
    BY <1>4, <2>1 DEF Page, Pets
  <2>3. top \in Page(n) /\ \A d \in Page(n) : d <= top
    BY <2>1, <2>2, Bounds DEF Page, Pets
  <2> HIDE DEF top
  <2>4. Last(Page(n)) \in Page(n) /\ \A d \in Page(n) : d <= Last(Page(n))
    BY <2>3 DEF Last
  <2>5. Last(Page(n)) \in 0 .. N /\ n < Last(Page(n)) /\ Last(Page(n)) <= n + Limit
    BY <2>1, <2>4 DEF Page, Pets
  <2>6. \A d \in Pets : d <= Last(Page(n)) => d <= n \/ d \in Page(n)
    BY <2>1, <2>5 DEF Page, Pets
  <2> QED BY <2>4, <2>5, <2>6
<1> QED BY <1>1, <1>3, <1>4

\* The order of the query puts each pet of a page in the list once.
LEMMA InOrderLists ==
  ASSUME NEW S \in SUBSET Pets
  PROVE  /\ InOrder(S) \in Seq(Pets) /\ Len(InOrder(S)) = Cardinality(S)
         /\ Members(InOrder(S)) = S
         /\ \A k, l \in 1 .. Len(InOrder(S)) : InOrder(S)[k] = InOrder(S)[l] => k = l
<1> DEFINE R == {e \in S \X S : e[1] < e[2]}
           count(d) == Cardinality({x \in S : x < d})
<1>1. IsFiniteSet(S)
  BY PetSets
<1>2. \A d \in S : d \in Nat
  BY DEF Pets
<1>3. \A c, d \in S : <<c, d>> \in R <=> c < d
  OBVIOUS
<1>4. OrdersStrictly(R, S)
  <2> HIDE DEF R
  <2> QED BY <1>2, <1>3 DEF OrdersStrictly
<1>5. \A d \in S : Earlier(S, R, d) = {x \in S : x < d}
  BY <1>3 DEF Earlier
<1> HIDE DEF R
<1>6. /\ Cardinality(S) \in Nat
      /\ \A c, d \in S : count(c) = count(d) => c = d
      /\ \A d \in S : count(d) + 1 \in 1 .. Cardinality(S)
      /\ \A i \in 1 .. Cardinality(S) : \E d \in S : count(d) = i - 1
  <2>1. \A d \in S : count(d) = Cardinality(Earlier(S, R, d))
    BY <1>5
  <2> HIDE DEF count
  <2> QED BY <1>1, <1>4, <2>1, Ranks
<1>7. InOrder(S) = [i \in 1 .. Cardinality(S) |-> CHOOSE d \in S : count(d) = i - 1]
  BY DEF InOrder
<1>8. \A d \in S : count(d) \in Int
  BY <1>5, PetSets DEF Earlier
<1> HIDE DEF count
<1>9. \A i \in 1 .. Cardinality(S) : InOrder(S)[i] \in S /\ count(InOrder(S)[i]) = i - 1
  BY <1>6, <1>7
<1>10. InOrder(S) \in Seq(Pets) /\ Len(InOrder(S)) = Cardinality(S)
  <2>1. \A i \in 1 .. Cardinality(S) : (CHOOSE d \in S : count(d) = i - 1) \in Pets
    BY <1>7, <1>9
  <2> QED BY <1>6, <1>7, <2>1
<1>11. \A k, l \in 1 .. Cardinality(S) : InOrder(S)[k] = InOrder(S)[l] => k = l
  BY <1>6, <1>9
<1>12. ASSUME NEW d \in S
       PROVE  d \in Members(InOrder(S))
  <2>1. count(InOrder(S)[count(d) + 1]) = count(d)
    BY <1>6, <1>8, <1>9
  <2>2. InOrder(S)[count(d) + 1] = d
    BY <1>6, <1>9, <2>1
  <2> QED BY <1>6, <1>10, <2>2 DEF Members
<1>13. Members(InOrder(S)) \subseteq S
  BY <1>9, <1>10 DEF Members
<1> QED BY <1>10, <1>11, <1>12, <1>13

----------------------------------------------------------------------------
(* What happens to one page *)

\* The parts of a page are sets of pets, and what it waits for is what it lacks.
LEMMA BatchFacts ==
  ASSUME NEW b \in Batch, NEW kinds, NEW a, BatchOk(b, kinds, a)
  PROVE  /\ b.from \in 0 .. N /\ b.skip \in SUBSET Pets /\ b.size \in 0 .. Limit
         /\ b.checks \in SUBSET Pets /\ b.owners \in SUBSET Pets /\ b.ready \in SUBSET Pets
         /\ {Cardinality(b.checks), Cardinality(b.owners), Cardinality(b.ready)} \subseteq Nat
         /\ IsFiniteSet(b.checks) /\ IsFiniteSet(b.owners) /\ IsFiniteSet(b.ready)
         /\ b.phase = "open" => Cardinality(b.owners \cup b.ready) + Cardinality(b.checks) <= b.size
<1>1. /\ b.from \in 0 .. N /\ b.skip \in SUBSET Pets /\ b.size \in 0 .. Limit
      /\ b.checks \in SUBSET Pets /\ b.owners \in SUBSET Pets /\ b.ready \in SUBSET Pets
  BY DEF Batch
<1>2. /\ IsFiniteSet(b.checks) /\ IsFiniteSet(b.owners) /\ IsFiniteSet(b.ready)
      /\ Cardinality(b.checks) \in Nat /\ Cardinality(b.owners) \in Nat /\ Cardinality(b.ready) \in Nat
  BY <1>1, PetSets
<1>3. ASSUME b.phase = "open"
      PROVE  Cardinality(b.owners \cup b.ready) + Cardinality(b.checks) <= b.size
  <2>1. Cardinality(b.owners \cup b.ready)
          = Cardinality(b.owners) + Cardinality(b.ready) - Cardinality(b.owners \cap b.ready)
    BY <1>2, FS_Union
  <2>2. Cardinality(b.owners \cap b.ready) = 0
    BY FS_EmptySet DEF BatchOk
  <2>3. b.size = Cardinality(b.checks) + Cardinality(b.owners) + Cardinality(b.ready)
    BY <1>3 DEF BatchOk
  <2> QED BY <1>2, <2>1, <2>2, <2>3
<1> QED BY <1>1, <1>2, <1>3

\* A page that was just asked for.
LEMMA AskedOk ==
  ASSUME NEW n \in 0 .. N, NEW skip \in SUBSET Pets, NEW kinds, NEW a,
         skip \cap OfKind(kinds, "other") = {},
         a = "android" => OfKind(kinds, "friend") \subseteq skip
  PROVE  /\ Asked(n, skip) \in Batch /\ BatchOk(Asked(n, skip), kinds, a)
         /\ Asked(n, skip).from = n /\ Asked(n, skip).phase = "asked"
<1>1. Asked(n, skip) \in Batch
  BY Bounds DEF Asked, Batch
<1> QED BY <1>1 DEF Asked, BatchOk

\* An empty page ends at once.
LEMMA EmptyOk ==
  ASSUME NEW b \in Batch, NEW kinds, NEW a, BatchOk(b, kinds, a), b.phase = "asked", Page(b.from) = {}
  PROVE  /\ [b EXCEPT !.phase = "done"] \in Batch
         /\ BatchOk([b EXCEPT !.phase = "done"], kinds, a)
<1> DEFINE c == [b EXCEPT !.phase = "done"]
<1>1. /\ c \in Batch /\ c.from = b.from /\ c.skip = b.skip /\ c.phase = "done"
      /\ c.checks = b.checks /\ c.owners = b.owners /\ c.ready = b.ready
  BY DEF Batch
<1> HIDE DEF c
<1>2. BatchOk(c, kinds, a)
  BY <1>1 DEF BatchOk
<1> QED BY <1>1, <1>2 DEF c

\* SnapshotIos: every pet of the page that is not the owner's is checked.
LEMMA ChecksOk ==
  ASSUME NEW b \in Batch, NEW kinds, NEW a, BatchOk(b, kinds, a), b.phase = "asked"
  PROVE  LET others == Page(b.from) \ OfKind(kinds, "own")
             c == [b EXCEPT !.phase = "open", !.checks = others, !.size = Cardinality(others)]
         IN  c \in Batch /\ BatchOk(c, kinds, a) /\ c.from = b.from
<1> DEFINE others == Page(b.from) \ OfKind(kinds, "own")
           c == [b EXCEPT !.phase = "open", !.checks = others, !.size = Cardinality(others)]
<1>1. others \in SUBSET Pets /\ Cardinality(others) \in 0 .. Limit
  BY BatchFacts, PageFacts
<1>2. Page(b.from) \cap OfKind(kinds, "other") \subseteq others
  BY DEF OfKind
<1>3. others \subseteq Page(b.from) \ OfKind(kinds, "own")
  OBVIOUS
<1> HIDE DEF others
<1>4. /\ c \in Batch /\ c.from = b.from /\ c.skip = b.skip /\ c.phase = "open"
      /\ c.checks = others /\ c.owners = b.owners /\ c.ready = b.ready /\ c.size = Cardinality(others)
  BY <1>1 DEF Batch
<1> HIDE DEF c
<1>5. b.checks = {} /\ b.owners = {} /\ b.ready = {}
  BY DEF BatchOk
<1>6. Cardinality(c.owners) = 0 /\ Cardinality(c.ready) = 0 /\ Cardinality(others) \in Int
  BY <1>1, <1>4, <1>5, FS_EmptySet
<1>7. BatchOk(c, kinds, a)
  BY <1>2, <1>3, <1>4, <1>5, <1>6 DEF BatchOk
<1> QED BY <1>4, <1>7 DEF c, others

\* PageRead: every pet of the page that is neither the owner's nor in the friend
\* list has its owner read.
LEMMA ReadsOk ==
  ASSUME NEW b \in Batch, NEW kinds, BatchOk(b, kinds, "android"), b.phase = "asked"
  PROVE  LET valid == Page(b.from) \ (OfKind(kinds, "own") \cup b.skip)
             c == [b EXCEPT !.phase = "open", !.owners = valid, !.size = Cardinality(valid)]
         IN  c \in Batch /\ BatchOk(c, kinds, "android") /\ c.from = b.from
<1> DEFINE valid == Page(b.from) \ (OfKind(kinds, "own") \cup b.skip)
           c == [b EXCEPT !.phase = "open", !.owners = valid, !.size = Cardinality(valid)]
<1>1. valid \in SUBSET Pets /\ Cardinality(valid) \in 0 .. Limit
  BY BatchFacts, PageFacts
<1>2. Page(b.from) \cap OfKind(kinds, "other") \subseteq valid
  BY DEF OfKind, BatchOk
<1>3. valid \subseteq Page(b.from) \ OfKind(kinds, "own") /\ valid \cap OfKind(kinds, "friend") = {}
  BY DEF BatchOk
<1> HIDE DEF valid
<1>4. /\ c \in Batch /\ c.from = b.from /\ c.skip = b.skip /\ c.phase = "open"
      /\ c.checks = b.checks /\ c.owners = valid /\ c.ready = b.ready /\ c.size = Cardinality(valid)
  BY <1>1 DEF Batch
<1> HIDE DEF c
<1>5. b.checks = {} /\ b.owners = {} /\ b.ready = {}
  BY DEF BatchOk
<1>6. Cardinality(c.checks) = 0 /\ Cardinality(c.ready) = 0 /\ Cardinality(valid) \in Int
  BY <1>1, <1>4, <1>5, FS_EmptySet
<1>7. BatchOk(c, kinds, "android")
  BY <1>2, <1>3, <1>4, <1>5, <1>6 DEF BatchOk
<1> QED BY <1>4, <1>7 DEF c, valid

\* A set of pets that loses or gains one.
LEMMA OnePet ==
  ASSUME NEW S \in SUBSET Pets, NEW d \in Pets
  PROVE  /\ d \in S => Cardinality(S \ {d}) = Cardinality(S) - 1 /\ Cardinality(S) >= 1
         /\ d \notin S => Cardinality(S \cup {d}) = Cardinality(S) + 1
         /\ Cardinality(S) \in Nat
<1>1. IsFiniteSet(S) /\ Cardinality(S) \in Nat /\ Cardinality(S \ {d}) \in Nat
  BY PetSets
<1>2. d \in S => Cardinality(S \ {d}) = Cardinality(S) - 1
  BY <1>1, FS_RemoveElement
<1>3. d \notin S => Cardinality(S \cup {d}) = Cardinality(S) + 1
  BY <1>1, FS_AddElement
<1> QED BY <1>1, <1>2, <1>3

\* isFriending: a friend is counted out, another pet's owner is read.
LEMMA AnsweredOk ==
  ASSUME NEW b \in Batch, NEW kinds, NEW a, BatchOk(b, kinds, a), NEW d \in b.checks
  PROVE  /\ b.phase = "open"
         /\ kinds[d] \in {"friend", "added"} =>
              LET c == [b EXCEPT !.checks = @ \ {d}, !.size = @ - 1]
              IN  c \in Batch /\ BatchOk(c, kinds, a) /\ c.from = b.from
         /\ kinds[d] \notin {"friend", "added"} =>
              LET c == [b EXCEPT !.checks = @ \ {d}, !.owners = @ \cup {d}]
              IN  c \in Batch /\ BatchOk(c, kinds, a) /\ c.from = b.from
<1>0. b.phase = "open" /\ d \in Pets /\ d \notin b.owners /\ d \notin b.ready
  BY BatchFacts DEF BatchOk
<1>1. /\ Cardinality(b.checks \ {d}) = Cardinality(b.checks) - 1 /\ Cardinality(b.checks) >= 1
      /\ Cardinality(b.owners \cup {d}) = Cardinality(b.owners) + 1
      /\ {Cardinality(b.checks), Cardinality(b.owners), Cardinality(b.ready)} \subseteq Nat
  BY <1>0, BatchFacts, OnePet
<1>2. b.size = Cardinality(b.checks) + Cardinality(b.owners) + Cardinality(b.ready)
  BY <1>0 DEF BatchOk
<1>3. ASSUME kinds[d] \in {"friend", "added"}
      PROVE  LET c == [b EXCEPT !.checks = @ \ {d}, !.size = @ - 1]
             IN  c \in Batch /\ BatchOk(c, kinds, a) /\ c.from = b.from
  <2> DEFINE c == [b EXCEPT !.checks = @ \ {d}, !.size = @ - 1]
  <2>1. b.size - 1 \in 0 .. Limit
    <3>1. b.size \in 0 .. Limit
      BY BatchFacts
    <3>2. b.size >= 1
      BY <1>1, <1>2
    <3> QED BY <3>1, <3>2, Bounds
  <2>2. /\ c \in Batch /\ c.from = b.from /\ c.skip = b.skip /\ c.phase = "open"
        /\ c.checks = b.checks \ {d} /\ c.owners = b.owners /\ c.ready = b.ready /\ c.size = b.size - 1
    BY <1>0, <2>1 DEF Batch
  <2> HIDE DEF c
  <2>3. c.size = Cardinality(c.checks) + Cardinality(c.owners) + Cardinality(c.ready)
    BY <1>1, <1>2, <2>2
  <2>4. d \notin OfKind(kinds, "other")
    BY <1>3 DEF OfKind
  <2>5. BatchOk(c, kinds, a)
    BY <1>0, <2>2, <2>3, <2>4 DEF BatchOk
  <2> QED BY <2>2, <2>5 DEF c
<1>4. ASSUME kinds[d] \notin {"friend", "added"}
      PROVE  LET c == [b EXCEPT !.checks = @ \ {d}, !.owners = @ \cup {d}]
             IN  c \in Batch /\ BatchOk(c, kinds, a) /\ c.from = b.from
  <2> DEFINE c == [b EXCEPT !.checks = @ \ {d}, !.owners = @ \cup {d}]
  <2>1. /\ c \in Batch /\ c.from = b.from /\ c.skip = b.skip /\ c.phase = "open"
        /\ c.checks = b.checks \ {d} /\ c.owners = b.owners \cup {d} /\ c.ready = b.ready
        /\ c.size = b.size
    BY <1>0 DEF Batch
  <2> HIDE DEF c
  <2>2. c.size = Cardinality(c.checks) + Cardinality(c.owners) + Cardinality(c.ready)
    BY <1>1, <1>2, <2>1
  <2>3. d \notin OfKind(kinds, "friend")
    BY <1>4 DEF OfKind
  <2>4. BatchOk(c, kinds, a)
    BY <1>0, <2>1, <2>2, <2>3 DEF BatchOk
  <2> QED BY <2>1, <2>4 DEF c
<1> QED BY <1>0, <1>3, <1>4

\* An owner is read: the pet is ready, and a page that has as many as it waits
\* for has every candidate ready.
LEMMA ReadyOk ==
  ASSUME NEW b \in Batch, NEW kinds, NEW a, BatchOk(b, kinds, a), NEW d \in b.owners
  PROVE  LET c == [b EXCEPT !.owners = @ \ {d}, !.ready = @ \cup {d}]
             e == [c EXCEPT !.phase = "done"]
         IN  /\ b.phase = "open" /\ c.from = b.from /\ e.from = b.from /\ c.ready = b.ready \cup {d}
             /\ c \in Batch /\ BatchOk(c, kinds, a) /\ c.phase = "open"
             /\ Cardinality(c.ready) <= c.size
             /\ Cardinality(c.ready) >= c.size =>
                  /\ e \in Batch /\ BatchOk(e, kinds, a) /\ e.phase = "done"
                  /\ Page(b.from) \cap OfKind(kinds, "other") \subseteq c.ready
                  /\ c.ready \subseteq Page(b.from) \ (OfKind(kinds, "own") \cup OfKind(kinds, "friend"))
<1> DEFINE c == [b EXCEPT !.owners = @ \ {d}, !.ready = @ \cup {d}]
           e == [c EXCEPT !.phase = "done"]
<1>0. b.phase = "open" /\ d \in Pets /\ d \notin b.checks /\ d \notin b.ready
  BY BatchFacts DEF BatchOk
<1>1. /\ Cardinality(b.owners \ {d}) = Cardinality(b.owners) - 1
      /\ Cardinality(b.ready \cup {d}) = Cardinality(b.ready) + 1
      /\ {Cardinality(b.checks), Cardinality(b.owners), Cardinality(b.ready)} \subseteq Nat
  BY <1>0, BatchFacts, OnePet
<1>2. b.size = Cardinality(b.checks) + Cardinality(b.owners) + Cardinality(b.ready)
  BY <1>0 DEF BatchOk
<1>3. /\ c \in Batch /\ c.from = b.from /\ c.skip = b.skip /\ c.phase = "open"
      /\ c.checks = b.checks /\ c.owners = b.owners \ {d} /\ c.ready = b.ready \cup {d}
      /\ c.size = b.size
  BY <1>0 DEF Batch
<1> HIDE DEF c
<1>4. c.size = Cardinality(c.checks) + Cardinality(c.owners) + Cardinality(c.ready)
  BY <1>1, <1>2, <1>3
<1>5. BatchOk(c, kinds, a)
  BY <1>0, <1>3, <1>4 DEF BatchOk
<1>6. /\ e \in Batch /\ e.from = c.from /\ e.skip = c.skip /\ e.phase = "done"
      /\ e.checks = c.checks /\ e.owners = c.owners /\ e.ready = c.ready
  BY <1>3 DEF Batch
<1> HIDE DEF e
<1>7. IsFiniteSet(c.checks) /\ IsFiniteSet(c.owners)
      /\ {Cardinality(c.checks), Cardinality(c.owners), Cardinality(c.ready)} \subseteq Nat
  BY <1>3, <1>5, BatchFacts
<1>8. Cardinality(c.ready) <= c.size
  BY <1>4, <1>7
<1>9. ASSUME Cardinality(c.ready) >= c.size
      PROVE  /\ BatchOk(e, kinds, a)
             /\ Page(b.from) \cap OfKind(kinds, "other") \subseteq c.ready
             /\ c.ready \subseteq Page(b.from) \ (OfKind(kinds, "own") \cup OfKind(kinds, "friend"))
  <2>1. Cardinality(c.checks) = 0 /\ Cardinality(c.owners) = 0
    BY <1>4, <1>7, <1>9
  <2>2. c.checks = {} /\ c.owners = {}
    BY <1>7, <2>1, FS_EmptySet
  <2>3. BatchOk(e, kinds, a)
    BY <1>3, <1>5, <1>6, <2>2 DEF BatchOk
  <2> QED BY <1>3, <1>5, <2>2, <2>3 DEF BatchOk
<1> QED BY <1>0, <1>3, <1>5, <1>6, <1>8, <1>9 DEF c, e

----------------------------------------------------------------------------
(* The steps keep the invariant *)

\* The invariant gives the types, and with BatchFacts the count of each page.
LEMMA MatchTypes == MatchInv => TypeOK
<1> SUFFICES ASSUME MatchInv PROVE TypeOK
  OBVIOUS
<1>1. Typed /\ \A i \in 1 .. Len(batches) : BatchOk(batches[i], kind, app)
  BY DEF MatchInv
<1>2. /\ Len(batches) \in Nat /\ asking \in 0 .. MaxBatches /\ listeners \in 0 .. MaxBatches
      /\ Len(batches) <= MaxBatches
  <2>1. Len(batches) \in Nat /\ MaxBatches \in Nat
    BY <1>1, Bounds DEF Typed
  <2> QED BY <1>1, <2>1 DEF Typed
<1>3. ASSUME NEW i \in 1 .. Len(batches)
      PROVE  LET b == batches[i] IN b.phase = "open" =>
               Cardinality(b.owners \cup b.ready) + Cardinality(b.checks) <= b.size
  <2>1. batches[i] \in Batch
    BY <1>1 DEF Typed
  <2> QED BY <1>1, <2>1, BatchFacts
<1> QED BY <1>1, <1>2, <1>3 DEF Typed, TypeOK

\* A page changes; the list may grow and the cursor follow it.
LEMMA UpdateKeeps ==
  ASSUME MatchInv, NEW i \in 1 .. Len(batches), NEW b \in Batch, BatchOk(b, kind, app),
         b.from = batches[i].from, Update(i, b),
         UNCHANGED <<app, kind, androidOnly, changes>>,
         list' \in Seq(Pets), Members(list) \subseteq Members(list'), Len(list) <= Len(list'),
         cursor' \in 0 .. N, ListedTo(cursor', list', kind), Skips(list', kind)
  PROVE  MatchInv'
<1>1. /\ batches' \in Seq(Batch) /\ Len(batches') = Len(batches)
      /\ batches'[i] = b /\ \A j \in 1 .. Len(batches) : j # i => batches'[j] = batches[j]
  BY DEF Update, MatchInv, Typed
<1>2. app' = app /\ kind' = kind /\ asking' = asking /\ listeners' = listeners
      /\ loading' = loading /\ total' = total /\ changes' = changes
  BY DEF androidOnly
<1>3. Typed'
  <2>1. total \in 0 .. Len(list')
    BY DEF MatchInv, Typed
  <2> QED BY <1>1, <1>2, <2>1 DEF MatchInv, Typed
<1>4. \A n \in 0 .. N : ListedTo(n, list, kind) => ListedTo(n, list', kind)
  BY DEF ListedTo
<1>5. ASSUME NEW j \in 1 .. Len(batches')
      PROVE  BatchOk(batches'[j], kind', app') /\ ListedTo(batches'[j].from, list', kind')
  <2>0. j \in 1 .. Len(batches) /\ batches[j] \in Batch
    BY <1>1 DEF MatchInv, Typed
  <2>1. batches'[j].from = batches[j].from /\ batches[j].from \in 0 .. N
    <3>1. batches'[j].from = batches[j].from
      BY <1>1, <2>0
    <3>2. batches[j].from \in 0 .. N
      BY <2>0 DEF Batch
    <3> QED BY <3>1, <3>2
  <2>2. ListedTo(batches[j].from, list, kind)
    BY <1>1 DEF MatchInv
  <2>3. BatchOk(batches'[j], kind, app)
    BY <1>1 DEF MatchInv
  <2> QED BY <1>2, <1>4, <2>1, <2>2, <2>3
<1> QED BY <1>2, <1>3, <1>5 DEF MatchInv

\* The kinds of pets after records came or went: no pet is the owner's, a friend
\* all the while, or without a record all the while, that was not.
KindsGoOn(k) ==
  /\ k \in [Pets -> {"own", "friend", "added", "removed", "other"}]
  /\ OfKind(k, "own") = OfKind(kind, "own")
  /\ OfKind(k, "friend") \subseteq OfKind(kind, "friend")
  /\ OfKind(k, "other") \subseteq OfKind(kind, "other")

\* Pages are asked for, perhaps because a record came or went.
LEMMA AskKeeps ==
  ASSUME MatchInv, NEW s \in Seq(Batch), batches' = batches \o s,
         \A j \in 1 .. Len(s) : BatchOk(s[j], kind', app) /\ ListedTo(s[j].from, list, kind),
         KindsGoOn(kind'), asking' \in Nat, Len(batches) + Len(s) + asking' <= MaxBatches,
         listeners' \in Nat, listeners' <= Len(batches) + Len(s),
         changes' \in 0 .. MaxChanges, UNCHANGED <<app, cursor, list, loading, total>>
  PROVE  MatchInv'
<1>1. /\ batches' \in Seq(Batch) /\ Len(batches') = Len(batches) + Len(s)
      /\ Len(batches) \in Nat /\ Len(s) \in Nat
      /\ \A j \in 1 .. Len(batches') :
           \/ j \in 1 .. Len(batches) /\ batches'[j] = batches[j]
           \/ j - Len(batches) \in 1 .. Len(s) /\ batches'[j] = s[j - Len(batches)]
  <2>1. batches \in Seq(Batch)
    BY DEF MatchInv, Typed
  <2> QED BY <2>1, ConcatProperties
<1>2. /\ kind' \in [Pets -> {"own", "friend", "added", "removed", "other"}]
      /\ OfKind(kind', "own") = OfKind(kind, "own")
      /\ OfKind(kind', "friend") \subseteq OfKind(kind, "friend")
      /\ OfKind(kind', "other") \subseteq OfKind(kind, "other")
  BY DEF KindsGoOn
<1>3. \A b \in Batch : BatchOk(b, kind, app) => BatchOk(b, kind', app)
  BY <1>2 DEF BatchOk
<1>4. \A n \in 0 .. N : ListedTo(n, list, kind) => ListedTo(n, list, kind')
  BY <1>2 DEF ListedTo
<1>5. ASSUME NEW j \in 1 .. Len(batches')
      PROVE  BatchOk(batches'[j], kind', app) /\ ListedTo(batches'[j].from, list, kind')
  <2>0. batches'[j] \in Batch
    BY <1>1
  <2>1. batches'[j].from \in 0 .. N
    BY <2>0 DEF Batch
  <2>2. CASE j \in 1 .. Len(batches) /\ batches'[j] = batches[j]
    <3>1. batches[j] \in Batch /\ BatchOk(batches[j], kind, app) /\ ListedTo(batches[j].from, list, kind)
      BY <2>2, SMTT(30) DEF MatchInv, Typed
    <3> QED BY <1>3, <1>4, <2>1, <2>2, <3>1
  <2>3. CASE j - Len(batches) \in 1 .. Len(s) /\ batches'[j] = s[j - Len(batches)]
    BY <1>4, <2>1, <2>3
  <2> QED BY <1>1, <2>2, <2>3
<1>6. Typed'
  BY <1>1, <1>2 DEF MatchInv, Typed
<1>7. ListedTo(cursor, list, kind') /\ Skips(list, kind')
  BY <1>2, <1>4 DEF MatchInv, Typed, Skips
<1> QED BY <1>5, <1>6, <1>7 DEF MatchInv

\* One page is asked for.
LEMMA AskOneKeeps ==
  ASSUME MatchInv, NEW b \in Batch, batches' = Append(batches, b),
         BatchOk(b, kind, app), ListedTo(b.from, list, kind),
         asking' \in Nat, Len(batches) + 1 + asking' <= MaxBatches,
         listeners' \in Nat, listeners' <= Len(batches) + 1,
         changes' \in 0 .. MaxChanges, UNCHANGED <<app, kind, cursor, list, loading, total>>
  PROVE  MatchInv'
<1>1. batches' = batches \o << b >> /\ << b >> \in Seq(Batch) /\ Len(<< b >>) = 1
  BY AppendIsConcat, SMTT(30) DEF MatchInv, Typed
<1>2. \A j \in 1 .. Len(<< b >>) : BatchOk(<< b >>[j], kind', app) /\ ListedTo(<< b >>[j].from, list, kind)
  OBVIOUS
<1>3. KindsGoOn(kind')
  BY DEF KindsGoOn, MatchInv, Typed
<1> HIDE DEF Update
<1> QED BY <1>1, <1>2, <1>3, AskKeeps

\* The page i of the invariant.
LEMMA PageOf ==
  ASSUME MatchInv, NEW i \in 1 .. Len(batches)
  PROVE  /\ batches[i] \in Batch /\ batches[i].from \in 0 .. N
         /\ BatchOk(batches[i], kind, app) /\ ListedTo(batches[i].from, list, kind)
<1>1. batches[i] \in Batch
  BY DEF MatchInv, Typed
<1> QED BY <1>1, BatchFacts DEF MatchInv

\* A page changes and the list does not.
LEMMA UpdateOnly ==
  ASSUME MatchInv, NEW i \in 1 .. Len(batches), NEW b \in Batch, BatchOk(b, kind, app),
         b.from = batches[i].from, Update(i, b),
         UNCHANGED <<app, kind, cursor, androidOnly, list, changes>>
  PROVE  MatchInv'
<1>1. list' \in Seq(Pets) /\ Len(list) <= Len(list') /\ cursor' \in 0 .. N
  <2>1. list \in Seq(Pets) /\ Len(list) \in Nat
    BY DEF MatchInv, Typed
  <2> QED BY <2>1 DEF MatchInv, Typed
<1>2. ListedTo(cursor', list', kind) /\ Skips(list', kind)
  BY DEF MatchInv
<1> HIDE DEF Update
<1> QED BY <1>1, <1>2, UpdateKeeps

\* The first page is asked for, at the start of the query.
LEMMA InitMatch == Init => MatchInv
<1> SUFFICES ASSUME Init PROVE MatchInv
  OBVIOUS
<1>1. /\ kind \in [Pets -> {"own", "friend", "added", "removed", "other"}]
      /\ cursor = 0 /\ listeners = 0 /\ list = << >> /\ total = 0 /\ changes = 0 /\ loading
  BY DEF Init
<1>2. Members(list) = {} /\ Len(list) = 0
  BY <1>1 DEF Members
<1>3. \A n \in 0 .. N : n = 0 => ListedTo(n, list, kind)
  BY DEF ListedTo, OfKind, Pets
<1>4. ListedTo(cursor, list, kind) /\ Skips(list, kind) /\ 0 \in 0 .. N
  BY <1>1, <1>2, <1>3, Bounds DEF Skips
<1>5. CASE app = "ios"
  <2>1. batches = << Asked(0, {}) >> /\ asking = 0
    BY <1>5 DEF Init
  <2>2. /\ Asked(0, {}) \in Batch /\ BatchOk(Asked(0, {}), kind, app) /\ Asked(0, {}).from = 0
    BY <1>4, <1>5, AskedOk
  <2>3. batches \in Seq(Batch) /\ Len(batches) = 1 /\ \A i \in 1 .. Len(batches) : batches[i] = Asked(0, {})
    BY <2>1, <2>2
  <2>4. Typed
    BY <1>1, <1>4, <1>5, <2>1, <2>3, Bounds DEF Typed
  <2> QED BY <1>3, <1>4, <2>2, <2>3, <2>4 DEF MatchInv
<1>6. CASE app = "android"
  <2>1. batches = << >> /\ asking = 1
    BY <1>6 DEF Init
  <2>2. Typed
    BY <1>1, <1>4, <1>6, <2>1, Bounds DEF Typed
  <2> QED BY <1>4, <2>1, <2>2 DEF MatchInv
<1> QED BY <1>5, <1>6 DEF Init

\* willDisplay asks for the page after the cursor.
LEMMA WillDisplayKeeps == ASSUME MatchInv, WillDisplay PROVE MatchInv'
<1>1. /\ app = "ios" /\ CanAsk(1) /\ batches' = Append(batches, Asked(cursor, {}))
      /\ UNCHANGED <<app, kind, cursor, asking, listeners, list, loading, total, changes>>
  BY DEF WillDisplay, androidOnly
<1>2. cursor \in 0 .. N /\ ListedTo(cursor, list, kind)
  BY DEF MatchInv, Typed
<1>3. /\ Asked(cursor, {}) \in Batch /\ BatchOk(Asked(cursor, {}), kind, app)
      /\ Asked(cursor, {}).from = cursor
  BY <1>1, <1>2, AskedOk
<1>4. /\ asking' \in Nat /\ Len(batches) + 1 + asking' <= MaxBatches
      /\ listeners' \in Nat /\ listeners' <= Len(batches) + 1 /\ changes' \in 0 .. MaxChanges
  <2>1. Len(batches) \in Nat /\ MaxBatches \in Nat
    BY Bounds DEF MatchInv, Typed
  <2> QED BY <1>1, <2>1 DEF CanAsk, MatchInv, Typed
<1> QED BY <1>1, <1>2, <1>3, <1>4, AskOneKeeps

\* The listener of a page reports it again.
LEMMA PageChangedKeeps ==
  ASSUME MatchInv, NEW i \in 1 .. Len(batches), PageChanged(i) PROVE MatchInv'
<1> DEFINE n == batches[i].from
<1>1. /\ app = "ios" /\ CanAsk(1) /\ changes < MaxChanges /\ changes' = changes + 1
      /\ batches' = Append(batches, Asked(n, {}))
      /\ UNCHANGED <<app, kind, cursor, asking, listeners, list, loading, total>>
  BY DEF PageChanged, androidOnly
<1>2. n \in 0 .. N /\ ListedTo(n, list, kind)
  BY PageOf
<1> HIDE DEF n
<1>3. Asked(n, {}) \in Batch /\ BatchOk(Asked(n, {}), kind, app) /\ Asked(n, {}).from = n
  BY <1>1, <1>2, AskedOk, SMTT(30)
<1>4. /\ asking' \in Nat /\ Len(batches) + 1 + asking' <= MaxBatches
      /\ listeners' \in Nat /\ listeners' <= Len(batches) + 1 /\ changes' \in 0 .. MaxChanges
  <2>1. Len(batches) \in Nat /\ MaxBatches \in Nat /\ changes \in 0 .. MaxChanges /\ MaxChanges \in Nat
    BY Bounds DEF MatchInv, Typed
  <2> QED BY <1>1, <2>1 DEF CanAsk, MatchInv, Typed
<1> QED BY <1>1, <1>2, <1>3, <1>4, AskOneKeeps

\* Known pets are no candidates, and every friend is known.
LEMMA KnownPets ==
  /\ Known \in SUBSET Pets /\ Known \cap OfKind(kind, "other") = {}
  /\ OfKind(kind, "friend") \subseteq Known
  BY DEF Known, Kind, OfKind

\* listenToFriendList: a page is asked for, to be filtered by the friend list.
LEMMA FriendListReadKeeps == ASSUME MatchInv, FriendListRead PROVE MatchInv'
<1>1. /\ asking > 0 /\ asking' = asking - 1
      /\ listeners' = IF Known = {} THEN listeners ELSE listeners + 1
      /\ batches' = Append(batches, Asked(cursor, Known))
      /\ UNCHANGED <<app, kind, cursor, list, loading, total, changes>>
  BY DEF FriendListRead
<1>2. cursor \in 0 .. N /\ ListedTo(cursor, list, kind)
  BY DEF MatchInv, Typed
<1>3. /\ Asked(cursor, Known) \in Batch /\ BatchOk(Asked(cursor, Known), kind, app)
      /\ Asked(cursor, Known).from = cursor
  BY <1>2, KnownPets, AskedOk
<1>4. /\ asking' \in Nat /\ Len(batches) + 1 + asking' <= MaxBatches
      /\ listeners' \in Nat /\ listeners' <= Len(batches) + 1 /\ changes' \in 0 .. MaxChanges
  <2>1. Len(batches) \in Nat /\ MaxBatches \in Nat /\ asking \in Nat /\ listeners \in Nat
    BY Bounds DEF MatchInv, Typed
  <2>2. Len(batches) + asking <= MaxBatches /\ listeners <= Len(batches)
    BY DEF MatchInv, Typed
  <2>3. listeners' = listeners \/ listeners' = listeners + 1
    BY <1>1
  <2> QED BY <1>1, <2>1, <2>2, <2>3 DEF MatchInv, Typed
<1> QED BY <1>1, <1>2, <1>3, <1>4, AskOneKeeps

\* A record comes, changes or goes: every listener asks for a page at the cursor.
LEMMA FriendListChangesKeeps ==
  ASSUME MatchInv, NEW d \in Pets, FriendListChanges(d) PROVE MatchInv'
<1>1. PICK k \in IF d \in Known THEN {kind[d], "removed"} ELSE {"added"} :
        LET known == IF k = "removed" THEN Known \ {d} ELSE Known \cup {d}
        IN  /\ kind' = [kind EXCEPT ![d] = k]
            /\ batches' = batches \o [i \in 1 .. listeners |-> Asked(cursor, known)]
  BY DEF FriendListChanges
<1> DEFINE skip == IF k = "removed" THEN Known \ {d} ELSE Known \cup {d}
           s == [i \in 1 .. listeners |-> Asked(cursor, skip)]
<1>2. /\ kind[d] # "own" /\ CanAsk(listeners)
      /\ changes < MaxChanges /\ changes' = changes + 1
      /\ UNCHANGED <<app, cursor, asking, listeners, list, loading, total>>
      /\ kind' = [kind EXCEPT ![d] = k] /\ batches' = batches \o s
  BY <1>1 DEF FriendListChanges, androidOnly
<1>3. /\ cursor \in 0 .. N /\ ListedTo(cursor, list, kind)
      /\ kind \in [Pets -> {"own", "friend", "added", "removed", "other"}]
      /\ listeners \in Nat /\ asking \in Nat /\ Len(batches) \in Nat
      /\ listeners <= Len(batches) /\ changes \in 0 .. MaxChanges
  BY DEF MatchInv, Typed
<1>4. d \in Known <=> kind[d] \in {"friend", "added"}
  BY DEF Known, Kind
<1>5. /\ k \in {"friend", "added", "removed"}
      /\ k = "friend" => kind[d] = "friend"
  BY <1>4
<1>6. KindsGoOn(kind')
  BY <1>2, <1>3, <1>5 DEF KindsGoOn, OfKind
<1>7. /\ skip \in SUBSET Pets /\ skip \cap OfKind(kind', "other") = {}
      /\ OfKind(kind', "friend") \subseteq skip
  BY <1>2, <1>3, <1>5, KnownPets DEF OfKind
<1> HIDE DEF skip
<1>8. /\ Asked(cursor, skip) \in Batch /\ BatchOk(Asked(cursor, skip), kind', app)
      /\ Asked(cursor, skip).from = cursor
  BY <1>3, <1>7, AskedOk
<1>9. /\ s \in Seq(Batch) /\ Len(s) = listeners
      /\ \A j \in 1 .. Len(s) : BatchOk(s[j], kind', app) /\ ListedTo(s[j].from, list, kind)
  BY <1>3, <1>8
<1> HIDE DEF s
<1>10. /\ asking' \in Nat /\ Len(batches) + Len(s) + asking' <= MaxBatches
       /\ listeners' \in Nat /\ listeners' <= Len(batches) + Len(s) /\ changes' \in 0 .. MaxChanges
  BY <1>2, <1>3, <1>9, Bounds DEF CanAsk
<1> QED BY <1>2, <1>6, <1>9, <1>10, AskKeeps

\* onScrolled asks for the friend list, if at all, and notes the list's length.
LEMMA ScrollKeeps ==
  ASSUME MatchInv, NEW lastVisible \in Int, Scroll(lastVisible) PROVE MatchInv'
<1>1. /\ asking' = asking \/ (CanAsk(1) /\ asking' = asking + 1)
      /\ loading' \in BOOLEAN /\ total' \in {Len(list), total}
      /\ UNCHANGED <<app, kind, cursor, batches, listeners, list, changes>>
  BY DEF Scroll
<1>2. Len(list) \in Nat /\ Len(batches) \in Nat /\ asking \in Nat /\ total \in 0 .. Len(list)
  BY DEF MatchInv, Typed
<1>3. asking' \in Nat /\ Len(batches) + asking' <= MaxBatches /\ total' \in 0 .. Len(list)
  BY <1>1, <1>2, Bounds DEF CanAsk, MatchInv, Typed
<1> QED BY <1>1, <1>3 DEF MatchInv, Typed

\* The snapshot of a page, on iOS.
LEMMA SnapshotIosKeeps ==
  ASSUME MatchInv, NEW i \in 1 .. Len(batches), SnapshotIos(i) PROVE MatchInv'
<1> DEFINE b == batches[i]
           others == Page(b.from) \ OfKind(kind, "own")
           opened == [b EXCEPT !.phase = "open", !.checks = others, !.size = Cardinality(others)]
           ended == [b EXCEPT !.phase = "done"]
<1>1. /\ b.phase = "asked" /\ Update(i, IF Page(b.from) = {} THEN ended ELSE opened)
      /\ UNCHANGED <<app, kind, cursor, androidOnly, list, changes>>
  BY DEF SnapshotIos, Kind, OfKind
<1>2. b \in Batch /\ BatchOk(b, kind, app)
  BY PageOf
<1>3. opened \in Batch /\ BatchOk(opened, kind, app) /\ opened.from = b.from
  BY <1>1, <1>2, ChecksOk
<1>4. Page(b.from) = {} => ended \in Batch /\ BatchOk(ended, kind, app) /\ ended.from = b.from
  <2>1. ended.from = b.from
    BY <1>2 DEF Batch
  <2> QED BY <1>1, <1>2, <2>1, EmptyOk
<1> HIDE DEF opened, ended
<1>5. CASE Page(b.from) = {}
  BY <1>1, <1>4, <1>5, UpdateOnly
<1>6. CASE Page(b.from) # {}
  BY <1>1, <1>3, <1>6, UpdateOnly
<1> QED BY <1>5, <1>6

\* The page is read, on Android.
LEMMA PageReadKeeps ==
  ASSUME MatchInv, NEW i \in 1 .. Len(batches), PageRead(i) PROVE MatchInv'
<1> DEFINE b == batches[i]
           valid == Page(b.from) \ (OfKind(kind, "own") \cup b.skip)
           opened == [b EXCEPT !.phase = "open", !.owners = valid, !.size = Cardinality(valid)]
           ended == [b EXCEPT !.phase = "done"]
<1>1. /\ app = "android" /\ b.phase = "asked"
      /\ Update(i, IF Page(b.from) = {} THEN ended ELSE opened)
      /\ UNCHANGED <<app, kind, cursor, androidOnly, list, changes>>
  BY DEF PageRead, Valid, Kind, OfKind
<1>2. b \in Batch /\ BatchOk(b, kind, app)
  BY PageOf
<1>3. opened \in Batch /\ BatchOk(opened, kind, app) /\ opened.from = b.from
  BY <1>1, <1>2, ReadsOk
<1>4. Page(b.from) = {} => ended \in Batch /\ BatchOk(ended, kind, app) /\ ended.from = b.from
  <2>1. ended.from = b.from
    BY <1>2 DEF Batch
  <2> QED BY <1>1, <1>2, <2>1, EmptyOk
<1> HIDE DEF opened, ended
<1>5. CASE Page(b.from) = {}
  BY <1>1, <1>4, <1>5, UpdateOnly
<1>6. CASE Page(b.from) # {}
  BY <1>1, <1>3, <1>6, UpdateOnly
<1> QED BY <1>5, <1>6

\* The answer to isFriending.
LEMMA AnswerFriendingKeeps ==
  ASSUME MatchInv, NEW i \in 1 .. Len(batches), NEW d \in Pets, AnswerFriending(i, d) PROVE MatchInv'
<1> DEFINE b == batches[i]
           out == [b EXCEPT !.checks = @ \ {d}, !.size = @ - 1]
           on == [b EXCEPT !.checks = @ \ {d}, !.owners = @ \cup {d}]
<1>1. /\ d \in b.checks
      /\ Update(i, IF d \in Known THEN [[b EXCEPT !.checks = @ \ {d}] EXCEPT !.size = @ - 1]
                   ELSE [[b EXCEPT !.checks = @ \ {d}] EXCEPT !.owners = @ \cup {d}])
      /\ UNCHANGED <<app, kind, cursor, androidOnly, list, changes>>
  BY DEF AnswerFriending
<1>2. b \in Batch /\ BatchOk(b, kind, app)
  BY PageOf
<1>3. /\ [[b EXCEPT !.checks = @ \ {d}] EXCEPT !.size = @ - 1] = out
      /\ [[b EXCEPT !.checks = @ \ {d}] EXCEPT !.owners = @ \cup {d}] = on
  BY <1>2 DEF Batch
<1>4. d \in Known <=> kind[d] \in {"friend", "added"}
  BY DEF Known, Kind
<1>5. kind[d] \in {"friend", "added"} => out \in Batch /\ BatchOk(out, kind, app) /\ out.from = b.from
  BY <1>1, <1>2, AnsweredOk
<1>6. kind[d] \notin {"friend", "added"} => on \in Batch /\ BatchOk(on, kind, app) /\ on.from = b.from
  BY <1>1, <1>2, AnsweredOk
<1> HIDE DEF out, on
<1>7. CASE d \in Known
  BY <1>1, <1>3, <1>4, <1>5, <1>7, UpdateOnly
<1>8. CASE d \notin Known
  BY <1>1, <1>3, <1>4, <1>6, <1>8, UpdateOnly
<1> QED BY <1>7, <1>8

\* A page put after the list.
LEMMA ListConcat ==
  ASSUME NEW l \in Seq(Pets), NEW m \in Seq(Pets)
  PROVE  /\ l \o m \in Seq(Pets) /\ Len(l \o m) = Len(l) + Len(m)
         /\ Len(l) \in Nat /\ Len(m) \in Nat
         /\ Members(l \o m) = Members(l) \cup Members(m)
         /\ \A k \in 1 .. Len(l \o m) :
              \/ k \in 1 .. Len(l) /\ (l \o m)[k] = l[k]
              \/ k - Len(l) \in 1 .. Len(m) /\ (l \o m)[k] = m[k - Len(l)]
<1> DEFINE c == l \o m
<1>1. /\ c \in Seq(Pets) /\ Len(c) = Len(l) + Len(m) /\ Len(l) \in Nat /\ Len(m) \in Nat
      /\ \A k \in 1 .. Len(c) : c[k] = IF k <= Len(l) THEN l[k] ELSE m[k - Len(l)]
  BY ConcatProperties
<1> HIDE DEF c
<1>2. \A k \in 1 .. Len(c) :
        \/ k \in 1 .. Len(l) /\ c[k] = l[k]
        \/ k - Len(l) \in 1 .. Len(m) /\ c[k] = m[k - Len(l)]
  BY <1>1
<1>3. \A k \in 1 .. Len(l) : k \in 1 .. Len(c) /\ c[k] = l[k]
  BY <1>1
<1>4. ASSUME NEW k \in 1 .. Len(m)
      PROVE  k + Len(l) \in 1 .. Len(c) /\ c[k + Len(l)] = m[k]
  <2>1. k + Len(l) \in 1 .. Len(c) /\ ~(k + Len(l) <= Len(l)) /\ k + Len(l) - Len(l) = k
    BY <1>1
  <2> QED BY <1>1, <2>1
<1>5. Members(c) = Members(l) \cup Members(m)
  <2>1. Members(c) \subseteq Members(l) \cup Members(m)
    BY <1>2 DEF Members
  <2>2. Members(l) \subseteq Members(c)
    BY <1>3 DEF Members
  <2>3. Members(m) \subseteq Members(c)
    BY <1>4 DEF Members
  <2> QED BY <2>1, <2>2, <2>3
<1> QED BY <1>1, <1>2, <1>5 DEF c

\* What OwnerRead does, in the terms of ReadyOk.
LEMMA OwnerReadIs ==
  ASSUME MatchInv, NEW i \in 1 .. Len(batches), NEW d \in Pets, OwnerRead(i, d)
  PROVE  LET b == batches[i]
             c == [b EXCEPT !.owners = @ \ {d}, !.ready = @ \cup {d}]
             e == [c EXCEPT !.phase = "done"]
         IN  /\ d \in b.owners /\ UNCHANGED <<app, kind, androidOnly, changes>>
             /\ \/ /\ Cardinality(c.ready) < c.size
                   /\ Update(i, c) /\ UNCHANGED <<list, cursor>>
                \/ /\ Cardinality(c.ready) >= c.size
                   /\ Update(i, e)
                   /\ list' = list \o InOrder(c.ready) /\ cursor' = Last(Page(b.from))
<1> DEFINE b == batches[i]
           c == [b EXCEPT !.owners = @ \ {d}, !.ready = @ \cup {d}]
           e == [c EXCEPT !.phase = "done"]
<1>1. /\ d \in b.owners /\ UNCHANGED <<app, kind, androidOnly, changes>>
      /\ IF Completes(c)
         THEN Update(i, e) /\ list' = list \o InOrder(c.ready) /\ cursor' = Last(Page(c.from))
         ELSE Update(i, c) /\ UNCHANGED <<list, cursor>>
  BY DEF OwnerRead
<1>2. b \in Batch /\ BatchOk(b, kind, app)
  BY PageOf
<1>3. c \in Batch /\ BatchOk(c, kind, app) /\ Cardinality(c.ready) <= c.size /\ c.from = b.from
  BY <1>1, <1>2, ReadyOk, ZenonT(30)
<1> HIDE DEF c
<1>4. Cardinality(c.ready) \in Nat /\ c.size \in Nat
  <2>1. c.size \in 0 .. Limit
    BY <1>3, BatchFacts
  <2>2. c.ready \in SUBSET Pets
    BY <1>3, BatchFacts
  <2> QED BY <2>1, <2>2, PetSets, Bounds
<1>5. Completes(c) <=> Cardinality(c.ready) >= c.size
  BY <1>3, <1>4 DEF Completes
<1>6. CASE Completes(c)
  BY <1>1, <1>3, <1>5, <1>6 DEF c
<1>7. CASE ~Completes(c)
  <2>1. Cardinality(c.ready) < c.size
    BY <1>4, <1>5, <1>7
  <2> QED BY <1>1, <1>7, <2>1 DEF c
<1> QED BY <1>6, <1>7

\* An owner is read; the pet that completes the page lists it and moves the
\* query past it.
LEMMA OwnerReadKeeps ==
  ASSUME MatchInv, NEW i \in 1 .. Len(batches), NEW d \in Pets, OwnerRead(i, d) PROVE MatchInv'
<1> DEFINE b == batches[i]
           c == [b EXCEPT !.owners = @ \ {d}, !.ready = @ \cup {d}]
           e == [c EXCEPT !.phase = "done"]
<1>1. /\ d \in b.owners /\ UNCHANGED <<app, kind, androidOnly, changes>>
      /\ \/ /\ Cardinality(c.ready) < c.size
            /\ Update(i, c) /\ UNCHANGED <<list, cursor>>
         \/ /\ Cardinality(c.ready) >= c.size
            /\ Update(i, e)
            /\ list' = list \o InOrder(c.ready) /\ cursor' = Last(Page(b.from))
  BY OwnerReadIs
<1>2. b \in Batch /\ b.from \in 0 .. N /\ BatchOk(b, kind, app) /\ ListedTo(b.from, list, kind)
  BY PageOf
<1>3. /\ c \in Batch /\ BatchOk(c, kind, app) /\ c.from = b.from /\ e.from = b.from
      /\ c.ready = b.ready \cup {d}
      /\ Cardinality(c.ready) >= c.size =>
           /\ e \in Batch /\ BatchOk(e, kind, app)
           /\ Page(b.from) \cap OfKind(kind, "other") \subseteq c.ready
           /\ c.ready \subseteq Page(b.from) \ (OfKind(kind, "own") \cup OfKind(kind, "friend"))
  BY <1>1, <1>2, ReadyOk, ZenonT(30)
<1> HIDE DEF e
<1>4. CASE Cardinality(c.ready) < c.size /\ Update(i, c) /\ UNCHANGED <<list, cursor>>
  <2> HIDE DEF c
  <2> QED BY <1>1, <1>3, <1>4, UpdateOnly
<1>5. CASE /\ Cardinality(c.ready) >= c.size /\ Update(i, e)
           /\ list' = list \o InOrder(c.ready) /\ cursor' = Last(Page(b.from))
  <2> HIDE DEF c
  <2>1. c.ready \in SUBSET Pets
    BY <1>3, BatchFacts
  <2>2. list \in Seq(Pets) /\ InOrder(c.ready) \in Seq(Pets) /\ Members(InOrder(c.ready)) = c.ready
    BY <2>1, InOrderLists DEF MatchInv, Typed
  <2>3. /\ list' \in Seq(Pets) /\ Len(list) <= Len(list')
        /\ Members(list') = Members(list) \cup c.ready
    BY <1>5, <2>2, ListConcat
  <2>4. Page(b.from) # {}
    BY <1>3, <1>5
  <2>5. /\ cursor' \in 0 .. N
        /\ \A x \in Pets : x <= cursor' => x <= b.from \/ x \in Page(b.from)
    BY <1>2, <1>5, <2>4, PageFacts
  <2>6. ListedTo(cursor', list', kind)
    <3>1. ASSUME NEW x \in OfKind(kind, "other"), x <= cursor'
          PROVE  x \in Members(list')
      <4>1. x \in Pets
        BY DEF OfKind
      <4>2. CASE x <= b.from
        BY <1>2, <2>3, <4>2 DEF ListedTo
      <4>3. CASE x \in Page(b.from)
        BY <1>3, <1>5, <2>3, <4>3
      <4> QED BY <2>5, <3>1, <4>1, <4>2, <4>3
    <3> QED BY <3>1 DEF ListedTo
  <2>7. Skips(list', kind)
    BY <1>3, <1>5, <2>3 DEF MatchInv, Skips
  <2> QED BY <1>1, <1>3, <1>5, <2>3, <2>5, <2>6, <2>7, UpdateKeeps
<1> QED BY <1>1, <1>4, <1>5

\* Every step keeps the invariant.
LEMMA NextMatch == MatchInv /\ [Next]_vars => MatchInv'
<1> SUFFICES ASSUME MatchInv, [Next]_vars PROVE MatchInv'
  OBVIOUS
<1>1. ASSUME NEW i \in 1 .. Len(batches), Answer(i) PROVE MatchInv'
  BY <1>1, SnapshotIosKeeps, PageReadKeeps, AnswerFriendingKeeps, OwnerReadKeeps DEF Answer
<1>2. CASE UNCHANGED vars
  BY <1>2 DEF vars, MatchInv, Typed
<1>3. ASSUME NEW lastVisible \in -1 .. Len(list) - 1, Scroll(lastVisible) PROVE MatchInv'
  BY <1>3, ScrollKeeps
<1> QED BY <1>1, <1>2, <1>3, WillDisplayKeeps, FriendListReadKeeps, PageChangedKeeps,
           FriendListChangesKeeps DEF Next

\* The invariant holds in every state.
LEMMA MatchAlways == Spec => []MatchInv
  BY InitMatch, NextMatch, PTL DEF Spec

THEOREM MatchingTypeOK == Spec => []TypeOK
  BY MatchTypes, MatchAlways, PTL

\* "Skip your own pet", "Skip your friend": whatever the order of the checks,
\* the owners and the friend list.
THEOREM OwnAndFriendsSkipped == Spec => []SkipsOwnAndFriends
<1>1. MatchInv => SkipsOwnAndFriends
  BY DEF MatchInv, Skips, SkipsOwnAndFriends, Members, Listed, OfKind, Kind
<1> QED BY <1>1, MatchAlways, PTL

\* Paging leaves no candidate out, in either app.
THEOREM NothingSkippedByPaging == Spec => []NoGap
<1>1. MatchInv => NoGap
  BY DEF MatchInv, ListedTo, NoGap, Members, Listed, OfKind
<1> QED BY <1>1, MatchAlways, PTL

----------------------------------------------------------------------------
(* Android: one page at a time *)

\* A page that is not done goes on, from where it was asked for.
LEMMA AloneUpdate ==
  ASSUME MatchInv, Alone, NEW i \in 1 .. Len(batches), NEW b \in Batch,
         batches[i].phase # "done", b.from = batches[i].from, Update(i, b),
         UNCHANGED <<list, cursor, asking, total, loading>>
  PROVE  Alone'
<1>1. /\ Len(batches') = Len(batches) /\ batches'[i] = b
      /\ \A j \in 1 .. Len(batches) : j # i => batches'[j] = batches[j]
  BY DEF MatchInv, Typed, Update
<1>2. asking # 1 /\ total = Len(list) /\ b.from = cursor /\ loading
  BY DEF Alone
<1>3. \A j \in 1 .. Len(batches) : j # i => batches'[j].phase = "done"
  BY <1>1 DEF Alone
<1> HIDE DEF Update
<1> QED BY <1>1, <1>2, <1>3 DEF Alone

\* The page that is listed goes behind the list: its pets come after the cursor,
\* where the list ends, and the cursor moves to its last one.
LEMMA AloneListed ==
  ASSUME MatchInv, Alone, NEW i \in 1 .. Len(batches), NEW b \in Batch,
         batches[i].phase # "done", b.phase = "done", Update(i, b),
         NEW S \in SUBSET Page(batches[i].from), Page(batches[i].from) # {},
         list' = list \o InOrder(S), cursor' = Last(Page(batches[i].from)),
         UNCHANGED <<asking, total, loading>>
  PROVE  Alone'
<1> DEFINE m == InOrder(S)
<1>1. /\ Len(batches') = Len(batches)
      /\ \A j \in 1 .. Len(batches) : batches'[j].phase = "done"
  <2>1. /\ Len(batches') = Len(batches) /\ batches'[i] = b
        /\ \A j \in 1 .. Len(batches) : j # i => batches'[j] = batches[j]
    BY DEF MatchInv, Typed, Update
  <2>2. \A j \in 1 .. Len(batches) : j # i => batches[j].phase = "done"
    BY DEF Alone
  <2> QED BY <2>1, <2>2
<1>2. asking # 1 /\ asking <= 1 /\ batches[i].from = cursor /\ loading
  BY DEF Alone
<1>3. /\ cursor \in 0 .. N /\ cursor' \in 0 .. N /\ cursor < cursor'
      /\ \A d \in Page(cursor) : d <= cursor' /\ cursor < d
  <2>1. cursor \in 0 .. N
    BY DEF MatchInv, Typed
  <2> QED BY <1>2, <2>1, PageFacts DEF Page
<1>4. S \in SUBSET Pets
  BY <1>2, <1>3, PageFacts
<1>5. /\ list \in Seq(Pets) /\ m \in Seq(Pets)
      /\ \A k \in 1 .. Len(m) : m[k] \in S
      /\ \A k, l \in 1 .. Len(m) : m[k] = m[l] => k = l
  BY <1>4, InOrderLists, SMTT(30) DEF MatchInv, Typed, Members
<1>6. \A k \in 1 .. Len(m) : m[k] <= cursor' /\ cursor < m[k] /\ m[k] \in Pets
  BY <1>2, <1>3, <1>4, <1>5
<1>7. /\ \A k \in 1 .. Len(list) : list[k] <= cursor /\ list[k] \in Pets
      /\ \A k, l \in 1 .. Len(list) : list[k] = list[l] => k = l
  BY <1>5 DEF Alone
<1>8. list' = list \o m
  OBVIOUS
<1> HIDE DEF m
<1>9. /\ Len(list) \in Nat /\ Len(m) \in Nat /\ Len(list') = Len(list) + Len(m)
      /\ \A k \in 1 .. Len(list') :
           \/ k \in 1 .. Len(list) /\ list'[k] = list[k]
           \/ k - Len(list) \in 1 .. Len(m) /\ list'[k] = m[k - Len(list)]
  BY <1>5, <1>8, ListConcat
<1>10. \A k \in 1 .. Len(list') : list'[k] <= cursor'
  <2> TAKE k \in 1 .. Len(list')
  <2>1. CASE k \in 1 .. Len(list) /\ list'[k] = list[k]
    <3>1. list[k] <= cursor /\ list[k] \in Nat
      BY <1>7, <2>1 DEF Pets
    <3> QED BY <1>3, <2>1, <3>1, Bounds
  <2>2. CASE k - Len(list) \in 1 .. Len(m) /\ list'[k] = m[k - Len(list)]
    BY <1>6, <2>2
  <2> QED BY <1>9, <2>1, <2>2
<1>11. \A k \in 1 .. Len(list), l \in 1 .. Len(m) : list[k] # m[l]
  <2>1. ASSUME NEW k \in 1 .. Len(list), NEW l \in 1 .. Len(m), list[k] = m[l]
        PROVE  FALSE
    <3>1. list[k] \in Nat /\ cursor \in Nat /\ list[k] <= cursor /\ cursor < m[l]
      BY <1>3, <1>6, <1>7, Bounds DEF Pets
    <3> QED BY <2>1, <3>1
  <2> QED BY <2>1
<1>12. ASSUME NEW k \in 1 .. Len(list'), NEW l \in 1 .. Len(list'), list'[k] = list'[l]
       PROVE  k = l
  <2>1. CASE k \in 1 .. Len(list) /\ list'[k] = list[k] /\ l \in 1 .. Len(list) /\ list'[l] = list[l]
    BY <1>7, <1>12, <2>1
  <2>2. CASE /\ k - Len(list) \in 1 .. Len(m) /\ list'[k] = m[k - Len(list)]
             /\ l - Len(list) \in 1 .. Len(m) /\ list'[l] = m[l - Len(list)]
    <3>1. k - Len(list) = l - Len(list)
      BY <1>5, <1>12, <2>2
    <3> QED BY <1>9, <3>1
  <2>3. CASE /\ k \in 1 .. Len(list) /\ list'[k] = list[k]
             /\ l - Len(list) \in 1 .. Len(m) /\ list'[l] = m[l - Len(list)]
    BY <1>12, <1>11, <2>3
  <2>4. CASE /\ l \in 1 .. Len(list) /\ list'[l] = list[l]
             /\ k - Len(list) \in 1 .. Len(m) /\ list'[k] = m[k - Len(list)]
    BY <1>12, <1>11, <2>4
  <2> QED BY <1>9, <2>1, <2>2, <2>3, <2>4
<1> QED BY <1>1, <1>2, <1>10, <1>12 DEF Alone

\* Answers to the page under way.
LEMMA AloneAnswer ==
  ASSUME MatchInv, Alone, app = "android", NEW i \in 1 .. Len(batches), Answer(i)
  PROVE  Alone'
<1> DEFINE b == batches[i]
<1>1. b \in Batch /\ b.from \in 0 .. N /\ BatchOk(b, kind, app)
  BY PageOf
<1>2. ASSUME PageRead(i) PROVE Alone'
  <2> DEFINE valid == Page(b.from) \ (OfKind(kind, "own") \cup b.skip)
             opened == [b EXCEPT !.phase = "open", !.owners = valid, !.size = Cardinality(valid)]
             ended == [b EXCEPT !.phase = "done"]
  <2>1. /\ b.phase = "asked" /\ Update(i, IF Page(b.from) = {} THEN ended ELSE opened)
        /\ UNCHANGED <<cursor, asking, total, loading, list>>
    BY <1>2 DEF PageRead, Valid, Kind, OfKind, androidOnly
  <2>2. opened \in Batch /\ opened.from = b.from
    BY <1>1, <2>1, ReadsOk
  <2>3. ended \in Batch /\ ended.from = b.from
    BY <1>1 DEF Batch
  <2> HIDE DEF opened, ended
  <2>4. CASE Page(b.from) = {}
    BY <2>1, <2>3, <2>4, AloneUpdate
  <2>5. CASE Page(b.from) # {}
    BY <2>1, <2>2, <2>5, AloneUpdate
  <2> QED BY <2>4, <2>5
<1>3. ASSUME NEW d \in Pets, AnswerFriending(i, d) PROVE Alone'
  <2> DEFINE out == [b EXCEPT !.checks = @ \ {d}, !.size = @ - 1]
             on == [b EXCEPT !.checks = @ \ {d}, !.owners = @ \cup {d}]
  <2>1. /\ d \in b.checks
        /\ Update(i, IF d \in Known THEN [[b EXCEPT !.checks = @ \ {d}] EXCEPT !.size = @ - 1]
                     ELSE [[b EXCEPT !.checks = @ \ {d}] EXCEPT !.owners = @ \cup {d}])
        /\ UNCHANGED <<cursor, asking, total, loading, list>>
    BY <1>3 DEF AnswerFriending, androidOnly
  <2>2. /\ [[b EXCEPT !.checks = @ \ {d}] EXCEPT !.size = @ - 1] = out
        /\ [[b EXCEPT !.checks = @ \ {d}] EXCEPT !.owners = @ \cup {d}] = on
    BY <1>1 DEF Batch
  <2>3. d \in Known <=> kind[d] \in {"friend", "added"}
    BY DEF Known, Kind
  <2>4. /\ b.phase = "open"
        /\ kind[d] \in {"friend", "added"} => out \in Batch /\ out.from = b.from
        /\ kind[d] \notin {"friend", "added"} => on \in Batch /\ on.from = b.from
    BY <1>1, <2>1, AnsweredOk, ZenonT(30)
  <2> HIDE DEF out, on
  <2>5. CASE d \in Known
    BY <2>1, <2>2, <2>3, <2>4, <2>5, AloneUpdate
  <2>6. CASE d \notin Known
    BY <2>1, <2>2, <2>3, <2>4, <2>6, AloneUpdate
  <2> QED BY <2>5, <2>6
<1>4. ASSUME NEW d \in Pets, OwnerRead(i, d) PROVE Alone'
  <2> DEFINE c == [b EXCEPT !.owners = @ \ {d}, !.ready = @ \cup {d}]
             e == [c EXCEPT !.phase = "done"]
  <2>1. /\ d \in b.owners /\ asking' = asking /\ total' = total /\ loading' = loading
        /\ \/ /\ Cardinality(c.ready) < c.size
              /\ Update(i, c) /\ UNCHANGED <<list, cursor>>
           \/ /\ Cardinality(c.ready) >= c.size
              /\ Update(i, e)
              /\ list' = list \o InOrder(c.ready) /\ cursor' = Last(Page(b.from))
    BY <1>4, OwnerReadIs DEF androidOnly
  <2>2. /\ b.phase = "open" /\ c \in Batch /\ c.from = b.from /\ c.ready = b.ready \cup {d}
        /\ Cardinality(c.ready) >= c.size =>
             e \in Batch /\ e.phase = "done" /\ c.ready \subseteq Page(b.from)
    <3>1. /\ c \in Batch /\ c.from = b.from /\ c.ready = b.ready \cup {d}
          /\ Cardinality(c.ready) >= c.size =>
               /\ e \in Batch
               /\ c.ready \subseteq Page(b.from) \ (OfKind(kind, "own") \cup OfKind(kind, "friend"))
      BY <1>1, <2>1, ReadyOk, ZenonT(30)
    <3>2. b.phase = "open"
      BY <1>1, <2>1 DEF BatchOk
    <3> HIDE DEF c
    <3>3. e \in Batch => e.phase = "done"
      BY <3>1 DEF Batch
    <3> HIDE DEF e
    <3> QED BY <3>1, <3>2, <3>3
  <2> HIDE DEF e
  <2>3. CASE Cardinality(c.ready) < c.size /\ Update(i, c) /\ UNCHANGED <<list, cursor>>
    <3> HIDE DEF c
    <3> QED BY <2>1, <2>2, <2>3, AloneUpdate
  <2>4. CASE /\ Cardinality(c.ready) >= c.size /\ Update(i, e)
             /\ list' = list \o InOrder(c.ready) /\ cursor' = Last(Page(b.from))
    <3> HIDE DEF c
    <3>1. c.ready \in SUBSET Page(b.from) /\ Page(b.from) # {}
      BY <2>2, <2>4
    <3> QED BY <2>1, <2>2, <2>4, <3>1, AloneListed
  <2> QED BY <2>1, <2>3, <2>4
<1> QED BY <1>2, <1>3, <1>4 DEF Answer, SnapshotIos

\* The scroll listener asks once the page is listed, and waits; the friend list
\* it reads asks for the page.
LEMMA AloneAsk ==
  ASSUME MatchInv, Alone,
         FriendListRead \/ \E lastVisible \in -1 .. Len(list) - 1 : Scroll(lastVisible)
  PROVE  Alone'
<1>1. /\ batches \in Seq(Batch) /\ Len(batches) \in Nat /\ asking \in Nat /\ cursor \in 0 .. N
  BY DEF MatchInv, Typed
<1>2. ASSUME NEW lastVisible, Scroll(lastVisible) PROVE Alone'
  <2>1. /\ UNCHANGED <<cursor, batches, list>>
        /\ \/ loading /\ ~(Len(list) > total) /\ UNCHANGED <<asking, loading, total>>
           \/ /\ ~loading \/ Len(list) > total
              /\ total' = IF loading THEN Len(list) ELSE total
              /\ \/ loading' /\ asking' = asking + 1
                 \/ ~loading' /\ asking' = asking
    BY <1>2 DEF Scroll
  <2>2. Len(list) \in Nat /\ total \in 0 .. Len(list)
    BY DEF MatchInv, Typed
  <2>3. CASE UNCHANGED <<asking, loading, total>>
    BY <2>1, <2>3 DEF Alone
  <2>4. CASE ~loading \/ Len(list) > total
    <3>1. asking = 0 /\ \A i \in 1 .. Len(batches) : batches[i].phase = "done"
      BY <1>1, <2>2, <2>4 DEF Alone
    <3>2. loading' \in BOOLEAN
      BY <1>2 DEF Scroll
    <3>3. total' = Len(list) /\ ((asking' = asking + 1 /\ loading') \/ asking' = asking)
      BY <2>1, <2>2, <2>4 DEF Alone
    <3>4. asking' <= 1 /\ (~loading' => asking' = 0)
      BY <2>1, <2>2, <2>4, <3>1, <3>2
    <3> QED BY <2>1, <3>1, <3>3, <3>4 DEF Alone
  <2> QED BY <2>1, <2>3, <2>4
<1>3. CASE FriendListRead
  <2>1. /\ asking > 0 /\ asking' = asking - 1 /\ batches' = Append(batches, Asked(cursor, Known))
        /\ UNCHANGED <<cursor, list, total, loading>>
    BY <1>3 DEF FriendListRead
  <2>2. Asked(cursor, Known).from = cursor /\ Asked(cursor, Known).phase = "asked"
    BY DEF Asked
  <2>3. /\ asking = 1 /\ total = Len(list) /\ loading
        /\ \A i \in 1 .. Len(batches) : batches[i].phase = "done"
    BY <1>1, <2>1 DEF Alone
  <2>4. /\ Len(batches') = Len(batches) + 1 /\ batches'[Len(batches) + 1] = Asked(cursor, Known)
        /\ \A j \in 1 .. Len(batches') : j \in 1 .. Len(batches) \/ j = Len(batches) + 1
        /\ \A j \in 1 .. Len(batches) : batches'[j] = batches[j]
    BY <1>1, <2>1
  <2>5. \A j \in 1 .. Len(batches') : batches'[j].phase = "done" \/ j = Len(batches) + 1
    BY <2>3, <2>4
  <2>6. asking' = 0
    BY <2>1, <2>3
  <2> HIDE DEF Asked
  <2> QED BY <2>1, <2>2, <2>3, <2>4, <2>5, <2>6 DEF Alone
<1> QED BY <1>2, <1>3

\* The first page of Android is asked for once the friend list is read.
LEMMA InitAlone == Init => OneAtATime
<1> SUFFICES ASSUME Init PROVE OneAtATime
  OBVIOUS
<1>1. loading /\ list = << >> /\ total = 0 /\ cursor = 0
  BY DEF Init
<1>2. ASSUME app = "android" PROVE Alone
  <2>1. asking = 1 /\ batches = << >>
    BY <1>2 DEF Init
  <2> QED BY <1>1, <2>1 DEF Alone
<1> QED BY <1>1, <1>2 DEF OneAtATime

\* Every step keeps it, while the friend list stays as it is.
LEMMA NextAlone == MatchInv /\ OneAtATime /\ [Next]_vars => OneAtATime'
<1> SUFFICES ASSUME MatchInv, OneAtATime, [Next]_vars PROVE OneAtATime'
  OBVIOUS
<1>1. CASE FriendListRead \/ \E lastVisible \in -1 .. Len(list) - 1 : Scroll(lastVisible)
  <2>1. app' = app /\ changes' = changes
    BY <1>1 DEF Scroll, FriendListRead
  <2> QED BY <1>1, <2>1, AloneAsk DEF OneAtATime
<1>2. ASSUME NEW i \in 1 .. Len(batches), Answer(i) PROVE OneAtATime'
  <2>1. app' = app /\ changes' = changes
    BY <1>2 DEF Answer, SnapshotIos, PageRead, AnswerFriending, OwnerRead, androidOnly
  <2> QED BY <1>2, <2>1, AloneAnswer DEF OneAtATime
<1>3. ASSUME NEW d \in Pets, FriendListChanges(d) PROVE OneAtATime'
  <2>1. changes' # 0
    <3>1. changes \in 0 .. MaxChanges /\ changes' = changes + 1
      BY <1>3 DEF FriendListChanges, MatchInv, Typed
    <3> QED BY <3>1, Bounds
  <2> QED BY <2>1 DEF OneAtATime
<1>4. CASE WillDisplay
  BY <1>4 DEF WillDisplay, OneAtATime
<1>5. ASSUME NEW i \in 1 .. Len(batches), PageChanged(i) PROVE OneAtATime'
  BY <1>5 DEF PageChanged, OneAtATime
<1>6. CASE UNCHANGED vars
  BY <1>6 DEF vars, OneAtATime, Alone
<1> QED BY <1>1, <1>2, <1>3, <1>4, <1>5, <1>6 DEF Next

\* A list that holds no pet twice is as long as its set of pets.
LEMMA AloneListsOnce == MatchInv /\ OneAtATime => AndroidNoDuplicates
<1> SUFFICES ASSUME MatchInv, OneAtATime, app = "android", changes = 0
             PROVE  Cardinality(Listed) = Len(list)
  BY DEF AndroidNoDuplicates
<1>1. /\ Len(list) \in Nat
      /\ \A k, l \in 1 .. Len(list) : list[k] = list[l] => k = l
  BY DEF MatchInv, Typed, OneAtATime, Alone
<1> QED BY <1>1, DistinctCount DEF Listed

\* While the friend list stays as it is, Android lists no pet twice, however
\* long the owner scrolls.
THEOREM AndroidListsOnce == Spec => []AndroidNoDuplicates
<1>1. Spec => []OneAtATime
  BY InitAlone, NextAlone, MatchAlways, PTL DEF Spec
<1> QED BY <1>1, AloneListsOnce, MatchAlways, PTL

=============================================================================
