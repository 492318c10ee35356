------------------------------ MODULE Matching ------------------------------
(***************************************************************************)
(* The list of best matches: pets are downloaded page by page, the owner's *)
(* own pets and known ones are left out, and a page joins the list when    *)
(* the last of its owners has been downloaded.  MatchBestVC does it on     *)
(* iOS, MatchingProfileDownloader with EndlessRecyclerViewScrollListener   *)
(* on Android.                                                             *)
(*                                                                         *)
(* The pets are the documents 1 .. N of "pets" in the order of the query,  *)
(* and a page is the next Limit of them after the cursor.  Match scores    *)
(* only order the pets within a page: the model keeps document order.      *)
(***************************************************************************)
EXTENDS Naturals, Integers, Sequences, FiniteSets

CONSTANTS
  N,            \* pets in the collection
  Limit,        \* downloadLimit
  Threshold,    \* visibleThreshold
  MaxBatches,   \* bound: pages asked for in a run
  MaxChanges    \* bound: changes a listener reports

ASSUME MatchingAssumption ==
  /\ {N, MaxChanges} \subseteq Nat
  /\ {Limit, Threshold, MaxBatches} \subseteq Nat \ {0}

VARIABLES
  app,          \* the app the owner runs
  kind,         \* kind[d]: what pet d is to the owner
  cursor,       \* query: the pets after this one are next
  batches,      \* the pages asked for
  asking,       \* Android: reads of the friend list under way
  listeners,    \* Android: friend list listeners, which nothing removes
  list,         \* element / profiles: the pets shown
  loading,      \* Android: the scroll listener waits for a page
  total,        \* Android: previousTotalItemCount
  changes       \* changes reported so far

vars == <<app, kind, cursor, batches, asking, listeners, list, loading, total, changes>>
androidOnly == <<asking, listeners, loading, total>>

Pets == 1 .. N
Kind(k) == {d \in Pets : kind[d] = k}
\* "added", "removed": a pet whose record came, or went, while the list is open.
Known == Kind("friend") \cup Kind("added")

Page(from) == {d \in Pets : from < d /\ d <= from + Limit}
Last(S) == CHOOSE d \in S : \A x \in S : x <= d
InOrder(S) == [i \in 1 .. Cardinality(S) |-> CHOOSE d \in S : Cardinality({x \in S : x < d}) = i - 1]

\* checks: isFriending not answered; owners: owner not downloaded; ready: toSort
\* / profiles; size: how many ready pets complete the page; skip: the friend
\* list the page is filtered by (Android).
Batch == [from : 0 .. N, phase : {"asked", "open", "done"}, skip : SUBSET Pets,
          checks : SUBSET Pets, owners : SUBSET Pets, ready : SUBSET Pets, size : 0 .. Limit]
Asked(from, skip) == [from |-> from, phase |-> "asked", skip |-> skip,
                      checks |-> {}, owners |-> {}, ready |-> {}, size |-> 0]

TypeOK ==
  /\ app \in {"ios", "android"}
  /\ kind \in [Pets -> {"own", "friend", "added", "removed", "other"}]
  /\ cursor \in 0 .. N
  /\ batches \in Seq(Batch) /\ Len(batches) <= MaxBatches
  /\ asking \in 0 .. MaxBatches /\ listeners \in 0 .. MaxBatches
  /\ list \in Seq(Pets)
  /\ loading \in BOOLEAN /\ total \in 0 .. Len(list)
  /\ changes \in 0 .. MaxChanges
  \* What a page waits for is never more than it still lacks.
  /\ \A i \in 1 .. Len(batches) :
       LET b == batches[i] IN b.phase = "open" =>
         Cardinality(b.owners \cup b.ready) + Cardinality(b.checks) <= b.size

Init ==
  /\ app \in {"ios", "android"}
  /\ kind \in [Pets -> {"own", "friend", "other"}]
  /\ cursor = 0
  /\ batches = IF app = "ios" THEN << Asked(0, {}) >> ELSE << >>
  /\ asking = IF app = "ios" THEN 0 ELSE 1
  /\ listeners = 0
  /\ list = << >>
  /\ loading = TRUE
  /\ total = 0
  /\ changes = 0

CanAsk(n) == Len(batches) + asking + n <= MaxBatches
Update(i, b) == batches' = [batches EXCEPT ![i] = b]

----------------------------------------------------------------------------
(* iOS *)

\* willDisplay: the row n / 2 of the (n + 1) / 2 rows asks for the next page,
\* with a listener on the query; nothing remembers that one is under way.
WillDisplay ==
  /\ app = "ios"
  /\ \E row \in 0 .. ((Len(list) + 1) \div 2) - 1 : row = Len(list) \div 2
  /\ CanAsk(1)
  /\ batches' = Append(batches, Asked(cursor, {}))
  /\ UNCHANGED <<app, kind, cursor, androidOnly, list, changes>>

\* A pet of a page changes: its listener reports the page again.
PageChanged(i) ==
  /\ app = "ios"
  /\ batches[i].phase # "asked"
  /\ changes < MaxChanges
  /\ changes' = changes + 1
  /\ CanAsk(1)
  /\ batches' = Append(batches, Asked(batches[i].from, {}))
  /\ UNCHANGED <<app, kind, cursor, androidOnly, list>>

\* The snapshot: own pets are counted out, the others are checked for being
\* friends; an empty page ends it.
SnapshotIos(i) ==
  LET page == Page(batches[i].from)
      others == page \ Kind("own")
  IN  /\ app = "ios"
      /\ batches[i].phase = "asked"
      /\ Update(i, IF page = {} THEN [batches[i] EXCEPT !.phase = "done"]
                   ELSE [batches[i] EXCEPT !.phase = "open", !.checks = others,
                                           !.size = Cardinality(others)])
      /\ UNCHANGED <<app, kind, cursor, androidOnly, list, changes>>

\* Mutant: every answered pet is counted out.
AnswerFriendingAll(i, d) ==
  /\ d \in batches[i].checks
  /\ Update(i, [batches[i] EXCEPT !.checks = @ \ {d}, !.size = @ - 1,
                                  !.owners = IF d \in Known THEN @ ELSE @ \cup {d}])
  /\ UNCHANGED <<app, kind, cursor, androidOnly, list, changes>>

\* isFriending: a friend is counted out, for another pet the owner is read.
AnswerFriending(i, d) ==
  LET b == [batches[i] EXCEPT !.checks = @ \ {d}]
  IN  /\ d \in batches[i].checks
      /\ Update(i, IF d \in Known THEN [b EXCEPT !.size = @ - 1]
                   ELSE [b EXCEPT !.owners = @ \cup {d}])
      /\ UNCHANGED <<app, kind, cursor, androidOnly, list, changes>>

----------------------------------------------------------------------------
(* Android *)

\* Mutant: an owner without records is not called back.
FriendListReadIfAny ==
  /\ asking > 0
  /\ asking' = asking - 1
  /\ listeners' = IF Known = {} THEN listeners ELSE listeners + 1
  /\ batches' = IF Known = {} THEN batches ELSE Append(batches, Asked(cursor, Known))
  /\ UNCHANGED <<app, kind, cursor, list, loading, total, changes>>

\* listenToFriendList: with any record the listener is attached and reports.
FriendListRead ==
  /\ asking > 0
  /\ asking' = asking - 1
  /\ listeners' = IF Known = {} THEN listeners ELSE listeners + 1
  /\ batches' = Append(batches, Asked(cursor, Known))
  /\ UNCHANGED <<app, kind, cursor, list, loading, total, changes>>

\* A record of pet d is added, changed or removed: every listener puts it in the
\* friend list or takes it out, and asks for a page again, after the cursor.  On
\* iOS nothing listens.
FriendListChanges(d) ==
  /\ kind[d] # "own"
  /\ changes < MaxChanges
  /\ changes' = changes + 1
  /\ CanAsk(listeners)
  /\ \E k \in IF d \in Known THEN {kind[d], "removed"} ELSE {"added"} :
       LET known == IF k = "removed" THEN Known \ {d} ELSE Known \cup {d}
       IN  /\ kind' = [kind EXCEPT ![d] = k]
           /\ batches' = batches \o [i \in 1 .. listeners |-> Asked(cursor, known)]
  /\ UNCHANGED <<app, cursor, androidOnly, list>>

\* Mutant: the friend list is not looked at.
ValidAll(i) == Page(batches[i].from) \ Kind("own")

\* valid_document.
Valid(i) == Page(batches[i].from) \ (Kind("own") \cup batches[i].skip)

PageRead(i) ==
  /\ app = "android"
  /\ batches[i].phase = "asked"
  /\ Update(i, IF Page(batches[i].from) = {} THEN [batches[i] EXCEPT !.phase = "done"]
               ELSE [batches[i] EXCEPT !.phase = "open", !.owners = Valid(i),
                                       !.size = Cardinality(Valid(i))])
  /\ UNCHANGED <<app, kind, cursor, androidOnly, list, changes>>

\* Mutant: the scroll listener does not wait for the page.
ScrollEager(lastVisible) ==
  /\ app = "android"
  /\ lastVisible + Threshold > Len(list)
  /\ CanAsk(1)
  /\ asking' = asking + 1
  /\ UNCHANGED <<app, kind, cursor, batches, listeners, list, changes, loading, total>>

\* onScrolled: a longer list ends the wait; with none, a list scrolled near its
\* end asks for more and waits again.
Scroll(lastVisible) ==
  LET grown == loading /\ Len(list) > total
      waits == loading /\ ~grown
      asks == ~waits /\ lastVisible + Threshold > Len(list)
  IN  /\ app = "android"
      /\ asks => CanAsk(1)
      /\ asking' = IF asks THEN asking + 1 ELSE asking
      /\ loading' = (waits \/ asks)
      /\ total' = IF grown THEN Len(list) ELSE total
      /\ UNCHANGED <<app, kind, cursor, batches, listeners, list, changes>>

----------------------------------------------------------------------------
(* Both *)

\* Mutant: the first pet completes the page.
CompletesEarly(b) == b.ready # {}

\* Is the page complete, now that a pet is ready?
Completes(b) ==
  IF app = "ios" THEN Cardinality(b.ready) = b.size ELSE Cardinality(b.ready) >= b.size

\* An owner is downloaded.  The pet that makes the page complete sorts it,
\* appends it and moves the query past it.
OwnerRead(i, d) ==
  LET b == [batches[i] EXCEPT !.owners = @ \ {d}, !.ready = @ \cup {d}]
  IN  /\ d \in batches[i].owners
      /\ IF Completes(b)
         THEN /\ Update(i, [b EXCEPT !.phase = "done"])
              /\ list' = list \o InOrder(b.ready)
              /\ cursor' = Last(Page(b.from))
         ELSE Update(i, b) /\ UNCHANGED <<list, cursor>>
      /\ UNCHANGED <<app, kind, androidOnly, changes>>

Answer(i) ==
  \/ SnapshotIos(i) \/ PageRead(i)
  \/ \E d \in Pets : AnswerFriending(i, d) \/ OwnerRead(i, d)

Next ==
  \/ WillDisplay \/ FriendListRead
  \/ \E lastVisible \in -1 .. Len(list) - 1 : Scroll(lastVisible)
  \/ \E i \in 1 .. Len(batches) : PageChanged(i) \/ Answer(i)
  \/ \E d \in Pets : FriendListChanges(d)

Spec == Init /\ [][Next]_vars

\* Reads are answered; and the owner scrolls on, to the end of the list.
ScrollingSpec ==
  /\ Spec
  /\ WF_vars(FriendListRead) /\ WF_vars(Scroll(Len(list) - 1))
  /\ \A i \in 1 .. MaxBatches : WF_vars(i \in 1 .. Len(batches) /\ Answer(i))

----------------------------------------------------------------------------
(* Properties *)

Listed == {list[k] : k \in 1 .. Len(list)}

\* "Skip your own pet", "Skip your friend" (MatchBestVC.swift:73, :79): they are
\* never listed, however late the friend checks and the friend list come.
SkipsOwnAndFriends == Listed \cap (Kind("own") \cup Kind("friend")) = {}

\* The query never runs ahead of the list: every candidate before the cursor is
\* listed, whatever order owners and checks are answered in, whatever records
\* come and go and however many listeners ask for the same page again
\* (downloadMore's toSort.didSet, onItemRangeInserted).  A candidate is a pet
\* that had no record all the while: one whose record is removed after its page
\* (PetProfile.java:304) is not listed, for nothing asks for that page again.
NoGap == \A d \in Pets : d <= cursor /\ kind[d] = "other" => d \in Listed

\* While the friend list stays as it is, Android lists no pet twice: the scroll
\* listener asks for one page at a time.
AndroidNoDuplicates ==
  app = "android" /\ changes = 0 => Cardinality(Listed) = Len(list)

\* With a candidate on every page, an Android owner who scrolls on sees all.
EveryPageHasCandidate ==
  \A p \in 0 .. N \div Limit : Page(p * Limit) # {} => Page(p * Limit) \cap Kind("other") # {}
AndroidListsAll ==
  app = "android" /\ EveryPageHasCandidate =>
    <>(changes > 0 \/ Kind("other") \subseteq Listed)

\* "Skip your friend" (MatchBestVC.swift:79): a page with candidates whose
\* checks and owners are all answered is listed without the friends.
PageSettles ==
  \A i \in 1 .. Len(batches) :
    LET b == batches[i]
    IN  app = "ios" /\ b.checks = {} /\ b.owners = {} /\ b.ready # {} => b.phase = "done"

=============================================================================
