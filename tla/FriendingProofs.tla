--------------------------- MODULE FriendingProofs ---------------------------
(***************************************************************************)
(* Type correctness of Friending, the agreement of keys, and that crossing *)
(* requests between iOS apps do not leave both sides waiting: for every    *)
(* set of pets and every bound on requests, answers and faults.  Then,     *)
(* where no owner rejects, that a request has its room, that an acceptance *)
(* finds it, and that the records of a pair come and stay together; for    *)
(* iOS owners who wait for the check, that friendship is mutual and final, *)
(* and, where one pet asks, that friends can talk.  Last, for one request  *)
(* between any two apps, with owners who may reject, that the records of   *)
(* the pair stay together, and friendship is mutual, final and can talk.   *)
(***************************************************************************)
EXTENDS Friending, CommonProofs, SequenceTheorems

(***************************************************************************)
(* The two kinds of documents do not overlap, and an edge has its own.     *)
(***************************************************************************)
LEMMA DocTypes ==
  ASSUME NEW p \in Pet, NEW q \in Pet, p # q
  PROVE  /\ FriendDoc(p, q) \in FriendDocs
         /\ RoomDoc(p, q) \in RoomDocs
         /\ FriendDoc(p, q) \in Doc
         /\ RoomDoc(p, q) \in Doc
         /\ <<p, q>> \in Edge
<1>1. <<p, q>> \in Edge
  BY DEF Edge
<1>2. <<p, q>>[1] = p /\ <<p, q>>[2] = q
  OBVIOUS
<1>3. FriendDoc(p, q) \in FriendDocs /\ RoomDoc(p, q) \in RoomDocs
  BY <1>1, <1>2, Zenon DEF FriendDocs, RoomDocs
<1> QED BY <1>1, <1>3 DEF Doc

\* A document is a friend record or a room, not both.
LEMMA KindsDiffer == FriendDocs \cap RoomDocs = {}
  BY DEF FriendDocs, RoomDocs, FriendDoc, RoomDoc

\* The value of a queued write fits its document.
LEMMA WriteFits ==
  ASSUME NEW w \in Write
  PROVE  /\ w.doc \in Doc
         /\ w.val \in DocValue(w.doc)
         /\ w.peer \in Pet
  BY KindsDiffer DEF Write, DocValue, Doc

\* The writes the handlers queue fit Write, for any value of the document.
LEMMA PutTypes ==
  ASSUME NEW p \in Pet, NEW q \in Pet, p # q, NEW x \in Pet
  PROVE  /\ \A v \in {Absent} \cup Status :
               /\ PutThen(FriendDoc(p, q), v, x, "receiver") \in Write
               /\ Put(FriendDoc(p, q), v, x) \in Write
         /\ \A v \in {Absent} \cup Room :
               /\ \A a \in {NoAck, "openChat"} : PutThen(RoomDoc(p, q), v, x, a) \in Write
               /\ Put(RoomDoc(p, q), v, x) \in Write
  BY DocTypes DEF PutThen, Put, Write

\* What an app reads in a document fits the document.
LEMMA SeesFits ==
  ASSUME TypeOK, NEW p \in Pet, NEW d \in Doc
  PROVE  Sees(p, d) \in DocValue(d)
<1>1. queue[p] \in Seq(Write) /\ Len(queue[p]) \in Nat
  BY DEF TypeOK
<1>2. \A i \in 1 .. Len(queue[p]) : queue[p][i] \in Write
  BY <1>1
<1>3. db[d] \in DocValue(d)
  BY DEF TypeOK
<1>4. \A i \in 1 .. Len(queue[p]) : queue[p][i].doc = d => queue[p][i].val \in DocValue(d)
  BY <1>2, WriteFits
<1> QED BY <1>1, <1>3, <1>4, ViewIsServerOrPending DEF Sees

\* What an app reads in a room is a room, and in a record a status.
LEMMA SeesRoom ==
  ASSUME TypeOK, NEW p \in Pet, NEW q \in Pet, p # q
  PROVE  /\ Sees(p, RoomDoc(p, q)) \in {Absent} \cup Room
         /\ Sees(p, FriendDoc(p, q)) \in {Absent} \cup Status
  BY SeesFits, DocTypes, KindsDiffer DEF DocValue

\* Queueing writes keeps the queues queues of writes.
LEMMA EnqueueType ==
  ASSUME TypeOK, NEW p \in Pet, NEW ws \in Seq(Write), Enqueue(p, ws)
  PROVE  queue' \in [Pet -> Seq(Write)]
<1>1. queue[p] \o ws \in Seq(Write)
  BY ConcatProperties DEF TypeOK
<1> QED BY <1>1 DEF TypeOK, Enqueue

\* Issuing reads keeps the sets of reads.
LEMMA IssueType ==
  ASSUME TypeOK, NEW p \in Pet, NEW rs \in SUBSET [kind : ReadKind, peer : Pet], Issue(p, rs)
  PROVE  reads' \in [Pet -> SUBSET [kind : ReadKind, peer : Pet]]
  BY DEF TypeOK, Issue

\* An app that stops leaves its queue and its screens well typed.
LEMMA StopAppType ==
  ASSUME TypeOK, NEW p \in Pet, StopApp(p)
  PROVE  /\ queue' \in [Pet -> Seq(Write)]
         /\ reads' \in [Pet -> SUBSET [kind : ReadKind, peer : Pet]]
         /\ row' \in [Edge -> {"none", "receiving", "answered", "friending"}]
         /\ button' \in [Edge -> {"closed", "unchecked", "enabled", "disabled"}]
         /\ session' \in [Edge -> Key \cup {NoKey}]
<1>1. queue[p] \in Seq(Write) /\ Len(queue[p]) \in Nat
  BY DEF TypeOK
<1>2. \A i \in 1 .. Len(queue[p]) : [queue[p][i] EXCEPT !.ack = NoAck] \in Write
  <2> TAKE i \in 1 .. Len(queue[p])
  <2>1. queue[p][i] \in Write
    BY <1>1
  <2> QED BY <2>1 DEF Write
<1>3. WithoutAcks(queue[p]) \in Seq(Write)
  <2> DEFINE k == WithoutAcks(queue[p])
  <2>1. k = [i \in 1 .. Len(queue[p]) |-> [queue[p][i] EXCEPT !.ack = NoAck]]
    BY DEF WithoutAcks
  <2> HIDE DEF k
  <2>2. k \in [1 .. Len(queue[p]) -> Write]
    BY <1>2, <2>1
  <2> QED BY <1>1, <2>2, FunctionIsSequence DEF k
<1>4. queue' \in [Pet -> Seq(Write)]
  BY <1>3 DEF TypeOK, StopApp
<1> QED BY <1>4 DEF TypeOK, StopApp

\* generateSenderData and acceptFriend make rooms.
LEMMA RoomTypes ==
  /\ \A n \in Nat, p \in Pet : OfferedRoom(n, p) \in Room
  /\ \A r \in Room, p \in Pet : AcceptedRoom(r, p) \in Room
<1>1. ASSUME NEW n \in Nat, NEW p \in Pet PROVE OfferedRoom(n, p) \in Room
  BY DEF OfferedRoom, Room, Public, PublicNumber
<1>2. ASSUME NEW r \in Room, NEW p \in Pet PROVE AcceptedRoom(r, p) \in Room
  <2>1. Public(r.params, p) \in PublicNumber
    BY DEF Room, Public, PublicNumber
  <2> QED BY <2>1 DEF AcceptedRoom, Room
<1> QED BY <1>1, <1>2

\* With no document, no write and no window everything has its type.
LEMMA TypeInit == Init => TypeOK
  BY PetsAssumption, BoundsAssumption DEF Init, TypeOK, DocValue

\* The presses of buttons (addFriend, acceptFriend, rejectFriend and their
\* Android counterparts) keep the types.
LEMMA TypeUser ==
  ASSUME TypeOK, NEW p \in Pet, NEW q \in Pet, p # q, User(p, q)
  PROVE  TypeOK'
<1>e. <<p, q>> \in Edge
  BY DocTypes
<1>n. MaxAdds \in Nat /\ MaxAnswers \in Nat
  BY BoundsAssumption
<1>1. CASE OpenDetail(p, q)
  <2>1. (IF p \in Ios THEN {Read("check", q)} ELSE {}) \in SUBSET [kind : ReadKind, peer : Pet]
    BY DEF ReadKind, Read
  <2>2. reads' \in [Pet -> SUBSET [kind : ReadKind, peer : Pet]]
    BY <1>1, <2>1, IssueType DEF OpenDetail
  <2> QED BY <1>1, <1>e, <2>2 DEF OpenDetail, TypeOK
<1>2. CASE CloseDetail(p, q)
  BY <1>2, <1>e DEF CloseDetail, TypeOK
<1>3. CASE AddIos(p, q)
  <2> DEFINE ws == RequestIos(adds + 1, p, q)
  <2>1. adds + 1 \in Nat /\ adds + 1 \in 0 .. MaxAdds
    BY <1>3, <1>n DEF AddIos, TypeOK
  <2>2. ws \in Seq(Write)
    BY <2>1, RoomTypes, PutTypes DEF Status, RequestIos
  <2> HIDE DEF ws
  <2>3. queue' \in [Pet -> Seq(Write)]
    BY <1>3, <2>2, EnqueueType DEF AddIos, ws
  <2> QED BY <1>3, <1>e, <2>1, <2>3 DEF AddIos, TypeOK
<1>4. CASE AddAndroid(p, q)
  <2> DEFINE ws == << Put(RoomDoc(p, q), OfferedRoom(adds + 1, p), q),
                      PutThen(FriendDoc(p, q), "sending", q, "receiver") >>
  <2>1. adds + 1 \in Nat /\ adds + 1 \in 0 .. MaxAdds
    BY <1>4, <1>n DEF AddAndroid, TypeOK
  <2>2. ws \in Seq(Write)
    BY <2>1, RoomTypes, PutTypes DEF Status
  <2>3. queue' \in [Pet -> Seq(Write)]
    BY <1>4, <2>2, EnqueueType DEF AddAndroid
  <2> QED BY <1>4, <1>e, <2>1, <2>3 DEF AddAndroid, TypeOK
<1>5. ASSUME CanAnswer(p, q)
      PROVE  answers' \in [Pet -> 0 .. MaxAnswers]
  BY <1>5, <1>n DEF CanAnswer, TypeOK
<1>6. CASE AcceptIos(p, q)
  <2> DEFINE ws == << Put(FriendDoc(p, q), "friending", q),
                      Put(FriendDoc(q, p), "friending", q) >>
  <2>1. ws \in Seq(Write)
    BY PutTypes DEF Status
  <2>2. queue' \in [Pet -> Seq(Write)]
    BY <1>6, <2>1, EnqueueType DEF AcceptIos
  <2>3. {Read("accept", q)} \in SUBSET [kind : ReadKind, peer : Pet]
    BY DEF ReadKind, Read
  <2>4. reads' \in [Pet -> SUBSET [kind : ReadKind, peer : Pet]]
    BY <1>6, <2>3, IssueType DEF AcceptIos
  <2> QED BY <1>5, <1>6, <2>2, <2>4 DEF AcceptIos, TypeOK, screens
<1>7. CASE AcceptAndroid(p, q)
  <2> DEFINE ws == << PutThen(FriendDoc(q, p), "friending", q, "receiver") >>
  <2>1. ws \in Seq(Write)
    BY PutTypes DEF Status
  <2>2. queue' \in [Pet -> Seq(Write)]
    BY <1>7, <2>1, EnqueueType DEF AcceptAndroid
  <2>3. {Read("accept", q)} \in SUBSET [kind : ReadKind, peer : Pet]
    BY DEF ReadKind, Read
  <2>4. reads' \in [Pet -> SUBSET [kind : ReadKind, peer : Pet]]
    BY <1>7, <2>3, IssueType DEF AcceptAndroid
  <2> QED BY <1>5, <1>7, <1>e, <2>2, <2>4 DEF AcceptAndroid, TypeOK
<1>8. CASE RejectIos(p, q)
  <2> DEFINE ws == << Put(RoomDoc(p, q), Absent, q),
                      Put(FriendDoc(p, q), Absent, q),
                      Put(FriendDoc(q, p), Absent, q) >>
  <2>1. ws \in Seq(Write)
    BY PutTypes
  <2>2. queue' \in [Pet -> Seq(Write)]
    BY <1>8, <2>1, EnqueueType DEF RejectIos
  <2> QED BY <1>5, <1>8, <2>2 DEF RejectIos, TypeOK, screens
<1>9. CASE RejectAndroid(p, q)
  <2>1. {Read("delete1", q)} \in SUBSET [kind : ReadKind, peer : Pet]
    BY DEF ReadKind, Read
  <2>2. reads' \in [Pet -> SUBSET [kind : ReadKind, peer : Pet]]
    BY <1>9, <2>1, IssueType DEF RejectAndroid
  <2> QED BY <1>5, <1>9, <2>2 DEF RejectAndroid, TypeOK, screens
<1>10. CASE OpenChat(p, q)
  <2>1. {Read("chat", q)} \in SUBSET [kind : ReadKind, peer : Pet]
    BY DEF ReadKind, Read
  <2>2. reads' \in [Pet -> SUBSET [kind : ReadKind, peer : Pet]]
    BY <1>10, <2>1, IssueType DEF OpenChat
  <2> QED BY <1>10, <2>2 DEF OpenChat, TypeOK, screens
<1> QED BY <1>1, <1>2, <1>3, <1>4, <1>6, <1>7, <1>8, <1>9, <1>10 DEF User

\* The completions of reads and the list listener keep the types.
LEMMA TypeCallback ==
  ASSUME TypeOK, NEW p \in Pet, NEW q \in Pet, p # q, Callback(p, q)
  PROVE  TypeOK'
<1>e. <<p, q>> \in Edge
  BY DocTypes
<1>1. CASE AnswerCheck(p, q)
  BY <1>1, <1>e DEF AnswerCheck, TypeOK
<1>2. CASE AnswerAccept(p, q)
  <2> DEFINE room == Sees(p, RoomDoc(p, q))
             ack == IF p \in Ios THEN "openChat" ELSE NoAck
             ws == << PutThen(RoomDoc(p, q), AcceptedRoom(room, p), q, ack) >>
  <2>1. CASE room = Absent
    BY <1>2, <2>1 DEF AnswerAccept, TypeOK, screens
  <2>2. CASE room # Absent
    <3>1. AcceptedRoom(room, p) \in Room
      BY <2>2, SeesRoom, RoomTypes
    <3>2. ws \in Seq(Write)
      BY <3>1, PutTypes
    <3>3. queue' \in [Pet -> Seq(Write)]
      BY <1>2, <2>2, <3>2, EnqueueType DEF AnswerAccept
    <3> QED BY <1>2, <3>3 DEF AnswerAccept, TypeOK, screens
  <2> QED BY <2>1, <2>2
<1>3. CASE AnswerDelete(p, q)
  <2>1. ASSUME NEW kind, NEW doc \in Doc, NEW next \in SUBSET [kind : ReadKind, peer : Pet],
               DeleteLink(p, q, kind, doc, next)
        PROVE  TypeOK'
    <3>1. Put(doc, Absent, q) \in Write
      BY DEF Put, Write, Doc
    <3>2. << Put(doc, Absent, q) >> \in Seq(Write)
      BY <3>1
    <3>3. queue' \in [Pet -> Seq(Write)]
      BY <2>1, <3>2, EnqueueType DEF DeleteLink, TypeOK
    <3>4. reads' \in [Pet -> SUBSET [kind : ReadKind, peer : Pet]]
      <4> DEFINE R == SUBSET [kind : ReadKind, peer : Pet]
      <4>1. reads \in [Pet -> R]
        BY DEF TypeOK
      <4>2. reads[p] \ {Read(kind, q)} \in R /\ (reads[p] \ {Read(kind, q)}) \cup next \in R
        BY <4>1
      <4>3. \/ reads' = [reads EXCEPT ![p] = reads[p] \ {Read(kind, q)}]
            \/ reads' = [reads EXCEPT ![p] = (reads[p] \ {Read(kind, q)}) \cup next]
        BY <2>1 DEF DeleteLink
      <4> HIDE DEF R
      <4>4. reads' \in [Pet -> R]
        BY <4>1, <4>2, <4>3
      <4> QED BY <4>4 DEF R
    <3> QED BY <2>1, <3>3, <3>4 DEF DeleteLink, TypeOK, screens
  <2>2. FriendDoc(q, p) \in Doc /\ FriendDoc(p, q) \in Doc /\ RoomDoc(p, q) \in Doc
    BY DocTypes
  <2>3. /\ {Read("delete2", q)} \in SUBSET [kind : ReadKind, peer : Pet]
        /\ {Read("delete3", q)} \in SUBSET [kind : ReadKind, peer : Pet]
        /\ {} \in SUBSET [kind : ReadKind, peer : Pet]
    BY DEF Read, ReadKind
  <2> QED BY <1>3, <2>1, <2>2, <2>3 DEF AnswerDelete
<1>4. CASE ChatOpens(p, q)
  <2> DEFINE room == Sees(p, RoomDoc(p, q))
  <2>1. room # Absent => SharedKey(room.params, room.pub[q], p) \in Key
    <3>1. SUFFICES ASSUME room # Absent PROVE SharedKey(room.params, room.pub[q], p) \in Key
      OBVIOUS
    <3>2. room \in Room /\ room.params \in Nat
      BY <3>1, SeesRoom DEF Room
    <3>3. room.pub[q] # Unknown
      BY <1>4, <3>1 DEF ChatOpens, Unreadable
    <3>4. room.pub[q] \in PublicNumber
      BY <3>2, <3>3 DEF Room
    <3> QED BY <3>2, <3>4 DEF SharedKey, Key, PublicNumber
  <2>2. session' \in [Edge -> Key \cup {NoKey}]
    BY <1>4, <1>e, <2>1 DEF ChatOpens, TypeOK
  <2> QED BY <1>4, <2>2 DEF ChatOpens, TypeOK
<1>5. CASE ChatCrashes(p, q)
  BY <1>5, StopAppType DEF ChatCrashes, TypeOK
<1>6. CASE ListChange(p, q)
  <2>1. (IF Listed(Sees(p, FriendDoc(p, q))) = "friending" THEN {Read("chat", q)} ELSE {})
          \in SUBSET [kind : ReadKind, peer : Pet]
    BY DEF ReadKind, Read
  <2>2. reads' \in [Pet -> SUBSET [kind : ReadKind, peer : Pet]]
    BY <1>6, <2>1, IssueType DEF ListChange
  <2> QED BY <1>6, <1>e, <2>2 DEF ListChange, Listed, TypeOK
<1> QED BY <1>1, <1>2, <1>3, <1>4, <1>5, <1>6 DEF Callback

\* Loading a list, applying a write and killing an app keep the types.
LEMMA TypeSystem ==
  ASSUME TypeOK, NEW p \in Pet, LoadList(p) \/ Flush(p) \/ Kill(p)
  PROVE  TypeOK'
<1>1. CASE LoadList(p)
  <2> DEFINE rs == {Read("chat", q) : q \in {x \in Pet \ {p} :
                                        Sees(p, FriendDoc(p, x)) = "friending"}}
  <2>1. rs \in SUBSET [kind : ReadKind, peer : Pet]
    BY DEF ReadKind, Read
  <2>2. reads' \in [Pet -> SUBSET [kind : ReadKind, peer : Pet]]
    BY <1>1, <2>1, IssueType DEF LoadList
  <2>3. row' \in [Edge -> {"none", "receiving", "answered", "friending"}]
    BY <1>1 DEF LoadList, Listed, TypeOK
  <2>4. session' \in [Edge -> Key \cup {NoKey}]
    BY <1>1 DEF LoadList, TypeOK
  <2> QED BY <1>1, <2>2, <2>3, <2>4 DEF LoadList, TypeOK
<1>2. CASE Flush(p)
  <2> DEFINE w == Head(queue[p])
             theOther == FriendDoc(w.doc.of[2], w.doc.of[1])
             code == IF w.val = "sending" THEN "receiving" ELSE "friending"
             more == IF w.ack = "receiver" THEN << Put(theOther, code, w.peer) >> ELSE << >>
             rs == IF w.ack = "openChat" THEN {Read("chat", w.peer)} ELSE {}
  <2>1. w \in Write /\ Tail(queue[p]) \in Seq(Write)
    BY <1>2 DEF Flush, TypeOK
  <2>2. w.doc \in Doc /\ w.val \in DocValue(w.doc) /\ w.peer \in Pet
    BY <2>1, WriteFits
  <2>3. more \in Seq(Write)
    <3>1. CASE w.ack = "receiver"
      <4>1. w.doc \in FriendDocs
        BY <2>1, <3>1 DEF Write, NoAck
      <4>2. PICK e \in Edge : w.doc = FriendDoc(e[1], e[2])
        BY <4>1 DEF FriendDocs
      <4>3. e[1] \in Pet /\ e[2] \in Pet /\ e[1] # e[2]
        BY DEF Edge
      <4>4. theOther = FriendDoc(e[2], e[1])
        BY <4>2 DEF FriendDoc
      <4>5. Put(theOther, code, w.peer) \in Write
        BY <2>2, <4>3, <4>4, PutTypes DEF Status
      <4> QED BY <3>1, <4>5
    <3>2. CASE w.ack # "receiver"
      BY <3>2
    <3> QED BY <3>1, <3>2
  <2>4. queue' \in [Pet -> Seq(Write)]
    <3>1. Tail(queue[p]) \o more \in Seq(Write)
      BY <2>1, <2>3, ConcatProperties
    <3>2. queue' = [queue EXCEPT ![p] = Tail(queue[p]) \o more]
      BY <1>2 DEF Flush
    <3> QED BY <3>1, <3>2 DEF TypeOK
  <2>5. reads' \in [Pet -> SUBSET [kind : ReadKind, peer : Pet]]
    <3>1. rs \in SUBSET [kind : ReadKind, peer : Pet]
      BY <2>2 DEF Read, ReadKind
    <3>2. Issue(p, rs)
      BY <1>2 DEF Flush
    <3> QED BY <3>1, <3>2, IssueType
  <2>6. /\ db' = [d \in Doc |-> db'[d]]
        /\ \A d \in Doc : db'[d] \in DocValue(d)
    <3>1. db' = [db EXCEPT ![w.doc] = w.val]
      BY <1>2 DEF Flush
    <3> QED BY <2>2, <3>1 DEF TypeOK
  <2>7. UNCHANGED <<screens, adds, answers, faults>>
    BY <1>2 DEF Flush
  <2> QED BY <2>4, <2>5, <2>6, <2>7 DEF TypeOK, screens, DocValue
<1>3. CASE Kill(p)
  BY <1>3, StopAppType, BoundsAssumption DEF Kill, TypeOK
<1> QED BY <1>1, <1>2, <1>3

\* A failed read keeps the types, whether the app ignores it or stops.
LEMMA TypeReadFails ==
  ASSUME TypeOK, NEW p \in Pet, NEW q \in Pet, p # q, ReadFails(p, q)
  PROVE  TypeOK'
<1>e. <<p, q>> \in Edge
  BY DocTypes
<1>1. faults' \in 0 .. MaxFaults
  BY BoundsAssumption DEF ReadFails, TypeOK
<1>2. PICK k \in ReadKind :
        IF p \in Ios \/ k = "accept"
        THEN /\ reads' = [reads EXCEPT ![p] = @ \ {Read(k, q)}]
             /\ button' = IF k = "check" /\ button[<<p, q>>] = "unchecked"
                          THEN [button EXCEPT ![<<p, q>>] = "enabled"] ELSE button
             /\ UNCHANGED <<queue, row, session>>
        ELSE StopApp(p)
  BY DEF ReadFails
<1>3. CASE p \in Ios \/ k = "accept"
  BY <1>1, <1>2, <1>3, <1>e, ZenonT(30) DEF ReadFails, TypeOK
<1>4. CASE ~(p \in Ios \/ k = "accept")
  BY <1>1, <1>2, <1>4, StopAppType DEF ReadFails, TypeOK
<1> QED BY <1>3, <1>4

\* Every step keeps the types.
LEMMA TypeStep == TypeOK /\ [Next]_vars => TypeOK'
<1> SUFFICES ASSUME TypeOK, [Next]_vars PROVE TypeOK'
  OBVIOUS
<1>1. ASSUME NEW e \in Edge, User(e[1], e[2]) \/ Callback(e[1], e[2]) \/ ReadFails(e[1], e[2])
      PROVE  TypeOK'
  <2>1. e[1] \in Pet /\ e[2] \in Pet /\ e[1] # e[2]
    BY DEF Edge
  <2> QED BY <1>1, <2>1, TypeUser, TypeCallback, TypeReadFails
<1>2. ASSUME NEW p \in Pet, LoadList(p) \/ Flush(p) \/ Kill(p)
      PROVE  TypeOK'
  BY <1>2, TypeSystem
<1>3. CASE UNCHANGED vars
  BY <1>3 DEF vars, TypeOK
<1> QED BY <1>1, <1>2, <1>3 DEF Next

(***************************************************************************)
(* Every variable keeps its type: in particular a queued write always fits *)
(* the document it is for, so what any app reads in a record is a status   *)
(* and what it reads in a room is a room, through every interleaving of    *)
(* the two apps' handlers, crashes and failed reads.                       *)
(***************************************************************************)
THEOREM FriendingTypeOK == Spec => []TypeOK
  BY TypeInit, TypeStep, PTL DEF Spec

-----------------------------------------------------------------------------
(***************************************************************************)
(* KeysAgree.  The inductive invariant says where keys come from: every    *)
(* room, stored or on its way, holds only numbers made under its own       *)
(* parameters by the pet they stand for, so a chat opened from it gets the *)
(* key of that exchange and of that pair.                                  *)
(***************************************************************************)
Coherent(room) == \A x \in Pet : room.pub[x] \in {Unknown, Public(room.params, x)}

CoherentWrite == {w \in Write : w.doc \in RoomDocs /\ w.val # Absent => Coherent(w.val)}

KeysInv ==
  /\ \A d \in RoomDocs : db[d] # Absent => Coherent(db[d])
  /\ \A p \in Pet : queue[p] \in Seq(CoherentWrite)
  /\ \A e \in Edge : session[e] # NoKey =>
        session[e].base = session[e].params /\ session[e].secrets = {e[1], e[2]}

\* Two keys made from coherent rooms with the same parameters are equal.
LEMMA KeysInvImplies == TypeOK /\ KeysInv => KeysAgree
<1> SUFFICES ASSUME TypeOK, KeysInv, NEW e \in Edge,
                    session[e] # NoKey, session[<<e[2], e[1]>>] # NoKey,
                    session[e].params = session[<<e[2], e[1]>>].params
             PROVE  session[e] = session[<<e[2], e[1]>>]
  BY DEF KeysAgree
<1> DEFINE f == <<e[2], e[1]>>
<1>1. f \in Edge /\ f[1] = e[2] /\ f[2] = e[1]
  BY DEF Edge
<1>2. session[e] \in Key /\ session[f] \in Key
  BY <1>1 DEF TypeOK
<1>3. session[e].base = session[f].base /\ session[e].secrets = session[f].secrets
  BY <1>1 DEF KeysInv
<1> QED BY <1>2, <1>3 DEF Key

\* A write of a record, of nothing, or of a coherent room is coherent.
LEMMA CoherentPuts ==
  ASSUME NEW w \in Write, w.doc \in FriendDocs \/ w.val = Absent \/ Coherent(w.val)
  PROVE  w \in CoherentWrite
  BY KindsDiffer DEF CoherentWrite

\* generateSenderData offers a coherent room; acceptFriend and update_friend_key
\* keep one coherent, for they answer under the parameters they read.
LEMMA CoherentRooms ==
  /\ \A n \in Nat, p \in Pet : Coherent(OfferedRoom(n, p))
  /\ \A r \in Room, p \in Pet : Coherent(r) => Coherent(AcceptedRoom(r, p))
  BY DEF Coherent, OfferedRoom, AcceptedRoom, Room, Public

\* An app that reads a room reads a coherent one.
LEMMA SeesCoherent ==
  ASSUME TypeOK, KeysInv, NEW p \in Pet, NEW q \in Pet, p # q, Sees(p, RoomDoc(p, q)) # Absent
  PROVE  Coherent(Sees(p, RoomDoc(p, q)))
<1> DEFINE d == RoomDoc(p, q)
<1>1. d \in RoomDocs
  BY DocTypes
<1>2. Len(queue[p]) \in Nat /\ queue[p] \in Seq(CoherentWrite)
  BY DEF TypeOK, KeysInv
<1>3. \A i \in 1 .. Len(queue[p]) : queue[p][i] \in CoherentWrite
  BY <1>2
<1>4. CASE Sees(p, d) = db[d]
  BY <1>1, <1>4 DEF KeysInv
<1>5. CASE \E i \in 1 .. Len(queue[p]) : queue[p][i].doc = d /\ Sees(p, d) = queue[p][i].val
  BY <1>1, <1>3, <1>5 DEF CoherentWrite
<1> QED BY <1>2, <1>4, <1>5, ViewIsServerOrPending, SMTT(30) DEF Sees

\* The three ways a step may change the queues.
LEMMA CoherentEnqueue ==
  ASSUME TypeOK, KeysInv, NEW p \in Pet, NEW ws \in Seq(CoherentWrite), Enqueue(p, ws)
  PROVE  \A x \in Pet : queue'[x] \in Seq(CoherentWrite)
<1>1. queue[p] \o ws \in Seq(CoherentWrite)
  BY ConcatProperties DEF KeysInv
<1>2. queue' = [queue EXCEPT ![p] = queue[p] \o ws] /\ queue \in [Pet -> Seq(Write)]
  BY DEF Enqueue, TypeOK
<1> QED BY <1>1, <1>2 DEF KeysInv

\* A stopped app leaves coherent writes and no chat.
LEMMA CoherentStop ==
  ASSUME TypeOK, KeysInv, NEW p \in Pet, StopApp(p), db' = db
  PROVE  KeysInv'
<1>1. queue[p] \in Seq(CoherentWrite) /\ Len(queue[p]) \in Nat
  BY DEF TypeOK, KeysInv
<1>2. \A i \in 1 .. Len(queue[p]) : [queue[p][i] EXCEPT !.ack = NoAck] \in CoherentWrite
  <2> TAKE i \in 1 .. Len(queue[p])
  <2>1. queue[p][i] \in CoherentWrite
    BY <1>1
  <2> QED BY <2>1 DEF CoherentWrite, Write
<1>3. WithoutAcks(queue[p]) \in Seq(CoherentWrite)
  BY <1>1, <1>2 DEF WithoutAcks
<1>4. queue' = [queue EXCEPT ![p] = WithoutAcks(queue[p])] /\ queue \in [Pet -> Seq(Write)]
  BY DEF StopApp, TypeOK
<1>5. \A x \in Pet : queue'[x] \in Seq(CoherentWrite)
  BY <1>3, <1>4 DEF KeysInv
<1>6. \A e \in Edge : session'[e] # NoKey => session'[e] = session[e]
  BY DEF StopApp
<1> QED BY <1>5, <1>6 DEF KeysInv

\* The presses of buttons queue coherent writes only.
LEMMA KeysUser ==
  ASSUME TypeOK, KeysInv, NEW p \in Pet, NEW q \in Pet, p # q, User(p, q)
  PROVE  KeysInv'
<1>f. \A v \in {Absent} \cup Status :
        /\ Put(FriendDoc(p, q), v, q) \in CoherentWrite
        /\ Put(FriendDoc(q, p), v, q) \in CoherentWrite
        /\ PutThen(FriendDoc(p, q), v, q, "receiver") \in CoherentWrite
        /\ PutThen(FriendDoc(q, p), v, q, "receiver") \in CoherentWrite
  BY PutTypes, DocTypes, CoherentPuts DEF Put, PutThen
<1>r. Put(RoomDoc(p, q), Absent, q) \in CoherentWrite
  BY PutTypes, CoherentPuts DEF Put
<1>o. adds + 1 \in Nat => Put(RoomDoc(p, q), OfferedRoom(adds + 1, p), q) \in CoherentWrite
  BY PutTypes, RoomTypes, CoherentRooms, CoherentPuts DEF Put
<1>n. adds + 1 \in Nat
  BY BoundsAssumption DEF TypeOK
<1>1. ASSUME db' = db, session' = session, NEW ws \in Seq(CoherentWrite), Enqueue(p, ws)
      PROVE  KeysInv'
  BY <1>1, CoherentEnqueue DEF KeysInv
<1>2. CASE UNCHANGED <<db, queue, session>>
  BY <1>2 DEF KeysInv
<1>3. CASE AddIos(p, q)
  <2>1. RequestIos(adds + 1, p, q) \in Seq(CoherentWrite)
    BY <1>f, <1>o, <1>n DEF Status, RequestIos
  <2> QED BY <1>1, <1>3, <2>1 DEF AddIos
<1>4. CASE AddAndroid(p, q)
  <2>1. << Put(RoomDoc(p, q), OfferedRoom(adds + 1, p), q),
           PutThen(FriendDoc(p, q), "sending", q, "receiver") >> \in Seq(CoherentWrite)
    BY <1>f, <1>o, <1>n DEF Status
  <2> QED BY <1>1, <1>4, <2>1 DEF AddAndroid
<1>5. CASE AcceptIos(p, q)
  <2>1. << Put(FriendDoc(p, q), "friending", q),
           Put(FriendDoc(q, p), "friending", q) >> \in Seq(CoherentWrite)
    BY <1>f DEF Status
  <2> QED BY <1>1, <1>5, <2>1 DEF AcceptIos, screens
<1>6. CASE AcceptAndroid(p, q)
  <2>1. << PutThen(FriendDoc(q, p), "friending", q, "receiver") >> \in Seq(CoherentWrite)
    BY <1>f DEF Status
  <2> QED BY <1>1, <1>6, <2>1 DEF AcceptAndroid
<1>7. CASE RejectIos(p, q)
  <2>1. << Put(RoomDoc(p, q), Absent, q), Put(FriendDoc(p, q), Absent, q),
           Put(FriendDoc(q, p), Absent, q) >> \in Seq(CoherentWrite)
    BY <1>f, <1>r
  <2> QED BY <1>1, <1>7, <2>1 DEF RejectIos, screens
<1>8. CASE OpenDetail(p, q) \/ CloseDetail(p, q) \/ RejectAndroid(p, q) \/ OpenChat(p, q)
  BY <1>2, <1>8 DEF OpenDetail, CloseDetail, RejectAndroid, OpenChat, screens
<1> QED BY <1>3, <1>4, <1>5, <1>6, <1>7, <1>8 DEF User

\* An answered Accept writes a coherent room back; an opened chat takes the key
\* of the exchange it read.
LEMMA KeysCallback ==
  ASSUME TypeOK, KeysInv, NEW p \in Pet, NEW q \in Pet, p # q, Callback(p, q)
  PROVE  KeysInv'
<1>e. <<p, q>> \in Edge
  BY DocTypes
<1>1. ASSUME db' = db, session' = session, NEW ws \in Seq(CoherentWrite), Enqueue(p, ws)
      PROVE  KeysInv'
  BY <1>1, CoherentEnqueue DEF KeysInv
<1>2. CASE UNCHANGED <<db, queue, session>>
  BY <1>2 DEF KeysInv
<1>3. CASE AnswerAccept(p, q)
  <2> DEFINE room == Sees(p, RoomDoc(p, q))
             ack == IF p \in Ios THEN "openChat" ELSE NoAck
             w == PutThen(RoomDoc(p, q), AcceptedRoom(room, p), q, ack)
  <2>1. CASE room = Absent
    BY <1>2, <1>3, <2>1 DEF AnswerAccept, screens
  <2>2. CASE room # Absent
    <3>1. room \in Room /\ Coherent(room)
      BY <2>2, SeesRoom, SeesCoherent
    <3>2. AcceptedRoom(room, p) \in Room /\ Coherent(AcceptedRoom(room, p))
      BY <3>1, RoomTypes, CoherentRooms
    <3>3. w \in Write /\ w.val = AcceptedRoom(room, p)
      BY <3>2, PutTypes DEF PutThen
    <3>4. << w >> \in Seq(CoherentWrite)
      BY <3>2, <3>3, CoherentPuts
    <3>5. db' = db /\ session' = session /\ Enqueue(p, << w >>)
      BY <1>3, <2>2 DEF AnswerAccept, screens
    <3> QED BY <1>1, <3>4, <3>5
  <2> QED BY <2>1, <2>2
<1>4. CASE AnswerDelete(p, q)
  <2>1. ASSUME NEW kind, NEW doc \in Doc, NEW next, DeleteLink(p, q, kind, doc, next)
        PROVE  KeysInv'
    <3>1. Put(doc, Absent, q) \in Write /\ Put(doc, Absent, q).val = Absent
      BY DEF Put, Write, Doc
    <3>2. << Put(doc, Absent, q) >> \in Seq(CoherentWrite)
      BY <3>1, CoherentPuts
    <3> QED BY <1>1, <1>2, <2>1, <3>2 DEF DeleteLink, screens
  <2>2. FriendDoc(q, p) \in Doc /\ FriendDoc(p, q) \in Doc /\ RoomDoc(p, q) \in Doc
    BY DocTypes
  <2> QED BY <1>4, <2>1, <2>2 DEF AnswerDelete
<1>5. CASE ChatOpens(p, q)
  <2> DEFINE room == Sees(p, RoomDoc(p, q))
             key == SharedKey(room.params, room.pub[q], p)
  <2>1. ASSUME room # Absent
        PROVE  key.base = key.params /\ key.secrets = {p, q}
    <3>1. room.pub[q] # Unknown
      BY <1>5, <2>1 DEF ChatOpens, Unreadable
    <3>2. Coherent(room)
      BY <2>1, SeesCoherent
    <3>3. room.pub[q] = Public(room.params, q)
      BY <3>1, <3>2 DEF Coherent
    <3> QED BY <3>3 DEF SharedKey, Public
  <2>2. ASSUME NEW e \in Edge, session'[e] # NoKey
        PROVE  session'[e].base = session'[e].params /\ session'[e].secrets = {e[1], e[2]}
    <3>1. session' = [session EXCEPT ![<<p, q>>] = IF room = Absent THEN @ ELSE key]
      BY <1>5 DEF ChatOpens
    <3>2. session \in [Edge -> Key \cup {NoKey}]
      BY DEF TypeOK
    <3>3. CASE e = <<p, q>> /\ room # Absent
      BY <1>e, <2>1, <3>1, <3>2, <3>3
    <3>4. CASE ~(e = <<p, q>> /\ room # Absent)
      <4>1. session'[e] = session[e]
        BY <3>1, <3>2, <3>4
      <4> QED BY <2>2, <4>1 DEF KeysInv
    <3> QED BY <3>3, <3>4
  <2>3. db' = db /\ queue' = queue
    BY <1>5 DEF ChatOpens
  <2> QED BY <2>2, <2>3 DEF KeysInv
<1>6. CASE ChatCrashes(p, q)
  BY <1>6, CoherentStop DEF ChatCrashes
<1>7. CASE AnswerCheck(p, q) \/ ListChange(p, q)
  BY <1>2, <1>7 DEF AnswerCheck, ListChange
<1> QED BY <1>3, <1>4, <1>5, <1>6, <1>7 DEF Callback

\* Applying a coherent write leaves the server coherent.
LEMMA KeysSystem ==
  ASSUME TypeOK, KeysInv, NEW p \in Pet, LoadList(p) \/ Flush(p) \/ Kill(p)
  PROVE  KeysInv'
<1>1. CASE LoadList(p)
  <2>1. \A e \in Edge : session'[e] # NoKey => session'[e] = session[e]
    BY <1>1 DEF LoadList
  <2> QED BY <1>1, <2>1 DEF LoadList, KeysInv
<1>2. CASE Flush(p)
  <2> DEFINE w == Head(queue[p])
             theOther == FriendDoc(w.doc.of[2], w.doc.of[1])
             code == IF w.val = "sending" THEN "receiving" ELSE "friending"
             more == IF w.ack = "receiver" THEN << Put(theOther, code, w.peer) >> ELSE << >>
  <2>1. w \in CoherentWrite /\ w \in Write /\ Tail(queue[p]) \in Seq(CoherentWrite)
    <3>1. queue[p] \in Seq(CoherentWrite) /\ queue[p] # << >>
      BY <1>2 DEF Flush, KeysInv
    <3>2. w \in CoherentWrite /\ Tail(queue[p]) \in Seq(CoherentWrite)
      BY <3>1
    <3> QED BY <3>2 DEF CoherentWrite
  <2>2. more \in Seq(CoherentWrite)
    <3>1. CASE w.ack = "receiver"
      <4>1. w.doc \in FriendDocs
        BY <2>1, <3>1 DEF Write, NoAck
      <4>2. PICK e \in Edge : w.doc = FriendDoc(e[1], e[2])
        BY <4>1 DEF FriendDocs
      <4>3. e[1] \in Pet /\ e[2] \in Pet /\ e[1] # e[2]
        BY DEF Edge
      <4>4. theOther = FriendDoc(e[2], e[1])
        BY <4>2 DEF FriendDoc
      <4>5. Put(theOther, code, w.peer) \in Write /\ Put(theOther, code, w.peer).doc \in FriendDocs
        BY <2>1, <4>3, <4>4, WriteFits, PutTypes, DocTypes DEF Status, Put
      <4>6. Put(theOther, code, w.peer) \in CoherentWrite
        BY <4>5, CoherentPuts
      <4> QED BY <3>1, <4>6
    <3>2. CASE w.ack # "receiver"
      BY <3>2
    <3> QED BY <3>1, <3>2
  <2>3. \A x \in Pet : queue'[x] \in Seq(CoherentWrite)
    <3>1. Tail(queue[p]) \o more \in Seq(CoherentWrite)
      BY <2>1, <2>2, ConcatProperties
    <3>2. queue' = [queue EXCEPT ![p] = Tail(queue[p]) \o more] /\ queue \in [Pet -> Seq(Write)]
      BY <1>2 DEF Flush, TypeOK
    <3> QED BY <3>1, <3>2 DEF KeysInv
  <2>4. \A d \in RoomDocs : db'[d] # Absent => Coherent(db'[d])
    <3>1. db' = [db EXCEPT ![w.doc] = w.val] /\ db = [d \in Doc |-> db[d]]
      BY <1>2 DEF Flush, TypeOK
    <3>2. RoomDocs \subseteq Doc
      BY DEF Doc
    <3>3. w.doc \in RoomDocs /\ w.val # Absent => Coherent(w.val)
      BY <2>1 DEF CoherentWrite
    <3> QED BY <3>1, <3>2, <3>3 DEF KeysInv
  <2>5. session' = session
    BY <1>2 DEF Flush, screens
  <2> QED BY <2>3, <2>4, <2>5 DEF KeysInv
<1>3. CASE Kill(p)
  BY <1>3, CoherentStop DEF Kill
<1> QED BY <1>1, <1>2, <1>3

\* A failed read changes no room and no key.
LEMMA KeysReadFails ==
  ASSUME TypeOK, KeysInv, NEW p \in Pet, NEW q \in Pet, p # q, ReadFails(p, q)
  PROVE  KeysInv'
<1>1. db' = db
  BY DEF ReadFails
<1>2. UNCHANGED <<queue, session>> \/ StopApp(p)
  BY DEF ReadFails
<1>3. CASE UNCHANGED <<queue, session>>
  BY <1>1, <1>3 DEF KeysInv
<1> QED BY <1>1, <1>2, <1>3, CoherentStop

\* Every step keeps the rooms, the queued rooms and the keys coherent.
LEMMA KeysStep == TypeOK /\ KeysInv /\ [Next]_vars => KeysInv'
<1> SUFFICES ASSUME TypeOK, KeysInv, [Next]_vars PROVE KeysInv'
  OBVIOUS
<1>1. ASSUME NEW e \in Edge, User(e[1], e[2]) \/ Callback(e[1], e[2]) \/ ReadFails(e[1], e[2])
      PROVE  KeysInv'
  <2>1. e[1] \in Pet /\ e[2] \in Pet /\ e[1] # e[2]
    BY DEF Edge
  <2> QED BY <1>1, <2>1, KeysUser, KeysCallback, KeysReadFails
<1>2. ASSUME NEW p \in Pet, LoadList(p) \/ Flush(p) \/ Kill(p)
      PROVE  KeysInv'
  BY <1>2, KeysSystem
<1>3. CASE UNCHANGED vars
  BY <1>3 DEF vars, KeysInv
<1> QED BY <1>1, <1>2, <1>3 DEF Next

\* At first there is no room and no key.
LEMMA KeysInit == Init => KeysInv
<1> SUFFICES ASSUME Init PROVE KeysInv
  OBVIOUS
<1>1. \A d \in RoomDocs : db[d] = Absent
  BY DEF Init, Doc
<1> QED BY <1>1 DEF Init, KeysInv

(***************************************************************************)
(* Two open chats that came from the same exchange hold the same key, for  *)
(* any number of pets on either platform, of requests, answers and faults. *)
(* The code it is about: generateSenderData / NEW_FRIEND publish a number  *)
(* with the parameters it was made under, acceptFriend /                   *)
(* ADD_UNREAD_FRIEND answer under the parameters they read and write the   *)
(* whole document back.                                                    *)
(***************************************************************************)
THEOREM KeysAlwaysAgree == Spec => []KeysAgree
<1>1. Init => TypeOK /\ KeysInv
  BY TypeInit, KeysInit
<1>2. TypeOK /\ KeysInv /\ [Next]_vars => (TypeOK /\ KeysInv)'
  BY TypeStep, KeysStep
<1>3. TypeOK /\ KeysInv => KeysAgree
  BY KeysInvImplies
<1> QED BY <1>1, <1>2, <1>3, PTL DEF Spec

----------------------------------------------------------------------------
(* Crossing requests                                                       *)
(*                                                                         *)
(* The argument is about the order of addFriend's writes on iOS: its own   *)
(* record "sending" first, the other pet's record "receiving" after it.  A *)
(* "sending" in a queue is therefore followed by the write that overrides  *)
(* the other side's "sending", and when both records say so one of these   *)
(* writes is still to come.                                                *)

\* The write addFriend makes to the other pet's record.
Tell(p, q) == Put(FriendDoc(q, p), "receiving", q)

\* In the queue s of p's device every "sending" is p's own and is followed by
\* the write that tells the other pet, and no completion writes a record.
Tells(s, p) ==
  \A i \in 1 .. Len(s) :
    /\ s[i].ack # "receiver"
    /\ s[i].doc \in FriendDocs /\ s[i].val = "sending" =>
         /\ s[i].doc = FriendDoc(p, s[i].peer)
         /\ \E j \in i + 1 .. Len(s) : s[j] = Tell(p, s[i].peer)

\* The queue s of p's device still tells q.
WillTell(s, p, q) == \E j \in 1 .. Len(s) : s[j] = Tell(p, q)

BothSending(e) == Record(e[1], e[2]) = "sending" /\ Record(e[2], e[1]) = "sending"

CrossInv ==
  /\ \A p \in Pet : Tells(queue[p], p)
  /\ \A e \in Edge : BothSending(e) =>
       WillTell(queue[e[1]], e[1], e[2]) \/ WillTell(queue[e[2]], e[2], e[1])

\* Two records that both say "sending" are not settled: a "receiving" is queued.
LEMMA CrossInvImplies == CrossInv => NoCrossedRequests
<1> SUFFICES ASSUME CrossInv, NEW e \in Edge, BothSending(e)
             PROVE  Busy(e[1], e[2]) \/ Busy(e[2], e[1])
  BY DEF NoCrossedRequests, Settled, BothSending
<1>1. \A p, q : WillTell(queue[p], p, q) => Busy(p, q)
  BY DEF WillTell, Tell, Put, Busy
<1> QED BY <1>1 DEF CrossInv

\* Appending writes that tell keeps a queue that tells, and loses no write.
LEMMA TellsAppend ==
  ASSUME NEW s \in Seq(Write), NEW t \in Seq(Write), NEW p, Tells(s, p), Tells(t, p)
  PROVE  /\ Tells(s \o t, p)
         /\ \A q : WillTell(s, p, q) => WillTell(s \o t, p, q)
<1>1. /\ s \o t \in Seq(Write)
      /\ Len(s) \in Nat /\ Len(t) \in Nat /\ Len(s \o t) = Len(s) + Len(t)
      /\ \A i \in 1 .. Len(s) : (s \o t)[i] = s[i]
      /\ \A i \in 1 .. Len(t) : (s \o t)[Len(s) + i] = t[i]
  BY ConcatProperties
<1>2. ASSUME NEW i \in 1 .. Len(s \o t)
      PROVE  /\ (s \o t)[i].ack # "receiver"
             /\ (s \o t)[i].doc \in FriendDocs /\ (s \o t)[i].val = "sending" =>
                  /\ (s \o t)[i].doc = FriendDoc(p, (s \o t)[i].peer)
                  /\ \E j \in i + 1 .. Len(s \o t) : (s \o t)[j] = Tell(p, (s \o t)[i].peer)
  <2>1. CASE i \in 1 .. Len(s)
    <3>1. (s \o t)[i] = s[i]
      BY <1>1, <2>1
    <3>2. \A j \in i + 1 .. Len(s) : j \in i + 1 .. Len(s \o t) /\ (s \o t)[j] = s[j]
      BY <1>1, <2>1
    <3> QED BY <2>1, <3>1, <3>2 DEF Tells
  <2>2. CASE i \notin 1 .. Len(s)
    <3> DEFINE k == i - Len(s)
    <3>1. k \in 1 .. Len(t) /\ i = Len(s) + k
      BY <1>1, <2>2
    <3>2. (s \o t)[i] = t[k]
      BY <1>1, <3>1
    <3>3. \A j \in k + 1 .. Len(t) :
             Len(s) + j \in i + 1 .. Len(s \o t) /\ (s \o t)[Len(s) + j] = t[j]
      BY <1>1, <3>1
    <3> HIDE DEF k
    <3>4. /\ t[k].ack # "receiver"
          /\ t[k].doc \in FriendDocs /\ t[k].val = "sending" =>
               /\ t[k].doc = FriendDoc(p, t[k].peer)
               /\ \E j \in k + 1 .. Len(t) : t[j] = Tell(p, t[k].peer)
      BY <3>1 DEF Tells
    <3> QED BY <3>2, <3>3, <3>4
  <2> QED BY <2>1, <2>2
<1>3. Tells(s \o t, p)
  BY <1>2 DEF Tells
<1>4. \A q : WillTell(s, p, q) => WillTell(s \o t, p, q)
  BY <1>1 DEF WillTell
<1> QED BY <1>3, <1>4

\* Applying the oldest write keeps a queue that tells, and loses that write only.
LEMMA TellsTail ==
  ASSUME NEW s \in Seq(Write), s # << >>, NEW p, Tells(s, p)
  PROVE  /\ Tells(Tail(s), p)
         /\ \A q : WillTell(s, p, q) /\ Head(s) # Tell(p, q) => WillTell(Tail(s), p, q)
         /\ Head(s).doc \in FriendDocs /\ Head(s).val = "sending" =>
              /\ Head(s).doc = FriendDoc(p, Head(s).peer)
              /\ WillTell(Tail(s), p, Head(s).peer)
<1>1. /\ Len(s) \in Nat \ {0} /\ Len(Tail(s)) = Len(s) - 1 /\ Head(s) = s[1]
      /\ \A i \in 1 .. Len(Tail(s)) : Tail(s)[i] = s[i + 1]
  OBVIOUS
<1>2. \A j \in 2 .. Len(s) : j - 1 \in 1 .. Len(Tail(s)) /\ Tail(s)[j - 1] = s[j]
  BY <1>1
<1>3. ASSUME NEW i \in 1 .. Len(Tail(s))
      PROVE  /\ Tail(s)[i].ack # "receiver"
             /\ Tail(s)[i].doc \in FriendDocs /\ Tail(s)[i].val = "sending" =>
                  /\ Tail(s)[i].doc = FriendDoc(p, Tail(s)[i].peer)
                  /\ \E j \in i + 1 .. Len(Tail(s)) : Tail(s)[j] = Tell(p, Tail(s)[i].peer)
  <2>1. i + 1 \in 1 .. Len(s) /\ Tail(s)[i] = s[i + 1]
    BY <1>1
  <2>2. \A j \in (i + 1) + 1 .. Len(s) :
           j - 1 \in i + 1 .. Len(Tail(s)) /\ Tail(s)[j - 1] = s[j]
    BY <1>1, <1>2
  <2>3. /\ s[i + 1].ack # "receiver"
        /\ s[i + 1].doc \in FriendDocs /\ s[i + 1].val = "sending" =>
             /\ s[i + 1].doc = FriendDoc(p, s[i + 1].peer)
             /\ \E j \in (i + 1) + 1 .. Len(s) : s[j] = Tell(p, s[i + 1].peer)
    BY <2>1 DEF Tells
  <2> QED BY <2>1, <2>2, <2>3
<1>4. Tells(Tail(s), p)
  BY <1>3 DEF Tells
<1>5. ASSUME NEW q, WillTell(s, p, q), Head(s) # Tell(p, q)
      PROVE  WillTell(Tail(s), p, q)
  <2>1. PICK j \in 1 .. Len(s) : s[j] = Tell(p, q)
    BY <1>5 DEF WillTell
  <2>2. j \in 2 .. Len(s)
    BY <1>1, <1>5, <2>1
  <2> QED BY <1>2, <2>1, <2>2 DEF WillTell
<1>6. ASSUME Head(s).doc \in FriendDocs, Head(s).val = "sending"
      PROVE  /\ Head(s).doc = FriendDoc(p, Head(s).peer)
             /\ WillTell(Tail(s), p, Head(s).peer)
  <2>1. 1 \in 1 .. Len(s)
    BY <1>1
  <2>2. /\ s[1].doc = FriendDoc(p, s[1].peer)
        /\ \E j \in 1 + 1 .. Len(s) : s[j] = Tell(p, s[1].peer)
    BY <1>1, <1>6, <2>1 DEF Tells
  <2>3. PICK j \in 2 .. Len(s) : s[j] = Tell(p, s[1].peer)
    BY <2>2
  <2> QED BY <1>1, <1>2, <2>2, <2>3 DEF WillTell
<1> QED BY <1>4, <1>5, <1>6

\* A kill drops completions; neither the "sending" nor the telling write has one.
LEMMA TellsKilled ==
  ASSUME NEW s \in Seq(Write), NEW p, Tells(s, p)
  PROVE  /\ Tells(WithoutAcks(s), p)
         /\ \A q : WillTell(s, p, q) => WillTell(WithoutAcks(s), p, q)
<1> DEFINE k == WithoutAcks(s)
<1>1. /\ Len(s) \in Nat /\ Len(k) = Len(s)
      /\ \A i \in 1 .. Len(s) : k[i] = [s[i] EXCEPT !.ack = NoAck]
  <2>1. Len(s) \in Nat
    OBVIOUS
  <2> QED BY <2>1, WithoutAcksKeeps
<1>2. \A i \in 1 .. Len(s) : s[i] \in Write
  OBVIOUS
<1>3. \A w \in Write : LET v == [w EXCEPT !.ack = NoAck]
                       IN  /\ v.doc = w.doc /\ v.val = w.val /\ v.peer = w.peer
                           /\ v.ack = NoAck
  BY DEF Write
<1>4. \A q : [Tell(p, q) EXCEPT !.ack = NoAck] = Tell(p, q)
  BY DEF Tell, Put
<1>5. NoAck # "receiver"
  BY DEF NoAck
<1>6. \A i \in 1 .. Len(s) : /\ k[i].doc = s[i].doc /\ k[i].val = s[i].val
                             /\ k[i].peer = s[i].peer /\ k[i].ack # "receiver"
  <2> TAKE i \in 1 .. Len(s)
  <2> DEFINE v == [s[i] EXCEPT !.ack = NoAck]
  <2>1. v.doc = s[i].doc /\ v.val = s[i].val /\ v.peer = s[i].peer /\ v.ack = NoAck
    BY <1>2, <1>3
  <2>2. k[i] = v
    BY <1>1
  <2> QED BY <1>5, <2>1, <2>2
<1> HIDE DEF k
<1>7. \A i \in 1 .. Len(s) : \A q : s[i] = Tell(p, q) => k[i] = Tell(p, q)
  <2> TAKE i \in 1 .. Len(s)
  <2>1. k[i] = [s[i] EXCEPT !.ack = NoAck]
    BY <1>1
  <2> QED BY <1>4, <2>1
<1>8. Tells(k, p)
  <2>1. ASSUME NEW i \in 1 .. Len(s), k[i].doc \in FriendDocs /\ k[i].val = "sending"
        PROVE  /\ k[i].doc = FriendDoc(p, k[i].peer)
               /\ \E j \in i + 1 .. Len(s) : k[j] = Tell(p, k[i].peer)
    <3>1. s[i].doc = FriendDoc(p, s[i].peer)
      BY <1>6, <2>1 DEF Tells
    <3>2. PICK j \in i + 1 .. Len(s) : s[j] = Tell(p, s[i].peer)
      BY <1>6, <2>1 DEF Tells
    <3>3. j \in 1 .. Len(s)
      <4>1. \A n \in Nat : \A x \in 1 .. n : \A y \in x + 1 .. n : y \in 1 .. n
        OBVIOUS
      <4>2. Len(s) \in Nat
        BY <1>1
      <4> QED BY <4>1, <4>2
    <3>4. k[j] = Tell(p, k[i].peer)
      BY <1>6, <1>7, <3>2, <3>3
    <3> QED BY <1>6, <3>1, <3>4
  <2> QED BY <1>1, <1>6, <2>1 DEF Tells
<1>9. \A q : WillTell(s, p, q) => WillTell(k, p, q)
  BY <1>1, <1>7 DEF WillTell
<1> QED BY <1>8, <1>9 DEF k

\* A step that only changes p's queue, to one that tells and tells no less.
LEMMA CrossQueue ==
  ASSUME TypeOK, CrossInv, NEW p \in Pet, NEW s, db' = db,
         queue' = [queue EXCEPT ![p] = s],
         Tells(s, p), \A q : WillTell(queue[p], p, q) => WillTell(s, p, q)
  PROVE  CrossInv'
<1>1. \A x \in Pet : queue'[x] = IF x = p THEN s ELSE queue[x]
  BY DEF TypeOK
<1>2. \A x \in Pet : Tells(queue'[x], x)
  BY <1>1 DEF CrossInv
<1>3. \A x \in Pet : \A q : WillTell(queue[x], x, q) => WillTell(queue'[x], x, q)
  BY <1>1
<1>4. ASSUME NEW e \in Edge, BothSending(e)'
      PROVE  WillTell(queue'[e[1]], e[1], e[2]) \/ WillTell(queue'[e[2]], e[2], e[1])
  <2>1. BothSending(e)
    BY <1>4 DEF BothSending, Record
  <2>2. e[1] \in Pet /\ e[2] \in Pet
    BY DEF Edge
  <2> QED BY <1>3, <2>1, <2>2 DEF CrossInv
<1> QED BY <1>2, <1>4 DEF CrossInv

\* A handler that queues writes that tell.
LEMMA CrossEnqueue ==
  ASSUME TypeOK, CrossInv, NEW p \in Pet, NEW ws \in Seq(Write),
         Enqueue(p, ws), Tells(ws, p), db' = db
  PROVE  CrossInv'
<1>1. queue[p] \in Seq(Write) /\ Tells(queue[p], p)
  BY DEF TypeOK, CrossInv
<1>2. queue' = [queue EXCEPT ![p] = queue[p] \o ws]
  BY DEF Enqueue
<1> QED BY <1>1, <1>2, TellsAppend, CrossQueue

\* An app that stops.
LEMMA CrossStop ==
  ASSUME TypeOK, CrossInv, NEW p \in Pet, StopApp(p), db' = db
  PROVE  CrossInv'
<1>1. queue[p] \in Seq(Write) /\ Tells(queue[p], p)
  BY DEF TypeOK, CrossInv
<1>2. queue' = [queue EXCEPT ![p] = WithoutAcks(queue[p])]
  BY DEF StopApp
<1> QED BY <1>1, <1>2, TellsKilled, CrossQueue

\* A step that changes neither the documents nor the queues.
LEMMA CrossUnchanged ==
  ASSUME CrossInv, UNCHANGED <<db, queue>>
  PROVE  CrossInv'
  BY DEF CrossInv, BothSending, Record

\* Writes that send no request tell; so does what addFriend queues.
LEMMA TellsOther ==
  ASSUME NEW ws \in Seq(Write), NEW p,
         \A i \in 1 .. Len(ws) : /\ ws[i].ack # "receiver"
                                 /\ ws[i].doc \in FriendDocs => ws[i].val # "sending"
  PROVE  Tells(ws, p)
  BY DEF Tells

\* The writes of addFriend: "sending" comes second, the telling write third.
LEMMA AddFriendTells ==
  ASSUME NEW p \in Pet, NEW q \in Pet, p # q, NEW n \in Nat
  PROVE  RequestIos(n, p, q) \in Seq(Write) /\ Tells(RequestIos(n, p, q), p)
<1> DEFINE ws == RequestIos(n, p, q)
           room == OfferedRoom(n, p)
<1>1. ws \in Seq(Write)
  BY PutTypes, RoomTypes DEF Status, RequestIos
<1>2. /\ Len(ws) = 3
      /\ ws[1] = Put(RoomDoc(p, q), room, q)
      /\ ws[2] = Put(FriendDoc(p, q), "sending", q)
      /\ ws[3] = Tell(p, q)
  BY DEF Tell, RequestIos
<1>3. /\ ws[1].doc \notin FriendDocs
      /\ ws[2].doc = FriendDoc(p, q) /\ ws[2].peer = q
      /\ ws[3].val # "sending"
      /\ \A i \in 1 .. 3 : ws[i].ack # "receiver"
  <2>1. \A d, v, x : /\ Put(d, v, x).doc = d /\ Put(d, v, x).val = v
                     /\ Put(d, v, x).peer = x /\ Put(d, v, x).ack # "receiver"
    BY DEF Put, NoAck
  <2>2. RoomDoc(p, q) \notin FriendDocs
    BY DocTypes, KindsDiffer
  <2> HIDE DEF ws
  <2>3. ws[1].ack # "receiver" /\ ws[2].ack # "receiver" /\ ws[3].ack # "receiver"
    BY <1>2, <2>1 DEF Tell
  <2>4. \A i \in 1 .. 3 : i = 1 \/ i = 2 \/ i = 3
    OBVIOUS
  <2>5. ws[1].doc = RoomDoc(p, q) /\ ws[2].doc = FriendDoc(p, q) /\ ws[2].peer = q
    BY <1>2, <2>1
  <2>6. ws[3].val = "receiving"
    BY <1>2, <2>1 DEF Tell
  <2> QED BY <2>2, <2>3, <2>4, <2>5, <2>6
<1> HIDE DEF ws
<1>4. ASSUME NEW i \in 1 .. Len(ws)
      PROVE  /\ ws[i].ack # "receiver"
             /\ ws[i].doc \in FriendDocs /\ ws[i].val = "sending" =>
                  /\ ws[i].doc = FriendDoc(p, ws[i].peer)
                  /\ \E j \in i + 1 .. Len(ws) : ws[j] = Tell(p, ws[i].peer)
  <2>1. CASE i = 2
    <3>1. 3 \in i + 1 .. Len(ws) /\ ws[3] = Tell(p, ws[2].peer)
      BY <1>2, <1>3, <2>1
    <3> QED BY <1>2, <1>3, <2>1, <3>1
  <2>2. CASE i # 2
    <3>1. i = 1 \/ i = 3
      BY <1>2, <2>2
    <3> QED BY <1>2, <1>3, <3>1
  <2> QED BY <2>1, <2>2
<1>5. Tells(ws, p)
  BY <1>4 DEF Tells
<1> QED BY <1>1, <1>5 DEF ws

\* The user's presses, on iOS.
LEMMA CrossUser ==
  ASSUME TypeOK, CrossInv, NEW p \in Ios, NEW q \in Pet, p # q, User(p, q)
  PROVE  CrossInv'
<1>p. p \in Pet
  BY PetsAssumption
<1>1. CASE AddIos(p, q)
  <2>1. adds + 1 \in Nat
    BY BoundsAssumption DEF TypeOK
  <2> QED BY <1>p, <1>1, <2>1, AddFriendTells, CrossEnqueue DEF AddIos
<1>2. CASE AcceptIos(p, q)
  <2> DEFINE ws == << Put(FriendDoc(p, q), "friending", q), Put(FriendDoc(q, p), "friending", q) >>
  <2>1. ws \in Seq(Write)
    BY <1>p, PutTypes DEF Status
  <2>2. \A i \in 1 .. Len(ws) : ws[i].ack # "receiver" /\ ws[i].val # "sending"
    BY DEF Put, NoAck
  <2>3. Tells(ws, p)
    BY <2>1, <2>2, TellsOther
  <2>4. Enqueue(p, ws) /\ db' = db
    BY <1>2 DEF AcceptIos
  <2> QED BY <1>p, <2>1, <2>3, <2>4, CrossEnqueue
<1>3. CASE RejectIos(p, q)
  <2> DEFINE ws == << Put(RoomDoc(p, q), Absent, q), Put(FriendDoc(p, q), Absent, q),
                      Put(FriendDoc(q, p), Absent, q) >>
  <2>1. ws \in Seq(Write)
    BY <1>p, PutTypes
  <2>2. \A i \in 1 .. Len(ws) : ws[i].ack # "receiver" /\ ws[i].val # "sending"
    BY AbsentAssumption DEF Put, NoAck, Status
  <2>3. Tells(ws, p)
    BY <2>1, <2>2, TellsOther
  <2>4. Enqueue(p, ws) /\ db' = db
    BY <1>3 DEF RejectIos
  <2> QED BY <1>p, <2>1, <2>3, <2>4, CrossEnqueue
<1>4. CASE OpenDetail(p, q) \/ CloseDetail(p, q) \/ OpenChat(p, q)
  BY <1>4, CrossUnchanged DEF OpenDetail, CloseDetail, OpenChat
<1> QED BY <1>1, <1>2, <1>3, <1>4
        DEF User, AddAndroid, AcceptAndroid, RejectAndroid

\* The callbacks queue rooms and deletions only.
LEMMA CrossCallback ==
  ASSUME TypeOK, CrossInv, NEW p \in Pet, NEW q \in Pet, p # q, Callback(p, q)
  PROVE  CrossInv'
<1>1. CASE AnswerAccept(p, q)
  <2> DEFINE room == Sees(p, RoomDoc(p, q))
             ack == IF p \in Ios THEN "openChat" ELSE NoAck
             w == PutThen(RoomDoc(p, q), AcceptedRoom(room, p), q, ack)
  <2>1. CASE room = Absent
    BY <1>1, <2>1, CrossUnchanged DEF AnswerAccept
  <2>2. CASE room # Absent
    <3>1. w \in Write
      BY <2>2, SeesRoom, RoomTypes, PutTypes
    <3>2. w.doc \notin FriendDocs /\ w.ack # "receiver"
      BY DocTypes, KindsDiffer DEF PutThen, NoAck
    <3>3. << w >> \in Seq(Write) /\ Tells(<< w >>, p)
      <4>1. << w >> \in Seq(Write)
        BY <3>1
      <4>2. \A i \in 1 .. Len(<< w >>) : << w >>[i] = w
        OBVIOUS
      <4> HIDE DEF w
      <4> QED BY <3>2, <4>1, <4>2, TellsOther
    <3>4. Enqueue(p, << w >>) /\ db' = db
      BY <1>1, <2>2 DEF AnswerAccept
    <3> QED BY <3>3, <3>4, CrossEnqueue
  <2> QED BY <2>1, <2>2
<1>2. CASE AnswerDelete(p, q)
  <2>1. ASSUME NEW kind, NEW doc \in Doc, NEW next, DeleteLink(p, q, kind, doc, next)
        PROVE  CrossInv'
    <3> DEFINE w == Put(doc, Absent, q)
    <3>1. w \in Write
      BY DEF Put, Write, Doc
    <3>2. w.ack # "receiver" /\ w.val # "sending"
      BY AbsentAssumption DEF Put, NoAck, Status
    <3>3. << w >> \in Seq(Write) /\ Tells(<< w >>, p)
      <4>1. << w >> \in Seq(Write)
        BY <3>1
      <4>2. \A i \in 1 .. Len(<< w >>) : << w >>[i] = w
        OBVIOUS
      <4> HIDE DEF w
      <4> QED BY <3>2, <4>1, <4>2, TellsOther
    <3>4. db' = db /\ (queue' = queue \/ Enqueue(p, << w >>))
      BY <2>1 DEF DeleteLink
    <3> QED BY <3>3, <3>4, CrossEnqueue, CrossUnchanged
  <2>2. FriendDoc(q, p) \in Doc /\ FriendDoc(p, q) \in Doc /\ RoomDoc(p, q) \in Doc
    BY DocTypes
  <2> QED BY <1>2, <2>1, <2>2 DEF AnswerDelete
<1>3. CASE ChatCrashes(p, q)
  BY <1>3, CrossStop DEF ChatCrashes
<1>4. CASE ChatOpens(p, q) \/ AnswerCheck(p, q) \/ ListChange(p, q)
  BY <1>4, CrossUnchanged DEF ChatOpens, AnswerCheck, ListChange
<1> QED BY <1>1, <1>2, <1>3, <1>4 DEF Callback

\* The server applies the oldest write.  If it makes the second of two records
\* "sending", the write that overrides the first is behind it in the queue.
LEMMA CrossFlush ==
  ASSUME TypeOK, CrossInv, NEW p \in Pet, Flush(p)
  PROVE  CrossInv'
<1> DEFINE w == Head(queue[p])
           s == Tail(queue[p])
<1>1. queue[p] \in Seq(Write) /\ queue[p] # << >> /\ Tells(queue[p], p)
  BY DEF Flush, TypeOK, CrossInv
<1>2. s \in Seq(Write) /\ w \in Write /\ w.doc \in Doc
  <2>1. s \in Seq(Write) /\ w \in Write
    BY <1>1
  <2> QED BY <2>1, WriteFits
<1>3. w.ack # "receiver"
  <2>1. 1 \in 1 .. Len(queue[p]) /\ w = queue[p][1]
    BY <1>1
  <2> QED BY <1>1, <2>1 DEF Tells
<1>4. queue' = [queue EXCEPT ![p] = s]
  <2>1. s \o << >> = s
    BY <1>2
  <2>2. queue' = [queue EXCEPT ![p] = s \o << >>]
    BY <1>3 DEF Flush
  <2> QED BY <2>1, <2>2
<1>5. db' = [db EXCEPT ![w.doc] = w.val] /\ db = [d \in Doc |-> db[d]]
  BY DEF Flush, TypeOK
<1>6. /\ Tells(s, p)
      /\ \A q : WillTell(queue[p], p, q) /\ w # Tell(p, q) => WillTell(s, p, q)
      /\ w.doc \in FriendDocs /\ w.val = "sending" =>
           w.doc = FriendDoc(p, w.peer) /\ WillTell(s, p, w.peer)
  BY <1>1, TellsTail
<1> HIDE DEF w, s
<1>7. \A x \in Pet : queue'[x] = IF x = p THEN s ELSE queue[x]
  BY <1>4 DEF TypeOK
<1>8. \A x \in Pet : Tells(queue'[x], x)
  BY <1>6, <1>7 DEF CrossInv
<1>9. ASSUME NEW a \in Pet, NEW b \in Pet, a # b, w.doc = FriendDoc(a, b), w.val = "sending"
      PROVE  WillTell(queue'[a], a, b)
  <2>1. w.doc = FriendDoc(p, w.peer) /\ WillTell(s, p, w.peer)
    BY <1>6, <1>9, DocTypes
  <2>2. a = p /\ b = w.peer
    BY <1>9, <2>1 DEF FriendDoc
  <2> QED BY <1>7, <2>1, <2>2
<1>10. ASSUME NEW a \in Pet, NEW b \in Pet, WillTell(queue[a], a, b), w.doc # FriendDoc(b, a)
       PROVE  WillTell(queue'[a], a, b)
  <2>1. w # Tell(a, b)
    BY <1>10 DEF Tell, Put
  <2>2. CASE a = p
    BY <1>6, <1>7, <1>10, <2>1, <2>2
  <2>3. CASE a # p
    BY <1>7, <1>10, <2>3
  <2> QED BY <2>2, <2>3
<1>11. ASSUME NEW e \in Edge, BothSending(e)'
       PROVE  WillTell(queue'[e[1]], e[1], e[2]) \/ WillTell(queue'[e[2]], e[2], e[1])
  <2> DEFINE mine == FriendDoc(e[1], e[2])
             theirs == FriendDoc(e[2], e[1])
  <2>1. e[1] \in Pet /\ e[2] \in Pet /\ e[1] # e[2]
    BY DEF Edge
  <2>2. mine \in Doc /\ theirs \in Doc
    BY <2>1, DocTypes
  <2>3. db'[mine] = "sending" /\ db'[theirs] = "sending"
    BY <1>11 DEF BothSending, Record
  <2>4. CASE w.doc = mine
    <3>1. w.val = "sending"
      BY <1>5, <2>2, <2>3, <2>4
    <3> QED BY <1>9, <2>1, <2>4, <3>1
  <2>5. CASE w.doc = theirs
    <3>1. w.val = "sending"
      BY <1>5, <2>2, <2>3, <2>5
    <3> QED BY <1>9, <2>1, <2>5, <3>1
  <2>6. CASE w.doc # mine /\ w.doc # theirs
    <3>1. db[mine] = "sending" /\ db[theirs] = "sending"
      BY <1>5, <2>2, <2>3, <2>6
    <3>2. WillTell(queue[e[1]], e[1], e[2]) \/ WillTell(queue[e[2]], e[2], e[1])
      BY <3>1 DEF CrossInv, BothSending, Record
    <3> QED BY <1>10, <2>1, <2>6, <3>2
  <2> QED BY <2>4, <2>5, <2>6
<1> QED BY <1>8, <1>11 DEF CrossInv

\* Every step of a system of iOS apps keeps the invariant.
LEMMA CrossStep ==
  ASSUME Ios = Pet, TypeOK, CrossInv, [Next]_vars
  PROVE  CrossInv'
<1>1. ASSUME NEW e \in Edge, User(e[1], e[2]) \/ Callback(e[1], e[2]) \/ ReadFails(e[1], e[2])
      PROVE  CrossInv'
  <2>1. e[1] \in Ios /\ e[1] \in Pet /\ e[2] \in Pet /\ e[1] # e[2]
    BY DEF Edge
  <2>2. ReadFails(e[1], e[2]) => UNCHANGED <<db, queue>>
    BY <2>1 DEF ReadFails
  <2> QED BY <1>1, <2>1, <2>2, CrossUser, CrossCallback, CrossUnchanged
<1>2. ASSUME NEW p \in Pet, LoadList(p) \/ Flush(p) \/ Kill(p)
      PROVE  CrossInv'
  <2>1. CASE LoadList(p)
    BY <2>1, CrossUnchanged DEF LoadList
  <2>2. CASE Kill(p)
    BY <2>2, CrossStop DEF Kill
  <2> QED BY <1>2, <2>1, <2>2, CrossFlush
<1>3. CASE UNCHANGED vars
  BY <1>3, CrossUnchanged DEF vars
<1> QED BY <1>1, <1>2, <1>3 DEF Next

\* At first nothing is queued and no record exists.
LEMMA CrossInit == Init => CrossInv
<1> SUFFICES ASSUME Init PROVE CrossInv
  OBVIOUS
<1>1. \A p \in Pet : queue[p] = << >>
  BY DEF Init
<1>2. \A p \in Pet : Tells(queue[p], p)
  BY <1>1 DEF Tells
<1>3. \A e \in Edge : ~BothSending(e)
  <2> TAKE e \in Edge
  <2>1. FriendDoc(e[1], e[2]) \in Doc
    BY DocTypes DEF Edge
  <2>2. Record(e[1], e[2]) = Absent
    BY <2>1 DEF Init, Record
  <2> QED BY <2>2, AbsentAssumption DEF BothSending, Status
<1> QED BY <1>2, <1>3 DEF CrossInv

(***************************************************************************)
(* When every owner runs the iOS app, two requests that cross never both   *)
(* stay "sending", whatever the interleaving, with hasty owners, answers,  *)
(* kills and failed reads: addFriend queues "receiving" for the other pet  *)
(* behind its own "sending" (FriendHandler.swift:126-129), and the queue   *)
(* survives the app.                                                       *)
(***************************************************************************)
THEOREM RequestsDoNotCross ==
  ASSUME Ios = Pet
  PROVE  Spec => []NoCrossedRequests
<1>1. Init => TypeOK /\ CrossInv
  BY TypeInit, CrossInit
<1>2. TypeOK /\ CrossInv /\ [Next]_vars => (TypeOK /\ CrossInv)'
  BY TypeStep, CrossStep
<1>3. TypeOK /\ CrossInv => NoCrossedRequests
  BY CrossInvImplies
<1> QED BY <1>1, <1>2, <1>3, PTL DEF Spec

----------------------------------------------------------------------------
(* Rooms, records and rows that are there to stay                          *)
(*                                                                         *)
(* Where nobody rejects, nothing is deleted.  Each device writes the room  *)
(* before the first record, its own record before the other's, and answers *)
(* only what the server had; so a record on the server has its room, one   *)
(* that says "receiving" or "friending" has its counterpart, and so has    *)
(* every row and every read that one of them led to.                       *)

Says(w, v) == w.doc \in FriendDocs /\ w.val = v

\* Queue s writes document d.
Pends(s, d) == \E i \in 1 .. Len(s) : s[i].doc = d

\* Document d exists, or will when the i-th write of s is applied.
Before(s, i, d, docs) == docs[d] # Absent \/ \E j \in 1 .. i - 1 : s[j].doc = d

\* Both pets have a record of the other.
Acquainted(docs, p, q) == docs[FriendDoc(p, q)] # Absent /\ docs[FriendDoc(q, p)] # Absent

\* What p's device may write.
Written(p, w) ==
  /\ w.peer \in Pet \ {p} /\ w.val # Absent
  /\ \/ w.doc = RoomDoc(p, w.peer)
     \/ w.doc = FriendDoc(p, w.peer) /\ w.val \in {"sending", "friending"}
     \/ w.doc = FriendDoc(w.peer, p) /\ w.val = "receiving" /\ w.ack = NoAck
     \/ w.doc = FriendDoc(w.peer, p) /\ w.val = "friending"

GrowWrite(s, i, p, docs) ==
  /\ Written(p, s[i])
  /\ s[i].doc \in FriendDocs => Before(s, i, RoomDoc(p, s[i].peer), docs)
  /\ Says(s[i], "receiving") => Before(s, i, FriendDoc(p, s[i].peer), docs)
  /\ Says(s[i], "friending") \/ s[i].ack = "openChat" => Acquainted(docs, p, s[i].peer)

GrowQueue(p, s, docs) == \A i \in 1 .. Len(s) : GrowWrite(s, i, p, docs)

GrowRead(p, r, docs) ==
  /\ r.peer \in Pet \ {p}
  /\ r.kind # "check" => r.kind \in {"accept", "chat"} /\ Acquainted(docs, p, r.peer)

GrowDocs(docs) ==
  \A e \in Edge :
    /\ docs[FriendDoc(e[1], e[2])] # Absent => docs[RoomDoc(e[1], e[2])] # Absent
    /\ docs[FriendDoc(e[1], e[2])] \in {"receiving", "friending"} => Acquainted(docs, e[1], e[2])

GrowInv ==
  /\ GrowDocs(db)
  /\ \A p \in Pet : GrowQueue(p, queue[p], db)
  /\ \A e \in Edge : row[e] # "none" => Acquainted(db, e[1], e[2])
  /\ \A p \in Pet : \A r \in reads[p] : GrowRead(p, r, db)

\* Where nothing is deleted, a device sees what the server has or it writes.
LEMMA SeesGrown ==
  ASSUME TypeOK, NEW p \in Pet, GrowQueue(p, queue[p], db), NEW d \in Doc
  PROVE  Sees(p, d) # Absent <=> db[d] # Absent \/ Pends(queue[p], d)
<1>1. queue[p] \in Seq(Write) /\ Len(queue[p]) \in Nat
  BY DEF TypeOK
<1>2. \A i \in 1 .. Len(queue[p]) : queue[p][i].val # Absent
  BY DEF GrowQueue, GrowWrite, Written
<1>3. CASE PendingOn(queue[p], d) = {}
  <2>1. View(db, queue[p], d) = db[d]
    BY <1>1, <1>3, LastPending
  <2>2. ~Pends(queue[p], d)
    BY <1>3 DEF Pends, PendingOn
  <2> QED BY <2>1, <2>2 DEF Sees
<1>4. CASE PendingOn(queue[p], d) # {}
  <2>1. PICK i \in PendingOn(queue[p], d) : \A j \in PendingOn(queue[p], d) : j <= i
    BY <1>1, <1>4, LastPending
  <2>2. View(db, queue[p], d) = queue[p][i].val
    BY <1>1, <2>1, ViewIsLast
  <2>3. i \in 1 .. Len(queue[p]) /\ queue[p][i].doc = d
    BY <2>1 DEF PendingOn
  <2> QED BY <1>2, <2>2, <2>3 DEF Sees, Pends
<1> QED BY <1>3, <1>4

\* A write that comes after what it needs is queued.
LEMMA GrowAppend ==
  ASSUME NEW p \in Pet, NEW s \in Seq(Write), NEW w \in Write, NEW docs,
         GrowQueue(p, s, docs), Written(p, w),
         w.doc \in FriendDocs => docs[RoomDoc(p, w.peer)] # Absent \/ Pends(s, RoomDoc(p, w.peer)),
         Says(w, "receiving") => docs[FriendDoc(p, w.peer)] # Absent \/ Pends(s, FriendDoc(p, w.peer)),
         Says(w, "friending") \/ w.ack = "openChat" => Acquainted(docs, p, w.peer)
  PROVE  /\ GrowQueue(p, Append(s, w), docs)
         /\ Append(s, w) \in Seq(Write)
         /\ \A d : Pends(s, d) \/ w.doc = d => Pends(Append(s, w), d)
<1> DEFINE t == Append(s, w)
<1>1. /\ t \in Seq(Write) /\ Len(s) \in Nat /\ Len(t) = Len(s) + 1
      /\ \A i \in 1 .. Len(s) : t[i] = s[i]
      /\ t[Len(s) + 1] = w
  OBVIOUS
<1> HIDE DEF t
<1>2. \A d : Pends(s, d) => \E j \in 1 .. Len(s) : t[j].doc = d
  BY <1>1 DEF Pends
<1>3. ASSUME NEW i \in 1 .. Len(t) PROVE GrowWrite(t, i, p, docs)
  <2>1. CASE i \in 1 .. Len(s)
    <3>1. t[i] = s[i] /\ GrowWrite(s, i, p, docs)
      BY <1>1, <2>1 DEF GrowQueue
    <3>2. \A d : Before(s, i, d, docs) => Before(t, i, d, docs)
      BY <1>1, <2>1 DEF Before
    <3> QED BY <3>1, <3>2 DEF GrowWrite
  <2>2. CASE i = Len(s) + 1
    <3>1. t[i] = w
      BY <1>1, <2>2
    <3>2. \A d : docs[d] # Absent \/ Pends(s, d) => Before(t, i, d, docs)
      BY <1>1, <1>2, <2>2 DEF Before
    <3> QED BY <3>1, <3>2 DEF GrowWrite
  <2> QED BY <1>1, <2>1, <2>2
<1>4. \A d : Pends(s, d) \/ w.doc = d => Pends(t, d)
  BY <1>1 DEF Pends
<1> QED BY <1>1, <1>3, <1>4 DEF GrowQueue, t

\* Documents that stay keep a queue in order.
LEMMA GrowMore ==
  ASSUME NEW p \in Pet, NEW s \in Seq(Write), NEW docs, NEW more, GrowQueue(p, s, docs),
         \A d \in Doc : docs[d] # Absent => more[d] # Absent
  PROVE  GrowQueue(p, s, more)
<1> SUFFICES ASSUME NEW i \in 1 .. Len(s) PROVE GrowWrite(s, i, p, more)
  BY DEF GrowQueue
<1>1. GrowWrite(s, i, p, docs)
  BY DEF GrowQueue
<1>2. s[i].peer \in Pet /\ s[i].peer # p
  BY <1>1 DEF GrowWrite, Written
<1>3. RoomDoc(p, s[i].peer) \in Doc /\ FriendDoc(p, s[i].peer) \in Doc /\ FriendDoc(s[i].peer, p) \in Doc
  BY <1>2, DocTypes
<1> QED BY <1>1, <1>3 DEF GrowWrite, Before, Acquainted

\* The oldest write is applied: what the rest needs is there or before it still.
LEMMA GrowTail ==
  ASSUME NEW p \in Pet, NEW s \in Seq(Write), s # << >>, NEW docs, NEW after,
         GrowQueue(p, s, docs),
         \A d \in Doc : after[d] = IF d = Head(s).doc THEN Head(s).val ELSE docs[d]
  PROVE  /\ GrowQueue(p, Tail(s), after)
         /\ \A d \in Doc : docs[d] # Absent => after[d] # Absent
         /\ Written(p, Head(s))
         /\ Head(s).doc \in FriendDocs => docs[RoomDoc(p, Head(s).peer)] # Absent
         /\ Says(Head(s), "receiving") => docs[FriendDoc(p, Head(s).peer)] # Absent
         /\ Says(Head(s), "friending") \/ Head(s).ack = "openChat" =>
              Acquainted(docs, p, Head(s).peer)
<1> DEFINE t == Tail(s)
<1>1. /\ t \in Seq(Write) /\ Len(s) \in Nat \ {0} /\ Len(t) = Len(s) - 1 /\ Head(s) = s[1]
      /\ \A i \in 1 .. Len(t) : i + 1 \in 1 .. Len(s) /\ t[i] = s[i + 1]
  OBVIOUS
<1> HIDE DEF t
<1>2. GrowWrite(s, 1, p, docs)
  BY <1>1 DEF GrowQueue
<1>3. s[1].val # Absent
  BY <1>2 DEF GrowWrite, Written
<1>4. \A d \in Doc : docs[d] # Absent => after[d] # Absent
  BY <1>1, <1>3
<1>5. ASSUME NEW i \in 1 .. Len(t), NEW d \in Doc, Before(s, i + 1, d, docs)
      PROVE  Before(t, i, d, after)
  <2>1. CASE docs[d] # Absent
    BY <1>4, <2>1 DEF Before
  <2>2. CASE \E j \in 1 .. i : s[j].doc = d
    <3>1. PICK j \in 1 .. i : s[j].doc = d
      BY <2>2
    <3>2. CASE j = 1
      BY <1>1, <1>3, <3>1, <3>2 DEF Before
    <3>3. CASE j # 1
      <4>1. j - 1 \in 1 .. i - 1 /\ j - 1 \in 1 .. Len(t)
        BY <1>1, <3>1, <3>3
      <4>2. t[j - 1] = s[j]
        BY <1>1, <4>1
      <4> QED BY <3>1, <4>1, <4>2 DEF Before
    <3> QED BY <3>2, <3>3
  <2>3. (i + 1) - 1 = i
    BY <1>1
  <2> QED BY <1>5, <2>1, <2>2, <2>3 DEF Before
<1>6. ASSUME NEW i \in 1 .. Len(t) PROVE GrowWrite(t, i, p, after)
  <2>1. i + 1 \in 1 .. Len(s) /\ t[i] = s[i + 1]
    BY <1>1
  <2>2. GrowWrite(s, i + 1, p, docs)
    BY <2>1 DEF GrowQueue
  <2>3. t[i].peer \in Pet /\ t[i].peer # p
    BY <2>1, <2>2 DEF GrowWrite, Written
  <2>4. RoomDoc(p, t[i].peer) \in Doc /\ FriendDoc(p, t[i].peer) \in Doc /\ FriendDoc(t[i].peer, p) \in Doc
    BY <2>3, DocTypes
  <2> QED BY <1>4, <1>5, <2>1, <2>2, <2>4 DEF GrowWrite, Acquainted
<1>7. \A d : ~\E j \in 1 .. 1 - 1 : s[j].doc = d
  OBVIOUS
<1>8. \A d : Before(s, 1, d, docs) => docs[d] # Absent
  BY <1>7 DEF Before
<1> QED BY <1>1, <1>2, <1>4, <1>6, <1>8 DEF GrowWrite, GrowQueue, t

\* A killed app's writes differ from what they were in their completions only.
LEMMA KilledWrites ==
  ASSUME NEW s \in Seq(Write)
  PROVE  /\ Len(WithoutAcks(s)) = Len(s)
         /\ \A i \in 1 .. Len(s) :
              /\ WithoutAcks(s)[i].doc = s[i].doc /\ WithoutAcks(s)[i].val = s[i].val
              /\ WithoutAcks(s)[i].peer = s[i].peer /\ WithoutAcks(s)[i].ack = NoAck
<1> DEFINE k == WithoutAcks(s)
<1>1. Len(s) \in Nat /\ \A i \in 1 .. Len(s) : s[i] \in Write
  OBVIOUS
<1>2. Len(k) = Len(s) /\ \A i \in 1 .. Len(s) : k[i] = [s[i] EXCEPT !.ack = NoAck]
  BY <1>1, WithoutAcksKeeps
<1>3. \A w \in Write : LET v == [w EXCEPT !.ack = NoAck]
                       IN  v.doc = w.doc /\ v.val = w.val /\ v.peer = w.peer /\ v.ack = NoAck
  BY DEF Write
<1>4. \A i \in 1 .. Len(s) : /\ k[i].doc = s[i].doc /\ k[i].val = s[i].val
                             /\ k[i].peer = s[i].peer /\ k[i].ack = NoAck
  <2> TAKE i \in 1 .. Len(s)
  <2> DEFINE v == [s[i] EXCEPT !.ack = NoAck]
  <2>1. v.doc = s[i].doc /\ v.val = s[i].val /\ v.peer = s[i].peer /\ v.ack = NoAck
    BY <1>1, <1>3
  <2>2. k[i] = v
    BY <1>2
  <2> QED BY <2>1, <2>2
<1> QED BY <1>2, <1>4

\* Completions that are lost do not count here.
LEMMA GrowKilled ==
  ASSUME NEW p \in Pet, NEW s \in Seq(Write), NEW docs, GrowQueue(p, s, docs)
  PROVE  GrowQueue(p, WithoutAcks(s), docs)
<1> DEFINE k == WithoutAcks(s)
<1>1. Len(s) \in Nat
  OBVIOUS
<1>4. Len(k) = Len(s) /\ \A i \in 1 .. Len(s) : /\ k[i].doc = s[i].doc /\ k[i].val = s[i].val
                                              /\ k[i].peer = s[i].peer /\ k[i].ack = NoAck
  BY KilledWrites
<1>5. NoAck # "openChat"
  BY DEF NoAck
<1> HIDE DEF k
<1>6. ASSUME NEW i \in 1 .. Len(s) PROVE GrowWrite(k, i, p, docs)
  <2>1. GrowWrite(s, i, p, docs)
    BY DEF GrowQueue
  <2>2. \A d : Before(s, i, d, docs) => Before(k, i, d, docs)
    <3>1. \A j \in 1 .. i - 1 : j \in 1 .. Len(s)
      BY <1>1
    <3> QED BY <1>4, <3>1 DEF Before
  <2>3. Written(p, k[i])
    BY <1>4, <2>1 DEF GrowWrite, Written
  <2>4. \A v : Says(k[i], v) <=> Says(s[i], v)
    BY <1>4 DEF Says
  <2> QED BY <1>4, <1>5, <2>1, <2>2, <2>3, <2>4 DEF GrowWrite
<1> QED BY <1>4, <1>6 DEF GrowQueue, k

\* Steps that leave the server alone keep the invariant if each queue, row and
\* read they leave is one the invariant allows.
LEMMA GrowLocal ==
  ASSUME GrowInv, db' = db,
         \A p \in Pet : GrowQueue(p, queue'[p], db),
         \A e \in Edge : row'[e] # "none" => Acquainted(db, e[1], e[2]),
         \A p \in Pet : \A r \in reads'[p] : GrowRead(p, r, db)
  PROVE  GrowInv'
  BY DEF GrowInv

\* The queues, when one device's is replaced or none is.
LEMMA GrowOne ==
  ASSUME TypeOK, GrowInv, NEW p \in Pet, NEW s, queue' = [queue EXCEPT ![p] = s],
         GrowQueue(p, s, db)
  PROVE  \A x \in Pet : GrowQueue(x, queue'[x], db)
<1> TAKE x \in Pet
<1>1. queue'[x] = IF x = p THEN s ELSE queue[x]
  BY DEF TypeOK
<1> QED BY <1>1 DEF GrowInv

\* The reads, when some are issued.
LEMMA GrowIssue ==
  ASSUME TypeOK, GrowInv, NEW p \in Pet, NEW rs, Issue(p, rs), \A r \in rs : GrowRead(p, r, db)
  PROVE  \A x \in Pet : \A r \in reads'[x] : GrowRead(x, r, db)
<1> TAKE x \in Pet
<1> TAKE r \in reads'[x]
<1>1. r \in reads[x] \/ (x = p /\ r \in rs)
  BY DEF Issue, TypeOK
<1> QED BY <1>1 DEF GrowInv

\* An app that stops leaves fewer rows and reads, and its queue in order.
LEMMA GrowStop ==
  ASSUME TypeOK, GrowInv, NEW p \in Pet, StopApp(p), db' = db
  PROVE  GrowInv'
<1>1. queue' = [queue EXCEPT ![p] = WithoutAcks(queue[p])]
  BY DEF StopApp
<1>2. GrowQueue(p, WithoutAcks(queue[p]), db)
  BY GrowKilled DEF GrowInv, TypeOK
<1>3. \A x \in Pet : GrowQueue(x, queue'[x], db)
  BY <1>1, <1>2, GrowOne
<1>4. \A e \in Edge : row'[e] # "none" => row[e] # "none"
  BY DEF StopApp, TypeOK
<1>5. \A x \in Pet : \A r \in reads'[x] : r \in reads[x]
  BY DEF StopApp, TypeOK
<1> QED BY <1>3, <1>4, <1>5, GrowLocal DEF GrowInv

\* A pet whose record p's device reads as "receiving" or "friending" has one of p.
LEMMA SeesAcquainted ==
  ASSUME TypeOK, GrowInv, NEW p \in Pet, NEW q \in Pet, p # q,
         Sees(p, FriendDoc(p, q)) \in {"receiving", "friending"}
  PROVE  Acquainted(db, p, q)
<1> DEFINE d == FriendDoc(p, q)
<1>1. queue[p] \in Seq(Write) /\ Len(queue[p]) \in Nat
  BY DEF TypeOK
<1>2. CASE Sees(p, d) = db[d]
  <2>1. <<p, q>> \in Edge /\ <<p, q>>[1] = p /\ <<p, q>>[2] = q
    BY DocTypes
  <2> QED BY <1>2, <2>1 DEF GrowInv, GrowDocs
<1>3. CASE \E i \in 1 .. Len(queue[p]) : queue[p][i].doc = d /\ Sees(p, d) = queue[p][i].val
  <2>1. PICK i \in 1 .. Len(queue[p]) : queue[p][i].doc = d /\ Sees(p, d) = queue[p][i].val
    BY <1>3
  <2>2. GrowWrite(queue[p], i, p, db)
    BY DEF GrowInv, GrowQueue
  <2>3. d \in FriendDocs /\ d \notin RoomDocs
    BY DocTypes, KindsDiffer
  <2>4. queue[p][i].peer \in Pet /\ queue[p][i].peer # p
    BY <2>2 DEF GrowWrite, Written
  <2>5. d # RoomDoc(p, queue[p][i].peer) /\ d # FriendDoc(queue[p][i].peer, p)
    BY <2>3, <2>4, DocTypes DEF FriendDoc
  <2>6. d = FriendDoc(p, queue[p][i].peer) /\ queue[p][i].val \in {"sending", "friending"}
    BY <2>1, <2>2, <2>5 DEF GrowWrite, Written
  <2>7. queue[p][i].peer = q
    BY <2>6 DEF FriendDoc
  <2>8. Says(queue[p][i], "friending")
    BY <2>1, <2>3, <2>6 DEF Says
  <2> QED BY <2>2, <2>7, <2>8 DEF GrowWrite
<1> QED BY <1>1, <1>2, <1>3, ViewIsServerOrPending DEF Sees

\* Acquainted pets have a room.
LEMMA AcquaintedRoom ==
  ASSUME GrowInv, NEW p \in Pet, NEW q \in Pet, p # q, Acquainted(db, p, q)
  PROVE  db[RoomDoc(p, q)] # Absent /\ Acquainted(db, q, p)
<1>1. <<p, q>> \in Edge /\ <<p, q>>[1] = p /\ <<p, q>>[2] = q
  BY DocTypes
<1> QED BY <1>1 DEF GrowInv, GrowDocs, Acquainted

\* The fields of a write and of a read.
LEMMA PutFields ==
  /\ \A d, v, x : /\ Put(d, v, x).doc = d /\ Put(d, v, x).val = v
                  /\ Put(d, v, x).peer = x /\ Put(d, v, x).ack = NoAck
  /\ \A d, v, x, a : /\ PutThen(d, v, x, a).doc = d /\ PutThen(d, v, x, a).val = v
                     /\ PutThen(d, v, x, a).peer = x /\ PutThen(d, v, x, a).ack = a
  /\ \A k, x : Read(k, x).kind = k /\ Read(k, x).peer = x
  BY DEF Put, PutThen, Read

\* The room may always be queued.
LEMMA GrowRoom ==
  ASSUME NEW p \in Pet, NEW q \in Pet, p # q, NEW s \in Seq(Write), NEW docs,
         GrowQueue(p, s, docs), NEW room \in Room, NEW a \in {NoAck, "openChat"},
         a = "openChat" => Acquainted(docs, p, q)
  PROVE  LET w == PutThen(RoomDoc(p, q), room, q, a)
         IN  /\ GrowQueue(p, Append(s, w), docs)
             /\ Append(s, w) \in Seq(Write)
             /\ Pends(Append(s, w), RoomDoc(p, q))
<1> DEFINE w == PutThen(RoomDoc(p, q), room, q, a)
<1>1. w \in Write
  BY PutTypes
<1>2. w.doc = RoomDoc(p, q) /\ w.val = room /\ w.peer = q /\ w.ack = a
  BY PutFields
<1>3. w.doc \notin FriendDocs
  BY <1>2, DocTypes, KindsDiffer
<1>4. Written(p, w)
  BY <1>2, AbsentAssumption DEF Written
<1> HIDE DEF w
<1>5. /\ GrowQueue(p, Append(s, w), docs) /\ Append(s, w) \in Seq(Write)
      /\ \A d : Pends(s, d) \/ w.doc = d => Pends(Append(s, w), d)
  BY <1>1, <1>2, <1>3, <1>4, GrowAppend DEF Says
<1> QED BY <1>2, <1>5 DEF w

\* So may the own record "sending" behind the room.
LEMMA GrowSending ==
  ASSUME NEW p \in Pet, NEW q \in Pet, p # q, NEW s \in Seq(Write), NEW docs,
         GrowQueue(p, s, docs), NEW a \in {NoAck, "receiver"},
         docs[RoomDoc(p, q)] # Absent \/ Pends(s, RoomDoc(p, q))
  PROVE  LET w == PutThen(FriendDoc(p, q), "sending", q, a)
         IN  /\ GrowQueue(p, Append(s, w), docs)
             /\ Append(s, w) \in Seq(Write)
             /\ Pends(Append(s, w), FriendDoc(p, q)) /\ \A d : Pends(s, d) => Pends(Append(s, w), d)
<1> DEFINE w == PutThen(FriendDoc(p, q), "sending", q, a)
<1>1. w \in Write
  <2>1. a = NoAck => w = Put(FriendDoc(p, q), "sending", q)
    BY DEF Put, PutThen
  <2> QED BY <2>1, PutTypes DEF Status
<1>2. w.doc = FriendDoc(p, q) /\ w.val = "sending" /\ w.peer = q /\ w.ack = a
  BY PutFields
<1>3. a # "openChat"
  BY DEF NoAck
<1>4. Written(p, w)
  BY <1>2, AbsentAssumption DEF Written, Status
<1> HIDE DEF w
<1>5. ~Says(w, "receiving") /\ ~Says(w, "friending")
  BY <1>2 DEF Says
<1>6. /\ GrowQueue(p, Append(s, w), docs) /\ Append(s, w) \in Seq(Write)
      /\ \A d : Pends(s, d) \/ w.doc = d => Pends(Append(s, w), d)
  BY <1>1, <1>2, <1>3, <1>4, <1>5, GrowAppend
<1> QED BY <1>2, <1>6 DEF w

\* And the other record "receiving" behind both.
LEMMA GrowReceiving ==
  ASSUME NEW p \in Pet, NEW q \in Pet, p # q, NEW s \in Seq(Write), NEW docs,
         GrowQueue(p, s, docs),
         docs[RoomDoc(p, q)] # Absent \/ Pends(s, RoomDoc(p, q)),
         docs[FriendDoc(p, q)] # Absent \/ Pends(s, FriendDoc(p, q))
  PROVE  LET w == Put(FriendDoc(q, p), "receiving", q)
         IN  GrowQueue(p, Append(s, w), docs) /\ Append(s, w) \in Seq(Write)
<1> DEFINE w == Put(FriendDoc(q, p), "receiving", q)
<1>1. w \in Write
  BY PutTypes DEF Status
<1>2. w.doc = FriendDoc(q, p) /\ w.val = "receiving" /\ w.peer = q /\ w.ack = NoAck
  BY PutFields
<1>3. NoAck # "openChat"
  BY DEF NoAck
<1>4. Written(p, w)
  BY <1>2, AbsentAssumption DEF Written, Status
<1> HIDE DEF w
<1>5. ~Says(w, "friending")
  BY <1>2 DEF Says
<1>6. GrowQueue(p, Append(s, w), docs) /\ Append(s, w) \in Seq(Write)
  BY <1>1, <1>2, <1>3, <1>4, <1>5, GrowAppend
<1> QED BY <1>6 DEF w

\* Either record of acquainted pets may become "friending".
LEMMA GrowFriending ==
  ASSUME NEW p \in Pet, NEW q \in Pet, p # q, NEW s \in Seq(Write), NEW docs,
         GrowQueue(p, s, docs), Acquainted(docs, p, q), docs[RoomDoc(p, q)] # Absent,
         NEW d \in {FriendDoc(p, q), FriendDoc(q, p)}, NEW a \in {NoAck, "receiver"}
  PROVE  LET w == PutThen(d, "friending", q, a)
         IN  GrowQueue(p, Append(s, w), docs) /\ Append(s, w) \in Seq(Write)
<1> DEFINE w == PutThen(d, "friending", q, a)
<1>1. w \in Write
  <2>1. a = NoAck => w = Put(d, "friending", q)
    BY DEF Put, PutThen
  <2> QED BY <2>1, PutTypes DEF Status
<1>2. w.doc = d /\ w.val = "friending" /\ w.peer = q /\ w.ack = a
  BY PutFields
<1>3. a # "openChat"
  BY DEF NoAck
<1>4. Written(p, w)
  BY <1>2, AbsentAssumption DEF Written, Status
<1> HIDE DEF w
<1>5. ~Says(w, "receiving")
  BY <1>2 DEF Says
<1>6. GrowQueue(p, Append(s, w), docs) /\ Append(s, w) \in Seq(Write)
  BY <1>1, <1>2, <1>3, <1>4, <1>5, GrowAppend
<1> QED BY <1>6 DEF w

\* Queueing several writes is queueing them one after the other.
LEMMA OneByOne ==
  ASSUME NEW S, NEW s \in Seq(S), NEW a \in S, NEW b \in S, NEW c \in S
  PROVE  /\ s \o << a >> = Append(s, a)
         /\ s \o << a, b >> = Append(Append(s, a), b)
         /\ s \o << a, b, c >> = Append(Append(Append(s, a), b), c)
<1>1. s \o << a >> = Append(s, a)
  OBVIOUS
<1>2. s \o << a, b >> = Append(Append(s, a), b)
  OBVIOUS
<1>3. s \o << a, b, c >> = Append(Append(Append(s, a), b), c)
  OBVIOUS
<1> QED BY <1>1, <1>2, <1>3

\* The writes of a request, one queue of theirs for each app.
LEMMA GrowRequest ==
  ASSUME TypeOK, GrowInv, NEW p \in Pet, NEW q \in Pet, p # q, NEW n \in Nat
  PROVE  /\ GrowQueue(p, queue[p] \o RequestIos(n, p, q), db)
         /\ GrowQueue(p, queue[p] \o << Put(RoomDoc(p, q), OfferedRoom(n, p), q),
                           PutThen(FriendDoc(p, q), "sending", q, "receiver") >>, db)
<1> DEFINE a == Put(RoomDoc(p, q), OfferedRoom(n, p), q)
           b(k) == PutThen(FriendDoc(p, q), "sending", q, k)
           c == Put(FriendDoc(q, p), "receiving", q)
           s == Append(queue[p], a)
           t(k) == Append(s, b(k))
<1>1. queue[p] \in Seq(Write) /\ GrowQueue(p, queue[p], db)
  BY DEF TypeOK, GrowInv
<1>2. a \in Write /\ c \in Write /\ \A k \in {NoAck, "receiver"} : b(k) \in Write
  <2>1. b(NoAck) = Put(FriendDoc(p, q), "sending", q)
    BY DEF Put, PutThen
  <2> QED BY <2>1, PutTypes, RoomTypes DEF Status
<1>3. a = PutThen(RoomDoc(p, q), OfferedRoom(n, p), q, NoAck) /\ OfferedRoom(n, p) \in Room
  BY RoomTypes DEF Put, PutThen
<1>4. GrowQueue(p, s, db) /\ s \in Seq(Write) /\ Pends(s, RoomDoc(p, q))
  <2>1. NoAck # "openChat"
    BY DEF NoAck
  <2> QED BY <1>1, <1>3, <2>1, GrowRoom
<1> HIDE DEF a, s
<1>5. ASSUME NEW k \in {NoAck, "receiver"}
      PROVE  /\ GrowQueue(p, t(k), db) /\ t(k) \in Seq(Write)
             /\ Pends(t(k), FriendDoc(p, q)) /\ Pends(t(k), RoomDoc(p, q))
  BY <1>4, GrowSending
<1>6. GrowQueue(p, Append(t(NoAck), c), db)
  BY <1>5, GrowReceiving
<1>7. RequestIos(n, p, q) = << a, b(NoAck), c >>
  BY DEF RequestIos, a, Put, PutThen
<1>8. queue[p] \o << a, b(NoAck), c >> = Append(t(NoAck), c)
  <2> HIDE DEF b, c
  <2> QED BY <1>1, <1>2, OneByOne DEF s
<1>9. queue[p] \o << a, b("receiver") >> = t("receiver")
  <2> HIDE DEF b, c
  <2> QED BY <1>1, <1>2, OneByOne DEF s
<1> QED BY <1>5, <1>6, <1>7, <1>8, <1>9 DEF a

\* So with the writes of an acceptance.
LEMMA GrowAccept ==
  ASSUME TypeOK, GrowInv, NEW p \in Pet, NEW q \in Pet, p # q, Acquainted(db, p, q)
  PROVE  /\ GrowQueue(p, queue[p] \o << Put(FriendDoc(p, q), "friending", q),
                                        Put(FriendDoc(q, p), "friending", q) >>, db)
         /\ GrowQueue(p, queue[p] \o << PutThen(FriendDoc(q, p), "friending", q, "receiver") >>, db)
<1> DEFINE w(d, k) == PutThen(d, "friending", q, k)
           D == {FriendDoc(p, q), FriendDoc(q, p)}
           K == {NoAck, "receiver"}
<1>1. queue[p] \in Seq(Write) /\ GrowQueue(p, queue[p], db)
  BY DEF TypeOK, GrowInv
<1>2. db[RoomDoc(p, q)] # Absent
  BY AcquaintedRoom
<1>3. \A d \in D, k \in K : w(d, k) \in Write
  <2>1. \A d : w(d, NoAck) = Put(d, "friending", q)
    BY DEF Put, PutThen
  <2> QED BY <2>1, PutTypes DEF Status
<1>4. ASSUME NEW s \in Seq(Write), GrowQueue(p, s, db), NEW d \in D, NEW k \in K
      PROVE  GrowQueue(p, Append(s, w(d, k)), db) /\ Append(s, w(d, k)) \in Seq(Write)
  BY <1>2, <1>4, GrowFriending
<1>5. \A d : Put(d, "friending", q) = w(d, NoAck)
  BY DEF Put, PutThen
<1> HIDE DEF w
<1>6. GrowQueue(p, queue[p] \o << w(FriendDoc(p, q), NoAck), w(FriendDoc(q, p), NoAck) >>, db)
  <2> DEFINE a == w(FriendDoc(p, q), NoAck)
             b == w(FriendDoc(q, p), NoAck)
  <2>1. GrowQueue(p, Append(queue[p], a), db) /\ Append(queue[p], a) \in Seq(Write)
    BY <1>1, <1>4
  <2>2. GrowQueue(p, Append(Append(queue[p], a), b), db)
    BY <1>4, <2>1
  <2>3. a \in Write /\ b \in Write
    BY <1>3
  <2> HIDE DEF a, b
  <2>4. queue[p] \o << a, b >> = Append(Append(queue[p], a), b)
    BY <1>1, <2>3, OneByOne
  <2>5. GrowQueue(p, queue[p] \o << a, b >>, db)
    BY <2>2, <2>4
  <2> QED BY <2>5 DEF a, b
<1>7. GrowQueue(p, queue[p] \o << w(FriendDoc(q, p), "receiver") >>, db)
  <2>1. GrowQueue(p, Append(queue[p], w(FriendDoc(q, p), "receiver")), db)
    BY <1>1, <1>4
  <2>2. w(FriendDoc(q, p), "receiver") \in Write
    BY <1>3
  <2> QED BY <1>1, <2>1, <2>2, OneByOne
<1> QED BY <1>5, <1>6, <1>7 DEF w

\* The owner's presses.
LEMMA GrowUser ==
  ASSUME Rejecters = {}, TypeOK, GrowInv, NEW p \in Pet, NEW q \in Pet, p # q, User(p, q)
  PROVE  GrowInv'
<1> DEFINE E == <<p, q>>
<1>e. E \in Edge /\ E[1] = p /\ E[2] = q
  BY DocTypes
<1>n. adds + 1 \in Nat
  BY DEF TypeOK
<1>q. \A x \in Pet : GrowQueue(x, queue[x], db)
  BY DEF GrowInv
<1>w. \A e \in Edge : row[e] # "none" => Acquainted(db, e[1], e[2])
  BY DEF GrowInv
<1>r. \A x \in Pet : \A r \in reads[x] : GrowRead(x, r, db)
  BY DEF GrowInv
<1>1. CASE OpenDetail(p, q)
  <2> DEFINE rs == IF p \in Ios THEN {Read("check", q)} ELSE {}
  <2>1. \A r \in rs : GrowRead(p, r, db)
    BY PutFields DEF GrowRead
  <2>2. Issue(p, rs) /\ UNCHANGED <<db, queue, row>>
    BY <1>1 DEF OpenDetail
  <2> HIDE DEF rs
  <2>3. \A x \in Pet : \A r \in reads'[x] : GrowRead(x, r, db)
    BY <2>1, <2>2, GrowIssue
  <2> QED BY <1>q, <1>w, <2>2, <2>3, GrowLocal
<1>2. CASE CloseDetail(p, q)
  <2>1. \A x \in Pet : \A r \in reads'[x] : r \in reads[x]
    BY <1>2 DEF CloseDetail, TypeOK
  <2>2. UNCHANGED <<db, queue, row>>
    BY <1>2 DEF CloseDetail
  <2> QED BY <1>q, <1>w, <1>r, <2>1, <2>2, GrowLocal
<1>3. CASE AddIos(p, q)
  <2>1. \A x \in Pet : GrowQueue(x, queue'[x], db)
    BY <1>3, <1>n, GrowRequest, GrowOne DEF AddIos, Enqueue
  <2> QED BY <1>3, <1>w, <1>r, <2>1, GrowLocal DEF AddIos
<1>4. CASE AddAndroid(p, q)
  <2>1. \A x \in Pet : GrowQueue(x, queue'[x], db)
    BY <1>4, <1>n, GrowRequest, GrowOne DEF AddAndroid, Enqueue
  <2> QED BY <1>4, <1>w, <1>r, <2>1, GrowLocal DEF AddAndroid
<1>5. ASSUME CanAnswer(p, q), Issue(p, {Read("accept", q)})
      PROVE  /\ Acquainted(db, p, q)
             /\ \A x \in Pet : \A r \in reads'[x] : GrowRead(x, r, db)
  <2>1. Acquainted(db, p, q)
    BY <1>5, <1>e, <1>w DEF CanAnswer
  <2>2. \A r \in {Read("accept", q)} : GrowRead(p, r, db)
    BY <2>1, PutFields DEF GrowRead
  <2> QED BY <1>5, <2>1, <2>2, GrowIssue
<1>6. CASE AcceptIos(p, q)
  <2>1. \A x \in Pet : GrowQueue(x, queue'[x], db)
    BY <1>5, <1>6, GrowAccept, GrowOne DEF AcceptIos, Enqueue
  <2> QED BY <1>5, <1>6, <1>w, <2>1, GrowLocal DEF AcceptIos, screens
<1>7. CASE AcceptAndroid(p, q)
  <2>1. \A x \in Pet : GrowQueue(x, queue'[x], db)
    BY <1>5, <1>7, GrowAccept, GrowOne DEF AcceptAndroid, Enqueue
  <2>2. \A e \in Edge : row'[e] # "none" => e = E \/ row[e] # "none"
    BY <1>7 DEF AcceptAndroid, TypeOK
  <2>3. db' = db
    BY <1>7 DEF AcceptAndroid
  <2>4. \A e \in Edge : row'[e] # "none" => Acquainted(db, e[1], e[2])
    BY <1>5, <1>7, <1>e, <1>w, <2>2 DEF AcceptAndroid
  <2> QED BY <1>5, <1>7, <2>1, <2>3, <2>4, GrowLocal DEF AcceptAndroid
<1>8. CASE OpenChat(p, q)
  <2>1. Acquainted(db, p, q)
    BY <1>8, <1>e, <1>w DEF OpenChat
  <2>2. \A r \in {Read("chat", q)} : GrowRead(p, r, db)
    BY <2>1, PutFields DEF GrowRead
  <2>3. \A x \in Pet : \A r \in reads'[x] : GrowRead(x, r, db)
    BY <1>8, <2>2, GrowIssue DEF OpenChat
  <2> QED BY <1>8, <1>q, <1>w, <2>3, GrowLocal DEF OpenChat, screens
<1>9. ~RejectIos(p, q) /\ ~RejectAndroid(p, q)
  BY DEF RejectIos, RejectAndroid
<1> QED BY <1>1, <1>2, <1>3, <1>4, <1>6, <1>7, <1>8, <1>9 DEF User

\* The callbacks.
LEMMA GrowCallback ==
  ASSUME TypeOK, GrowInv, NEW p \in Pet, NEW q \in Pet, p # q, Callback(p, q)
  PROVE  GrowInv'
<1> DEFINE E == <<p, q>>
<1>e. E \in Edge /\ E[1] = p /\ E[2] = q
  BY DocTypes
<1>q. \A x \in Pet : GrowQueue(x, queue[x], db)
  BY DEF GrowInv
<1>w. \A e \in Edge : row[e] # "none" => Acquainted(db, e[1], e[2])
  BY DEF GrowInv
<1>r. \A x \in Pet : \A r \in reads[x] : GrowRead(x, r, db)
  BY DEF GrowInv
<1>1. CASE AnswerCheck(p, q)
  <2>1. \A x \in Pet : \A r \in reads'[x] : r \in reads[x]
    BY <1>1 DEF AnswerCheck, TypeOK
  <2> QED BY <1>1, <1>q, <1>w, <1>r, <2>1, GrowLocal DEF AnswerCheck
<1>2. CASE AnswerAccept(p, q)
  <2> DEFINE room == Sees(p, RoomDoc(p, q))
             ack == IF p \in Ios THEN "openChat" ELSE NoAck
             w == PutThen(RoomDoc(p, q), AcceptedRoom(room, p), q, ack)
  <2>1. Read("accept", q) \in reads[p]
    BY <1>2 DEF AnswerAccept
  <2>2. Acquainted(db, p, q)
    BY <1>r, <2>1, PutFields DEF GrowRead
  <2>3. \A x \in Pet : \A r \in reads'[x] : r \in reads[x]
    BY <1>2 DEF AnswerAccept, TypeOK
  <2>4. ASSUME room # Absent PROVE GrowQueue(p, queue[p] \o << w >>, db)
    <3>1. AcceptedRoom(room, p) \in Room /\ queue[p] \in Seq(Write) /\ ack \in {NoAck, "openChat"}
      BY <2>4, SeesRoom, RoomTypes DEF TypeOK
    <3>2. w \in Write
      BY <3>1, PutTypes
    <3>3. GrowQueue(p, Append(queue[p], w), db)
      BY <1>q, <2>2, <3>1, GrowRoom
    <3> HIDE DEF w
    <3> QED BY <3>1, <3>2, <3>3, OneByOne
  <2>5. \/ queue' = queue
        \/ room # Absent /\ queue' = [queue EXCEPT ![p] = queue[p] \o << w >>]
    BY <1>2 DEF AnswerAccept, Enqueue
  <2> HIDE DEF w
  <2>6. \A x \in Pet : GrowQueue(x, queue'[x], db)
    BY <1>q, <2>4, <2>5, GrowOne
  <2>7. db' = db /\ row' = row
    BY <1>2 DEF AnswerAccept, screens
  <2> QED BY <1>w, <1>r, <2>3, <2>6, <2>7, GrowLocal
<1>3. CASE AnswerDelete(p, q)
  <2>1. PICK k \in {"delete1", "delete2", "delete3"} : Read(k, q) \in reads[p]
    BY <1>3 DEF AnswerDelete, DeleteLink
  <2>2. GrowRead(p, Read(k, q), db) /\ Read(k, q).kind = k
    BY <1>r, <2>1, PutFields
  <2> QED BY <2>2 DEF GrowRead
<1>4. CASE ChatOpens(p, q)
  <2>1. \A x \in Pet : \A r \in reads'[x] : r \in reads[x]
    BY <1>4 DEF ChatOpens, TypeOK
  <2> QED BY <1>4, <1>q, <1>w, <1>r, <2>1, GrowLocal DEF ChatOpens
<1>5. CASE ChatCrashes(p, q)
  BY <1>5, GrowStop DEF ChatCrashes
<1>6. CASE ListChange(p, q)
  <2> DEFINE now == Listed(Sees(p, FriendDoc(p, q)))
             rs == IF now = "friending" THEN {Read("chat", q)} ELSE {}
  <2>1. now # "none" => Acquainted(db, p, q)
    BY SeesAcquainted DEF Listed
  <2>2. \A r \in rs : GrowRead(p, r, db)
    BY <2>1, PutFields DEF GrowRead
  <2>3. Issue(p, rs) /\ row' = [row EXCEPT ![E] = now] /\ UNCHANGED <<db, queue>>
    BY <1>6 DEF ListChange
  <2> HIDE DEF rs, now
  <2>4. \A x \in Pet : \A r \in reads'[x] : GrowRead(x, r, db)
    BY <2>2, <2>3, GrowIssue
  <2>5. \A e \in Edge : row'[e] # "none" => (e = E /\ now # "none") \/ row[e] # "none"
    BY <1>e, <2>3 DEF TypeOK
  <2>6. \A e \in Edge : row'[e] # "none" => Acquainted(db, e[1], e[2])
    BY <1>e, <1>w, <2>1, <2>5
  <2> QED BY <1>q, <2>3, <2>4, <2>6, GrowLocal
<1> QED BY <1>1, <1>2, <1>3, <1>4, <1>5, <1>6 DEF Callback

\* A record that p's device writes is one of the pair, and what it may say.
LEMMA WrittenRecord ==
  ASSUME NEW p \in Pet, NEW w, Written(p, w), w.doc \in FriendDocs
  PROVE  /\ w.peer \in Pet /\ w.peer # p
         /\ \/ w.doc = FriendDoc(p, w.peer) /\ w.val \in {"sending", "friending"}
            \/ w.doc = FriendDoc(w.peer, p) /\ w.val = "receiving" /\ w.ack = NoAck
            \/ w.doc = FriendDoc(w.peer, p) /\ w.val = "friending"
<1>1. w.peer \in Pet /\ w.peer # p
  BY DEF Written
<1>2. RoomDoc(p, w.peer) \notin FriendDocs
  BY <1>1, DocTypes, KindsDiffer
<1> QED BY <1>1, <1>2 DEF Written

\* A record says whose it is.
LEMMA FriendDocOf ==
  /\ \A a, b, c, d : FriendDoc(a, b) = FriendDoc(c, d) => a = c /\ b = d
  /\ \A a, b : FriendDoc(a, b).of = <<a, b>>
  /\ \A a, b : RoomDoc(a, b) = RoomDoc(b, a)
<1>1. \A a, b, c, d : FriendDoc(a, b) = FriendDoc(c, d) => a = c /\ b = d
  BY DEF FriendDoc
<1>2. \A a, b : FriendDoc(a, b).of = <<a, b>>
  BY DEF FriendDoc
<1>3. \A a, b : {a, b} = {b, a}
  OBVIOUS
<1>4. \A a, b : RoomDoc(a, b) = RoomDoc(b, a)
  BY <1>3, Zenon DEF RoomDoc
<1> QED BY <1>1, <1>2, <1>4

\* The second half of new_friend_change.
LEMMA GrowSecond ==
  ASSUME NEW p \in Pet, NEW w \in Write, Written(p, w), w.ack = "receiver",
         NEW s \in Seq(Write), NEW docs, GrowQueue(p, s, docs),
         docs[w.doc] # Absent, docs[RoomDoc(p, w.peer)] # Absent,
         w.val = "friending" => Acquainted(docs, p, w.peer),
         NEW d, d = FriendDoc(w.doc.of[2], w.doc.of[1]),
         NEW v, v = IF w.val = "sending" THEN "receiving" ELSE "friending"
  PROVE  GrowQueue(p, s \o << Put(d, v, w.peer) >>, docs)
<1>1. w.doc \in FriendDocs
  BY DEF Write, NoAck
<1>2. "receiver" # NoAck
  BY DEF NoAck
<1>3. /\ w.peer \in Pet /\ w.peer # p
      /\ \/ w.doc = FriendDoc(p, w.peer) /\ w.val \in {"sending", "friending"}
         \/ w.doc = FriendDoc(w.peer, p) /\ w.val = "friending"
  BY <1>1, <1>2, WrittenRecord
<1>4. CASE w.doc = FriendDoc(p, w.peer) /\ w.val = "sending"
  <2>1. d = FriendDoc(w.peer, p) /\ v = "receiving"
    BY <1>4, FriendDocOf
  <2> DEFINE x == Put(FriendDoc(w.peer, p), "receiving", w.peer)
  <2>2. GrowQueue(p, Append(s, x), docs)
    BY <1>3, <1>4, GrowReceiving
  <2>3. x \in Write /\ Put(d, v, w.peer) = x
    BY <1>3, <2>1, PutTypes DEF Status
  <2> HIDE DEF x
  <2>4. s \o << x >> = Append(s, x)
    BY <2>3, OneByOne
  <2> QED BY <2>2, <2>3, <2>4
<1>5. CASE w.val = "friending"
  <2>1. d \in {FriendDoc(p, w.peer), FriendDoc(w.peer, p)} /\ v = "friending"
    BY <1>3, <1>5, FriendDocOf
  <2> DEFINE x == PutThen(d, "friending", w.peer, NoAck)
  <2>2. GrowQueue(p, Append(s, x), docs)
    BY <1>3, <1>5, <2>1, GrowFriending
  <2>3. Put(d, v, w.peer) = x
    BY <2>1 DEF Put, PutThen
  <2>4. x \in Write
    BY <1>3, <2>1, <2>3, PutTypes DEF Status
  <2> HIDE DEF x
  <2>5. s \o << x >> = Append(s, x)
    BY <2>4, OneByOne
  <2> QED BY <2>2, <2>3, <2>5
<1> QED BY <1>3, <1>4, <1>5

\* What the server has after a write is applied.
LEMMA FlushDocs ==
  ASSUME TypeOK, NEW p \in Pet, Flush(p)
  PROVE  /\ queue[p] \in Seq(Write) /\ queue[p] # << >> /\ Head(queue[p]) \in Write
         /\ Tail(queue[p]) \in Seq(Write)
         /\ Head(queue[p]).doc \in Doc
         /\ \A d \in Doc : db'[d] = IF d = Head(queue[p]).doc THEN Head(queue[p]).val ELSE db[d]
<1>1. queue[p] \in Seq(Write) /\ queue[p] # << >>
  BY DEF Flush, TypeOK
<1>2. Head(queue[p]) \in Write /\ Tail(queue[p]) \in Seq(Write)
  BY <1>1
<1>3. Head(queue[p]).doc \in Doc
  BY <1>2, WriteFits
<1>4. db' = [db EXCEPT ![Head(queue[p]).doc] = Head(queue[p]).val] /\ db = [d \in Doc |-> db[d]]
  BY DEF Flush, TypeOK
<1> QED BY <1>1, <1>2, <1>3, <1>4

\* The server applies the oldest write.
LEMMA GrowFlush ==
  ASSUME TypeOK, GrowInv, NEW p \in Pet, Flush(p)
  PROVE  GrowInv'
<1> DEFINE w == Head(queue[p])
           s == Tail(queue[p])
           d == FriendDoc(w.doc.of[2], w.doc.of[1])
           v == IF w.val = "sending" THEN "receiving" ELSE "friending"
           more == IF w.ack = "receiver" THEN << Put(d, v, w.peer) >> ELSE << >>
           rs == IF w.ack = "openChat" THEN {Read("chat", w.peer)} ELSE {}
<1>1. /\ queue[p] \in Seq(Write) /\ queue[p] # << >> /\ w \in Write /\ s \in Seq(Write)
      /\ w.doc \in Doc
      /\ \A x \in Doc : db'[x] = IF x = w.doc THEN w.val ELSE db[x]
  BY FlushDocs
<1>2. GrowQueue(p, queue[p], db)
  BY DEF GrowInv
<1>3. /\ GrowQueue(p, s, db')
      /\ \A x \in Doc : db[x] # Absent => db'[x] # Absent
      /\ Written(p, w)
      /\ w.doc \in FriendDocs => db[RoomDoc(p, w.peer)] # Absent
      /\ Says(w, "receiving") => db[FriendDoc(p, w.peer)] # Absent
      /\ Says(w, "friending") \/ w.ack = "openChat" => Acquainted(db, p, w.peer)
  BY <1>1, <1>2, GrowTail
<1>4. queue' = [queue EXCEPT ![p] = s \o more] /\ Issue(p, rs) /\ row' = row
  BY DEF Flush, screens
<1>5. \A a, b \in Pet : a # b /\ Acquainted(db, a, b) => Acquainted(db', a, b)
  BY <1>3, DocTypes DEF Acquainted
<1> HIDE DEF w, s, d, v
<1>6. w.peer \in Pet /\ w.peer # p
  BY <1>3 DEF Written
<1>d. RoomDoc(p, w.peer) \in Doc /\ FriendDoc(p, w.peer) \in Doc /\ FriendDoc(w.peer, p) \in Doc
  BY <1>6, DocTypes
<1>7. GrowQueue(p, s \o more, db')
  <2>1. CASE w.ack = "receiver"
    <3>1. w.doc \in FriendDocs
      BY <1>1, <2>1 DEF Write, NoAck
    <3>2. db'[w.doc] # Absent /\ db'[RoomDoc(p, w.peer)] # Absent
      BY <1>1, <1>3, <1>d, <3>1 DEF Written
    <3>3. w.val = "friending" => Acquainted(db', p, w.peer)
      BY <1>3, <1>5, <1>6, <3>1 DEF Says
    <3>4. GrowQueue(p, s \o << Put(d, v, w.peer) >>, db')
      BY <1>1, <1>3, <2>1, <3>2, <3>3, GrowSecond DEF d, v
    <3> QED BY <2>1, <3>4
  <2>2. CASE w.ack # "receiver"
    <3>1. s \o << >> = s
      BY <1>1
    <3> QED BY <1>3, <2>2, <3>1
  <2> QED BY <2>1, <2>2
<1> HIDE DEF more
<1>8. ASSUME NEW x \in Pet PROVE GrowQueue(x, queue'[x], db')
  <2>1. queue'[x] = IF x = p THEN s \o more ELSE queue[x]
    BY <1>4 DEF TypeOK
  <2>2. queue[x] \in Seq(Write) /\ GrowQueue(x, queue[x], db)
    BY DEF TypeOK, GrowInv
  <2>3. GrowQueue(x, queue[x], db')
    BY <1>3, <2>2, GrowMore
  <2> QED BY <1>7, <2>1, <2>3
<1>9. GrowDocs(db')
  <2> SUFFICES ASSUME NEW e \in Edge
               PROVE  /\ db'[FriendDoc(e[1], e[2])] # Absent => db'[RoomDoc(e[1], e[2])] # Absent
                      /\ db'[FriendDoc(e[1], e[2])] \in {"receiving", "friending"} =>
                            Acquainted(db', e[1], e[2])
    BY DEF GrowDocs
  <2>1. e[1] \in Pet /\ e[2] \in Pet /\ e[1] # e[2]
    BY DEF Edge
  <2>2. /\ RoomDoc(e[1], e[2]) \in Doc /\ FriendDoc(e[1], e[2]) \in Doc
        /\ FriendDoc(e[1], e[2]) \in FriendDocs
    BY <2>1, DocTypes
  <2>3. CASE w.doc = FriendDoc(e[1], e[2])
    <3>1. /\ \/ w.doc = FriendDoc(p, w.peer) /\ w.val \in {"sending", "friending"}
             \/ w.doc = FriendDoc(w.peer, p) /\ w.val = "receiving" /\ w.ack = NoAck
             \/ w.doc = FriendDoc(w.peer, p) /\ w.val = "friending"
      BY <1>3, <2>2, <2>3, WrittenRecord
    <3>2. \/ e[1] = p /\ e[2] = w.peer
          \/ e[1] = w.peer /\ e[2] = p
      BY <2>3, <3>1, FriendDocOf
    <3>3. db'[RoomDoc(e[1], e[2])] # Absent
      BY <1>3, <1>d, <2>2, <2>3, <3>2, FriendDocOf
    <3>4. db'[FriendDoc(e[1], e[2])] = w.val
      BY <1>1, <2>2, <2>3
    <3>5. CASE w.val = "receiving"
      <4>1. e[1] = w.peer /\ e[2] = p
        BY <2>3, <3>1, <3>5, FriendDocOf
      <4>2. db'[FriendDoc(p, w.peer)] # Absent
        BY <1>3, <1>d, <2>2, <2>3, <3>5 DEF Says
      <4> QED BY <1>3, <3>3, <3>4, <4>1, <4>2 DEF Acquainted, Written
    <3>6. CASE w.val = "friending"
      <4>1. Acquainted(db', p, w.peer)
        BY <1>3, <1>5, <1>6, <2>2, <2>3, <3>6 DEF Says
      <4> QED BY <3>2, <3>3, <4>1 DEF Acquainted
    <3> QED BY <3>3, <3>4, <3>5, <3>6
  <2>4. CASE w.doc # FriendDoc(e[1], e[2])
    <3>1. db'[FriendDoc(e[1], e[2])] = db[FriendDoc(e[1], e[2])]
      BY <1>1, <2>2, <2>4
    <3>2. /\ db[FriendDoc(e[1], e[2])] # Absent => db[RoomDoc(e[1], e[2])] # Absent
          /\ db[FriendDoc(e[1], e[2])] \in {"receiving", "friending"} => Acquainted(db, e[1], e[2])
      BY DEF GrowInv, GrowDocs
    <3> QED BY <1>3, <1>5, <2>1, <2>2, <3>1, <3>2
  <2> QED BY <2>3, <2>4
<1>10. \A e \in Edge : row'[e] # "none" => Acquainted(db', e[1], e[2])
  <2>1. \A e \in Edge : e[1] \in Pet /\ e[2] \in Pet /\ e[1] # e[2]
    BY DEF Edge
  <2> QED BY <1>4, <1>5, <2>1 DEF GrowInv
<1>11. ASSUME NEW x \in Pet, NEW r \in reads'[x] PROVE GrowRead(x, r, db')
  <2>1. CASE r \in reads[x]
    <3>1. GrowRead(x, r, db)
      BY <2>1 DEF GrowInv
    <3> QED BY <1>5, <3>1 DEF GrowRead
  <2>2. CASE r \notin reads[x]
    <3>1. x = p /\ r \in rs
      BY <1>4, <2>2 DEF Issue, TypeOK
    <3>2. w.ack = "openChat" /\ r.kind = "chat" /\ r.peer = w.peer
      BY <3>1, PutFields
    <3> QED BY <1>3, <1>5, <1>6, <3>1, <3>2 DEF GrowRead
  <2> QED BY <2>1, <2>2
<1> QED BY <1>8, <1>9, <1>10, <1>11 DEF GrowInv

\* Loading a list, applying a write and killing an app.
LEMMA GrowSystem ==
  ASSUME TypeOK, GrowInv, NEW p \in Pet, LoadList(p) \/ Flush(p) \/ Kill(p)
  PROVE  GrowInv'
<1>1. CASE LoadList(p)
  <2> DEFINE rs == {Read("chat", q) : q \in {x \in Pet \ {p} :
                                        Sees(p, FriendDoc(p, x)) = "friending"}}
  <2>1. \A r \in rs : GrowRead(p, r, db)
    BY SeesAcquainted, PutFields DEF GrowRead
  <2>2. Issue(p, rs) /\ UNCHANGED <<db, queue>>
    BY <1>1 DEF LoadList
  <2> HIDE DEF rs
  <2>3. \A x \in Pet : \A r \in reads'[x] : GrowRead(x, r, db)
    BY <2>1, <2>2, GrowIssue
  <2>4. ASSUME NEW e \in Edge, row'[e] # "none" PROVE Acquainted(db, e[1], e[2])
    <3>1. e[1] \in Pet /\ e[2] \in Pet /\ e[1] # e[2]
      BY DEF Edge
    <3>2. CASE e[1] = p
      <4>1. row'[e] = Listed(Sees(p, FriendDoc(p, e[2])))
        BY <1>1, <3>2 DEF LoadList
      <4> QED BY <2>4, <3>1, <3>2, <4>1, SeesAcquainted DEF Listed
    <3>3. CASE e[1] # p
      <4>1. row'[e] = row[e]
        BY <1>1, <3>3 DEF LoadList
      <4> QED BY <2>4, <4>1 DEF GrowInv
    <3> QED BY <3>2, <3>3
  <2>5. \A x \in Pet : GrowQueue(x, queue[x], db)
    BY DEF GrowInv
  <2> QED BY <2>2, <2>3, <2>4, <2>5, GrowLocal
<1>2. CASE Kill(p)
  BY <1>2, GrowStop DEF Kill
<1> QED BY <1>1, <1>2, GrowFlush

\* A failed read is given up, or ends the app.
LEMMA GrowReadFails ==
  ASSUME TypeOK, GrowInv, NEW p \in Pet, NEW q \in Pet, p # q, ReadFails(p, q)
  PROVE  GrowInv'
<1>1. PICK k \in ReadKind :
        IF p \in Ios \/ k = "accept"
        THEN /\ reads' = [reads EXCEPT ![p] = @ \ {Read(k, q)}]
             /\ UNCHANGED <<queue, row>>
        ELSE StopApp(p)
  BY DEF ReadFails
<1>2. db' = db
  BY DEF ReadFails
<1>3. CASE p \in Ios \/ k = "accept"
  <2>1. /\ \A x \in Pet : \A r \in reads'[x] : r \in reads[x]
        /\ UNCHANGED <<queue, row>>
    BY <1>1, <1>3 DEF TypeOK
  <2> QED BY <1>2, <2>1, GrowLocal DEF GrowInv
<1>4. CASE ~(p \in Ios \/ k = "accept")
  BY <1>1, <1>2, <1>4, GrowStop
<1> QED BY <1>3, <1>4

\* Every step keeps the invariant where nobody rejects.
LEMMA GrowStep ==
  ASSUME Rejecters = {}, TypeOK, GrowInv, [Next]_vars
  PROVE  GrowInv'
<1>1. ASSUME NEW e \in Edge, User(e[1], e[2]) \/ Callback(e[1], e[2]) \/ ReadFails(e[1], e[2])
      PROVE  GrowInv'
  <2>1. e[1] \in Pet /\ e[2] \in Pet /\ e[1] # e[2]
    BY DEF Edge
  <2> QED BY <1>1, <2>1, GrowUser, GrowCallback, GrowReadFails
<1>2. ASSUME NEW p \in Pet, LoadList(p) \/ Flush(p) \/ Kill(p)
      PROVE  GrowInv'
  BY <1>2, GrowSystem
<1>3. CASE UNCHANGED vars
  BY <1>3 DEF vars, GrowInv
<1> QED BY <1>1, <1>2, <1>3 DEF Next

\* At first there is nothing.
LEMMA GrowInit == Init => GrowInv
<1> SUFFICES ASSUME Init PROVE GrowInv
  OBVIOUS
<1>1. ASSUME NEW p \in Pet PROVE GrowQueue(p, queue[p], db)
  <2>1. queue[p] = << >>
    BY DEF Init
  <2> QED BY <2>1 DEF GrowQueue
<1>2. GrowDocs(db)
  <2>1. \A e \in Edge : FriendDoc(e[1], e[2]) \in Doc
    BY DocTypes DEF Edge
  <2>2. \A e \in Edge : db[FriendDoc(e[1], e[2])] = Absent
    BY <2>1 DEF Init
  <2> QED BY <2>2, AbsentAssumption DEF GrowDocs, Status
<1>3. /\ \A e \in Edge : row[e] = "none"
      /\ \A p \in Pet : reads[p] = {}
  BY DEF Init
<1> QED BY <1>1, <1>2, <1>3 DEF GrowInv

\* An accepted request's room is there to be read.
LEMMA GrowAccepts == TypeOK /\ GrowInv => RequestHasRoom /\ AcceptFindsRoom
<1> SUFFICES ASSUME TypeOK, GrowInv, NEW e \in Edge
             PROVE  /\ Record(e[1], e[2]) = "receiving" => RoomOf(e[1], e[2]) # Absent
                    /\ Read("accept", e[2]) \in reads[e[1]] =>
                         Sees(e[1], RoomDoc(e[1], e[2])) # Absent
  BY DEF RequestHasRoom, AcceptFindsRoom
<1>1. e[1] \in Pet /\ e[2] \in Pet /\ e[1] # e[2]
  BY DEF Edge
<1>2. Record(e[1], e[2]) = "receiving" => RoomOf(e[1], e[2]) # Absent
  BY AbsentAssumption DEF GrowInv, GrowDocs, Record, RoomOf, Status
<1>3. ASSUME Read("accept", e[2]) \in reads[e[1]]
      PROVE  Sees(e[1], RoomDoc(e[1], e[2])) # Absent
  <2>1. GrowRead(e[1], Read("accept", e[2]), db) /\ GrowQueue(e[1], queue[e[1]], db)
    BY <1>1, <1>3 DEF GrowInv
  <2>2. Acquainted(db, e[1], e[2])
    BY <2>1, PutFields DEF GrowRead
  <2>3. db[RoomDoc(e[1], e[2])] # Absent /\ RoomDoc(e[1], e[2]) \in Doc
    BY <1>1, <2>2, AcquaintedRoom, DocTypes
  <2> QED BY <1>1, <2>1, <2>3, SeesGrown
<1> QED BY <1>2, <1>3

\* Types and the invariant together.
LEMMA GrowAlways ==
  ASSUME Rejecters = {}
  PROVE  Spec => [](TypeOK /\ GrowInv)
<1>1. Init => TypeOK /\ GrowInv
  BY TypeInit, GrowInit
<1>2. TypeOK /\ GrowInv /\ [Next]_vars => (TypeOK /\ GrowInv)'
  BY TypeStep, GrowStep
<1> QED BY <1>1, <1>2, PTL DEF Spec

(***************************************************************************)
(* A request the other owner can see has its room: whatever the two apps   *)
(* do at the same time, with kills and failed reads, unless an owner       *)
(* rejects.  It rests on addFriend and new_friend_change writing the room  *)
(* first ("Asyn is probably okay here", FriendHandler.swift:128).          *)
(***************************************************************************)
THEOREM RequestsHaveRooms ==
  ASSUME Rejecters = {}
  PROVE  Spec => []RequestHasRoom
  BY GrowAlways, GrowAccepts, PTL

(***************************************************************************)
(* acceptFriend and update_friend_key find the room they read: it is never *)
(* the early return for a missing document that leaves two friends without *)
(* a key, unless an owner rejects.                                         *)
(***************************************************************************)
THEOREM AcceptsFindRooms ==
  ASSUME Rejecters = {}
  PROVE  Spec => []AcceptFindsRoom
  BY GrowAlways, GrowAccepts, PTL

----------------------------------------------------------------------------
(* The two halves of a request                                             *)
(*                                                                         *)
(* The own record is followed by the other pet's: behind it in the queue   *)
(* on iOS, after its acknowledgement on Android.  An app that stops loses  *)
(* the second only when nothing was known of the other pet before.         *)

\* No app stops with the second half of a first request outstanding: on iOS
\* there is none, and on Android, without kills and failed reads, only a chat
\* stops an app, which with two pets is the chat with the one requests go to.
HalvesStay ==
  \/ Ios = Pet
  \/ MaxFaults = 0 /\ \A a, b, c \in Pet : a = b \/ b = c \/ a = c

PairWrite(s, i, p, docs) ==
  s[i].doc = FriendDoc(p, s[i].peer) =>
    \/ s[i].ack = "receiver" \/ docs[FriendDoc(s[i].peer, p)] # Absent
    \/ \E j \in i + 1 .. Len(s) : s[j].doc = FriendDoc(s[i].peer, p)

PairQueue(p, s, docs) == \A i \in 1 .. Len(s) : PairWrite(s, i, p, docs)

PairInv ==
  /\ \A p \in Pet : PairQueue(p, queue[p], db)
  /\ \A e \in Edge : Record(e[1], e[2]) # Absent =>
       Record(e[2], e[1]) # Absent \/ Pends(queue[e[1]], FriendDoc(e[2], e[1]))

\* A half whose counterpart is on its way is not settled.
LEMMA PairInvImplies == TypeOK /\ GrowInv /\ PairInv => RecordsAgree
<1>1. ASSUME TypeOK, GrowInv, PairInv, NEW p \in Pet, NEW q \in Pet, p # q, Settled(p, q),
             Record(p, q) # Absent
      PROVE  Record(q, p) # Absent
  <2>1. <<p, q>> \in Edge /\ <<p, q>>[1] = p /\ <<p, q>>[2] = q
    BY <1>1, DocTypes
  <2>2. SUFFICES ASSUME Pends(queue[p], FriendDoc(q, p)) PROVE FALSE
    BY <1>1, <2>1 DEF PairInv
  <2>3. PICK i \in 1 .. Len(queue[p]) : queue[p][i].doc = FriendDoc(q, p)
    BY <2>2 DEF Pends
  <2>4. Written(p, queue[p][i])
    BY <1>1 DEF GrowInv, GrowQueue, GrowWrite
  <2>5. queue[p][i].doc \in FriendDocs
    BY <1>1, <2>3, DocTypes
  <2>6. queue[p][i].peer = q
    BY <1>1, <2>3, <2>4, <2>5, WrittenRecord, FriendDocOf
  <2> QED BY <1>1, <2>6 DEF Settled, Busy
<1>2. \A p, q \in Pet : Settled(p, q) => Settled(q, p)
  BY DEF Settled
<1>3. \A e \in Edge : e[1] \in Pet /\ e[2] \in Pet /\ e[1] # e[2]
  BY DEF Edge
<1> QED BY <1>1, <1>2, <1>3 DEF RecordsAgree

\* Queues after one another.
LEMMA PairAppend ==
  ASSUME NEW p, NEW s \in Seq(Write), NEW t \in Seq(Write), NEW docs,
         PairQueue(p, s, docs), PairQueue(p, t, docs)
  PROVE  /\ PairQueue(p, s \o t, docs)
         /\ \A d : Pends(s, d) \/ Pends(t, d) => Pends(s \o t, d)
<1> DEFINE u == s \o t
<1>1. /\ Len(s) \in Nat /\ Len(t) \in Nat /\ Len(u) = Len(s) + Len(t)
      /\ \A i \in 1 .. Len(s) : u[i] = s[i]
      /\ \A i \in 1 .. Len(t) : u[Len(s) + i] = t[i]
  BY ConcatProperties
<1> HIDE DEF u
<1>2. ASSUME NEW i \in 1 .. Len(u) PROVE PairWrite(u, i, p, docs)
  <2>1. CASE i \in 1 .. Len(s)
    <3>1. u[i] = s[i] /\ PairWrite(s, i, p, docs)
      BY <1>1, <2>1 DEF PairQueue
    <3>2. \A j \in i + 1 .. Len(s) : j \in i + 1 .. Len(u) /\ u[j] = s[j]
      BY <1>1, <2>1
    <3> QED BY <3>1, <3>2 DEF PairWrite
  <2>2. CASE i \notin 1 .. Len(s)
    <3> DEFINE k == i - Len(s)
    <3>1. k \in 1 .. Len(t) /\ i = Len(s) + k
      BY <1>1, <2>2
    <3>2. \A j \in k + 1 .. Len(t) : Len(s) + j \in i + 1 .. Len(u) /\ u[Len(s) + j] = t[j]
      BY <1>1, <3>1
    <3>3. u[i] = t[k]
      BY <1>1, <3>1
    <3> HIDE DEF k
    <3>4. PairWrite(t, k, p, docs)
      BY <3>1 DEF PairQueue
    <3> QED BY <3>2, <3>3, <3>4 DEF PairWrite
  <2> QED BY <2>1, <2>2
<1>3. ASSUME NEW d, Pends(s, d) \/ Pends(t, d) PROVE Pends(u, d)
  <2>1. CASE Pends(s, d)
    BY <1>1, <2>1 DEF Pends
  <2>2. CASE Pends(t, d)
    <3>1. PICK i \in 1 .. Len(t) : t[i].doc = d
      BY <2>2 DEF Pends
    <3>2. Len(s) + i \in 1 .. Len(u) /\ u[Len(s) + i].doc = d
      BY <1>1, <3>1
    <3> QED BY <3>2 DEF Pends
  <2> QED BY <1>3, <2>1, <2>2
<1> QED BY <1>2, <1>3 DEF PairQueue, u

\* The oldest write is applied.
LEMMA PairTail ==
  ASSUME NEW p \in Pet, NEW s \in Seq(Write), s # << >>, NEW docs, NEW after,
         \A i \in 1 .. Len(s) : Written(p, s[i]),
         PairQueue(p, s, docs), \A d \in Doc : docs[d] # Absent => after[d] # Absent
  PROVE  /\ PairQueue(p, Tail(s), after)
         /\ \A d : Pends(s, d) /\ Head(s).doc # d => Pends(Tail(s), d)
         /\ Head(s).doc = FriendDoc(p, Head(s).peer) =>
              \/ Head(s).ack = "receiver" \/ docs[FriendDoc(Head(s).peer, p)] # Absent
              \/ Pends(Tail(s), FriendDoc(Head(s).peer, p))
<1> DEFINE t == Tail(s)
<1>1. /\ Len(s) \in Nat \ {0} /\ Len(t) = Len(s) - 1 /\ Head(s) = s[1]
      /\ \A i \in 1 .. Len(t) : i + 1 \in 1 .. Len(s) /\ t[i] = s[i + 1]
  OBVIOUS
<1> HIDE DEF t
<1>2. \A j \in 2 .. Len(s) : j - 1 \in 1 .. Len(t) /\ t[j - 1] = s[j]
  BY <1>1
<1>3. ASSUME NEW i \in 1 .. Len(t) PROVE PairWrite(t, i, p, after)
  <2>1. i + 1 \in 1 .. Len(s) /\ t[i] = s[i + 1]
    BY <1>1
  <2>2. PairWrite(s, i + 1, p, docs)
    BY <2>1 DEF PairQueue
  <2>3. \A j \in (i + 1) + 1 .. Len(s) : j - 1 \in i + 1 .. Len(t) /\ t[j - 1] = s[j]
    BY <1>1, <1>2
  <2>4. FriendDoc(t[i].peer, p) \in Doc
    BY <2>1, DocTypes DEF Written
  <2> QED BY <2>1, <2>2, <2>3, <2>4 DEF PairWrite
<1>4. ASSUME NEW d, Pends(s, d), s[1].doc # d PROVE Pends(t, d)
  <2>1. PICK i \in 1 .. Len(s) : s[i].doc = d
    BY <1>4 DEF Pends
  <2>2. i \in 2 .. Len(s)
    BY <1>1, <1>4, <2>1
  <2> QED BY <1>2, <2>1, <2>2 DEF Pends
<1>5. PairWrite(s, 1, p, docs)
  BY <1>1 DEF PairQueue
<1>6. \A d : (\E j \in 1 + 1 .. Len(s) : s[j].doc = d) => Pends(t, d)
  BY <1>2 DEF Pends
<1> QED BY <1>1, <1>3, <1>4, <1>5, <1>6 DEF PairQueue, PairWrite, t

\* A killed app loses nothing but halves whose counterpart is there.
LEMMA PairKilled ==
  ASSUME NEW p, NEW s \in Seq(Write), NEW docs, PairQueue(p, s, docs),
         \A i \in 1 .. Len(s) : s[i].ack = "receiver" => docs[FriendDoc(s[i].peer, p)] # Absent
  PROVE  /\ PairQueue(p, WithoutAcks(s), docs)
         /\ \A d : Pends(s, d) => Pends(WithoutAcks(s), d)
<1> DEFINE k == WithoutAcks(s)
<1>1. Len(k) = Len(s) /\ Len(s) \in Nat /\ \A i \in 1 .. Len(s) :
         k[i].doc = s[i].doc /\ k[i].val = s[i].val /\ k[i].peer = s[i].peer /\ k[i].ack = NoAck
  BY KilledWrites
<1> HIDE DEF k
<1>2. ASSUME NEW i \in 1 .. Len(s) PROVE PairWrite(k, i, p, docs)
  <2>1. PairWrite(s, i, p, docs)
    BY DEF PairQueue
  <2>2. \A j \in i + 1 .. Len(s) : j \in 1 .. Len(s)
    BY <1>1
  <2> QED BY <1>1, <2>1, <2>2 DEF PairWrite
<1> QED BY <1>1, <1>2 DEF PairQueue, Pends, k

\* A step that changes p's queue only.
LEMMA PairOne ==
  ASSUME TypeOK, PairInv, NEW p \in Pet, NEW s, db' = db, queue' = [queue EXCEPT ![p] = s],
         PairQueue(p, s, db), \A d : Pends(queue[p], d) => Pends(s, d)
  PROVE  PairInv'
<1>1. \A x \in Pet : queue'[x] = IF x = p THEN s ELSE queue[x]
  BY DEF TypeOK
<1>2. \A x \in Pet : PairQueue(x, queue'[x], db)
  BY <1>1 DEF PairInv
<1>3. \A e \in Edge : \A d : Pends(queue[e[1]], d) => Pends(queue'[e[1]], d)
  BY <1>1 DEF Edge
<1> QED BY <1>2, <1>3 DEF PairInv, Record

\* A handler that queues writes.
LEMMA PairEnqueue ==
  ASSUME TypeOK, PairInv, NEW p \in Pet, NEW ws \in Seq(Write), db' = db, Enqueue(p, ws),
         PairQueue(p, ws, db)
  PROVE  PairInv'
<1>1. queue[p] \in Seq(Write) /\ PairQueue(p, queue[p], db)
  BY DEF TypeOK, PairInv
<1>2. PairQueue(p, queue[p] \o ws, db) /\ \A d : Pends(queue[p], d) => Pends(queue[p] \o ws, d)
  BY <1>1, PairAppend
<1> QED BY <1>2, PairOne DEF Enqueue

\* A step that changes neither the documents nor the queues.
LEMMA PairUnchanged == PairInv /\ UNCHANGED <<db, queue>> => PairInv'
  BY DEF PairInv, Record

\* The three documents of a pair.
LEMMA PairDocs ==
  ASSUME NEW p \in Pet, NEW q \in Pet, p # q
  PROVE  RoomDoc(p, q) # FriendDoc(p, q) /\ FriendDoc(q, p) # FriendDoc(p, q)
<1>1. RoomDoc(p, q) # FriendDoc(p, q)
  BY DocTypes, KindsDiffer
<1>2. FriendDoc(q, p) # FriendDoc(p, q)
  BY FriendDocOf
<1> QED BY <1>1, <1>2

\* Writes of rooms and of the other record need nothing behind them.
LEMMA PairOther ==
  ASSUME NEW p \in Pet, NEW q \in Pet, p # q, NEW docs, NEW w, w.peer = q,
         w.doc = RoomDoc(p, q) \/ w.doc = FriendDoc(q, p) \/ w.ack = "receiver"
            \/ docs[FriendDoc(q, p)] # Absent
  PROVE  PairQueue(p, << w >>, docs)
<1>1. RoomDoc(p, q) # FriendDoc(p, q) /\ FriendDoc(q, p) # FriendDoc(p, q)
  BY PairDocs
<1>2. \A i \in 1 .. Len(<< w >>) : << w >>[i] = w
  OBVIOUS
<1> QED BY <1>1, <1>2 DEF PairQueue, PairWrite

\* addFriend and acceptFriend write the other record behind the own one.
LEMMA PairIos ==
  ASSUME NEW p \in Pet, NEW q \in Pet, p # q, NEW docs, NEW v, NEW room, NEW u
  PROVE  /\ PairQueue(p, << Put(RoomDoc(p, q), room, q), Put(FriendDoc(p, q), v, q),
                            Put(FriendDoc(q, p), u, q) >>, docs)
         /\ PairQueue(p, << Put(FriendDoc(p, q), v, q), Put(FriendDoc(q, p), u, q) >>, docs)
         /\ PairQueue(p, << Put(RoomDoc(p, q), room, q),
                            PutThen(FriendDoc(p, q), v, q, "receiver") >>, docs)
<1> DEFINE a == Put(RoomDoc(p, q), room, q)
           b == Put(FriendDoc(p, q), v, q)
           c == Put(FriendDoc(q, p), u, q)
           d == PutThen(FriendDoc(p, q), v, q, "receiver")
<1>1. RoomDoc(p, q) # FriendDoc(p, q) /\ FriendDoc(q, p) # FriendDoc(p, q)
  BY PairDocs
<1>2. /\ a.doc # FriendDoc(p, a.peer) /\ c.doc # FriendDoc(p, c.peer)
      /\ c.doc = FriendDoc(b.peer, p) /\ d.ack = "receiver"
  BY <1>1, PutFields
<1> HIDE DEF a, b, c, d
<1>3. PairQueue(p, << a, b, c >>, docs)
  <2> SUFFICES ASSUME NEW i \in 1 .. 3 PROVE PairWrite(<< a, b, c >>, i, p, docs)
    BY DEF PairQueue
  <2>1. i = 1 \/ i = 2 \/ i = 3
    OBVIOUS
  <2>2. i = 2 => 3 \in i + 1 .. Len(<< a, b, c >>) /\ << a, b, c >>[3].doc = FriendDoc(b.peer, p)
    BY <1>2
  <2> QED BY <1>2, <2>1, <2>2 DEF PairWrite
<1>4. PairQueue(p, << b, c >>, docs)
  <2> SUFFICES ASSUME NEW i \in 1 .. 2 PROVE PairWrite(<< b, c >>, i, p, docs)
    BY DEF PairQueue
  <2>1. i = 1 \/ i = 2
    OBVIOUS
  <2>2. i = 1 => 2 \in i + 1 .. Len(<< b, c >>) /\ << b, c >>[2].doc = FriendDoc(b.peer, p)
    BY <1>2
  <2> QED BY <1>2, <2>1, <2>2 DEF PairWrite
<1>5. PairQueue(p, << a, d >>, docs)
  <2> SUFFICES ASSUME NEW i \in 1 .. 2 PROVE PairWrite(<< a, d >>, i, p, docs)
    BY DEF PairQueue
  <2>1. i = 1 \/ i = 2
    OBVIOUS
  <2> QED BY <1>2, <2>1 DEF PairWrite
<1> QED BY <1>3, <1>4, <1>5 DEF a, b, c, d

\* The owner's presses queue halves in order, or one whose other half follows.
LEMMA PairUser ==
  ASSUME Rejecters = {}, TypeOK, GrowInv, PairInv, NEW p \in Pet, NEW q \in Pet, p # q, User(p, q)
  PROVE  PairInv'
<1>n. adds + 1 \in Nat
  BY DEF TypeOK
<1>1. CASE AddIos(p, q)
  <2> DEFINE ws == RequestIos(adds + 1, p, q)
  <2>1. ws \in Seq(Write)
    BY <1>n, AddFriendTells
  <2>2. PairQueue(p, ws, db)
    BY PairIos DEF RequestIos
  <2>3. Enqueue(p, ws) /\ db' = db
    BY <1>1 DEF AddIos
  <2> QED BY <2>1, <2>2, <2>3, PairEnqueue
<1>2. CASE AddAndroid(p, q)
  <2> DEFINE ws == << Put(RoomDoc(p, q), OfferedRoom(adds + 1, p), q),
                      PutThen(FriendDoc(p, q), "sending", q, "receiver") >>
  <2>1. ws \in Seq(Write)
    BY <1>n, RoomTypes, PutTypes DEF Status
  <2>2. PairQueue(p, ws, db)
    BY PairIos
  <2>3. Enqueue(p, ws) /\ db' = db
    BY <1>2 DEF AddAndroid
  <2> QED BY <2>1, <2>2, <2>3, PairEnqueue
<1>3. CASE AcceptIos(p, q)
  <2> DEFINE ws == << Put(FriendDoc(p, q), "friending", q), Put(FriendDoc(q, p), "friending", q) >>
  <2>1. ws \in Seq(Write)
    BY PutTypes DEF Status
  <2>2. PairQueue(p, ws, db)
    BY PairIos
  <2>3. Enqueue(p, ws) /\ db' = db
    BY <1>3 DEF AcceptIos
  <2> QED BY <2>1, <2>2, <2>3, PairEnqueue
<1>4. CASE AcceptAndroid(p, q)
  <2> DEFINE w == PutThen(FriendDoc(q, p), "friending", q, "receiver")
  <2>1. << w >> \in Seq(Write)
    BY PutTypes DEF Status
  <2>2. w.doc = FriendDoc(q, p) /\ w.peer = q
    BY PutFields
  <2>3. Enqueue(p, << w >>) /\ db' = db
    BY <1>4 DEF AcceptAndroid
  <2> HIDE DEF w
  <2>4. PairQueue(p, << w >>, db)
    BY <2>2, PairOther
  <2> QED BY <2>1, <2>3, <2>4, PairEnqueue
<1>5. CASE OpenDetail(p, q) \/ CloseDetail(p, q) \/ OpenChat(p, q)
  BY <1>5, PairUnchanged DEF OpenDetail, CloseDetail, OpenChat
<1>6. ~RejectIos(p, q) /\ ~RejectAndroid(p, q)
  BY DEF RejectIos, RejectAndroid
<1> QED BY <1>1, <1>2, <1>3, <1>4, <1>5, <1>6 DEF User

\* An app that stops has no half whose counterpart is missing.
LEMMA PairStop ==
  ASSUME TypeOK, PairInv, NEW p \in Pet, StopApp(p), db' = db,
         \A i \in 1 .. Len(queue[p]) :
            queue[p][i].ack = "receiver" => db[FriendDoc(queue[p][i].peer, p)] # Absent
  PROVE  PairInv'
<1>1. queue[p] \in Seq(Write) /\ PairQueue(p, queue[p], db)
  BY DEF TypeOK, PairInv
<1>2. /\ PairQueue(p, WithoutAcks(queue[p]), db)
      /\ \A d : Pends(queue[p], d) => Pends(WithoutAcks(queue[p]), d)
  BY <1>1, PairKilled
<1>3. queue' = [queue EXCEPT ![p] = WithoutAcks(queue[p])]
  BY DEF StopApp
<1> QED BY <1>2, <1>3, PairOne

\* No completion of an iOS app writes a record.
LEMMA NoReceiver ==
  ASSUME CrossInv, NEW p \in Pet
  PROVE  \A i \in 1 .. Len(queue[p]) : queue[p][i].ack # "receiver"
  BY DEF CrossInv, Tells

\* The chat that ends an Android app is, with two pets, the one its writes are about.
LEMMA PairCrash ==
  ASSUME HalvesStay, Ios = Pet => CrossInv, TypeOK, GrowInv, PairInv,
         NEW p \in Pet, NEW q \in Pet, p # q, ChatCrashes(p, q)
  PROVE  PairInv'
<1>1. CASE Ios = Pet
  BY <1>1, NoReceiver, PairStop DEF ChatCrashes
<1>2. CASE \A a, b, c \in Pet : a = b \/ b = c \/ a = c
  <2>1. Acquainted(db, p, q)
    BY PutFields DEF ChatCrashes, ChatAnswered, GrowInv, GrowRead
  <2>2. ASSUME NEW i \in 1 .. Len(queue[p]) PROVE queue[p][i].peer = q
    <3>1. Written(p, queue[p][i])
      BY DEF GrowInv, GrowQueue, GrowWrite
    <3> QED BY <1>2, <3>1 DEF Written
  <2> QED BY <2>1, <2>2, PairStop DEF ChatCrashes, Acquainted
<1> QED BY <1>1, <1>2 DEF HalvesStay

\* The callbacks queue rooms.
LEMMA PairCallback ==
  ASSUME HalvesStay, Ios = Pet => CrossInv, TypeOK, GrowInv, PairInv,
         NEW p \in Pet, NEW q \in Pet, p # q, Callback(p, q)
  PROVE  PairInv'
<1>1. CASE AnswerAccept(p, q)
  <2> DEFINE room == Sees(p, RoomDoc(p, q))
             ack == IF p \in Ios THEN "openChat" ELSE NoAck
             w == PutThen(RoomDoc(p, q), AcceptedRoom(room, p), q, ack)
  <2>1. CASE room = Absent
    BY <1>1, <2>1, PairUnchanged DEF AnswerAccept
  <2>2. CASE room # Absent
    <3>1. w \in Write
      BY <2>2, SeesRoom, RoomTypes, PutTypes
    <3>2. w.doc = RoomDoc(p, q) /\ w.peer = q
      BY PutFields
    <3>3. << w >> \in Seq(Write)
      BY <3>1
    <3>4. Enqueue(p, << w >>) /\ db' = db
      BY <1>1, <2>2 DEF AnswerAccept
    <3> HIDE DEF w
    <3>5. PairQueue(p, << w >>, db)
      BY <3>2, PairOther
    <3> QED BY <3>3, <3>4, <3>5, PairEnqueue
  <2> QED BY <2>1, <2>2
<1>2. CASE AnswerDelete(p, q)
  <2>1. PICK k \in {"delete1", "delete2", "delete3"} : Read(k, q) \in reads[p]
    BY <1>2 DEF AnswerDelete, DeleteLink
  <2>2. GrowRead(p, Read(k, q), db) /\ Read(k, q).kind = k
    BY <2>1, PutFields DEF GrowInv
  <2> QED BY <2>2 DEF GrowRead
<1>3. CASE ChatCrashes(p, q)
  BY <1>3, PairCrash
<1>4. CASE ChatOpens(p, q) \/ AnswerCheck(p, q) \/ ListChange(p, q)
  BY <1>4, PairUnchanged DEF ChatOpens, AnswerCheck, ListChange
<1> QED BY <1>1, <1>2, <1>3, <1>4 DEF Callback

\* Documents that stay keep the halves of a queue paired.
LEMMA PairMore ==
  ASSUME NEW p \in Pet, NEW s \in Seq(Write), NEW docs, NEW more,
         \A i \in 1 .. Len(s) : Written(p, s[i]), PairQueue(p, s, docs),
         \A d \in Doc : docs[d] # Absent => more[d] # Absent
  PROVE  PairQueue(p, s, more)
<1> SUFFICES ASSUME NEW i \in 1 .. Len(s) PROVE PairWrite(s, i, p, more)
  BY DEF PairQueue
<1>1. PairWrite(s, i, p, docs)
  BY DEF PairQueue
<1>2. FriendDoc(s[i].peer, p) \in Doc
  BY DocTypes DEF Written
<1> QED BY <1>1, <1>2 DEF PairWrite

\* The second half of new_friend_change needs nothing behind it: it is the
\* other's record, or the own one of a request that is answered.
LEMMA PairSecond ==
  ASSUME NEW p \in Pet, NEW w \in Write, Written(p, w), w.ack = "receiver",
         NEW docs, docs[w.doc] # Absent, NEW v,
         NEW d, d = FriendDoc(w.doc.of[2], w.doc.of[1])
  PROVE  /\ PairQueue(p, << Put(d, v, w.peer) >>, docs)
         /\ w.doc = FriendDoc(p, w.peer) => d = FriendDoc(w.peer, p)
<1>1. w.doc \in FriendDocs
  BY DEF Write, NoAck
<1>2. /\ w.peer \in Pet /\ w.peer # p
      /\ w.doc = FriendDoc(p, w.peer) \/ w.doc = FriendDoc(w.peer, p)
  BY <1>1, WrittenRecord
<1>3. \/ d = FriendDoc(w.peer, p)
      \/ d = FriendDoc(p, w.peer) /\ docs[FriendDoc(w.peer, p)] # Absent
  BY <1>2, FriendDocOf
<1>4. w.doc = FriendDoc(p, w.peer) => d = FriendDoc(w.peer, p)
  BY FriendDocOf
<1> DEFINE x == Put(d, v, w.peer)
<1>5. x.doc = d /\ x.peer = w.peer
  BY PutFields
<1> HIDE DEF x
<1>6. PairQueue(p, << x >>, docs)
  BY <1>2, <1>3, <1>5, PairOther
<1> QED BY <1>4, <1>6 DEF x

\* The server applies the oldest write.
LEMMA PairFlush ==
  ASSUME TypeOK, GrowInv, PairInv, NEW p \in Pet, Flush(p)
  PROVE  PairInv'
<1> DEFINE w == Head(queue[p])
           s == Tail(queue[p])
           d == FriendDoc(w.doc.of[2], w.doc.of[1])
           v == IF w.val = "sending" THEN "receiving" ELSE "friending"
           more == IF w.ack = "receiver" THEN << Put(d, v, w.peer) >> ELSE << >>
<1>1. /\ queue[p] \in Seq(Write) /\ queue[p] # << >> /\ w \in Write /\ s \in Seq(Write)
      /\ w.doc \in Doc
      /\ \A x \in Doc : db'[x] = IF x = w.doc THEN w.val ELSE db[x]
  BY FlushDocs
<1>2. GrowQueue(p, queue[p], db) /\ \A i \in 1 .. Len(queue[p]) : Written(p, queue[p][i])
  BY DEF GrowInv, GrowQueue, GrowWrite
<1>3. /\ \A x \in Doc : db[x] # Absent => db'[x] # Absent
      /\ Written(p, w)
      /\ Says(w, "receiving") => db[FriendDoc(p, w.peer)] # Absent
      /\ Says(w, "friending") \/ w.ack = "openChat" => Acquainted(db, p, w.peer)
  BY <1>1, <1>2, GrowTail
<1>4. PairQueue(p, queue[p], db)
  BY DEF PairInv
<1>5. /\ PairQueue(p, s, db')
      /\ \A x : Pends(queue[p], x) /\ w.doc # x => Pends(s, x)
      /\ w.doc = FriendDoc(p, w.peer) =>
           \/ w.ack = "receiver" \/ db[FriendDoc(w.peer, p)] # Absent
           \/ Pends(s, FriendDoc(w.peer, p))
  BY <1>1, <1>2, <1>3, <1>4, PairTail
<1>6. queue' = [queue EXCEPT ![p] = s \o more]
  BY DEF Flush
<1>7. db'[w.doc] # Absent
  BY <1>1, <1>3 DEF Written
<1>8. more \in Seq(Write)
  <2>1. CASE w.ack = "receiver"
    <3>1. Put(d, v, w.peer) \in Write
      <4>1. w.doc \in FriendDocs
        BY <1>1, <2>1 DEF Write, NoAck
      <4>2. /\ w.peer \in Pet /\ w.peer # p
            /\ w.doc = FriendDoc(p, w.peer) \/ w.doc = FriendDoc(w.peer, p)
        BY <1>3, <4>1, WrittenRecord
      <4>3. d = FriendDoc(w.peer, p) \/ d = FriendDoc(p, w.peer)
        BY <4>2, FriendDocOf
      <4> QED BY <4>2, <4>3, PutTypes DEF Status
    <3> QED BY <2>1, <3>1
  <2>2. CASE w.ack # "receiver"
    BY <2>2
  <2> QED BY <2>1, <2>2
<1>9. /\ PairQueue(p, more, db')
      /\ w.ack = "receiver" /\ w.doc = FriendDoc(p, w.peer) => Pends(more, FriendDoc(w.peer, p))
  <2>1. CASE w.ack = "receiver"
    <3> DEFINE x == Put(d, v, w.peer)
    <3>1. PairQueue(p, << x >>, db') /\ (w.doc = FriendDoc(p, w.peer) => d = FriendDoc(w.peer, p))
      <4>1. w \in Write /\ Written(p, w) /\ db'[w.doc] # Absent
        BY <1>1, <1>3, <1>7
      <4>2. d = FriendDoc(w.doc.of[2], w.doc.of[1])
        OBVIOUS
      <4> HIDE DEF v, w, d, s, more
      <4> QED BY ONLY <2>1, <4>1, <4>2, PairSecond
    <3>2. x.doc = d
      BY PutFields
    <3>3. more = << x >>
      BY <2>1
    <3> HIDE DEF more, x, d
    <3>4. << x >>[1] = x /\ Len(<< x >>) = 1
      OBVIOUS
    <3> QED BY <3>1, <3>2, <3>3, <3>4 DEF Pends
  <2>2. CASE w.ack # "receiver"
    <3>1. more = << >>
      BY <2>2
    <3> HIDE DEF more
    <3> QED BY <2>2, <3>1 DEF PairQueue
  <2> QED BY <2>1, <2>2
<1> HIDE DEF more, w, s, d, v
<1>10. /\ PairQueue(p, s \o more, db')
       /\ \A x : Pends(s, x) \/ Pends(more, x) => Pends(s \o more, x)
  BY <1>1, <1>5, <1>8, <1>9, PairAppend
<1>11. \A x \in Pet : queue'[x] = IF x = p THEN s \o more ELSE queue[x]
  BY <1>6 DEF TypeOK
<1>12. ASSUME NEW x \in Pet PROVE PairQueue(x, queue'[x], db')
  <2>1. CASE x = p
    BY <1>10, <1>11, <2>1
  <2>2. CASE x # p
    <3>1. /\ queue[x] \in Seq(Write) /\ PairQueue(x, queue[x], db)
          /\ \A i \in 1 .. Len(queue[x]) : Written(x, queue[x][i])
      BY DEF TypeOK, PairInv, GrowInv, GrowQueue, GrowWrite
    <3>2. PairQueue(x, queue[x], db')
      BY <1>3, <3>1, PairMore
    <3> QED BY <1>11, <2>2, <3>2
  <2> QED BY <2>1, <2>2
<1>13. ASSUME NEW e \in Edge, db'[FriendDoc(e[1], e[2])] # Absent
       PROVE  db'[FriendDoc(e[2], e[1])] # Absent \/ Pends(queue'[e[1]], FriendDoc(e[2], e[1]))
  <2> DEFINE mine == FriendDoc(e[1], e[2])
             theirs == FriendDoc(e[2], e[1])
  <2>1. e[1] \in Pet /\ e[2] \in Pet /\ e[1] # e[2]
    BY DEF Edge
  <2>2. mine \in Doc /\ theirs \in Doc /\ mine \in FriendDocs
    BY <2>1, DocTypes
  <2>3. CASE w.doc = FriendDoc(e[1], e[2])
    <3>1. \/ w.doc = FriendDoc(p, w.peer)
          \/ w.doc = FriendDoc(w.peer, p) /\ w.val \in {"receiving", "friending"}
      BY <1>3, <2>2, <2>3, WrittenRecord
    <3>2. CASE w.doc = FriendDoc(p, w.peer)
      <4>0. FriendDoc(e[1], e[2]) = FriendDoc(p, w.peer)
        BY <2>3, <3>2
      <4>1. e[1] = p /\ e[2] = w.peer
        BY <4>0, FriendDocOf
      <4>2. CASE w.ack = "receiver"
        BY <1>9, <1>10, <1>11, <2>1, <3>2, <4>1, <4>2
      <4>3. CASE db[theirs] # Absent
        BY <1>3, <2>2, <4>3
      <4>4. CASE Pends(s, theirs)
        BY <1>10, <1>11, <2>1, <4>1, <4>4
      <4> QED BY <1>5, <3>2, <4>1, <4>2, <4>3, <4>4
    <3>3. CASE w.doc = FriendDoc(w.peer, p) /\ w.val \in {"receiving", "friending"}
      <4>0. FriendDoc(e[1], e[2]) = FriendDoc(w.peer, p)
        BY <2>3, <3>3
      <4>1. e[1] = w.peer /\ e[2] = p
        BY <4>0, FriendDocOf
      <4>2. Says(w, "receiving") \/ Says(w, "friending")
        BY <2>2, <2>3, <3>3 DEF Says
      <4>3. db[theirs] # Absent
        BY <1>3, <4>1, <4>2 DEF Acquainted
      <4> QED BY <1>3, <2>2, <4>3
    <3> QED BY <3>1, <3>2, <3>3
  <2>4. CASE w.doc # mine
    <3>1. db[mine] # Absent
      BY <1>1, <1>13, <2>2, <2>4
    <3>2. db[theirs] # Absent \/ Pends(queue[e[1]], theirs)
      BY <3>1 DEF PairInv, Record
    <3>3. CASE db[theirs] # Absent
      BY <1>3, <2>2, <3>3
    <3>4. CASE w.doc = theirs
      BY <1>7, <3>4
    <3>5. CASE Pends(queue[e[1]], theirs) /\ w.doc # theirs
      <4>1. CASE e[1] = p
        BY <1>5, <1>10, <1>11, <2>1, <3>5, <4>1
      <4>2. CASE e[1] # p
        BY <1>11, <2>1, <3>5, <4>2
      <4> QED BY <4>1, <4>2
    <3> QED BY <3>2, <3>3, <3>4, <3>5
  <2> QED BY <2>3, <2>4
<1> QED BY <1>12, <1>13 DEF PairInv, Record

\* Every step keeps the halves paired.
LEMMA PairStep ==
  ASSUME Rejecters = {}, HalvesStay, Ios = Pet => CrossInv,
         TypeOK, GrowInv, PairInv, [Next]_vars
  PROVE  PairInv'
<1>1. ASSUME MaxFaults # 0 PROVE Ios = Pet
  BY <1>1 DEF HalvesStay
<1>2. faults < MaxFaults => MaxFaults # 0
  BY BoundsAssumption DEF TypeOK
<1>3. ASSUME NEW p \in Pet, NEW q \in Pet, ReadFails(p, q)
      PROVE  PairInv'
  BY <1>1, <1>2, <1>3, PairUnchanged DEF ReadFails
<1>4. ASSUME NEW p \in Pet, Kill(p)
      PROVE  PairInv'
  BY <1>1, <1>2, <1>4, NoReceiver, PairStop DEF Kill
<1>5. ASSUME NEW e \in Edge, User(e[1], e[2]) \/ Callback(e[1], e[2]) \/ ReadFails(e[1], e[2])
      PROVE  PairInv'
  <2>1. e[1] \in Pet /\ e[2] \in Pet /\ e[1] # e[2]
    BY DEF Edge
  <2> QED BY <1>3, <1>5, <2>1, PairUser, PairCallback
<1>6. ASSUME NEW p \in Pet, LoadList(p)
      PROVE  PairInv'
  BY <1>6, PairUnchanged DEF LoadList
<1>7. CASE UNCHANGED vars
  BY <1>7, PairUnchanged DEF vars
<1> QED BY <1>4, <1>5, <1>6, <1>7, PairFlush DEF Next

\* At first there is no half.
LEMMA PairInit == Init => PairInv
<1> SUFFICES ASSUME Init PROVE PairInv
  OBVIOUS
<1>1. ASSUME NEW p \in Pet PROVE PairQueue(p, queue[p], db)
  <2>1. queue[p] = << >>
    BY DEF Init
  <2> QED BY <2>1 DEF PairQueue
<1>2. \A e \in Edge : FriendDoc(e[1], e[2]) \in Doc
  BY DocTypes DEF Edge
<1>3. \A e \in Edge : Record(e[1], e[2]) = Absent
  BY <1>2 DEF Init, Record
<1> QED BY <1>1, <1>3 DEF PairInv

(***************************************************************************)
(* Once nothing is under way, both pets have a record of the other or      *)
(* neither has.  Where every owner runs iOS this holds with any kills and  *)
(* failed reads: addFriend and acceptFriend queue both halves before they  *)
(* return.  An Android app writes the second when the first is             *)
(* acknowledged (new_friend_change), so it holds for a mix of apps that    *)
(* are not killed, between two pets.                                       *)
(***************************************************************************)
THEOREM RecordsStayPaired ==
  ASSUME Rejecters = {}, HalvesStay
  PROVE  Spec => []RecordsAgree
<1> DEFINE Inv == TypeOK /\ GrowInv /\ (Ios = Pet => CrossInv) /\ PairInv
<1>1. Init => Inv
  BY TypeInit, GrowInit, CrossInit, PairInit
<1>2. Inv /\ [Next]_vars => Inv'
  BY TypeStep, GrowStep, CrossStep, PairStep
<1>3. Inv => RecordsAgree
  BY PairInvImplies
<1> QED BY <1>1, <1>2, <1>3, PTL DEF Spec

----------------------------------------------------------------------------
(* Friends who stay friends                                                *)
(*                                                                         *)
(* A pet whose device knows of the other sends it no request any more: Add *)
(* is disabled when the check finds a record, and records do not go.  So a *)
(* request is over when its second half is on the server, a friendship     *)
(* comes after the requests of both, and nothing writes over it.           *)

\* Every app is for iOS, no owner taps Add before the check is answered or
\* rejects, and no read fails: a check that fails leaves Add enabled.
Careful == Ios = Pet /\ Hasty = {} /\ Rejecters = {} /\ MaxFaults = 0

\* A request about q, a record made "friending".
Request(w, q) == w.doc \in FriendDocs /\ w.val \in {"sending", "receiving"} /\ w.peer = q
MakesFriend(w, d) == w.doc = d /\ w.val = "friending"

NoRequest(s, q) == \A i \in 1 .. Len(s) : ~Request(s[i], q)
Befriends(s, q) == \E i \in 1 .. Len(s) : Says(s[i], "friending") /\ s[i].peer = q

\* p is done with requests to q.
Final(p, q) ==
  /\ Acquainted(db, p, q)
  /\ NoRequest(queue[p], q)
  /\ button[<<p, q>>] # "enabled"

\* In a queue no request follows the second half of another to the same pet,
\* or an answer.
RequestsFirst(s) ==
  \A i \in 1 .. Len(s) : Says(s[i], "receiving") \/ Says(s[i], "friending") =>
     \A j \in i + 1 .. Len(s) : ~Request(s[j], s[i].peer)

ResetEdge(p, q) ==
  /\ button[<<p, q>>] = "enabled" => NoRequest(queue[p], q)
  /\ Befriends(queue[p], q) => Final(q, p) /\ button[<<p, q>>] # "enabled"
  /\ Record(q, p) = "receiving" => Final(p, q)
  /\ row[<<q, p>>] # "none" => Final(p, q)
  /\ Record(p, q) = "friending" => Final(p, q) /\ Final(q, p)

ResetInv ==
  /\ \A p \in Pet : RequestsFirst(queue[p])
  /\ \A p, q \in Pet : p # q => ResetEdge(p, q)

\* What a handler of p may add to a queue of n writes as the i-th of s: rooms, a
\* request whose Add button it disables, the two halves of an answer.
Requests(p, s, i) ==
  /\ s[i].val \in {"sending", "receiving"}
  /\ button[<<p, s[i].peer>>] = "enabled" /\ button'[<<p, s[i].peer>>] = "disabled"
  /\ s[i].val = "receiving" => i = Len(s)

Answers(p, s, n, i) ==
  /\ s[i].val = "friending"
  /\ row[<<p, s[i].peer>>] = "receiving" /\ button'[<<p, s[i].peer>>] # "enabled"
  /\ \A j \in i + 1 .. Len(s) : s[j].val = "friending"
  /\ s[i].doc = FriendDoc(p, s[i].peer) =>
       \E j \in i + 1 .. Len(s) : MakesFriend(s[j], FriendDoc(s[i].peer, p))
  /\ s[i].doc = FriendDoc(s[i].peer, p) =>
       \E j \in n + 1 .. i - 1 : MakesFriend(s[j], FriendDoc(p, s[i].peer))

Adding(p, s, n) ==
  \A i \in n + 1 .. Len(s) :
    s[i].doc \in FriendDocs => Requests(p, s, i) \/ Answers(p, s, n, i)

\* Two queues write the same, up to completions.
SameWrites(s, t) ==
  \A i \in 1 .. Len(s) : t[i].doc = s[i].doc /\ t[i].val = s[i].val /\ t[i].peer = s[i].peer

\* The queue of x after a handler.
AddsTo(x) ==
  /\ Len(queue'[x]) \in Nat /\ Len(queue'[x]) >= Len(queue[x])
  /\ SameWrites(queue[x], queue'[x])
  /\ Adding(x, queue'[x], Len(queue[x]))

\* A queue that stays, and one that the app's end leaves.
LEMMA AddsNothing ==
  ASSUME TypeOK, NEW x \in Pet, Len(queue'[x]) = Len(queue[x]), SameWrites(queue[x], queue'[x])
  PROVE  AddsTo(x)
<1>1. Len(queue[x]) \in Nat
  BY DEF TypeOK
<1>2. Len(queue[x]) + 1 .. Len(queue'[x]) = {}
  BY <1>1
<1> QED BY <1>1, <1>2 DEF AddsTo, Adding

\* A queue that is appended to.
LEMMA AddsAppend ==
  ASSUME TypeOK, NEW p \in Pet, NEW ws \in Seq(Write), Enqueue(p, ws), Adding(p, ws, 0),
         NEW x \in Pet
  PROVE  AddsTo(x)
<1> DEFINE n == Len(queue[p])
           u == queue[p] \o ws
<1>1. /\ n \in Nat /\ Len(ws) \in Nat /\ Len(u) = n + Len(ws)
      /\ \A i \in 1 .. n : u[i] = queue[p][i]
      /\ \A i \in 1 .. Len(ws) : u[n + i] = ws[i]
  BY ConcatProperties DEF TypeOK
<1>2. queue'[x] = IF x = p THEN u ELSE queue[x]
  BY DEF Enqueue, TypeOK
<1> HIDE DEF u, n
<1>3. CASE x = p
  <2>1. SameWrites(queue[p], u)
    BY <1>1 DEF SameWrites, n
  <2>2. ASSUME NEW i \in n + 1 .. Len(u), u[i].doc \in FriendDocs
        PROVE  Requests(p, u, i) \/ Answers(p, u, n, i)
    <3> DEFINE k == i - n
    <3>1. k \in 0 + 1 .. Len(ws) /\ i = n + k /\ u[i] = ws[k]
      BY <1>1
    <3>2. /\ \A j \in i + 1 .. Len(u) : j - n \in k + 1 .. Len(ws) /\ u[j] = ws[j - n]
          /\ \A j \in k + 1 .. Len(ws) : n + j \in i + 1 .. Len(u) /\ u[n + j] = ws[j]
          /\ \A j \in 0 + 1 .. k - 1 : n + j \in n + 1 .. i - 1 /\ u[n + j] = ws[j]
          /\ k = Len(ws) => i = Len(u)
      BY <1>1
    <3> HIDE DEF k
    <3>3. Requests(p, ws, k) \/ Answers(p, ws, 0, k)
      BY <2>2, <3>1 DEF Adding
    <3>4. Requests(p, ws, k) => Requests(p, u, i)
      BY <3>1, <3>2 DEF Requests
    <3>5. ASSUME Answers(p, ws, 0, k) PROVE Answers(p, u, n, i)
      <4>1. \A j \in i + 1 .. Len(u) : u[j].val = "friending"
        BY <3>2, <3>5 DEF Answers
      <4> QED BY <3>1, <3>2, <3>5, <4>1 DEF Answers
    <3> QED BY <3>3, <3>4, <3>5
  <2>3. Adding(p, u, n)
    BY <2>2 DEF Adding
  <2> QED BY <1>1, <1>2, <1>3, <2>1, <2>3 DEF AddsTo, n
<1>4. CASE x # p
  <2>1. queue'[x] = queue[x]
    BY <1>2, <1>4
  <2> QED BY <2>1, AddsNothing DEF SameWrites
<1> QED BY <1>3, <1>4

\* addFriend.
LEMMA AddsRequest ==
  ASSUME TypeOK, Careful, NEW p \in Pet, NEW q \in Pet, p # q, AddIos(p, q), NEW x \in Pet
  PROVE  AddsTo(x)
<1> DEFINE ws == RequestIos(adds + 1, p, q)
           a == Put(RoomDoc(p, q), OfferedRoom(adds + 1, p), q)
           b == Put(FriendDoc(p, q), "sending", q)
           c == Put(FriendDoc(q, p), "receiving", q)
<1>1. adds + 1 \in Nat
  BY DEF TypeOK
<1>2. ws \in Seq(Write)
  BY <1>1, AddFriendTells
<1>3. button[<<p, q>>] = "enabled" /\ button'[<<p, q>>] = "disabled" /\ Enqueue(p, ws)
  BY DocTypes DEF AddIos, Careful, TypeOK
<1>4. ws = << a, b, c >>
  BY DEF RequestIos
<1>r. RoomDoc(p, q) \notin FriendDocs
  BY DocTypes, KindsDiffer
<1>5. /\ a.doc \notin FriendDocs /\ b.val = "sending" /\ b.peer = q
      /\ c.val = "receiving" /\ c.peer = q
  BY <1>r, PutFields
<1> HIDE DEF ws, a, b, c
<1>6. Len(ws) = 3 /\ ws[1] = a /\ ws[2] = b /\ ws[3] = c
  BY <1>4
<1>7. Adding(p, ws, 0)
  <2> SUFFICES ASSUME NEW i \in 1 .. 3, ws[i].doc \in FriendDocs PROVE Requests(p, ws, i)
    BY <1>6 DEF Adding
  <2>1. i = 1 \/ i = 2 \/ i = 3
    OBVIOUS
  <2> QED BY <1>3, <1>5, <1>6, <2>1 DEF Requests
<1> QED BY <1>2, <1>3, <1>7, AddsAppend

\* acceptFriend.
LEMMA AddsAnswer ==
  ASSUME TypeOK, NEW p \in Pet, NEW q \in Pet, p # q, AcceptIos(p, q), NEW x \in Pet
  PROVE  AddsTo(x)
<1> DEFINE b == Put(FriendDoc(p, q), "friending", q)
           c == Put(FriendDoc(q, p), "friending", q)
           ws == << b, c >>
<1>1. ws \in Seq(Write)
  BY PutTypes DEF Status
<1>2. /\ row[<<p, q>>] = "receiving" /\ Enqueue(p, ws)
      /\ button[<<p, q>>] # "enabled" /\ button'[<<p, q>>] # "enabled"
  BY DocTypes DEF AcceptIos, CanAnswer, DetailOpen, screens
<1>3. /\ b.val = "friending" /\ b.peer = q /\ b.doc = FriendDoc(p, q)
      /\ c.val = "friending" /\ c.peer = q /\ c.doc = FriendDoc(q, p)
      /\ FriendDoc(p, q) # FriendDoc(q, p)
  BY PutFields, PairDocs
<1> HIDE DEF b, c
<1>4. Len(ws) = 2 /\ ws[1] = b /\ ws[2] = c
  OBVIOUS
<1> HIDE DEF ws
<1>5. Adding(p, ws, 0)
  <2> SUFFICES ASSUME NEW i \in 1 .. 2 PROVE Answers(p, ws, 0, i)
    BY <1>4 DEF Adding
  <2>1. i = 1 \/ i = 2
    OBVIOUS
  <2>2. i = 1 => 2 \in i + 1 .. Len(ws)
    BY <1>4
  <2>3. i = 2 => 1 \in 0 + 1 .. i - 1
    OBVIOUS
  <2>4. \A j \in i + 1 .. Len(ws) : j = 2
    BY <1>4
  <2> QED BY <1>2, <1>3, <1>4, <2>1, <2>2, <2>3, <2>4 DEF Answers, MakesFriend
<1> QED BY <1>1, <1>2, <1>5, AddsAppend

\* Whatever an app does, its queue and the others' are added to in this way.
LEMMA QuietAdds ==
  ASSUME TypeOK, Careful, NEW p \in Pet, NEW q \in Pet, p # q,
         User(p, q) \/ Callback(p, q) \/ LoadList(p), GrowInv, NEW x \in Pet
  PROVE  AddsTo(x)
<1>1. CASE queue' = queue
  BY <1>1, AddsNothing DEF SameWrites
<1>2. CASE AnswerAccept(p, q)
  <2> DEFINE room == Sees(p, RoomDoc(p, q))
             ack == IF p \in Ios THEN "openChat" ELSE NoAck
             w == PutThen(RoomDoc(p, q), AcceptedRoom(room, p), q, ack)
  <2>1. CASE room = Absent
    BY <1>1, <1>2, <2>1 DEF AnswerAccept
  <2>2. CASE room # Absent
    <3>1. w \in Write
      BY <2>2, SeesRoom, RoomTypes, PutTypes
    <3>2. w.doc \notin FriendDocs
      <4>1. RoomDoc(p, q) \notin FriendDocs
        BY DocTypes, KindsDiffer
      <4> QED BY <4>1, PutFields
    <3>3. Enqueue(p, << w >>)
      BY <1>2, <2>2 DEF AnswerAccept
    <3> HIDE DEF w
    <3>4. << w >> \in Seq(Write) /\ \A i \in 0 + 1 .. Len(<< w >>) : << w >>[i] = w
      BY <3>1
    <3>5. Adding(p, << w >>, 0)
      BY <3>2, <3>4 DEF Adding
    <3> QED BY <3>3, <3>4, <3>5, AddsAppend
  <2> QED BY <2>1, <2>2
<1>3. CASE AnswerDelete(p, q)
  <2>1. PICK k \in {"delete1", "delete2", "delete3"} : Read(k, q) \in reads[p]
    BY <1>3 DEF AnswerDelete, DeleteLink
  <2>2. GrowRead(p, Read(k, q), db) /\ Read(k, q).kind = k
    BY <2>1, PutFields DEF GrowInv
  <2> QED BY <2>2 DEF GrowRead
<1>4. CASE ChatCrashes(p, q)
  <2>1. queue'[x] = IF x = p THEN WithoutAcks(queue[p]) ELSE queue[x]
    BY <1>4 DEF ChatCrashes, StopApp, TypeOK
  <2>2. queue[p] \in Seq(Write)
    BY DEF TypeOK
  <2> QED BY <2>1, <2>2, KilledWrites, AddsNothing DEF SameWrites
<1>5. CASE OpenDetail(p, q) \/ CloseDetail(p, q) \/ OpenChat(p, q) \/ ChatOpens(p, q)
             \/ AnswerCheck(p, q) \/ ListChange(p, q) \/ LoadList(p)
  BY <1>1, <1>5 DEF OpenDetail, CloseDetail, OpenChat, ChatOpens, AnswerCheck, ListChange, LoadList
<1>6. ~AddAndroid(p, q) /\ ~AcceptAndroid(p, q) /\ ~RejectIos(p, q) /\ ~RejectAndroid(p, q)
  BY DEF Careful, AddAndroid, AcceptAndroid, RejectIos, RejectAndroid
<1> QED BY <1>2, <1>3, <1>4, <1>5, <1>6, AddsRequest, AddsAnswer DEF User, Callback

\* A step that leaves the server alone, adds to the queues as handlers do,
\* enables no Add but for a pet nothing is known of and lists records only.
Quiet ==
  /\ db' = db
  /\ \A x \in Pet : AddsTo(x)
  /\ \A x, y \in Pet : x # y =>
       /\ button'[<<x, y>>] = "enabled" =>
            button[<<x, y>>] = "enabled" \/ Sees(x, FriendDoc(x, y)) = Absent
       /\ row'[<<x, y>>] # "none" =>
            row[<<x, y>>] # "none" \/ Listed(Sees(x, FriendDoc(x, y))) # "none"

\* The buttons and the rows of an app that stops.
LEMMA StopScreens ==
  ASSUME TypeOK, NEW p \in Pet, StopApp(p), NEW e \in Edge
  PROVE  /\ button'[e] = "enabled" => button[e] = "enabled"
         /\ row'[e] # "none" => row[e] # "none"
  BY DEF StopApp, TypeOK

\* Every step of the apps is quiet.
LEMMA AppsQuiet ==
  ASSUME TypeOK, Careful, GrowInv, NEW p \in Pet, NEW q \in Pet, p # q,
         User(p, q) \/ Callback(p, q) \/ LoadList(p)
  PROVE  Quiet
<1>1. \A x \in Pet : AddsTo(x)
  BY QuietAdds
<1>e. <<p, q>> \in Edge /\ p \in Ios
  BY DocTypes DEF Careful
<1>2. ASSUME NEW x \in Pet, NEW y \in Pet, x # y
      PROVE  /\ button'[<<x, y>>] = "enabled" =>
                  button[<<x, y>>] = "enabled" \/ Sees(x, FriendDoc(x, y)) = Absent
             /\ row'[<<x, y>>] # "none" =>
                  row[<<x, y>>] # "none" \/ Listed(Sees(x, FriendDoc(x, y))) # "none"
  <2>e. <<x, y>> \in Edge /\ <<x, y>>[1] = x /\ <<x, y>>[2] = y /\ (<<x, y>> = <<p, q>> => x = p /\ y = q)
    BY <1>2, DocTypes
  <2> DEFINE E == <<x, y>>
  <2>1. CASE ChatCrashes(p, q)
    BY <2>1, <2>e, StopScreens DEF ChatCrashes
  <2>2. CASE OpenDetail(p, q) \/ CloseDetail(p, q) \/ AddIos(p, q)
    BY <1>e, <2>2, <2>e DEF OpenDetail, CloseDetail, AddIos, TypeOK
  <2>3. CASE AnswerCheck(p, q)
    <3>1. /\ button'[E] = "enabled" => button[E] = "enabled" \/ (Sees(p, FriendDoc(p, q)) = Absent /\ E = <<p, q>>)
          /\ row' = row
      BY <1>e, <2>3, <2>e DEF AnswerCheck, TypeOK
    <3> QED BY <2>e, <3>1
  <2>4. CASE LoadList(p)
    <3>1. button' = button /\ row'[E] = IF E[1] = p THEN Listed(Sees(p, FriendDoc(p, E[2]))) ELSE row[E]
      BY <2>4, <2>e DEF LoadList
    <3> QED BY <2>e, <3>1
  <2>5. CASE AcceptIos(p, q) \/ OpenChat(p, q) \/ AnswerAccept(p, q) \/ AnswerDelete(p, q)
               \/ ChatOpens(p, q)
    BY <2>5 DEF AcceptIos, OpenChat, AnswerAccept, AnswerDelete, DeleteLink, ChatOpens, screens
  <2>6. ~AddAndroid(p, q) /\ ~AcceptAndroid(p, q) /\ ~RejectIos(p, q) /\ ~RejectAndroid(p, q)
        /\ ~ListChange(p, q)
    BY DEF Careful, AddAndroid, AcceptAndroid, RejectIos, RejectAndroid, ListChange
  <2> QED BY <2>1, <2>2, <2>3, <2>4, <2>5, <2>6 DEF User, Callback
<1>3. db' = db
  BY DEF User, Callback, OpenDetail, CloseDetail, AddIos, AddAndroid, AcceptIos, AcceptAndroid,
         RejectIos, RejectAndroid, OpenChat, AnswerCheck, AnswerAccept, AnswerDelete, DeleteLink,
         ChatOpens, ChatCrashes, ListChange, LoadList
<1> QED BY <1>1, <1>2, <1>3 DEF Quiet

\* A device that knows nothing of a pet has no request to it queued.
LEMMA UnknownNoRequest ==
  ASSUME TypeOK, GrowInv, NEW p \in Pet, NEW q \in Pet, p # q, Sees(p, FriendDoc(p, q)) = Absent
  PROVE  /\ NoRequest(queue[p], q) /\ ~Befriends(queue[p], q)
         /\ ~Acquainted(db, p, q)
<1>1. FriendDoc(p, q) \in Doc /\ GrowQueue(p, queue[p], db)
  BY DocTypes DEF GrowInv
<1>2. db[FriendDoc(p, q)] = Absent /\ ~Pends(queue[p], FriendDoc(p, q))
  BY <1>1, SeesGrown
<1>3. ~Acquainted(db, p, q)
  BY <1>2 DEF Acquainted
<1>4. ASSUME NEW i \in 1 .. Len(queue[p]), queue[p][i].doc \in FriendDocs, queue[p][i].peer = q
      PROVE  FALSE
  <2>1. GrowWrite(queue[p], i, p, db) /\ Written(p, queue[p][i])
    BY <1>1 DEF GrowQueue, GrowWrite
  <2>2. CASE queue[p][i].doc = FriendDoc(p, q)
    BY <1>2, <2>2 DEF Pends
  <2>3. CASE queue[p][i].val = "receiving"
    <3>1. \E j \in 1 .. i - 1 : queue[p][j].doc = FriendDoc(p, q)
      BY <1>2, <1>4, <2>1, <2>3 DEF GrowWrite, Says, Before
    <3>2. \A j \in 1 .. i - 1 : j \in 1 .. Len(queue[p])
      BY DEF TypeOK
    <3> QED BY <1>2, <3>1, <3>2 DEF Pends
  <2>4. CASE queue[p][i].val = "friending"
    BY <1>3, <1>4, <2>1, <2>4 DEF GrowWrite, Says
  <2> QED BY <1>4, <2>1, <2>2, <2>3, <2>4, WrittenRecord
<1> QED BY <1>3, <1>4 DEF NoRequest, Befriends, Request, Says

\* What is added to a queue of p about q.
LEMMA AddedRequest ==
  ASSUME TypeOK, NEW p \in Pet, NEW q, AddsTo(p), NEW i \in 1 .. Len(queue'[p]),
         queue'[p][i].doc \in FriendDocs, queue'[p][i].peer = q
  PROVE  \/ /\ i \in 1 .. Len(queue[p])
            /\ queue[p][i].doc = queue'[p][i].doc /\ queue[p][i].val = queue'[p][i].val
            /\ queue[p][i].peer = q
         \/ /\ i \in Len(queue[p]) + 1 .. Len(queue'[p])
            /\ Requests(p, queue'[p], i) \/ Answers(p, queue'[p], Len(queue[p]), i)
<1>1. Len(queue[p]) \in Nat /\ Len(queue'[p]) \in Nat
  BY DEF TypeOK, AddsTo
<1>2. i \in 1 .. Len(queue[p]) \/ i \in Len(queue[p]) + 1 .. Len(queue'[p])
  BY <1>1
<1> QED BY <1>2 DEF AddsTo, SameWrites, Adding

\* A request that appears in p's queue came from an enabled button.
LEMMA NewRequest ==
  ASSUME TypeOK, NEW p \in Pet, NEW q, AddsTo(p), NEW i \in 1 .. Len(queue'[p]),
         Request(queue'[p][i], q)
  PROVE  \/ i \in 1 .. Len(queue[p]) /\ Request(queue[p][i], q)
         \/ /\ i \in Len(queue[p]) + 1 .. Len(queue'[p])
            /\ button[<<p, q>>] = "enabled" /\ button'[<<p, q>>] = "disabled"
            /\ queue'[p][i].val = "receiving" => i = Len(queue'[p])
<1>1. queue'[p][i].doc \in FriendDocs /\ queue'[p][i].peer = q /\ queue'[p][i].val # "friending"
  BY DEF Request
<1>2. CASE /\ i \in 1 .. Len(queue[p])
           /\ queue[p][i].doc = queue'[p][i].doc /\ queue[p][i].val = queue'[p][i].val
           /\ queue[p][i].peer = q
  BY <1>2 DEF Request
<1>3. CASE /\ i \in Len(queue[p]) + 1 .. Len(queue'[p])
           /\ Requests(p, queue'[p], i) \/ Answers(p, queue'[p], Len(queue[p]), i)
  BY <1>1, <1>3 DEF Requests, Answers
<1> QED BY <1>1, <1>2, <1>3, AddedRequest

\* A pet that is done with requests stays so.
LEMMA FinalQuiet ==
  ASSUME TypeOK, GrowInv, Quiet, NEW p \in Pet, NEW q \in Pet, p # q, Final(p, q)
  PROVE  Final(p, q)'
<1>1. AddsTo(p) /\ db' = db
  BY DEF Quiet
<1>2. NoRequest(queue'[p], q)
  BY <1>1, NewRequest DEF Final, NoRequest
<1>3. button'[<<p, q>>] # "enabled"
  BY UnknownNoRequest DEF Final, Quiet
<1> QED BY <1>1, <1>2, <1>3 DEF Final

\* A pet whose record the other lists is done with requests.
LEMMA ListedFinal ==
  ASSUME TypeOK, GrowInv, ResetInv, NEW p \in Pet, NEW q \in Pet, p # q,
         Listed(Sees(q, FriendDoc(q, p))) # "none"
  PROVE  Final(p, q)
<1> DEFINE d == FriendDoc(q, p)
<1>1. Sees(q, d) \in {"receiving", "friending"}
  BY DEF Listed
<1>2. queue[q] \in Seq(Write) /\ Len(queue[q]) \in Nat
  BY DEF TypeOK
<1>3. CASE Sees(q, d) = db[d]
  BY <1>1, <1>3 DEF ResetInv, ResetEdge, Record
<1>4. CASE \E i \in 1 .. Len(queue[q]) : queue[q][i].doc = d /\ Sees(q, d) = queue[q][i].val
  <2>1. PICK i \in 1 .. Len(queue[q]) : queue[q][i].doc = d /\ Sees(q, d) = queue[q][i].val
    BY <1>4
  <2>2. Written(q, queue[q][i])
    BY DEF GrowInv, GrowQueue, GrowWrite
  <2>3. d \in FriendDocs
    BY DocTypes
  <2>4. \/ d = FriendDoc(q, queue[q][i].peer) /\ queue[q][i].val \in {"sending", "friending"}
        \/ d = FriendDoc(queue[q][i].peer, q)
    BY <2>1, <2>2, <2>3, WrittenRecord
  <2>5. queue[q][i].val = "friending" /\ queue[q][i].peer = p
    BY <1>1, <2>1, <2>4, FriendDocOf
  <2>6. Befriends(queue[q], p)
    BY <2>1, <2>3, <2>5 DEF Befriends, Says
  <2> QED BY <2>6 DEF ResetInv, ResetEdge
<1> QED BY <1>2, <1>3, <1>4, ViewIsServerOrPending DEF Sees

\* Quiet steps keep requests before answers.
LEMMA ResetQuiet ==
  ASSUME TypeOK, GrowInv, ResetInv, Quiet
  PROVE  ResetInv'
<1>1. ASSUME NEW p \in Pet, NEW q \in Pet, p # q, Befriends(queue'[p], q)
      PROVE  Befriends(queue[p], q) \/ (row[<<p, q>>] = "receiving" /\ button'[<<p, q>>] # "enabled")
  <2>1. PICK i \in 1 .. Len(queue'[p]) : Says(queue'[p][i], "friending") /\ queue'[p][i].peer = q
    BY <1>1 DEF Befriends
  <2>2. queue'[p][i].doc \in FriendDocs /\ queue'[p][i].val = "friending"
    BY <2>1 DEF Says
  <2>3. AddsTo(p)
    BY DEF Quiet
  <2>4. CASE /\ i \in 1 .. Len(queue[p])
             /\ queue[p][i].doc = queue'[p][i].doc /\ queue[p][i].val = queue'[p][i].val
             /\ queue[p][i].peer = q
    BY <2>2, <2>4 DEF Befriends, Says
  <2>5. CASE Requests(p, queue'[p], i) \/ Answers(p, queue'[p], Len(queue[p]), i)
    BY <2>1, <2>2, <2>5 DEF Requests, Answers
  <2> QED BY <2>1, <2>2, <2>3, <2>4, <2>5, AddedRequest
<1>2. ASSUME NEW p \in Pet PROVE RequestsFirst(queue'[p])
  <2> DEFINE t == queue'[p]
             n == Len(queue[p])
  <2>1. SUFFICES ASSUME NEW i \in 1 .. Len(t), Says(t[i], "receiving") \/ Says(t[i], "friending"),
                        NEW j \in i + 1 .. Len(t), Request(t[j], t[i].peer)
                 PROVE  FALSE
    BY DEF RequestsFirst
  <2>2. AddsTo(p) /\ n \in Nat /\ Len(t) \in Nat
    BY DEF Quiet, AddsTo, TypeOK
  <2>3. t[i].doc \in FriendDocs /\ t[i].val \in {"receiving", "friending"} /\ j \in 1 .. Len(t)
    BY <2>1, <2>2 DEF Says
  <2>4. CASE i \in 1 .. n /\ j \in 1 .. n
    <3>1. /\ queue[p][i].doc = t[i].doc /\ queue[p][i].val = t[i].val /\ queue[p][i].peer = t[i].peer
          /\ queue[p][j].doc = t[j].doc /\ queue[p][j].val = t[j].val /\ queue[p][j].peer = t[j].peer
      BY <2>2, <2>4 DEF AddsTo, SameWrites
    <3>2. j \in i + 1 .. n
      BY <2>2, <2>4
    <3> QED BY <2>1, <2>4, <3>1, <3>2 DEF ResetInv, RequestsFirst, Request, Says
  <2>5. CASE i \in 1 .. n /\ j \notin 1 .. n
    <3>1. queue[p][i].doc = t[i].doc /\ queue[p][i].val = t[i].val /\ queue[p][i].peer = t[i].peer
      BY <2>2, <2>5 DEF AddsTo, SameWrites
    <3>2. button[<<p, t[i].peer>>] = "enabled"
      BY <2>1, <2>2, <2>3, <2>5, NewRequest
    <3>3. Written(p, queue[p][i])
      BY <2>5 DEF GrowInv, GrowQueue, GrowWrite
    <3>4. t[i].peer \in Pet /\ t[i].peer # p
      BY <3>1, <3>3 DEF Written
    <3>5. NoRequest(queue[p], t[i].peer) /\ ~Befriends(queue[p], t[i].peer)
      BY <3>2, <3>4 DEF ResetInv, ResetEdge
    <3> QED BY <2>3, <2>5, <3>1, <3>5 DEF NoRequest, Befriends, Request, Says
  <2>6. CASE i \notin 1 .. n
    <3>1. i \in n + 1 .. Len(t) /\ j \in i + 1 .. Len(t) /\ i # Len(t)
      BY <2>2, <2>6
    <3>2. Requests(p, t, i) \/ Answers(p, t, n, i)
      BY <2>2, <2>3, <3>1 DEF AddsTo, Adding
    <3>3. t[j].val # "friending"
      BY <2>1 DEF Request
    <3> QED BY <2>3, <3>1, <3>2, <3>3 DEF Requests, Answers
  <2> QED BY <2>4, <2>5, <2>6
<1>3. ASSUME NEW p \in Pet, NEW q \in Pet, p # q PROVE ResetEdge(p, q)'
  <2>1. ResetEdge(p, q) /\ ResetEdge(q, p) /\ AddsTo(p) /\ db' = db
    BY <1>3 DEF ResetInv, Quiet
  <2>2. Final(p, q) => Final(p, q)'
    BY <1>3, FinalQuiet
  <2>3. Final(q, p) => Final(q, p)'
    BY <1>3, FinalQuiet
  <2>4. ASSUME button'[<<p, q>>] = "enabled" PROVE NoRequest(queue'[p], q)
    <3>1. NoRequest(queue[p], q)
      BY <1>3, <2>1, <2>4, UnknownNoRequest DEF Quiet, ResetEdge
    <3> QED BY <2>1, <2>4, <3>1, NewRequest DEF NoRequest
  <2>5. ASSUME Befriends(queue'[p], q) PROVE Final(q, p)' /\ button'[<<p, q>>] # "enabled"
    <3>1. CASE Befriends(queue[p], q)
      <4>1. Final(q, p)' /\ button[<<p, q>>] # "enabled"
        BY <2>1, <2>3, <3>1 DEF ResetEdge
      <4>2. button'[<<p, q>>] # "enabled"
        BY <1>3, <3>1, <4>1, UnknownNoRequest DEF Quiet
      <4> QED BY <4>1, <4>2
    <3>2. CASE row[<<p, q>>] = "receiving" /\ button'[<<p, q>>] # "enabled"
      BY <2>1, <2>3, <3>2 DEF ResetEdge
    <3> QED BY <1>1, <1>3, <2>5, <3>1, <3>2
  <2>6. ASSUME row'[<<q, p>>] # "none" PROVE Final(p, q)'
    <3>1. row[<<q, p>>] # "none" \/ Listed(Sees(q, FriendDoc(q, p))) # "none"
      BY <1>3, <2>6 DEF Quiet
    <3>2. Final(p, q)
      BY <1>3, <2>1, <3>1, ListedFinal DEF ResetEdge
    <3> QED BY <2>2, <3>2
  <2>7. /\ Record(q, p)' = Record(q, p)
        /\ Record(p, q)' = Record(p, q)
    BY <2>1 DEF Record
  <2> QED BY <2>1, <2>2, <2>3, <2>4, <2>5, <2>6, <2>7 DEF ResetEdge
<1> QED BY <1>2, <1>3 DEF ResetInv

\* The queue of an iOS app after its oldest write is applied.
LEMMA FlushTail ==
  ASSUME TypeOK, CrossInv, NEW p \in Pet, Flush(p)
  PROVE  /\ \A x \in Pet : queue'[x] = IF x = p THEN Tail(queue[p]) ELSE queue[x]
         /\ row' = row /\ button' = button
<1>1. queue[p] \in Seq(Write) /\ queue[p] # << >>
  BY DEF Flush, TypeOK
<1>2. Head(queue[p]).ack # "receiver"
  <2>1. 1 \in 1 .. Len(queue[p]) /\ Head(queue[p]) = queue[p][1]
    BY <1>1
  <2> QED BY <2>1, NoReceiver
<1>3. queue' = [queue EXCEPT ![p] = Tail(queue[p]) \o << >>]
  BY <1>2 DEF Flush
<1>4. Tail(queue[p]) \o << >> = Tail(queue[p])
  BY <1>1
<1> QED BY <1>3, <1>4 DEF TypeOK, Flush, screens

\* The rest of a queue.
LEMMA TailWrites ==
  ASSUME NEW s \in Seq(Write), s # << >>
  PROVE  /\ Len(s) \in Nat /\ Len(s) >= 1 /\ Len(Tail(s)) = Len(s) - 1 /\ Head(s) = s[1]
         /\ \A i \in 1 .. Len(Tail(s)) : i + 1 \in 1 .. Len(s) /\ Tail(s)[i] = s[i + 1]
         /\ \A i \in 2 .. Len(s) : i - 1 \in 1 .. Len(Tail(s)) /\ Tail(s)[i - 1] = s[i]
<1> DEFINE t == Tail(s)
<1>1. /\ Len(s) \in Nat /\ Len(s) >= 1 /\ Len(t) = Len(s) - 1 /\ Head(s) = s[1]
      /\ \A i \in 1 .. Len(t) : i + 1 \in 1 .. Len(s) /\ t[i] = s[i + 1]
  OBVIOUS
<1> HIDE DEF t
<1>2. \A i \in 2 .. Len(s) : i - 1 \in 1 .. Len(t) /\ t[i - 1] = s[i]
  <2> TAKE i \in 2 .. Len(s)
  <2>1. i - 1 \in 1 .. Len(t) /\ (i - 1) + 1 = i
    BY <1>1
  <2> QED BY <1>1, <2>1
<1> QED BY <1>1, <1>2 DEF t

\* Requests stay before answers, and none is behind the head that would undo it.
LEMMA ResetTail ==
  ASSUME NEW s \in Seq(Write), s # << >>, RequestsFirst(s)
  PROVE  /\ RequestsFirst(Tail(s))
         /\ \A q : NoRequest(s, q) => NoRequest(Tail(s), q) /\ ~Request(Head(s), q)
         /\ \A q : Befriends(Tail(s), q) => Befriends(s, q)
         /\ Says(Head(s), "receiving") \/ Says(Head(s), "friending") =>
              NoRequest(Tail(s), Head(s).peer)
         /\ Says(Head(s), "friending") => Befriends(s, Head(s).peer)
<1> DEFINE t == Tail(s)
<1>1. /\ Len(s) \in Nat /\ Len(s) >= 1 /\ Len(t) = Len(s) - 1 /\ Head(s) = s[1]
      /\ \A i \in 1 .. Len(t) : i + 1 \in 1 .. Len(s) /\ t[i] = s[i + 1]
  BY TailWrites
<1> HIDE DEF t
<1>2. ASSUME NEW i \in 1 .. Len(t), Says(t[i], "receiving") \/ Says(t[i], "friending"),
             NEW j \in i + 1 .. Len(t)
      PROVE  ~Request(t[j], t[i].peer)
  <2>1. i + 1 \in 1 .. Len(s) /\ t[i] = s[i + 1]
    BY <1>1
  <2>2. j + 1 \in (i + 1) + 1 .. Len(s) /\ t[j] = s[j + 1]
    BY <1>1
  <2> QED BY <1>2, <2>1, <2>2 DEF RequestsFirst
<1>3. 1 \in 1 .. Len(s)
  BY <1>1
<1>4. \A q : NoRequest(s, q) => NoRequest(t, q) /\ ~Request(Head(s), q)
  BY <1>1, <1>3 DEF NoRequest
<1>5. \A q : Befriends(t, q) => Befriends(s, q)
  BY <1>1 DEF Befriends
<1>6. ASSUME Says(Head(s), "receiving") \/ Says(Head(s), "friending")
      PROVE  NoRequest(t, Head(s).peer)
  <2>1. \A j \in 1 + 1 .. Len(s) : ~Request(s[j], s[1].peer)
    BY <1>1, <1>3, <1>6 DEF RequestsFirst
  <2>2. \A i \in 1 .. Len(t) : i + 1 \in 1 + 1 .. Len(s)
    BY <1>1
  <2> QED BY <1>1, <2>1, <2>2 DEF NoRequest
<1>7. Says(Head(s), "friending") => Befriends(s, Head(s).peer)
  BY <1>1, <1>3 DEF Befriends
<1> QED BY <1>2, <1>4, <1>5, <1>6, <1>7 DEF RequestsFirst, t

\* A record that is applied is one of the pair's, and which request or answer it is.
LEMMA AppliedRecord ==
  ASSUME TypeOK, GrowInv, NEW p \in Pet, Flush(p), NEW a \in Pet, NEW b \in Pet, a # b,
         Head(queue[p]).doc = FriendDoc(a, b)
  PROVE  LET w == Head(queue[p])
         IN  /\ Record(a, b)' = w.val
             /\ \/ /\ p = a /\ w.peer = b
                   /\ (Request(w, b) /\ w.val = "sending") \/ Says(w, "friending")
                \/ /\ p = b /\ w.peer = a
                   /\ (Request(w, a) /\ Says(w, "receiving")) \/ Says(w, "friending")
<1> DEFINE w == Head(queue[p])
<1>1. /\ queue[p] \in Seq(Write) /\ queue[p] # << >>
      /\ \A d \in Doc : db'[d] = IF d = w.doc THEN w.val ELSE db[d]
  BY FlushDocs
<1>2. 1 \in 1 .. Len(queue[p]) /\ w = queue[p][1]
  BY <1>1
<1>3. Written(p, w)
  BY <1>2 DEF GrowInv, GrowQueue, GrowWrite
<1>4. FriendDoc(a, b) \in FriendDocs /\ FriendDoc(a, b) \in Doc
  BY DocTypes
<1>5. Record(a, b)' = w.val
  BY <1>1, <1>4 DEF Record
<1> HIDE DEF w
<1>6. w.doc = FriendDoc(a, b)
  BY DEF w
<1>7. \/ w.doc = FriendDoc(p, w.peer) /\ w.val \in {"sending", "friending"}
      \/ w.doc = FriendDoc(w.peer, p) /\ w.val = "receiving"
      \/ w.doc = FriendDoc(w.peer, p) /\ w.val = "friending"
  BY <1>3, <1>4, <1>6, WrittenRecord
<1>8. CASE w.doc = FriendDoc(p, w.peer) /\ w.val \in {"sending", "friending"}
  <2>1. FriendDoc(p, w.peer) = FriendDoc(a, b)
    BY <1>6, <1>8
  <2>2. p = a /\ w.peer = b
    BY <2>1, FriendDocOf
  <2> QED BY <1>4, <1>5, <1>6, <1>8, <2>2 DEF Request, Says, w
<1>9. CASE w.doc = FriendDoc(w.peer, p) /\ w.val \in {"receiving", "friending"}
  <2>1. FriendDoc(w.peer, p) = FriendDoc(a, b)
    BY <1>6, <1>9
  <2>2. p = b /\ w.peer = a
    BY <2>1, FriendDocOf
  <2> QED BY <1>4, <1>5, <1>6, <1>9, <2>2 DEF Request, Says, w
<1> QED BY <1>7, <1>8, <1>9

\* A record that is not applied stays.
LEMMA OtherRecord ==
  ASSUME TypeOK, NEW p \in Pet, Flush(p), NEW a \in Pet, NEW b \in Pet, a # b,
         Head(queue[p]).doc # FriendDoc(a, b)
  PROVE  Record(a, b)' = Record(a, b)
<1>1. FriendDoc(a, b) \in Doc
  BY DocTypes
<1> QED BY <1>1, FlushDocs DEF Record

\* Applying a write leaves a pet done with requests so.
LEMMA FinalFlush ==
  ASSUME TypeOK, GrowInv, CrossInv, ResetInv, NEW p \in Pet, Flush(p),
         NEW a \in Pet, NEW b \in Pet, a # b, Final(a, b)
  PROVE  Final(a, b)'
<1>1. /\ queue[p] \in Seq(Write) /\ queue[p] # << >>
      /\ \A d \in Doc : db'[d] = IF d = Head(queue[p]).doc THEN Head(queue[p]).val ELSE db[d]
  BY FlushDocs
<1>2. GrowQueue(p, queue[p], db) /\ RequestsFirst(queue[p])
  BY DEF GrowInv, ResetInv
<1>3. \A d \in Doc : db[d] # Absent => db'[d] # Absent
  BY <1>1, <1>2, GrowTail
<1>4. Acquainted(db, a, b)'
  BY <1>3, DocTypes DEF Final, Acquainted
<1>5. NoRequest(queue'[a], b)
  BY <1>1, <1>2, FlushTail, ResetTail DEF Final
<1> QED BY <1>4, <1>5, FlushTail DEF Final

\* Applying a write keeps the invariant.
LEMMA ResetFlush ==
  ASSUME TypeOK, GrowInv, GrowInv', CrossInv, ResetInv, NEW p \in Pet, Flush(p)
  PROVE  ResetInv'
<1> DEFINE w == Head(queue[p])
<1>1. queue[p] \in Seq(Write) /\ queue[p] # << >>
  BY FlushDocs
<1>2. /\ \A x \in Pet : queue'[x] = IF x = p THEN Tail(queue[p]) ELSE queue[x]
      /\ row' = row /\ button' = button
  BY FlushTail
<1>3. \A x \in Pet : RequestsFirst(queue[x])
  BY DEF ResetInv
<1>4. \A x \in Pet : RequestsFirst(queue'[x])
  BY <1>1, <1>2, <1>3, ResetTail
<1>5. ASSUME NEW a \in Pet, NEW b \in Pet, a # b PROVE ResetEdge(a, b)'
  <2>1. ResetEdge(a, b) /\ ResetEdge(b, a)
    BY <1>5 DEF ResetInv
  <2>2. Final(a, b) => Final(a, b)'
    BY <1>5, FinalFlush
  <2>3. Final(b, a) => Final(b, a)'
    BY <1>5, FinalFlush
  <2>4. <<a, b>> \in Edge /\ <<b, a>> \in Edge /\ <<a, b>>[1] = a /\ <<a, b>>[2] = b
        /\ <<b, a>>[1] = b /\ <<b, a>>[2] = a
    BY <1>5, DocTypes
  <2>5. Record(b, a)' = "receiving" => Acquainted(db, a, b)'
    BY <2>4 DEF GrowInv, GrowDocs, Record, Acquainted
  <2>6. Record(a, b)' = "friending" => Acquainted(db, a, b)' /\ Acquainted(db, b, a)'
    BY <2>4 DEF GrowInv, GrowDocs, Record, Acquainted
  <2>7. ASSUME Record(b, a)' = "receiving" PROVE Final(a, b)'
    <3>1. CASE w.doc # FriendDoc(b, a)
      BY <1>5, <2>1, <2>2, <2>7, <3>1, OtherRecord DEF ResetEdge
    <3>2. CASE w.doc = FriendDoc(b, a)
      <4>1. p = a /\ w.peer = b /\ Request(w, b) /\ Says(w, "receiving")
        BY <1>5, <2>7, <3>2, AppliedRecord DEF Says
      <4>2. NoRequest(queue'[a], b)
        BY <1>1, <1>2, <1>3, <4>1, ResetTail
      <4>3. ~NoRequest(queue[a], b)
        BY <1>1, <1>3, <4>1, ResetTail
      <4> QED BY <1>2, <2>1, <2>5, <2>7, <4>2, <4>3 DEF ResetEdge, Final
    <3> QED BY <3>1, <3>2
  <2>8. ASSUME Record(a, b)' = "friending" PROVE Final(a, b)' /\ Final(b, a)'
    <3>1. CASE w.doc # FriendDoc(a, b)
      BY <1>5, <2>1, <2>2, <2>3, <2>8, <3>1, OtherRecord DEF ResetEdge
    <3>2. CASE w.doc = FriendDoc(a, b)
      <4>1. Says(w, "friending") /\ ((p = a /\ w.peer = b) \/ (p = b /\ w.peer = a))
        BY <1>5, <2>8, <3>2, AppliedRecord DEF Says
      <4>2. NoRequest(queue'[p], w.peer) /\ Befriends(queue[p], w.peer)
        BY <1>1, <1>2, <1>3, <4>1, ResetTail
      <4>3. CASE p = a /\ w.peer = b
        <5>1. Final(b, a) /\ button[<<a, b>>] # "enabled"
          BY <2>1, <4>2, <4>3 DEF ResetEdge
        <5> QED BY <1>2, <2>3, <2>6, <2>8, <4>2, <4>3, <5>1 DEF Final
      <4>4. CASE p = b /\ w.peer = a
        <5>1. Final(a, b) /\ button[<<b, a>>] # "enabled"
          BY <2>1, <4>2, <4>4 DEF ResetEdge
        <5> QED BY <1>2, <2>2, <2>6, <2>8, <4>2, <4>4, <5>1 DEF Final
      <4> QED BY <4>1, <4>3, <4>4
    <3> QED BY <3>1, <3>2
  <2>0. /\ NoRequest(queue[a], b) => NoRequest(queue'[a], b)
        /\ Befriends(queue'[a], b) => Befriends(queue[a], b)
    <3>1. CASE a = p
      <4>1. queue'[a] = Tail(queue[p]) /\ RequestsFirst(queue[p])
        BY <1>2, <1>3, <3>1
      <4> QED BY <1>1, <3>1, <4>1, ResetTail
    <3>2. CASE a # p
      <4>1. queue'[a] = queue[a]
        BY <1>2, <3>2
      <4> QED BY <4>1
    <3> QED BY <3>1, <3>2
  <2>9. Befriends(queue'[a], b) => Final(b, a)' /\ button'[<<a, b>>] # "enabled"
    BY <1>2, <2>0, <2>1, <2>3 DEF ResetEdge
  <2>10. button'[<<a, b>>] = "enabled" => NoRequest(queue'[a], b)
    BY <1>2, <2>0, <2>1 DEF ResetEdge
  <2>11. row'[<<b, a>>] # "none" => Final(a, b)'
    BY <1>2, <2>1, <2>2 DEF ResetEdge
  <2> QED BY <2>7, <2>8, <2>9, <2>10, <2>11 DEF ResetEdge
<1> QED BY <1>4, <1>5 DEF ResetInv

\* A step of careful owners' apps.
LEMMA CarefulStep ==
  ASSUME Careful, TypeOK, GrowInv, [Next]_vars
  PROVE  \/ Quiet \/ \E p \in Pet : Flush(p)
         \/ UNCHANGED <<db, queue, row, button>>
<1>1. ~(faults < MaxFaults)
  BY DEF Careful, TypeOK
<1>2. \A p, q : ~ReadFails(p, q) /\ ~Kill(p)
  BY <1>1 DEF ReadFails, Kill
<1>3. ASSUME NEW e \in Edge, User(e[1], e[2]) \/ Callback(e[1], e[2])
      PROVE  Quiet
  <2>1. e[1] \in Pet /\ e[2] \in Pet /\ e[1] # e[2]
    BY DEF Edge
  <2> QED BY <1>3, <2>1, AppsQuiet
<1>4. ASSUME NEW p \in Pet, LoadList(p)
      PROVE  Quiet
  <2>1. CASE \E q \in Pet : p # q
    BY <1>4, <2>1, AppsQuiet
  <2>2. CASE \A q \in Pet : p = q
    <3>1. Edge = {}
      BY <2>2 DEF Edge
    <3>2. \A x \in Pet : AddsTo(x)
      BY <1>4, AddsNothing DEF LoadList, SameWrites
    <3>3. \A x, y \in Pet : x = y
      BY <2>2
    <3> QED BY <1>4, <3>2, <3>3 DEF LoadList, Quiet
  <2> QED BY <2>1, <2>2
<1>5. CASE UNCHANGED vars
  BY <1>5 DEF vars
<1> QED BY <1>2, <1>3, <1>4, <1>5 DEF Next

\* Every step of careful owners' apps keeps the invariant.
LEMMA ResetStep ==
  ASSUME Careful, TypeOK, GrowInv, GrowInv', CrossInv, ResetInv, [Next]_vars
  PROVE  ResetInv'
<1>1. CASE UNCHANGED <<db, queue, row, button>>
  BY <1>1 DEF ResetInv, ResetEdge, Record, Final
<1> QED BY <1>1, CarefulStep, ResetQuiet, ResetFlush

\* At first nobody knows anybody.
LEMMA ResetInit == Init => ResetInv
<1> SUFFICES ASSUME Init PROVE ResetInv
  OBVIOUS
<1>1. \A p \in Pet : queue[p] = << >>
  BY DEF Init
<1>2. \A p \in Pet : \A q : RequestsFirst(queue[p]) /\ ~Befriends(queue[p], q)
  BY <1>1 DEF RequestsFirst, Befriends
<1>3. ASSUME NEW p \in Pet, NEW q \in Pet, p # q PROVE ResetEdge(p, q)
  <2>1. /\ <<p, q>> \in Edge /\ <<q, p>> \in Edge
        /\ FriendDoc(p, q) \in Doc /\ FriendDoc(q, p) \in Doc
    BY <1>3, DocTypes
  <2>2. button[<<p, q>>] = "closed" /\ row[<<q, p>>] = "none"
        /\ Record(p, q) = Absent /\ Record(q, p) = Absent
    BY <2>1 DEF Init, Record
  <2> QED BY <1>2, <2>2, AbsentAssumption DEF ResetEdge, Status
<1> QED BY <1>2, <1>3 DEF ResetInv

\* Types and the invariants together.
CarefulInv == TypeOK /\ GrowInv /\ CrossInv /\ ResetInv

LEMMA CarefulAlways ==
  ASSUME Careful
  PROVE  Spec => []CarefulInv
<1>1. Init => CarefulInv
  BY TypeInit, GrowInit, CrossInit, ResetInit DEF CarefulInv
<1>2. CarefulInv /\ [Next]_vars => CarefulInv'
  <2> SUFFICES ASSUME CarefulInv, [Next]_vars PROVE CarefulInv'
    OBVIOUS
  <2>1. TypeOK' /\ GrowInv' /\ CrossInv'
    BY TypeStep, GrowStep, CrossStep DEF CarefulInv, Careful
  <2> QED BY <2>1, ResetStep DEF CarefulInv
<1> QED BY <1>1, <1>2, PTL DEF Spec

\* No step turns a friendship back into a request.
LEMMA FriendsStay ==
  ASSUME Careful, CarefulInv, [Next]_vars, NEW a \in Pet, NEW b \in Pet, a # b,
         Record(a, b) = "friending"
  PROVE  Record(a, b)' = "friending"
<1>1. Final(a, b) /\ Final(b, a)
  BY DEF CarefulInv, ResetInv, ResetEdge
<1>2. CASE db' = db
  BY <1>2 DEF Record
<1>3. ASSUME NEW p \in Pet, Flush(p) PROVE Record(a, b)' = "friending"
  <2>1. CASE Head(queue[p]).doc # FriendDoc(a, b)
    BY <1>3, <2>1, OtherRecord DEF CarefulInv
  <2>2. CASE Head(queue[p]).doc = FriendDoc(a, b)
    <3> DEFINE w == Head(queue[p])
    <3>1. queue[p] \in Seq(Write) /\ queue[p] # << >> /\ RequestsFirst(queue[p])
      BY <1>3, FlushDocs DEF CarefulInv, ResetInv
    <3>2. p = a => ~Request(w, b)
      BY <1>1, <3>1, ResetTail DEF Final
    <3>3. p = b => ~Request(w, a)
      BY <1>1, <3>1, ResetTail DEF Final
    <3>4. /\ Record(a, b)' = w.val
          /\ \/ /\ p = a /\ w.peer = b
                /\ (Request(w, b) /\ w.val = "sending") \/ Says(w, "friending")
             \/ /\ p = b /\ w.peer = a
                /\ (Request(w, a) /\ Says(w, "receiving")) \/ Says(w, "friending")
      BY <1>3, <2>2, AppliedRecord DEF CarefulInv
    <3> QED BY <3>2, <3>3, <3>4 DEF Says
  <2> QED BY <2>1, <2>2
<1> QED BY <1>2, <1>3, CarefulStep DEF CarefulInv, Quiet

(***************************************************************************)
(* Between iOS apps whose owners wait for the check of a profile, and with *)
(* no fault of a read, a friendship is never turned back into a request:   *)
(* a device that has a record of the other pet does not send it one        *)
(* (shouldDisableAddFriendButton), requests that cross included, and what  *)
(* addFriend queued before is applied before an acceptFriend of the same   *)
(* device.                                                                 *)
(***************************************************************************)
THEOREM FriendshipsAreNotReset ==
  ASSUME Careful
  PROVE  Spec => FriendshipNotReset
<1>1. ASSUME CarefulInv, [Next]_vars
      PROVE  [\A e \in Edge : Record(e[1], e[2]) = "friending" =>
                Record(e[1], e[2])' \notin {"sending", "receiving"}]_db
  <2>1. \A e \in Edge : e[1] \in Pet /\ e[2] \in Pet /\ e[1] # e[2]
    BY DEF Edge
  <2> QED BY <1>1, <2>1, FriendsStay
<1> QED BY <1>1, CarefulAlways, PTL DEF Spec, FriendshipNotReset

----------------------------------------------------------------------------
(* The two halves of an acceptance                                         *)

Makes(s, d) == \E i \in 1 .. Len(s) : MakesFriend(s[i], d)

\* Where one record of a pair is "friending" so is the other, or a device still
\* has that write; acceptFriend's second write is behind its first.
AgreeEdge(p, q) ==
  /\ Record(p, q) = "friending" =>
       \/ Record(q, p) = "friending"
       \/ Makes(queue[p], FriendDoc(q, p)) \/ Makes(queue[q], FriendDoc(q, p))
  /\ \A i \in 1 .. Len(queue[p]) : MakesFriend(queue[p][i], FriendDoc(p, q)) =>
       \/ Record(q, p) = "friending"
       \/ \E j \in i + 1 .. Len(queue[p]) : MakesFriend(queue[p][j], FriendDoc(q, p))
  /\ \A i \in 1 .. Len(queue[p]) : MakesFriend(queue[p][i], FriendDoc(q, p)) =>
       \/ Record(p, q) = "friending"
       \/ \E j \in 1 .. i - 1 : MakesFriend(queue[p][j], FriendDoc(p, q))

AgreeInv == \A p, q \in Pet : p # q => AgreeEdge(p, q)

\* Who is busy with a record that is to become "friending".
LEMMA MakesBusy ==
  ASSUME GrowInv, NEW p \in Pet, NEW q \in Pet, p # q, NEW d,
         d = FriendDoc(p, q) \/ d = FriendDoc(q, p),
         NEW i \in 1 .. Len(queue[p]), queue[p][i].doc = d
  PROVE  queue[p][i].peer = q
<1>1. Written(p, queue[p][i])
  BY DEF GrowInv, GrowQueue, GrowWrite
<1>2. queue[p][i].doc \in FriendDocs
  BY DocTypes
<1>3. d = FriendDoc(p, queue[p][i].peer) \/ d = FriendDoc(queue[p][i].peer, p)
  BY <1>1, <1>2, WrittenRecord
<1>4. queue[p][i].peer # p
  BY <1>1 DEF Written
<1> QED BY <1>3, <1>4, FriendDocOf

\* Friends agree when neither is busy with the other.
LEMMA AgreeImplies == GrowInv /\ AgreeInv => FriendsAgree
<1> SUFFICES ASSUME GrowInv, AgreeInv PROVE FriendsAgree
  OBVIOUS
<1>1. ASSUME NEW p \in Pet, NEW q \in Pet, p # q, Settled(p, q), Record(p, q) = "friending"
      PROVE  Record(q, p) = "friending"
  <2>1. ~Makes(queue[p], FriendDoc(q, p))
    BY <1>1, MakesBusy DEF Makes, MakesFriend, Settled, Busy
  <2>2. ~Makes(queue[q], FriendDoc(q, p))
    BY <1>1, MakesBusy DEF Makes, MakesFriend, Settled, Busy
  <2> QED BY <1>1, <2>1, <2>2 DEF AgreeInv, AgreeEdge
<1>2. \A p, q \in Pet : Settled(p, q) => Settled(q, p)
  BY DEF Settled
<1>3. \A e \in Edge : e[1] \in Pet /\ e[2] \in Pet /\ e[1] # e[2]
  BY DEF Edge
<1> QED BY <1>1, <1>2, <1>3 DEF FriendsAgree

\* A handler queues both halves of an answer.
LEMMA AgreeQuiet ==
  ASSUME TypeOK, GrowInv', AgreeInv, Quiet
  PROVE  AgreeInv'
<1> SUFFICES ASSUME NEW p \in Pet, NEW q \in Pet, p # q PROVE AgreeEdge(p, q)'
  BY DEF AgreeInv
<1> DEFINE mine == FriendDoc(p, q)
           theirs == FriendDoc(q, p)
           s == queue[p]
           t == queue'[p]
<1>1. AgreeEdge(p, q) /\ AddsTo(p) /\ AddsTo(q) /\ db' = db
  BY DEF AgreeInv, Quiet
<1>2. Record(p, q)' = Record(p, q) /\ Record(q, p)' = Record(q, p)
  BY <1>1 DEF Record
<1>3. Len(s) \in Nat /\ Len(t) \in Nat /\ Len(t) >= Len(s)
  BY <1>1 DEF TypeOK, AddsTo
<1>4. \A i \in 1 .. Len(s) : i \in 1 .. Len(t) /\ t[i].doc = s[i].doc /\ t[i].val = s[i].val
  BY <1>1, <1>3 DEF AddsTo, SameWrites
<1>5. \A d : Makes(s, d) => Makes(t, d)
  BY <1>4 DEF Makes, MakesFriend
<1>6. \A d : Makes(queue[q], d) => Makes(queue'[q], d)
  <2>1. /\ Len(queue[q]) \in Nat /\ Len(queue'[q]) \in Nat /\ Len(queue'[q]) >= Len(queue[q])
        /\ SameWrites(queue[q], queue'[q])
    BY <1>1 DEF TypeOK, AddsTo
  <2> QED BY <2>1 DEF Makes, MakesFriend, SameWrites
<1>7. ASSUME NEW i \in 1 .. Len(t), i \notin 1 .. Len(s), t[i].doc = mine \/ t[i].doc = theirs,
             t[i].val = "friending"
      PROVE  /\ t[i].doc = mine => \E j \in i + 1 .. Len(t) : MakesFriend(t[j], theirs)
             /\ t[i].doc = theirs => \E j \in 1 .. i - 1 : MakesFriend(t[j], mine)
  <2>1. i \in Len(s) + 1 .. Len(t)
    BY <1>3, <1>7
  <2>2. Written(p, t[i])
    BY DEF GrowInv, GrowQueue, GrowWrite
  <2>3. t[i].doc \in FriendDocs
    BY <1>7, DocTypes
  <2>4. t[i].peer = q
    <3>1. t[i].doc = FriendDoc(p, t[i].peer) \/ t[i].doc = FriendDoc(t[i].peer, p)
      BY <2>2, <2>3, WrittenRecord
    <3>2. t[i].peer # p
      BY <2>2 DEF Written
    <3> QED BY <1>7, <3>1, <3>2, FriendDocOf
  <2>5. Answers(p, t, Len(s), i)
    BY <1>1, <1>7, <2>1, <2>3 DEF AddsTo, Adding, Requests
  <2>6. \A j \in Len(s) + 1 .. i - 1 : j \in 1 .. i - 1
    BY <1>3
  <2> QED BY <2>4, <2>5, <2>6 DEF Answers
<1>8. ASSUME NEW i \in 1 .. Len(t), MakesFriend(t[i], mine)
      PROVE  \/ Record(q, p) = "friending"
             \/ \E j \in i + 1 .. Len(t) : MakesFriend(t[j], theirs)
  <2>1. CASE i \in 1 .. Len(s)
    <3>1. MakesFriend(s[i], mine)
      BY <1>4, <1>8, <2>1 DEF MakesFriend
    <3>2. \/ Record(q, p) = "friending"
          \/ \E j \in i + 1 .. Len(s) : MakesFriend(s[j], theirs)
      BY <1>1, <2>1, <3>1 DEF AgreeEdge
    <3>3. \A j \in i + 1 .. Len(s) : j \in 1 .. Len(s) /\ j \in i + 1 .. Len(t)
      BY <1>3, <2>1
    <3> QED BY <1>4, <3>2, <3>3 DEF MakesFriend
  <2>2. CASE i \notin 1 .. Len(s)
    BY <1>7, <1>8, <2>2 DEF MakesFriend
  <2> QED BY <2>1, <2>2
<1>9. ASSUME NEW i \in 1 .. Len(t), MakesFriend(t[i], theirs)
      PROVE  \/ Record(p, q) = "friending"
             \/ \E j \in 1 .. i - 1 : MakesFriend(t[j], mine)
  <2>1. CASE i \in 1 .. Len(s)
    <3>1. MakesFriend(s[i], theirs)
      BY <1>4, <1>9, <2>1 DEF MakesFriend
    <3>2. \/ Record(p, q) = "friending"
          \/ \E j \in 1 .. i - 1 : MakesFriend(s[j], mine)
      BY <1>1, <2>1, <3>1 DEF AgreeEdge
    <3>3. \A j \in 1 .. i - 1 : j \in 1 .. Len(s)
      BY <1>3, <2>1
    <3> QED BY <1>4, <3>2, <3>3 DEF MakesFriend
  <2>2. CASE i \notin 1 .. Len(s)
    BY <1>7, <1>9, <2>2 DEF MakesFriend
  <2> QED BY <2>1, <2>2
<1>10. Record(p, q) = "friending" =>
         \/ Record(q, p) = "friending"
         \/ Makes(t, theirs) \/ Makes(queue'[q], theirs)
  BY <1>1, <1>5, <1>6 DEF AgreeEdge
<1> QED BY <1>2, <1>8, <1>9, <1>10 DEF AgreeEdge

\* The server applies the halves in order.
LEMMA AgreeFlush ==
  ASSUME Careful, CarefulInv, AgreeInv, NEW x \in Pet, Flush(x)
  PROVE  AgreeInv'
<1> SUFFICES ASSUME NEW p \in Pet, NEW q \in Pet, p # q PROVE AgreeEdge(p, q)'
  BY DEF AgreeInv
<1> DEFINE mine == FriendDoc(p, q)
           theirs == FriendDoc(q, p)
           w == Head(queue[x])
<1>1. /\ AgreeEdge(p, q) /\ AgreeEdge(q, p)
      /\ TypeOK /\ GrowInv /\ CrossInv /\ [Next]_vars
  BY DEF AgreeInv, CarefulInv, Next
<1>2. /\ Record(p, q) = "friending" => Record(p, q)' = "friending"
      /\ Record(q, p) = "friending" => Record(q, p)' = "friending"
  BY <1>1, FriendsStay
<1>3. \A y \in Pet : queue'[y] = IF y = x THEN Tail(queue[x]) ELSE queue[y]
  BY <1>1, FlushTail
<1>4. queue[x] \in Seq(Write) /\ queue[x] # << >>
  BY <1>1, FlushDocs
<1>5. /\ Len(queue[x]) \in Nat /\ Len(queue[x]) >= 1 /\ Len(Tail(queue[x])) = Len(queue[x]) - 1
      /\ w = queue[x][1]
      /\ \A i \in 1 .. Len(Tail(queue[x])) : i + 1 \in 1 .. Len(queue[x])
                                             /\ Tail(queue[x])[i] = queue[x][i + 1]
      /\ \A i \in 2 .. Len(queue[x]) : i - 1 \in 1 .. Len(Tail(queue[x]))
                                       /\ Tail(queue[x])[i - 1] = queue[x][i]
  BY <1>4, TailWrites
<1>6. /\ MakesFriend(w, mine) => Record(p, q)' = "friending"
      /\ MakesFriend(w, theirs) => Record(q, p)' = "friending"
  BY <1>1, AppliedRecord DEF MakesFriend
<1> HIDE DEF w
\* A write that is queued is so still, or applied.
<1>7. ASSUME NEW y \in Pet, NEW d, NEW i \in 1 .. Len(queue[y]), MakesFriend(queue[y][i], d)
      PROVE  \/ y = x /\ i = 1 /\ MakesFriend(w, d)
             \/ Makes(queue'[y], d)
  <2>1. CASE y = x /\ i = 1
    BY <1>5, <1>7, <2>1
  <2>2. CASE y = x /\ i # 1
    <3>1. i - 1 \in 1 .. Len(Tail(queue[x])) /\ Tail(queue[x])[i - 1] = queue[x][i]
      BY <1>5, <2>2
    <3> QED BY <1>3, <1>7, <2>2, <3>1 DEF Makes
  <2>3. CASE y # x
    <3>1. queue'[y] = queue[y]
      BY <1>3, <2>3
    <3> QED BY <1>7, <3>1 DEF Makes
  <2> QED BY <2>1, <2>2, <2>3
<1>8. ASSUME Record(p, q)' = "friending"
      PROVE  \/ Record(q, p)' = "friending"
             \/ Makes(queue'[p], theirs) \/ Makes(queue'[q], theirs)
  <2>1. CASE w.doc = mine
    <3>1. w.val = "friending" /\ (x = p \/ x = q)
      BY <1>1, <1>8, <2>1, AppliedRecord DEF w
    <3>2. MakesFriend(queue[x][1], mine) /\ 1 \in 1 .. Len(queue[x])
      BY <1>5, <2>1, <3>1 DEF MakesFriend
    <3>3. CASE x = p
      <4>1. \/ Record(q, p) = "friending"
            \/ \E j \in 1 + 1 .. Len(queue[p]) : MakesFriend(queue[p][j], theirs)
        BY <1>1, <3>2, <3>3 DEF AgreeEdge
      <4>2. ASSUME NEW j \in 1 + 1 .. Len(queue[p]), MakesFriend(queue[p][j], theirs)
            PROVE  Makes(queue'[p], theirs)
        <5>1. j \in 1 .. Len(queue[p]) /\ j # 1
          BY <1>5, <3>3
        <5> QED BY <1>7, <4>2, <5>1
      <4> QED BY <1>2, <4>1, <4>2
    <3>4. CASE x = q
      <4>1. \/ Record(q, p) = "friending"
            \/ \E j \in 1 .. 1 - 1 : MakesFriend(queue[q][j], theirs)
        BY <1>1, <3>2, <3>4 DEF AgreeEdge
      <4>2. 1 .. 1 - 1 = {}
        OBVIOUS
      <4> QED BY <1>2, <4>1, <4>2
    <3> QED BY <3>1, <3>3, <3>4
  <2>2. CASE w.doc # mine
    <3>1. Record(p, q) = "friending"
      BY <1>1, <1>8, <2>2, OtherRecord DEF w
    <3>2. \/ Record(q, p) = "friending"
          \/ Makes(queue[p], theirs) \/ Makes(queue[q], theirs)
      BY <1>1, <3>1 DEF AgreeEdge
    <3>3. ASSUME NEW y \in Pet, Makes(queue[y], theirs)
          PROVE  Record(q, p)' = "friending" \/ Makes(queue'[y], theirs)
      <4>1. PICK i \in 1 .. Len(queue[y]) : MakesFriend(queue[y][i], theirs)
        BY <3>3 DEF Makes
      <4> QED BY <1>6, <1>7, <4>1
    <3> QED BY <1>2, <3>2, <3>3
  <2> QED BY <2>1, <2>2
<1>9. CASE p # x
  <2>1. queue'[p] = queue[p]
    BY <1>3, <1>9
  <2> QED BY <1>1, <1>2, <1>8, <2>1 DEF AgreeEdge
<1>10. CASE p = x
  <2> DEFINE s == queue[p]
             t == Tail(queue[p])
  <2>1. queue'[p] = t
    BY <1>3, <1>10
  <2>2. /\ Len(s) \in Nat /\ Len(s) >= 1 /\ Len(t) = Len(s) - 1 /\ w = s[1]
        /\ \A i \in 1 .. Len(t) : i + 1 \in 1 .. Len(s) /\ t[i] = s[i + 1]
        /\ \A i \in 2 .. Len(s) : i - 1 \in 1 .. Len(t) /\ t[i - 1] = s[i]
    BY <1>5, <1>10
  <2>3. /\ \A i \in 1 .. Len(s) : MakesFriend(s[i], mine) =>
             \/ Record(q, p) = "friending"
             \/ \E j \in i + 1 .. Len(s) : MakesFriend(s[j], theirs)
        /\ \A i \in 1 .. Len(s) : MakesFriend(s[i], theirs) =>
             \/ Record(p, q) = "friending"
             \/ \E j \in 1 .. i - 1 : MakesFriend(s[j], mine)
    BY <1>1 DEF AgreeEdge
  <2> HIDE DEF s, t
  <2>4. ASSUME NEW i \in 1 .. Len(t), MakesFriend(t[i], mine)
        PROVE  \/ Record(q, p)' = "friending"
               \/ \E j \in i + 1 .. Len(t) : MakesFriend(t[j], theirs)
    <3>1. i + 1 \in 1 .. Len(s) /\ MakesFriend(s[i + 1], mine)
      BY <2>2, <2>4
    <3>2. \/ Record(q, p) = "friending"
          \/ \E j \in (i + 1) + 1 .. Len(s) : MakesFriend(s[j], theirs)
      BY <2>3, <3>1
    <3>3. \A j \in (i + 1) + 1 .. Len(s) : j - 1 \in i + 1 .. Len(t) /\ t[j - 1] = s[j]
      BY <2>2
    <3> QED BY <1>2, <3>2, <3>3
  <2>5. ASSUME NEW i \in 1 .. Len(t), MakesFriend(t[i], theirs)
        PROVE  \/ Record(p, q)' = "friending"
               \/ \E j \in 1 .. i - 1 : MakesFriend(t[j], mine)
    <3>1. i + 1 \in 1 .. Len(s) /\ MakesFriend(s[i + 1], theirs)
      BY <2>2, <2>5
    <3>2. \/ Record(p, q) = "friending"
          \/ \E j \in 1 .. (i + 1) - 1 : MakesFriend(s[j], mine)
      BY <2>3, <3>1
    <3>3. ASSUME NEW j \in 1 .. (i + 1) - 1, MakesFriend(s[j], mine)
          PROVE  \/ Record(p, q)' = "friending"
                 \/ \E k \in 1 .. i - 1 : MakesFriend(t[k], mine)
      <4>1. CASE j = 1
        BY <1>6, <2>2, <3>3, <4>1
      <4>2. CASE j # 1
        <5>1. j \in 2 .. Len(s) /\ j - 1 \in 1 .. i - 1 /\ t[j - 1] = s[j]
          BY <2>2, <4>2
        <5> QED BY <3>3, <5>1
      <4> QED BY <4>1, <4>2
    <3> QED BY <1>2, <3>2, <3>3
  <2> QED BY <1>8, <2>1, <2>4, <2>5 DEF AgreeEdge
<1> QED BY <1>9, <1>10

\* Every step of careful owners' apps keeps the halves together.
LEMMA AgreeStep ==
  ASSUME Careful, CarefulInv, GrowInv', AgreeInv, [Next]_vars
  PROVE  AgreeInv'
<1>1. CASE UNCHANGED <<db, queue, row, button>>
  BY <1>1 DEF AgreeInv, AgreeEdge, Record
<1> QED BY <1>1, CarefulStep, AgreeQuiet, AgreeFlush DEF CarefulInv

\* At first nobody is a friend.
LEMMA AgreeInit == Init => AgreeInv
<1> SUFFICES ASSUME Init, NEW p \in Pet, NEW q \in Pet, p # q PROVE AgreeEdge(p, q)
  BY DEF AgreeInv
<1>1. queue[p] = << >>
  BY DEF Init
<1>2. FriendDoc(p, q) \in Doc
  BY DocTypes
<1>3. Record(p, q) = Absent
  BY <1>2 DEF Init, Record
<1> QED BY <1>1, <1>3, AbsentAssumption DEF AgreeEdge, Status

(***************************************************************************)
(* Between the same apps friendship is mutual once nothing is under way:   *)
(* acceptFriend's second write follows its first through the queue, and no *)
(* request undoes one of the two.                                          *)
(***************************************************************************)
THEOREM FriendshipIsMutual ==
  ASSUME Careful
  PROVE  Spec => []FriendsAgree
<1> DEFINE Inv == CarefulInv /\ AgreeInv
<1>1. Init => Inv
  BY TypeInit, GrowInit, CrossInit, ResetInit, AgreeInit DEF CarefulInv
<1>2. Inv /\ [Next]_vars => Inv'
  <2> SUFFICES ASSUME Inv, [Next]_vars PROVE Inv'
    OBVIOUS
  <2>1. TypeOK' /\ GrowInv' /\ CrossInv'
    BY TypeStep, GrowStep, CrossStep DEF CarefulInv, Careful
  <2> QED BY <2>1, ResetStep, AgreeStep DEF CarefulInv
<1>3. Inv => FriendsAgree
  BY AgreeImplies DEF CarefulInv
<1> QED BY <1>1, <1>2, <1>3, PTL DEF Spec

----------------------------------------------------------------------------
(* Friends who can talk                                                    *)
(*                                                                         *)
(* A room needs both public numbers.  The asker writes its own and "?" for *)
(* the other with every request, the acceptor adds its own to the room it  *)
(* reads; so nothing may write the asker's room again over the acceptor's. *)
(* Where one pet does all the asking that is so: it is done with requests  *)
(* when the other accepts.  Two requests that cross are another matter.    *)

\* One pet sends all requests.
OneAsks == \A a, b \in Adders : a = b

Known(room, p) == room.pub[p] # Unknown

\* p, who asks nobody, has no profile open and no request queued.
NotAsking(p) ==
  /\ \A q \in Pet \ {p} : NoRequest(queue[p], q) /\ button[<<p, q>>] = "closed"
  /\ \A r \in reads[p] : r.kind # "check"

\* b has not asked a, so a answers nothing.
NotAsked(a, b) ==
  /\ row[<<a, b>>] # "receiving"
  /\ Read("accept", b) \notin reads[a]
  /\ ~Befriends(queue[a], b)
  /\ Record(a, b) # "receiving"

\* Each room of the pair has the asker's number; the asker's is written before
\* a request, the other's has both numbers.
RoomsOffered(a, b) ==
  /\ RoomOf(a, b) # Absent => Known(RoomOf(a, b), a)
  /\ \A i \in 1 .. Len(queue[a]) : queue[a][i].doc = RoomDoc(a, b) =>
       /\ Known(queue[a][i].val, a)
       /\ \E j \in i + 1 .. Len(queue[a]) : Request(queue[a][j], b)
  /\ \A i \in 1 .. Len(queue[b]) : queue[b][i].doc = RoomDoc(a, b) =>
       Known(queue[b][i].val, a) /\ Known(queue[b][i].val, b)

\* Once b has accepted, its number is in the room or on its way there.
Befriending(a, b) ==
  Befriends(queue[b], a) \/ Record(a, b) = "friending" \/ Record(b, a) = "friending"

Answered(a, b) ==
  Befriending(a, b) =>
    \/ Read("accept", a) \in reads[b]
    \/ Pends(queue[b], RoomDoc(a, b))
    \/ RoomOf(a, b) # Absent /\ Known(RoomOf(a, b), b)

TalkInv ==
  /\ \A p \in Pet \ Adders : NotAsking(p)
  /\ \A p, q \in Pet : p # q /\ Record(p, q) # Absent => p \in Adders \/ q \in Adders
  /\ \A a \in Adders, b \in Pet : a # b =>
       NotAsked(a, b) /\ RoomsOffered(a, b) /\ Answered(a, b)

\* The adders are pets, and a pet's room with another says who that is.
LEMMA TalkDocs ==
  /\ \A a \in Adders : a \in Pet
  /\ \A a, b, c : RoomDoc(a, b) = RoomDoc(a, c) /\ b # a /\ c # a => b = c
  /\ \A a, b : RoomDoc(a, b) = RoomDoc(b, a)
<1>1. \A a, b, c : {a, b} = {a, c} /\ b # a /\ c # a => b = c
  OBVIOUS
<1>2. \A a, b, c, d : RoomDoc(a, b) = RoomDoc(c, d) => {a, b} = {c, d}
  BY DEF RoomDoc
<1>3. \A a, b, c : RoomDoc(a, b) = RoomDoc(a, c) /\ b # a /\ c # a => b = c
  BY <1>1, <1>2
<1> QED BY <1>3, FriendDocOf, PetsAssumption

\* A room that p's device writes is one of p and the peer.
LEMMA WrittenRoom ==
  ASSUME NEW p \in Pet, NEW w, Written(p, w), w.doc \in RoomDocs
  PROVE  w.peer \in Pet /\ w.peer # p /\ w.doc = RoomDoc(p, w.peer)
<1>1. w.peer \in Pet /\ w.peer # p
  BY DEF Written
<1>2. FriendDoc(p, w.peer) \notin RoomDocs /\ FriendDoc(w.peer, p) \notin RoomDocs
  BY <1>1, DocTypes, KindsDiffer
<1> QED BY <1>1, <1>2 DEF Written

\* Who answers has been asked, by the one who asks.
LEMMA AnswersAsker ==
  ASSUME TypeOK, GrowInv, OneAsks, TalkInv, NEW p \in Pet, NEW q \in Pet, p # q,
         row[<<p, q>>] = "receiving" \/ Read("accept", q) \in reads[p]
  PROVE  p \notin Adders /\ q \in Adders /\ Acquainted(db, p, q)
<1>1. p \notin Adders
  BY DEF TalkInv, NotAsked
<1>2. Acquainted(db, p, q)
  <2>1. <<p, q>> \in Edge /\ <<p, q>>[1] = p /\ <<p, q>>[2] = q
    BY DocTypes
  <2>2. CASE row[<<p, q>>] = "receiving"
    BY <2>1, <2>2 DEF GrowInv
  <2>3. CASE Read("accept", q) \in reads[p]
    <3>1. GrowRead(p, Read("accept", q), db)
      BY <2>3 DEF GrowInv
    <3> QED BY <3>1, PutFields DEF GrowRead
  <2> QED BY <2>2, <2>3
<1>3. q \in Adders
  BY <1>1, <1>2 DEF TalkInv, Acquainted, Record
<1> QED BY <1>1, <1>2, <1>3

\* Either device reads the asker's number in a room it reads.
LEMMA SeesAskers ==
  ASSUME TypeOK, TalkInv, NEW a \in Adders, NEW b \in Pet, a # b, NEW x \in {a, b},
         Sees(x, RoomDoc(a, b)) # Absent
  PROVE  Known(Sees(x, RoomDoc(a, b)), a)
<1>1. RoomsOffered(a, b) /\ x \in Pet
  BY TalkDocs DEF TalkInv
<1>2. Len(queue[x]) \in Nat
  BY <1>1 DEF TypeOK
<1>3. \/ Sees(x, RoomDoc(a, b)) = RoomOf(a, b)
      \/ \E i \in 1 .. Len(queue[x]) :
           queue[x][i].doc = RoomDoc(a, b) /\ Sees(x, RoomDoc(a, b)) = queue[x][i].val
  BY <1>2, ViewIsServerOrPending DEF Sees, RoomOf
<1> QED BY <1>1, <1>3 DEF RoomsOffered

\* So no chat ends the app of a pet that asks nobody.
LEMMA AskedOpensChats ==
  ASSUME Careful, TypeOK, GrowInv, TalkInv, NEW p \in Pet \ Adders, NEW q \in Pet, p # q
  PROVE  ~ChatCrashes(p, q)
<1> SUFFICES ASSUME ChatCrashes(p, q) PROVE FALSE
  OBVIOUS
<1> DEFINE room == Sees(p, RoomDoc(p, q))
<1>1. Read("chat", q) \in reads[p] /\ Unreadable(p, q, room) /\ p \in Ios
  BY DEF ChatCrashes, ChatAnswered, Careful
<1>2. room # Absent /\ room.pub[q] = Unknown
  BY <1>1 DEF Unreadable
<1>3. Acquainted(db, p, q)
  <2>1. GrowRead(p, Read("chat", q), db)
    BY <1>1 DEF GrowInv
  <2> QED BY <2>1, PutFields DEF GrowRead
<1>4. q \in Adders
  BY <1>3 DEF TalkInv, Acquainted, Record
<1>5. RoomDoc(p, q) = RoomDoc(q, p)
  BY TalkDocs
<1>6. Known(room, q)
  BY <1>2, <1>4, <1>5, SeesAskers
<1> QED BY <1>2, <1>6 DEF Known

\* Settled friends have both numbers.
LEMMA TalkImplies ==
  ASSUME TypeOK, GrowInv, TalkInv
  PROVE  FriendsCanTalk
<1>1. ASSUME NEW a \in Adders, NEW b \in Pet, a # b, ~Busy(b, a), Befriending(a, b)
      PROVE  CanTalk(a, b)
  <2>1. RoomsOffered(a, b) /\ Answered(a, b) /\ a \in Pet
    BY <1>1, TalkDocs DEF TalkInv
  <2>2. Read("accept", a) \notin reads[b]
    <3>1. Read("accept", a) \in {Read(k, a) : k \in ReadKind \ {"check", "chat"}}
      BY DEF ReadKind
    <3> QED BY <1>1, <3>1 DEF Busy
  <2>3. ~Pends(queue[b], RoomDoc(a, b))
    <3> SUFFICES ASSUME NEW i \in 1 .. Len(queue[b]), queue[b][i].doc = RoomDoc(a, b)
                 PROVE  FALSE
      BY DEF Pends
    <3>1. Written(b, queue[b][i])
      BY DEF GrowInv, GrowQueue, GrowWrite
    <3>2. RoomDoc(a, b) \in RoomDocs /\ RoomDoc(a, b) = RoomDoc(b, a)
      BY <1>1, <2>1, DocTypes, TalkDocs
    <3>3. queue[b][i].peer # b /\ RoomDoc(b, queue[b][i].peer) = RoomDoc(b, a)
      BY <3>1, <3>2, WrittenRoom
    <3>4. queue[b][i].peer = a
      BY <1>1, <3>3, TalkDocs
    <3> QED BY <1>1, <3>4 DEF Busy
  <2>4. RoomOf(a, b) # Absent /\ Known(RoomOf(a, b), a) /\ Known(RoomOf(a, b), b)
    BY <1>1, <2>1, <2>2, <2>3 DEF RoomsOffered, Answered
  <2> QED BY <2>4 DEF CanTalk, Known
<1>2. ASSUME NEW p \in Pet, NEW q \in Pet, p # q, Settled(p, q), Record(p, q) = "friending"
      PROVE  CanTalk(p, q)
  <2>1. p \in Adders \/ q \in Adders
    <3>1. "friending" # Absent
      BY AbsentAssumption DEF Status
    <3> QED BY <1>2, <3>1 DEF TalkInv
  <2>2. CASE p \in Adders
    BY <1>1, <1>2, <2>2 DEF Settled, Befriending
  <2>3. CASE q \in Adders
    <3>1. CanTalk(q, p)
      BY <1>1, <1>2, <2>3 DEF Settled, Befriending
    <3>2. RoomOf(q, p) = RoomOf(p, q)
      <4>1. RoomDoc(q, p) = RoomDoc(p, q)
        BY TalkDocs
      <4> QED BY <4>1 DEF RoomOf
    <3>3. \A r : {r.pub[x] : x \in {q, p}} = {r.pub[x] : x \in {p, q}}
      OBVIOUS
    <3> QED BY <3>1, <3>2, <3>3 DEF CanTalk
  <2> QED BY <2>1, <2>2, <2>3
<1>3. \A e \in Edge : e[1] \in Pet /\ e[2] \in Pet /\ e[1] # e[2]
  BY DEF Edge
<1> QED BY <1>2, <1>3 DEF FriendsCanTalk

\* A step of p's app about q, as careful owners let it be.
Handles(p, q) == User(p, q) \/ Callback(p, q) \/ LoadList(p)

LEMMA CarefulHandles ==
  ASSUME Careful, GrowInv, NEW p \in Pet, NEW q \in Pet, p # q, Handles(p, q)
  PROVE  \/ OpenDetail(p, q) \/ CloseDetail(p, q) \/ OpenChat(p, q) \/ LoadList(p)
         \/ AnswerCheck(p, q) \/ ChatOpens(p, q) \/ ChatCrashes(p, q)
         \/ AddIos(p, q) \/ AcceptIos(p, q) \/ AnswerAccept(p, q)
<1>1. ~AddAndroid(p, q) /\ ~AcceptAndroid(p, q) /\ ~RejectIos(p, q) /\ ~RejectAndroid(p, q)
      /\ ~ListChange(p, q)
  BY DEF Careful, AddAndroid, AcceptAndroid, RejectIos, RejectAndroid, ListChange
<1>2. ~AnswerDelete(p, q)
  <2>1. \A k \in {"delete1", "delete2", "delete3"} : Read(k, q) \notin reads[p]
    <3> SUFFICES ASSUME NEW k \in {"delete1", "delete2", "delete3"}, Read(k, q) \in reads[p]
                 PROVE  FALSE
      OBVIOUS
    <3>1. GrowRead(p, Read(k, q), db) /\ Read(k, q).kind = k
      BY PutFields DEF GrowInv
    <3> QED BY <3>1 DEF GrowRead
  <2> QED BY <2>1 DEF AnswerDelete, DeleteLink
<1> QED BY <1>1, <1>2 DEF Handles, User, Callback

\* Only who asks opens profiles.
LEMMA TalkButtons ==
  ASSUME Careful, TypeOK, GrowInv, NEW p \in Pet, NEW q \in Pet, p # q, Handles(p, q),
         NEW x \in Pet \ Adders, NotAsking(x)
  PROVE  /\ \A y \in Pet \ {x} : button'[<<x, y>>] = "closed"
         /\ \A r \in reads'[x] : r.kind # "check"
<1> DEFINE Same == /\ \A y \in Pet \ {x} : button'[<<x, y>>] = button[<<x, y>>]
                   /\ \A r \in reads'[x] : r \in reads[x] \/ r.kind # "check"
<1>0. Same => /\ \A y \in Pet \ {x} : button'[<<x, y>>] = "closed"
              /\ \A r \in reads'[x] : r.kind # "check"
  BY DEF NotAsking
<1>e. /\ <<p, q>> \in Edge
      /\ \A y \in Pet \ {x} : <<x, y>> \in Edge /\ <<x, y>>[1] = x /\ (<<x, y>> = <<p, q>> => x = p)
  BY DocTypes
<1>f. /\ Read("check", q).kind = "check" /\ Read("chat", q).kind = "chat"
      /\ Read("accept", q).kind = "accept" /\ \A y : Read("chat", y).kind = "chat"
  BY PutFields
<1>1. CASE OpenDetail(p, q)
  <2>1. x # p
    BY <1>1 DEF OpenDetail
  <2>2. Same
    BY <1>1, <1>e, <2>1 DEF OpenDetail, Issue, TypeOK
  <2> QED BY <1>0, <2>2
<1>2. CASE CloseDetail(p, q)
  <2>1. Same
    BY <1>2, <1>e DEF CloseDetail, TypeOK, NotAsking
  <2> QED BY <1>0, <2>1
<1>3. CASE OpenChat(p, q)
  <2>1. Same
    BY <1>3, <1>f DEF OpenChat, Issue, TypeOK, screens
  <2> QED BY <1>0, <2>1
<1>4. CASE LoadList(p)
  <2>1. Same
    BY <1>4, <1>f DEF LoadList, Issue, TypeOK
  <2> QED BY <1>0, <2>1
<1>5. CASE AnswerCheck(p, q)
  <2>1. x # p
    BY <1>5, <1>f DEF AnswerCheck, NotAsking
  <2>2. Same
    BY <1>5, <1>e, <2>1 DEF AnswerCheck, TypeOK
  <2> QED BY <1>0, <2>2
<1>6. CASE ChatOpens(p, q)
  <2>1. Same
    BY <1>6 DEF ChatOpens, TypeOK
  <2> QED BY <1>0, <2>1
<1>7. CASE ChatCrashes(p, q)
  <2>1. \A y \in Pet \ {x} : button'[<<x, y>>] = IF x = p THEN "closed" ELSE button[<<x, y>>]
    BY <1>7, <1>e DEF ChatCrashes, StopApp, TypeOK
  <2>2. \A r \in reads'[x] : r \in reads[x]
    BY <1>7 DEF ChatCrashes, StopApp, TypeOK
  <2> QED BY <2>1, <2>2 DEF NotAsking
<1>8. CASE AddIos(p, q)
  <2>1. x # p
    <3>1. button[<<p, q>>] = "enabled"
      BY <1>8 DEF AddIos, Careful
    <3> QED BY <3>1 DEF NotAsking
  <2>2. Same
    BY <1>8, <1>e, <2>1 DEF AddIos, TypeOK
  <2> QED BY <1>0, <2>2
<1>9. CASE AcceptIos(p, q)
  <2>1. Same
    BY <1>9, <1>f DEF AcceptIos, Issue, TypeOK, screens
  <2> QED BY <1>0, <2>1
<1>10. CASE AnswerAccept(p, q)
  <2>1. Same
    BY <1>10 DEF AnswerAccept, TypeOK, screens
  <2> QED BY <1>0, <2>1
<1> QED BY <1>1, <1>2, <1>3, <1>4, <1>5, <1>6, <1>7, <1>8, <1>9, <1>10, CarefulHandles

\* A row offers Accept as the list did or the record does; only such a row
\* leads to a read of the room.
LEMMA TalkRows ==
  ASSUME Careful, TypeOK, GrowInv, NEW p \in Pet, NEW q \in Pet, p # q, Handles(p, q),
         NEW x \in Pet, NEW y \in Pet, x # y
  PROVE  /\ row'[<<x, y>>] = "receiving" =>
              row[<<x, y>>] = "receiving" \/ Sees(x, FriendDoc(x, y)) = "receiving"
         /\ Read("accept", y) \in reads'[x] =>
              Read("accept", y) \in reads[x] \/ row[<<x, y>>] = "receiving"
<1> DEFINE Same == row'[<<x, y>>] = "receiving" => row[<<x, y>>] = "receiving"
           Fewer == Read("accept", y) \in reads'[x] => Read("accept", y) \in reads[x]
<1>e. <<p, q>> \in Edge /\ <<x, y>> \in Edge /\ <<x, y>>[1] = x /\ <<x, y>>[2] = y
      /\ (<<x, y>> = <<p, q>> => x = p /\ y = q)
  BY DocTypes
<1>f. /\ \A z : Read("accept", y) # Read("check", z) /\ Read("accept", y) # Read("chat", z)
      /\ \A z : Read("accept", y) = Read("accept", z) => y = z
  <2>1. /\ Read("accept", y).kind = "accept" /\ Read("accept", y).peer = y
        /\ \A k, z : Read(k, z).kind = k /\ Read(k, z).peer = z
    BY PutFields
  <2>2. \A z : Read("accept", y) # Read("check", z) /\ Read("accept", y) # Read("chat", z)
    <3> TAKE z
    <3>1. Read("check", z).kind = "check" /\ Read("chat", z).kind = "chat"
      BY <2>1
    <3> QED BY <2>1, <3>1
  <2> QED BY <2>1, <2>2
<1>1. CASE OpenDetail(p, q) \/ OpenChat(p, q)
  <2>1. row' = row
    BY <1>1 DEF OpenDetail, OpenChat, screens
  <2>2. \A r \in reads'[x] : r \in reads[x] \/ r = Read("check", q) \/ r = Read("chat", q)
    <3>1. PICK rs \in {{Read("check", q)}, {}, {Read("chat", q)}} : Issue(p, rs)
      BY <1>1, Zenon DEF OpenDetail, OpenChat
    <3>2. reads'[x] = IF x = p THEN reads[x] \cup rs ELSE reads[x]
      BY <3>1 DEF Issue, TypeOK
    <3> QED BY <3>1, <3>2
  <2> QED BY <1>f, <2>1, <2>2
<1>2. CASE CloseDetail(p, q) \/ AnswerCheck(p, q) \/ ChatOpens(p, q) \/ AnswerAccept(p, q)
  <2>1. row' = row
    BY <1>2 DEF CloseDetail, AnswerCheck, ChatOpens, AnswerAccept, screens
  <2>2. Fewer
    BY <1>2 DEF CloseDetail, AnswerCheck, ChatOpens, AnswerAccept, TypeOK
  <2> QED BY <2>1, <2>2
<1>3. CASE LoadList(p)
  <2>1. row'[<<x, y>>] = IF x = p THEN Listed(Sees(p, FriendDoc(p, y))) ELSE row[<<x, y>>]
    BY <1>3, <1>e DEF LoadList
  <2>2. Listed(Sees(p, FriendDoc(p, y))) = "receiving" => Sees(p, FriendDoc(p, y)) = "receiving"
    BY DEF Listed
  <2>3. Fewer
    BY <1>3, <1>f DEF LoadList, Issue, TypeOK
  <2> QED BY <2>1, <2>2, <2>3
<1>4. CASE ChatCrashes(p, q)
  <2>1. row'[<<x, y>>] = IF x = p THEN "none" ELSE row[<<x, y>>]
    BY <1>4, <1>e DEF ChatCrashes, StopApp
  <2>2. Fewer
    BY <1>4 DEF ChatCrashes, StopApp, TypeOK
  <2> QED BY <2>1, <2>2
<1>5. CASE AddIos(p, q)
  BY <1>5 DEF AddIos
<1>6. CASE AcceptIos(p, q)
  <2>1. row' = row /\ row[<<p, q>>] = "receiving"
    BY <1>6 DEF AcceptIos, CanAnswer, screens
  <2>2. Fewer \/ (x = p /\ Read("accept", y) = Read("accept", q))
    BY <1>6 DEF AcceptIos, Issue, TypeOK
  <2> QED BY <1>f, <2>1, <2>2
<1> QED BY <1>1, <1>2, <1>3, <1>4, <1>5, <1>6, CarefulHandles

\* What is read for an acceptance is read until the acceptor's room is queued.
LEMMA TalkReads ==
  ASSUME Careful, TypeOK, GrowInv, TalkInv, NEW p \in Pet, NEW q \in Pet, p # q, Handles(p, q),
         NEW x \in Pet \ Adders, NEW y \in Pet, x # y, Read("accept", y) \in reads[x]
  PROVE  Read("accept", y) \in reads'[x] \/ Pends(queue'[x], RoomDoc(x, y))
<1>1. CASE OpenDetail(p, q) \/ OpenChat(p, q) \/ LoadList(p) \/ AcceptIos(p, q)
  <2>1. \E rs : Issue(p, rs)
    BY <1>1, Zenon DEF OpenDetail, OpenChat, LoadList, AcceptIos
  <2> QED BY <2>1 DEF Issue, TypeOK
<1>2. CASE CloseDetail(p, q) \/ AnswerCheck(p, q) \/ ChatOpens(p, q)
  <2>1. PICK k \in {"check", "chat"} : reads' = [reads EXCEPT ![p] = @ \ {Read(k, q)}]
    BY <1>2 DEF CloseDetail, AnswerCheck, ChatOpens
  <2>2. Read("accept", y).kind = "accept" /\ Read(k, q).kind = k
    BY PutFields
  <2>3. Read("accept", y) # Read(k, q)
    BY <2>2
  <2> QED BY <2>1, <2>3 DEF TypeOK
<1>3. CASE ChatCrashes(p, q)
  <2>1. x # p
    BY <1>3, AskedOpensChats
  <2> QED BY <1>3, <2>1 DEF ChatCrashes, StopApp, TypeOK
<1>4. CASE AddIos(p, q)
  BY <1>4 DEF AddIos
<1>5. CASE AnswerAccept(p, q)
  <2> DEFINE room == Sees(p, RoomDoc(p, q))
             ack == IF p \in Ios THEN "openChat" ELSE NoAck
             w == PutThen(RoomDoc(p, q), AcceptedRoom(room, p), q, ack)
  <2>1. reads' = [reads EXCEPT ![p] = @ \ {Read("accept", q)}]
    BY <1>5 DEF AnswerAccept
  <2>2. CASE x = p /\ y = q
    <3>1. GrowRead(x, Read("accept", y), db)
      BY DEF GrowInv
    <3>2. Acquainted(db, x, y)
      BY <3>1, PutFields DEF GrowRead
    <3>3. db[RoomDoc(x, y)] # Absent /\ RoomDoc(x, y) \in Doc
      BY <3>2, AcquaintedRoom, DocTypes
    <3>4. Sees(x, RoomDoc(x, y)) # Absent
      BY <3>3, SeesGrown DEF GrowInv
    <3>5. Enqueue(p, << w >>)
      BY <1>5, <2>2, <3>4 DEF AnswerAccept
    <3>6. w.doc = RoomDoc(x, y)
      BY <2>2, PutFields
    <3> HIDE DEF w
    <3>7. queue'[x] = queue[x] \o << w >> /\ queue[x] \in Seq(Write)
      BY <2>2, <3>5 DEF Enqueue, TypeOK
    <3>8. w \in Write
      <4>1. room \in Room
        BY <2>2, <3>4, SeesRoom
      <4> QED BY <4>1, RoomTypes, PutTypes DEF w
    <3>9. queue'[x] = Append(queue[x], w)
      BY <3>7, <3>8, OneByOne
    <3>10. Len(queue[x]) + 1 \in 1 .. Len(queue'[x]) /\ queue'[x][Len(queue[x]) + 1] = w
      BY <3>7, <3>8, <3>9
    <3> QED BY <3>6, <3>10 DEF Pends
  <2>3. CASE ~(x = p /\ y = q)
    <3>1. Read("accept", y).peer = y /\ Read("accept", q).peer = q
      BY PutFields
    <3> QED BY <2>1, <2>3, <3>1 DEF TypeOK
  <2> QED BY <2>2, <2>3
<1> QED BY <1>1, <1>2, <1>3, <1>4, <1>5, CarefulHandles

\* What a queue holds after an append.
LEMMA EnqueuedWrites ==
  ASSUME TypeOK, NEW p \in Pet, NEW ws \in Seq(Write), Enqueue(p, ws), NEW x \in Pet,
         NEW i \in 1 .. Len(queue'[x])
  PROVE  \/ i \in 1 .. Len(queue[x]) /\ queue'[x][i] = queue[x][i]
         \/ \E k \in 1 .. Len(ws) :
              /\ x = p /\ queue'[p][i] = ws[k]
              /\ \A j \in k + 1 .. Len(ws) : \E m \in i + 1 .. Len(queue'[p]) : queue'[p][m] = ws[j]
<1> DEFINE n == Len(queue[p])
           u == queue[p] \o ws
<1>1. /\ n \in Nat /\ Len(ws) \in Nat /\ Len(u) = n + Len(ws)
      /\ \A j \in 1 .. n : u[j] = queue[p][j]
      /\ \A j \in 1 .. Len(ws) : u[n + j] = ws[j]
  BY ConcatProperties DEF TypeOK
<1>2. queue'[x] = IF x = p THEN u ELSE queue[x]
  BY DEF Enqueue, TypeOK
<1> HIDE DEF u
<1>3. CASE x # p
  BY <1>2, <1>3
<1>4. CASE x = p /\ i \in 1 .. n
  BY <1>1, <1>2, <1>4
<1>5. CASE x = p /\ i \notin 1 .. n
  <2> DEFINE k == i - n
  <2>1. i \in Nat /\ i \in 1 .. Len(u)
    BY <1>2, <1>5
  <2>2. k \in 1 .. Len(ws) /\ i = n + k
    BY <1>1, <1>5, <2>1
  <2> HIDE DEF k
  <2>3. u[i] = ws[k]
    BY <1>1, <2>2
  <2>4. \A j \in k + 1 .. Len(ws) : n + j \in i + 1 .. Len(u) /\ u[n + j] = ws[j]
    BY <1>1, <2>2
  <2> QED BY <1>2, <1>5, <2>2, <2>3, <2>4
<1> QED BY <1>3, <1>4, <1>5

\* The writes of a handler's queue: those there were, a request's, an answer's,
\* and the acceptor's room.
Offers(x, s, i) ==
  \E n \in Nat : /\ button[<<x, s[i].peer>>] = "enabled"
                 /\ s[i].val = OfferedRoom(n, x)
                 /\ \E j \in i + 1 .. Len(s) : Request(s[j], s[i].peer)

Completes(x, s, i) ==
  LET room == Sees(x, RoomDoc(x, s[i].peer))
  IN  /\ Read("accept", s[i].peer) \in reads[x]
      /\ room # Absent /\ s[i].val = AcceptedRoom(room, x)

TalkWrite(x, s, i) ==
  \/ /\ i \in 1 .. Len(queue[x])
     /\ s[i].doc = queue[x][i].doc /\ s[i].val = queue[x][i].val /\ s[i].peer = queue[x][i].peer
  \/ s[i].doc \in FriendDocs /\ s[i].val \in {"sending", "receiving"}
     /\ button[<<x, s[i].peer>>] = "enabled"
  \/ s[i].doc \in FriendDocs /\ s[i].val = "friending"
     /\ row[<<x, s[i].peer>>] = "receiving" /\ Read("accept", s[i].peer) \in reads'[x]
  \/ s[i].doc = RoomDoc(x, s[i].peer) /\ (Offers(x, s, i) \/ Completes(x, s, i))

LEMMA TalkWrites ==
  ASSUME Careful, TypeOK, GrowInv, TalkInv, NEW p \in Pet, NEW q \in Pet, p # q, Handles(p, q),
         NEW x \in Pet, NEW i \in 1 .. Len(queue'[x])
  PROVE  TalkWrite(x, queue'[x], i)
<1>0. queue' = queue => TalkWrite(x, queue'[x], i)
  BY DEF TalkWrite
<1>d. FriendDoc(p, q) \in FriendDocs /\ FriendDoc(q, p) \in FriendDocs
  BY DocTypes
<1>1. CASE OpenDetail(p, q) \/ CloseDetail(p, q) \/ OpenChat(p, q) \/ LoadList(p)
             \/ AnswerCheck(p, q) \/ ChatOpens(p, q)
  BY <1>0, <1>1 DEF OpenDetail, CloseDetail, OpenChat, LoadList, AnswerCheck, ChatOpens
<1>2. CASE ChatCrashes(p, q)
  <2>1. queue'[x] = IF x = p THEN WithoutAcks(queue[p]) ELSE queue[x]
    BY <1>2 DEF ChatCrashes, StopApp, TypeOK
  <2>2. queue[p] \in Seq(Write)
    BY DEF TypeOK
  <2>3. /\ Len(queue'[x]) = Len(queue[x])
        /\ \A j \in 1 .. Len(queue[x]) :
             /\ queue'[x][j].doc = queue[x][j].doc /\ queue'[x][j].val = queue[x][j].val
             /\ queue'[x][j].peer = queue[x][j].peer
    BY <2>1, <2>2, KilledWrites
  <2> QED BY <2>3 DEF TalkWrite
<1>3. CASE AddIos(p, q)
  <2> DEFINE n == adds + 1
             a == Put(RoomDoc(p, q), OfferedRoom(n, p), q)
             b == Put(FriendDoc(p, q), "sending", q)
             c == Put(FriendDoc(q, p), "receiving", q)
             ws == RequestIos(n, p, q)
  <2>1. n \in Nat
    BY DEF TypeOK
  <2>2. ws \in Seq(Write) /\ Enqueue(p, ws) /\ button[<<p, q>>] = "enabled"
    BY <1>3, <2>1, AddFriendTells DEF AddIos, Careful
  <2>3. Len(ws) = 3 /\ ws[1] = a /\ ws[2] = b /\ ws[3] = c
    BY DEF RequestIos
  <2>4. /\ a.doc = RoomDoc(p, q) /\ a.val = OfferedRoom(n, p) /\ a.peer = q
        /\ b.doc = FriendDoc(p, q) /\ b.val = "sending" /\ b.peer = q
        /\ c.doc = FriendDoc(q, p) /\ c.val = "receiving" /\ c.peer = q
    BY PutFields
  <2> HIDE DEF ws, a, b, c, n
  <2>5. CASE i \in 1 .. Len(queue[x]) /\ queue'[x][i] = queue[x][i]
    BY <2>5 DEF TalkWrite
  <2>6. ASSUME NEW k \in 1 .. Len(ws), x = p, queue'[p][i] = ws[k],
               \A j \in k + 1 .. Len(ws) : \E m \in i + 1 .. Len(queue'[p]) : queue'[p][m] = ws[j]
        PROVE  TalkWrite(x, queue'[x], i)
    <3>1. CASE k = 1
      <4>1. 2 \in k + 1 .. Len(ws)
        BY <2>3, <3>1
      <4>2. \E m \in i + 1 .. Len(queue'[p]) : queue'[p][m] = b
        BY <2>3, <2>6, <4>1
      <4>3. Request(b, q)
        BY <1>d, <2>4 DEF Request
      <4>4. queue'[p][i] = a
        BY <2>3, <2>6, <3>1
      <4>5. Offers(p, queue'[p], i)
        BY <2>1, <2>2, <2>4, <4>2, <4>3, <4>4 DEF Offers
      <4> QED BY <2>4, <2>6, <4>4, <4>5 DEF TalkWrite
    <3>2. CASE k = 2 \/ k = 3
      BY <1>d, <2>2, <2>3, <2>4, <2>6, <3>2 DEF TalkWrite
    <3> QED BY <2>3, <2>6, <3>1, <3>2
  <2> QED BY <2>2, <2>5, <2>6, EnqueuedWrites
<1>4. CASE AcceptIos(p, q)
  <2> DEFINE b == Put(FriendDoc(p, q), "friending", q)
             c == Put(FriendDoc(q, p), "friending", q)
             ws == << b, c >>
  <2>1. ws \in Seq(Write)
    BY PutTypes DEF Status
  <2>2. /\ Enqueue(p, ws) /\ row[<<p, q>>] = "receiving"
        /\ Read("accept", q) \in reads'[p]
    BY <1>4 DEF AcceptIos, CanAnswer, Issue, TypeOK
  <2>3. /\ b.doc = FriendDoc(p, q) /\ b.val = "friending" /\ b.peer = q
        /\ c.doc = FriendDoc(q, p) /\ c.val = "friending" /\ c.peer = q
    BY PutFields
  <2> HIDE DEF b, c
  <2>4. Len(ws) = 2 /\ ws[1] = b /\ ws[2] = c
    OBVIOUS
  <2> HIDE DEF ws
  <2>5. CASE i \in 1 .. Len(queue[x]) /\ queue'[x][i] = queue[x][i]
    BY <2>5 DEF TalkWrite
  <2>6. ASSUME NEW k \in 1 .. Len(ws), x = p, queue'[p][i] = ws[k]
        PROVE  TalkWrite(x, queue'[x], i)
    <3>1. k = 1 \/ k = 2
      BY <2>4, <2>6
    <3> QED BY <1>d, <2>2, <2>3, <2>4, <2>6, <3>1 DEF TalkWrite
  <2> QED BY <2>1, <2>2, <2>5, <2>6, EnqueuedWrites
<1>5. CASE AnswerAccept(p, q)
  <2> DEFINE room == Sees(p, RoomDoc(p, q))
             ack == IF p \in Ios THEN "openChat" ELSE NoAck
             w == PutThen(RoomDoc(p, q), AcceptedRoom(room, p), q, ack)
  <2>1. CASE room = Absent
    BY <1>0, <1>5, <2>1 DEF AnswerAccept
  <2>2. CASE room # Absent
    <3>1. w \in Write
      BY <2>2, SeesRoom, RoomTypes, PutTypes
    <3>2. w.doc = RoomDoc(p, q) /\ w.val = AcceptedRoom(room, p) /\ w.peer = q
      BY PutFields
    <3>3. Enqueue(p, << w >>) /\ Read("accept", q) \in reads[p]
      BY <1>5, <2>2 DEF AnswerAccept
    <3> HIDE DEF w
    <3> DEFINE ws == << w >>
    <3>4. ws \in Seq(Write) /\ Enqueue(p, ws) /\ \A k \in 1 .. Len(ws) : ws[k] = w
      BY <3>1, <3>3
    <3> HIDE DEF ws
    <3>5. CASE i \in 1 .. Len(queue[x]) /\ queue'[x][i] = queue[x][i]
      BY <3>5 DEF TalkWrite
    <3>6. ASSUME x = p, queue'[p][i] = w
          PROVE  TalkWrite(x, queue'[x], i)
      <4>1. Completes(p, queue'[p], i)
        BY <2>2, <3>2, <3>3, <3>6 DEF Completes
      <4> QED BY <3>2, <3>6, <4>1 DEF TalkWrite
    <3> QED BY <3>4, <3>5, <3>6, EnqueuedWrites
  <2> QED BY <2>1, <2>2
<1> QED BY <1>1, <1>2, <1>3, <1>4, <1>5, CarefulHandles

\* A number that is offered or added to a room is known.
LEMMA KnownNumbers ==
  /\ \A n \in Nat, a \in Pet : Known(OfferedRoom(n, a), a)
  /\ \A room \in Room, a, b \in Pet : a # b /\ Known(room, a) =>
       Known(AcceptedRoom(room, b), a) /\ Known(AcceptedRoom(room, b), b)
<1>1. \A n \in Nat, a \in Pet : Public(n, a) # Unknown
  BY UnknownAssumption DEF Public, PublicNumber
<1>2. ASSUME NEW n \in Nat, NEW a \in Pet PROVE Known(OfferedRoom(n, a), a)
  BY <1>1 DEF Known, OfferedRoom
<1>3. ASSUME NEW room \in Room, NEW a \in Pet, NEW b \in Pet, a # b, Known(room, a)
      PROVE  Known(AcceptedRoom(room, b), a) /\ Known(AcceptedRoom(room, b), b)
  <2>1. room.params \in Nat /\ room.pub \in [Pet -> PublicNumber \cup {Unknown}]
    BY DEF Room
  <2>2. AcceptedRoom(room, b).pub = [room.pub EXCEPT ![b] = Public(room.params, b)]
    BY DEF AcceptedRoom, Room
  <2>3. AcceptedRoom(room, b).pub[a] = room.pub[a]
        /\ AcceptedRoom(room, b).pub[b] = Public(room.params, b)
    BY <1>3, <2>1, <2>2
  <2> QED BY <1>1, <1>3, <2>1, <2>3 DEF Known
<1> QED BY <1>2, <1>3

\* The asker's device does not see a request of the other.
LEMMA AskerSeesNone ==
  ASSUME TypeOK, GrowInv, NEW a \in Pet, NEW b \in Pet, a # b, NotAsked(a, b)
  PROVE  Sees(a, FriendDoc(a, b)) # "receiving"
<1> SUFFICES ASSUME Sees(a, FriendDoc(a, b)) = "receiving" PROVE FALSE
  OBVIOUS
<1> DEFINE d == FriendDoc(a, b)
<1>1. Len(queue[a]) \in Nat
  BY DEF TypeOK
<1>2. CASE Sees(a, d) = db[d]
  BY <1>2 DEF NotAsked, Record
<1>3. CASE \E i \in 1 .. Len(queue[a]) : queue[a][i].doc = d /\ Sees(a, d) = queue[a][i].val
  <2>1. PICK i \in 1 .. Len(queue[a]) : queue[a][i].doc = d /\ queue[a][i].val = "receiving"
    BY <1>3
  <2>2. Written(a, queue[a][i]) /\ d \in FriendDocs
    BY DocTypes DEF GrowInv, GrowQueue, GrowWrite
  <2>3. queue[a][i].peer # a /\ d = FriendDoc(queue[a][i].peer, a)
    BY <2>1, <2>2, WrittenRecord
  <2>4. FriendDoc(a, b) = FriendDoc(queue[a][i].peer, a)
    BY <2>3
  <2> QED BY <2>3, <2>4, FriendDocOf
<1>4. \/ View(db, queue[a], d) = db[d]
      \/ \E i \in 1 .. Len(queue[a]) : queue[a][i].doc = d /\ View(db, queue[a], d) = queue[a][i].val
  <2> HIDE DEF d
  <2> QED BY <1>1, ViewIsServerOrPending
<1> QED BY <1>2, <1>3, <1>4 DEF Sees

\* Every step of the apps keeps the numbers in the rooms.
LEMMA TalkQuiet ==
  ASSUME OneAsks, Careful, TypeOK, GrowInv, GrowInv', TalkInv,
         NEW p \in Pet, NEW q \in Pet, p # q, Handles(p, q)
  PROVE  TalkInv'
<1>1. db' = db /\ \A x \in Pet : AddsTo(x)
  BY AppsQuiet DEF Quiet, Handles
<1>2. \A x \in Pet : /\ Len(queue[x]) \in Nat /\ Len(queue'[x]) \in Nat
                     /\ Len(queue'[x]) >= Len(queue[x]) /\ SameWrites(queue[x], queue'[x])
  BY <1>1 DEF AddsTo, TypeOK
<1>3. \A x \in Pet : \A i \in 1 .. Len(queue'[x]) :
        TalkWrite(x, queue'[x], i) /\ Written(x, queue'[x][i])
  BY TalkWrites DEF GrowInv, GrowQueue, GrowWrite
<1>4. \A x \in Pet, y \in Pet : x # y => RoomDoc(x, y) \notin FriendDocs
  BY DocTypes, KindsDiffer
<1>5. ASSUME NEW x \in Pet \ Adders PROVE NotAsking(x)'
  <2>1. NotAsking(x)
    BY DEF TalkInv
  <2>2. ASSUME NEW y \in Pet \ {x}, NEW i \in 1 .. Len(queue'[x]), Request(queue'[x][i], y)
        PROVE  FALSE
    <3>1. /\ queue'[x][i].doc \in FriendDocs /\ queue'[x][i].peer = y
          /\ queue'[x][i].val \in {"sending", "receiving"}
          /\ TalkWrite(x, queue'[x], i) /\ queue'[x][i].doc # RoomDoc(x, y)
      BY <1>3, <1>4, <2>2 DEF Request
    <3>2. button[<<x, y>>] # "enabled" /\ NoRequest(queue[x], y)
      BY <2>1 DEF NotAsking
    <3> QED BY <3>1, <3>2 DEF TalkWrite, NoRequest, Request
  <2>3. \A y \in Pet \ {x} : NoRequest(queue'[x], y)
    BY <2>2 DEF NoRequest
  <2> QED BY <2>1, <2>3, TalkButtons DEF NotAsking
<1>6. \A x, y \in Pet : x # y /\ Record(x, y)' # Absent => x \in Adders \/ y \in Adders
  BY <1>1 DEF TalkInv, Record
<1>7. ASSUME NEW a \in Adders, NEW b \in Pet, a # b
      PROVE  (NotAsked(a, b) /\ RoomsOffered(a, b) /\ Answered(a, b))'
  <2>1. /\ NotAsked(a, b) /\ RoomsOffered(a, b) /\ Answered(a, b)
        /\ a \in Pet /\ b \notin Adders /\ NotAsking(b)
    BY <1>7, TalkDocs DEF TalkInv, OneAsks
  <2>r. RoomDoc(b, a) = RoomDoc(a, b) /\ RoomDoc(a, b) \in RoomDocs
    BY <1>7, <2>1, TalkDocs, DocTypes
  <2>2. ~Befriends(queue'[a], b)
    <3> SUFFICES ASSUME NEW i \in 1 .. Len(queue'[a]), Says(queue'[a][i], "friending"),
                        queue'[a][i].peer = b
                 PROVE  FALSE
      BY DEF Befriends
    <3>1. queue'[a][i].doc \in FriendDocs /\ queue'[a][i].val = "friending"
          /\ TalkWrite(a, queue'[a], i) /\ queue'[a][i].doc # RoomDoc(a, b)
      BY <1>3, <1>4, <1>7, <2>1 DEF Says
    <3> QED BY <2>1, <3>1 DEF TalkWrite, NotAsked, Befriends, Says
  <2>3. NotAsked(a, b)'
    <3>1. Sees(a, FriendDoc(a, b)) # "receiving"
      BY <1>7, <2>1, AskerSeesNone
    <3>2. row'[<<a, b>>] # "receiving" /\ Read("accept", b) \notin reads'[a]
      BY <1>7, <2>1, <3>1, TalkRows DEF NotAsked
    <3>3. Record(a, b)' = Record(a, b)
      BY <1>1 DEF Record
    <3> QED BY <2>1, <2>2, <3>2, <3>3 DEF NotAsked
  <2>4. ASSUME NEW i \in 1 .. Len(queue'[a]), queue'[a][i].doc = RoomDoc(a, b)
        PROVE  /\ Known(queue'[a][i].val, a)
               /\ \E j \in i + 1 .. Len(queue'[a]) : Request(queue'[a][j], b)
    <3>1. TalkWrite(a, queue'[a], i) /\ queue'[a][i].doc \notin FriendDocs
      BY <1>3, <1>4, <1>7, <2>1, <2>4
    <3>2. CASE /\ i \in 1 .. Len(queue[a])
               /\ queue'[a][i].doc = queue[a][i].doc /\ queue'[a][i].val = queue[a][i].val
      <4>1. Known(queue[a][i].val, a) /\ \E j \in i + 1 .. Len(queue[a]) : Request(queue[a][j], b)
        BY <2>1, <2>4, <3>2 DEF RoomsOffered
      <4>2. \A j \in i + 1 .. Len(queue[a]) :
              /\ j \in i + 1 .. Len(queue'[a])
              /\ Request(queue[a][j], b) => Request(queue'[a][j], b)
        BY <1>2, <2>1, <3>2 DEF SameWrites, Request
      <4> QED BY <3>2, <4>1, <4>2
    <3>3. CASE /\ queue'[a][i].doc = RoomDoc(a, queue'[a][i].peer)
               /\ Offers(a, queue'[a], i) \/ Completes(a, queue'[a], i)
      <4>1. queue'[a][i].peer # a
        BY <1>3, <2>1 DEF Written
      <4>2. RoomDoc(a, queue'[a][i].peer) = RoomDoc(a, b)
        BY <2>4, <3>3
      <4>3. queue'[a][i].peer = b
        BY <1>7, <4>1, <4>2, TalkDocs
      <4>4. Offers(a, queue'[a], i)
        BY <2>1, <3>3, <4>3 DEF Completes, NotAsked
      <4> QED BY <2>1, <4>3, <4>4, KnownNumbers DEF Offers
    <3> QED BY <3>1, <3>2, <3>3 DEF TalkWrite
  <2>5. ASSUME NEW i \in 1 .. Len(queue'[b]), queue'[b][i].doc = RoomDoc(a, b)
        PROVE  Known(queue'[b][i].val, a) /\ Known(queue'[b][i].val, b)
    <3>1. TalkWrite(b, queue'[b], i) /\ queue'[b][i].doc \notin FriendDocs
      BY <1>3, <1>4, <1>7, <2>1, <2>5
    <3>2. CASE /\ i \in 1 .. Len(queue[b])
               /\ queue'[b][i].doc = queue[b][i].doc /\ queue'[b][i].val = queue[b][i].val
      BY <2>1, <2>5, <3>2 DEF RoomsOffered
    <3>3. CASE /\ queue'[b][i].doc = RoomDoc(b, queue'[b][i].peer)
               /\ Offers(b, queue'[b], i) \/ Completes(b, queue'[b], i)
      <4>1. queue'[b][i].peer # b
        BY <1>3 DEF Written
      <4>2. RoomDoc(b, queue'[b][i].peer) = RoomDoc(b, a)
        BY <2>5, <2>r, <3>3
      <4>3. queue'[b][i].peer = a
        BY <1>7, <4>1, <4>2, TalkDocs
      <4>4. button[<<b, a>>] = "closed"
        BY <1>7, <2>1 DEF NotAsking
      <4>5. Completes(b, queue'[b], i)
        BY <3>3, <4>3, <4>4 DEF Offers
      <4> DEFINE room == Sees(b, RoomDoc(b, a))
      <4>6. room # Absent /\ queue'[b][i].val = AcceptedRoom(room, b)
        BY <4>3, <4>5 DEF Completes
      <4>7. room \in Room
        BY <1>7, <2>1, <4>6, SeesRoom
      <4>8. Known(room, a)
        BY <1>7, <2>r, <4>6, SeesAskers
      <4> HIDE DEF room
      <4> QED BY <1>7, <2>1, <4>6, <4>7, <4>8, KnownNumbers
    <3> QED BY <3>1, <3>2, <3>3 DEF TalkWrite
  <2>6. RoomOf(a, b)' = RoomOf(a, b) /\ Record(a, b)' = Record(a, b) /\ Record(b, a)' = Record(b, a)
    BY <1>1 DEF RoomOf, Record
  <2>7. RoomsOffered(a, b)'
    BY <2>1, <2>4, <2>5, <2>6 DEF RoomsOffered
  <2>8. ASSUME Befriending(a, b)
        PROVE  \/ Read("accept", a) \in reads'[b] \/ Pends(queue'[b], RoomDoc(a, b))
               \/ RoomOf(a, b) # Absent /\ Known(RoomOf(a, b), b)
    <3>1. CASE Read("accept", a) \in reads[b]
      BY <1>7, <2>1, <2>r, <3>1, TalkReads
    <3>2. CASE Pends(queue[b], RoomDoc(a, b))
      BY <1>2, <3>2 DEF Pends, SameWrites
    <3> QED BY <2>1, <2>8, <3>1, <3>2 DEF Answered
  <2>9. ASSUME Befriends(queue'[b], a)
        PROVE  Befriends(queue[b], a) \/ Read("accept", a) \in reads'[b]
    <3>1. PICK i \in 1 .. Len(queue'[b]) : Says(queue'[b][i], "friending") /\ queue'[b][i].peer = a
      BY <2>9 DEF Befriends
    <3>2. TalkWrite(b, queue'[b], i) /\ queue'[b][i].doc # RoomDoc(b, a)
      BY <1>3, <1>4, <1>7, <2>1, <3>1 DEF Says
    <3> QED BY <3>1, <3>2 DEF TalkWrite, Befriends, Says
  <2>10. Answered(a, b)'
    BY <2>6, <2>8, <2>9 DEF Answered, Befriending
  <2> QED BY <2>3, <2>7, <2>10
<1> QED BY <1>5, <1>6, <1>7 DEF TalkInv

\* Applying a write issues a read of the room at most.
LEMMA FlushReads ==
  ASSUME TypeOK, NEW x \in Pet, Flush(x), NEW y \in Pet
  PROVE  /\ \A r \in reads[y] : r \in reads'[y]
         /\ \A r \in reads'[y] : r \in reads[y] \/ r.kind = "chat"
<1>1. PICK rs : Issue(x, rs) /\ \A r \in rs : r.kind = "chat"
  <2>1. \A z : Read("chat", z).kind = "chat"
    BY PutFields
  <2> DEFINE w == Head(queue[x])
  <2>2. Issue(x, IF w.ack = "openChat" THEN {Read("chat", w.peer)} ELSE {})
    BY DEF Flush
  <2> HIDE DEF w
  <2> QED BY <2>1, <2>2
<1> QED BY <1>1 DEF Issue, TypeOK

\* Applying a write keeps the numbers in the rooms.
LEMMA TalkFlush ==
  ASSUME OneAsks, TypeOK, GrowInv, CrossInv, ResetInv, TalkInv, NEW x \in Pet, Flush(x)
  PROVE  TalkInv'
<1> DEFINE w == Head(queue[x])
<1>1. /\ queue[x] \in Seq(Write) /\ queue[x] # << >>
      /\ \A d \in Doc : db'[d] = IF d = w.doc THEN w.val ELSE db[d]
  BY FlushDocs
<1>2. /\ \A y \in Pet : queue'[y] = IF y = x THEN Tail(queue[x]) ELSE queue[y]
      /\ row' = row /\ button' = button
  BY FlushTail
<1>3. /\ Len(queue[x]) \in Nat /\ 1 \in 1 .. Len(queue[x]) /\ w = queue[x][1]
      /\ Len(Tail(queue[x])) = Len(queue[x]) - 1
      /\ \A i \in 1 .. Len(Tail(queue[x])) : i + 1 \in 1 .. Len(queue[x])
                                             /\ Tail(queue[x])[i] = queue[x][i + 1]
      /\ \A i \in 2 .. Len(queue[x]) : i - 1 \in 1 .. Len(Tail(queue[x]))
                                       /\ Tail(queue[x])[i - 1] = queue[x][i]
  BY <1>1, TailWrites
<1>4. GrowWrite(queue[x], 1, x, db) /\ Written(x, w)
  BY <1>3 DEF GrowInv, GrowQueue, GrowWrite
<1> HIDE DEF w
\* A write that is queued was so; one that was is so still, or is the head.
<1>5. ASSUME NEW y \in Pet
      PROVE  /\ \A i \in 1 .. Len(queue'[y]) : \E k \in 1 .. Len(queue[y]) :
                  /\ queue'[y][i] = queue[y][k]
                  /\ \A j \in k + 1 .. Len(queue[y]) :
                       \E m \in i + 1 .. Len(queue'[y]) : queue'[y][m] = queue[y][j]
             /\ \A k \in 1 .. Len(queue[y]) :
                  \/ \E i \in 1 .. Len(queue'[y]) : queue'[y][i] = queue[y][k]
                  \/ y = x /\ queue[y][k] = w
  <2>1. CASE y # x
    <3>1. queue'[y] = queue[y]
      BY <1>2, <2>1
    <3> QED BY <3>1
  <2>2. CASE y = x
    <3> DEFINE s == queue[x]
               t == Tail(queue[x])
    <3>1. queue'[y] = t /\ queue[y] = s
      BY <1>2, <2>2
    <3>2. /\ Len(s) \in Nat /\ Len(t) = Len(s) - 1 /\ w = s[1]
          /\ \A i \in 1 .. Len(t) : i + 1 \in 1 .. Len(s) /\ t[i] = s[i + 1]
          /\ \A i \in 2 .. Len(s) : i - 1 \in 1 .. Len(t) /\ t[i - 1] = s[i]
      BY <1>3
    <3> HIDE DEF s, t
    <3>3. ASSUME NEW i \in 1 .. Len(t)
          PROVE  \E k \in 1 .. Len(s) :
                   /\ t[i] = s[k]
                   /\ \A j \in k + 1 .. Len(s) : \E m \in i + 1 .. Len(t) : t[m] = s[j]
      <4>1. i + 1 \in 1 .. Len(s) /\ t[i] = s[i + 1]
        BY <3>2
      <4>2. \A j \in (i + 1) + 1 .. Len(s) : j - 1 \in i + 1 .. Len(t) /\ t[j - 1] = s[j]
        BY <3>2
      <4> QED BY <4>1, <4>2
    <3>4. ASSUME NEW k \in 1 .. Len(s)
          PROVE  (\E i \in 1 .. Len(t) : t[i] = s[k]) \/ s[k] = w
      <4>1. k = 1 \/ k \in 2 .. Len(s)
        BY <3>2
      <4> QED BY <3>2, <4>1
    <3> QED BY <2>2, <3>1, <3>3, <3>4
  <2> QED BY <2>1, <2>2
<1>6. ASSUME NEW y \in Pet, NEW z
      PROVE  /\ NoRequest(queue[y], z) => NoRequest(queue'[y], z)
             /\ Befriends(queue'[y], z) => Befriends(queue[y], z)
  <2>1. \A i \in 1 .. Len(queue'[y]) : \E k \in 1 .. Len(queue[y]) : queue'[y][i] = queue[y][k]
    BY <1>5
  <2>2. NoRequest(queue[y], z) => NoRequest(queue'[y], z)
    BY <2>1 DEF NoRequest
  <2>3. ASSUME Befriends(queue'[y], z) PROVE Befriends(queue[y], z)
    <3>1. PICK i \in 1 .. Len(queue'[y]) : Says(queue'[y][i], "friending") /\ queue'[y][i].peer = z
      BY <2>3 DEF Befriends
    <3>2. PICK k \in 1 .. Len(queue[y]) : queue'[y][i] = queue[y][k]
      BY <2>1
    <3>3. Says(queue[y][k], "friending") /\ queue[y][k].peer = z
      BY <3>1, <3>2
    <3> QED BY <3>3 DEF Befriends
  <2> QED BY <2>2, <2>3
<1>7. \A z : Says(w, "friending") /\ w.peer = z => Befriends(queue[x], z)
  BY <1>3 DEF Befriends
<1>8. \A z \in Pet \ {x} : Request(w, z) => x \in Adders
  <2> SUFFICES ASSUME NEW z \in Pet \ {x}, Request(w, z), x \notin Adders PROVE FALSE
    OBVIOUS
  <2>1. NoRequest(queue[x], z)
    BY DEF TalkInv, NotAsking
  <2> QED BY <1>3, <2>1 DEF NoRequest
<1>9. ASSUME NEW y \in Pet \ Adders PROVE NotAsking(y)'
  <2>1. NotAsking(y)
    BY DEF TalkInv
  <2>2. \A r \in reads'[y] : r.kind # "check"
    BY <2>1, FlushReads DEF NotAsking
  <2> QED BY <1>2, <1>6, <2>1, <2>2 DEF NotAsking
<1>10. ASSUME NEW p \in Pet, NEW q \in Pet, p # q, Record(p, q)' # Absent
       PROVE  p \in Adders \/ q \in Adders
  <2>1. CASE w.doc # FriendDoc(p, q)
    <3>1. Record(p, q)' = Record(p, q)
      BY <1>10, <2>1, OtherRecord DEF w
    <3> QED BY <1>10, <3>1 DEF TalkInv
  <2>2. CASE w.doc = FriendDoc(p, q)
    <3>1. \/ x = p /\ w.peer = q /\ (Request(w, q) \/ Says(w, "friending"))
          \/ x = q /\ w.peer = p /\ (Request(w, p) \/ Says(w, "friending"))
      BY <1>10, <2>2, AppliedRecord DEF w
    <3>2. Says(w, "friending") => Acquainted(db, x, w.peer)
      BY <1>3, <1>4 DEF GrowWrite
    <3>3. Says(w, "friending") => x \in Adders \/ w.peer \in Adders
      BY <1>10, <3>1, <3>2 DEF TalkInv, Acquainted, Record
    <3> QED BY <1>8, <1>10, <3>1, <3>3
  <2> QED BY <2>1, <2>2
<1>11. ASSUME NEW a \in Adders, NEW b \in Pet, a # b
       PROVE  (NotAsked(a, b) /\ RoomsOffered(a, b) /\ Answered(a, b))'
  <2>1. /\ NotAsked(a, b) /\ RoomsOffered(a, b) /\ Answered(a, b)
        /\ a \in Pet /\ b \notin Adders /\ NotAsking(b)
    BY <1>11, TalkDocs DEF TalkInv, OneAsks
  <2>d. /\ RoomDoc(a, b) \in Doc /\ RoomDoc(a, b) \in RoomDocs /\ RoomDoc(b, a) = RoomDoc(a, b)
    BY <1>11, <2>1, TalkDocs, DocTypes
  <2>3. Record(a, b)' # "receiving" /\ (Record(a, b)' = "friending" => Befriending(a, b))
    <3>1. CASE w.doc # FriendDoc(a, b)
      <4>1. Record(a, b)' = Record(a, b)
        BY <1>11, <2>1, <3>1, OtherRecord DEF w
      <4> QED BY <2>1, <4>1 DEF NotAsked, Befriending
    <3>2. CASE w.doc = FriendDoc(a, b)
      <4>1. /\ Record(a, b)' = w.val
            /\ \/ x = a /\ w.peer = b /\ ((Request(w, b) /\ w.val = "sending") \/ Says(w, "friending"))
               \/ x = b /\ w.peer = a /\ (Request(w, a) \/ Says(w, "friending"))
        BY <1>11, <2>1, <3>2, AppliedRecord DEF w
      <4>2. x = a => ~Says(w, "friending") \/ w.peer # b
        BY <1>7, <2>1 DEF NotAsked
      <4>3. x = b => ~Request(w, a)
        BY <1>8, <1>11, <2>1
      <4> QED BY <1>7, <4>1, <4>2, <4>3 DEF Says, Befriending
    <3> QED BY <3>1, <3>2
  <2>4. Record(b, a)' = "friending" => Befriending(a, b)
    <3>1. CASE w.doc # FriendDoc(b, a)
      <4>1. Record(b, a)' = Record(b, a)
        BY <1>11, <2>1, <3>1, OtherRecord DEF w
      <4> QED BY <4>1 DEF Befriending
    <3>2. CASE w.doc = FriendDoc(b, a)
      <4>1. /\ Record(b, a)' = w.val
            /\ \/ x = b /\ w.peer = a /\ ((Request(w, a) /\ w.val = "sending") \/ Says(w, "friending"))
               \/ x = a /\ w.peer = b /\ ((Request(w, b) /\ Says(w, "receiving")) \/ Says(w, "friending"))
        BY <1>11, <2>1, <3>2, AppliedRecord DEF w
      <4>2. x = a => ~Says(w, "friending") \/ w.peer # b
        BY <1>7, <2>1 DEF NotAsked
      <4> QED BY <1>7, <4>1, <4>2 DEF Says, Befriending
    <3> QED BY <3>1, <3>2
  <2>5. Befriending(a, b)' => Befriending(a, b)
    BY <1>6, <2>3, <2>4 DEF Befriending
  <2>6. NotAsked(a, b)'
    <3>1. Read("accept", b).kind = "accept"
      BY PutFields
    <3>2. Read("accept", b) \notin reads'[a]
      BY <2>1, <3>1, FlushReads DEF NotAsked
    <3> QED BY <1>2, <1>6, <2>1, <2>3, <3>2 DEF NotAsked
  \* The room that is applied, and who wrote it.
  <2>7. RoomOf(a, b)' = IF w.doc = RoomDoc(a, b) THEN w.val ELSE RoomOf(a, b)
    BY <1>1, <2>d DEF RoomOf
  <2>8. ASSUME w.doc = RoomDoc(a, b)
        PROVE  /\ x = a \/ x = b
               /\ w.val # Absent /\ Known(w.val, a) /\ (x = b => Known(w.val, b))
               /\ x = a => ~NoRequest(queue[a], b)
    <3>1. w.val # Absent /\ RoomDoc(x, w.peer) = RoomDoc(a, b)
      BY <1>4, <2>8, <2>d, WrittenRoom DEF Written
    <3>2. x \in RoomDoc(x, w.peer).of /\ RoomDoc(a, b).of = {a, b}
      BY DEF RoomDoc
    <3>3. x = a \/ x = b
      BY <3>1, <3>2
    <3>4. CASE x = a
      <4>1. Known(w.val, a) /\ \E j \in 1 + 1 .. Len(queue[a]) : Request(queue[a][j], b)
        BY <1>3, <2>1, <2>8, <3>4 DEF RoomsOffered
      <4>2. \A j \in 1 + 1 .. Len(queue[a]) : j \in 1 .. Len(queue[a])
        BY <1>3, <3>4
      <4> QED BY <1>11, <3>1, <3>4, <4>1, <4>2 DEF NoRequest
    <3>5. CASE x = b
      BY <1>3, <1>11, <2>1, <2>8, <3>1, <3>5 DEF RoomsOffered
    <3> QED BY <3>3, <3>4, <3>5
  <2>9. RoomsOffered(a, b)'
    <3>1. RoomOf(a, b)' # Absent => Known(RoomOf(a, b)', a)
      BY <2>1, <2>7, <2>8 DEF RoomsOffered
    <3>2. ASSUME NEW i \in 1 .. Len(queue'[a]), queue'[a][i].doc = RoomDoc(a, b)
          PROVE  /\ Known(queue'[a][i].val, a)
                 /\ \E j \in i + 1 .. Len(queue'[a]) : Request(queue'[a][j], b)
      <4>1. PICK k \in 1 .. Len(queue[a]) :
              /\ queue'[a][i] = queue[a][k]
              /\ \A j \in k + 1 .. Len(queue[a]) :
                   \E m \in i + 1 .. Len(queue'[a]) : queue'[a][m] = queue[a][j]
        BY <1>5, <2>1
      <4>2. /\ Known(queue[a][k].val, a)
            /\ \E j \in k + 1 .. Len(queue[a]) : Request(queue[a][j], b)
        BY <2>1, <3>2, <4>1 DEF RoomsOffered
      <4>3. PICK j \in k + 1 .. Len(queue[a]) : Request(queue[a][j], b)
        BY <4>2
      <4>4. PICK m \in i + 1 .. Len(queue'[a]) : queue'[a][m] = queue[a][j]
        BY <4>1, <4>3
      <4>5. Request(queue'[a][m], b)
        BY <4>3, <4>4
      <4> QED BY <4>1, <4>2, <4>5
    <3>3. ASSUME NEW i \in 1 .. Len(queue'[b]), queue'[b][i].doc = RoomDoc(a, b)
          PROVE  Known(queue'[b][i].val, a) /\ Known(queue'[b][i].val, b)
      <4>1. PICK k \in 1 .. Len(queue[b]) : queue'[b][i] = queue[b][k]
        BY <1>5
      <4> QED BY <2>1, <3>3, <4>1 DEF RoomsOffered
    <3> QED BY <3>1, <3>2, <3>3 DEF RoomsOffered, Known
  <2>10. ASSUME Befriending(a, b)
         PROVE  NoRequest(queue[a], b)
    <3>1. ResetEdge(a, b) /\ ResetEdge(b, a)
      BY <1>11, <2>1 DEF ResetInv
    <3>2. Final(a, b)
      BY <2>10, <3>1 DEF Befriending, ResetEdge
    <3> QED BY <3>2 DEF Final
  <2>11. ASSUME Befriending(a, b)
         PROVE  \/ Read("accept", a) \in reads'[b] \/ Pends(queue'[b], RoomDoc(a, b))
                \/ RoomOf(a, b)' # Absent /\ Known(RoomOf(a, b)', b)
    <3>1. CASE Read("accept", a) \in reads[b]
      BY <3>1, FlushReads
    <3>2. CASE Pends(queue[b], RoomDoc(a, b))
      <4>1. PICK k \in 1 .. Len(queue[b]) : queue[b][k].doc = RoomDoc(a, b)
        BY <3>2 DEF Pends
      <4>2. CASE \E i \in 1 .. Len(queue'[b]) : queue'[b][i] = queue[b][k]
        BY <4>1, <4>2 DEF Pends
      <4>3. CASE b = x /\ queue[b][k] = w
        BY <2>7, <2>8, <4>1, <4>3
      <4> QED BY <1>5, <4>1, <4>2, <4>3
    <3>3. CASE RoomOf(a, b) # Absent /\ Known(RoomOf(a, b), b)
      BY <2>7, <2>8, <2>10, <2>11, <3>3
    <3> QED BY <2>1, <2>11, <3>1, <3>2, <3>3 DEF Answered
  <2>12. Answered(a, b)'
    BY <2>5, <2>11 DEF Answered, Known
  <2> QED BY <2>6, <2>9, <2>12
<1> QED BY <1>9, <1>10, <1>11 DEF TalkInv

\* Every step of careful owners' apps keeps the numbers in the rooms.
LEMMA TalkStep ==
  ASSUME OneAsks, Careful, CarefulInv, GrowInv', TalkInv, [Next]_vars
  PROVE  TalkInv'
<1>1. ~(faults < MaxFaults)
  BY DEF Careful, CarefulInv, TypeOK
<1>2. \A p, q : ~ReadFails(p, q) /\ ~Kill(p)
  BY <1>1 DEF ReadFails, Kill
<1>3. ASSUME NEW e \in Edge, User(e[1], e[2]) \/ Callback(e[1], e[2])
      PROVE  TalkInv'
  <2>1. e[1] \in Pet /\ e[2] \in Pet /\ e[1] # e[2]
    BY DEF Edge
  <2> QED BY <1>3, <2>1, TalkQuiet DEF CarefulInv, Handles
<1>4. ASSUME NEW p \in Pet, LoadList(p)
      PROVE  TalkInv'
  <2>1. CASE \E q \in Pet : p # q
    BY <1>4, <2>1, TalkQuiet DEF CarefulInv, Handles
  <2>2. CASE \A q \in Pet : p = q
    <3>1. \A x, y \in Pet : x = y
      BY <2>2
    <3>2. \A x \in Pet \ Adders : \A r \in reads[x] : r.kind # "check"
      BY DEF TalkInv, NotAsking
    <3>3. \A x \in Pet : \A r \in reads'[x] : r \in reads[x] \/ r.kind # "check"
      <4>1. \A q : Read("chat", q).kind = "chat"
        BY PutFields
      <4> QED BY <1>4, <4>1 DEF LoadList, Issue, CarefulInv, TypeOK
    <3>4. \A x \in Pet \ Adders : NotAsking(x)'
      BY <3>1, <3>2, <3>3 DEF NotAsking
    <3> QED BY <3>1, <3>4, TalkDocs DEF TalkInv
  <2> QED BY <2>1, <2>2
<1>5. ASSUME NEW p \in Pet, Flush(p)
      PROVE  TalkInv'
  BY <1>5, TalkFlush DEF CarefulInv
<1>6. CASE UNCHANGED vars
  BY <1>6 DEF vars, TalkInv, NotAsking, NotAsked, RoomsOffered, Answered, Befriending, RoomOf, Record
<1> QED BY <1>2, <1>3, <1>4, <1>5, <1>6 DEF Next

\* At first nobody has asked and there is no room.
LEMMA TalkInit == Init => TalkInv
<1> SUFFICES ASSUME Init PROVE TalkInv
  OBVIOUS
<1>1. \A p \in Pet : queue[p] = << >> /\ reads[p] = {}
  BY DEF Init
<1>2. \A p, q \in Pet : p # q => /\ button[<<p, q>>] = "closed" /\ row[<<p, q>>] = "none"
                                 /\ Record(p, q) = Absent /\ RoomOf(p, q) = Absent
  BY DocTypes DEF Init, Record, RoomOf
<1>3. ASSUME NEW p \in Pet \ Adders PROVE NotAsking(p)
  BY <1>1, <1>2 DEF NotAsking, NoRequest
<1>4. ASSUME NEW a \in Adders, NEW b \in Pet, a # b
      PROVE  NotAsked(a, b) /\ RoomsOffered(a, b) /\ Answered(a, b)
  <2>1. a \in Pet
    BY TalkDocs
  <2>2. Absent # "receiving" /\ Absent # "friending"
    BY AbsentAssumption DEF Status
  <2>3. ~Befriends(queue[a], b) /\ ~Befriends(queue[b], a)
    BY <1>1, <2>1 DEF Befriends
  <2>4. NotAsked(a, b)
    <3>1. row[<<a, b>>] # "receiving" /\ Record(a, b) # "receiving"
      BY <1>2, <1>4, <2>1, <2>2
    <3>2. reads[a] = {}
      BY <1>1, <2>1
    <3> QED BY <2>3, <3>1, <3>2 DEF NotAsked
  <2>5. RoomsOffered(a, b)
    <3>1. RoomOf(a, b) = Absent
      BY <1>2, <1>4, <2>1
    <3>2. 1 .. Len(queue[a]) = {} /\ 1 .. Len(queue[b]) = {}
      BY <1>1, <2>1
    <3> QED BY <3>1, <3>2 DEF RoomsOffered
  <2>6. Answered(a, b)
    BY <1>2, <1>4, <2>1, <2>2, <2>3 DEF Answered, Befriending
  <2> QED BY <2>4, <2>5, <2>6
<1> QED BY <1>2, <1>3, <1>4 DEF TalkInv

(***************************************************************************)
(* Where one pet asks any others, any number of times, every friendship    *)
(* has a room with both numbers once nothing is under way: the acceptor's  *)
(* number is not written over, as acceptFriend follows the last request.   *)
(***************************************************************************)
THEOREM FriendsHaveNumbers ==
  ASSUME Careful, OneAsks
  PROVE  Spec => []FriendsCanTalk
<1> DEFINE Inv == CarefulInv /\ TalkInv
<1>1. Init => Inv
  BY TypeInit, GrowInit, CrossInit, ResetInit, TalkInit DEF CarefulInv
<1>2. Inv /\ [Next]_vars => Inv'
  <2> SUFFICES ASSUME Inv, [Next]_vars PROVE Inv'
    OBVIOUS
  <2>1. TypeOK' /\ GrowInv' /\ CrossInv'
    BY TypeStep, GrowStep, CrossStep DEF CarefulInv, Careful
  <2> QED BY <2>1, ResetStep, TalkStep DEF CarefulInv
<1>3. Inv => FriendsCanTalk
  BY TalkImplies DEF CarefulInv
<1> QED BY <1>1, <1>2, <1>3, PTL DEF Spec

----------------------------------------------------------------------------
(* One request, of a to b, between any two apps *)

\* The instances in which one request is sent, and answered at most once, and
\* no fault strikes.
OneRequest == MaxAdds = 1 /\ MaxAnswers = 1 /\ MaxFaults = 0

\* The writes that wait in a queue, whatever their order.
Writes(s) == {s[i] : i \in 1 .. Len(s)}
Owes(s, d) == \E w \in Writes(s) : w.doc = d

\* What the apps of a and b wait for, besides checks, and what their rows show.
Checks == {Read("check", q) : q \in Pet}
ReadsAre(a, b, mine, theirs) ==
  \A p \in Pet :
    reads[p] \subseteq Checks \cup (IF p = a THEN mine ELSE IF p = b THEN theirs ELSE {})
RowsAre(a, b, mine, theirs) ==
  \A e \in Edge :
    row[e] \in {"none"} \cup (IF e = <<a, b>> THEN mine ELSE IF e = <<b, a>> THEN theirs ELSE {})

\* The documents of the pair.
DocsAre(a, b, room, mine, theirs) ==
  db[RoomDoc(a, b)] = room /\ db[FriendDoc(a, b)] = mine /\ db[FriendDoc(b, a)] = theirs

\* Nobody else has a record, a room or a write.
Apart(a, b) ==
  /\ \A d \in Doc \ {RoomDoc(a, b), FriendDoc(a, b), FriendDoc(b, a)} : db[d] = Absent
  /\ \A p \in Pet \ {a, b} : queue[p] = << >>

Offer(a) == OfferedRoom(1, a)
Taken(a, b) == AcceptedRoom(Offer(a), b)

\* No request yet.
Unasked ==
  /\ adds = 0
  /\ \A d \in Doc : db[d] = Absent
  /\ \A p \in Pet : queue[p] = << >> /\ answers[p] = 0 /\ reads[p] \subseteq Checks
  /\ \A e \in Edge : row[e] = "none"

\* The request is on its way: the room, a's record, b's record.
Tell1(a, b) == Put(FriendDoc(b, a), "receiving", b)
Ask1(a, b) == IF a \in Ios THEN Put(FriendDoc(a, b), "sending", b)
              ELSE PutThen(FriendDoc(a, b), "sending", b, "receiver")
SendingDocs(a, b) ==
  LET room == Put(RoomDoc(a, b), Offer(a), b)
      ask == Ask1(a, b)
      tell == Tell1(a, b)
  IN  \/ /\ DocsAre(a, b, Absent, Absent, Absent)
         /\ queue[a] = IF a \in Ios THEN << room, ask, tell >> ELSE << room, ask >>
      \/ /\ DocsAre(a, b, Offer(a), Absent, Absent)
         /\ queue[a] = IF a \in Ios THEN << ask, tell >> ELSE << ask >>
      \/ DocsAre(a, b, Offer(a), "sending", Absent) /\ queue[a] = << tell >>
Sending(a, b) ==
  /\ answers[b] = 0 /\ queue[b] = << >> /\ SendingDocs(a, b)
  /\ ReadsAre(a, b, {}, {}) /\ RowsAre(a, b, {}, {})

\* It has arrived.
Waiting(a, b) ==
  /\ DocsAre(a, b, Offer(a), "sending", "receiving")
  /\ queue[a] = << >> /\ queue[b] = << >> /\ answers[b] = 0
  /\ ReadsAre(a, b, {}, {}) /\ RowsAre(a, b, {}, {"receiving"})

\* b has pressed Accept: each of the three documents is as it will be, or is
\* still owed.
AcceptWrites(a, b) ==
  {PutThen(FriendDoc(a, b), "friending", a, k) : k \in {NoAck, "receiver"}}
    \cup {Put(FriendDoc(b, a), "friending", a)}
    \cup {PutThen(RoomDoc(a, b), Taken(a, b), a, k) : k \in {NoAck, "openChat"}}
AcceptedDocs(a, b) ==
  /\ db[RoomDoc(a, b)] \in {Offer(a), Taken(a, b)}
  /\ db[FriendDoc(a, b)] \in {"sending", "friending"}
  /\ db[FriendDoc(b, a)] \in {"receiving", "friending"}
  /\ Writes(queue[b]) \subseteq AcceptWrites(a, b)
  /\ db[FriendDoc(a, b)] = "friending" \/ Owes(queue[b], FriendDoc(a, b))
  /\ \/ db[FriendDoc(b, a)] = "friending"
     \/ Owes(queue[b], FriendDoc(b, a))
     \/ \E w \in Writes(queue[b]) : w.ack = "receiver"
  /\ \/ db[RoomDoc(a, b)] = Taken(a, b)
     \/ Owes(queue[b], RoomDoc(a, b))
     \/ Read("accept", a) \in reads[b]
Accepted(a, b) ==
  /\ queue[a] = << >> /\ answers[b] = 1 /\ AcceptedDocs(a, b)
  /\ ReadsAre(a, b, {Read("chat", b)}, {Read("chat", a), Read("accept", a)})
  /\ RowsAre(a, b, {"friending"}, {"receiving", "answered", "friending"})

\* b has pressed Reject: likewise.
Deletions(a) == {Read(k, a) : k \in {"delete1", "delete2", "delete3"}}
RejectWrites(a, b) ==
  {Put(d, Absent, a) : d \in {RoomDoc(a, b), FriendDoc(a, b), FriendDoc(b, a)}}
RejectedDocs(a, b) ==
  /\ db[RoomDoc(a, b)] \in {Offer(a), Absent}
  /\ db[FriendDoc(a, b)] \in {"sending", Absent}
  /\ db[FriendDoc(b, a)] \in {"receiving", Absent}
  /\ Writes(queue[b]) \subseteq RejectWrites(a, b)
  /\ Read("delete1", a) \in reads[b] =>
       /\ queue[b] = << >> /\ db[FriendDoc(a, b)] = "sending"
       /\ Read("delete2", a) \notin reads[b] /\ Read("delete3", a) \notin reads[b]
  /\ \/ db[FriendDoc(a, b)] = Absent
     \/ Owes(queue[b], FriendDoc(a, b))
     \/ Read("delete1", a) \in reads[b]
  /\ \/ db[FriendDoc(b, a)] = Absent
     \/ Owes(queue[b], FriendDoc(b, a))
     \/ Read("delete1", a) \in reads[b]
     \/ Read("delete2", a) \in reads[b]
Rejected(a, b) ==
  /\ queue[a] = << >> /\ answers[b] = 1 /\ RejectedDocs(a, b)
  /\ ReadsAre(a, b, {}, Deletions(a)) /\ RowsAre(a, b, {}, {"receiving"})

\* a and b are the pets of the request.
Asked(a, b) ==
  /\ adds = 1 /\ Apart(a, b)
  /\ Sending(a, b) \/ Waiting(a, b) \/ Accepted(a, b) \/ Rejected(a, b)

OneInv == Unasked \/ \E e \in Edge : Asked(e[1], e[2])

----------------------------------------------------------------------------
(* Lemmas on one request *)

\* The writes of longer and shorter queues.
LEMMA WritesAre ==
  /\ Writes(<< >>) = {}
  /\ \A x : Writes(<< x >>) = {x}
  /\ \A x, y : Writes(<< x, y >>) = {x, y}
  /\ \A x, y, z : Writes(<< x, y, z >>) = {x, y, z}
<1>1. Writes(<< >>) = {}
  BY DEF Writes
<1>2. ASSUME NEW x PROVE Writes(<< x >>) = {x}
  <2>1. 1 .. Len(<< x >>) = {1} /\ << x >>[1] = x
    OBVIOUS
  <2> QED BY <2>1 DEF Writes
<1>3. ASSUME NEW x, NEW y PROVE Writes(<< x, y >>) = {x, y}
  <2>1. 1 .. Len(<< x, y >>) = {1, 2} /\ << x, y >>[1] = x /\ << x, y >>[2] = y
    OBVIOUS
  <2> QED BY <2>1 DEF Writes
<1>4. ASSUME NEW x, NEW y, NEW z PROVE Writes(<< x, y, z >>) = {x, y, z}
  <2>1. /\ 1 .. Len(<< x, y, z >>) = {1, 2, 3}
        /\ << x, y, z >>[1] = x /\ << x, y, z >>[2] = y /\ << x, y, z >>[3] = z
    OBVIOUS
  <2> QED BY <2>1 DEF Writes
<1> QED BY <1>1, <1>2, <1>3, <1>4

\* A queue and what is appended to it.
LEMMA WritesAppend ==
  ASSUME NEW S, NEW s \in Seq(S), NEW t \in Seq(S)
  PROVE  Writes(s \o t) = Writes(s) \cup Writes(t)
<1> DEFINE u == s \o t
<1>1. /\ Len(s) \in Nat /\ Len(t) \in Nat
      /\ Len(u) = Len(s) + Len(t)
      /\ \A i \in 1 .. Len(s) + Len(t) : u[i] = IF i <= Len(s) THEN s[i] ELSE t[i - Len(s)]
  BY ConcatProperties
<1> HIDE DEF u
<1>2. ASSUME NEW i \in 1 .. Len(s) PROVE s[i] \in Writes(u)
  <2>1. i \in 1 .. Len(u) /\ u[i] = s[i]
    BY <1>1
  <2> QED BY <2>1 DEF Writes
<1>3. ASSUME NEW i \in 1 .. Len(t) PROVE t[i] \in Writes(u)
  <2>1. i + Len(s) \in 1 .. Len(s) + Len(t) /\ ~(i + Len(s) <= Len(s)) /\ (i + Len(s)) - Len(s) = i
    BY <1>1
  <2>2. u[i + Len(s)] = t[i]
    BY <1>1, <2>1
  <2> QED BY <1>1, <2>1, <2>2 DEF Writes
<1>4. ASSUME NEW i \in 1 .. Len(u) PROVE u[i] \in Writes(s) \cup Writes(t)
  <2>1. CASE i <= Len(s)
    <3>1. i \in 1 .. Len(s) /\ u[i] = s[i]
      BY <1>1, <2>1
    <3> QED BY <3>1 DEF Writes
  <2>2. CASE ~(i <= Len(s))
    <3>1. i - Len(s) \in 1 .. Len(t) /\ u[i] = t[i - Len(s)]
      BY <1>1, <2>2
    <3> QED BY <3>1 DEF Writes
  <2> QED BY <2>1, <2>2
<1>5. Writes(u) \subseteq Writes(s) \cup Writes(t)
  BY <1>4 DEF Writes
<1>6. Writes(s) \subseteq Writes(u) /\ Writes(t) \subseteq Writes(u)
  <2>1. \A w \in Writes(s) : \E i \in 1 .. Len(s) : w = s[i]
    BY DEF Writes
  <2>2. \A w \in Writes(t) : \E i \in 1 .. Len(t) : w = t[i]
    BY DEF Writes
  <2> QED BY <1>2, <1>3, <2>1, <2>2
<1> QED BY <1>5, <1>6 DEF u

\* The oldest write and the rest.
LEMMA WritesTail ==
  ASSUME NEW S, NEW s \in Seq(S), s # << >>
  PROVE  Writes(s) = {Head(s)} \cup Writes(Tail(s))
<1> DEFINE t == Tail(s)
<1>1. /\ t \in Seq(S) /\ Len(t) = Len(s) - 1 /\ Len(s) \in Nat /\ Len(s) >= 1
      /\ \A i \in 1 .. Len(t) : t[i] = s[i + 1]
      /\ Head(s) = s[1]
  OBVIOUS
<1> HIDE DEF t
<1>2. ASSUME NEW i \in 1 .. Len(s) PROVE s[i] \in {s[1]} \cup Writes(t)
  <2>1. CASE i = 1
    BY <2>1
  <2>2. CASE i # 1
    <3>1. i - 1 \in 1 .. Len(t) /\ (i - 1) + 1 = i
      BY <1>1, <2>2
    <3>2. t[i - 1] = s[i]
      BY <1>1, <3>1
    <3> QED BY <3>1, <3>2 DEF Writes
  <2> QED BY <2>1, <2>2
<1>3. ASSUME NEW i \in 1 .. Len(t) PROVE t[i] \in Writes(s)
  <2>1. i + 1 \in 1 .. Len(s) /\ t[i] = s[i + 1]
    BY <1>1
  <2> QED BY <2>1 DEF Writes
<1>4. s[1] \in Writes(s)
  <2>1. 1 \in 1 .. Len(s)
    BY <1>1
  <2> QED BY <2>1 DEF Writes
<1>5. Writes(s) \subseteq {s[1]} \cup Writes(t)
  BY <1>2 DEF Writes
<1>6. Writes(t) \subseteq Writes(s)
  BY <1>3 DEF Writes
<1> QED BY <1>1, <1>4, <1>5, <1>6 DEF t

\* A device sees the server's value or one it has queued, and one it has queued
\* if there is any.
LEMMA SeesWrites ==
  ASSUME TypeOK, NEW p \in Pet, NEW d
  PROVE  /\ Sees(p, d) = db[d] \/ \E w \in Writes(queue[p]) : w.doc = d /\ Sees(p, d) = w.val
         /\ Owes(queue[p], d) => \E w \in Writes(queue[p]) : w.doc = d /\ Sees(p, d) = w.val
<1> DEFINE s == queue[p]
<1>1. Len(s) \in Nat
  BY DEF TypeOK
<1>2. CASE PendingOn(s, d) = {}
  <2>1. Sees(p, d) = db[d]
    BY <1>1, <1>2, LastPending DEF Sees
  <2>2. ~ Owes(s, d)
    BY <1>2 DEF Owes, Writes, PendingOn
  <2> QED BY <2>1, <2>2
<1>3. CASE PendingOn(s, d) # {}
  <2>1. PICK i \in PendingOn(s, d) : \A j \in PendingOn(s, d) : j <= i
    BY <1>1, <1>3, LastPending
  <2>2. Sees(p, d) = s[i].val
    BY <1>1, <2>1, ViewIsLast DEF Sees
  <2>3. s[i] \in Writes(s) /\ s[i].doc = d
    BY <2>1 DEF PendingOn, Writes
  <2> QED BY <2>2, <2>3
<1> QED BY <1>2, <1>3

\* The documents of the pair are three, and nobody else's.
LEMMA ThreeDocs ==
  ASSUME NEW a \in Pet, NEW b \in Pet, a # b
  PROVE  /\ RoomDoc(a, b) \in Doc /\ FriendDoc(a, b) \in Doc /\ FriendDoc(b, a) \in Doc
         /\ RoomDoc(a, b) \notin FriendDocs
         /\ RoomDoc(a, b) # FriendDoc(a, b) /\ RoomDoc(a, b) # FriendDoc(b, a)
         /\ FriendDoc(a, b) # FriendDoc(b, a) /\ RoomDoc(b, a) = RoomDoc(a, b)
         /\ \A e \in Edge :
              /\ FriendDoc(e[1], e[2]) \in Doc /\ FriendDoc(e[1], e[2]) # RoomDoc(a, b)
              /\ FriendDoc(e[1], e[2]) = FriendDoc(a, b) <=> e = <<a, b>>
              /\ FriendDoc(e[1], e[2]) = FriendDoc(b, a) <=> e = <<b, a>>
<1>1. RoomDoc(a, b) \notin FriendDocs
  BY DocTypes, KindsDiffer
<1>2. ASSUME NEW e \in Edge
      PROVE  /\ e[1] \in Pet /\ e[2] \in Pet /\ e[1] # e[2] /\ e = <<e[1], e[2]>>
             /\ FriendDoc(e[1], e[2]) \in FriendDocs /\ FriendDoc(e[1], e[2]) \in Doc
  <2>1. e[1] \in Pet /\ e[2] \in Pet /\ e[1] # e[2] /\ e = <<e[1], e[2]>>
    BY DEF Edge
  <2> QED BY <2>1, DocTypes
<1>3. \A e \in Edge : /\ FriendDoc(e[1], e[2]) = FriendDoc(a, b) <=> e = <<a, b>>
                      /\ FriendDoc(e[1], e[2]) = FriendDoc(b, a) <=> e = <<b, a>>
  <2> TAKE e \in Edge
  <2>1. FriendDoc(e[1], e[2]) = FriendDoc(a, b) => e = <<a, b>>
    BY <1>2, FriendDocOf
  <2>2. FriendDoc(e[1], e[2]) = FriendDoc(b, a) => e = <<b, a>>
    BY <1>2, FriendDocOf
  <2>3. /\ <<a, b>>[1] = a /\ <<a, b>>[2] = b
        /\ <<b, a>>[1] = b /\ <<b, a>>[2] = a
    OBVIOUS
  <2> QED BY <2>1, <2>2, <2>3
<1>4. /\ RoomDoc(a, b) \in Doc /\ FriendDoc(a, b) \in Doc /\ FriendDoc(b, a) \in Doc
      /\ FriendDoc(a, b) \in FriendDocs /\ FriendDoc(b, a) \in FriendDocs
  BY DocTypes
<1> QED BY <1>1, <1>2, <1>3, <1>4, FriendDocOf

----------------------------------------------------------------------------
(* What the screens do, they do after what the records show *)

\* What each app sees of its own records.
SeesOnly(a, b, mine, theirs) ==
  \A e \in Edge :
    Sees(e[1], FriendDoc(e[1], e[2])) \in
      IF e = <<a, b>> THEN mine ELSE IF e = <<b, a>> THEN theirs ELSE {Absent}

\* What a pet without pending writes sees is what the server has.
LEMMA SeesServer ==
  ASSUME TypeOK, NEW p \in Pet, queue[p] = << >>, NEW d
  PROVE  Sees(p, d) = db[d]
  BY SeesWrites, WritesAre

\* Nobody sees a record, but the two.
LEMMA SeesApart ==
  ASSUME TypeOK, NEW a \in Pet, NEW b \in Pet, a # b, Apart(a, b),
         \A w \in Writes(queue[a]) \cup Writes(queue[b]) :
            w.doc \in {RoomDoc(a, b), FriendDoc(a, b), FriendDoc(b, a)},
         NEW e \in Edge, e # <<a, b>>, e # <<b, a>>
  PROVE  Sees(e[1], FriendDoc(e[1], e[2])) = Absent
<1> DEFINE d == FriendDoc(e[1], e[2])
<1>1. d \in Doc /\ d \notin {RoomDoc(a, b), FriendDoc(a, b), FriendDoc(b, a)}
  BY ThreeDocs
<1>2. db[d] = Absent
  BY <1>1 DEF Apart
<1>3. e[1] \in Pet
  BY DEF Edge
<1>4. \A w \in Writes(queue[e[1]]) : w.doc # d
  <2>1. CASE e[1] \in {a, b}
    BY <1>1, <2>1
  <2>2. CASE e[1] \notin {a, b}
    <3>1. queue[e[1]] = << >>
      BY <1>3, <2>2 DEF Apart
    <3> QED BY <3>1, WritesAre
  <2> QED BY <2>1, <2>2
<1> HIDE DEF d
<1> QED BY <1>2, <1>3, <1>4, SeesWrites DEF d

\* The writes of a request are to its documents.
LEMMA SendingWrites ==
  ASSUME NEW a \in Pet, NEW b \in Pet, a # b, SendingDocs(a, b)
  PROVE  \A w \in Writes(queue[a]) :
           /\ w.doc \in {RoomDoc(a, b), FriendDoc(a, b), FriendDoc(b, a)}
           /\ w.doc = FriendDoc(a, b) => w.val = "sending"
           /\ w.peer = b
<1> DEFINE r == Put(RoomDoc(a, b), Offer(a), b)
           k == Ask1(a, b)
           t == Tell1(a, b)
<1>1. /\ r.doc = RoomDoc(a, b) /\ r.peer = b
      /\ k.doc = FriendDoc(a, b) /\ k.val = "sending" /\ k.peer = b
      /\ t.doc = FriendDoc(b, a) /\ t.peer = b
  BY PutFields DEF Ask1, Tell1
<1>2. queue[a] \in {<< r, k, t >>, << r, k >>, << k, t >>, << k >>, << t >>}
  BY DEF SendingDocs
<1> HIDE DEF r, k, t
<1>3. Writes(queue[a]) \subseteq {r, k, t}
  BY <1>2, WritesAre
<1> QED BY <1>1, <1>3, ThreeDocs

\* What the two see before the request has arrived ...
LEMMA SendingSees ==
  ASSUME TypeOK, NEW a \in Pet, NEW b \in Pet, a # b, Apart(a, b), Sending(a, b)
  PROVE  SeesOnly(a, b, {Absent, "sending"}, {Absent})
<1>1. \A w \in Writes(queue[a]) \cup Writes(queue[b]) :
        /\ w.doc \in {RoomDoc(a, b), FriendDoc(a, b), FriendDoc(b, a)}
        /\ w.doc = FriendDoc(a, b) => w.val = "sending"
  BY SendingWrites, WritesAre DEF Sending
<1>2. db[FriendDoc(a, b)] \in {Absent, "sending"} /\ db[FriendDoc(b, a)] = Absent
  BY DEF Sending, SendingDocs, DocsAre
<1>3. Sees(a, FriendDoc(a, b)) \in {Absent, "sending"}
  BY <1>1, <1>2, SeesWrites
<1>4. Sees(b, FriendDoc(b, a)) = Absent
  BY <1>2, SeesServer DEF Sending
<1>5. \A e \in Edge : e # <<a, b>> /\ e # <<b, a>> => Sees(e[1], FriendDoc(e[1], e[2])) = Absent
  BY <1>1, SeesApart
<1> QED BY <1>3, <1>4, <1>5 DEF SeesOnly

\* ... when it has ...
LEMMA WaitingSees ==
  ASSUME TypeOK, NEW a \in Pet, NEW b \in Pet, a # b, Apart(a, b), Waiting(a, b)
  PROVE  SeesOnly(a, b, {"sending"}, {"receiving"})
<1>1. Writes(queue[a]) \cup Writes(queue[b]) = {}
  BY WritesAre DEF Waiting
<1>2. Sees(a, FriendDoc(a, b)) = "sending" /\ Sees(b, FriendDoc(b, a)) = "receiving"
  BY SeesServer DEF Waiting, DocsAre
<1>3. \A e \in Edge : e # <<a, b>> /\ e # <<b, a>> => Sees(e[1], FriendDoc(e[1], e[2])) = Absent
  BY <1>1, SeesApart
<1> QED BY <1>2, <1>3 DEF SeesOnly

\* The writes of an acceptance.
LEMMA AcceptFields ==
  ASSUME NEW a \in Pet, NEW b \in Pet, a # b, NEW w \in AcceptWrites(a, b)
  PROVE  /\ w.peer = a
         /\ w.doc \in {RoomDoc(a, b), FriendDoc(a, b), FriendDoc(b, a)}
         /\ w.doc = RoomDoc(a, b) => w.val = Taken(a, b) /\ w.ack \in {NoAck, "openChat"}
         /\ w.doc # RoomDoc(a, b) => w.val = "friending" /\ w.ack \in {NoAck, "receiver"}
         /\ w.doc = FriendDoc(b, a) => w.ack = NoAck
<1>1. CASE \E k \in {NoAck, "receiver"} : w = PutThen(FriendDoc(a, b), "friending", a, k)
  BY <1>1, ThreeDocs, PutFields
<1>2. CASE w = Put(FriendDoc(b, a), "friending", a)
  BY <1>2, ThreeDocs, PutFields
<1>3. CASE \E k \in {NoAck, "openChat"} : w = PutThen(RoomDoc(a, b), Taken(a, b), a, k)
  BY <1>3, ThreeDocs, PutFields
<1> QED BY <1>1, <1>2, <1>3 DEF AcceptWrites

\* ... when it was accepted ...
LEMMA AcceptedSees ==
  ASSUME TypeOK, NEW a \in Pet, NEW b \in Pet, a # b, Apart(a, b), Accepted(a, b)
  PROVE  /\ SeesOnly(a, b, {"sending", "friending"}, {"receiving", "friending"})
         /\ Sees(b, RoomDoc(a, b)) \in {Offer(a), Taken(a, b)}
         /\ Read("accept", a) \notin reads[b] => Sees(b, RoomDoc(a, b)) = Taken(a, b)
<1>1. \A w \in Writes(queue[b]) :
        /\ w.doc \in {RoomDoc(a, b), FriendDoc(a, b), FriendDoc(b, a)}
        /\ w.doc = RoomDoc(a, b) => w.val = Taken(a, b)
        /\ w.doc # RoomDoc(a, b) => w.val = "friending"
  BY AcceptFields DEF Accepted, AcceptedDocs
<1>2. \A w \in Writes(queue[a]) \cup Writes(queue[b]) :
        w.doc \in {RoomDoc(a, b), FriendDoc(a, b), FriendDoc(b, a)}
  BY <1>1, WritesAre DEF Accepted
<1>3. Sees(a, FriendDoc(a, b)) \in {"sending", "friending"}
  BY SeesServer DEF Accepted, AcceptedDocs
<1>4. Sees(b, FriendDoc(b, a)) \in {"receiving", "friending"}
  <2>1. db[FriendDoc(b, a)] \in {"receiving", "friending"}
    BY DEF Accepted, AcceptedDocs
  <2> QED BY <1>1, <2>1, SeesWrites, ThreeDocs
<1>5. \A e \in Edge : e # <<a, b>> /\ e # <<b, a>> => Sees(e[1], FriendDoc(e[1], e[2])) = Absent
  BY <1>2, SeesApart
<1>6. Sees(b, RoomDoc(a, b)) \in {db[RoomDoc(a, b)], Taken(a, b)}
  BY <1>1, SeesWrites
<1>7. Owes(queue[b], RoomDoc(a, b)) => Sees(b, RoomDoc(a, b)) = Taken(a, b)
  BY <1>1, SeesWrites
<1>8. SeesOnly(a, b, {"sending", "friending"}, {"receiving", "friending"})
  BY <1>3, <1>4, <1>5 DEF SeesOnly
<1> QED BY <1>6, <1>7, <1>8 DEF Accepted, AcceptedDocs

\* ... and when it was rejected.
LEMMA RejectedSees ==
  ASSUME TypeOK, NEW a \in Pet, NEW b \in Pet, a # b, Apart(a, b), Rejected(a, b)
  PROVE  /\ SeesOnly(a, b, {"sending", Absent}, {"receiving", Absent})
         /\ \A d : Sees(b, d) = db[d] \/ (Owes(queue[b], d) /\ Sees(b, d) = Absent)
<1>1. \A w \in Writes(queue[b]) :
        /\ w.doc \in {RoomDoc(a, b), FriendDoc(a, b), FriendDoc(b, a)}
        /\ w.val = Absent
  BY PutFields DEF Rejected, RejectedDocs, RejectWrites
<1>2. \A w \in Writes(queue[a]) \cup Writes(queue[b]) :
        w.doc \in {RoomDoc(a, b), FriendDoc(a, b), FriendDoc(b, a)}
  BY <1>1, WritesAre DEF Rejected
<1>3. Sees(a, FriendDoc(a, b)) \in {"sending", Absent}
  BY SeesServer DEF Rejected, RejectedDocs
<1>4. \A d : Sees(b, d) = db[d] \/ (Owes(queue[b], d) /\ Sees(b, d) = Absent)
  BY <1>1, SeesWrites DEF Owes
<1>5. Sees(b, FriendDoc(b, a)) \in {"receiving", Absent}
  BY <1>4 DEF Rejected, RejectedDocs
<1>6. \A e \in Edge : e # <<a, b>> /\ e # <<b, a>> => Sees(e[1], FriendDoc(e[1], e[2])) = Absent
  BY <1>2, SeesApart
<1>7. SeesOnly(a, b, {"sending", Absent}, {"receiving", Absent})
  BY <1>3, <1>5, <1>6 DEF SeesOnly
<1> QED BY <1>4, <1>7

\* A step of the screens: it writes nothing, rows show what their app sees, and
\* a chat is read for a friend.
Friendly(p, q) ==
  row[<<p, q>>] \in {"friending", "answered"} \/ Sees(p, FriendDoc(p, q)) = "friending"
ChatReads(p) == {Read("chat", q) : q \in {x \in Pet \ {p} : Friendly(p, x)}}
ScreenReads(p) == Checks \cup {Read("chat", q) : q \in Pet}
ScreenStep ==
  /\ UNCHANGED <<db, queue, adds, answers>>
  /\ \A p \in Pet : reads'[p] \subseteq reads[p] \cup Checks \cup ChatReads(p)
  /\ \A p \in Pet : reads[p] \subseteq reads'[p] \cup ScreenReads(p)
  /\ \A e \in Edge : row'[e] \in {row[e], "none", Listed(Sees(e[1], FriendDoc(e[1], e[2])))}

\* The steps of the screens.
LEMMA ScreenSteps ==
  ASSUME TypeOK, NEW p \in Pet, NEW q \in Pet, p # q,
         \/ OpenDetail(p, q) \/ CloseDetail(p, q) \/ OpenChat(p, q)
         \/ AnswerCheck(p, q) \/ ChatOpens(p, q) \/ ListChange(p, q)
  PROVE  ScreenStep
<1>e. <<p, q>> \in Edge /\ <<p, q>>[1] = p /\ <<p, q>>[2] = q
  BY DocTypes
<1>t. reads \in [Pet -> SUBSET [kind : ReadKind, peer : Pet]]
      /\ row \in [Edge -> {"none", "receiving", "answered", "friending"}]
  BY DEF TypeOK
<1>c. Read("check", q) \in Checks /\ Read("chat", q) \in ScreenReads(p)
      /\ Checks \subseteq ScreenReads(p)
  BY DEF Checks, ScreenReads
<1>f. Friendly(p, q) => Read("chat", q) \in ChatReads(p)
  BY DEF ChatReads
<1>1. CASE OpenDetail(p, q)
  <2>1. UNCHANGED <<db, queue, adds, answers, row>>
    BY <1>1 DEF OpenDetail
  <2>2. \/ reads' = [reads EXCEPT ![p] = @ \cup {Read("check", q)}]
        \/ reads' = [reads EXCEPT ![p] = @ \cup {}]
    BY <1>1 DEF OpenDetail, Issue
  <2> QED BY <1>t, <1>c, <2>1, <2>2 DEF ScreenStep
<1>2. CASE CloseDetail(p, q)
  <2>1. UNCHANGED <<db, queue, adds, answers, row>>
    BY <1>2 DEF CloseDetail
  <2>2. reads' = [reads EXCEPT ![p] = @ \ {Read("check", q)}]
    BY <1>2 DEF CloseDetail
  <2> QED BY <1>t, <1>c, <2>1, <2>2 DEF ScreenStep
<1>3. CASE OpenChat(p, q)
  <2>1. UNCHANGED <<db, queue, adds, answers, row>> /\ row[<<p, q>>] \in {"friending", "answered"}
    BY <1>3 DEF OpenChat, screens
  <2>2. reads' = [reads EXCEPT ![p] = @ \cup {Read("chat", q)}]
    BY <1>3 DEF OpenChat, Issue
  <2>3. Read("chat", q) \in ChatReads(p)
    BY <1>f, <2>1 DEF Friendly
  <2> QED BY <1>t, <1>c, <2>1, <2>2, <2>3 DEF ScreenStep
<1>4. CASE AnswerCheck(p, q)
  <2>1. UNCHANGED <<db, queue, adds, answers, row>>
    BY <1>4 DEF AnswerCheck
  <2>2. reads' = [reads EXCEPT ![p] = @ \ {Read("check", q)}]
    BY <1>4 DEF AnswerCheck
  <2> QED BY <1>t, <1>c, <2>1, <2>2 DEF ScreenStep
<1>5. CASE ChatOpens(p, q)
  <2>1. UNCHANGED <<db, queue, adds, answers, row>>
    BY <1>5 DEF ChatOpens
  <2>2. reads' = [reads EXCEPT ![p] = @ \ {Read("chat", q)}]
    BY <1>5 DEF ChatOpens
  <2> QED BY <1>t, <1>c, <2>1, <2>2 DEF ScreenStep
<1>6. CASE ListChange(p, q)
  <2> DEFINE now == Listed(Sees(p, FriendDoc(p, q)))
  <2>1. UNCHANGED <<db, queue, adds, answers>> /\ row' = [row EXCEPT ![<<p, q>>] = now]
    BY <1>6 DEF ListChange
  <2>2. \/ /\ now = "friending"
           /\ reads' = [reads EXCEPT ![p] = @ \cup {Read("chat", q)}]
        \/ reads' = [reads EXCEPT ![p] = @ \cup {}]
    BY <1>6 DEF ListChange, Issue
  <2>3. now = "friending" => Read("chat", q) \in ChatReads(p)
    BY <1>f DEF Friendly, Listed
  <2> HIDE DEF now
  <2>4. \A x \in Pet : reads'[x] \subseteq reads[x] \cup Checks \cup ChatReads(x)
    BY <1>t, <2>2, <2>3
  <2>5. \A x \in Pet : reads[x] \subseteq reads'[x]
    BY <1>t, <2>2
  <2>6. \A e \in Edge : row'[e] = row[e] \/ (e = <<p, q>> /\ row'[e] = now)
    BY <1>t, <1>e, <2>1
  <2>7. \A e \in Edge : row'[e] \in {row[e], "none", Listed(Sees(e[1], FriendDoc(e[1], e[2])))}
    BY <1>e, <2>6 DEF now
  <2> QED BY <2>1, <2>4, <2>5, <2>7 DEF ScreenStep
<1> QED BY <1>1, <1>2, <1>3, <1>4, <1>5, <1>6

\* So is loading the list ...
LEMMA ScreenLoads ==
  ASSUME TypeOK, NEW p \in Pet, LoadList(p)
  PROVE  ScreenStep
<1> DEFINE R == {Read("chat", q) : q \in {x \in Pet \ {p} : Sees(p, FriendDoc(p, x)) = "friending"}}
<1>1. reads' = [reads EXCEPT ![p] = @ \cup R]
  BY DEF LoadList, Issue
<1>2. R \subseteq ChatReads(p)
  BY DEF ChatReads, Friendly
<1> HIDE DEF R
<1>3. reads \in [Pet -> SUBSET [kind : ReadKind, peer : Pet]]
  BY DEF TypeOK
<1>4. \A x \in Pet : reads'[x] \subseteq reads[x] \cup Checks \cup ChatReads(x)
  BY <1>1, <1>2, <1>3
<1>5. \A x \in Pet : reads[x] \subseteq reads'[x] \cup ScreenReads(x)
  BY <1>1, <1>3
<1>6. \A e \in Edge : row'[e] \in {row[e], "none", Listed(Sees(e[1], FriendDoc(e[1], e[2])))}
  BY DEF LoadList
<1>7. UNCHANGED <<db, queue, adds, answers>>
  BY DEF LoadList
<1> QED BY <1>4, <1>5, <1>6, <1>7 DEF ScreenStep

\* ... and the end of an app that owes nothing.
LEMMA ScreenEnds ==
  ASSUME TypeOK, NEW p \in Pet, NEW q \in Pet, ChatCrashes(p, q),
         queue[p] = << >>, reads[p] \subseteq ScreenReads(p)
  PROVE  ScreenStep
<1>1. StopApp(p) /\ UNCHANGED <<db, adds, answers>>
  BY DEF ChatCrashes
<1>2. WithoutAcks(<< >>) = << >>
  BY DEF WithoutAcks
<1>3. queue' = queue
  <2>1. queue' = [queue EXCEPT ![p] = << >>] /\ queue \in [Pet -> Seq(Write)]
    BY <1>1, <1>2 DEF StopApp, TypeOK
  <2> QED BY <2>1
<1>4. /\ reads' = [reads EXCEPT ![p] = {}]
      /\ \A e \in Edge : row'[e] \in {row[e], "none"}
  BY <1>1 DEF StopApp
<1>5. reads \in [Pet -> SUBSET [kind : ReadKind, peer : Pet]]
  BY DEF TypeOK
<1> QED BY <1>1, <1>3, <1>4, <1>5 DEF ScreenStep

\* Reads and rows stay within what the records allow.
LEMMA ScreensShow ==
  ASSUME ScreenStep, NEW a \in Pet, NEW b \in Pet, a # b,
         NEW M, NEW T, SeesOnly(a, b, M, T),
         NEW A, NEW B, ReadsAre(a, b, A, B),
         NEW C, NEW D, RowsAre(a, b, C, D),
         \A m \in M : Listed(m) \in {"none"} \cup C,
         \A m \in T : Listed(m) \in {"none"} \cup D,
         \/ Read("chat", b) \in A
         \/ "friending" \notin M /\ {"friending", "answered"} \cap C = {},
         \/ Read("chat", a) \in B
         \/ "friending" \notin T /\ {"friending", "answered"} \cap D = {}
  PROVE  ReadsAre(a, b, A, B)' /\ RowsAre(a, b, C, D)'
<1>0. Absent # "friending" /\ Absent # "receiving" /\ Listed(Absent) = "none"
  BY AbsentAssumption DEF Listed, Status
<1>e. /\ <<a, b>> \in Edge /\ <<b, a>> \in Edge /\ <<a, b>> # <<b, a>>
      /\ \A p \in Pet : \A q \in Pet \ {p} :
                                       /\ <<p, q>> \in Edge /\ <<p, q>>[1] = p /\ <<p, q>>[2] = q
                                       /\ (<<p, q>> = <<a, b>> => p = a /\ q = b)
                                       /\ (<<p, q>> = <<b, a>> => p = b /\ q = a)
  BY DEF Edge
<1>1. ASSUME NEW e \in Edge
      PROVE  row'[e] \in {"none"} \cup (IF e = <<a, b>> THEN C ELSE IF e = <<b, a>> THEN D ELSE {})
  <2> DEFINE x == Sees(e[1], FriendDoc(e[1], e[2]))
  <2>1. x \in IF e = <<a, b>> THEN M ELSE IF e = <<b, a>> THEN T ELSE {Absent}
    BY DEF SeesOnly
  <2>2. row'[e] \in {row[e], "none", Listed(x)}
    BY DEF ScreenStep
  <2> HIDE DEF x
  <2>3. row[e] \in {"none"} \cup (IF e = <<a, b>> THEN C ELSE IF e = <<b, a>> THEN D ELSE {})
    BY DEF RowsAre
  <2> QED BY <1>0, <2>1, <2>2, <2>3
<1>2. ASSUME NEW p \in Pet, NEW q \in Pet \ {p}, Friendly(p, q)
      PROVE  \/ p = a /\ q = b /\ Read("chat", b) \in A
             \/ p = b /\ q = a /\ Read("chat", a) \in B
  <2> DEFINE e == <<p, q>>
             x == Sees(p, FriendDoc(p, q))
  <2>1. e \in Edge /\ e[1] = p /\ e[2] = q
    BY <1>e
  <2>2. x \in IF e = <<a, b>> THEN M ELSE IF e = <<b, a>> THEN T ELSE {Absent}
    BY <2>1 DEF SeesOnly
  <2>3. row[e] \in {"none"} \cup (IF e = <<a, b>> THEN C ELSE IF e = <<b, a>> THEN D ELSE {})
    BY <2>1 DEF RowsAre
  <2>4. row[e] \in {"friending", "answered"} \/ x = "friending"
    BY <1>2 DEF Friendly
  <2>5. (e = <<a, b>> => p = a /\ q = b) /\ (e = <<b, a>> => p = b /\ q = a)
    BY <1>e
  <2> HIDE DEF e, x
  <2> QED BY <1>0, <2>2, <2>3, <2>4, <2>5
<1>3. ASSUME NEW p \in Pet
      PROVE  ChatReads(p) \subseteq IF p = a THEN A ELSE IF p = b THEN B ELSE {}
  <2>1. \A r \in ChatReads(p) : \E q \in Pet \ {p} : r = Read("chat", q) /\ Friendly(p, q)
    BY DEF ChatReads
  <2> QED BY <1>2, <2>1
<1>4. ReadsAre(a, b, A, B)'
  <2>1. \A p \in Pet : reads'[p] \subseteq Checks \cup (IF p = a THEN A ELSE IF p = b THEN B ELSE {})
    BY <1>3 DEF ReadsAre, ScreenStep
  <2> QED BY <2>1 DEF ReadsAre, Checks
<1>5. RowsAre(a, b, C, D)'
  BY <1>1 DEF RowsAre
<1> QED BY <1>4, <1>5


\* A step of the screens leaves the reads with an effect alone.
LEMMA ScreenLeaves ==
  ASSUME ScreenStep, NEW p \in Pet, NEW q, NEW k \in {"accept", "delete1", "delete2", "delete3"}
  PROVE  Read(k, q) \in reads'[p] <=> Read(k, q) \in reads[p]
<1>1. Read(k, q) \notin Checks \cup ChatReads(p) \cup ScreenReads(p)
  BY DEF Checks, ChatReads, ScreenReads, Read
<1> QED BY <1>1 DEF ScreenStep

\* The screens do not move a request on.
LEMMA ScreenUnasked ==
  ASSUME TypeOK, Unasked, ScreenStep
  PROVE  Unasked'
<1>0. Listed(Absent) = "none" /\ Absent # "friending"
  BY AbsentAssumption DEF Listed, Status
<1>1. \A e \in Edge : Sees(e[1], FriendDoc(e[1], e[2])) = Absent
  <2> TAKE e \in Edge
  <2>1. e[1] \in Pet /\ FriendDoc(e[1], e[2]) \in Doc
    BY DocTypes DEF Edge
  <2> QED BY <2>1, SeesServer DEF Unasked
<1>2. \A e \in Edge : row'[e] = "none"
  BY <1>0, <1>1 DEF Unasked, ScreenStep
<1>3. \A p \in Pet, q \in Pet : p # q => ~Friendly(p, q)
  <2> TAKE p \in Pet, q \in Pet
  <2> HAVE p # q
  <2>1. <<p, q>> \in Edge /\ <<p, q>>[1] = p /\ <<p, q>>[2] = q
    BY DEF Edge
  <2>2. row[<<p, q>>] = "none" /\ Sees(p, FriendDoc(p, q)) = Absent
    BY <1>1, <2>1 DEF Unasked
  <2> QED BY <1>0, <2>2 DEF Friendly
<1>4. \A p \in Pet : ChatReads(p) = {}
  BY <1>3 DEF ChatReads
<1>5. \A p \in Pet : reads'[p] \subseteq Checks
  BY <1>4 DEF Unasked, ScreenStep
<1>6. (\A p \in Pet : reads[p] \subseteq Checks)'
  BY <1>5 DEF Checks
<1> QED BY <1>2, <1>6 DEF Unasked, ScreenStep

\* Nor does an app show a request before it has arrived ...
LEMMA ScreenSending ==
  ASSUME TypeOK, NEW a \in Pet, NEW b \in Pet, a # b, Apart(a, b), Sending(a, b), ScreenStep
  PROVE  Sending(a, b)'
<1>1. SeesOnly(a, b, {Absent, "sending"}, {Absent})
  BY SendingSees
<1>2. /\ Absent # "friending" /\ Listed(Absent) = "none" /\ Listed("sending") = "none"
  BY AbsentAssumption DEF Listed, Status
<1>3. ReadsAre(a, b, {}, {}) /\ RowsAre(a, b, {}, {})
  BY DEF Sending
<1>4. ReadsAre(a, b, {}, {})' /\ RowsAre(a, b, {}, {})'
  BY <1>1, <1>2, <1>3, ScreensShow
<1>5. db' = db /\ queue' = queue /\ answers' = answers
  BY DEF ScreenStep
<1>6. SendingDocs(a, b)'
  BY <1>5 DEF Sending, SendingDocs, DocsAre
<1> QED BY <1>4, <1>5, <1>6 DEF Sending

\* ... or as more than a request before it is answered;
LEMMA ScreenWaiting ==
  ASSUME TypeOK, NEW a \in Pet, NEW b \in Pet, a # b, Apart(a, b), Waiting(a, b), ScreenStep
  PROVE  Waiting(a, b)'
<1>1. SeesOnly(a, b, {"sending"}, {"receiving"})
  BY WaitingSees
<1>2. Listed("receiving") = "receiving" /\ Listed("sending") = "none"
  BY DEF Listed
<1>3. ReadsAre(a, b, {}, {}) /\ RowsAre(a, b, {}, {"receiving"})
  BY DEF Waiting
<1>4. ReadsAre(a, b, {}, {})' /\ RowsAre(a, b, {}, {"receiving"})'
  BY <1>1, <1>2, <1>3, ScreensShow
<1>5. db' = db /\ queue' = queue /\ answers' = answers
  BY DEF ScreenStep
<1> QED BY <1>4, <1>5 DEF Waiting, DocsAre

\* an acceptance shows up as it reaches the server,
LEMMA ScreenAccepted ==
  ASSUME TypeOK, NEW a \in Pet, NEW b \in Pet, a # b, Apart(a, b), Accepted(a, b), ScreenStep
  PROVE  Accepted(a, b)'
<1> DEFINE A == {Read("chat", b)}
           B == {Read("chat", a), Read("accept", a)}
           C == {"friending"}
           D == {"receiving", "answered", "friending"}
<1>1. SeesOnly(a, b, {"sending", "friending"}, {"receiving", "friending"})
  BY AcceptedSees
<1>2. /\ Listed("receiving") = "receiving" /\ Listed("sending") = "none"
      /\ Listed("friending") = "friending"
  BY DEF Listed
<1>3. ReadsAre(a, b, A, B) /\ RowsAre(a, b, C, D)
  BY DEF Accepted
<1>4. ReadsAre(a, b, A, B)' /\ RowsAre(a, b, C, D)'
  <2>1. Read("chat", b) \in A /\ Read("chat", a) \in B
    OBVIOUS
  <2>2. \A m \in {"sending", "friending"} : Listed(m) \in {"none"} \cup C
    BY <1>2
  <2>3. \A m \in {"receiving", "friending"} : Listed(m) \in {"none"} \cup D
    BY <1>2
  <2> HIDE DEF A, B, C, D
  <2> QED BY <1>1, <1>3, <2>1, <2>2, <2>3, ScreensShow
<1>5. db' = db /\ queue' = queue /\ answers' = answers
  BY DEF ScreenStep
<1>6. AcceptedDocs(a, b)'
  BY <1>5, ScreenLeaves DEF Accepted, AcceptedDocs
<1> QED BY <1>4, <1>5, <1>6 DEF Accepted

\* and a rejection takes the row away.
LEMMA ScreenRejected ==
  ASSUME TypeOK, NEW a \in Pet, NEW b \in Pet, a # b, Apart(a, b), Rejected(a, b), ScreenStep
  PROVE  Rejected(a, b)'
<1>1. SeesOnly(a, b, {"sending", Absent}, {"receiving", Absent})
  BY RejectedSees
<1>2. /\ Absent # "friending" /\ Listed(Absent) = "none" /\ Listed("sending") = "none"
      /\ Listed("receiving") = "receiving"
  BY AbsentAssumption DEF Listed, Status
<1>3. ReadsAre(a, b, {}, Deletions(a)) /\ RowsAre(a, b, {}, {"receiving"})
  BY DEF Rejected
<1>4. ReadsAre(a, b, {}, Deletions(a))' /\ RowsAre(a, b, {}, {"receiving"})'
  <2>1. Deletions(a)' = Deletions(a)
    BY DEF Deletions
  <2> HIDE DEF Deletions
  <2> QED BY <1>1, <1>2, <1>3, ScreensShow
<1>5. db' = db /\ queue' = queue /\ answers' = answers
  BY DEF ScreenStep
<1>6. RejectedDocs(a, b)'
  BY <1>5, ScreenLeaves DEF Rejected, RejectedDocs
<1> QED BY <1>4, <1>5, <1>6 DEF Rejected

\* So the steps of the screens keep the invariant.
LEMMA ScreensKeep ==
  ASSUME TypeOK, OneInv, ScreenStep
  PROVE  OneInv'
<1>1. CASE Unasked
  BY <1>1, ScreenUnasked DEF OneInv
<1>2. ASSUME NEW e \in Edge, Asked(e[1], e[2])
      PROVE  Asked(e[1], e[2])'
  <2>1. e[1] \in Pet /\ e[2] \in Pet /\ e[1] # e[2]
    BY DEF Edge
  <2>2. Apart(e[1], e[2])' /\ adds' = 1
    BY <1>2 DEF Asked, Apart, ScreenStep
  <2> QED BY <1>2, <2>1, <2>2, ScreenSending, ScreenWaiting, ScreenAccepted, ScreenRejected
          DEF Asked
<1> QED BY <1>1, <1>2 DEF OneInv

----------------------------------------------------------------------------
(* The steps of a request *)

\* It is sent once.
LEMMA OneAdds ==
  ASSUME OneRequest, TypeOK, OneInv, NEW p \in Pet, NEW q \in Pet, p # q,
         AddIos(p, q) \/ AddAndroid(p, q)
  PROVE  Asked(p, q)'
<1> DEFINE room == Put(RoomDoc(p, q), Offer(p), q)
           ask == Ask1(p, q)
           tell == Tell1(p, q)
           ws == IF p \in Ios THEN << room, ask, tell >> ELSE << room, ask >>
<1>1. adds < 1 /\ adds \in 0 .. 1 /\ adds' = adds + 1
  BY DEF AddIos, AddAndroid, OneRequest, TypeOK
<1>2. Unasked /\ adds' = 1
  BY <1>1 DEF OneInv, Asked
<1>3. Enqueue(p, ws)
  <2>1. adds + 1 = 1
    BY <1>2 DEF Unasked
  <2>2. CASE AddIos(p, q)
    BY <2>1, <2>2 DEF AddIos, RequestIos, Offer, Ask1, Tell1
  <2>3. CASE AddAndroid(p, q)
    BY <2>1, <2>3 DEF AddAndroid, Offer, Ask1
  <2> QED BY <2>2, <2>3
<1>4. UNCHANGED <<db, reads, row, answers>>
  BY DEF AddIos, AddAndroid
<1>5. queue' = [queue EXCEPT ![p] = ws]
  <2>1. << >> \o << room, ask, tell >> = << room, ask, tell >> /\ << >> \o << room, ask >> = << room, ask >>
    OBVIOUS
  <2>2. queue[p] = << >>
    BY <1>2 DEF Unasked
  <2> HIDE DEF room, ask, tell
  <2> QED BY <1>3, <2>1, <2>2 DEF Enqueue
<1> HIDE DEF ws
<1>6. queue'[p] = ws /\ \A x \in Pet \ {p} : queue'[x] = << >>
  BY <1>2, <1>5 DEF TypeOK, Unasked
<1>7. Apart(p, q)'
  BY <1>2, <1>4, <1>6 DEF Apart, Unasked
<1>8. DocsAre(p, q, Absent, Absent, Absent)'
  BY <1>2, <1>4, ThreeDocs DEF DocsAre, Unasked
<1>9. SendingDocs(p, q)'
  BY <1>6, <1>8 DEF SendingDocs, ws
<1>10. (\A x \in Pet : reads[x] \subseteq Checks)' /\ (\A e \in Edge : row[e] = "none")'
  BY <1>2, <1>4 DEF Unasked
<1>11. Sending(p, q)'
  BY <1>2, <1>4, <1>6, <1>9, <1>10 DEF Sending, ReadsAre, RowsAre, Unasked
<1> QED BY <1>2, <1>7, <1>11 DEF Asked

\* It is answered once, where it has arrived, by the one it was sent to.
LEMMA OneAnswerer ==
  ASSUME OneRequest, TypeOK, OneInv, NEW p \in Pet, NEW q \in Pet, p # q, CanAnswer(p, q)
  PROVE  Asked(q, p) /\ Waiting(q, p) /\ answers' = [answers EXCEPT ![p] = 1]
<1>1. row[<<p, q>>] = "receiving" /\ answers[p] < 1 /\ <<p, q>> \in Edge
  BY DocTypes DEF CanAnswer, OneRequest
<1>2. PICK e \in Edge : Asked(e[1], e[2])
  BY <1>1 DEF OneInv, Unasked
<1> DEFINE a == e[1]
           b == e[2]
<1>3. a \in Pet /\ b \in Pet /\ a # b
  BY DEF Edge
<1> HIDE DEF a, b
<1>4. Asked(a, b)
  BY <1>2 DEF a, b
<1>5. <<p, q>> = <<a, b>> => p = a /\ q = b
  OBVIOUS
<1>6. <<p, q>> = <<b, a>> => p = b /\ q = a
  OBVIOUS
<1>7. p = b /\ q = a
  BY <1>1, <1>4, <1>5, <1>6 DEF Asked, Sending, Waiting, Accepted, Rejected, RowsAre
<1>8. Waiting(a, b)
  BY <1>1, <1>4, <1>7 DEF Asked, Sending, Waiting, Accepted, Rejected, RowsAre
<1>9. answers[p] + 1 = 1 /\ answers' = [answers EXCEPT ![p] = answers[p] + 1]
  BY <1>7, <1>8 DEF Waiting, CanAnswer
<1> QED BY <1>4, <1>7, <1>8, <1>9

\* Pressing Accept.
LEMMA OneAccepts ==
  ASSUME OneRequest, TypeOK, OneInv, NEW a \in Pet, NEW b \in Pet, a # b,
         AcceptIos(b, a) \/ AcceptAndroid(b, a)
  PROVE  Asked(a, b)'
<1> DEFINE own == Put(FriendDoc(b, a), "friending", a)
           other == Put(FriendDoc(a, b), "friending", a)
           both == PutThen(FriendDoc(a, b), "friending", a, "receiver")
           ws == IF b \in Ios THEN << own, other >> ELSE << both >>
<1>1. CanAnswer(b, a)
  BY DEF AcceptIos, AcceptAndroid
<1>2. Asked(a, b) /\ Waiting(a, b) /\ answers' = [answers EXCEPT ![b] = 1]
  BY <1>1, OneAnswerer
<1>3. /\ Issue(b, {Read("accept", a)}) /\ UNCHANGED <<db, adds>>
      /\ row' = row \/ row' = [row EXCEPT ![<<b, a>>] = "answered"]
  BY DEF AcceptIos, AcceptAndroid, screens
<1>4. Enqueue(b, ws)
  BY DEF AcceptIos, AcceptAndroid
<1>5. queue' = [queue EXCEPT ![b] = ws]
  <2>1. << >> \o << own, other >> = << own, other >> /\ << >> \o << both >> = << both >>
    OBVIOUS
  <2>2. queue[b] = << >>
    BY <1>2 DEF Waiting
  <2> HIDE DEF own, other, both
  <2> QED BY <1>4, <2>1, <2>2 DEF Enqueue
<1>6. Writes(ws) = IF b \in Ios THEN {own, other} ELSE {both}
  BY WritesAre
<1>7. /\ own \in AcceptWrites(a, b) /\ other \in AcceptWrites(a, b) /\ both \in AcceptWrites(a, b)
  <2>1. other = PutThen(FriendDoc(a, b), "friending", a, NoAck)
    BY DEF Put, PutThen
  <2> QED BY <2>1 DEF AcceptWrites
<1>8. /\ own.doc = FriendDoc(b, a) /\ other.doc = FriendDoc(a, b)
      /\ both.doc = FriendDoc(a, b) /\ both.ack = "receiver"
  BY PutFields
<1> HIDE DEF own, other, both, ws
<1>9. queue'[b] = ws /\ \A x \in Pet \ {b} : queue'[x] = queue[x]
  BY <1>5 DEF TypeOK
<1>10. /\ Writes(ws) \subseteq AcceptWrites(a, b)
       /\ Owes(ws, FriendDoc(a, b))
       /\ Owes(ws, FriendDoc(b, a)) \/ \E w \in Writes(ws) : w.ack = "receiver"
  BY <1>6, <1>7, <1>8 DEF Owes
<1>11. reads' = [reads EXCEPT ![b] = reads[b] \cup {Read("accept", a)}]
  BY <1>3 DEF Issue
<1>12. Read("accept", a) \in reads'[b] /\ \A x \in Pet : reads'[x] \subseteq reads[x] \cup
          IF x = b THEN {Read("accept", a)} ELSE {}
  BY <1>11 DEF TypeOK
<1>13. AcceptedDocs(a, b)'
  BY <1>2, <1>3, <1>9, <1>10, <1>12 DEF AcceptedDocs, Waiting, DocsAre
<1>14. \A x \in Pet : reads'[x] \subseteq Checks \cup (IF x = b THEN {Read("accept", a)} ELSE {})
  BY <1>2, <1>12 DEF Waiting, ReadsAre
<1>15. ReadsAre(a, b, {Read("chat", b)}, {Read("chat", a), Read("accept", a)})'
  BY <1>14 DEF ReadsAre, Checks
<1>16. \A e \in Edge : row'[e] = row[e] \/ (e = <<b, a>> /\ row'[e] = "answered")
  BY <1>3 DEF TypeOK
<1>17. <<a, b>> # <<b, a>>
  OBVIOUS
<1>18. RowsAre(a, b, {"friending"}, {"receiving", "answered", "friending"})'
  BY <1>2, <1>16, <1>17 DEF RowsAre, Waiting
<1>19. answers'[b] = 1 /\ queue'[a] = << >>
  BY <1>2, <1>9 DEF TypeOK, Waiting
<1>20. Apart(a, b)' /\ adds' = 1
  BY <1>2, <1>3, <1>9 DEF Apart, Asked
<1> QED BY <1>13, <1>15, <1>18, <1>19, <1>20 DEF Asked, Accepted

\* Pressing Reject.
LEMMA OneRejects ==
  ASSUME OneRequest, TypeOK, OneInv, NEW a \in Pet, NEW b \in Pet, a # b,
         RejectIos(b, a) \/ RejectAndroid(b, a)
  PROVE  Asked(a, b)'
<1> DEFINE room == Put(RoomDoc(b, a), Absent, a)
           own == Put(FriendDoc(b, a), Absent, a)
           other == Put(FriendDoc(a, b), Absent, a)
<1>1. CanAnswer(b, a)
  BY DEF RejectIos, RejectAndroid
<1>2. Asked(a, b) /\ Waiting(a, b) /\ answers' = [answers EXCEPT ![b] = 1]
  BY <1>1, OneAnswerer
<1>3. UNCHANGED <<db, adds, row>>
  BY DEF RejectIos, RejectAndroid, screens
<1>4. answers'[b] = 1
  BY <1>2 DEF TypeOK
<1>5. RowsAre(a, b, {}, {"receiving"})'
  BY <1>2, <1>3 DEF RowsAre, Waiting
<1>6. \A x \in Pet : reads[x] \subseteq Checks
  BY <1>2 DEF Waiting, ReadsAre
<1>7. CASE RejectIos(b, a)
  <2>1. queue' = [queue EXCEPT ![b] = << room, own, other >>]
    <3>1. << >> \o << room, own, other >> = << room, own, other >>
      OBVIOUS
    <3>2. queue[b] = << >>
      BY <1>2 DEF Waiting
    <3>3. Enqueue(b, << room, own, other >>)
      BY <1>7 DEF RejectIos
    <3> HIDE DEF room, own, other
    <3> QED BY <3>1, <3>2, <3>3 DEF Enqueue
  <2>2. /\ room \in RejectWrites(a, b) /\ own \in RejectWrites(a, b) /\ other \in RejectWrites(a, b)
    BY FriendDocOf DEF RejectWrites
  <2>3. own.doc = FriendDoc(b, a) /\ other.doc = FriendDoc(a, b)
    BY PutFields
  <2> HIDE DEF room, own, other
  <2>4. queue'[b] = << room, own, other >> /\ \A x \in Pet \ {b} : queue'[x] = queue[x]
    BY <2>1 DEF TypeOK
  <2>5. Writes(queue'[b]) = {room, own, other}
    BY <2>4, WritesAre
  <2>6. reads' = reads
    BY <1>7 DEF RejectIos
  <2>7. Writes(queue'[b]) \subseteq RejectWrites(a, b)
        /\ Owes(queue'[b], FriendDoc(a, b)) /\ Owes(queue'[b], FriendDoc(b, a))
    BY <2>2, <2>3, <2>5 DEF Owes
  <2>8. Read("delete1", a) \notin reads[b]
    BY <1>6 DEF Checks, Read
  <2>9. RejectedDocs(a, b)'
    BY <1>2, <1>3, <2>6, <2>7, <2>8 DEF RejectedDocs, Waiting, DocsAre
  <2>10. ReadsAre(a, b, {}, Deletions(a))'
    BY <1>6, <2>6 DEF ReadsAre, Checks
  <2>11. Apart(a, b)' /\ adds' = 1 /\ queue'[a] = << >>
    BY <1>2, <1>3, <2>4 DEF Apart, Asked, Waiting
  <2> QED BY <1>4, <1>5, <2>9, <2>10, <2>11 DEF Asked, Rejected
<1>8. CASE RejectAndroid(b, a)
  <2>1. queue' = queue /\ reads' = [reads EXCEPT ![b] = reads[b] \cup {Read("delete1", a)}]
    BY <1>8 DEF RejectAndroid, Issue
  <2>2. Read("delete1", a) \in reads'[b]
        /\ \A x \in Pet : reads'[x] \subseteq reads[x] \cup
             IF x = b THEN {Read("delete1", a)} ELSE {}
    BY <2>1 DEF TypeOK
  <2>3. Writes(queue'[b]) = {} /\ queue'[b] = << >> /\ queue'[a] = << >>
    BY <1>2, <2>1, WritesAre DEF Waiting
  <2>9. Read("delete2", a) \notin reads'[b] /\ Read("delete3", a) \notin reads'[b]
    <3>1. /\ Read("delete2", a) \notin Checks \cup {Read("delete1", a)}
          /\ Read("delete3", a) \notin Checks \cup {Read("delete1", a)}
      BY DEF Checks, Read
    <3> QED BY <1>6, <2>2, <3>1
  <2>4. RejectedDocs(a, b)'
    BY <1>2, <1>3, <2>2, <2>3, <2>9 DEF RejectedDocs, Waiting, DocsAre
  <2>5. \A x \in Pet : reads'[x] \subseteq Checks \cup (IF x = b THEN {Read("delete1", a)} ELSE {})
    BY <1>6, <2>2
  <2>6. Read("delete1", a) \in Deletions(a)
    BY DEF Deletions
  <2>7. ReadsAre(a, b, {}, Deletions(a))'
    BY <2>5, <2>6 DEF ReadsAre, Checks, Deletions
  <2>8. Apart(a, b)' /\ adds' = 1
    BY <1>2, <1>3, <2>1 DEF Apart, Asked
  <2> QED BY <1>4, <1>5, <2>3, <2>4, <2>7, <2>8 DEF Asked, Rejected
<1> QED BY <1>7, <1>8

\* Appending one write.
LEMMA OneMore ==
  ASSUME TypeOK, NEW b \in Pet, NEW w \in Write, Enqueue(b, << w >>)
  PROVE  /\ Writes(queue'[b]) = Writes(queue[b]) \cup {w}
         /\ \A x \in Pet \ {b} : queue'[x] = queue[x]
<1>1. queue' = [queue EXCEPT ![b] = queue[b] \o << w >>] /\ queue \in [Pet -> Seq(Write)]
  BY DEF Enqueue, TypeOK
<1>2. Writes(queue[b] \o << w >>) = Writes(queue[b]) \cup {w}
  <2>1. queue[b] \in Seq(Write) /\ << w >> \in Seq(Write) /\ Writes(<< w >>) = {w}
    BY <1>1, WritesAre
  <2> DEFINE t == << w >>
  <2>2. t \in Seq(Write) /\ Writes(t) = {w}
    BY <2>1
  <2> HIDE DEF t
  <2>3. Writes(queue[b] \o t) = Writes(queue[b]) \cup Writes(t)
    BY ONLY <2>1, <2>2, WritesAppend
  <2> QED BY <2>2, <2>3 DEF t
<1> QED BY <1>1, <1>2

\* The room of the acceptance: the acceptor's number is added once.
LEMMA TakenOnce ==
  ASSUME NEW a \in Pet, NEW b \in Pet
  PROVE  /\ \A r \in {Offer(a), Taken(a, b)} : AcceptedRoom(r, b) = Taken(a, b)
         /\ Offer(a) \in Room /\ Taken(a, b) \in Room
<1>1. Offer(a) \in Room /\ Taken(a, b) \in Room
  BY RoomTypes DEF Offer, Taken
<1>2. Taken(a, b).params = Offer(a).params
  BY <1>1 DEF Taken, AcceptedRoom, Room
<1>3. Taken(a, b).pub = [Offer(a).pub EXCEPT ![b] = Public(Offer(a).params, b)]
  BY <1>1 DEF Taken, AcceptedRoom, Room
<1>4. [Taken(a, b).pub EXCEPT ![b] = Public(Offer(a).params, b)] = Taken(a, b).pub
  BY <1>1, <1>3 DEF Room
<1>5. AcceptedRoom(Taken(a, b), b) = Taken(a, b)
  BY <1>1, <1>2, <1>4 DEF AcceptedRoom, Room
<1> QED BY <1>1, <1>5 DEF Taken

\* It has both numbers.
LEMMA TakenKnown ==
  ASSUME NEW a \in Pet, NEW b \in Pet, a # b
  PROVE  Taken(a, b).pub[a] # Unknown /\ Taken(a, b).pub[b] # Unknown
<1>1. Offer(a) \in Room /\ Offer(a).params = 1 /\ Offer(a).pub[a] = Public(1, a)
  BY TakenOnce DEF Offer, OfferedRoom
<1>2. Public(1, a) \in PublicNumber /\ Public(1, b) \in PublicNumber
  BY DEF Public, PublicNumber
<1>3. Taken(a, b).pub = [Offer(a).pub EXCEPT ![b] = Public(1, b)]
  BY <1>1 DEF Taken, AcceptedRoom, Room
<1>4. Taken(a, b).pub[a] = Public(1, a) /\ Taken(a, b).pub[b] = Public(1, b)
  BY <1>1, <1>3 DEF Room
<1> QED BY <1>2, <1>4, UnknownAssumption

\* Whose Accept it is.
LEMMA OneAcceptor ==
  ASSUME OneInv, NEW p \in Pet, NEW q \in Pet, p # q, Read("accept", q) \in reads[p]
  PROVE  Asked(q, p) /\ Accepted(q, p)
<1>1. \A x, y : /\ Read("accept", q) \notin Checks /\ Read("accept", q) # Read("chat", x)
                /\ Read("accept", q) \notin Deletions(x)
                /\ Read("accept", q) = Read("accept", y) => y = q
  BY DEF Checks, Deletions, Read
<1>2. PICK e \in Edge : Asked(e[1], e[2])
  BY <1>1 DEF OneInv, Unasked
<1> DEFINE a == e[1]
           b == e[2]
<1> HIDE DEF a, b
<1>3. Asked(a, b)
  BY <1>2 DEF a, b
<1>4. ~Sending(a, b) /\ ~Waiting(a, b) /\ ~Rejected(a, b)
  BY <1>1 DEF Sending, Waiting, Rejected, ReadsAre
<1>5. Accepted(a, b) /\ p = b /\ q = a
  BY <1>1, <1>3, <1>4 DEF Asked, Accepted, ReadsAre
<1> QED BY <1>3, <1>5

\* The room is read for the acceptance.
LEMMA OneTakes ==
  ASSUME TypeOK, OneInv, NEW a \in Pet, NEW b \in Pet, a # b, AnswerAccept(b, a)
  PROVE  Asked(a, b)'
<1> DEFINE ack == IF b \in Ios THEN "openChat" ELSE NoAck
           w == PutThen(RoomDoc(a, b), Taken(a, b), a, ack)
<1>1. Asked(a, b) /\ Accepted(a, b)
  BY OneAcceptor DEF AnswerAccept
<1>2. Sees(b, RoomDoc(a, b)) \in {Offer(a), Taken(a, b)}
  BY <1>1, AcceptedSees DEF Asked
<1>3. /\ Sees(b, RoomDoc(a, b)) # Absent
      /\ AcceptedRoom(Sees(b, RoomDoc(a, b)), b) = Taken(a, b)
  BY <1>2, TakenOnce, AbsentAssumption
<1>4. Enqueue(b, << w >>)
  BY <1>3, FriendDocOf DEF AnswerAccept
<1>5. /\ UNCHANGED <<db, row, adds, answers>>
      /\ reads' = [reads EXCEPT ![b] = reads[b] \ {Read("accept", a)}]
  BY DEF AnswerAccept, screens
<1>6. w \in AcceptWrites(a, b) /\ w.doc = RoomDoc(a, b)
  BY PutFields DEF AcceptWrites
<1>7. w \in Write
  BY PutTypes, TakenOnce
<1> HIDE DEF w
<1>8. Writes(queue'[b]) = Writes(queue[b]) \cup {w} /\ \A x \in Pet \ {b} : queue'[x] = queue[x]
  BY <1>4, <1>7, OneMore
<1>9. /\ Writes(queue'[b]) \subseteq AcceptWrites(a, b)
      /\ Owes(queue'[b], RoomDoc(a, b))
      /\ \A d : Owes(queue[b], d) => Owes(queue'[b], d)
      /\ (\E x \in Writes(queue[b]) : x.ack = "receiver") =>
            \E x \in Writes(queue'[b]) : x.ack = "receiver"
  BY <1>1, <1>6, <1>8 DEF Accepted, AcceptedDocs, Owes
<1>10. AcceptedDocs(a, b)'
  BY <1>1, <1>5, <1>9 DEF Accepted, AcceptedDocs
<1>11. \A x \in Pet : reads'[x] \subseteq reads[x]
  BY <1>5 DEF TypeOK
<1>12. ReadsAre(a, b, {Read("chat", b)}, {Read("chat", a), Read("accept", a)})'
  BY <1>1, <1>11 DEF Accepted, ReadsAre, Checks
<1>13. RowsAre(a, b, {"friending"}, {"receiving", "answered", "friending"})'
  BY <1>1, <1>5 DEF Accepted, RowsAre
<1>14. Apart(a, b)' /\ adds' = 1 /\ queue'[a] = << >> /\ answers'[b] = 1
  BY <1>1, <1>5, <1>8 DEF Apart, Asked, Accepted
<1> QED BY <1>10, <1>12, <1>13, <1>14 DEF Asked, Accepted

\* A link of the deletion that leaves what is owed, or adds to it.
LEMMA OneDeletes ==
  ASSUME TypeOK, NEW a \in Pet, NEW b \in Pet, a # b, Asked(a, b), Rejected(a, b),
         UNCHANGED <<db, row, adds, answers>>,
         NEW R, R \subseteq Checks \cup Deletions(a), Read("delete1", a) \notin R,
         reads' = [reads EXCEPT ![b] = R],
         \A x \in Pet \ {b} : queue'[x] = queue[x],
         Writes(queue'[b]) \subseteq RejectWrites(a, b),
         db[FriendDoc(a, b)] = Absent \/ Owes(queue'[b], FriendDoc(a, b)),
         \/ db[FriendDoc(b, a)] = Absent \/ Owes(queue'[b], FriendDoc(b, a))
         \/ Read("delete2", a) \in R
  PROVE  Asked(a, b)'
<1>1. reads'[b] = R /\ \A x \in Pet \ {b} : reads'[x] = reads[x]
  BY DEF TypeOK
<1>2. RejectedDocs(a, b)'
  BY <1>1 DEF Rejected, RejectedDocs
<1>3. \A x \in Pet : reads'[x] \subseteq Checks \cup
        (IF x = a THEN {} ELSE IF x = b THEN Deletions(a) ELSE {})
  BY <1>1 DEF Rejected, ReadsAre
<1>4. ReadsAre(a, b, {}, Deletions(a))'
  BY <1>3 DEF ReadsAre, Checks, Deletions
<1>5. RowsAre(a, b, {}, {"receiving"})'
  BY DEF Rejected, RowsAre
<1>6. Apart(a, b)' /\ adds' = 1 /\ queue'[a] = << >> /\ answers'[b] = 1
  BY DEF Apart, Asked, Rejected
<1> QED BY <1>2, <1>4, <1>5, <1>6 DEF Asked, Rejected

\* Whose Reject it is.
LEMMA OneRejecter ==
  ASSUME OneInv, NEW p \in Pet, NEW q \in Pet, p # q,
         NEW k \in {"delete1", "delete2", "delete3"}, Read(k, q) \in reads[p]
  PROVE  Asked(q, p) /\ Rejected(q, p)
<1>1. \A x : /\ Read(k, q) \notin Checks /\ Read(k, q) # Read("chat", x)
             /\ Read(k, q) # Read("accept", x)
             /\ Read(k, q) \in Deletions(x) => x = q
  BY DEF Checks, Deletions, Read
<1>2. PICK e \in Edge : Asked(e[1], e[2])
  BY <1>1 DEF OneInv, Unasked
<1> DEFINE a == e[1]
           b == e[2]
<1> HIDE DEF a, b
<1>3. Asked(a, b)
  BY <1>2 DEF a, b
<1>4. ~Sending(a, b) /\ ~Waiting(a, b) /\ ~Accepted(a, b)
  BY <1>1 DEF Sending, Waiting, Accepted, ReadsAre
<1>5. Rejected(a, b) /\ p = b /\ q = a
  BY <1>1, <1>3, <1>4 DEF Asked, Rejected, ReadsAre
<1> QED BY <1>3, <1>5

\* A link of the deletion.
LEMMA OneLinks ==
  ASSUME TypeOK, OneInv, NEW a \in Pet, NEW b \in Pet, a # b, AnswerDelete(b, a)
  PROVE  Asked(a, b)'
<1>0. PICK k \in {"delete1", "delete2", "delete3"} : Read(k, a) \in reads[b]
  BY DEF AnswerDelete, DeleteLink
<1>1. Asked(a, b) /\ Rejected(a, b)
  BY <1>0, OneRejecter
<1>2. reads[b] \subseteq Checks \cup Deletions(a) /\ RejectedDocs(a, b)
  BY <1>1 DEF Rejected, ReadsAre
<1>3. \A d : Sees(b, d) = db[d] \/ (Owes(queue[b], d) /\ Sees(b, d) = Absent)
  BY <1>1, RejectedSees DEF Asked
<1>4. /\ Read("delete1", a) # Read("delete2", a) /\ Read("delete1", a) # Read("delete3", a)
      /\ Read("delete2", a) # Read("delete3", a)
      /\ {Read("delete2", a), Read("delete3", a)} \subseteq Deletions(a)
  BY DEF Read, Deletions
<1>5. ASSUME NEW d \in {RoomDoc(a, b), FriendDoc(a, b), FriendDoc(b, a)},
             Enqueue(b, << Put(d, Absent, a) >>)
      PROVE  /\ \A x \in Pet \ {b} : queue'[x] = queue[x]
             /\ Writes(queue'[b]) \subseteq RejectWrites(a, b)
             /\ Owes(queue'[b], d)
             /\ \A c : Owes(queue[b], c) => Owes(queue'[b], c)
  <2>1. Put(d, Absent, a) \in Write /\ Put(d, Absent, a) \in RejectWrites(a, b)
        /\ Put(d, Absent, a).doc = d
    BY PutTypes, PutFields DEF RejectWrites
  <2>2. /\ Writes(queue'[b]) = Writes(queue[b]) \cup {Put(d, Absent, a)}
        /\ \A x \in Pet \ {b} : queue'[x] = queue[x]
    BY <1>5, <2>1, OneMore
  <2> QED BY <1>2, <2>1, <2>2 DEF Owes, RejectedDocs
<1>6. CASE DeleteLink(b, a, "delete1", FriendDoc(a, b), {Read("delete2", a)})
  <2>1. /\ queue[b] = << >> /\ db[FriendDoc(a, b)] = "sending" /\ Read("delete1", a) \in reads[b]
    BY <1>2, <1>6 DEF RejectedDocs, DeleteLink
  <2>2. Sees(b, FriendDoc(a, b)) # Absent
    BY <1>3, <2>1, WritesAre, AbsentAssumption DEF Owes, Status
  <2> DEFINE R == (reads[b] \ {Read("delete1", a)}) \cup {Read("delete2", a)}
  <2>3. /\ UNCHANGED <<db, row, adds, answers>> /\ reads' = [reads EXCEPT ![b] = R]
        /\ Enqueue(b, << Put(FriendDoc(a, b), Absent, a) >>)
    BY <1>6, <2>2 DEF DeleteLink, screens
  <2>4. R \subseteq Checks \cup Deletions(a) /\ Read("delete1", a) \notin R /\ Read("delete2", a) \in R
    BY <1>2, <1>4
  <2> HIDE DEF R
  <2> QED BY <1>1, <1>5, <2>3, <2>4, OneDeletes
<1>7. CASE DeleteLink(b, a, "delete2", FriendDoc(b, a), {Read("delete3", a)})
  <2>1. Read("delete2", a) \in reads[b] /\ Read("delete1", a) \notin reads[b]
    BY <1>2, <1>7 DEF RejectedDocs, DeleteLink
  <2>2. UNCHANGED <<db, row, adds, answers>>
    BY <1>7 DEF DeleteLink, screens
  <2>3. CASE Sees(b, FriendDoc(b, a)) = Absent
    <3> DEFINE R == reads[b] \ {Read("delete2", a)}
    <3>1. reads' = [reads EXCEPT ![b] = R] /\ queue' = queue
      BY <1>7, <2>3 DEF DeleteLink
    <3>2. R \subseteq Checks \cup Deletions(a) /\ Read("delete1", a) \notin R
      BY <1>2, <2>1
    <3>3. /\ db[FriendDoc(a, b)] = Absent \/ Owes(queue[b], FriendDoc(a, b))
          /\ db[FriendDoc(b, a)] = Absent \/ Owes(queue[b], FriendDoc(b, a))
      BY <1>2, <1>3, <2>1, <2>3 DEF RejectedDocs
    <3> HIDE DEF R
    <3>4. Writes(queue[b]) \subseteq RejectWrites(a, b)
      BY <1>2 DEF RejectedDocs
    <3> QED BY <1>1, <2>2, <3>1, <3>2, <3>3, <3>4, OneDeletes
  <2>4. CASE Sees(b, FriendDoc(b, a)) # Absent
    <3> DEFINE R == (reads[b] \ {Read("delete2", a)}) \cup {Read("delete3", a)}
    <3>1. /\ reads' = [reads EXCEPT ![b] = R]
          /\ Enqueue(b, << Put(FriendDoc(b, a), Absent, a) >>)
      BY <1>7, <2>4 DEF DeleteLink
    <3>2. R \subseteq Checks \cup Deletions(a) /\ Read("delete1", a) \notin R
      BY <1>2, <1>4, <2>1
    <3>3. db[FriendDoc(a, b)] = Absent \/ Owes(queue[b], FriendDoc(a, b))
      BY <1>2, <2>1 DEF RejectedDocs
    <3> HIDE DEF R
    <3> QED BY <1>1, <1>5, <2>2, <3>1, <3>2, <3>3, OneDeletes
  <2> QED BY <2>3, <2>4
<1>8. CASE DeleteLink(b, a, "delete3", RoomDoc(b, a), {})
  <2> DEFINE R == reads[b] \ {Read("delete3", a)}
  <2>1. Read("delete3", a) \in reads[b] /\ Read("delete1", a) \notin reads[b]
    BY <1>2, <1>8 DEF RejectedDocs, DeleteLink
  <2>2. UNCHANGED <<db, row, adds, answers>> /\ reads' = [reads EXCEPT ![b] = R]
    BY <1>8 DEF DeleteLink, screens
  <2>3. R \subseteq Checks \cup Deletions(a) /\ Read("delete1", a) \notin R
        /\ (Read("delete2", a) \in reads[b] => Read("delete2", a) \in R)
    BY <1>2, <1>4, <2>1
  <2>4. \/ queue' = queue
        \/ Enqueue(b, << Put(RoomDoc(a, b), Absent, a) >>)
    BY <1>8, FriendDocOf DEF DeleteLink
  <2> HIDE DEF R
  <2>5. /\ db[FriendDoc(a, b)] = Absent \/ Owes(queue[b], FriendDoc(a, b))
        /\ \/ db[FriendDoc(b, a)] = Absent \/ Owes(queue[b], FriendDoc(b, a))
           \/ Read("delete2", a) \in R
        /\ Writes(queue[b]) \subseteq RejectWrites(a, b)
    BY <1>2, <2>1, <2>3 DEF RejectedDocs
  <2>6. CASE queue' = queue
    BY <1>1, <2>2, <2>3, <2>5, <2>6, OneDeletes
  <2>7. CASE Enqueue(b, << Put(RoomDoc(a, b), Absent, a) >>)
    <3>1. /\ db[FriendDoc(a, b)] = Absent \/ Owes(queue'[b], FriendDoc(a, b))
          /\ \/ db[FriendDoc(b, a)] = Absent \/ Owes(queue'[b], FriendDoc(b, a))
             \/ Read("delete2", a) \in R
          /\ Writes(queue'[b]) \subseteq RejectWrites(a, b)
          /\ \A x \in Pet \ {b} : queue'[x] = queue[x]
      BY <1>5, <2>5, <2>7
    <3> QED BY <1>1, <2>2, <2>3, <3>1, OneDeletes
  <2> QED BY <2>4, <2>6, <2>7
<1> QED BY <1>6, <1>7, <1>8 DEF AnswerDelete

----------------------------------------------------------------------------
(* The server applies a write *)

\* What a flush does besides writing the document.
LEMMA FlushRest ==
  ASSUME TypeOK, NEW p \in Pet, Flush(p), NEW w, w = Head(queue[p])
  PROVE  /\ UNCHANGED <<row, adds, answers>>
         /\ \A x \in Pet \ {p} : queue'[x] = queue[x] /\ reads'[x] = reads[x]
         /\ reads'[p] = reads[p] \cup IF w.ack = "openChat" THEN {Read("chat", w.peer)} ELSE {}
         /\ w.ack # "receiver" => queue'[p] = Tail(queue[p])
         /\ w.ack = "receiver" =>
              queue'[p] = Tail(queue[p]) \o
                << Put(FriendDoc(w.doc.of[2], w.doc.of[1]),
                       IF w.val = "sending" THEN "receiving" ELSE "friending", w.peer) >>
<1> DEFINE s == Tail(queue[p])
           x1 == Put(FriendDoc(w.doc.of[2], w.doc.of[1]),
                     IF w.val = "sending" THEN "receiving" ELSE "friending", w.peer)
           more == IF w.ack = "receiver" THEN << x1 >> ELSE << >>
           rs == IF w.ack = "openChat" THEN {Read("chat", w.peer)} ELSE {}
<1>1. /\ queue' = [queue EXCEPT ![p] = s \o more] /\ Issue(p, rs)
      /\ UNCHANGED <<row, adds, answers>>
  BY DEF Flush, screens
<1>2. s \o << >> = s
  BY FlushDocs
<1> HIDE DEF s, x1
<1>3. queue \in [Pet -> Seq(Write)] /\ reads \in [Pet -> SUBSET [kind : ReadKind, peer : Pet]]
  BY DEF TypeOK
<1>4. queue'[p] = s \o more /\ \A x \in Pet \ {p} : queue'[x] = queue[x]
  BY <1>1, <1>3
<1>5. reads'[p] = reads[p] \cup rs /\ \A x \in Pet \ {p} : reads'[x] = reads[x]
  BY <1>1, <1>3 DEF Issue
<1> QED BY <1>1, <1>2, <1>4, <1>5 DEF s, x1

\* A write of the request arrives.
LEMMA OneSends ==
  ASSUME TypeOK, NEW a \in Pet, NEW b \in Pet, a # b, Asked(a, b), Sending(a, b), Flush(a)
  PROVE  Asked(a, b)'
<1> DEFINE w == Head(queue[a])
           room == Put(RoomDoc(a, b), Offer(a), b)
           ask == Ask1(a, b)
           tell == Tell1(a, b)
           q == queue[a]
           left == queue'[a]
<1>f. /\ room.doc = RoomDoc(a, b) /\ room.val = Offer(a) /\ room.ack = NoAck
      /\ ask.doc = FriendDoc(a, b) /\ ask.val = "sending" /\ ask.peer = b
      /\ ask.ack = IF a \in Ios THEN NoAck ELSE "receiver"
      /\ tell.doc = FriendDoc(b, a) /\ tell.val = "receiving" /\ tell.ack = NoAck
  BY PutFields DEF Ask1, Tell1
<1>d. /\ RoomDoc(a, b) \in Doc /\ FriendDoc(a, b) \in Doc /\ FriendDoc(b, a) \in Doc
      /\ RoomDoc(a, b) # FriendDoc(a, b) /\ RoomDoc(a, b) # FriendDoc(b, a)
      /\ FriendDoc(a, b) # FriendDoc(b, a) /\ FriendDoc(a, b).of = <<a, b>>
  BY ThreeDocs, FriendDocOf
<1>s. /\ SendingDocs(a, b) /\ answers[b] = 0 /\ queue[b] = << >>
      /\ ReadsAre(a, b, {}, {}) /\ RowsAre(a, b, {}, {})
  BY DEF Sending
<1>k. NoAck # "receiver" /\ NoAck # "openChat"
  BY DEF NoAck
<1>1. \A d \in Doc : db'[d] = IF d = w.doc THEN w.val ELSE db[d]
  BY FlushDocs
<1>2. /\ UNCHANGED <<row, adds, answers>>
      /\ \A x \in Pet \ {a} : queue'[x] = queue[x] /\ reads'[x] = reads[x]
      /\ reads'[a] = reads[a] \cup IF w.ack = "openChat" THEN {Read("chat", w.peer)} ELSE {}
      /\ w.ack # "receiver" => left = Tail(q)
      /\ w.ack = "receiver" =>
           left = Tail(q) \o
                << Put(FriendDoc(w.doc.of[2], w.doc.of[1]),
                       IF w.val = "sending" THEN "receiving" ELSE "friending", w.peer) >>
  BY FlushRest
<1>h. \A x, y, z : /\ Head(<< x, y, z >>) = x /\ Tail(<< x, y, z >>) = << y, z >>
                   /\ Head(<< x, y >>) = x /\ Tail(<< x, y >>) = << y >>
                   /\ Head(<< x >>) = x /\ Tail(<< x >>) = << >> /\ << >> \o << x >> = << x >>
  OBVIOUS
<1>q. \/ /\ DocsAre(a, b, Absent, Absent, Absent)
         /\ q = IF a \in Ios THEN << room, ask, tell >> ELSE << room, ask >>
      \/ /\ DocsAre(a, b, Offer(a), Absent, Absent)
         /\ q = IF a \in Ios THEN << ask, tell >> ELSE << ask >>
      \/ DocsAre(a, b, Offer(a), "sending", Absent) /\ q = << tell >>
  BY <1>s DEF SendingDocs
<1>t. Put(FriendDoc(b, a), "receiving", b) = tell
  BY DEF Tell1
<1> HIDE DEF room, ask, tell, q, left
<1>3. w.ack # "openChat" /\ w.doc \in {RoomDoc(a, b), FriendDoc(a, b), FriendDoc(b, a)}
  <2>1. w \in {room, ask, tell}
    BY <1>q, <1>h DEF q
  <2> QED BY <1>f, <1>k, <2>1
<1>4. SendingDocs(a, b)' \/ (left = << >> /\ DocsAre(a, b, Offer(a), "sending", "receiving")')
  <2>1. CASE /\ DocsAre(a, b, Absent, Absent, Absent)
             /\ q = IF a \in Ios THEN << room, ask, tell >> ELSE << room, ask >>
    <3>1. w = room
      BY <2>1, <1>h DEF q
    <3>2. left = IF a \in Ios THEN << ask, tell >> ELSE << ask >>
      BY <1>2, <2>1, <1>f, <1>h, <1>k, <3>1
    <3>3. DocsAre(a, b, Offer(a), Absent, Absent)'
      BY <1>1, <2>1, <1>f, <1>d, <3>1 DEF DocsAre
    <3> QED BY <3>2, <3>3 DEF SendingDocs, ask, tell, left
  <2>2. CASE /\ DocsAre(a, b, Offer(a), Absent, Absent)
             /\ q = IF a \in Ios THEN << ask, tell >> ELSE << ask >>
    <3>1. w = ask
      BY <2>2, <1>h DEF q
    <3>2. left = << tell >>
      <4>1. CASE a \in Ios
        BY <1>2, <2>2, <1>f, <1>h, <1>k, <3>1, <4>1
      <4>2. CASE a \notin Ios
        <5>1. w.ack = "receiver" /\ w.doc.of[1] = a /\ w.doc.of[2] = b /\ w.val = "sending" /\ w.peer = b
          BY <1>f, <1>d, <3>1, <4>2
        <5>2. left = << >> \o << tell >>
          BY <1>2, <2>2, <1>h, <1>t, <4>2, <5>1
        <5> QED BY <1>h, <5>2
      <4> QED BY <4>1, <4>2
    <3>3. DocsAre(a, b, Offer(a), "sending", Absent)'
      BY <1>1, <2>2, <1>f, <1>d, <3>1 DEF DocsAre
    <3> QED BY <3>2, <3>3 DEF SendingDocs, tell, left
  <2>3. CASE DocsAre(a, b, Offer(a), "sending", Absent) /\ q = << tell >>
    <3>1. w = tell
      BY <2>3, <1>h DEF q
    <3>2. left = << >> /\ w.ack = NoAck
      BY <1>2, <2>3, <1>f, <1>h, <1>k, <3>1
    <3>3. DocsAre(a, b, Offer(a), "sending", "receiving")'
      BY <1>1, <2>3, <1>f, <1>d, <3>1 DEF DocsAre
    <3> QED BY <3>2, <3>3
  <2> QED BY <1>q, <2>1, <2>2, <2>3
<1> HIDE DEF w
<1>5. \A x \in Pet : reads'[x] = reads[x]
  BY <1>2, <1>3
<1>6. /\ ReadsAre(a, b, {}, {})' /\ RowsAre(a, b, {}, {})' /\ RowsAre(a, b, {}, {"receiving"})'
  BY <1>2, <1>5, <1>s DEF ReadsAre, RowsAre, Checks
<1>7. /\ answers'[b] = 0 /\ queue'[b] = << >> /\ Apart(a, b)' /\ adds' = 1
  <2>1. \A d \in Doc \ {RoomDoc(a, b), FriendDoc(a, b), FriendDoc(b, a)} : db'[d] = db[d]
    BY <1>1, <1>3
  <2> QED BY <1>2, <1>s, <2>1 DEF Apart, Asked
<1>8. CASE SendingDocs(a, b)'
  BY <1>6, <1>7, <1>8 DEF Asked, Sending
<1>9. CASE left = << >> /\ DocsAre(a, b, Offer(a), "sending", "receiving")'
  BY <1>6, <1>7, <1>9 DEF Asked, Waiting, left
<1> QED BY <1>4, <1>8, <1>9

\* A write of the acceptance arrives.
LEMMA OneArrives ==
  ASSUME TypeOK, NEW a \in Pet, NEW b \in Pet, a # b, Asked(a, b), Accepted(a, b), Flush(b)
  PROVE  Asked(a, b)'
<1> DEFINE w == Head(queue[b])
           q == queue[b]
           s == Tail(q)
           left == queue'[b]
           rest == Put(FriendDoc(b, a), "friending", a)
<1>1. /\ q \in Seq(Write) /\ q # << >> /\ w \in Write /\ s \in Seq(Write)
      /\ \A d \in Doc : db'[d] = IF d = w.doc THEN w.val ELSE db[d]
  BY FlushDocs
<1>2. /\ UNCHANGED <<row, adds, answers>>
      /\ \A x \in Pet \ {b} : queue'[x] = queue[x] /\ reads'[x] = reads[x]
      /\ reads'[b] = reads[b] \cup IF w.ack = "openChat" THEN {Read("chat", w.peer)} ELSE {}
      /\ w.ack # "receiver" => left = s
      /\ w.ack = "receiver" =>
           left = s \o
                << Put(FriendDoc(w.doc.of[2], w.doc.of[1]),
                       IF w.val = "sending" THEN "receiving" ELSE "friending", w.peer) >>
  BY FlushRest
<1>3. Writes(q) = {w} \cup Writes(s)
  BY <1>1, WritesTail
<1>d. /\ RoomDoc(a, b) \in Doc /\ FriendDoc(a, b) \in Doc /\ FriendDoc(b, a) \in Doc
      /\ RoomDoc(a, b) # FriendDoc(a, b) /\ RoomDoc(a, b) # FriendDoc(b, a)
      /\ FriendDoc(a, b) # FriendDoc(b, a) /\ FriendDoc(a, b).of = <<a, b>>
  BY ThreeDocs, FriendDocOf
<1>r. rest \in AcceptWrites(a, b) /\ rest \in Write /\ rest.doc = FriendDoc(b, a)
  <2>1. rest \in Write
    BY PutTypes DEF Status
  <2> QED BY <2>1, PutFields DEF AcceptWrites
<1>a. AcceptedDocs(a, b)
  BY DEF Accepted
<1>4. Writes(q) \subseteq AcceptWrites(a, b)
  BY <1>a DEF AcceptedDocs
<1>w. /\ w.peer = a
      /\ w.doc \in {RoomDoc(a, b), FriendDoc(a, b), FriendDoc(b, a)}
      /\ w.doc = RoomDoc(a, b) => w.val = Taken(a, b) /\ w.ack \in {NoAck, "openChat"}
      /\ w.doc # RoomDoc(a, b) => w.val = "friending" /\ w.ack \in {NoAck, "receiver"}
      /\ w.doc = FriendDoc(b, a) => w.ack = NoAck
  BY <1>3, <1>4, AcceptFields
<1> HIDE DEF w, q, s, left
<1>5. /\ w.ack # "receiver" => Writes(left) = Writes(s)
      /\ w.ack = "receiver" => Writes(left) = Writes(s) \cup {rest}
  <2>1. CASE w.ack # "receiver"
    BY <1>2, <2>1
  <2>2. CASE w.ack = "receiver"
    <3>1. w.doc = FriendDoc(a, b) /\ w.val = "friending"
      BY <1>w, <2>2 DEF NoAck
    <3>2. w.doc.of[1] = a /\ w.doc.of[2] = b
      BY <1>d, <3>1
    <3>3. left = s \o << rest >>
      BY <1>2, <1>w, <2>2, <3>1, <3>2
    <3> DEFINE t == << rest >>
    <3>4. t \in Seq(Write) /\ Writes(t) = {rest}
      BY <1>r, WritesAre
    <3> HIDE DEF t
    <3>5. Writes(s \o t) = Writes(s) \cup Writes(t)
      BY ONLY <1>1, <3>4, WritesAppend
    <3> QED BY <2>2, <3>3, <3>4, <3>5 DEF t
  <2> QED BY <2>1, <2>2
<1> HIDE DEF rest
<1>6. /\ Writes(s) \subseteq Writes(left) /\ Writes(left) \subseteq AcceptWrites(a, b)
      /\ \A d : Owes(q, d) /\ w.doc # d => Owes(left, d)
  <2>1. Writes(s) \subseteq Writes(left) /\ Writes(left) \subseteq AcceptWrites(a, b)
    BY <1>3, <1>4, <1>5, <1>r
  <2> QED BY <1>3, <2>1 DEF Owes
<1>7. /\ db'[RoomDoc(a, b)] \in {Offer(a), Taken(a, b)}
      /\ db'[FriendDoc(a, b)] \in {"sending", "friending"}
      /\ db'[FriendDoc(b, a)] \in {"receiving", "friending"}
  BY <1>1, <1>a, <1>d, <1>w DEF AcceptedDocs
<1>8. db'[FriendDoc(a, b)] = "friending" \/ Owes(left, FriendDoc(a, b))
  BY <1>1, <1>6, <1>a, <1>d, <1>w DEF AcceptedDocs, q
<1>9. \/ db'[FriendDoc(b, a)] = "friending"
      \/ Owes(left, FriendDoc(b, a))
      \/ \E x \in Writes(left) : x.ack = "receiver"
  <2>1. CASE w.doc = FriendDoc(b, a)
    BY <1>1, <1>d, <1>w, <2>1
  <2>2. CASE w.doc # FriendDoc(b, a) /\ w.ack = "receiver"
    BY <1>5, <1>r, <2>2 DEF Owes
  <2>3. CASE w.doc # FriendDoc(b, a) /\ w.ack # "receiver"
    <3>1. (\E x \in Writes(q) : x.ack = "receiver") => \E x \in Writes(left) : x.ack = "receiver"
      BY <1>3, <1>6, <2>3
    <3>2. db'[FriendDoc(b, a)] = db[FriendDoc(b, a)]
      BY <1>1, <1>d, <2>3
    <3> QED BY <1>6, <1>a, <2>3, <3>1, <3>2 DEF AcceptedDocs, q
  <2> QED BY <2>1, <2>2, <2>3
<1>10. \/ db'[RoomDoc(a, b)] = Taken(a, b)
       \/ Owes(left, RoomDoc(a, b))
       \/ Read("accept", a) \in reads'[b]
  BY <1>1, <1>2, <1>6, <1>a, <1>d, <1>w DEF AcceptedDocs, q
<1>11. AcceptedDocs(a, b)'
  BY <1>6, <1>7, <1>8, <1>9, <1>10 DEF AcceptedDocs, left
<1>12. ReadsAre(a, b, {Read("chat", b)}, {Read("chat", a), Read("accept", a)})'
  <2>1. \A x \in Pet : reads'[x] \subseteq Checks \cup (IF x = a THEN {Read("chat", b)}
               ELSE IF x = b THEN {Read("chat", a), Read("accept", a)} ELSE {})
    BY <1>2, <1>w DEF Accepted, ReadsAre
  <2> QED BY <2>1 DEF ReadsAre, Checks
<1>13. RowsAre(a, b, {"friending"}, {"receiving", "answered", "friending"})'
  BY <1>2 DEF Accepted, RowsAre
<1>14. Apart(a, b)' /\ adds' = 1 /\ queue'[a] = << >> /\ answers'[b] = 1
  <2>1. \A d \in Doc \ {RoomDoc(a, b), FriendDoc(a, b), FriendDoc(b, a)} : db'[d] = db[d]
    BY <1>1, <1>w
  <2> QED BY <1>2, <2>1 DEF Apart, Asked, Accepted
<1> QED BY <1>11, <1>12, <1>13, <1>14 DEF Asked, Accepted

\* A write of the rejection arrives.
LEMMA OneVanishes ==
  ASSUME TypeOK, NEW a \in Pet, NEW b \in Pet, a # b, Asked(a, b), Rejected(a, b), Flush(b)
  PROVE  Asked(a, b)'
<1> DEFINE w == Head(queue[b])
           q == queue[b]
           s == Tail(q)
<1>1. /\ q \in Seq(Write) /\ q # << >> /\ s \in Seq(Write)
      /\ \A d \in Doc : db'[d] = IF d = w.doc THEN w.val ELSE db[d]
  BY FlushDocs
<1>2. /\ UNCHANGED <<row, adds, answers>>
      /\ \A x \in Pet \ {b} : queue'[x] = queue[x] /\ reads'[x] = reads[x]
      /\ reads'[b] = reads[b] \cup IF w.ack = "openChat" THEN {Read("chat", w.peer)} ELSE {}
      /\ w.ack # "receiver" => queue'[b] = s
  BY FlushRest
<1>3. Writes(q) = {w} \cup Writes(s)
  BY <1>1, WritesTail
<1>d. /\ RoomDoc(a, b) \in Doc /\ FriendDoc(a, b) \in Doc /\ FriendDoc(b, a) \in Doc
      /\ RoomDoc(a, b) # FriendDoc(a, b) /\ RoomDoc(a, b) # FriendDoc(b, a)
      /\ FriendDoc(a, b) # FriendDoc(b, a)
  BY ThreeDocs
<1>a. RejectedDocs(a, b) /\ Writes(q) \subseteq RejectWrites(a, b)
  BY DEF Rejected, RejectedDocs
<1>w. /\ w.doc \in {RoomDoc(a, b), FriendDoc(a, b), FriendDoc(b, a)}
      /\ w.val = Absent /\ w.ack = NoAck
  <2>1. PICK d \in {RoomDoc(a, b), FriendDoc(a, b), FriendDoc(b, a)} : w = Put(d, Absent, a)
    BY <1>3, <1>a DEF RejectWrites
  <2> HIDE DEF w
  <2> QED BY <2>1, PutFields
<1>r. Read("delete1", a) \notin reads[b]
  BY <1>1, <1>a DEF RejectedDocs
<1>4. queue'[b] = s /\ reads'[b] = reads[b]
  BY <1>2, <1>w DEF NoAck
<1> HIDE DEF w, q, s
<1>5. /\ Writes(s) \subseteq RejectWrites(a, b)
      /\ \A d : Owes(q, d) /\ w.doc # d => Owes(s, d)
  BY <1>3, <1>a DEF Owes
<1>6. /\ db'[RoomDoc(a, b)] \in {Offer(a), Absent}
      /\ db'[FriendDoc(a, b)] \in {"sending", Absent}
      /\ db'[FriendDoc(b, a)] \in {"receiving", Absent}
  BY <1>1, <1>a, <1>d, <1>w DEF RejectedDocs
<1>7. db'[FriendDoc(a, b)] = Absent \/ Owes(s, FriendDoc(a, b))
  BY <1>1, <1>5, <1>a, <1>d, <1>w, <1>r DEF RejectedDocs, q
<1>8. \/ db'[FriendDoc(b, a)] = Absent \/ Owes(s, FriendDoc(b, a))
      \/ Read("delete2", a) \in reads[b]
  BY <1>1, <1>5, <1>a, <1>d, <1>w, <1>r DEF RejectedDocs, q
<1>9. RejectedDocs(a, b)'
  BY <1>4, <1>5, <1>6, <1>7, <1>8, <1>r DEF RejectedDocs
<1>10. ReadsAre(a, b, {}, Deletions(a))'
  <2>1. \A x \in Pet : reads'[x] \subseteq Checks \cup (IF x = a THEN {}
               ELSE IF x = b THEN Deletions(a) ELSE {})
    BY <1>2, <1>4 DEF Rejected, ReadsAre
  <2> QED BY <2>1 DEF ReadsAre, Checks, Deletions
<1>11. RowsAre(a, b, {}, {"receiving"})'
  BY <1>2 DEF Rejected, RowsAre
<1>12. Apart(a, b)' /\ adds' = 1 /\ queue'[a] = << >> /\ answers'[b] = 1
  <2>1. \A d \in Doc \ {RoomDoc(a, b), FriendDoc(a, b), FriendDoc(b, a)} : db'[d] = db[d]
    BY <1>1, <1>w
  <2> QED BY <1>2, <2>1 DEF Apart, Asked, Rejected
<1> QED BY <1>9, <1>10, <1>11, <1>12 DEF Asked, Rejected

----------------------------------------------------------------------------
(* The whole run *)

\* The only app that ends is the asker's, which opened the chat too early.
LEMMA OneEnds ==
  ASSUME TypeOK, OneInv, NEW p \in Pet, NEW q \in Pet, p # q, ChatCrashes(p, q)
  PROVE  ScreenStep
<1>1. Read("chat", q) \in reads[p] /\ Read("accept", q) \notin reads[p]
  BY DEF ChatCrashes, ChatAnswered
<1>2. \A x : /\ Read("chat", q) \notin Checks
             /\ Read("chat", q) \notin Deletions(x)
             /\ Read("chat", q) # Read("accept", x)
             /\ Read("chat", q) = Read("chat", x) => x = q
  BY DEF Checks, Deletions, Read
<1>3. PICK e \in Edge : Asked(e[1], e[2])
  BY <1>1, <1>2 DEF OneInv, Unasked
<1> DEFINE a == e[1]
           b == e[2]
<1>4. a \in Pet /\ b \in Pet /\ a # b
  BY DEF Edge
<1> HIDE DEF a, b
<1>5. Asked(a, b)
  BY <1>3 DEF a, b
<1>6. ~Sending(a, b) /\ ~Waiting(a, b) /\ ~Rejected(a, b)
  BY <1>1, <1>2 DEF Sending, Waiting, Rejected, ReadsAre
<1>7. Accepted(a, b) /\ Apart(a, b)
  BY <1>5, <1>6 DEF Asked
<1>8. \/ p = a /\ q = b
      \/ p = b /\ q = a
  BY <1>1, <1>2, <1>7 DEF Accepted, ReadsAre
<1>9. ~(p = b /\ q = a)
  <2> SUFFICES ASSUME p = b, q = a PROVE FALSE
    OBVIOUS
  <2>1. Sees(b, RoomDoc(a, b)) = Taken(a, b)
    BY <1>1, <1>4, <1>7, AcceptedSees
  <2>2. Unreadable(b, a, Taken(a, b))
    BY <2>1, FriendDocOf DEF ChatCrashes
  <2>3. Taken(a, b) # Absent
    BY <1>4, TakenOnce, AbsentAssumption
  <2>4. Taken(a, b).pub[a] # Unknown /\ Taken(a, b).pub[b] # Unknown
    BY <1>4, TakenKnown
  <2> QED BY <2>2, <2>3, <2>4 DEF Unreadable
<1>10. p = a /\ q = b
  BY <1>8, <1>9
<1>11. queue[p] = << >> /\ reads[p] \subseteq Checks \cup {Read("chat", b)}
  BY <1>4, <1>7, <1>10 DEF Accepted, ReadsAre
<1>12. reads[p] \subseteq ScreenReads(p)
  BY <1>4, <1>11 DEF ScreenReads
<1> QED BY <1>11, <1>12, ScreenEnds

\* Every step keeps the invariant.
LEMMA OneStep ==
  ASSUME OneRequest, TypeOK, OneInv, [Next]_vars
  PROVE  OneInv'
<1>a. ASSUME NEW p \in Pet, NEW q \in Pet, p # q, Asked(p, q)'
      PROVE  OneInv'
  <2>1. <<p, q>> \in Edge /\ <<p, q>>[1] = p /\ <<p, q>>[2] = q
    BY <1>a DEF Edge
  <2>2. \E e \in Edge : Asked(e[1], e[2])'
    BY <1>a, <2>1
  <2> QED BY <2>2 DEF OneInv
<1>f. ~(faults < MaxFaults)
  BY DEF OneRequest, TypeOK
<1>1. ASSUME NEW e \in Edge, User(e[1], e[2]) \/ Callback(e[1], e[2]) \/ ReadFails(e[1], e[2])
      PROVE  OneInv'
  <2> DEFINE p == e[1]
             q == e[2]
  <2>1. p \in Pet /\ q \in Pet /\ p # q
    BY DEF Edge
  <2>2. ~ReadFails(p, q)
    BY <1>f DEF ReadFails
  <2>3. User(p, q) \/ Callback(p, q)
    BY <1>1, <2>2
  <2> HIDE DEF p, q
  <2>4. CASE \/ OpenDetail(p, q) \/ CloseDetail(p, q) \/ OpenChat(p, q)
             \/ AnswerCheck(p, q) \/ ChatOpens(p, q) \/ ListChange(p, q)
    BY <2>1, <2>4, ScreenSteps, ScreensKeep
  <2>5. CASE AddIos(p, q) \/ AddAndroid(p, q)
    BY <2>1, <2>5, <1>a, OneAdds
  <2>6. CASE AcceptIos(p, q) \/ AcceptAndroid(p, q)
    BY <2>1, <2>6, <1>a, OneAccepts
  <2>7. CASE RejectIos(p, q) \/ RejectAndroid(p, q)
    BY <2>1, <2>7, <1>a, OneRejects
  <2>8. CASE AnswerAccept(p, q)
    BY <2>1, <2>8, <1>a, OneTakes
  <2>9. CASE AnswerDelete(p, q)
    BY <2>1, <2>9, <1>a, OneLinks
  <2>10. CASE ChatCrashes(p, q)
    BY <2>1, <2>10, OneEnds, ScreensKeep
  <2> QED BY <2>3, <2>4, <2>5, <2>6, <2>7, <2>8, <2>9, <2>10 DEF User, Callback
<1>2. ASSUME NEW p \in Pet, LoadList(p) \/ Flush(p) \/ Kill(p)
      PROVE  OneInv'
  <2>1. CASE LoadList(p)
    BY <2>1, ScreenLoads, ScreensKeep
  <2>2. CASE Flush(p)
    <3>1. queue[p] # << >>
      BY <2>2 DEF Flush
    <3>2. PICK e \in Edge : Asked(e[1], e[2])
      BY <3>1 DEF OneInv, Unasked
    <3> DEFINE a == e[1]
               b == e[2]
    <3>3. a \in Pet /\ b \in Pet /\ a # b
      BY DEF Edge
    <3> HIDE DEF a, b
    <3>4. Asked(a, b)
      BY <3>2 DEF a, b
    <3>5. p = a \/ p = b
      BY <3>1, <3>4 DEF Asked, Apart
    <3>6. \/ Sending(a, b) /\ p = a
          \/ Accepted(a, b) /\ p = b
          \/ Rejected(a, b) /\ p = b
      BY <3>1, <3>4, <3>5 DEF Asked, Sending, Waiting, Accepted, Rejected
    <3>7. Asked(a, b)'
      BY <2>2, <3>3, <3>4, <3>6, OneSends, OneArrives, OneVanishes
    <3> QED BY <1>a, <3>3, <3>7
  <2>3. ~Kill(p)
    BY <1>f DEF Kill
  <2> QED BY <1>2, <2>1, <2>2, <2>3
<1>3. CASE UNCHANGED vars
  <2>1. UNCHANGED <<db, queue, adds, answers, reads, row>>
    BY <1>3 DEF vars
  <2>2. ScreenStep
    BY <2>1 DEF ScreenStep
  <2> QED BY <2>2, ScreensKeep
<1> QED BY <1>1, <1>2, <1>3 DEF Next

\* At first nobody has asked.
LEMMA OneInit == Init => OneInv
  BY DEF Init, OneInv, Unasked

\* A pair that has settled has no write queued.
LEMMA OneSettles ==
  ASSUME TypeOK, OneInv, NEW p \in Pet, NEW q \in Pet, p # q, Settled(p, q)
  PROVE  \/ Record(p, q) = Absent /\ Record(q, p) = Absent
         \/ {Record(p, q), Record(q, p)} = {"sending", "receiving"}
         \/ Record(p, q) = "friending" /\ Record(q, p) = "friending" /\ CanTalk(p, q)
<1>s. ASSUME NEW a \in Pet, NEW b \in Pet, a # b, Asked(a, b), Settled(a, b)
      PROVE  \/ Record(a, b) = Absent /\ Record(b, a) = Absent
             \/ Record(a, b) = "sending" /\ Record(b, a) = "receiving"
             \/ Record(a, b) = "friending" /\ Record(b, a) = "friending" /\ CanTalk(a, b)
  <2>1. /\ \A w \in Writes(queue[a]) : w.peer # b
        /\ \A w \in Writes(queue[b]) : w.peer # a
    BY <1>s DEF Settled, Busy, Writes
  <2>2. \A k \in {"accept", "delete1", "delete2"} : Read(k, a) \notin reads[b]
    BY <1>s DEF Settled, Busy, ReadKind
  <2>3. CASE Sending(a, b)
    <3>1. Writes(queue[a]) = {}
      BY <1>s, <2>1, <2>3, SendingWrites DEF Sending
    <3>2. queue[a] = << >>
      <4>1. queue[a] \in Seq(Write)
        BY DEF TypeOK
      <4> QED BY <3>1, <4>1, WritesTail
    <3>3. FALSE
      BY <2>3, <3>2 DEF Sending, SendingDocs
    <3> QED BY <3>3
  <2>4. CASE Waiting(a, b)
    BY <2>4 DEF Waiting, DocsAre, Record
  <2>5. CASE Accepted(a, b)
    <3>1. Writes(queue[b]) = {}
      <4>1. \A w \in Writes(queue[b]) : w.peer = a
        BY <1>s, <2>5, AcceptFields DEF Accepted, AcceptedDocs
      <4> QED BY <2>1, <4>1
    <3>2. \A d : ~Owes(queue[b], d)
      BY <3>1 DEF Owes
    <3>3. /\ db[FriendDoc(a, b)] = "friending" /\ db[FriendDoc(b, a)] = "friending"
          /\ db[RoomDoc(a, b)] = Taken(a, b)
      BY <2>2, <2>5, <3>1, <3>2 DEF Accepted, AcceptedDocs
    <3>4. CanTalk(a, b)
      <4>1. Taken(a, b) # Absent
        BY TakenOnce, AbsentAssumption
      <4>2. Taken(a, b).pub[a] # Unknown /\ Taken(a, b).pub[b] # Unknown
        BY <1>s, TakenKnown
      <4> QED BY <3>3, <4>1, <4>2 DEF CanTalk, RoomOf
    <3> QED BY <3>3, <3>4 DEF Record
  <2>6. CASE Rejected(a, b)
    <3>1. Writes(queue[b]) = {}
      <4>1. \A w \in Writes(queue[b]) : w.peer = a
        BY <2>6, PutFields DEF Rejected, RejectedDocs, RejectWrites
      <4> QED BY <2>1, <4>1
    <3>2. \A d : ~Owes(queue[b], d)
      BY <3>1 DEF Owes
    <3> QED BY <2>2, <2>6, <3>2 DEF Rejected, RejectedDocs, Record
  <2> QED BY <1>s, <2>3, <2>4, <2>5, <2>6 DEF Asked
<1>1. CASE Unasked
  BY <1>1, DocTypes DEF Unasked, Record
<1>2. ASSUME NEW e \in Edge, Asked(e[1], e[2]) PROVE
         \/ Record(p, q) = Absent /\ Record(q, p) = Absent
         \/ {Record(p, q), Record(q, p)} = {"sending", "receiving"}
         \/ Record(p, q) = "friending" /\ Record(q, p) = "friending" /\ CanTalk(p, q)
  <2> DEFINE a == e[1]
             b == e[2]
  <2>1. a \in Pet /\ b \in Pet /\ a # b
    BY DEF Edge
  <2> HIDE DEF a, b
  <2>2. Asked(a, b)
    BY <1>2 DEF a, b
  <2>3. CASE p = a /\ q = b
    BY <1>s, <2>1, <2>2, <2>3
  <2>4. CASE p = b /\ q = a
    <3>1. Settled(a, b)
      BY <2>4 DEF Settled
    <3>2. CanTalk(a, b) => CanTalk(p, q)
      BY <2>4, FriendDocOf DEF CanTalk, RoomOf
    <3> QED BY <1>s, <2>1, <2>2, <2>4, <3>1, <3>2
  <2>5. CASE ~(p = a /\ q = b) /\ ~(p = b /\ q = a)
    <3>1. /\ FriendDoc(p, q) \in Doc \ {RoomDoc(a, b), FriendDoc(a, b), FriendDoc(b, a)}
          /\ FriendDoc(q, p) \in Doc \ {RoomDoc(a, b), FriendDoc(a, b), FriendDoc(b, a)}
      <4>1. \A x, y \in Pet : x # y => FriendDoc(x, y) \in Doc /\ FriendDoc(x, y) # RoomDoc(a, b)
        BY <2>1, DocTypes, KindsDiffer
      <4>2. FriendDoc(p, q) \notin {FriendDoc(a, b), FriendDoc(b, a)}
        BY <2>5, FriendDocOf
      <4>3. FriendDoc(q, p) \notin {FriendDoc(a, b), FriendDoc(b, a)}
        BY <2>5, FriendDocOf
      <4> QED BY <4>1, <4>2, <4>3
    <3> QED BY <2>2, <3>1 DEF Asked, Apart, Record
  <2> QED BY <2>3, <2>4, <2>5
<1> QED BY <1>1, <1>2 DEF OneInv

\* An acceptance finds the room.
LEMMA OneFinds == TypeOK /\ OneInv => AcceptFindsRoom
<1> SUFFICES ASSUME TypeOK, OneInv, NEW e \in Edge, Read("accept", e[2]) \in reads[e[1]]
             PROVE  Sees(e[1], RoomDoc(e[1], e[2])) # Absent
  BY DEF AcceptFindsRoom
<1> DEFINE b == e[1]
           a == e[2]
<1>1. a \in Pet /\ b \in Pet /\ a # b
  BY DEF Edge
<1> HIDE DEF a, b
<1>2. Asked(a, b) /\ Accepted(a, b)
  BY <1>1, OneAcceptor DEF a, b
<1>3. Sees(b, RoomDoc(a, b)) \in {Offer(a), Taken(a, b)}
  BY <1>1, <1>2, AcceptedSees DEF Asked
<1>4. Sees(b, RoomDoc(b, a)) # Absent
  BY <1>1, <1>3, TakenOnce, AbsentAssumption, FriendDocOf
<1> QED BY <1>4 DEF a, b

\* An acceptance writes "friending" only.
LEMMA OneStays ==
  ASSUME OneRequest, TypeOK, OneInv, [Next]_vars, NEW p \in Pet, NEW q \in Pet, p # q,
         Record(p, q) = "friending"
  PROVE  Record(p, q)' \notin {"sending", "receiving"}
<1>1. Absent # "friending"
  BY AbsentAssumption DEF Status
<1>2. FriendDoc(p, q) \in Doc /\ db[FriendDoc(p, q)] = "friending"
  BY DocTypes DEF Record
<1>3. PICK e \in Edge : Asked(e[1], e[2])
  BY <1>1, <1>2 DEF OneInv, Unasked
<1> DEFINE a == e[1]
           b == e[2]
<1>4. a \in Pet /\ b \in Pet /\ a # b
  BY DEF Edge
<1> HIDE DEF a, b
<1>5. Asked(a, b)
  BY <1>3 DEF a, b
<1>6. FriendDoc(p, q) \in {FriendDoc(a, b), FriendDoc(b, a)}
  <2>1. FriendDoc(p, q) # RoomDoc(a, b)
    BY <1>4, DocTypes, KindsDiffer
  <2> QED BY <1>1, <1>2, <1>5, <2>1 DEF Asked, Apart
<1>7. Accepted(a, b)
  BY <1>1, <1>2, <1>5, <1>6
     DEF Asked, Sending, SendingDocs, Waiting, Rejected, RejectedDocs, DocsAre
<1>8. CASE db' = db
  BY <1>2, <1>8 DEF Record
<1>9. CASE db' # db
  <2>1. PICK x \in Pet : Flush(x)
    <3>1. ASSUME NEW f \in Edge, User(f[1], f[2]) \/ Callback(f[1], f[2]) \/ ReadFails(f[1], f[2])
          PROVE  db' = db
      BY <3>1 DEF User, OpenDetail, CloseDetail, AddIos, AddAndroid, AcceptIos, AcceptAndroid,
         RejectIos, RejectAndroid, OpenChat, Callback, AnswerCheck, AnswerAccept, AnswerDelete,
         DeleteLink, ChatOpens, ChatCrashes, ListChange, ReadFails
    <3>2. ASSUME NEW x \in Pet, LoadList(x) \/ Kill(x) PROVE db' = db
      BY <3>2 DEF LoadList, Kill
    <3>3. UNCHANGED vars => db' = db
      BY DEF vars
    <3> QED BY <1>9, <3>1, <3>2, <3>3 DEF Next
  <2>2. x = b
    BY <1>5, <1>7, <2>1 DEF Flush, Asked, Apart, Accepted
  <2> DEFINE w == Head(queue[b])
  <2>3. /\ queue[b] \in Seq(Write) /\ queue[b] # << >>
        /\ \A d \in Doc : db'[d] = IF d = w.doc THEN w.val ELSE db[d]
    BY <2>1, <2>2, FlushDocs
  <2>4. w \in AcceptWrites(a, b)
    BY <1>7, <2>3, WritesTail DEF Accepted, AcceptedDocs
  <2> HIDE DEF w
  <2>5. w.doc # RoomDoc(a, b) => w.val = "friending"
    BY <1>4, <2>4, AcceptFields
  <2>6. db'[FriendDoc(p, q)] = "friending"
    BY <1>2, <1>4, <1>6, <2>3, <2>5, ThreeDocs
  <2> QED BY <2>6 DEF Record
<1> QED BY <1>8, <1>9

\* So the invariant always holds.
LEMMA OneAlways ==
  ASSUME OneRequest
  PROVE  Spec => [](TypeOK /\ OneInv)
<1>1. Init => TypeOK /\ OneInv
  BY TypeInit, OneInit
<1>2. TypeOK /\ OneInv /\ [Next]_vars => (TypeOK /\ OneInv)'
  BY TypeStep, OneStep
<1> QED BY <1>1, <1>2, PTL DEF Spec

\* What a settled pair has, as the properties say it.
LEMMA OneImplies == TypeOK /\ OneInv => RecordsAgree /\ FriendsAgree /\ FriendsCanTalk
<1>1. ASSUME TypeOK, OneInv, NEW e \in Edge, Settled(e[1], e[2])
      PROVE  /\ Record(e[1], e[2]) = Absent <=> Record(e[2], e[1]) = Absent
             /\ Record(e[1], e[2]) = "friending" <=> Record(e[2], e[1]) = "friending"
             /\ Record(e[1], e[2]) = "friending" => CanTalk(e[1], e[2])
  <2> DEFINE p == e[1]
             q == e[2]
  <2>1. p \in Pet /\ q \in Pet /\ p # q
    BY DEF Edge
  <2>2. Absent \notin {"sending", "receiving", "friending"}
    BY AbsentAssumption DEF Status
  <2>3. Settled(p, q)
    BY <1>1
  <2> HIDE DEF p, q
  <2>4. \/ Record(p, q) = Absent /\ Record(q, p) = Absent
        \/ {Record(p, q), Record(q, p)} = {"sending", "receiving"}
        \/ Record(p, q) = "friending" /\ Record(q, p) = "friending" /\ CanTalk(p, q)
    BY <1>1, <2>1, <2>3, OneSettles
  <2>5. /\ Record(p, q) = Absent <=> Record(q, p) = Absent
        /\ Record(p, q) = "friending" <=> Record(q, p) = "friending"
        /\ Record(p, q) = "friending" => CanTalk(p, q)
    BY <2>2, <2>4
  <2> QED BY <2>5 DEF p, q
<1> QED BY <1>1 DEF RecordsAgree, FriendsAgree, FriendsCanTalk

(***************************************************************************)
(* One request between any two apps, whoever else is there: when nothing   *)
(* is under way both pets have a record or neither.  The second halves of  *)
(* Android's writes come with the acknowledgements (new_friend_change),    *)
(* and its deletions are a chain of reads (friend_delete); both run to the *)
(* end, hasty owners and chats opened too early notwithstanding.           *)
(***************************************************************************)
THEOREM OneRequestStaysPaired ==
  ASSUME OneRequest
  PROVE  Spec => []RecordsAgree
  BY OneAlways, OneImplies, PTL

(***************************************************************************)
(* And friendship is mutual: acceptFriend of iOS queues both halves, the   *)
(* Accept listener of Android writes the asker's record first and its own  *)
(* when that is acknowledged.                                              *)
(***************************************************************************)
THEOREM OneRequestIsMutual ==
  ASSUME OneRequest
  PROVE  Spec => []FriendsAgree
  BY OneAlways, OneImplies, PTL

(***************************************************************************)
(* And the friends can talk: the room has the numbers of both, whichever   *)
(* app made which, once the acceptance has settled.                        *)
(***************************************************************************)
THEOREM OneRequestCanTalk ==
  ASSUME OneRequest
  PROVE  Spec => []FriendsCanTalk
  BY OneAlways, OneImplies, PTL

(***************************************************************************)
(* The read of an acceptance (acceptFriend, update_friend_key) finds the   *)
(* room, owners who may reject included: who accepted rejects no more.     *)
(***************************************************************************)
THEOREM OneRequestFindsRoom ==
  ASSUME OneRequest
  PROVE  Spec => []AcceptFindsRoom
  BY OneAlways, OneFinds, PTL

(***************************************************************************)
(* A friendship is not turned back into a request, on Android either,      *)
(* whose profile does not check for a record before it enables Add.        *)
(***************************************************************************)
THEOREM OneRequestNotReset ==
  ASSUME OneRequest
  PROVE  Spec => FriendshipNotReset
<1>1. ASSUME TypeOK, OneInv, [Next]_vars
      PROVE  [\A e \in Edge : Record(e[1], e[2]) = "friending" =>
                Record(e[1], e[2])' \notin {"sending", "receiving"}]_db
  <2>1. \A e \in Edge : e[1] \in Pet /\ e[2] \in Pet /\ e[1] # e[2]
    BY DEF Edge
  <2> QED BY <1>1, <2>1, OneStays
<1> QED BY <1>1, OneAlways, PTL DEF Spec, FriendshipNotReset

==============================================================================
