----------------------------- MODULE Friending -----------------------------
(***************************************************************************)
(* The friend-request protocol between pets, as the iOS app                *)
(* (FriendHandler, FriendListVC, MatchDetailVC, Messenger.init) and the    *)
(* Android app (PetProfile.new_friend_change, update_friend_key and        *)
(* friend_delete, FriendFragment, FriendRecycleViewAdapter) run it over    *)
(* three shared documents per pair of pets:                                *)
(*                                                                         *)
(*   pets/p/friends/q   p's record of q: {pending: status}                 *)
(*   pets/q/friends/p   q's record of p                                    *)
(*   chats/{p,q}        the room: Diffie-Hellman parameters and the public *)
(*                      number of each pet, "?" until it is known          *)
(*                                                                         *)
(* No step of either app is a transaction.  A pet stands for the device of *)
(* its owner: the documents of a pair are only written for the two pets of *)
(* the pair, so the other pets of the owner only delay its queue.          *)
(*                                                                         *)
(* Cryptography is symbolic.  A prime and root generated for the n-th      *)
(* request of the run are the parameters n, and the number pet p publishes *)
(* under them is [params |-> n, by |-> p]: its secret is in a file that is *)
(* written once, one per friend on iOS and one per own pet on Android.     *)
(***************************************************************************)
EXTENDS Firestore, FiniteSets

CONSTANTS
  Pet,          \* the pets (devices)
  Ios,          \* those whose owner runs the iOS app; the others run Android
  Adders,       \* those whose owner opens a profile to send a request
  Hasty,        \* iOS owners who tap Add before the pending check is answered
  Rejecters,    \* those whose owner may press Reject
  MaxAdds,      \* bound: requests sent in a run
  MaxAnswers,   \* bound: presses of Accept or Reject, per owner
  MaxFaults,    \* bound: kills of an app and failed reads
  Absent,       \* the value of a document that does not exist
  Unknown,      \* the "?" in place of a public number
  NoKey         \* no chat is open

ASSUME PetsAssumption == /\ Ios \subseteq Pet
                         /\ Adders \subseteq Pet
                         /\ Hasty \subseteq Ios
                         /\ Rejecters \subseteq Pet
ASSUME BoundsAssumption == {MaxAdds, MaxAnswers, MaxFaults} \subseteq Nat

VARIABLES
  db,           \* the server's documents
  queue,        \* queue[p]: the writes p's device has not had applied
  reads,        \* reads[p]: the reads p's app waits for
  row,          \* row[<<p, q>>]: how p's friend list shows q
  button,       \* button[<<p, q>>]: the Add button of q's profile on p's app
  session,      \* session[<<p, q>>]: the key p's open chat with q holds
  adds,         \* requests sent so far; also the source of fresh parameters
  answers,      \* answers[p]: presses of Accept and Reject by p's owner
  faults        \* kills and failed reads so far

vars == <<db, queue, reads, row, button, session, adds, answers, faults>>
screens == <<row, button, session>>

----------------------------------------------------------------------------
(* Documents, values, writes and reads *)

Edge == {e \in Pet \X Pet : e[1] # e[2]}

FriendDoc(p, q) == [kind |-> "friend", of |-> <<p, q>>]
RoomDoc(p, q) == [kind |-> "chat", of |-> {p, q}]

FriendDocs == {FriendDoc(e[1], e[2]) : e \in Edge}
RoomDocs == {RoomDoc(e[1], e[2]) : e \in Edge}
Doc == FriendDocs \cup RoomDocs

\* PendingStatus; "blocking" is declared by both apps and written by neither.
Status == {"sending", "receiving", "friending"}

Public(n, p) == [params |-> n, by |-> p]
PublicNumber == [params : Nat, by : Pet]
Room == [params : Nat, pub : [Pet -> PublicNumber \cup {Unknown}]]
ASSUME AbsentAssumption == Absent \notin Status /\ Absent \notin Room
ASSUME UnknownAssumption == Unknown \notin PublicNumber

DocValue(d) == {Absent} \cup IF d \in FriendDocs THEN Status ELSE Room

\* The key getSharedKey computes from the other side's public number: both
\* sides get the same one when that number was made under the same parameters.
SharedKey(n, friendPublic, p) ==
  [params |-> n, base |-> friendPublic.params, secrets |-> {p, friendPublic.by}]
Key == [params : Nat, base : Nat, secrets : SUBSET Pet]

\* A write of p's device about the other pet "peer"; Flush says what its
\* completion does.
Write ==
  [doc : FriendDocs, val : {Absent} \cup Status, ack : {NoAck, "receiver"}, peer : Pet]
  \cup [doc : RoomDocs, val : {Absent} \cup Room, ack : {NoAck, "openChat"}, peer : Pet]
Put(d, v, q) == [doc |-> d, val |-> v, ack |-> NoAck, peer |-> q]
PutThen(d, v, q, a) == [doc |-> d, val |-> v, ack |-> a, peer |-> q]

\* The reads with a callback that changes state.
ReadKind == {"check", "accept", "chat", "delete1", "delete2", "delete3"}
Read(k, q) == [kind |-> k, peer |-> q]

Sees(p, d) == View(db, queue[p], d)
DetailOpen(p) == \E e \in Edge : e[1] = p /\ button[e] # "closed"

\* Mutant: the list keeps every record.
ListedAll(status) == IF status = Absent THEN "none" ELSE status

\* The friend list keeps "friending" and "receiving" records only.
Listed(status) == IF status \in {"friending", "receiving"} THEN status ELSE "none"

TypeOK ==
  /\ db = [d \in Doc |-> db[d]]
  /\ \A d \in Doc : db[d] \in DocValue(d)
  /\ queue \in [Pet -> Seq(Write)]
  /\ reads \in [Pet -> SUBSET [kind : ReadKind, peer : Pet]]
  /\ row \in [Edge -> {"none", "receiving", "answered", "friending"}]
  /\ button \in [Edge -> {"closed", "unchecked", "enabled", "disabled"}]
  /\ session \in [Edge -> Key \cup {NoKey}]
  /\ adds \in 0 .. MaxAdds
  /\ answers \in [Pet -> 0 .. MaxAnswers]
  /\ faults \in 0 .. MaxFaults

Init ==
  /\ db = [d \in Doc |-> Absent]
  /\ queue = [p \in Pet |-> << >>]
  /\ reads = [p \in Pet |-> {}]
  /\ row = [e \in Edge |-> "none"]
  /\ button = [e \in Edge |-> "closed"]
  /\ session = [e \in Edge |-> NoKey]
  /\ adds = 0
  /\ answers = [p \in Pet |-> 0]
  /\ faults = 0

Enqueue(p, ws) == queue' = [queue EXCEPT ![p] = @ \o ws]
Issue(p, rs) == reads' = [reads EXCEPT ![p] = @ \cup rs]

\* The app of p stops: its windows, its closures and the reads it waits for
\* are gone, the queued writes are not.
StopApp(p) ==
  /\ queue' = [queue EXCEPT ![p] = WithoutAcks(@)]
  /\ reads' = [reads EXCEPT ![p] = {}]
  /\ row' = [e \in Edge |-> IF e[1] = p THEN "none" ELSE row[e]]
  /\ button' = [e \in Edge |-> IF e[1] = p THEN "closed" ELSE button[e]]
  /\ session' = [e \in Edge |-> IF e[1] = p THEN NoKey ELSE session[e]]

----------------------------------------------------------------------------
(* Sending a request *)

\* The profile of q is opened on p's device.  iOS reads p's record to decide
\* whether to disable Add, and leaves it enabled meanwhile; Android does not.
OpenDetail(p, q) ==
  /\ p \in Adders
  /\ ~DetailOpen(p)
  /\ button' = [button EXCEPT ![<<p, q>>] = IF p \in Ios THEN "unchecked" ELSE "enabled"]
  /\ Issue(p, IF p \in Ios THEN {Read("check", q)} ELSE {})
  /\ UNCHANGED <<db, queue, row, session, adds, answers, faults>>

\* The view controller goes away; its handler's pending read has no effect then.
CloseDetail(p, q) ==
  /\ button[<<p, q>>] # "closed"
  /\ button' = [button EXCEPT ![<<p, q>>] = "closed"]
  /\ reads' = [reads EXCEPT ![p] = @ \ {Read("check", q)}]
  /\ UNCHANGED <<db, queue, row, session, adds, answers, faults>>

\* Mutant: only the owner's own pending request disables Add.
AnswerCheckSending(p, q) ==
  /\ Read("check", q) \in reads[p]
  /\ reads' = [reads EXCEPT ![p] = @ \ {Read("check", q)}]
  /\ button' = [button EXCEPT ![<<p, q>>] =
                  IF @ = "unchecked" /\ Sees(p, FriendDoc(p, q)) # "sending"
                  THEN "enabled" ELSE "disabled"]
  /\ UNCHANGED <<db, queue, row, session, adds, answers, faults>>

\* shouldDisableAddFriendButton: no record leaves the button as it is.
AnswerCheck(p, q) ==
  /\ Read("check", q) \in reads[p]
  /\ reads' = [reads EXCEPT ![p] = @ \ {Read("check", q)}]
  /\ button' = [button EXCEPT ![<<p, q>>] =
                  IF @ = "unchecked" /\ Sees(p, FriendDoc(p, q)) = Absent
                  THEN "enabled" ELSE "disabled"]
  /\ UNCHANGED <<db, queue, row, session, adds, answers, faults>>

\* generateSenderData / the map of update_friend_key: new parameters, the
\* sender's own number, "?" for the other side.
OfferedRoom(n, p) ==
  [params |-> n, pub |-> [x \in Pet |-> IF x = p THEN Public(n, p) ELSE Unknown]]

\* Mutants of RequestIos: the room last, the other pet's record before the own
\* one, the own record only.
RequestRoomLast(n, p, q) ==
  << Put(FriendDoc(p, q), "sending", q), Put(FriendDoc(q, p), "receiving", q),
     Put(RoomDoc(p, q), OfferedRoom(n, p), q) >>
RequestOtherFirst(n, p, q) ==
  << Put(RoomDoc(p, q), OfferedRoom(n, p), q),
     Put(FriendDoc(q, p), "receiving", q), Put(FriendDoc(p, q), "sending", q) >>
RequestOneSided(n, p, q) ==
  << Put(RoomDoc(p, q), OfferedRoom(n, p), q), Put(FriendDoc(p, q), "sending", q) >>

\* The three writes of addFriend.
RequestIos(n, p, q) ==
  << Put(RoomDoc(p, q), OfferedRoom(n, p), q),
     Put(FriendDoc(p, q), "sending", q),
     Put(FriendDoc(q, p), "receiving", q) >>

\* addFriend issues its writes at once and disables the button.
AddIos(p, q) ==
  /\ p \in Ios
  /\ \/ button[<<p, q>>] = "enabled"
     \/ button[<<p, q>>] = "unchecked" /\ p \in Hasty
  /\ adds < MaxAdds
  /\ adds' = adds + 1
  /\ Enqueue(p, RequestIos(adds + 1, p, q))
  /\ button' = [button EXCEPT ![<<p, q>>] = "disabled"]
  /\ UNCHANGED <<db, reads, row, session, answers, faults>>

\* new_friend_change(NEW_FRIEND) writes q's record only when the write of p's
\* own record is acknowledged.  The button is disabled after that, which the
\* model leaves out: reopening the profile enables it again.
AddAndroid(p, q) ==
  /\ p \notin Ios
  /\ button[<<p, q>>] = "enabled"
  /\ adds < MaxAdds
  /\ adds' = adds + 1
  /\ Enqueue(p, << Put(RoomDoc(p, q), OfferedRoom(adds + 1, p), q),
                   PutThen(FriendDoc(p, q), "sending", q, "receiver") >>)
  /\ UNCHANGED <<db, reads, row, button, session, answers, faults>>

----------------------------------------------------------------------------
(* The friend list *)

\* viewWillAppear reloads the list, and each row of a friend opens a Messenger
\* for its last message.  The read of the friend records, that of each friend's
\* profile and the two of its status are one step here: rows are those of one
\* moment, though in the code a record may change between two of these reads.
LoadList(p) ==
  /\ p \in Ios
  /\ ~DetailOpen(p)
  /\ row' = [e \in Edge |-> IF e[1] = p THEN Listed(Sees(p, FriendDoc(p, e[2]))) ELSE row[e]]
  /\ session' = [e \in Edge |-> IF e[1] = p THEN NoKey ELSE session[e]]
  /\ Issue(p, {Read("chat", q) : q \in {x \in Pet \ {p} :
                                        Sees(p, FriendDoc(p, x)) = "friending"}})
  /\ UNCHANGED <<db, queue, button, adds, answers, faults>>

\* listenToFriendList reports the records, on a change or when the fragment is
\* opened again, and the rows are rebuilt, one that was answered too; a friend's
\* row reads the room for its last message.
ListChange(p, q) ==
  LET now == Listed(Sees(p, FriendDoc(p, q)))
  IN  /\ p \notin Ios
      /\ now # row[<<p, q>>]
      /\ row' = [row EXCEPT ![<<p, q>>] = now]
      /\ Issue(p, IF now = "friending" THEN {Read("chat", q)} ELSE {})
      /\ UNCHANGED <<db, queue, button, session, adds, answers, faults>>

\* Accept and Reject are offered on rows shown as "receiving".
CanAnswer(p, q) ==
  /\ row[<<p, q>>] = "receiving"
  /\ ~DetailOpen(p)
  /\ answers[p] < MaxAnswers
  /\ answers' = [answers EXCEPT ![p] = @ + 1]

\* Mutant: the friend's record is forgotten.
AcceptIosOneSided(p, q) ==
  /\ p \in Ios
  /\ CanAnswer(p, q)
  /\ Issue(p, {Read("accept", q)})
  /\ Enqueue(p, << Put(FriendDoc(p, q), "friending", q) >>)
  /\ UNCHANGED <<db, screens, adds, faults>>

\* acceptFriend asks for the room and, not waiting for it, makes both records
\* "friending".  The row keeps its buttons until the list is loaded again.
AcceptIos(p, q) ==
  /\ p \in Ios
  /\ CanAnswer(p, q)
  /\ Issue(p, {Read("accept", q)})
  /\ Enqueue(p, << Put(FriendDoc(p, q), "friending", q),
                   Put(FriendDoc(q, p), "friending", q) >>)
  /\ UNCHANGED <<db, screens, adds, faults>>

\* The Accept listener shows the row as a friend's at once, and calls
\* new_friend_change with the friend as sender: its record is written first.
AcceptAndroid(p, q) ==
  /\ p \notin Ios
  /\ CanAnswer(p, q)
  /\ row' = [row EXCEPT ![<<p, q>>] = "answered"]
  /\ Issue(p, {Read("accept", q)})
  /\ Enqueue(p, << PutThen(FriendDoc(q, p), "friending", q, "receiver") >>)
  /\ UNCHANGED <<db, button, session, adds, faults>>

\* Mutants of AcceptedRoom: the number is made under new parameters, as with
\* KeyExchanger(friendId:); the number is not added.
AcceptedAfresh(room, p) == [room EXCEPT !.pub[p] = Public(adds + 1, p)]
AcceptedUnread(room, p) == room

\* The room as the acceptor found it, with the acceptor's own number added.
AcceptedRoom(room, p) == [room EXCEPT !.pub[p] = Public(room.params, p)]

\* The read of acceptFriend / update_friend_key: the whole document is written
\* back; with no room nothing is written.  iOS opens the chat when it is done.
AnswerAccept(p, q) ==
  LET room == Sees(p, RoomDoc(p, q))
      ack  == IF p \in Ios THEN "openChat" ELSE NoAck
  IN  /\ Read("accept", q) \in reads[p]
      /\ reads' = [reads EXCEPT ![p] = @ \ {Read("accept", q)}]
      /\ IF room = Absent
         THEN UNCHANGED queue
         ELSE Enqueue(p, << PutThen(RoomDoc(p, q), AcceptedRoom(room, p), q, ack) >>)
      /\ UNCHANGED <<db, screens, adds, answers, faults>>

\* rejectFriend deletes the room and both records; the row stays.
RejectIos(p, q) ==
  /\ p \in Ios \cap Rejecters
  /\ CanAnswer(p, q)
  /\ Enqueue(p, << Put(RoomDoc(p, q), Absent, q),
                   Put(FriendDoc(p, q), Absent, q),
                   Put(FriendDoc(q, p), Absent, q) >>)
  /\ UNCHANGED <<db, reads, screens, adds, faults>>

\* friend_delete(q, p) is a chain of reads: q's record, p's record, the room.
RejectAndroid(p, q) ==
  /\ p \in Rejecters \ Ios
  /\ CanAnswer(p, q)
  /\ Issue(p, {Read("delete1", q)})
  /\ UNCHANGED <<db, queue, screens, adds, faults>>

\* One link of the chain: a document that exists is deleted and the next one
\* read, one that does not ends the chain.
DeleteLink(p, q, kind, doc, next) ==
  /\ Read(kind, q) \in reads[p]
  /\ IF Sees(p, doc) = Absent
     THEN /\ reads' = [reads EXCEPT ![p] = @ \ {Read(kind, q)}]
          /\ UNCHANGED queue
     ELSE /\ reads' = [reads EXCEPT ![p] = (@ \ {Read(kind, q)}) \cup next]
          /\ Enqueue(p, << Put(doc, Absent, q) >>)
  /\ UNCHANGED <<db, screens, adds, answers, faults>>

AnswerDelete(p, q) ==
  \/ DeleteLink(p, q, "delete1", FriendDoc(q, p), {Read("delete2", q)})
  \/ DeleteLink(p, q, "delete2", FriendDoc(p, q), {Read("delete3", q)})
  \/ DeleteLink(p, q, "delete3", RoomDoc(p, q), {})

----------------------------------------------------------------------------
(* Opening the chat *)

OpenChat(p, q) ==
  /\ row[<<p, q>>] \in {"friending", "answered"}
  /\ ~DetailOpen(p)
  /\ Issue(p, {Read("chat", q)})
  /\ UNCHANGED <<db, queue, screens, adds, answers, faults>>

\* Messenger.init does nothing without a room and parses the friend's number
\* in one that exists; the Android callbacks take the document for granted and
\* parse both numbers.  "?" is not a number.
Unreadable(p, q, room) ==
  IF room = Absent THEN p \notin Ios
  ELSE Unknown \in {room.pub[x] : x \in IF p \in Ios THEN {q} ELSE {p, q}}

\* Reads of one document are answered in the order they were issued: the read
\* of an Accept comes before that of the chat it leads to.
ChatAnswered(p, q) == /\ Read("chat", q) \in reads[p]
                      /\ Read("accept", q) \notin reads[p]

ChatOpens(p, q) ==
  LET room == Sees(p, RoomDoc(p, q))
  IN  /\ ChatAnswered(p, q)
      /\ ~Unreadable(p, q, room)
      /\ reads' = [reads EXCEPT ![p] = @ \ {Read("chat", q)}]
      /\ session' = [session EXCEPT ![<<p, q>>] =
                       IF room = Absent THEN @ ELSE SharedKey(room.params, room.pub[q], p)]
      /\ UNCHANGED <<db, queue, row, button, adds, answers, faults>>

\* A forced unwrap of nil (Messenger.swift:54) or an uncaught exception
\* (ChattingActivity.java:84, FriendFragment.java:73) ends the app.
ChatCrashes(p, q) ==
  /\ ChatAnswered(p, q)
  /\ Unreadable(p, q, Sees(p, RoomDoc(p, q)))
  /\ StopApp(p)
  /\ UNCHANGED <<db, adds, answers, faults>>

----------------------------------------------------------------------------
(* The network and the faults *)

\* The server applies the oldest write of p's device and its completion runs:
\* "receiver" is the second half of new_friend_change.
Flush(p) ==
  /\ queue[p] # << >>
  /\ LET w == Head(queue[p])
         theOther == FriendDoc(w.doc.of[2], w.doc.of[1])
         code == IF w.val = "sending" THEN "receiving" ELSE "friending"
     IN  /\ db' = [db EXCEPT ![w.doc] = w.val]
         /\ queue' = [queue EXCEPT ![p] = Tail(@) \o
                        IF w.ack = "receiver" THEN << Put(theOther, code, w.peer) >> ELSE << >>]
         /\ Issue(p, IF w.ack = "openChat" THEN {Read("chat", w.peer)} ELSE {})
  /\ UNCHANGED <<screens, adds, answers, faults>>

\* The user or the system kills the app.
Kill(p) ==
  /\ faults < MaxFaults
  /\ faults' = faults + 1
  /\ StopApp(p)
  /\ UNCHANGED <<db, adds, answers>>

\* A read ends in an error.  iOS and update_friend_key log it and do nothing;
\* the failed check counts as "no record"; the other Android callbacks call
\* getResult() on the failed task, which throws.
ReadFails(p, q) ==
  /\ faults < MaxFaults
  /\ faults' = faults + 1
  /\ \E k \in ReadKind :
        /\ Read(k, q) \in reads[p]
        /\ IF p \in Ios \/ k = "accept"
           THEN /\ reads' = [reads EXCEPT ![p] = @ \ {Read(k, q)}]
                /\ button' = IF k = "check" /\ button[<<p, q>>] = "unchecked"
                             THEN [button EXCEPT ![<<p, q>>] = "enabled"] ELSE button
                /\ UNCHANGED <<queue, row, session>>
           ELSE StopApp(p)
  /\ UNCHANGED <<db, adds, answers>>

User(p, q) ==
  \/ OpenDetail(p, q) \/ CloseDetail(p, q)
  \/ AddIos(p, q) \/ AddAndroid(p, q)
  \/ AcceptIos(p, q) \/ AcceptAndroid(p, q)
  \/ RejectIos(p, q) \/ RejectAndroid(p, q)
  \/ OpenChat(p, q)

Callback(p, q) ==
  \/ AnswerCheck(p, q) \/ AnswerAccept(p, q) \/ AnswerDelete(p, q)
  \/ ChatOpens(p, q) \/ ChatCrashes(p, q)
  \/ ListChange(p, q)

Next ==
  \/ \E e \in Edge : User(e[1], e[2]) \/ Callback(e[1], e[2]) \/ ReadFails(e[1], e[2])
  \/ \E p \in Pet : LoadList(p) \/ Flush(p) \/ Kill(p)

Spec == Init /\ [][Next]_vars

\* What the system owes: queued writes are sent and reads are answered while
\* the app runs.  No press of a button is owed, and no reload of a list.
Fairness ==
  /\ \A p \in Pet : WF_vars(Flush(p))
  /\ \A e \in Edge : WF_vars(AnswerAccept(e[1], e[2]))
                   /\ WF_vars(AnswerDelete(e[1], e[2]))

FairSpec == Spec /\ Fairness

----------------------------------------------------------------------------
(* Properties *)

Record(p, q) == db[FriendDoc(p, q)]
RoomOf(p, q) == db[RoomDoc(p, q)]

\* p's app still owes the server something about q.
Busy(p, q) ==
  \/ \E i \in 1 .. Len(queue[p]) : queue[p][i].peer = q
  \/ reads[p] \cap {Read(k, q) : k \in ReadKind \ {"check", "chat"}} # {}

Settled(p, q) == ~Busy(p, q) /\ ~Busy(q, p)

CanTalk(p, q) ==
  /\ RoomOf(p, q) # Absent
  /\ Unknown \notin {RoomOf(p, q).pub[x] : x \in {p, q}}

\* Two open chats keyed from the same exchange hold the same key, whatever
\* requests, answers, lost updates and restarts came between: no interleaving
\* of whole-document writes pairs a number with parameters it was not made for
\* (KeyExchanger, FriendHandler.acceptFriend, PetProfile.update_friend_key).
KeysAgree ==
  \A e \in Edge :
    LET mine == session[e]  theirs == session[<<e[2], e[1]>>]
    IN  mine # NoKey /\ theirs # NoKey /\ mine.params = theirs.params => mine = theirs

\* Two requests that cross never both stay "sending": neither owner's list
\* would show a request and neither Add button would be enabled.  It rests on
\* addFriend writing its own record before the other pet's.
NoCrossedRequests ==
  \A e \in Edge : Settled(e[1], e[2]) =>
     ~(Record(e[1], e[2]) = "sending" /\ Record(e[2], e[1]) = "sending")

\* A request the other owner can see has a room to accept it in: "Public
\* variable is generated in the chat room when user tap add friend"
\* (FriendHandler.swift:133), "Asyn is probably okay here" (:128).
RequestHasRoom ==
  \A e \in Edge : Record(e[1], e[2]) = "receiving" => RoomOf(e[1], e[2]) # Absent

\* When nothing is under way both pets have a record of the other or neither:
\* the two halves of a request, an answer or a deletion take effect together.
RecordsAgree ==
  \A e \in Edge : Settled(e[1], e[2]) =>
     (Record(e[1], e[2]) = Absent <=> Record(e[2], e[1]) = Absent)

\* Friendship is mutual once the writes have settled.
FriendsAgree ==
  \A e \in Edge : Settled(e[1], e[2]) =>
     (Record(e[1], e[2]) = "friending" <=> Record(e[2], e[1]) = "friending")

\* Settled friends have a room with both public numbers, so both can chat.
FriendsCanTalk ==
  \A e \in Edge : Settled(e[1], e[2]) /\ Record(e[1], e[2]) = "friending" =>
     CanTalk(e[1], e[2])

\* A friendship is not turned back into a request: Add is to be disabled for a
\* pet with a record (shouldDisableAddFriendButton, MatchDetailVC.swift:38).
FriendshipNotReset ==
  [][\A e \in Edge : Record(e[1], e[2]) = "friending" =>
        Record(e[1], e[2])' \notin {"sending", "receiving"}]_db

\* Accept finds the room of the request it answers.
AcceptFindsRoom ==
  \A e \in Edge : Read("accept", e[2]) \in reads[e[1]] =>
     Sees(e[1], RoomDoc(e[1], e[2])) # Absent

\* Opening the chat with a pet the list shows as a friend does not end the app
\* ("Start messaging for friends", FriendListVC.swift:43).
FriendChatOpens == [][~\E e \in Edge : ChatCrashes(e[1], e[2])]_vars

\* An accepted request ends in a friendship whose two sides can talk.
AcceptedCanTalk ==
  \A e \in Edge : Read("accept", e[2]) \in reads[e[1]] ~>
     /\ Record(e[1], e[2]) = "friending"
     /\ Record(e[2], e[1]) = "friending"
     /\ CanTalk(e[1], e[2])

============================================================================
