-------------------------------- MODULE Chat --------------------------------
(***************************************************************************)
(* The messages of one chat room and what the two apps show of them.       *)
(*                                                                         *)
(* iOS (Messenger, ChatRoomVC) lets the owner send as soon as the window   *)
(* is there, and rebuilds the whole list from every snapshot.  Android     *)
(* (ChattingActivity, MessagingDownloader, BaseMessage) adds its own       *)
(* messages to the list itself and, from a snapshot, the changes only.     *)
(*                                                                         *)
(* A listener is told of the documents its device sees: those the server   *)
(* has delivered and the device's own.  A snapshot is taken when they      *)
(* change and handled later on the main thread; an acknowledgement changes *)
(* no document and raises none.  An app that is killed and a chat that is  *)
(* left lose the same state, so Leave stands for both.                     *)
(***************************************************************************)
EXTENDS Naturals, Sequences, FiniteSets

CONSTANTS
  Pet,           \* the two pets of the room
  Ios,           \* those whose owner runs the iOS app
  Early,         \* owners who send before their chat is loaded
  MaxMessages,   \* bound: messages sent in a run
  Times          \* the readings of the devices' clocks, which need not agree

ASSUME ChatAssumption ==
  /\ Ios \subseteq Pet /\ Early \subseteq Pet
  /\ MaxMessages \in Nat
  /\ Times \subseteq Nat

VARIABLES
  server,        \* the room's message collection, in the order of arrival
  pending,       \* pending[p]: messages in the mutation queue of p's device
  synced,        \* synced[p]: the server's messages p's device has
  phase,         \* phase[p]: p's chat window
  seen,          \* seen[p]: the documents of the listener's last snapshot
  events,        \* events[p]: snapshots not handled yet
  list,          \* list[p]: the rows on the screen
  passed,        \* passed[p]: history, messages of snapshots with writes pending
  sent           \* number of messages sent, their identities

vars == <<server, pending, synced, phase, seen, events, list, passed, sent>>

Id == 1 .. MaxMessages
\* readable: the text is the cipher of what was typed, not the "error" that
\* encrypt returns when it has no key.
Message == [id : Id, from : Pet, time : Times, readable : BOOLEAN]
Row == [id : Id, time : Times]
RowOf(m) == [id |-> m.id, time |-> m.time]
Snapshot == [new : SUBSET Message, all : SUBSET Message, local : BOOLEAN]

Contents(s) == {s[i] : i \in 1 .. Len(s)}

\* The query's order: by time, then by document.
Before(m, n) == m.time < n.time \/ (m.time = n.time /\ m.id < n.id)
ByTime(S) ==
  [i \in 1 .. Cardinality(S) |->
     CHOOSE m \in S : Cardinality({n \in S : Before(n, m)}) = i - 1]
Rows(S) == [i \in 1 .. Cardinality(S) |-> RowOf(ByTime(S)[i])]

\* The documents of the query as p's device sees them.
Local(p) == synced[p] \cup Contents(pending[p])

TypeOK ==
  /\ server \in Seq(Message)
  /\ pending \in [Pet -> Seq(Message)]
  /\ synced \in [Pet -> SUBSET Contents(server)]
  /\ phase \in [Pet -> {"closed", "loading", "listening"}]
  /\ seen \in [Pet -> SUBSET Message]
  /\ events \in [Pet -> Seq(Snapshot)]
  /\ list \in [Pet -> Seq(Row)]
  /\ \A p \in Pet : phase[p] # "listening" => list[p] = << >> /\ events[p] = << >>
  /\ passed \in [Pet -> SUBSET Id]
  /\ sent \in 0 .. MaxMessages

Init ==
  /\ server = << >>
  /\ pending = [p \in Pet |-> << >>]
  /\ synced = [p \in Pet |-> {}]
  /\ phase = [p \in Pet |-> "closed"]
  /\ seen = [p \in Pet |-> {}]
  /\ events = [p \in Pet |-> << >>]
  /\ list = [p \in Pet |-> << >>]
  /\ passed = [p \in Pet |-> {}]
  /\ sent = 0

\* The listener takes a snapshot of docs if they differ from its last one.  A
\* message that is just sent, with the number sent + 1, is not one passed over.
Raise(p, docs, local) ==
  LET new == docs \ seen[p]
  IN  /\ seen' = [seen EXCEPT ![p] = docs]
      /\ IF new = {} THEN UNCHANGED <<events, passed>>
         ELSE /\ events' = [events EXCEPT ![p] =
                              Append(@, [new |-> new, all |-> docs, local |-> local])]
              /\ passed' = [passed EXCEPT ![p] =
                              IF local THEN @ \cup ({m.id : m \in new} \cap 1 .. sent) ELSE @]

----------------------------------------------------------------------------
(* The window *)

\* The window appears: iOS without a key yet, Android once it has the key
\* and before it has downloaded the two profiles.
Open(p) ==
  /\ phase[p] = "closed"
  /\ phase' = [phase EXCEPT ![p] = "loading"]
  /\ UNCHANGED <<server, pending, synced, seen, events, list, passed, sent>>

\* startListen / listenToRoom: the first snapshot is what the device has.
Listen(p) ==
  /\ phase[p] = "loading"
  /\ phase' = [phase EXCEPT ![p] = "listening"]
  /\ Raise(p, Local(p), pending[p] # << >>)
  /\ UNCHANGED <<server, pending, synced, list, sent>>

\* Mutant: the screen outlives the window.
CloseKeepingList(p) ==
  /\ phase' = [phase EXCEPT ![p] = "closed"]
  /\ seen' = [seen EXCEPT ![p] = {}]
  /\ events' = [events EXCEPT ![p] = << >>]
  /\ passed' = [passed EXCEPT ![p] = {}]
  /\ UNCHANGED list

Close(p) ==
  /\ phase' = [phase EXCEPT ![p] = "closed"]
  /\ seen' = [seen EXCEPT ![p] = {}]
  /\ events' = [events EXCEPT ![p] = << >>]
  /\ list' = [list EXCEPT ![p] = << >>]
  /\ passed' = [passed EXCEPT ![p] = {}]

Leave(p) ==
  /\ phase[p] # "closed"
  /\ Close(p)
  /\ UNCHANGED <<server, pending, synced, sent>>

----------------------------------------------------------------------------
(* Sending *)

NewMessage(p, t, readable) ==
  [id |-> sent + 1, from |-> p, time |-> t, readable |-> readable]

Queued(p, m) ==
  /\ sent < MaxMessages
  /\ sent' = sent + 1
  /\ pending' = [pending EXCEPT ![p] = Append(@, m)]
  /\ UNCHANGED <<server, synced>>

\* Messenger.upload: the list is left to the snapshot of the pending write.
SendIos(p) ==
  \E t \in Times :
    /\ p \in Ios
    /\ phase[p] = "listening"
    /\ Queued(p, NewMessage(p, t, TRUE))
    /\ Raise(p, Local(p) \cup {NewMessage(p, t, TRUE)}, TRUE)
    /\ UNCHANGED <<phase, list>>

\* Sent while the room is being read: the key is empty, encrypt logs the
\* exception and returns "error".
SendEarlyIos(p) ==
  \E t \in Times :
    /\ p \in Ios \cap Early
    /\ phase[p] = "loading"
    /\ Queued(p, NewMessage(p, t, FALSE))
    /\ UNCHANGED <<phase, seen, events, list, passed>>

\* newMessage, then a row of its own with the clock read again.
SendAndroid(p) ==
  \E t, again \in Times :
    /\ p \notin Ios
    /\ phase[p] = "listening"
    /\ t <= again
    /\ Queued(p, NewMessage(p, t, TRUE))
    /\ Raise(p, Local(p) \cup {NewMessage(p, t, TRUE)}, TRUE)
    /\ list' = [list EXCEPT ![p] = Append(@, [id |-> sent + 1, time |-> again])]
    /\ UNCHANGED phase

\* Sent while the profiles are downloaded: messsageUpdate scrolls a list that
\* has no adapter yet, which ends the app after the write was queued.
SendEarlyAndroid(p) ==
  \E t \in Times :
    /\ p \in Early \ Ios
    /\ phase[p] = "loading"
    /\ Queued(p, NewMessage(p, t, TRUE))
    /\ Close(p)

----------------------------------------------------------------------------
(* The network *)

\* The server applies the oldest write of p's device; no snapshot follows.
Flush(p) ==
  /\ pending[p] # << >>
  /\ server' = Append(server, Head(pending[p]))
  /\ pending' = [pending EXCEPT ![p] = Tail(@)]
  /\ synced' = [synced EXCEPT ![p] = @ \cup {Head(pending[p])}]
  /\ UNCHANGED <<phase, seen, events, list, passed, sent>>

\* The server tells p's device of the messages up to some point.
Deliver(p) ==
  \E k \in 1 .. Len(server) :
    LET now == synced[p] \cup Contents(SubSeq(server, 1, k))
    IN  /\ phase[p] = "listening"
        /\ now # synced[p]
        /\ synced' = [synced EXCEPT ![p] = now]
        /\ Raise(p, now \cup Contents(pending[p]), pending[p] # << >>)
        /\ UNCHANGED <<server, pending, phase, list, sent>>

----------------------------------------------------------------------------
(* Handling a snapshot *)

\* Mutants: iOS passes over snapshots of local writes; iOS shows the changes
\* only.
ListIosServerOnly(rows, snap) == IF snap.local THEN rows ELSE Rows(snap.all)
ListIosChanges(rows, snap) == Rows(snap.new)

\* Messenger.startListen.
ListIos(rows, snap) == Rows(snap.all)

\* Mutants: listenToRoom shows local snapshots; it stops at the first message.
ListAndroidLocal(rows, snap) ==
  rows \o Rows({m \in snap.new : \A i \in 1 .. Len(rows) : rows[i].time # m.time})
ListAndroidFirst(rows, snap) ==
  IF snap.local THEN rows ELSE Append(rows, Rows(snap.new)[1])

\* listenToRoom: a snapshot with pending writes is passed over; otherwise its
\* changes follow, except those equal to a row, and BaseMessage.equals compares
\* the time.
ListAndroid(rows, snap) ==
  IF snap.local THEN rows
  ELSE rows \o Rows({m \in snap.new : \A i \in 1 .. Len(rows) : rows[i].time # m.time})

Handle(p) ==
  /\ events[p] # << >>
  /\ LET snap == Head(events[p])
     IN  list' = [list EXCEPT ![p] =
                    IF p \in Ios THEN ListIos(@, snap) ELSE ListAndroid(@, snap)]
  /\ events' = [events EXCEPT ![p] = Tail(@)]
  /\ UNCHANGED <<server, pending, synced, phase, seen, passed, sent>>

Next ==
  \E p \in Pet :
    \/ Open(p) \/ Listen(p) \/ Leave(p)
    \/ SendIos(p) \/ SendEarlyIos(p) \/ SendAndroid(p) \/ SendEarlyAndroid(p)
    \/ Flush(p) \/ Deliver(p) \/ Handle(p)

Spec == Init /\ [][Next]_vars

\* The network works on and the main thread gets to every snapshot.
FairSpec == Spec /\ \A p \in Pet : WF_vars(Flush(p)) /\ WF_vars(Deliver(p)) /\ WF_vars(Handle(p))

----------------------------------------------------------------------------
(* Properties *)

Shown(p) == {list[p][i].id : i \in 1 .. Len(list[p])}

\* No message is on a screen twice, though Android has its own messages from
\* two sources with two times: the button's row and the listener's snapshot.
ShownOnce == \A p \in Pet : Cardinality(Shown(p)) = Len(list[p])

\* An iOS chat whose snapshots are handled shows everything its device has, in
\* the order of the query: a friend's message that arrives between two own ones
\* with a clock behind is still put in its place (Messenger.startListen).
IosUpToDate ==
  \A p \in Ios : phase[p] = "listening" /\ events[p] = << >> => list[p] = Rows(Local(p))

\* All an Android chat whose snapshots are handled may lack are the messages
\* that came in a snapshot taken while a write of its own was pending, and those
\* with the time of a row it has.  Every other message its device has is on the
\* screen: what the owner sends here, and what arrives once the writes are
\* through, in whatever order sends, acknowledgements and deliveries come.
AndroidUpToDate ==
  \A p \in Pet \ Ios :
    phase[p] = "listening" /\ events[p] = << >> =>
      \A m \in Local(p) : \/ m.id \in Shown(p) \cup passed[p]
                          \/ \E i \in 1 .. Len(list[p]) : list[p][i].time = m.time

\* A message the server has reaches an iOS chat that stays open.
IosCatchesUp ==
  \A p \in Ios, i \in Id :
    (phase[p] = "listening" /\ \E k \in 1 .. Len(server) : server[k].id = i)
      ~> (i \in Shown(p) \/ phase[p] # "listening")

\* Both apps implement the abstract room.
Room == INSTANCE ChatRoom WITH
          posted <- {m.id : m \in Contents(server) \cup UNION {Contents(pending[p]) : p \in Pet}},
          shown <- [p \in Pet |-> Shown(p)]
ImplementsRoom == Room!Spec

=============================================================================
