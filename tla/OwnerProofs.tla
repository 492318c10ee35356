---------------------------- MODULE OwnerProofs ----------------------------
(***************************************************************************)
(* Type correctness of Owner, and that nobody stays on the first screen    *)
(* without a profile, for any accounts and any number of logins and forms. *)
(*                                                                         *)
(* HomeHasProfile speaks of a moment without reads and writes; the         *)
(* invariant says what holds before it.  On iOS the first screen has a     *)
(* profile stored, on the server or in the queue, or a check of its own    *)
(* login is under way.  On Android it is reached through an acknowledged   *)
(* upload, which in the first login can only be the owner's.               *)
(*                                                                         *)
(* FirstInv is about the first login.  What the phone sees of its owner's  *)
(* profile, the server's document with the queued writes on top, has the   *)
(* saved form, and that view outlives every write that reaches the server. *)
(* The object has the form the phone sees, or a download or an adopted     *)
(* form that will bring it is under way.                                   *)
(***************************************************************************)
EXTENDS Owner, CommonProofs

Users == Account \cup {Nobody}

\* The first screen and the form are somebody's.
SignedIn == screen \in {"home", "form"} => user \in Account

\* iOS: while WelcomeVC downloads, there is an object to fill.
WelcomeHasObject == object = Absent => \A r \in reads : r.kind # "welcome"

\* On iOS only a saved form has a completion.
IosAcks ==
  app = "ios" => \A u \in Users :
    \A i \in 1 .. Len(queue[u]) : queue[u][i].ack \in {NoAck, "adopt"}

\* Before the first login nothing was asked or uploaded.
NothingYet ==
  logins = 0 =>
    /\ screen = "login" /\ user = Nobody /\ reads = {}
    /\ \A u \in Users : queue[u] = << >>

\* A profile of a is on the server or on its way to it.
Stored(a) == users[a] # Absent \/ \E i \in 1 .. Len(queue[user]) : queue[user][i].doc = a
Checking == \E r \in reads : r.kind = "check" /\ r.of = user /\ r.n = logins

\* iOS: on the first screen a profile is stored or a check is under way.
IosHome == app = "ios" /\ screen = "home" => Checking \/ Stored(user)

\* Android: the uploads of the first login are the owner's, and the first screen
\* comes after them.
Starts == {"login", "start"}
AndroidFirst ==
  app = "android" /\ logins = 1 =>
    /\ screen \in {"home", "form"} => users[user] # Absent
    /\ user # Nobody =>
         /\ \A r \in reads : r.kind \in Starts => r.of = user
         /\ \A u \in Users : \A i \in 1 .. Len(queue[u]) :
              queue[u][i].ack \in Starts => queue[u][i].doc = user

OwnerInv == TypeOK /\ SignedIn /\ WelcomeHasObject /\ IosAcks /\ NothingYet
HomeInv == IosHome /\ AndroidFirst

\* The profiles the code makes are profiles, and no profile is Absent.
LEMMA Profiles ==
  /\ NoForm \in Form /\ Default \in Profile
  /\ \A p \in Profile : p # Absent
  /\ \A p \in Profile, l \in Account \cup {Nowhere, Here} :
       [p EXCEPT !.loc = l] \in Profile
  /\ \A p \in Profile, f \in Form : [p EXCEPT !.form = f] \in Profile
<1>1. NoForm \in Form
  BY DEF NoForm, Form
<1>2. Default \in Profile
  BY <1>1 DEF Default, Profile
<1> QED
  BY <1>1, <1>2, AbsentAssumption DEF Profile

\* The queue of whoever uses the app is a queue of writes.
LEMMA QueueFits ==
  ASSUME TypeOK, NEW u \in Users
  PROVE  /\ queue[u] \in Seq(Write) /\ Len(queue[u]) \in Nat
         /\ \A i \in 1 .. Len(queue[u]) :
              /\ queue[u][i] \in Write
              /\ queue[u][i].val \in Profile /\ queue[u][i].doc \in Account
<1>1. queue[u] \in Seq(Write) /\ Len(queue[u]) \in Nat
  BY DEF TypeOK, Users
<1>2. \A i \in 1 .. Len(queue[u]) : queue[u][i] \in Write
  BY <1>1
<1>3. \A w \in Write : w.val \in Profile /\ w.doc \in Account
  BY DEF Write
<1> QED
  BY <1>1, <1>2, <1>3

\* What a device reads of a profile is a profile or nothing, and nothing only
\* if nothing is stored.
LEMMA DocFits ==
  ASSUME TypeOK, NEW a \in Account
  PROVE  /\ Doc(a) \in Profile \cup {Absent}
         /\ Doc(a) # Absent => Stored(a)
<1>1. Len(queue[user]) \in Nat /\ \A i \in 1 .. Len(queue[user]) : queue[user][i].val \in Profile
  BY QueueFits DEF TypeOK, Users
<1>2. users[a] \in Profile \cup {Absent}
  BY DEF TypeOK
<1>3. \/ Doc(a) = users[a]
      \/ \E i \in 1 .. Len(queue[user]) : queue[user][i].doc = a /\ Doc(a) = queue[user][i].val
  <2>1. \/ View(users, queue[user], a) = users[a]
        \/ \E i \in 1 .. Len(queue[user]) :
             queue[user][i].doc = a /\ View(users, queue[user], a) = queue[user][i].val
    BY <1>1, ViewIsServerOrPending
  <2> QED
    BY <2>1 DEF Doc
<1> QED
  BY <1>1, <1>2, <1>3 DEF Stored

\* What is asked is a read.
LEMMA AskedTypes ==
  ASSUME NEW a \in Account, NEW m \in Account, NEW n \in Nat
  PROVE  \A k \in {"start", "own", "friend", "check"} :
           Asked(k, a, m, n) \in Read /\ Asked(k, a, m, n).kind = k /\ Asked(k, a, m, n).of = a
  BY DEF Asked, Read, Kinds

\* A queue with one more write.
LEMMA Enqueued ==
  ASSUME TypeOK, NEW a \in Account, NEW p \in Profile, NEW k \in Acks, Enqueue(a, p, k)
  PROVE  /\ queue' \in [Users -> Seq(Write)]
         /\ \A u \in Users : u # user => queue'[u] = queue[u]
         /\ Len(queue[user]) \in Nat
         /\ Len(queue'[user]) = Len(queue[user]) + 1
         /\ \A i \in 1 .. Len(queue[user]) : queue'[user][i] = queue[user][i]
         /\ queue'[user][Len(queue[user]) + 1].doc = a
         /\ queue'[user][Len(queue[user]) + 1].ack = k
<1> DEFINE w == [doc |-> a, val |-> p, ack |-> k, n |-> forms]
<1>1. w \in Write
  BY DEF TypeOK, Write
<1>2. queue[user] \in Seq(Write) /\ user \in Users /\ queue \in [Users -> Seq(Write)]
  BY DEF TypeOK, Users
<1>3. queue' = [queue EXCEPT ![user] = Append(@, w)]
  BY DEF Enqueue
<1> HIDE DEF w
<1>4. /\ Append(queue[user], w) \in Seq(Write)
      /\ queue'[user] = Append(queue[user], w)
  BY <1>1, <1>2, <1>3
<1>5. queue' \in [Users -> Seq(Write)]
  BY <1>2, <1>3, <1>4
<1>6. w.doc = a /\ w.ack = k
  BY DEF w
<1> QED
  BY <1>1, <1>2, <1>3, <1>4, <1>5, <1>6

\* An upload keeps the invariant of the queues if its completion may take
\* nobody else in.
LEMMA EnqueueKeeps ==
  ASSUME OwnerInv, HomeInv, NEW a \in Account, NEW p \in Profile, NEW k \in Acks,
         Enqueue(a, p, k), UNCHANGED <<app, users, user, logins>>, logins # 0,
         app = "ios" => k \notin Starts,
         app = "android" /\ logins = 1 /\ user # Nobody /\ k \in Starts => a = user
  PROVE  /\ queue' \in [Users -> Seq(Write)]
         /\ IosAcks'
         /\ \A b \in Account : Stored(b) => Stored(b)'
         /\ Stored(a)'
         /\ app = "android" /\ logins = 1 /\ user # Nobody =>
              \A u \in Users : \A i \in 1 .. Len(queue'[u]) :
                queue'[u][i].ack \in Starts => queue'[u][i].doc = user
<1> USE DEF OwnerInv
<1> DEFINE n == Len(queue[user]) + 1
<1>1. /\ queue' \in [Users -> Seq(Write)]
      /\ \A u \in Users : u # user => queue'[u] = queue[u]
      /\ n - 1 \in Nat /\ Len(queue'[user]) = n /\ user \in Users
      /\ \A i \in 1 .. Len(queue[user]) : queue'[user][i] = queue[user][i]
      /\ queue'[user][n].doc = a /\ queue'[user][n].ack = k
  BY Enqueued DEF TypeOK, Users
<1>2. \A i \in 1 .. n : i = n \/ i \in 1 .. Len(queue[user])
  BY <1>1
<1>3. \A i \in 1 .. Len(queue[user]) : i \in 1 .. n
  BY <1>1
<1>4. n \in 1 .. n
  BY <1>1
<1>5. k \notin Starts => k \in {NoAck, "adopt"}
  BY DEF Acks, Starts
<1> HIDE DEF n
<1>6. IosAcks'
  <2> SUFFICES ASSUME app = "ios", NEW u \in Users, NEW i \in 1 .. Len(queue'[u])
               PROVE  queue'[u][i].ack \in {NoAck, "adopt"}
    BY DEF IosAcks
  <2> QED
    BY <1>1, <1>2, <1>5 DEF IosAcks
<1>7. \A b \in Account : Stored(b) => Stored(b)'
  BY <1>1, <1>3 DEF Stored
<1>8. Stored(a)'
  BY <1>1, <1>4 DEF Stored
<1>9. ASSUME app = "android", logins = 1, user # Nobody, NEW u \in Users,
             NEW i \in 1 .. Len(queue'[u]), queue'[u][i].ack \in Starts
      PROVE  queue'[u][i].doc = user
  <2>1. CASE u # user
    BY <1>1, <1>9, <2>1 DEF HomeInv, AndroidFirst
  <2>2. CASE u = user /\ i = n
    BY <1>1, <1>9, <2>2
  <2>3. CASE u = user /\ i \in 1 .. Len(queue[user])
    BY <1>1, <1>9, <2>3 DEF HomeInv, AndroidFirst
  <2> QED
    BY <1>1, <1>2, <2>1, <2>2, <2>3
<1> QED
  BY <1>1, <1>6, <1>7, <1>8, <1>9

\* What is outstanding when an app starts: nothing, or on Android the two reads
\* of saveGPS for who is signed in already.
LEMMA StartReads ==
  ASSUME Init
  PROVE  \/ user = Nobody /\ logins = 0 /\ reads = {}
         \/ /\ app = "android" /\ user \in Account /\ logins = 1 /\ MaxLogins > 0
            /\ reads # {}
            /\ \A r \in reads : /\ r \in Read /\ r.kind \in Starts
                               /\ r.of = user /\ r.me = user
<1>1. CASE user = Nobody /\ logins = 0 /\ reads = {}
  BY <1>1
<1>2. CASE /\ app = "android" /\ MaxLogins > 0 /\ user \in Account /\ logins = 1
           /\ reads \in {{Asked("start", user, user, 1)},
                         {Asked("start", user, user, 1), Asked("login", user, user, 1)}}
  <2>1. \A r \in reads : r = Asked("start", user, user, 1) \/ r = Asked("login", user, user, 1)
    BY <1>2
  <2>2. \A k \in Starts : /\ Asked(k, user, user, 1) \in Read
                          /\ Asked(k, user, user, 1).kind = k
                          /\ Asked(k, user, user, 1).of = user
                          /\ Asked(k, user, user, 1).me = user
    BY <1>2 DEF Asked, Read, Kinds, Starts
  <2>3. "start" \in Starts /\ "login" \in Starts
    BY DEF Starts
  <2> QED
    BY <1>2, <2>1, <2>2, <2>3
<1> QED
  BY <1>1, <1>2 DEF Init

\* Each app starts on the login screen with nothing queued.
LEMMA InitOwner == Init => OwnerInv /\ HomeInv
<1> SUFFICES ASSUME Init PROVE OwnerInv /\ HomeInv
  OBVIOUS
<1>1. users \in [Account -> Profile \cup {Absent}]
  BY DEF Init
<1>2. saved \in [Account -> Form]
  <2>1. \A a \in Account : users[a] = Absent \/ users[a].form \in Form
    BY <1>1 DEF Profile
  <2> QED
    BY <2>1, Profiles DEF Init
<1>3. queue \in [Users -> Seq(Write)] /\ \A u \in Users : queue[u] = << >>
  BY DEF Init, Users
<1>4. TypeOK
  <2>1. object \in Profile \cup IF app = "ios" THEN {Absent} ELSE {}
    BY Profiles DEF Init
  <2>2. current \in 0 .. MaxLogins /\ logins \in 0 .. MaxLogins
        /\ forms \in 0 .. MaxForms /\ views \in 0 .. MaxViews
    BY OwnerBounds, StartReads DEF Init
  <2>3. app \in Apps /\ located \in BOOLEAN /\ filled \in BOOLEAN /\ failed \in BOOLEAN
        /\ user \in Account \cup {Nobody} /\ reads \subseteq Read
        /\ screen \in {"login", "home", "form", "crashed"}
    BY StartReads DEF Init
  <2> QED
    BY <1>1, <1>2, <1>3, <2>1, <2>2, <2>3 DEF TypeOK, Users
<1>5. SignedIn /\ WelcomeHasObject /\ IosAcks /\ NothingYet
  <2>1. screen = "login"
    BY DEF Init
  <2>2. /\ logins = 0 => user = Nobody /\ reads = {}
        /\ \A r \in reads : r.kind # "welcome"
    BY StartReads DEF Starts
  <2> QED
    BY <1>3, <2>1, <2>2 DEF SignedIn, WelcomeHasObject, IosAcks, NothingYet
<1>6. HomeInv
  <2>1. \A r \in reads : r.of = user
    BY StartReads
  <2> QED
    BY <1>3, <2>1 DEF Init, HomeInv, IosHome, AndroidFirst
<1> QED
  BY <1>4, <1>5, <1>6 DEF OwnerInv

(* Steps that leave the documents and the queues alone *)

\* The first login asks for the profile of whoever signs in (saveGPS).
LEMMA SignInKeeps ==
  ASSUME OwnerInv, HomeInv, NEW a \in Account, SignIn(a) PROVE OwnerInv' /\ HomeInv'
<1> USE DEF OwnerInv
<1>1. TypeOK'
  BY OwnerBounds DEF SignIn, TypeOK, Read, Asked, Kinds
<1>2. SignedIn' /\ WelcomeHasObject' /\ IosAcks' /\ NothingYet'
  BY OwnerBounds DEF SignIn, SignedIn, WelcomeHasObject, IosAcks, NothingYet, TypeOK, Asked
<1>3. IosHome'
  BY DEF SignIn, IosHome
<1>4. AndroidFirst'
  <2> SUFFICES ASSUME app = "android", logins = 0 PROVE AndroidFirst'
    BY DEF SignIn, AndroidFirst, TypeOK
  <2>1. /\ screen' = "login" /\ user' = a
        /\ reads' = {Asked("login", a, a, 1)}
        /\ \A u \in Users : queue'[u] = << >>
    BY DEF SignIn, NothingYet
  <2> QED
    BY <2>1 DEF AndroidFirst, Asked
<1> QED
  BY <1>1, <1>2, <1>3, <1>4 DEF HomeInv

\* Signing out leads to the login screen.
LEMMA SignOutKeeps == ASSUME OwnerInv, HomeInv, SignOut PROVE OwnerInv' /\ HomeInv'
<1> USE DEF OwnerInv
<1>1. TypeOK'
  BY DEF SignOut, TypeOK, counters
<1>2. SignedIn' /\ WelcomeHasObject' /\ IosAcks' /\ NothingYet'
  BY DEF SignOut, SignedIn, WelcomeHasObject, IosAcks, NothingYet, counters
<1>3. HomeInv'
  BY DEF SignOut, HomeInv, IosHome, AndroidFirst
<1> QED
  BY <1>1, <1>2, <1>3

\* The prompt for the location changes nothing else.
LEMMA AuthorizeKeeps == ASSUME OwnerInv, HomeInv, Authorize PROVE OwnerInv' /\ HomeInv'
<1> USE DEF OwnerInv
<1>1. TypeOK'
  BY DEF Authorize, TypeOK, counters
<1>2. SignedIn' /\ WelcomeHasObject' /\ IosAcks' /\ NothingYet'
  BY DEF Authorize, SignedIn, WelcomeHasObject, IosAcks, NothingYet, counters
<1>3. HomeInv'
  BY DEF Authorize, HomeInv, IosHome, AndroidFirst, Checking, Stored, counters
<1> QED
  BY <1>1, <1>2, <1>3

\* WelcomeVC checks for the owner who signed in.
LEMMA WelcomeKeeps == ASSUME OwnerInv, HomeInv, Welcome PROVE OwnerInv' /\ HomeInv'
<1> USE DEF OwnerInv
<1>1. TypeOK'
  BY Profiles DEF Welcome, TypeOK, counters, Asked, Read, Kinds
<1>2. SignedIn' /\ IosAcks' /\ NothingYet'
  BY DEF Welcome, SignedIn, IosAcks, NothingYet, TypeOK, counters
<1>3. WelcomeHasObject'
  BY Profiles DEF Welcome, WelcomeHasObject
<1>4. Checking'
  <2> DEFINE r == Asked("check", user, user, logins)
  <2>1. r \in reads' /\ user' = user /\ logins' = logins
    BY DEF Welcome, counters
  <2> QED
    BY <2>1 DEF Checking, Asked
<1>5. HomeInv'
  BY <1>4 DEF Welcome, HomeInv, IosHome, AndroidFirst
<1> QED
  BY <1>1, <1>2, <1>3, <1>5

(* Steps that ask, answer and change screens *)

\* A step that leaves the documents and the queues, asks for nothing that takes
\* anybody in, and comes to the first screen with a check.
LEMMA QuietKeeps ==
  ASSUME OwnerInv, HomeInv, TypeOK', logins # 0,
         UNCHANGED <<app, users, queue, user, logins>>,
         object' \in {object} \cup Profile,
         \A r \in reads' : r \in reads \/ r.kind \notin Starts \cup {"welcome"},
         screen' \in {"home", "form"} => screen \in {"home", "form"},
         app = "ios" /\ screen' = "home" =>
           Checking' \/ (screen = "home" /\ (Checking => Stored(user)))
  PROVE  OwnerInv' /\ HomeInv'
<1> USE DEF OwnerInv
<1>1. SignedIn' /\ IosAcks' /\ NothingYet'
  BY DEF SignedIn, IosAcks, NothingYet
<1>2. WelcomeHasObject'
  BY Profiles DEF WelcomeHasObject
<1>3. IosHome'
  BY DEF HomeInv, IosHome, Stored
<1>4. AndroidFirst'
  BY DEF HomeInv, AndroidFirst
<1> QED
  BY <1>1, <1>2, <1>3, <1>4 DEF HomeInv

\* A form that is shown is a form of the owner who is signed in.
LEMMA PresentTypes ==
  ASSUME OwnerInv, screen \in {"home", "form"}, NEW R \in SUBSET Read, PresentForm(R)
  PROVE  /\ reads' \subseteq Read /\ forms' \in 0 .. MaxForms
         /\ screen' = "form" /\ filled' = FALSE
         /\ \A r \in reads' : r \in R \/ r.kind = "form"
<1>1. user \in Account /\ forms \in 0 .. MaxForms
  BY DEF OwnerInv, SignedIn, TypeOK
<1> QED
  BY <1>1, OwnerBounds DEF PresentForm, Asked, Read, Kinds

\* Opening the form leaves the first screen.
LEMMA OpenFormKeeps == ASSUME OwnerInv, HomeInv, OpenForm PROVE OwnerInv' /\ HomeInv'
<1>1. reads \in SUBSET Read /\ PresentForm(reads) /\ screen = "home"
  BY DEF OpenForm, OwnerInv, TypeOK
<1>2. /\ reads' \subseteq Read /\ forms' \in 0 .. MaxForms
      /\ screen' = "form" /\ filled' = FALSE
      /\ \A r \in reads' : r \in reads \/ r.kind = "form"
  BY <1>1, PresentTypes
<1>3. TypeOK'
  BY <1>2 DEF OpenForm, OwnerInv, TypeOK
<1>4. logins # 0
  BY <1>1 DEF OwnerInv, NothingYet
<1> QED
  BY <1>1, <1>2, <1>3, <1>4, QuietKeeps DEF OpenForm, Starts

\* A check that finds a profile, or fails, leaves none behind: either one is
\* stored or the form is shown.
LEMMA AnswerCheckKeeps ==
  ASSUME OwnerInv, HomeInv, NEW r \in reads, AnswerCheck(r) PROVE OwnerInv' /\ HomeInv'
<1>1. logins # 0
  BY DEF OwnerInv, NothingYet
<1>2. UNCHANGED <<app, located, users, queue, user, object, current, saved, failed, logins, views>>
  BY DEF AnswerCheck
<1>3. r \in Read /\ reads \ {r} \in SUBSET Read
  BY DEF OwnerInv, TypeOK
<1>4. CASE Doc(r.of) = Absent /\ InFront(r)
  <2>1. PresentForm(reads \ {r}) /\ screen = "home"
    BY <1>4 DEF AnswerCheck, InFront
  <2>2. /\ reads' \subseteq Read /\ forms' \in 0 .. MaxForms
        /\ screen' = "form" /\ filled' = FALSE
        /\ \A x \in reads' : x \in reads \/ x.kind = "form"
    BY <1>3, <2>1, PresentTypes
  <2>3. TypeOK'
    BY <1>2, <2>2 DEF OwnerInv, TypeOK
  <2> QED
    BY <1>1, <1>2, <2>1, <2>2, <2>3, QuietKeeps DEF Starts
<1>5. CASE ~(Doc(r.of) = Absent /\ InFront(r))
  <2>1. reads' = reads \ {r} /\ UNCHANGED <<screen, filled, forms>>
    BY <1>5 DEF AnswerCheck
  <2>2. TypeOK'
    BY <1>2, <2>1 DEF OwnerInv, TypeOK
  <2>3. ASSUME screen = "home", Checking, ~Checking' PROVE Stored(user)
    <3>1. r.of = user /\ r.n = logins
      BY <1>2, <2>1, <2>3 DEF Checking
    <3>2. Doc(user) # Absent /\ user \in Account
      BY <1>3, <1>5, <2>3, <3>1 DEF InFront, Read
    <3> QED
      BY <3>2, DocFits DEF OwnerInv
  <2> QED
    BY <1>1, <1>2, <2>1, <2>2, <2>3, QuietKeeps DEF HomeInv, IosHome
<1> QED
  BY <1>4, <1>5

\* A failed check shows the form, too (isFirstTimeUsing).
LEMMA ReadFailsKeeps ==
  ASSUME OwnerInv, HomeInv, NEW r \in reads, ReadFails(r) PROVE OwnerInv' /\ HomeInv'
<1>1. logins # 0
  BY DEF OwnerInv, NothingYet
<1>2. /\ UNCHANGED <<app, located, users, queue, user, object, current, saved, logins, views>>
      /\ failed' = TRUE
  BY DEF ReadFails
<1>3. r \in Read /\ reads \ {r} \in SUBSET Read
  BY DEF OwnerInv, TypeOK
<1>4. CASE r.kind = "check" /\ InFront(r)
  <2>1. PresentForm(reads \ {r}) /\ screen = "home"
    BY <1>4 DEF ReadFails, InFront
  <2>2. /\ reads' \subseteq Read /\ forms' \in 0 .. MaxForms
        /\ screen' = "form" /\ filled' = FALSE
        /\ \A x \in reads' : x \in reads \/ x.kind = "form"
    BY <1>3, <2>1, PresentTypes
  <2>3. TypeOK'
    BY <1>2, <2>2 DEF OwnerInv, TypeOK
  <2> QED
    BY <1>1, <1>2, <2>1, <2>2, <2>3, QuietKeeps DEF Starts
<1>5. CASE ~(r.kind = "check" /\ InFront(r))
  <2>1. reads' = reads \ {r} /\ UNCHANGED <<screen, filled, forms>>
    BY <1>5 DEF ReadFails
  <2>2. TypeOK'
    BY <1>2, <2>1 DEF OwnerInv, TypeOK
  <2>3. screen = "home" /\ Checking => Checking'
    BY <1>2, <1>5, <2>1 DEF Checking, InFront
  <2> QED
    BY <1>1, <1>2, <2>1, <2>2, <2>3, QuietKeeps
<1> QED
  BY <1>4, <1>5

\* Back on the first screen, iOS checks again.
LEMMA GoHomeTypes ==
  ASSUME OwnerInv, screen = "form", GoHome, UNCHANGED <<app, user, logins>>
  PROVE  /\ reads' \subseteq Read /\ screen' = "home" /\ filled' = FALSE
         /\ \A r \in reads' : r \in reads \/ r.kind = "check"
         /\ reads \subseteq reads'
         /\ app = "ios" => Checking'
<1>1. user \in Account /\ logins \in Nat /\ reads \subseteq Read
  BY OwnerBounds DEF OwnerInv, SignedIn, TypeOK
<1> DEFINE check == Asked("check", user, user, logins)
<1>2. check \in Read /\ check.kind = "check" /\ check.of = user /\ check.n = logins
  BY <1>1 DEF Asked, Read, Kinds
<1>3. reads' = IF app = "ios" THEN reads \cup {check} ELSE reads
  BY DEF GoHome
<1> HIDE DEF check
<1> QED
  BY <1>1, <1>2, <1>3 DEF GoHome, Checking

\* Leaving the form comes to the first screen with a new check.
LEMMA LeaveFormKeeps == ASSUME OwnerInv, HomeInv, LeaveForm PROVE OwnerInv' /\ HomeInv'
<1>1. /\ screen = "form" /\ GoHome
      /\ UNCHANGED <<app, located, users, queue, user, object, current, saved,
                     failed, logins, forms, views>>
  BY DEF LeaveForm, counters
<1>2. /\ reads' \subseteq Read /\ screen' = "home" /\ filled' = FALSE
      /\ \A r \in reads' : r \in reads \/ r.kind = "check"
      /\ app = "ios" => Checking'
  BY <1>1, GoHomeTypes
<1>3. TypeOK'
  BY <1>1, <1>2 DEF OwnerInv, TypeOK
<1>4. logins # 0
  BY <1>1 DEF OwnerInv, NothingYet
<1> QED
  BY <1>1, <1>2, <1>3, <1>4, QuietKeeps DEF Starts

\* Android's way back to the login screen.
LEMMA BackToLoginKeeps == ASSUME OwnerInv, HomeInv, BackToLogin PROVE OwnerInv' /\ HomeInv'
<1>1. TypeOK' /\ logins # 0
  BY DEF BackToLogin, OwnerInv, TypeOK, NothingYet, counters
<1> QED
  BY <1>1, QuietKeeps DEF BackToLogin, counters

\* The form's own download touches the form only.
LEMMA AnswerFormIosKeeps ==
  ASSUME OwnerInv, HomeInv, NEW r \in reads, AnswerFormIos(r) PROVE OwnerInv' /\ HomeInv'
<1>1. TypeOK' /\ logins # 0
  BY DEF AnswerFormIos, OwnerInv, TypeOK, NothingYet, counters
<1>2. Checking => Checking'
  BY DEF AnswerFormIos, Checking, counters
<1> QED
  BY <1>1, <1>2, QuietKeeps DEF AnswerFormIos, counters

\* Android shows profiles from the first screen.
LEMMA ViewsKeep ==
  ASSUME OwnerInv, HomeInv, ReloadOwn \/ \E a \in Account : ViewFriend(a)
  PROVE  OwnerInv' /\ HomeInv'
<1>1. user \in Account /\ views \in Nat /\ logins # 0
  BY OwnerBounds DEF OwnerInv, TypeOK, NothingYet, ReloadOwn, ViewFriend
<1>2. PICK x \in Read : x.kind \in {"own", "friend"} /\ reads' = reads \cup {x}
  <2>1. CASE ReloadOwn
    <3>1. reads' = reads \cup {Asked("own", user, user, views + 1)}
      BY <2>1 DEF ReloadOwn
    <3> QED
      BY <1>1, <3>1, AskedTypes
  <2>2. ASSUME NEW a \in Account, ViewFriend(a)
        PROVE  \E x \in Read : x.kind \in {"own", "friend"} /\ reads' = reads \cup {x}
    <3>1. reads' = reads \cup {Asked("friend", a, user, views + 1)}
      BY <2>2 DEF ViewFriend
    <3> QED
      BY <1>1, <3>1, AskedTypes
  <2> QED
    BY <2>1, <2>2
<1>3. /\ app = "android" /\ views' \in 0 .. MaxViews
      /\ UNCHANGED <<app, located, users, queue, user, screen, object, current, filled,
                     saved, failed, logins, forms>>
  BY OwnerBounds DEF ReloadOwn, ViewFriend, OwnerInv, TypeOK
<1>4. TypeOK'
  BY <1>2, <1>3 DEF OwnerInv, TypeOK
<1> QED
  BY <1>1, <1>2, <1>3, <1>4, QuietKeeps DEF Starts

(* Steps that upload *)

\* A step that uploads a profile and shows the same screen.
LEMMA UploadKeeps ==
  ASSUME OwnerInv, HomeInv, logins # 0,
         NEW a \in Account, NEW p \in Profile, NEW k \in Acks, Enqueue(a, p, k),
         UNCHANGED <<app, located, users, user, screen, current, filled, failed,
                     logins, forms, views>>,
         object' \in {object} \cup Profile, saved' \in [Account -> Form],
         reads' \subseteq reads, Checking => Checking',
         app = "ios" => k \notin Starts,
         app = "android" /\ logins = 1 /\ user # Nobody /\ k \in Starts => a = user
  PROVE  OwnerInv' /\ HomeInv'
<1>1. /\ queue' \in [Users -> Seq(Write)]
      /\ IosAcks'
      /\ \A b \in Account : Stored(b) => Stored(b)'
      /\ app = "android" /\ logins = 1 /\ user # Nobody =>
           \A u \in Users : \A i \in 1 .. Len(queue'[u]) :
             queue'[u][i].ack \in Starts => queue'[u][i].doc = user
  BY EnqueueKeeps
<1>2. TypeOK'
  BY <1>1 DEF OwnerInv, TypeOK, Users
<1>3. SignedIn' /\ NothingYet'
  BY DEF OwnerInv, SignedIn, NothingYet
<1>4. WelcomeHasObject'
  BY Profiles DEF OwnerInv, WelcomeHasObject
<1>5. IosHome'
  <2> SUFFICES ASSUME app = "ios", screen = "home" PROVE Checking' \/ Stored(user)'
    BY DEF IosHome
  <2>1. user \in Account
    BY DEF OwnerInv, SignedIn
  <2>2. Checking \/ Stored(user)
    BY DEF HomeInv, IosHome
  <2>3. Stored(user) => Stored(user)'
    BY <1>1, <2>1 DEF Stored
  <2> QED
    BY <2>2, <2>3
<1>6. AndroidFirst'
  BY <1>1 DEF HomeInv, AndroidFirst
<1> QED
  BY <1>1, <1>2, <1>3, <1>4, <1>5, <1>6 DEF OwnerInv, HomeInv

\* What an owner saves is a form.
LEMMA SavedTypes ==
  ASSUME OwnerInv, screen = "form"
  PROVE  /\ user \in Account /\ Edited \in Form /\ logins # 0
         /\ [saved EXCEPT ![user] = Edited] \in [Account -> Form]
<1>1. user \in Account /\ forms \in 0 .. MaxForms /\ saved \in [Account -> Form]
  BY DEF OwnerInv, SignedIn, TypeOK
<1>2. Edited \in Form
  BY <1>1 DEF Edited, Form
<1> QED
  BY <1>1, <1>2 DEF OwnerInv, NothingYet

\* tapUploadProfile stores a profile of the owner who is signed in.
LEMMA SaveIosKeeps == ASSUME OwnerInv, HomeInv, SaveIos PROVE OwnerInv' /\ HomeInv'
<1>1. screen = "form"
  BY DEF SaveIos, MaySave
<1>2. PICK l \in Places(Default) : Enqueue(user, [form |-> Edited, loc |-> l], "adopt")
  BY DEF SaveIos
<1>3. l \in Account \cup {Nowhere, Here}
  BY DEF Places, Default
<1>4. [form |-> Edited, loc |-> l] \in Profile /\ "adopt" \in Acks /\ "adopt" \notin Starts
  BY <1>1, <1>3, SavedTypes DEF Profile, Acks, Starts
<1>5. UNCHANGED <<app, located, users, reads, user, screen, object, current,
                  filled, failed, logins, forms, views>>
      /\ saved' \in [Account -> Form]
  BY <1>1, SavedTypes DEF SaveIos, counters
<1>6. Checking => Checking'
  BY <1>5 DEF Checking
<1> QED
  BY <1>1, <1>2, <1>4, <1>5, <1>6, SavedTypes, UploadKeeps

\* saveData uploads the singleton with what the form says.
LEMMA SaveAndroidKeeps == ASSUME OwnerInv, HomeInv, SaveAndroid PROVE OwnerInv' /\ HomeInv'
<1>1. screen = "form" /\ app = "android"
  BY DEF SaveAndroid, MaySave
<1>2. object' = [object EXCEPT !.form = Edited] /\ object \in Profile
  BY <1>1 DEF SaveAndroid, OwnerInv, TypeOK
<1>3. object' \in Profile
  BY <1>1, <1>2, SavedTypes, Profiles
<1>4. Enqueue(user, object', NoAck) /\ NoAck \in Acks /\ NoAck \notin Starts
  BY DEF SaveAndroid, Acks, Starts, NoAck
<1>5. UNCHANGED <<app, located, users, reads, user, screen, current,
                  filled, failed, logins, forms, views>>
      /\ saved' \in [Account -> Form]
  BY <1>1, SavedTypes DEF SaveAndroid, counters
<1>6. Checking => Checking'
  BY <1>5 DEF Checking
<1> QED
  BY <1>1, <1>3, <1>4, <1>5, <1>6, SavedTypes, UploadKeeps

\* The silent upload of WelcomeVC keeps what is stored.
LEMMA AnswerWelcomeKeeps ==
  ASSUME OwnerInv, HomeInv, NEW r \in reads, AnswerWelcome(r) PROVE OwnerInv' /\ HomeInv'
<1> DEFINE loaded == IF current = r.n /\ Doc(r.of) # Absent THEN Doc(r.of) ELSE object
<1>1. r.kind = "welcome" /\ r.of \in Account /\ logins # 0
  BY DEF AnswerWelcome, OwnerInv, NothingYet, TypeOK, Read
<1>2. loaded \in Profile
  <2>1. object \in Profile
    BY <1>1 DEF OwnerInv, TypeOK, WelcomeHasObject
  <2> QED
    BY <1>1, <2>1, DocFits DEF OwnerInv
<1>3. /\ UNCHANGED <<app, located, users, user, screen, current, filled, saved,
                     failed, logins, forms, views>>
      /\ reads' = reads \ {r}
  BY DEF AnswerWelcome, counters
<1>4. Checking => Checking'
  BY <1>1, <1>3 DEF Checking
<1>5. saved' \in [Account -> Form]
  BY <1>3 DEF OwnerInv, TypeOK
<1>6. CASE located /\ user # Nobody
  <2>1. PICK l \in Places(loaded) :
          object' = [loaded EXCEPT !.loc = l] /\ Enqueue(user, object', NoAck)
    BY <1>6 DEF AnswerWelcome
  <2>2. l \in Account \cup {Nowhere, Here}
    BY <1>2 DEF Places, Profile
  <2>3. object' \in Profile
    BY <1>2, <2>1, <2>2, Profiles
  <2>4. NoAck \in Acks /\ NoAck \notin Starts /\ user \in Account
    BY <1>6 DEF Acks, Starts, NoAck, OwnerInv, TypeOK
  <2> QED
    BY <1>1, <1>3, <1>4, <1>5, <2>1, <2>3, <2>4, UploadKeeps
<1>7. CASE ~(located /\ user # Nobody)
  <2>1. object' = loaded /\ UNCHANGED queue
    BY <1>7 DEF AnswerWelcome
  <2>2. TypeOK'
    BY <1>2, <1>3, <2>1 DEF OwnerInv, TypeOK
  <2> QED
    BY <1>1, <1>2, <1>3, <1>4, <2>1, <2>2, QuietKeeps
<1> QED
  BY <1>6, <1>7

(* Android: everything is downloaded into the singleton *)

\* The app ends when the profile it downloads is missing.
LEMMA CrashKeeps ==
  ASSUME OwnerInv, HomeInv, logins # 0, screen' = "crashed", reads' = {},
         UNCHANGED <<app, located, users, queue, user, object, current, filled, saved,
                     failed, logins, forms, views>>
  PROVE  OwnerInv' /\ HomeInv'
<1>1. TypeOK'
  BY DEF OwnerInv, TypeOK
<1> QED
  BY <1>1, QuietKeeps

\* saveGPS uploads for the owner who was signed in when it was asked.
LEMMA AnswerGpsKeeps ==
  ASSUME OwnerInv, HomeInv, NEW r \in reads, AnswerGps(r) PROVE OwnerInv' /\ HomeInv'
<1>1. /\ r.kind \in Starts /\ r.of \in Account /\ logins # 0
      /\ app = "android" /\ screen # "crashed"
      /\ UNCHANGED <<app, located, users, user, current, saved, failed, logins, forms, views>>
  BY DEF AnswerGps, Downloads, OwnerInv, NothingYet, TypeOK, Read, Starts, counters
<1>2. CASE Doc(r.of) = Absent
  BY <1>1, <1>2, CrashKeeps DEF AnswerGps, Downloads
<1>3. CASE Doc(r.of) # Absent
  <2>1. /\ object' = [Doc(r.of) EXCEPT !.loc = IF located THEN Here ELSE Nowhere]
        /\ Enqueue(r.of, object', r.kind)
        /\ reads' = reads \ {r} /\ UNCHANGED <<screen, filled>>
    BY <1>3 DEF AnswerGps, Downloads, SaveGps
  <2>2. object' \in Profile
    <3>1. Doc(r.of) \in Profile
      BY <1>1, <1>3, DocFits DEF OwnerInv
    <3> QED
      BY <2>1, <3>1, Profiles
  <2>3. r.kind \in Acks
    BY <1>1 DEF Acks, Starts
  <2>4. app = "android" /\ logins = 1 /\ user # Nobody /\ r.kind \in Starts => r.of = user
    BY DEF HomeInv, AndroidFirst
  <2>5. Checking => Checking'
    BY <1>1, <2>1 DEF Checking, Starts
  <2>6. saved' \in [Account -> Form]
    BY <1>1 DEF OwnerInv, TypeOK
  <2> QED
    BY <1>1, <2>1, <2>2, <2>3, <2>4, <2>5, <2>6, UploadKeeps
<1> QED
  BY <1>2, <1>3

\* The other downloads only fill the object.
LEMMA FillKeeps ==
  ASSUME OwnerInv, HomeInv, NEW r \in reads,
         AnswerFriend(r) \/ AnswerOwn(r) \/ AnswerFormAndroid(r)
  PROVE  OwnerInv' /\ HomeInv'
<1>1. /\ r \in Read /\ r.of \in Account /\ r.me \in Account /\ r.n \in Nat
      /\ logins # 0 /\ app = "android"
      /\ UNCHANGED <<app, located, users, user, current, saved, failed, logins, forms, views>>
  BY DEF AnswerFriend, AnswerOwn, AnswerFormAndroid, Downloads, OwnerInv, NothingYet,
         TypeOK, Read, counters
<1>2. CASE Doc(r.of) = Absent
  BY <1>1, <1>2, CrashKeeps DEF AnswerFriend, AnswerOwn, AnswerFormAndroid, Downloads
<1>3. CASE Doc(r.of) # Absent
  <2> DEFINE own == Asked("own", r.me, r.me, r.n)
  <2>1. /\ object' = Doc(r.of) /\ UNCHANGED <<queue, screen>>
        /\ filled' \in {filled, filled \/ Shown(r)}
        /\ reads' \in {(reads \ {r}) \cup {own}, (reads \ {r}) \cup {}}
    BY <1>3 DEF AnswerFriend, AnswerOwn, AnswerFormAndroid, Downloads, FillObject
  <2>2. object' \in Profile
    BY <1>1, <1>3, <2>1, DocFits DEF OwnerInv
  <2>3. own \in Read /\ own.kind = "own"
    BY <1>1, AskedTypes
  <2> HIDE DEF own
  <2>4. reads' \subseteq Read /\ \A x \in reads' : x \in reads \/ x = own
    BY <2>1, <2>3 DEF OwnerInv, TypeOK
  <2>5. filled' \in BOOLEAN
    BY <2>1 DEF OwnerInv, TypeOK
  <2>6. TypeOK'
    BY <1>1, <2>1, <2>2, <2>4, <2>5 DEF OwnerInv, TypeOK
  <2> QED
    BY <1>1, <2>1, <2>2, <2>3, <2>4, <2>6, QuietKeeps DEF Starts
<1> QED
  BY <1>2, <1>3

(* A write reaches the server *)

\* What a step like Flush does to documents and queues keeps what is stored.
LEMMA FlushStores ==
  ASSUME OwnerInv, HomeInv, queue[user] # << >>, NEW w, w = Head(queue[user]),
         users' = [users EXCEPT ![w.doc] = w.val],
         queue' = [queue EXCEPT ![user] = Tail(@)],
         UNCHANGED <<app, user, logins>>
  PROVE  /\ logins # 0 /\ w \in Write /\ w.val \in Profile /\ w.doc \in Account
         /\ w = queue[user][1] /\ 1 \in 1 .. Len(queue[user])
         /\ users' \in [Account -> Profile \cup {Absent}]
         /\ users'[w.doc] = w.val
         /\ queue' \in [Users -> Seq(Write)]
         /\ \A b \in Account : users[b] # Absent => users'[b] # Absent
         /\ \A b \in Account : Stored(b) => Stored(b)'
         /\ \A u \in Users : \A i \in 1 .. Len(queue'[u]) :
              \E j \in 1 .. Len(queue[u]) : queue'[u][i] = queue[u][j]
<1> DEFINE q == queue[user]
<1>1. /\ user \in Users /\ users \in [Account -> Profile \cup {Absent}]
      /\ queue \in [Users -> Seq(Write)]
  BY DEF OwnerInv, TypeOK, Users
<1>2. logins # 0
  BY <1>1 DEF OwnerInv, NothingYet
<1>3. /\ q \in Seq(Write) /\ Len(q) \in Nat \ {0} /\ w = q[1] /\ w \in Write
      /\ w.val \in Profile /\ w.doc \in Account
      /\ Tail(q) \in Seq(Write) /\ Len(Tail(q)) = Len(q) - 1
      /\ \A i \in 1 .. Len(Tail(q)) : Tail(q)[i] = q[i + 1]
  <2>1. q \in Seq(Write) /\ q # << >>
    BY <1>1
  <2>2. Len(q) \in Nat \ {0} /\ w = q[1] /\ w \in Write
    BY <2>1
  <2> QED
    BY <2>1, <2>2 DEF Write
<1>4. queue'[user] = Tail(q) /\ \A u \in Users : u # user => queue'[u] = queue[u]
  BY <1>1
<1>5. queue' \in [Users -> Seq(Write)]
  BY <1>1, <1>3
<1>6. /\ users' \in [Account -> Profile \cup {Absent}] /\ users'[w.doc] = w.val
      /\ \A b \in Account : b # w.doc => users'[b] = users[b]
  BY <1>1, <1>3
<1>7. \A b \in Account : users[b] # Absent => users'[b] # Absent
  BY <1>3, <1>6, Profiles
<1>8. ASSUME NEW b \in Account, Stored(b) PROVE Stored(b)'
  <2>1. CASE users[b] # Absent
    BY <1>7, <2>1 DEF Stored
  <2>2. ASSUME NEW i \in 1 .. Len(q), q[i].doc = b PROVE Stored(b)'
    <3>1. CASE i = 1
      BY <1>3, <1>6, <2>2, <3>1, Profiles DEF Stored
    <3>2. CASE i # 1
      <4>1. i - 1 \in 1 .. Len(Tail(q)) /\ Tail(q)[i - 1] = q[i]
        BY <1>3, <3>2
      <4>2. i - 1 \in 1 .. Len(queue'[user']) /\ queue'[user'][i - 1].doc = b
        BY <1>4, <2>2, <4>1
      <4> QED
        BY <4>2 DEF Stored
    <3> QED
      BY <3>1, <3>2
  <2> QED
    BY <1>8, <2>1, <2>2 DEF Stored
<1>9. ASSUME NEW u \in Users, NEW i \in 1 .. Len(queue'[u])
      PROVE  \E j \in 1 .. Len(queue[u]) : queue'[u][i] = queue[u][j]
  <2>1. CASE u # user
    BY <1>4, <2>1
  <2>2. CASE u = user
    <3>1. i \in 1 .. Len(Tail(q)) /\ queue'[u][i] = Tail(q)[i]
      BY <1>4, <1>9, <2>2
    <3>2. i + 1 \in 1 .. Len(q) /\ queue'[u][i] = q[i + 1]
      BY <1>3, <3>1
    <3> QED
      BY <2>2, <3>2
  <2> QED
    BY <2>1, <2>2
<1> QED
  BY <1>2, <1>3, <1>5, <1>6, <1>7, <1>8, <1>9

\* On iOS only the owner's own form comes back to the first screen, and checks;
\* on Android an upload for whom the login was does.
LEMMA FlushKeeps == ASSUME OwnerInv, HomeInv, Flush PROVE OwnerInv' /\ HomeInv'
<1> DEFINE w == Head(queue[user])
<1>1. /\ queue[user] # << >> /\ screen # "crashed"
      /\ users' = [users EXCEPT ![w.doc] = w.val]
      /\ queue' = [queue EXCEPT ![user] = Tail(@)]
      /\ UNCHANGED <<app, located, user, saved, failed, logins, forms, views>>
  BY DEF Flush, counters
<1>2. /\ logins # 0 /\ w \in Write /\ w.val \in Profile /\ w.doc \in Account
      /\ w = queue[user][1] /\ 1 \in 1 .. Len(queue[user])
      /\ users' \in [Account -> Profile \cup {Absent}]
      /\ users'[w.doc] = w.val
      /\ queue' \in [Users -> Seq(Write)]
      /\ \A b \in Account : users[b] # Absent => users'[b] # Absent
      /\ \A b \in Account : Stored(b) => Stored(b)'
      /\ \A u \in Users : \A i \in 1 .. Len(queue'[u]) :
           \E j \in 1 .. Len(queue[u]) : queue'[u][i] = queue[u][j]
  BY <1>1, FlushStores
<1>3. user \in Users
  BY DEF OwnerInv, TypeOK, Users
<1>4. \/ w.ack = NoAck /\ UNCHANGED <<reads, screen, object, current, filled>>
      \/ /\ w.ack = "adopt" /\ object' = w.val /\ current' = 0
         /\ IF Shown(w) THEN GoHome ELSE UNCHANGED <<screen, filled, reads>>
      \/ /\ w.ack \in Starts /\ UNCHANGED <<object, current>>
         /\ filled' \in BOOLEAN
         /\ \/ user = Nobody /\ screen' = "crashed" /\ reads' = {}
            \/ /\ user # Nobody /\ screen' = screen
               /\ reads' = reads \cup {Asked("start", user, user, logins)}
            \/ /\ user # Nobody /\ w.ack = "start" /\ screen' = "home" /\ UNCHANGED reads
  <2>1. w.ack \in {NoAck, "login", "start", "adopt"}
    BY <1>2 DEF Write, Acks
  <2>2. filled \in BOOLEAN
    BY DEF OwnerInv, TypeOK
  <2>3. CASE w.ack = NoAck
    BY <2>3 DEF Flush, NoAck
  <2>4. CASE w.ack = "adopt"
    BY <2>4 DEF Flush, NoAck
  <2>5. CASE w.ack = "login"
    BY <2>2, <2>5 DEF Flush, NoAck, Starts
  <2>6. CASE w.ack = "start"
    BY <2>6 DEF Flush, NoAck, Starts
  <2> QED
    BY <2>1, <2>3, <2>4, <2>5, <2>6
<1> HIDE DEF w
<1>5. /\ reads' \subseteq Read /\ filled' \in BOOLEAN
      /\ screen' \in {"login", "home", "form", "crashed"}
      /\ current' \in 0 .. MaxLogins
      /\ object' \in {object} \cup Profile
      /\ \A r \in reads' : r \in reads \/ r.kind = "check" \/ (r.kind = "start" /\ r.of = user)
      /\ screen' \in {"home", "form"} =>
           screen \in {"home", "form"} \/ (user # Nobody /\ w.ack = "start")
      /\ app = "ios" /\ screen' = "home" =>
           Checking' \/ (screen = "home" /\ (Checking => Checking')) \/ w.ack \in Starts
  <2>1. /\ reads \subseteq Read /\ filled \in BOOLEAN /\ logins \in Nat
        /\ screen \in {"login", "home", "form", "crashed"}
        /\ current \in 0 .. MaxLogins /\ 0 \in 0 .. MaxLogins
    BY OwnerBounds DEF OwnerInv, TypeOK
  <2>2. CASE w.ack = NoAck /\ UNCHANGED <<reads, screen, object, current, filled>>
    BY <1>1, <2>1, <2>2 DEF Checking
  <2>3. CASE w.ack = "adopt" /\ ~Shown(w) /\ object' = w.val /\ current' = 0
             /\ UNCHANGED <<screen, filled, reads>>
    BY <1>1, <1>2, <2>1, <2>3 DEF Checking
  <2>4. CASE w.ack = "adopt" /\ Shown(w) /\ object' = w.val /\ current' = 0 /\ GoHome
    <3>1. screen = "form"
      BY <2>4 DEF Shown
    <3>2. /\ reads' \subseteq Read /\ screen' = "home" /\ filled' = FALSE
          /\ \A r \in reads' : r \in reads \/ r.kind = "check"
          /\ app = "ios" => Checking'
      BY <1>1, <2>4, <3>1, GoHomeTypes
    <3> QED
      BY <1>2, <2>1, <2>4, <3>1, <3>2
  <2>5. CASE /\ w.ack \in Starts /\ UNCHANGED <<object, current>> /\ filled' \in BOOLEAN
             /\ user = Nobody /\ screen' = "crashed" /\ reads' = {}
    BY <2>1, <2>5
  <2>6. CASE /\ w.ack \in Starts /\ UNCHANGED <<object, current>> /\ filled' \in BOOLEAN
             /\ user # Nobody /\ screen' = screen
             /\ reads' = reads \cup {Asked("start", user, user, logins)}
    <3>1. user \in Account
      BY <1>3, <2>6 DEF Users
    <3>2. /\ Asked("start", user, user, logins) \in Read
          /\ Asked("start", user, user, logins).kind = "start"
          /\ Asked("start", user, user, logins).of = user
      BY <2>1, <3>1, AskedTypes
    <3> QED
      BY <2>1, <2>6, <3>2
  <2>7. CASE /\ w.ack \in Starts /\ UNCHANGED <<object, current>> /\ filled' \in BOOLEAN
             /\ user # Nobody /\ w.ack = "start" /\ screen' = "home" /\ UNCHANGED reads
    BY <2>1, <2>7
  <2> QED
    BY <1>4, <2>2, <2>3, <2>4, <2>5, <2>6, <2>7
<1>6. TypeOK'
  BY <1>1, <1>2, <1>5 DEF OwnerInv, TypeOK, Users
<1>7. SignedIn' /\ NothingYet'
  BY <1>1, <1>2, <1>3, <1>5 DEF OwnerInv, SignedIn, NothingYet, Users
<1>8. WelcomeHasObject'
  BY <1>5, Profiles DEF OwnerInv, WelcomeHasObject
<1>9. IosAcks'
  BY <1>1, <1>2 DEF OwnerInv, IosAcks, Users
<1>10. IosHome'
  <2> SUFFICES ASSUME app = "ios", screen' = "home" PROVE Checking' \/ Stored(user)'
    BY <1>1 DEF IosHome
  <2>1. w.ack \notin Starts
    BY <1>2, <1>3 DEF OwnerInv, IosAcks, Starts, NoAck, Users
  <2>2. Checking' \/ (screen = "home" /\ (Checking => Checking'))
    BY <1>5, <2>1
  <2>3. screen = "home" => (Stored(user) => Stored(user)')
    BY <1>1, <1>2 DEF OwnerInv, SignedIn, Stored
  <2> QED
    BY <2>2, <2>3 DEF HomeInv, IosHome
<1>11. AndroidFirst'
  <2> SUFFICES ASSUME app = "android", logins = 1 PROVE AndroidFirst'
    BY <1>1 DEF AndroidFirst
  <2>1. ASSUME screen' \in {"home", "form"} PROVE users'[user] # Absent
    <3>1. CASE screen \in {"home", "form"}
      BY <1>2, <3>1 DEF OwnerInv, SignedIn, HomeInv, AndroidFirst
    <3>2. CASE user # Nobody /\ w.ack = "start"
      <4>1. w.doc = user
        BY <1>2, <1>3, <3>2 DEF HomeInv, AndroidFirst, Starts
      <4> QED
        BY <1>2, <4>1, Profiles
    <3> QED
      BY <1>5, <2>1, <3>1, <3>2
  <2>2. ASSUME user # Nobody, NEW r \in reads', r.kind \in Starts PROVE r.of = user
    BY <1>5, <2>2 DEF HomeInv, AndroidFirst, Starts
  <2>3. ASSUME user # Nobody, NEW u \in Users, NEW i \in 1 .. Len(queue'[u]),
               queue'[u][i].ack \in Starts
        PROVE  queue'[u][i].doc = user
    BY <1>2, <2>3 DEF HomeInv, AndroidFirst
  <2> QED
    BY <1>1, <2>1, <2>2, <2>3 DEF AndroidFirst
<1> QED
  BY <1>6, <1>7, <1>8, <1>9, <1>10, <1>11 DEF OwnerInv, HomeInv

\* Every step of login, form and silent upload keeps the invariants.
LEMMA NextOwner == OwnerInv /\ HomeInv /\ [Next]_vars => OwnerInv' /\ HomeInv'
<1> SUFFICES ASSUME OwnerInv, HomeInv, [Next]_vars PROVE OwnerInv' /\ HomeInv'
  OBVIOUS
<1>1. ASSUME NEW a \in Account, SignIn(a) PROVE OwnerInv' /\ HomeInv'
  BY <1>1, SignInKeeps
<1>2. ASSUME NEW a \in Account, ViewFriend(a) PROVE OwnerInv' /\ HomeInv'
  BY <1>2, ViewsKeep
<1>3. CASE SignOut \/ Authorize \/ Welcome \/ OpenForm \/ LeaveForm
  BY <1>3, SignOutKeeps, AuthorizeKeeps, WelcomeKeeps, OpenFormKeeps, LeaveFormKeeps
<1>4. CASE SaveIos \/ SaveAndroid \/ ReloadOwn \/ BackToLogin
  BY <1>4, SaveIosKeeps, SaveAndroidKeeps, ViewsKeep, BackToLoginKeeps
<1>5. CASE Flush
  BY <1>5, FlushKeeps
<1>6. ASSUME NEW r \in reads,
             AnswerWelcome(r) \/ AnswerCheck(r) \/ AnswerFormIos(r) \/ AnswerGps(r)
      PROVE  OwnerInv' /\ HomeInv'
  BY <1>6, AnswerWelcomeKeeps, AnswerCheckKeeps, AnswerFormIosKeeps, AnswerGpsKeeps
<1>7. ASSUME NEW r \in reads,
             AnswerFriend(r) \/ AnswerOwn(r) \/ AnswerFormAndroid(r) \/ ReadFails(r)
      PROVE  OwnerInv' /\ HomeInv'
  BY <1>7, FillKeeps, ReadFailsKeeps
<1>8. CASE UNCHANGED vars
  <2>1. TypeOK' /\ SignedIn' /\ WelcomeHasObject' /\ IosAcks' /\ NothingYet'
    BY <1>8 DEF vars, OwnerInv, TypeOK, SignedIn, WelcomeHasObject, IosAcks, NothingYet
  <2>2. IosHome' /\ AndroidFirst'
    BY <1>8 DEF vars, HomeInv, IosHome, AndroidFirst, Checking, Stored
  <2> QED
    BY <2>1, <2>2 DEF OwnerInv, HomeInv
<1> QED
  BY <1>1, <1>2, <1>3, <1>4, <1>5, <1>6, <1>7, <1>8 DEF Next

\* The state of login and profile keeps its types through every handler of
\* WelcomeVC, the form and OwnerProfile.
THEOREM OwnerTypeOK == Spec => []TypeOK
<1>1. OwnerInv /\ HomeInv => TypeOK
  BY DEF OwnerInv
<1> QED
  BY <1>1, InitOwner, NextOwner, PTL DEF Spec

\* Nobody stays on the first screen without a profile: leaving the forced form
\* checks again (WelcomeVC.viewWillAppear), and Android reaches the first screen
\* through an upload only (MainActivity.checkLoggedIn).
THEOREM NobodyWithoutProfile == Spec => []HomeHasProfile
<1>1. OwnerInv /\ HomeInv => HomeHasProfile
  <2> SUFFICES ASSUME OwnerInv, HomeInv, app = "ios" \/ logins = 1,
                      screen = "home", reads = {}, queue[user] = << >>
               PROVE  users[user] # Absent
    BY DEF HomeHasProfile
  <2>1. CASE app = "ios"
    BY <2>1 DEF HomeInv, IosHome, Checking, Stored
  <2>2. CASE app = "android" /\ logins = 1
    BY <2>2 DEF HomeInv, AndroidFirst
  <2> QED
    BY <2>1, <2>2 DEF OwnerInv, TypeOK, Apps
<1> QED
  BY <1>1, InitOwner, NextOwner, PTL DEF Spec

----------------------------------------------------------------------------
(* The first login: the saved form and the object *)

\* Only the user of the first login has writes of their own.
OwnQueue == user # Nobody => \A x \in Users \ {user} : queue[x] = << >>

\* A saved form is what the phone sees of its owner's profile; or it was left in
\* the queue of somebody who has signed out.
Holds(a) == Doc(a) # Absent /\ Doc(a).form = saved[a]
Left(a) == user = Nobody /\ \E x \in Account : PendingOn(queue[x], a) # {}
SavedHolds == \A a \in Account : saved[a] # NoForm => Holds(a) \/ Left(a)

\* Which reads and completions each app has.
IosKinds == {"welcome", "check", "form"}
AppReads == \A r \in reads : IF app = "ios" THEN r.kind \in IosKinds ELSE r.kind \notin {"welcome", "check"}
AndroidAcks ==
  app = "android" => \A x \in Users :
    \A i \in 1 .. Len(queue[x]) : queue[x][i].ack # "adopt"

\* iOS: an acknowledged form is the first one, and it is the one that was saved;
\* WelcomeVC downloads the profile of its own login.
FirstForm == [by |-> user, n |-> 1]
IosFirst ==
  app = "ios" =>
    /\ logins = 0 => object = Absent /\ current = 0
    /\ screen = "form" => forms >= 1
    /\ user # Nobody =>
         /\ current \in {0, logins}
         /\ current = 0 /\ object # Absent => object.form = FirstForm /\ saved[user] = FirstForm
         /\ \A r \in reads : r.kind = "welcome" => r.of = user /\ r.n = logins
         /\ \A i \in 1 .. Len(queue[user]) : queue[user][i].ack = "adopt" =>
              /\ queue[user][i].doc = user
              /\ queue[user][i].val.form = FirstForm /\ saved[user] = FirstForm

\* iOS: the object has the form of the profile, or will have it.
Welcoming == \E r \in reads : r.kind = "welcome"
Adopting == \E i \in 1 .. Len(queue[user]) : queue[user][i].ack = "adopt"
IosObject ==
  app = "ios" /\ user # Nobody /\ screen \in {"home", "form"} /\ ~failed =>
    Welcoming \/ Adopting \/ Doc(user) = Absent \/ object.form = Doc(user).form

\* Android: every read ends with the profile of who is signed in.
AndroidObject ==
  app = "android" /\ user # Nobody =>
    /\ \A r \in reads : r.me = user /\ (r.kind # "friend" => r.of = user)
    /\ ~failed /\ screen # "crashed" => reads # {} \/ object = Doc(user)

FirstOk ==
  /\ OwnQueue /\ SavedHolds /\ AppReads /\ AndroidAcks
  /\ IosFirst /\ IosObject /\ AndroidObject

FirstInv == FirstLogin => FirstOk

\* What an upload does to what the phone sees, and to the queues.
LEMMA EnqueueDocs ==
  ASSUME OwnerInv, NEW a \in Account, NEW p \in Profile, NEW k \in Acks, Enqueue(a, p, k),
         UNCHANGED <<users, user>>
  PROVE  \A b \in Account : Doc(b)' = IF a = b THEN p ELSE Doc(b)
<1> DEFINE w == [doc |-> a, val |-> p, ack |-> k, n |-> forms]
<1>1. w \in Write /\ w.doc = a /\ w.val = p
  BY DEF OwnerInv, TypeOK, Write
<1>2. queue[user] \in Seq(Write) /\ queue'[user] = Append(queue[user], w)
  BY DEF OwnerInv, TypeOK, Enqueue
<1> HIDE DEF w
<1>3. \A b \in Account :
        View(users, Append(queue[user], w), b) = IF w.doc = b THEN w.val ELSE View(users, queue[user], b)
  BY <1>1, <1>2, ViewAppend
<1> QED BY <1>1, <1>2, <1>3 DEF Doc

\* A step that leaves documents and queues leaves what the phone sees.
LEMMA SameDocs ==
  ASSUME FirstOk, UNCHANGED <<app, users, queue, user, saved>>
  PROVE  /\ OwnQueue' /\ SavedHolds' /\ AndroidAcks'
         /\ \A b \in Account : Doc(b)' = Doc(b)
<1>1. \A b \in Account : Doc(b)' = Doc(b)
  BY DEF Doc
<1>2. SavedHolds'
  BY <1>1 DEF FirstOk, SavedHolds, Holds, Left
<1> QED BY <1>1, <1>2 DEF FirstOk, OwnQueue, AndroidAcks

\* A step that also leaves the object: no download ends but on iOS one of a check
\* or of a form, and what is asked is for whoever is signed in.
LEMMA QuietFirst ==
  ASSUME FirstOk, UNCHANGED <<app, users, queue, user, saved, object, current, logins>>,
         app \in Apps,
         app = "ios" => \A r \in reads' : r \in reads \/ r.kind \in {"check", "form"},
         app = "android" => \A r \in reads' :
           \/ r \in reads
           \/ r.kind \in {"own", "friend", "form"} /\ r.me = user /\ (r.kind # "friend" => r.of = user),
         app = "ios" /\ screen' = "form" => forms' >= 1,
         screen' \in {"home", "form"} => screen \in {"home", "form"},
         ~failed' => ~failed,
         app = "ios" /\ ~failed' => \A r \in reads : r \in reads' \/ r.kind # "welcome",
         app = "android" /\ ~failed' /\ screen' # "crashed" => screen # "crashed" /\ reads \subseteq reads'
  PROVE  FirstOk'
<1>1. /\ OwnQueue' /\ SavedHolds' /\ AndroidAcks'
      /\ \A b \in Account : Doc(b)' = Doc(b)
  BY SameDocs
<1>2. Doc(user)' = Doc(user)
  BY DEF Doc
<1>3. AppReads'
  BY DEF FirstOk, AppReads, IosKinds, Apps
<1>4. IosFirst'
  BY DEF FirstOk, IosFirst, FirstForm
<1>5. IosObject'
  <2> SUFFICES ASSUME app = "ios", user # Nobody, screen' \in {"home", "form"}, ~failed'
               PROVE  Welcoming' \/ Adopting' \/ Doc(user)' = Absent \/ object.form = Doc(user)'.form
    BY DEF IosObject
  <2>1. Welcoming \/ Adopting \/ Doc(user) = Absent \/ object.form = Doc(user).form
    BY DEF FirstOk, IosObject
  <2>2. Welcoming => Welcoming'
    BY DEF Welcoming
  <2>3. Adopting => Adopting'
    BY DEF Adopting
  <2> QED BY <1>2, <2>1, <2>2, <2>3
<1>6. AndroidObject'
  BY <1>2 DEF FirstOk, AndroidObject
<1> QED BY <1>1, <1>3, <1>4, <1>5, <1>6 DEF FirstOk

\* When an app starts there is nothing but what the server holds, and on Android
\* the reads for who is signed in.
LEMMA InitFirst == Init => FirstInv
<1> SUFFICES ASSUME Init PROVE FirstOk
  BY DEF FirstInv
<1>1. \A x \in Users : queue[x] = << >>
  BY DEF Init, Users
<1>2. /\ screen = "login" /\ forms = 0
      /\ user \in Users /\ app \in Apps
      /\ app = "ios" => user = Nobody /\ reads = {}
      /\ \A r \in reads : r.kind \in Starts
  BY StartReads DEF Init, Users
<1>3. \A a \in Account : Doc(a) = users[a]
  <2>1. queue[user] = << >>
    BY <1>1, <1>2 DEF Users
  <2>2. \A a \in Account : PendingOn(queue[user], a) = {}
    BY <2>1 DEF PendingOn
  <2> QED BY <2>2 DEF Doc, View
<1>4. SavedHolds
  <2>1. \A a \in Account : saved[a] = IF users[a] = Absent THEN NoForm ELSE users[a].form
    BY DEF Init
  <2> QED BY <1>3, <2>1 DEF SavedHolds, Holds
<1>5. AndroidAcks
  BY <1>1 DEF AndroidAcks
<1>6. app = "ios" => object = Absent /\ current = 0
  BY DEF Init
<1>7. OwnQueue
  BY <1>1 DEF OwnQueue
<1>8. AppReads
  BY <1>2 DEF AppReads, Apps, Starts
<1>9. IosFirst /\ IosObject
  BY <1>2, <1>6 DEF IosFirst, IosObject
<1>10. AndroidObject
  <2>1. user # Nobody => reads # {} /\ \A r \in reads : r.me = user /\ r.of = user
    BY StartReads
  <2> QED BY <2>1 DEF AndroidObject
<1> QED BY <1>4, <1>5, <1>7, <1>8, <1>9, <1>10 DEF FirstOk

\* The first to sign in: on iOS WelcomeVC is next, Android asks for the profile.
LEMMA SignInFirst ==
  ASSUME OwnerInv, FirstOk, NEW a \in Account, SignIn(a), logins' <= 1 PROVE FirstOk'
<1>1. /\ logins = 0 /\ logins' = 1 /\ screen' = "login" /\ screen = "login" /\ user = Nobody
      /\ reads = {} /\ user' = a /\ app \in Apps
      /\ \A x \in Users : queue[x] = << >>
      /\ UNCHANGED <<app, users, queue, object, current, saved, failed>>
  <2>1. logins = 0
    BY OwnerBounds DEF SignIn, OwnerInv, TypeOK
  <2> QED BY <2>1 DEF SignIn, OwnerInv, NothingYet, TypeOK
<1>2. reads' = IF app = "ios" THEN {} ELSE {Asked("login", a, a, 1)}
  BY <1>1 DEF SignIn
<1>3. queue[a] = << >> /\ queue[Nobody] = << >>
  BY <1>1 DEF Users
<1>4. \A b \in Account : Doc(b)' = users[b] /\ Doc(b) = users[b]
  <2>1. \A b \in Account : PendingOn(<< >>, b) = {}
    BY DEF PendingOn
  <2> QED BY <1>1, <1>3, <2>1 DEF Doc, View
<1>5. SavedHolds'
  <2>1. \A b \in Account : ~Left(b)
    <3>1. \A x \in Account : queue[x] = << >>
      BY <1>1 DEF Users
    <3> QED BY <3>1 DEF Left, PendingOn
  <2> QED BY <1>1, <1>4, <2>1 DEF FirstOk, SavedHolds, Holds
<1>6. OwnQueue' /\ AndroidAcks'
  BY <1>1 DEF OwnQueue, AndroidAcks
<1>7. AppReads'
  BY <1>1, <1>2 DEF AppReads, Asked, Apps
<1>8. IosFirst'
  <2> SUFFICES ASSUME app = "ios" PROVE IosFirst'
    BY <1>1 DEF IosFirst
  <2>1. object' = Absent /\ current' = 0 /\ reads' = {} /\ queue'[user'] = << >>
    BY <1>1, <1>2, <1>3 DEF FirstOk, IosFirst
  <2> QED BY <1>1, <2>1 DEF IosFirst
<1>9. IosObject'
  BY <1>1 DEF IosObject
<1>10. AndroidObject'
  BY <1>1, <1>2 DEF AndroidObject, Asked
<1> QED BY <1>5, <1>6, <1>7, <1>8, <1>9, <1>10 DEF FirstOk

\* Who signs out leaves their writes in their own queue.
LEMMA SignOutFirst == ASSUME OwnerInv, FirstOk, SignOut PROVE FirstOk'
<1>1. /\ user # Nobody /\ user' = Nobody /\ screen' = "login"
      /\ UNCHANGED <<app, users, queue, reads, object, current, saved, failed, logins, forms>>
  BY DEF SignOut, counters
<1>2. queue[Nobody] = << >> /\ user \in Account
  BY <1>1 DEF FirstOk, OwnQueue, OwnerInv, TypeOK, Users
<1>3. \A b \in Account : Doc(b)' = users[b]
  <2>1. \A b \in Account : PendingOn(<< >>, b) = {}
    BY DEF PendingOn
  <2> QED BY <1>1, <1>2, <2>1 DEF Doc, View
<1>4. SavedHolds'
  <2> SUFFICES ASSUME NEW b \in Account, saved[b] # NoForm PROVE Holds(b)' \/ Left(b)'
    BY <1>1 DEF SavedHolds
  <2>1. Holds(b)
    BY <1>1 DEF FirstOk, SavedHolds, Left
  <2>2. CASE PendingOn(queue[user], b) # {}
    BY <1>1, <1>2, <2>2 DEF Left
  <2>3. CASE PendingOn(queue[user], b) = {}
    <3>1. Doc(b) = users[b]
      BY <2>3 DEF Doc, View
    <3> QED BY <1>1, <1>3, <2>1, <3>1 DEF Holds
  <2> QED BY <2>2, <2>3
<1> QED BY <1>1, <1>4
    DEF FirstOk, OwnQueue, AppReads, AndroidAcks, IosFirst, IosObject, AndroidObject

\* The screens that ask and answer without touching the object.
LEMMA ScreensFirst ==
  ASSUME OwnerInv, HomeInv, FirstOk,
         \/ Authorize \/ OpenForm \/ LeaveForm \/ ReloadOwn \/ BackToLogin
         \/ \E a \in Account : ViewFriend(a)
  PROVE  FirstOk'
<1>1. app \in Apps /\ logins \in Nat /\ forms \in Nat /\ (screen \in {"home", "form"} => user \in Account)
  BY OwnerBounds DEF OwnerInv, TypeOK, SignedIn
<1>2. CASE Authorize
  BY <1>1, <1>2, QuietFirst DEF Authorize, counters, FirstOk, IosFirst
<1>3. CASE BackToLogin
  BY <1>1, <1>3, QuietFirst DEF BackToLogin, counters, Apps
<1>4. CASE OpenForm
  <2> DEFINE r == Asked("form", user, user, forms + 1)
  <2>1. r.kind = "form" /\ r.me = user /\ r.of = user
    BY DEF Asked
  <2>2. /\ screen = "home" /\ forms' = forms + 1 /\ reads' = reads \cup {r} /\ screen' = "form"
        /\ UNCHANGED <<app, users, queue, user, saved, object, current, logins, failed>>
    BY <1>4 DEF OpenForm, PresentForm
  <2> HIDE DEF r
  <2>3. forms' >= 1
    BY <1>1, <2>2
  <2> QED BY <1>1, <2>1, <2>2, <2>3, QuietFirst
<1>5. CASE LeaveForm
  <2> DEFINE r == Asked("check", user, user, logins)
  <2>1. r.kind = "check"
    BY DEF Asked
  <2>2. /\ screen = "form" /\ screen' = "home"
        /\ reads' = IF app = "ios" THEN reads \cup {r} ELSE reads
        /\ UNCHANGED <<app, users, queue, user, saved, object, current, logins, failed>>
    BY <1>5 DEF LeaveForm, GoHome, counters
  <2> HIDE DEF r
  <2> QED BY <1>1, <2>1, <2>2, QuietFirst DEF Apps
<1>6. ASSUME ReloadOwn \/ \E a \in Account : ViewFriend(a)
      PROVE  FirstOk'
  <2>1. PICK r : /\ r.kind \in {"own", "friend"} /\ r.me = user /\ (r.kind # "friend" => r.of = user)
                 /\ reads' = reads \cup {r}
    <3>1. CASE ReloadOwn
      BY <3>1 DEF ReloadOwn, Asked
    <3>2. ASSUME NEW a \in Account, ViewFriend(a)
          PROVE  reads' = reads \cup {Asked("friend", a, user, views + 1)}
      BY <3>2 DEF ViewFriend
    <3>3. \A a \in Account : LET r == Asked("friend", a, user, views + 1)
                             IN  r.kind = "friend" /\ r.me = user
      BY DEF Asked
    <3> QED BY <1>6, <3>1, <3>2, <3>3
  <2>2. /\ app = "android" /\ screen' = screen /\ screen = "home"
        /\ UNCHANGED <<app, users, queue, user, saved, object, current, logins, failed>>
    BY <1>6 DEF ReloadOwn, ViewFriend
  <2> QED BY <1>1, <2>1, <2>2, QuietFirst
<1> QED BY <1>2, <1>3, <1>4, <1>5, <1>6

\* The checks of WelcomeVC and the form's own download, and a read that fails.
LEMMA ChecksFirst ==
  ASSUME OwnerInv, FirstOk, NEW r \in reads,
         AnswerCheck(r) \/ AnswerFormIos(r) \/ ReadFails(r)
  PROVE  FirstOk'
<1>1. app \in Apps /\ logins \in Nat /\ forms \in Nat
  BY OwnerBounds DEF OwnerInv, TypeOK
<1>2. app = "ios" /\ screen = "form" => forms >= 1
  BY DEF FirstOk, IosFirst
<1>3. IF app = "ios" THEN r.kind \in IosKinds ELSE r.kind \notin {"welcome", "check"}
  BY DEF FirstOk, AppReads
<1>4. CASE AnswerFormIos(r)
  BY <1>1, <1>2, <1>4, QuietFirst DEF AnswerFormIos, counters
<1> DEFINE x == Asked("form", user, user, forms + 1)
<1>5. x.kind = "form" /\ x.me = user /\ x.of = user
  BY DEF Asked
<1>6. InFront(r) => screen = "home"
  BY DEF InFront
<1>7. CASE AnswerCheck(r)
  <2>1. /\ r.kind = "check"
        /\ UNCHANGED <<app, users, queue, user, saved, object, current, logins, failed>>
        /\ \/ /\ InFront(r) /\ screen' = "form" /\ forms' = forms + 1
              /\ reads' = (reads \ {r}) \cup {x}
           \/ reads' = reads \ {r} /\ UNCHANGED <<screen, forms>>
    BY <1>7 DEF AnswerCheck, PresentForm
  <2> HIDE DEF x
  <2>2. app = "ios" /\ (screen' = "form" => forms' >= 1)
    BY <1>1, <1>2, <1>3, <2>1 DEF Apps
  <2> QED BY <1>1, <1>5, <1>6, <2>1, <2>2, QuietFirst
<1>8. CASE ReadFails(r)
  <2>1. /\ UNCHANGED <<app, users, queue, user, saved, object, current, logins>> /\ failed' = TRUE
        /\ \/ /\ InFront(r) /\ r.kind = "check" /\ screen' = "form" /\ forms' = forms + 1
              /\ reads' = (reads \ {r}) \cup {x}
           \/ reads' = reads \ {r} /\ UNCHANGED <<screen, forms>>
    BY <1>8 DEF ReadFails, PresentForm
  <2> HIDE DEF x
  <2>2. app = "ios" /\ screen' = "form" => forms' >= 1
    BY <1>1, <1>2, <2>1
  <2>3. screen' \in {"home", "form"} => screen \in {"home", "form"}
    BY <1>6, <2>1
  <2>4. app = "android" => reads' = reads \ {r}
    BY <1>3, <2>1
  <2>5. app = "ios" => \A y \in reads' : y \in reads \/ y.kind \in {"check", "form"}
    BY <1>5, <2>1
  <2> QED BY <1>1, <2>1, <2>2, <2>3, <2>4, <2>5, QuietFirst
<1> QED BY <1>4, <1>7, <1>8

\* iOS: WelcomeVC makes a new object and downloads it.
LEMMA WelcomeFirst == ASSUME OwnerInv, FirstOk, Welcome PROVE FirstOk'
<1> DEFINE x == Asked("welcome", user, user, logins)
           y == Asked("check", user, user, logins)
<1>1. /\ app = "ios" /\ screen = "login" /\ user # Nobody /\ screen' = "home"
      /\ current' = logins /\ reads' = reads \cup {x, y}
      /\ UNCHANGED <<app, users, queue, user, saved, failed, logins, forms>>
  BY DEF Welcome, counters
<1>2. x.kind = "welcome" /\ x.of = user /\ x.n = logins /\ y.kind = "check"
  BY DEF Asked
<1> HIDE DEF x, y
<1>3. /\ OwnQueue' /\ SavedHolds' /\ AndroidAcks'
  BY <1>1, SameDocs
<1>4. AppReads'
  BY <1>1, <1>2 DEF FirstOk, AppReads, IosKinds
<1>5. logins # 0
  BY <1>1 DEF OwnerInv, NothingYet
<1>6. IosFirst'
  BY <1>1, <1>2, <1>5 DEF FirstOk, IosFirst, FirstForm
<1>7. IosObject' /\ AndroidObject'
  BY <1>1, <1>2 DEF IosObject, Welcoming, AndroidObject
<1> QED BY <1>3, <1>4, <1>6, <1>7 DEF FirstOk

(* Uploads of the first login *)

\* An upload by whoever is signed in carries the form that is saved.
LEMMA EnqueueFirst ==
  ASSUME OwnerInv, FirstOk, NEW a \in Account, NEW p \in Profile, NEW k \in Acks, Enqueue(a, p, k),
         UNCHANGED <<app, users, user>>,
         saved'[a] # NoForm => p.form = saved'[a] \/ (saved'[a] = saved[a] /\ Left(a)),
         \A b \in Account : b # a => saved'[b] = saved[b],
         app = "android" => k # "adopt"
  PROVE  OwnQueue' /\ SavedHolds' /\ AndroidAcks' /\ Doc(a)' = p
<1> DEFINE n == Len(queue[user]) + 1
<1>1. /\ \A x \in Users : x # user => queue'[x] = queue[x]
      /\ user \in Users /\ Len(queue[user]) \in Nat /\ Len(queue'[user]) = n
      /\ \A i \in 1 .. Len(queue[user]) : queue'[user][i] = queue[user][i]
      /\ queue'[user][n].ack = k
  BY Enqueued DEF OwnerInv, TypeOK, Users
<1>2. \A i \in 1 .. n : i = n \/ i \in 1 .. Len(queue[user])
  BY <1>1
<1> HIDE DEF n
<1>3. \A b \in Account : Doc(b)' = IF a = b THEN p ELSE Doc(b)
  BY EnqueueDocs
<1>4. OwnQueue'
  BY <1>1 DEF FirstOk, OwnQueue, Users
<1>5. \A b \in Account : Left(b) => Left(b)'
  <2> SUFFICES ASSUME NEW b \in Account, user = Nobody, NEW x \in Account, PendingOn(queue[x], b) # {}
               PROVE  \E y \in Account : PendingOn(queue'[y], b) # {}
    BY DEF Left
  <2>1. x # user /\ x \in Users
    BY NobodyAssumption DEF Users
  <2> QED BY <1>1, <2>1
<1>6. SavedHolds'
  <2> SUFFICES ASSUME NEW b \in Account, saved'[b] # NoForm PROVE Holds(b)' \/ Left(b)'
    BY DEF SavedHolds
  <2>1. CASE b = a
    BY <1>3, <1>5, <2>1, Profiles DEF Holds
  <2>2. CASE b # a
    BY <1>3, <1>5, <2>2 DEF FirstOk, SavedHolds, Holds
  <2> QED BY <2>1, <2>2
<1>7. AndroidAcks'
  <2> SUFFICES ASSUME app = "android", NEW x \in Users, NEW i \in 1 .. Len(queue'[x])
               PROVE  queue'[x][i].ack # "adopt"
    BY DEF AndroidAcks
  <2> QED BY <1>1, <1>2 DEF FirstOk, AndroidAcks
<1> QED BY <1>3, <1>4, <1>6, <1>7

\* The writes after an upload.
LEMMA QueueAfter ==
  ASSUME OwnerInv, NEW a \in Account, NEW p \in Profile, NEW k \in Acks, Enqueue(a, p, k)
  PROVE  /\ \A i \in 1 .. Len(queue'[user]) :
              \/ i \in 1 .. Len(queue[user]) /\ queue'[user][i] = queue[user][i]
              \/ /\ queue'[user][i].ack = k /\ queue'[user][i].doc = a
                 /\ queue'[user][i].val = p
         /\ \A i \in 1 .. Len(queue[user]) :
              i \in 1 .. Len(queue'[user]) /\ queue'[user][i] = queue[user][i]
         /\ \E i \in 1 .. Len(queue'[user]) : queue'[user][i].ack = k
<1> DEFINE w == [doc |-> a, val |-> p, ack |-> k, n |-> forms]
           q == queue[user]
<1>1. w \in Write /\ w.doc = a /\ w.val = p /\ w.ack = k
  BY DEF OwnerInv, TypeOK, Write
<1>2. q \in Seq(Write) /\ queue'[user] = Append(q, w)
  BY DEF OwnerInv, TypeOK, Enqueue
<1> HIDE DEF w, q
<1>3. /\ Len(Append(q, w)) = Len(q) + 1 /\ Len(q) \in Nat
      /\ \A i \in 1 .. Len(q) : Append(q, w)[i] = q[i]
      /\ Append(q, w)[Len(q) + 1] = w
  BY <1>1, <1>2
<1>4. /\ \A i \in 1 .. Len(q) + 1 : i \in 1 .. Len(q) \/ i = Len(q) + 1
      /\ Len(q) + 1 \in 1 .. Len(q) + 1
      /\ \A i \in 1 .. Len(q) : i \in 1 .. Len(q) + 1
  BY <1>3
<1> QED BY <1>1, <1>2, <1>3, <1>4 DEF q

\* tapUploadProfile: the form is the first one, and no other was saved.
LEMMA SaveIosFirst ==
  ASSUME OwnerInv, FirstOk, SaveIos, forms <= 1 PROVE FirstOk'
<1>1. /\ app = "ios" /\ screen = "form" /\ saved[user] # Edited
      /\ UNCHANGED <<app, users, reads, user, screen, object, current, failed, logins, forms>>
  BY DEF SaveIos, MaySave, counters
<1>2. user \in Account /\ user # Nobody /\ Edited \in Form /\ Edited # NoForm
  BY <1>1, SavedTypes, NobodyAssumption DEF Edited, NoForm
<1>3. forms = 1 /\ Edited = FirstForm
  BY <1>1 DEF FirstOk, IosFirst, Edited, FirstForm, OwnerInv, TypeOK
<1>4. PICK l \in Places(Default) : Enqueue(user, [form |-> Edited, loc |-> l], "adopt")
  BY DEF SaveIos
<1> DEFINE p == [form |-> Edited, loc |-> l]
<1>5. p \in Profile /\ p.form = FirstForm /\ "adopt" \in Acks /\ Enqueue(user, p, "adopt")
  BY <1>2, <1>3, <1>4 DEF Places, Default, Profile, Acks
<1> HIDE DEF p
<1>6. /\ saved' = [saved EXCEPT ![user] = FirstForm] /\ saved'[user] = FirstForm
      /\ \A b \in Account : b # user => saved'[b] = saved[b]
  BY <1>2, <1>3 DEF SaveIos, OwnerInv, TypeOK
<1>7. OwnQueue' /\ SavedHolds' /\ AndroidAcks'
  BY <1>1, <1>2, <1>5, <1>6, EnqueueFirst
<1>8. /\ \A i \in 1 .. Len(queue'[user]) :
           \/ i \in 1 .. Len(queue[user]) /\ queue'[user][i] = queue[user][i]
           \/ queue'[user][i].doc = user /\ queue'[user][i].val = p
      /\ \E i \in 1 .. Len(queue'[user]) : queue'[user][i].ack = "adopt"
  BY <1>2, <1>5, QueueAfter
<1>9. \A i \in 1 .. Len(queue[user]) : queue[user][i].ack # "adopt"
  BY <1>1, <1>2, <1>3 DEF FirstOk, IosFirst
<1>10. ~(current = 0 /\ object # Absent)
  BY <1>1, <1>2, <1>3 DEF FirstOk, IosFirst
<1>11. IosFirst'
  BY <1>1, <1>2, <1>5, <1>6, <1>8, <1>9, <1>10 DEF FirstOk, IosFirst, FirstForm
<1>12. IosObject' /\ AndroidObject' /\ AppReads'
  BY <1>1, <1>8 DEF FirstOk, IosObject, Adopting, AndroidObject, AppReads
<1> QED BY <1>7, <1>11, <1>12 DEF FirstOk

\* saveData: the singleton is uploaded as it then is.
LEMMA SaveAndroidFirst == ASSUME OwnerInv, FirstOk, SaveAndroid PROVE FirstOk'
<1>1. /\ app = "android" /\ screen = "form"
      /\ UNCHANGED <<app, users, reads, user, screen, current, failed, logins, forms>>
  BY DEF SaveAndroid, MaySave, counters
<1>2. user \in Account /\ Edited \in Form
  BY <1>1, SavedTypes
<1>3. object \in Profile
  BY <1>1 DEF OwnerInv, TypeOK
<1>4. object' = [object EXCEPT !.form = Edited] /\ Enqueue(user, object', NoAck)
  BY DEF SaveAndroid
<1>5. object' \in Profile /\ object'.form = Edited /\ NoAck \in Acks /\ NoAck # "adopt"
  BY <1>2, <1>3, <1>4, Profiles DEF Profile, Acks, NoAck
<1>6. saved'[user] = Edited /\ \A b \in Account : b # user => saved'[b] = saved[b]
  BY <1>2 DEF SaveAndroid, OwnerInv, TypeOK
<1>7. OwnQueue' /\ SavedHolds' /\ AndroidAcks' /\ Doc(user)' = object'
  <2> DEFINE p == object'
  <2>1. p \in Profile /\ p.form = Edited /\ Enqueue(user, p, NoAck)
    BY <1>4, <1>5
  <2> HIDE DEF p
  <2>2. OwnQueue' /\ SavedHolds' /\ AndroidAcks' /\ Doc(user)' = p
    BY <1>1, <1>2, <1>5, <1>6, <2>1, EnqueueFirst
  <2> QED BY <2>2 DEF p
<1>8. AndroidObject'
  <2>1. Doc(user)' = object'
    BY <1>7
  <2> QED BY <1>1, <2>1 DEF FirstOk, AndroidObject
<1>9. AppReads' /\ IosFirst' /\ IosObject'
  BY <1>1 DEF FirstOk, AppReads, IosFirst, IosObject
<1> QED BY <1>7, <1>8, <1>9 DEF FirstOk

\* The silent upload of WelcomeVC: the downloaded profile, or the saved one.
LEMMA AnswerWelcomeFirst ==
  ASSUME OwnerInv, FirstOk, NEW r \in reads, AnswerWelcome(r) PROVE FirstOk'
<1> DEFINE loaded == IF current = r.n /\ Doc(r.of) # Absent THEN Doc(r.of) ELSE object
<1>1. /\ r.kind = "welcome" /\ r.of \in Account /\ logins # 0 /\ app = "ios"
      /\ UNCHANGED <<app, users, user, screen, current, saved, failed, logins, forms>>
      /\ reads' = reads \ {r}
  BY DEF AnswerWelcome, OwnerInv, NothingYet, TypeOK, Read, FirstOk, AppReads, counters, Apps
<1>2. object \in Profile /\ object # Absent
  BY <1>1, Profiles DEF OwnerInv, TypeOK, WelcomeHasObject
<1>3. loaded \in Profile
  BY <1>1, <1>2, DocFits DEF OwnerInv
<1>4. ASSUME user # Nobody
      PROVE  /\ r.of = user /\ user \in Account /\ r.n = logins
             /\ saved[user] # NoForm => Doc(user) # Absent /\ Doc(user).form = saved[user]
             /\ Doc(user) = Absent \/ loaded.form = Doc(user).form
             /\ saved[user] # NoForm => loaded.form = saved[user]
             /\ current = 0 => loaded = object /\ object.form = FirstForm /\ saved[user] = FirstForm
  <2>1. r.of = user /\ user \in Account /\ r.n = logins /\ current \in {0, logins}
    BY <1>1, <1>4 DEF FirstOk, IosFirst
  <2>2. saved[user] # NoForm => Doc(user) # Absent /\ Doc(user).form = saved[user]
    BY <1>4, <2>1 DEF FirstOk, SavedHolds, Holds, Left
  <2>3. current = 0 => loaded = object /\ object.form = FirstForm /\ saved[user] = FirstForm
    BY <1>1, <1>2, <1>4, <2>1 DEF FirstOk, IosFirst
  <2>4. FirstForm # NoForm
    BY <1>4 DEF FirstForm, NoForm
  <2>5. current # 0 => Doc(user) = Absent \/ loaded = Doc(user)
    BY <2>1
  <2> HIDE DEF loaded
  <2> QED BY <2>1, <2>2, <2>3, <2>4, <2>5
<1>5. OwnQueue' /\ SavedHolds' /\ AndroidAcks' /\ IosFirst' /\ IosObject'
  <2>1. CASE located /\ user # Nobody
    <3>1. PICK l \in Places(loaded) :
            object' = [loaded EXCEPT !.loc = l] /\ Enqueue(user, object', NoAck)
      BY <2>1 DEF AnswerWelcome
    <3>2. l \in Account \cup {Nowhere, Here}
      BY <1>3 DEF Places, Profile
    <3> DEFINE p == [loaded EXCEPT !.loc = l]
    <3>3. p \in Profile /\ p.form = loaded.form /\ object' = p /\ Enqueue(user, p, NoAck)
      BY <1>3, <3>1, <3>2, Profiles DEF Profile
    <3> HIDE DEF p, loaded
    <3>4. NoAck \in Acks /\ NoAck # "adopt"
      BY DEF Acks, NoAck
    <3>5. OwnQueue' /\ SavedHolds' /\ AndroidAcks' /\ Doc(user)' = p
      BY <1>1, <1>4, <2>1, <3>3, <3>4, EnqueueFirst
    <3>6. \A i \in 1 .. Len(queue'[user]) :
            \/ i \in 1 .. Len(queue[user]) /\ queue'[user][i] = queue[user][i]
            \/ queue'[user][i].ack = NoAck
      BY <1>4, <2>1, <3>3, <3>4, QueueAfter
    <3>7. IosFirst'
      BY <1>1, <1>4, <2>1, <3>3, <3>4, <3>6 DEF FirstOk, IosFirst, FirstForm
    <3>8. IosObject'
      BY <1>1, <3>3, <3>5 DEF IosObject
    <3> QED BY <3>5, <3>7, <3>8
  <2>2. CASE ~(located /\ user # Nobody)
    <3>1. object' = loaded /\ UNCHANGED queue
      BY <2>2 DEF AnswerWelcome
    <3> HIDE DEF loaded
    <3>2. OwnQueue' /\ SavedHolds' /\ AndroidAcks' /\ \A b \in Account : Doc(b)' = Doc(b)
      BY <1>1, <3>1, SameDocs
    <3>3. IosFirst'
      BY <1>1, <1>4, <3>1 DEF FirstOk, IosFirst, FirstForm
    <3>4. IosObject'
      BY <1>1, <1>4, <3>1, <3>2 DEF IosObject
    <3> QED BY <3>2, <3>3, <3>4
  <2> QED BY <2>1, <2>2
<1>6. AppReads' /\ AndroidObject'
  BY <1>1 DEF FirstOk, AppReads, AndroidObject
<1> QED BY <1>5, <1>6 DEF FirstOk

\* saveGPS uploads what was downloaded, with the place only changed.
LEMMA AnswerGpsFirst ==
  ASSUME OwnerInv, FirstOk, NEW r \in reads, AnswerGps(r) PROVE FirstOk'
<1>1. /\ r.kind \in {"login", "start"} /\ r.of \in Account
      /\ app = "android" /\ screen # "crashed"
      /\ UNCHANGED <<app, users, user, current, saved, failed, logins, forms>>
  BY DEF AnswerGps, Downloads, OwnerInv, TypeOK, Read, counters
<1>2. AppReads' /\ IosFirst' /\ IosObject'
  <2>1. reads' \subseteq reads
    BY DEF AnswerGps, Downloads, SaveGps
  <2> QED BY <1>1, <2>1 DEF FirstOk, AppReads, IosFirst, IosObject
<1>3. CASE Doc(r.of) = Absent
  <2>1. screen' = "crashed" /\ reads' = {} /\ UNCHANGED <<queue, object>>
    BY <1>3 DEF AnswerGps, Downloads
  <2>2. OwnQueue' /\ SavedHolds' /\ AndroidAcks'
    BY <1>1, <2>1, SameDocs
  <2>3. AndroidObject'
    BY <2>1 DEF AndroidObject
  <2> QED BY <1>2, <2>2, <2>3 DEF FirstOk
<1>4. CASE Doc(r.of) # Absent
  <2> DEFINE p == [Doc(r.of) EXCEPT !.loc = IF located THEN Here ELSE Nowhere]
  <2>1. object' = p /\ Enqueue(r.of, p, r.kind) /\ reads' = reads \ {r} /\ UNCHANGED screen
    BY <1>4 DEF AnswerGps, Downloads, SaveGps
  <2>2. Doc(r.of) \in Profile
    BY <1>1, <1>4, DocFits DEF OwnerInv
  <2>3. p \in Profile /\ p.form = Doc(r.of).form
    BY <2>2, Profiles DEF Profile
  <2>4. r.kind \in Acks /\ r.kind # "adopt"
    BY <1>1 DEF Acks
  <2> HIDE DEF p
  <2>5. saved'[r.of] # NoForm => p.form = saved'[r.of] \/ (saved'[r.of] = saved[r.of] /\ Left(r.of))
    BY <1>1, <2>3 DEF FirstOk, SavedHolds, Holds
  <2>6. OwnQueue' /\ SavedHolds' /\ AndroidAcks' /\ Doc(r.of)' = p
    BY <1>1, <2>1, <2>3, <2>4, <2>5, EnqueueFirst
  <2>7. AndroidObject'
    <3> SUFFICES ASSUME user # Nobody PROVE AndroidObject'
      BY <1>1 DEF AndroidObject
    <3>1. r.of = user /\ \A x \in reads' : x.me = user /\ (x.kind # "friend" => x.of = user)
      BY <1>1, <2>1 DEF FirstOk, AndroidObject
    <3>2. Doc(user)' = p
      BY <1>1, <2>6, <3>1 DEF Doc
    <3> QED BY <1>1, <2>1, <3>1, <3>2 DEF AndroidObject
  <2> QED BY <1>2, <2>6, <2>7 DEF FirstOk
<1> QED BY <1>3, <1>4

\* Android's other downloads: a friend's profile is followed by the own one.
LEMMA FillFirst ==
  ASSUME OwnerInv, FirstOk, NEW r \in reads,
         AnswerFriend(r) \/ AnswerOwn(r) \/ AnswerFormAndroid(r)
  PROVE  FirstOk'
<1> DEFINE own == Asked("own", r.me, r.me, r.n)
<1>1. /\ app = "android" /\ screen # "crashed" /\ r.of \in Account
      /\ UNCHANGED <<app, users, user, current, saved, failed, logins, forms>>
  BY DEF AnswerFriend, AnswerOwn, AnswerFormAndroid, Downloads, OwnerInv, TypeOK, Read, counters
<1>2. own.kind = "own" /\ own.me = r.me /\ own.of = r.me
  BY DEF Asked
<1>3. CASE Doc(r.of) = Absent
  <2>1. screen' = "crashed" /\ reads' = {} /\ UNCHANGED <<queue, object>>
    BY <1>3 DEF AnswerFriend, AnswerOwn, AnswerFormAndroid, Downloads
  <2>2. OwnQueue' /\ SavedHolds' /\ AndroidAcks'
    BY <1>1, <2>1, SameDocs
  <2>3. AndroidObject' /\ AppReads' /\ IosFirst' /\ IosObject'
    BY <1>1, <2>1 DEF AndroidObject, AppReads, IosFirst, IosObject
  <2> QED BY <2>2, <2>3 DEF FirstOk
<1>4. CASE Doc(r.of) # Absent
  <2>1. /\ object' = Doc(r.of) /\ UNCHANGED <<queue, screen>>
        /\ \/ r.kind = "friend" /\ reads' = (reads \ {r}) \cup {own}
           \/ r.kind # "friend" /\ reads' = reads \ {r}
    BY <1>4 DEF AnswerFriend, AnswerOwn, AnswerFormAndroid, Downloads, FillObject
  <2> HIDE DEF own
  <2>2. OwnQueue' /\ SavedHolds' /\ AndroidAcks' /\ \A b \in Account : Doc(b)' = Doc(b)
    BY <1>1, <2>1, SameDocs
  <2>3. AppReads' /\ IosFirst' /\ IosObject'
    BY <1>1, <1>2, <2>1 DEF FirstOk, AppReads, IosFirst, IosObject
  <2>4. AndroidObject'
    <3> SUFFICES ASSUME user # Nobody PROVE AndroidObject'
      BY <1>1 DEF AndroidObject
    <3>1. r.me = user /\ (r.kind # "friend" => r.of = user)
      BY <1>1 DEF FirstOk, AndroidObject
    <3>2. \A x \in reads' : x.me = user /\ (x.kind # "friend" => x.of = user)
      BY <1>1, <1>2, <2>1, <3>1 DEF FirstOk, AndroidObject
    <3>3. reads' # {} \/ object' = Doc(user)'
      BY <1>1, <2>1, <2>2, <3>1
    <3> QED BY <1>1, <3>2, <3>3 DEF AndroidObject
  <2> QED BY <2>2, <2>3, <2>4 DEF FirstOk
<1> QED BY <1>3, <1>4

(* A write reaches the server *)

\* The server's copy changes, what the phone sees does not; the object becomes
\* the form that is acknowledged, which is the saved one.
LEMMA FlushFirst == ASSUME OwnerInv, HomeInv, FirstOk, Flush PROVE FirstOk'
<1> DEFINE w == Head(queue[user])
<1>1. /\ queue[user] # << >> /\ screen # "crashed"
      /\ users' = [users EXCEPT ![w.doc] = w.val]
      /\ queue' = [queue EXCEPT ![user] = Tail(@)]
      /\ UNCHANGED <<app, located, user, saved, failed, logins, forms, views>>
  BY DEF Flush, counters
<1>2. /\ w \in Write /\ w.val \in Profile /\ w.doc \in Account
      /\ w = queue[user][1] /\ 1 \in 1 .. Len(queue[user])
      /\ \A x \in Users : \A i \in 1 .. Len(queue'[x]) :
           \E j \in 1 .. Len(queue[x]) : queue'[x][i] = queue[x][j]
  BY <1>1, FlushStores
<1>3. /\ user \in Users /\ queue \in [Users -> Seq(Write)]
      /\ users \in [Account -> Profile \cup {Absent}] /\ app \in Apps
  BY DEF OwnerInv, TypeOK, Users
<1>4. \A b \in Account : Doc(b)' = Doc(b)
  <2>0. w = Head(queue[user])
    OBVIOUS
  <2>1. queue'[user] = Tail(queue[user]) /\ queue[user] \in Seq(Write)
    BY <1>1, <1>3
  <2> HIDE DEF w
  <2>2. \A b \in Account : View(users', queue'[user], b) = View(users, queue[user], b)
    <3>1. ASSUME NEW b \in Account
          PROVE  users'[b] = IF Head(queue[user]).doc = b THEN Head(queue[user]).val ELSE users[b]
      BY <1>1, <1>2, <1>3, <2>0
    <3>2. queue[user] # << >>
      BY <1>1
    <3> QED BY <2>1, <3>1, <3>2, ViewFlush
  <2> QED BY <1>1, <2>2 DEF Doc
<1>5. \A x \in Users : x # user => queue'[x] = queue[x]
  BY <1>1, <1>3
<1>6. OwnQueue' /\ AndroidAcks'
  BY <1>1, <1>2, <1>5 DEF FirstOk, OwnQueue, AndroidAcks
<1>7. SavedHolds'
  <2>1. ASSUME NEW b \in Account, Left(b) PROVE Left(b)'
    <3>1. user = Nobody /\ \A x \in Account : queue'[x] = queue[x]
      BY <1>5, <2>1, NobodyAssumption DEF Left, Users
    <3> QED BY <1>1, <2>1, <3>1 DEF Left
  <2> QED BY <1>1, <1>4, <2>1 DEF FirstOk, SavedHolds, Holds
<1>8. CASE app = "ios"
  <2>1. w.ack \in {NoAck, "adopt"}
    BY <1>2, <1>3, <1>8 DEF OwnerInv, IosAcks
  <2> DEFINE check == Asked("check", user, user, logins)
  <2>2. check.kind = "check"
    BY DEF Asked
  <2>3. \/ w.ack # "adopt" /\ UNCHANGED <<reads, screen, object, current>>
        \/ /\ w.ack = "adopt" /\ object' = w.val /\ current' = 0
           /\ \/ UNCHANGED <<reads, screen>>
              \/ screen = "form" /\ screen' = "home" /\ reads' = reads \cup {check}
    BY <1>8, <2>1 DEF Flush, GoHome, NoAck, Shown
  <2> HIDE DEF w, check
  <2>4. AppReads' /\ AndroidObject'
    BY <1>1, <1>8, <2>2, <2>3 DEF FirstOk, AppReads, IosKinds, AndroidObject
  <2>5. ASSUME user # Nobody, w.ack = "adopt"
        PROVE  w.val.form = FirstForm /\ saved[user] = FirstForm /\ Doc(user).form = FirstForm
    <3>1. w.val.form = FirstForm /\ saved[user] = FirstForm
      BY <1>2, <1>8, <2>5 DEF FirstOk, IosFirst
    <3>2. FirstForm # NoForm /\ user \in Account
      BY <1>3, <2>5 DEF FirstForm, NoForm, Users
    <3> QED BY <2>5, <3>1, <3>2 DEF FirstOk, SavedHolds, Holds, Left
  <2>6. logins # 0
    BY <1>1, <1>3 DEF OwnerInv, NothingYet
  <2>7. IosFirst'
    <3>1. \A r \in reads' : r.kind = "welcome" => r \in reads
      BY <2>2, <2>3
    <3>2. ASSUME user # Nobody, NEW i \in 1 .. Len(queue'[user]), queue'[user][i].ack = "adopt"
          PROVE  /\ queue'[user][i].doc = user
                 /\ queue'[user][i].val.form = FirstForm /\ saved[user] = FirstForm
      BY <1>2, <1>3, <1>8, <3>2 DEF FirstOk, IosFirst
    <3>3. ASSUME user # Nobody
          PROVE  /\ current' \in {0, logins}
                 /\ current' = 0 /\ object' # Absent => object'.form = FirstForm /\ saved[user] = FirstForm
      BY <1>8, <2>3, <2>5, <3>3 DEF FirstOk, IosFirst
    <3>4. screen' = "form" => forms >= 1
      BY <1>8, <2>3 DEF FirstOk, IosFirst
    <3>5. \A r \in reads' : user # Nobody /\ r.kind = "welcome" => r.of = user /\ r.n = logins
      BY <1>8, <3>1 DEF FirstOk, IosFirst
    <3> QED BY <1>1, <2>6, <3>2, <3>3, <3>4, <3>5 DEF IosFirst, FirstForm
  <2>8. IosObject'
    <3> SUFFICES ASSUME user # Nobody, screen' \in {"home", "form"}, ~failed
                 PROVE  Welcoming' \/ Adopting' \/ Doc(user)' = Absent \/ object'.form = Doc(user)'.form
      BY <1>1 DEF IosObject
    <3>1. Doc(user)' = Doc(user)
      BY <1>1, <1>3, <1>4 DEF Users
    <3>2. CASE w.ack = "adopt"
      BY <2>3, <2>5, <3>1, <3>2
    <3>3. CASE w.ack # "adopt"
      <4>1. Welcoming \/ Adopting \/ Doc(user) = Absent \/ object.form = Doc(user).form
        BY <1>8, <2>3, <3>3 DEF FirstOk, IosObject
      <4>2. Welcoming => Welcoming'
        BY <2>3, <3>3 DEF Welcoming
      <4>3. Adopting => Adopting'
        <5>1. ASSUME NEW i \in 1 .. Len(queue[user]), queue[user][i].ack = "adopt"
              PROVE  Adopting'
          <6>1. queue[user] \in Seq(Write) /\ queue'[user'] = Tail(queue[user]) /\ i # 1
            BY <1>1, <1>2, <1>3, <3>3, <5>1
          <6>2. i - 1 \in 1 .. Len(Tail(queue[user])) /\ Tail(queue[user])[i - 1] = queue[user][i]
            BY <1>1, <6>1
          <6> QED BY <5>1, <6>1, <6>2 DEF Adopting
        <5> QED BY <5>1 DEF Adopting
      <4> QED BY <2>3, <3>1, <3>3, <4>1, <4>2, <4>3
    <3> QED BY <3>2, <3>3
  <2> QED BY <1>6, <1>7, <2>4, <2>7, <2>8 DEF FirstOk
<1>9. CASE app = "android"
  <2> DEFINE start == Asked("start", user, user, logins)
  <2>1. start.kind = "start" /\ start.me = user /\ start.of = user
    BY DEF Asked
  <2>2. w.ack \in {NoAck, "login", "start"}
    BY <1>2, <1>3, <1>9 DEF FirstOk, AndroidAcks, Write, Acks
  <2>3. /\ UNCHANGED <<object, current>>
        /\ user # Nobody => reads' \in {reads, reads \cup {start}} /\ screen' \in {screen, "home"}
        /\ user = Nobody => reads' \subseteq reads
    <3>1. CASE w.ack = NoAck
      BY <3>1 DEF Flush, NoAck
    <3>2. CASE w.ack = "login"
      BY <3>2 DEF Flush, NoAck
    <3>3. CASE w.ack = "start"
      BY <3>3 DEF Flush, NoAck
    <3> QED BY <2>2, <3>1, <3>2, <3>3
  <2> HIDE DEF w, start
  <2>4. AppReads' /\ IosFirst' /\ IosObject'
    BY <1>1, <1>9, <2>1, <2>3 DEF FirstOk, AppReads, IosFirst, IosObject
  <2>5. AndroidObject'
    <3> SUFFICES ASSUME user # Nobody PROVE AndroidObject'
      BY <1>1 DEF AndroidObject
    <3>1. Doc(user)' = Doc(user)
      BY <1>1, <1>3, <1>4 DEF Users
    <3>2. \A x \in reads' : x.me = user /\ (x.kind # "friend" => x.of = user)
      BY <1>9, <2>1, <2>3 DEF FirstOk, AndroidObject
    <3>3. ~failed => reads' # {} \/ object' = Doc(user)'
      BY <1>1, <1>9, <2>3, <3>1 DEF FirstOk, AndroidObject
    <3> QED BY <1>1, <3>2, <3>3 DEF AndroidObject
  <2> QED BY <1>6, <1>7, <2>4, <2>5 DEF FirstOk
<1> QED BY <1>3, <1>8, <1>9 DEF Apps

(* The theorems *)

\* Logins and forms are only added.
LEMMA FirstBefore == OwnerInv /\ [Next]_vars /\ FirstLogin' => FirstLogin
<1> SUFFICES ASSUME OwnerInv, [Next]_vars, FirstLogin' PROVE FirstLogin
  OBVIOUS
<1>1. logins \in 0 .. MaxLogins /\ forms \in 0 .. MaxForms
  BY DEF OwnerInv, TypeOK
<1>2. app' = app /\ (logins' \in {logins, logins + 1}) /\ (forms' \in {forms, forms + 1})
  BY DEF Next, vars, SignIn, ViewFriend, SignOut, Authorize, Welcome, OpenForm, LeaveForm,
     SaveIos, SaveAndroid, ReloadOwn, BackToLogin, Flush, AnswerWelcome, AnswerCheck,
     AnswerFormIos, AnswerGps, AnswerFriend, AnswerOwn, AnswerFormAndroid, ReadFails,
     PresentForm, Downloads, counters
<1> QED BY <1>1, <1>2, OwnerBounds DEF FirstLogin

\* Every step of the first login keeps it.
LEMMA NextFirst == OwnerInv /\ HomeInv /\ FirstInv /\ [Next]_vars => FirstInv'
<1> SUFFICES ASSUME OwnerInv, HomeInv, FirstOk, [Next]_vars, FirstLogin, FirstLogin' PROVE FirstOk'
  BY FirstBefore DEF FirstInv
<1>1. ASSUME NEW a \in Account, SignIn(a) PROVE FirstOk'
  BY <1>1, SignInFirst DEF FirstLogin
<1>2. ASSUME NEW a \in Account, ViewFriend(a) PROVE FirstOk'
  BY <1>2, ScreensFirst
<1>3. CASE Authorize \/ OpenForm \/ LeaveForm \/ ReloadOwn \/ BackToLogin
  BY <1>3, ScreensFirst
<1>4. CASE SignOut
  BY <1>4, SignOutFirst
<1>5. CASE Welcome
  BY <1>5, WelcomeFirst
<1>6. CASE SaveIos
  BY <1>6, SaveIosFirst DEF SaveIos, FirstLogin
<1>7. CASE SaveAndroid
  BY <1>7, SaveAndroidFirst
<1>8. CASE Flush
  BY <1>8, FlushFirst
<1>9. ASSUME NEW r \in reads, AnswerCheck(r) \/ AnswerFormIos(r) \/ ReadFails(r) PROVE FirstOk'
  BY <1>9, ChecksFirst
<1>10. ASSUME NEW r \in reads,
              AnswerWelcome(r) \/ AnswerGps(r) \/ AnswerFriend(r) \/ AnswerOwn(r) \/ AnswerFormAndroid(r)
       PROVE  FirstOk'
  BY <1>10, AnswerWelcomeFirst, AnswerGpsFirst, FillFirst
<1>11. CASE UNCHANGED vars
  <2>1. app \in Apps /\ UNCHANGED <<app, users, queue, user, saved, object, current, logins,
                                    reads, screen, forms, failed>>
    BY <1>11 DEF vars, OwnerInv, TypeOK
  <2>2. app = "ios" /\ screen' = "form" => forms' >= 1
    BY <2>1 DEF FirstOk, IosFirst
  <2> QED BY <2>1, <2>2, QuietFirst
<1> QED BY <1>1, <1>2, <1>3, <1>4, <1>5, <1>6, <1>7, <1>8, <1>9, <1>10, <1>11 DEF Next

\* The invariant of the first login holds in every state.
LEMMA FirstAlways == Spec => [](OwnerInv /\ FirstInv)
  BY InitOwner, InitFirst, NextOwner, NextFirst, PTL DEF Spec

\* The form an owner saved is what the server ends up with: no silent upload and
\* no friend's profile in the singleton takes its place.
THEOREM SavedFormKept == Spec => []SavedFormStays
<1>1. OwnerInv /\ FirstInv => SavedFormStays
  <2> SUFFICES ASSUME OwnerInv, FirstOk, NEW a \in Account, saved[a] # NoForm, Settled(a)
               PROVE  users[a].form = saved[a]
    BY DEF SavedFormStays, FirstInv
  <2>1. ~Left(a)
    BY DEF Settled, Left
  <2>2. Holds(a)
    BY <2>1 DEF FirstOk, SavedHolds
  <2>3. PendingOn(queue[user], a) = {}
    BY DEF Settled, OwnerInv, TypeOK
  <2> QED BY <2>2, <2>3 DEF Holds, Doc, View
<1> QED BY <1>1, FirstAlways, PTL

\* The process-wide object ends up with the profile of who is signed in, whatever
\* was viewed, saved or uploaded before.
THEOREM ObjectOfOwner == Spec => []ObjectIsOwn
<1>1. OwnerInv /\ FirstInv => ObjectIsOwn
  <2> SUFFICES ASSUME OwnerInv, FirstOk, ~failed, screen \in {"home", "form"}, reads = {},
                      Settled(user), users[user] # Absent
               PROVE  /\ object.form = users[user].form
                      /\ app = "android" => object.loc = users[user].loc
    BY DEF ObjectIsOwn, FirstInv
  <2>1. user \in Account /\ user # Nobody /\ app \in Apps
    BY NobodyAssumption DEF OwnerInv, SignedIn, TypeOK
  <2>2. PendingOn(queue[user], user) = {}
    BY <2>1 DEF Settled
  <2>3. Doc(user) = users[user]
    BY <2>2 DEF Doc, View
  <2>4. CASE app = "android"
    BY <2>1, <2>3, <2>4 DEF FirstOk, AndroidObject
  <2>5. CASE app = "ios"
    <3>1. ~Welcoming
      BY DEF Welcoming
    <3>2. ~Adopting
      BY <2>1, <2>2, <2>5 DEF Adopting, FirstOk, IosFirst, PendingOn
    <3> QED BY <2>1, <2>3, <2>5, <3>1, <3>2 DEF FirstOk, IosObject
  <2> QED BY <2>1, <2>4, <2>5 DEF Apps
<1> QED BY <1>1, FirstAlways, PTL

=============================================================================
