------------------------------- MODULE Owner -------------------------------
(***************************************************************************)
(* Login and the owner's profile, on one phone that runs either app.       *)
(*                                                                         *)
(* users/<uid> is written as a whole: by the form an owner saves, by the   *)
(* "silent" upload of the location after login, and by nothing else.  Both *)
(* apps keep one profile object for the whole process: on Android it is a  *)
(* singleton into which a friend's profile is downloaded too; on iOS it is *)
(* most_recent_owner, replaced at each login and by each acknowledged save.*)
(* The object is read after asynchronous calls, which is the hazard.       *)
(*                                                                         *)
(* A profile is [form, loc]: who filled it in (the n-th form an owner      *)
(* saved, or nobody) and where it places its owner.  A read is             *)
(*   [kind, of, me, n]: whose profile, for whom, and which login, form or  *)
(* view asked.  SettingVC and UserInfoActivity, which only show a profile, *)
(* are part of "home".                                                     *)
(***************************************************************************)
EXTENDS Firestore, FiniteSets

CONSTANTS Account,                   \* owners with an account
          MaxLogins, MaxForms, MaxViews,  \* bounds of a behaviour
          Absent,                    \* the value of a document that does not exist
          Nobody                     \* no user is signed in

ASSUME OwnerBounds == MaxLogins \in Nat /\ MaxForms \in Nat /\ MaxViews \in Nat
ASSUME NobodyAssumption == Nobody \notin Account

Apps    == {"ios", "android"}
NoForm  == [by |-> Nobody, n |-> 0]         \* the initial values, "No name"
Nowhere == "nowhere"                        \* lat = lon = 0.0
Here    == "here"                           \* where this phone is
Form    == [by : Account, n : 0 .. MaxForms] \cup {NoForm}
Profile == [form : Form, loc : Account \cup {Nowhere, Here}]
Default == [form |-> NoForm, loc |-> Nowhere]
Kinds   == {"login", "start", "welcome", "check", "form", "friend", "own"}
Acks    == {NoAck, "login", "start", "adopt"}
Read    == [kind : Kinds, of : Account, me : Account, n : Nat]
Write   == [doc : Account, val : Profile, ack : Acks, n : Nat]

ASSUME AbsentAssumption == Absent \notin Profile

VARIABLES
  app,       \* which app the phone runs
  located,   \* the app may ask for the location
  users,     \* the documents users/<uid> on the server
  queue,     \* the mutation queue of each signed-in user
  reads,     \* reads whose callbacks are outstanding
  user,      \* FirebaseAuth's current user
  screen,    \* "login", "home", "form" or "crashed"
  object,    \* the process-wide profile object
  current,   \* iOS: the login whose object that is, 0 for a saved one
  filled,    \* the form shows the downloaded profile
  saved,     \* history: the last form each owner saved
  failed,    \* history: a read has failed
  logins, forms, views

vars == <<app, located, users, queue, reads, user, screen, object, current,
          filled, saved, failed, logins, forms, views>>
counters == <<logins, forms, views>>

Doc(a) == View(users, queue[user], a)
Asked(k, a, m, i) == [kind |-> k, of |-> a, me |-> m, n |-> i]

TypeOK ==
  /\ app \in Apps /\ located \in BOOLEAN /\ filled \in BOOLEAN /\ failed \in BOOLEAN
  /\ users \in [Account -> Profile \cup {Absent}]
  /\ queue \in [Account \cup {Nobody} -> Seq(Write)]
  /\ reads \subseteq Read
  /\ user \in Account \cup {Nobody}
  /\ screen \in {"login", "home", "form", "crashed"}
  /\ object \in Profile \cup IF app = "ios" THEN {Absent} ELSE {}
  /\ saved \in [Account -> Form]
  /\ current \in 0 .. MaxLogins
  /\ logins \in 0 .. MaxLogins /\ forms \in 0 .. MaxForms /\ views \in 0 .. MaxViews

\* Each account is new, or was used on another phone.  Nobody is signed in when
\* the app starts, or on Android whoever was when it ended: then checkLoggedIn
\* and, after a silent Google sign-in, its completion each begin a saveGPS.
Init ==
  /\ app \in Apps /\ located \in BOOLEAN
  /\ users \in [Account -> Profile \cup {Absent}]
  /\ \A a \in Account :
       users[a] \in {Absent, [form |-> [by |-> a, n |-> 0], loc |-> a]}
  /\ saved = [a \in Account |-> IF users[a] = Absent THEN NoForm ELSE users[a].form]
  /\ queue = [a \in Account \cup {Nobody} |-> <<>>]
  /\ screen = "login" /\ failed = FALSE
  /\ \/ user = Nobody /\ logins = 0 /\ reads = {}
     \/ /\ app = "android" /\ MaxLogins > 0
        /\ user \in Account /\ logins = 1
        /\ reads \in {{Asked("start", user, user, 1)},
                      {Asked("start", user, user, 1), Asked("login", user, user, 1)}}
  /\ object = IF app = "ios" THEN Absent ELSE Default
  /\ current = 0 /\ filled = FALSE
  /\ forms = 0 /\ views = 0

\* A write of the current user; its completion knows the form it came from.
Enqueue(a, p, ack) ==
  queue' = [queue EXCEPT ![user] =
              Append(@, [doc |-> a, val |-> p, ack |-> ack, n |-> forms])]

----------------------------------------------------------------------------
(* Signing in and out *)

\* Auth signs a in.  Android then downloads the profile to place it (saveGPS);
\* iOS presents WelcomeVC, which is Welcome.
SignIn(a) ==
  /\ screen = "login" /\ logins < MaxLogins
  /\ app = "ios" => user = Nobody
  /\ user' = a /\ logins' = logins + 1
  /\ reads' = IF app = "ios" THEN reads
              ELSE reads \cup {Asked("login", a, a, logins + 1)}
  /\ UNCHANGED <<app, located, users, queue, screen, object, current, filled,
                 saved, failed, forms, views>>

SignOut ==
  /\ screen = IF app = "ios" THEN "home" ELSE "login"
  /\ user # Nobody
  /\ user' = Nobody /\ screen' = "login"
  /\ UNCHANGED <<app, located, users, queue, reads, object, current, filled,
                 saved, failed, counters>>

\* The owner answers the prompt for the location.
Authorize ==
  /\ app = "ios" /\ ~located /\ screen # "login"
  /\ located' = TRUE
  /\ UNCHANGED <<app, users, queue, reads, user, screen, object, current,
                 filled, saved, failed, counters>>

\* WelcomeVC: viewDidLoad makes a new object and downloads it, viewWillAppear
\* asks whether there is a profile at all.
Welcome ==
  /\ app = "ios" /\ screen = "login" /\ user # Nobody
  /\ screen' = "home" /\ object' = Default /\ current' = logins
  /\ reads' = reads \cup {Asked("welcome", user, user, logins),
                          Asked("check", user, user, logins)}
  /\ UNCHANGED <<app, located, users, queue, user, filled, saved, failed, counters>>

\* Where upload may place a profile on iOS: here, if it is allowed to ask and
\* is told, else where it was.
Places(p) == {p.loc} \cup IF located THEN {Here} ELSE {}

\* Mutant: the object is uploaded as it was before the download.
AnswerWelcomeUnfilled(r) ==
  /\ r \in reads /\ r.kind = "welcome"
  /\ IF located /\ user # Nobody THEN Enqueue(user, object, NoAck)
     ELSE UNCHANGED queue
  /\ object' = IF current = r.n /\ Doc(r.of) # Absent THEN Doc(r.of) ELSE object
  /\ reads' = reads \ {r}
  /\ UNCHANGED <<app, located, users, user, screen, current, filled, saved,
                 failed, counters>>

\* The download of WelcomeVC.  It fills the object made for it; what is then
\* uploaded is most_recent_owner, for whoever is signed in by now.
AnswerWelcome(r) ==
  /\ r \in reads /\ r.kind = "welcome"
  /\ LET loaded == IF current = r.n /\ Doc(r.of) # Absent THEN Doc(r.of) ELSE object
     IN  IF located /\ user # Nobody
         THEN \E l \in Places(loaded) :
                /\ object' = [loaded EXCEPT !.loc = l]
                /\ Enqueue(user, object', NoAck)
         ELSE object' = loaded /\ UNCHANGED queue
  /\ reads' = reads \ {r}
  /\ UNCHANGED <<app, located, users, user, screen, current, filled, saved,
                 failed, counters>>

\* A form is shown, empty, and downloads the profile.
PresentForm(outstanding) ==
  /\ forms < MaxForms
  /\ screen' = "form" /\ filled' = FALSE /\ forms' = forms + 1
  /\ reads' = outstanding \cup {Asked("form", user, user, forms + 1)}

InFront(r) == screen = "home" /\ r.n = logins

\* No document: the form is presented, unless this WelcomeVC is not in front.
AnswerCheck(r) ==
  /\ r \in reads /\ r.kind = "check"
  /\ IF Doc(r.of) = Absent /\ InFront(r) THEN PresentForm(reads \ {r})
     ELSE /\ reads' = reads \ {r}
          /\ UNCHANGED <<screen, filled, forms>>
  /\ UNCHANGED <<app, located, users, queue, user, object, current, saved,
                 failed, logins, views>>

----------------------------------------------------------------------------
(* The form *)

OpenForm ==
  /\ screen = "home" /\ user # Nobody /\ PresentForm(reads)
  /\ UNCHANGED <<app, located, users, queue, user, object, current, saved,
                 failed, logins, views>>

Shown(r) == screen = "form" /\ r.n = forms

\* iOS downloads the form's profile into an object of its own.
AnswerFormIos(r) ==
  /\ app = "ios" /\ r \in reads /\ r.kind = "form"
  /\ filled' = (filled \/ Shown(r))
  /\ reads' = reads \ {r}
  /\ UNCHANGED <<app, located, users, queue, user, screen, object, current,
                 saved, failed, counters>>

\* What saving stores.  The owner is assumed to wait until the form shows the
\* profile; saving a form twice stores the same again and is left out.
Edited  == [by |-> user, n |-> forms]
MaySave == screen = "form" /\ filled /\ saved[user] # Edited

\* tapUploadProfile: a new profile, not the object, is uploaded.
SaveIos ==
  /\ app = "ios" /\ MaySave
  /\ \E l \in Places(Default) :
       Enqueue(user, [form |-> Edited, loc |-> l], "adopt")
  /\ saved' = [saved EXCEPT ![user] = Edited]
  /\ UNCHANGED <<app, located, users, reads, user, screen, object, current,
                 filled, failed, counters>>

\* saveData: every field of the singleton but its place is set, and the
\* singleton is uploaded.
SaveAndroid ==
  /\ app = "android" /\ MaySave
  /\ object' = [object EXCEPT !.form = Edited]
  /\ Enqueue(user, object', NoAck)
  /\ saved' = [saved EXCEPT ![user] = Edited]
  /\ UNCHANGED <<app, located, users, reads, user, screen, current, filled,
                 failed, counters>>

\* Mutant: the check is made once, when the screen is first loaded.
GoHomeUnchecked ==
  screen' = "home" /\ filled' = FALSE /\ UNCHANGED reads

\* Back to the first screen; on iOS it appears again and checks again.
GoHome ==
  /\ screen' = "home" /\ filled' = FALSE
  /\ reads' = IF app = "ios"
              THEN reads \cup {Asked("check", user, user, logins)} ELSE reads

LeaveForm ==
  /\ screen = "form" /\ GoHome
  /\ UNCHANGED <<app, located, users, queue, user, object, current, saved,
                 failed, counters>>

----------------------------------------------------------------------------
(* Android: everything is downloaded into the singleton *)

\* OwnerProfile.download: getData() of a missing document is null.
Downloads(r, then) ==
  /\ app = "android" /\ screen # "crashed"
  /\ IF Doc(r.of) = Absent
     THEN /\ screen' = "crashed" /\ reads' = {}
          /\ UNCHANGED <<queue, object, filled>>
     ELSE then
  /\ UNCHANGED <<app, located, users, user, current, saved, failed, counters>>

\* saveGPS: place the profile and upload it for the user it was asked for.
SaveGps(r) ==
  /\ object' = [Doc(r.of) EXCEPT !.loc = IF located THEN Here ELSE Nowhere]
  /\ Enqueue(r.of, object', r.kind)
  /\ reads' = reads \ {r}
  /\ UNCHANGED <<screen, filled>>

AnswerGps(r) ==
  r \in reads /\ r.kind \in {"login", "start"} /\ Downloads(r, SaveGps(r))

\* UserInfoActivity and BestMatchFragment download the owner's own profile.
ReloadOwn ==
  /\ app = "android" /\ screen = "home" /\ user # Nobody /\ views < MaxViews
  /\ views' = views + 1
  /\ reads' = reads \cup {Asked("own", user, user, views + 1)}
  /\ UNCHANGED <<app, located, users, queue, user, screen, object, current,
                 filled, saved, failed, logins, forms>>

\* OwnerProfileFriendFragment: the friend's profile first, then the own one.
ViewFriend(a) ==
  /\ app = "android" /\ screen = "home" /\ user # Nobody /\ a # user
  /\ views < MaxViews
  /\ views' = views + 1
  /\ reads' = reads \cup {Asked("friend", a, user, views + 1)}
  /\ UNCHANGED <<app, located, users, queue, user, screen, object, current,
                 filled, saved, failed, logins, forms>>

FillObject(r, more) ==
  /\ object' = Doc(r.of) /\ reads' = (reads \ {r}) \cup more
  /\ UNCHANGED <<queue, screen>>

\* Mutants: a missing profile is taken like any other; the own profile
\* is not downloaded again.
AnswerFriendAny(r) ==
  /\ r \in reads /\ r.kind = "friend"
  /\ app = "android" /\ screen # "crashed"
  /\ FillObject(r, {Asked("own", r.me, r.me, r.n)})
  /\ UNCHANGED <<app, located, users, user, current, filled, saved, failed, counters>>
AnswerFriendOnly(r) ==
  /\ r \in reads /\ r.kind = "friend"
  /\ Downloads(r, FillObject(r, {}) /\ UNCHANGED filled)

AnswerFriend(r) ==
  /\ r \in reads /\ r.kind = "friend"
  /\ Downloads(r, FillObject(r, {Asked("own", r.me, r.me, r.n)}) /\ UNCHANGED filled)

AnswerOwn(r) ==
  /\ r \in reads /\ r.kind = "own"
  /\ Downloads(r, FillObject(r, {}) /\ UNCHANGED filled)

AnswerFormAndroid(r) ==
  /\ r \in reads /\ r.kind = "form"
  /\ Downloads(r, FillObject(r, {}) /\ filled' = (filled \/ Shown(r)))

\* Back from the first screen to the login screen, still signed in.
BackToLogin ==
  /\ app = "android" /\ screen = "home"
  /\ screen' = "login"
  /\ UNCHANGED <<app, located, users, queue, reads, user, object, current,
                 filled, saved, failed, counters>>

----------------------------------------------------------------------------
(* The library: writes reach the server, reads fail *)

\* A write of the signed-in user is applied and acknowledged.
Flush ==
  /\ queue[user] # <<>> /\ screen # "crashed"
  /\ LET w == Head(queue[user])
     IN  /\ users' = [users EXCEPT ![w.doc] = w.val]
         /\ queue' = [queue EXCEPT ![user] = Tail(@)]
         /\ CASE w.ack = NoAck ->
                   UNCHANGED <<reads, screen, object, current, filled>>
              [] w.ack = "adopt" ->       \* most_recent_owner = profile; dismiss
                   /\ object' = w.val /\ current' = 0
                   /\ IF Shown(w) THEN GoHome
                      ELSE UNCHANGED <<screen, filled, reads>>
              [] w.ack = "login" ->       \* checkLoggedIn
                   /\ IF user = Nobody
                      THEN screen' = "crashed" /\ reads' = {}
                      ELSE /\ reads' = reads \cup {Asked("start", user, user, logins)}
                           /\ UNCHANGED screen
                   /\ UNCHANGED <<object, current, filled>>
              [] w.ack = "start" ->       \* MatchingActivity
                   /\ screen' = IF user = Nobody THEN "crashed" ELSE "home"
                   /\ reads' = IF user = Nobody THEN {} ELSE reads
                   /\ filled' = FALSE
                   /\ UNCHANGED <<object, current>>
  /\ UNCHANGED <<app, located, user, saved, failed, counters>>

\* A read fails: its callback returns, except that isFirstTimeUsing answers
\* "first time".
ReadFails(r) ==
  /\ r \in reads /\ ~failed
  /\ failed' = TRUE
  /\ IF r.kind = "check" /\ InFront(r) THEN PresentForm(reads \ {r})
     ELSE /\ reads' = reads \ {r}
          /\ UNCHANGED <<screen, filled, forms>>
  /\ UNCHANGED <<app, located, users, queue, user, object, current, saved,
                 logins, views>>

Next ==
  \/ \E a \in Account : SignIn(a) \/ ViewFriend(a)
  \/ SignOut \/ Authorize \/ Welcome \/ OpenForm \/ LeaveForm
  \/ SaveIos \/ SaveAndroid \/ ReloadOwn \/ BackToLogin
  \/ Flush
  \/ \E r \in reads :
       \/ AnswerWelcome(r) \/ AnswerCheck(r)
       \/ AnswerFormIos(r) \/ AnswerGps(r) \/ AnswerFriend(r) \/ AnswerOwn(r)
       \/ AnswerFormAndroid(r) \/ ReadFails(r)

Spec == Init /\ [][Next]_vars

----------------------------------------------------------------------------
(* Properties *)

\* No write is on its way to a's profile.
Settled(a) == \A u \in Account \cup {Nobody} : PendingOn(queue[u], a) = {}

\* The properties below are about the first login, or who was signed in when the
\* app started; on iOS about the first form too.  Later the silent upload of iOS may write under the next user, or take
\* an acknowledged form for the newest while another is being saved, and an
\* upload made while signed out waits in a queue of its own.
FirstLogin == logins <= 1 /\ (app = "ios" => forms <= 1)

\* The form an owner saved last is what the server ends up with: no silent
\* upload (WelcomeVC.viewDidLoad, MainActivity.saveGPS), late or repeated, and
\* no friend's profile in the singleton replaces it.
SavedFormStays ==
  FirstLogin =>
    \A a \in Account : saved[a] # NoForm /\ Settled(a) => users[a].form = saved[a]

\* When nothing is outstanding and no read has failed, the process-wide object
\* holds the profile of the owner who is signed in, whatever was viewed
\* before (OwnerProfileFriendFragment), and on Android their place: match
\* scores and common free time are computed from it.
ObjectIsOwn ==
  (/\ FirstLogin /\ ~failed
   /\ screen \in {"home", "form"} /\ reads = {} /\ Settled(user)
   /\ users[user] # Absent) =>
    /\ object.form = users[user].form
    /\ app = "android" => object.loc = users[user].loc

\* Nobody stays on the first screen without a profile once everything is
\* answered: leaving the forced form leads back to it (viewWillAppear), a
\* failed check forces it too.  On Android an upload that is acknowledged after
\* somebody else signed in takes them in, so it is so for the first login.
HomeHasProfile ==
  (/\ app = "ios" \/ logins = 1
   /\ screen = "home" /\ reads = {} /\ queue[user] = <<>>) => users[user] # Absent

============================================================================
