-------------------------------- MODULE Pets --------------------------------
(***************************************************************************)
(* One pet's profile, its photos and its quiz, on one phone that runs      *)
(* either app.                                                             *)
(*                                                                         *)
(* pets/<uid><n> is always written as a whole, from a profile object.  The *)
(* pet screen has one (petObj, by the number of the screen: a screen that  *)
(* is gone leaves its object to the transfers it began) and the quiz has   *)
(* one of its own (quiz.obj).  Photos are files in Storage, uploaded and   *)
(* deleted apart from the document that holds their URLs.                  *)
(*                                                                         *)
(* A profile is [text, quiz, photo]: which text (0 is blank), the pages of *)
(* ten answers given so far, each with the session it was given in and the *)
(* page of questions it answered, and the photo of each slot (0 is none).  *)
(* Taking a picture from the gallery is one step.                          *)
(***************************************************************************)
EXTENDS Firestore, FiniteSets

CONSTANTS Absent,        \* the value of a document that does not exist
          Unsure,        \* see wanted
          Slot,          \* the places for photos; the code has nine
          Pages,         \* pages of ten questions; the code has seven
          MaxTexts, MaxPhotos, MaxViews, MaxQuizzes,      \* bounds of a behaviour
          MaxFaults, MaxQueue, MaxReads

ASSUME PetBounds ==
  /\ Pages \in Nat \ {0}
  /\ {MaxTexts, MaxPhotos} \subseteq Nat \ {0}     \* 1 is the text, and the photo, of an old pet
  /\ {MaxViews, MaxQuizzes, MaxFaults, MaxQueue, MaxReads} \subseteq Nat

Apps    == {"ios", "android"}
Answers == [by : 0 .. MaxQuizzes, page : 1 .. Pages]
Profile == [text : 0 .. MaxTexts, quiz : Seq(Answers), photo : [Slot -> 0 .. MaxPhotos]]
Given   == [text : 0 .. MaxTexts, quiz : Seq(Answers)]
Blank   == [text |-> 0, quiz |-> <<>>, photo |-> [s \in Slot |-> 0]]
Acks    == {NoAck, "save", "quiz"}
Write   == [doc : {"pet"}, val : Profile \cup {Absent}, ack : Acks, n : Nat]
Transfer == [photo : 1 .. MaxPhotos, slot : Slot, view : 1 .. MaxViews]
Nothing == [text |-> 0, quiz |-> <<>>]
NoQuiz  == [obj |-> Blank, page |-> 0, asked |-> FALSE, done |-> FALSE]

ASSUME PetAssumption ==
  /\ Absent # Unsure /\ Absent \notin Profile /\ Absent \notin Given /\ Unsure \notin Given

VARIABLES
  app,       \* which app the phone runs
  db,        \* the document on the server
  queue,     \* the phone's mutation queue
  files,     \* the photos in Storage
  transfers, \* photos on their way to Storage
  screen,    \* "home", "pet", "quiz" (above "pet") or "crashed"
  view,      \* the number of the pet screen
  petObj,    \* the profile object of each pet screen
  reads,     \* the downloads outstanding for each of them
  quiz,      \* the quiz: its object, the page it asks (0: not ready), whether
             \* its download is outstanding, whether it has been finished
  wanted,    \* history: the text and answers the owner gave; Absent: deleted;
             \* Unsure: they acted before what they acted on was there
  unsaved,   \* history: Android's pet screen has changed photos since its save
  gaveUp,    \* history: Android's changes to photos were given up unsaved
  leftFile,  \* history: a file was left in Storage that no profile will name
  texts, photos, quizzes, faults

vars == <<app, db, queue, files, transfers, screen, view, petObj,
          reads, quiz, wanted, unsaved, gaveUp, leftFile, texts, photos, quizzes,
          faults>>
storage  == <<files, transfers>>
leavings == <<unsaved, gaveUp, leftFile>>
counters == <<texts, photos, quizzes, faults>>

Doc == View(db, queue, "pet")
Urls(p) == {p.photo[s] : s \in Slot} \ {0}
Loading == reads[view] > 0
Running == screen # "crashed"

TypeOK ==
  /\ app \in Apps /\ db \in [{"pet"} -> Profile \cup {Absent}]
  /\ queue \in Seq(Write) /\ Len(queue) <= MaxQueue
  /\ files \subseteq 1 .. MaxPhotos
  /\ transfers \subseteq Transfer
  /\ screen \in {"home", "pet", "quiz", "crashed"}
  /\ view \in 0 .. MaxViews
  /\ petObj \in [0 .. MaxViews -> Profile] /\ reads \in [0 .. MaxViews -> 0 .. MaxReads]
  /\ quiz \in [obj : Profile, page : 0 .. Pages, asked : BOOLEAN, done : BOOLEAN]
  /\ wanted \in {Absent, Unsure} \/ wanted \in Given
  /\ unsaved \in BOOLEAN /\ gaveUp \in BOOLEAN /\ leftFile \in BOOLEAN
  /\ texts \in 0 .. MaxTexts /\ photos \in 0 .. MaxPhotos
  /\ quizzes \in 0 .. MaxQuizzes /\ faults \in 0 .. MaxFaults

\* The pet is new, or was made on another phone: with a photo in one place and
\* all but one page of answers.  Android needs the document.
OldQuiz == [i \in 1 .. Pages - 1 |-> [by |-> 0, page |-> i]]
Init ==
  /\ app \in Apps
  /\ \E old \in {Absent} \cup
       {[text |-> 1, quiz |-> OldQuiz, photo |-> [Blank.photo EXCEPT ![s] = 1]] : s \in Slot} :
       /\ app = "android" => old # Absent
       /\ db = [d \in {"pet"} |-> old]
       /\ files = IF old = Absent THEN {} ELSE Urls(old)
       /\ wanted = IF old = Absent THEN Nothing ELSE [text |-> 1, quiz |-> old.quiz]
  /\ queue = <<>> /\ transfers = {}
  /\ screen = "home" /\ view = 0 /\ quiz = NoQuiz
  /\ petObj = [v \in 0 .. MaxViews |-> Blank] /\ reads = [v \in 0 .. MaxViews |-> 0]
  /\ unsaved = FALSE /\ gaveUp = FALSE /\ leftFile = FALSE
  /\ texts = 1 /\ photos = 1 /\ quizzes = 0 /\ faults = 0

Upload(p, ack, n) ==
  /\ Len(queue) < MaxQueue
  /\ queue' = Append(queue, [doc |-> "pet", val |-> p, ack |-> ack, n |-> n])

\* What the owner wants after asking for w; nobody can say once they were hasty.
\* Who deleted the pet wants no other before they open the screen again.
Wants(w, hasty) ==
  wanted' = IF wanted \in {Absent, Unsure} THEN wanted
            ELSE IF hasty THEN Unsure ELSE w

----------------------------------------------------------------------------
(* The pet screen *)

\* The screen asks for the profile, whatever it holds already.
Download(v) ==
  /\ reads[v] < MaxReads
  /\ reads' = [reads EXCEPT ![v] = @ + 1]

\* The objects that are still in use once the screen is to and ts are on their
\* way: the screen's own and those a transfer will put a URL in.
InUse(objs, to, ts) ==
  [v \in 0 .. MaxViews |->
     IF (v = view /\ to \in {"pet", "quiz"}) \/ \E t \in ts : t.view = v
     THEN objs[v] ELSE Blank]

\* Mutant: the screen that appears again keeps what it has.
AppearOnce == UNCHANGED reads

\* viewWillAppear of PetSettingVC; PetInfoActivity downloads when created only.
Appear == IF app = "ios" THEN Download(view) ELSE UNCHANGED reads

OpenPet ==
  /\ screen = "home" /\ view < MaxViews
  /\ screen' = "pet" /\ view' = view + 1
  /\ Download(view + 1)
  /\ wanted' = IF wanted = Absent THEN Nothing ELSE wanted
  /\ UNCHANGED <<app, db, queue, storage, petObj, quiz, leavings, counters>>

\* What a download does to the object of v; the fields show what it then holds.
Filled(v) ==
  /\ petObj' = IF Doc = Absent THEN petObj
               ELSE InUse([petObj EXCEPT ![v] = Doc], screen, transfers)
  /\ reads' = [reads EXCEPT ![v] = @ - 1]
  /\ UNCHANGED screen

\* A missing pet leaves the object as it was.
AnswerPetIos(v) ==
  /\ app = "ios" /\ reads[v] > 0 /\ Running
  /\ Filled(v)
  /\ UNCHANGED <<app, db, queue, storage, view, quiz, wanted, leavings, counters>>

\* A missing pet ends the app: the map of its fields is null.
AnswerPetAndroid(v) ==
  /\ app = "android" /\ reads[v] > 0 /\ Running
  /\ IF Doc = Absent THEN screen' = "crashed" /\ UNCHANGED <<petObj, reads>>
     ELSE Filled(v)
  /\ UNCHANGED <<app, db, queue, storage, view, quiz, wanted, leavings, counters>>

\* The fields, which show the object's text unless the owner typed, go into the
\* object, and the object is uploaded.
SaveFields(fields, ack) ==
  /\ petObj' = [petObj EXCEPT ![view].text = fields]
  /\ Upload(petObj'[view], ack, view)
  /\ Wants([wanted EXCEPT !.text = fields], Loading)
  /\ texts' = IF fields = texts + 1 THEN fields ELSE texts
  /\ unsaved' = FALSE
  /\ UNCHANGED <<app, db, storage, screen, view, reads, quiz, gaveUp, leftFile,
                 photos, quizzes, faults>>

Typed == {petObj[view].text} \cup {n \in {texts + 1} : n <= MaxTexts}

\* iOS wants the fields filled in, and leaves when the upload is acknowledged.
SaveIos ==
  /\ app = "ios" /\ screen = "pet"
  /\ \E fields \in Typed \ {0} : SaveFields(fields, "save")

SaveAndroid ==
  /\ app = "android" /\ screen = "pet"
  /\ \E fields \in Typed : SaveFields(fields, NoAck)

\* Back to the first screen.  What was not saved is given up.
Leave ==
  /\ screen' = "home" /\ petObj' = InUse(petObj, "home", transfers)
  /\ unsaved' = FALSE /\ gaveUp' = (gaveUp \/ unsaved)

Exit ==
  /\ screen = "pet" /\ Leave
  /\ UNCHANGED <<app, db, queue, storage, view, reads, quiz, wanted, leftFile, counters>>

\* Mutant: a deleted pet's screen stays.
CloseDeleted == UNCHANGED <<screen, petObj, unsaved>>

\* confirmBefore(deleting:) dismisses, the Android screen finishes.
CloseDeletedPet ==
  /\ screen' = "home" /\ petObj' = InUse(petObj, "home", transfers)
  /\ unsaved' = FALSE

DeletePet ==
  /\ screen = "pet"
  /\ Upload(Absent, NoAck, view)
  /\ CloseDeletedPet
  /\ Wants(Absent, Loading \/ transfers # {})
  /\ UNCHANGED <<app, db, transfers, view, reads, quiz, gaveUp, counters>>

\* "TODO delete photos".
DeletePetIos ==
  /\ app = "ios" /\ DeletePet
  /\ leftFile' = (leftFile \/ Urls(petObj[view]) # {}) /\ UNCHANGED files

\* The photos the object knows of go first.
DeletePetAndroid ==
  /\ app = "android" /\ DeletePet
  /\ files' = files \ Urls(petObj[view]) /\ UNCHANGED leftFile

----------------------------------------------------------------------------
(* Photos *)

\* Mutant: the old file is left.
WithoutNothing(v, s) == files

\* deleteImage, deletePhoto: the URL leaves the object, Storage is asked to
\* delete the file.  Nothing waits for it; a deletion that fails is left out.
SetUrl(v, s, url)   == [petObj EXCEPT ![v].photo[s] = url]
Without(v, s)       == files \ {petObj[v].photo[s]}

\* Mutant: the document is left for the next save, as on Android.
DeletePhotoIosLater(s) ==
  /\ app = "ios" /\ screen = "pet"
  /\ petObj' = SetUrl(view, s, 0) /\ files' = Without(view, s)
  /\ Wants(wanted, Loading)
  /\ UNCHANGED <<app, db, queue, transfers, screen, view, reads, quiz, leavings, counters>>

\* Delete on a photo's sheet: the file goes and the profile is uploaded at once.
DeletePhotoIos(s) ==
  /\ app = "ios" /\ screen = "pet"
  /\ petObj' = SetUrl(view, s, 0) /\ files' = Without(view, s)
  /\ Upload(petObj'[view], NoAck, view)
  /\ Wants(wanted, Loading)
  /\ UNCHANGED <<app, db, transfers, screen, view, reads, quiz, leavings, counters>>

\* The file goes at once, the URL with the next save ("Press SAVE to confirm!").
DeletePhotoAndroid(s) ==
  /\ app = "android" /\ screen = "pet"
  /\ petObj' = SetUrl(view, s, 0) /\ files' = Without(view, s)
  /\ unsaved' = (unsaved \/ petObj[view].photo[s] # 0)
  /\ Wants(wanted, Loading)
  /\ UNCHANGED <<app, db, queue, transfers, screen, view, reads, quiz, gaveUp, leftFile,
                 counters>>

\* A new photo for s is sent to Storage.
Send(s) ==
  /\ screen = "pet" /\ photos < MaxPhotos
  /\ photos' = photos + 1
  /\ transfers' = transfers \cup {[photo |-> photos + 1, slot |-> s, view |-> view]}
  /\ UNCHANGED <<app, db, queue, screen, view, quiz, gaveUp, leftFile, texts, quizzes,
                 faults>>

\* The picker is dismissed and the pet screen appears.
PickPhotoIos(s) ==
  /\ app = "ios" /\ Send(s) /\ Appear
  /\ Wants(wanted, FALSE)
  /\ UNCHANGED <<petObj, files, unsaved>>

\* onActivityResult deletes the old file before the new one is on its way.
PickPhotoAndroid(s) ==
  /\ app = "android" /\ Send(s)
  /\ petObj' = SetUrl(view, s, 0) /\ files' = Without(view, s)
  /\ unsaved' = TRUE
  /\ Wants(wanted, Loading)
  /\ UNCHANGED reads

\* The photo is in Storage and its URL known: it goes into the object of the
\* screen it was picked on, which may be gone.
GotUrl(t) ==
  /\ Running /\ t \in transfers
  /\ transfers' = transfers \ {t}
  /\ petObj' = InUse(SetUrl(t.view, t.slot, t.photo), screen, transfers')
  /\ UNCHANGED <<app, db, screen, view, reads, quiz, counters>>

\* The old file is deleted now, and that object uploaded.
GotUrlIos(t) ==
  /\ app = "ios" /\ GotUrl(t)
  /\ files' = Without(t.view, t.slot) \cup {t.photo}
  /\ Upload(SetUrl(t.view, t.slot, t.photo)[t.view], NoAck, t.view)
  /\ Wants(wanted, screen = "quiz" \/ t.view # view \/ Loading)
  /\ UNCHANGED leavings

\* Nothing is uploaded before the next save, and the photo that came to this
\* place since this one was picked is not deleted.
GotUrlAndroid(t) ==
  /\ app = "android" /\ GotUrl(t)
  /\ files' = files \cup {t.photo}
  /\ unsaved' = (unsaved \/ (screen # "home" /\ t.view = view))
  /\ leftFile' = (leftFile \/ screen = "home" \/ t.view # view
                            \/ petObj[t.view].photo[t.slot] # 0)
  /\ UNCHANGED <<queue, wanted, gaveUp>>

----------------------------------------------------------------------------
(* The quiz *)

\* A page has ten questions, an answer is one character.
Questions == 10 * Pages
Answered(answers) == 10 * Len(answers)

\* Mutant: isAllDone without the five that the code calls a hack.
AllDoneExact(answers) == Answered(answers) > Questions

\* isAllDone of iOS allows for half a page; Android compares the two numbers.
AllDone(answers) == Answered(answers) + 5 > Questions
AllAnswered(answers) == Answered(answers) = Questions

\* The guard of getQuestion: the next ten questions are not all there.
NoneLeft(answers) == ~(Answered(answers) + 10 < Questions + 1)

\* tapQuiz: whether questions are left is asked of the pet screen's object.
QuestionsLeft ==
  LET answers == petObj[view].quiz
  IN  IF app = "ios" THEN ~AllDone(answers) ELSE ~AllAnswered(answers)

\* The quiz gets an object of its own and downloads it.
StartQuiz ==
  /\ screen = "pet" /\ quizzes < MaxQuizzes
  /\ QuestionsLeft
  /\ screen' = "quiz" /\ quizzes' = quizzes + 1
  /\ quiz' = [NoQuiz EXCEPT !.asked = TRUE]
  /\ Wants(wanted, Loading)
  /\ UNCHANGED <<app, db, queue, storage, view, petObj, reads, leavings, texts,
                 photos, faults>>

\* Mutants: the page is asked of the pet screen's object; the download is
\* only waited for; there is always a next page.
AskStalePage(loaded) ==
  /\ quiz' = [quiz EXCEPT !.obj = loaded, !.asked = FALSE,
                          !.page = Len(petObj[view].quiz) + 1]
  /\ UNCHANGED screen
AskOfBlank(loaded) ==
  /\ quiz' = [quiz EXCEPT !.asked = FALSE, !.page = Len(quiz.obj.quiz) + 1]
  /\ UNCHANGED screen

AskPageAlways(loaded) ==
  /\ quiz' = [quiz EXCEPT !.obj = loaded, !.asked = FALSE,
                          !.page = Len(loaded.quiz) + 1]
  /\ UNCHANGED screen

\* The questions of the next page; there are none after the last (getQuestion
\* returns nil or null, which the card or the adapter does not survive).
AskPage(loaded) ==
  IF NoneLeft(loaded.quiz)
  THEN screen' = "crashed" /\ quiz' = NoQuiz
  ELSE /\ quiz' = [quiz EXCEPT !.obj = loaded, !.asked = FALSE,
                               !.page = Len(loaded.quiz) + 1]
       /\ UNCHANGED screen

\* The quiz's own download is answered, for a missing pet as for the pet screen.
AnswerQuizIos ==
  /\ app = "ios" /\ screen = "quiz" /\ quiz.asked
  /\ AskPage(IF Doc = Absent THEN quiz.obj ELSE Doc)
  /\ UNCHANGED <<app, db, queue, storage, view, petObj, reads, wanted, leavings, counters>>

AnswerQuizAndroid ==
  /\ app = "android" /\ screen = "quiz" /\ quiz.asked
  /\ IF Doc = Absent THEN screen' = "crashed" /\ quiz' = NoQuiz ELSE AskPage(Doc)
  /\ UNCHANGED <<app, db, queue, storage, view, petObj, reads, wanted, leavings, counters>>

\* The tenth card is swiped: the answers are added and all is uploaded.
FinishQuiz ==
  /\ screen = "quiz" /\ quiz.page # 0 /\ ~quiz.done
  /\ LET given == [by |-> quizzes, page |-> quiz.page]
     IN  /\ quiz' = [quiz EXCEPT !.obj.quiz = Append(@, given), !.done = TRUE]
         /\ Wants([wanted EXCEPT !.quiz = Append(@, given)], FALSE)
  /\ Upload(quiz'.obj, "quiz", quizzes)
  /\ UNCHANGED <<app, db, storage, screen, view, petObj, reads, leavings, counters>>

\* Back to the pet screen, which appears again.
CloseQuiz == screen' = "pet" /\ quiz' = NoQuiz /\ Appear

ExitQuiz ==
  /\ screen = "quiz" /\ CloseQuiz
  /\ UNCHANGED <<app, db, queue, storage, view, petObj, wanted, leavings, counters>>

----------------------------------------------------------------------------
(* The library and the system *)

\* A write is applied and acknowledged.  The save of iOS leaves the pet screen,
\* or closes what is shown above it; a finished quiz closes itself.
Flush ==
  /\ queue # <<>> /\ Running
  /\ LET w == Head(queue)
         saved == w.ack = "save" /\ w.n = view
         done  == w.ack = "quiz" /\ w.n = quizzes
     IN  /\ db' = [db EXCEPT ![w.doc] = w.val]
         /\ CASE (saved \/ done) /\ screen = "quiz" ->
                   CloseQuiz /\ UNCHANGED <<petObj, leavings>>
              [] saved /\ screen = "pet" ->
                   Leave /\ UNCHANGED <<reads, quiz, leftFile>>
              [] OTHER -> UNCHANGED <<screen, petObj, reads, quiz, leavings>>
  /\ queue' = Tail(queue)
  /\ UNCHANGED <<app, storage, view, wanted, counters>>

Fault == faults < MaxFaults /\ faults' = faults + 1

\* A download fails: iOS goes on with the object as it is, Android never.
ReadFails(v) ==
  /\ Fault /\ reads[v] > 0
  /\ reads' = [reads EXCEPT ![v] = @ - 1]
  /\ Wants(wanted, TRUE)
  /\ UNCHANGED <<app, db, queue, storage, screen, view, petObj, quiz, leavings,
                 texts, photos, quizzes>>

QuizReadFails ==
  /\ Fault /\ screen = "quiz" /\ quiz.asked
  /\ quiz' = [quiz EXCEPT !.asked = FALSE, !.page = IF app = "ios" THEN 1 ELSE 0]
  /\ Wants(wanted, TRUE)
  /\ UNCHANGED <<app, db, queue, storage, screen, view, petObj, reads, leavings,
                 texts, photos, quizzes>>

\* A photo does not get to Storage, or its URL not back: Android asks the failed
\* task for its result.
TransferFails(t) ==
  /\ Running /\ Fault /\ t \in transfers
  /\ transfers' = transfers \ {t} /\ petObj' = InUse(petObj, screen, transfers')
  /\ screen' = IF app = "ios" THEN screen ELSE "crashed"
  /\ \E stored \in {{}, {t.photo}} :
       files' = files \cup stored /\ leftFile' = (leftFile \/ stored # {})
  /\ UNCHANGED <<app, db, queue, view, reads, quiz, wanted, unsaved, gaveUp,
                 texts, photos, quizzes>>

\* The app ends, killed or crashed, and is started again.
Restart ==
  /\ Fault /\ (screen # "home" \/ transfers # {})
  /\ screen' = "home" /\ quiz' = NoQuiz
  /\ queue' = WithoutAcks(queue)
  /\ reads' = [v \in 0 .. MaxViews |-> 0]
  /\ petObj' = [v \in 0 .. MaxViews |-> Blank]
  /\ \E stored \in SUBSET {t.photo : t \in transfers} :
       files' = files \cup stored /\ leftFile' = (leftFile \/ stored # {})
  /\ transfers' = {} /\ unsaved' = FALSE /\ gaveUp' = (gaveUp \/ unsaved)
  /\ UNCHANGED <<app, db, view, wanted, texts, photos, quizzes>>

Next ==
  \/ OpenPet \/ SaveIos \/ SaveAndroid \/ Exit \/ DeletePetIos \/ DeletePetAndroid
  \/ StartQuiz \/ AnswerQuizIos \/ AnswerQuizAndroid \/ FinishQuiz \/ ExitQuiz
  \/ Flush \/ QuizReadFails \/ Restart
  \/ \E v \in 1 .. MaxViews : AnswerPetIos(v) \/ AnswerPetAndroid(v) \/ ReadFails(v)
  \/ \E s \in Slot : \/ DeletePhotoIos(s) \/ DeletePhotoAndroid(s)
                     \/ PickPhotoIos(s) \/ PickPhotoAndroid(s)
  \/ \E t \in transfers : GotUrlIos(t) \/ GotUrlAndroid(t) \/ TransferFails(t)

Spec == Init /\ [][Next]_vars

----------------------------------------------------------------------------
(* Properties *)

\* Everything the phone began is done and the owner was not hasty.
AtRest ==
  /\ screen = "home" /\ queue = <<>> /\ transfers = {}
  /\ \A v \in 1 .. MaxViews : reads[v] = 0
  /\ wanted # Unsure
Pet == db["pet"]

\* No profile shows a photo that is gone.  The file and the document change in
\* two places and at two times (deleteImage and setPhotoUrl before upload, also
\* from an object whose screen has been left, killed or reopened); on Android a
\* screen that is left without saving has already deleted (onActivityResult).
PhotosExist ==
  AtRest /\ Pet # Absent /\ ~(app = "android" /\ gaveUp) => Urls(Pet) \subseteq files

\* Every file in Storage is some photo of the profile, but for those iOS leaves
\* with a deleted pet, those of a transfer that failed or was not saved, and on
\* Android one of two picked for the same place before the first had arrived:
\* a newer photo replaces the older one and no upload of the whole profile
\* puts back a URL, or drops one, behind another's back.
NoOrphans ==
  AtRest /\ ~gaveUp /\ ~leftFile => files = IF Pet = Absent THEN {} ELSE Urls(Pet)

\* The text the owner saved last is the text of the profile, whatever photos and
\* quizzes were uploaded with objects of their own, before or after.
TextKept ==
  AtRest /\ Pet # Absent /\ wanted # Absent => Pet.text = wanted.text

\* iOS: no save, photo or further quiz overwrites answers.  The pet screen has
\* them because it downloads again whenever it appears.
QuizKept ==
  app = "ios" /\ AtRest /\ Pet # Absent /\ wanted # Absent => Pet.quiz = wanted.quiz

\* A deleted pet does not come back, from a late upload or through a screen that
\* still shows it, before its owner opens the screen again.
DeletedStaysDeleted == AtRest /\ wanted = Absent => Pet = Absent

\* The n-th page of answers answers the n-th page of questions, always: a match
\* score compares two quizzes place by place (MatchingProfile).
AnswersAtQuestions ==
  Pet # Absent => \A i \in 1 .. Len(Pet.quiz) : Pet.quiz[i].page = i

\* The quiz of iOS never opens without questions, if the owner waits until the
\* pet screen has its profile (tapQuiz asks isAllDone of that one).
IosSurvives == app = "ios" /\ wanted # Unsure => screen # "crashed"

============================================================================
