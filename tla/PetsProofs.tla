----------------------------- MODULE PetsProofs -----------------------------
(***************************************************************************)
(* What the pet's screens promise, for any number of pages, photos,        *)
(* screens, quizzes and faults.                                            *)
(*                                                                         *)
(* A profile is written as a whole from one of many objects, so every      *)
(* invariant is about each: the document, the queued writes, the objects   *)
(* of the pet screens and of the quiz.                                     *)
(*                                                                         *)
(* AnswersInv: each has its n-th answers to the n-th page.  TypeInv: the   *)
(* types, and that a screen yet to be opened has a blank object.  KeptInv: *)
(* what the phone reads has what the owner gave, and the object in use has *)
(* it unless its download is outstanding.  ApartInv: no photo is in two    *)
(* places.  PhotosInv: Storage has the files of what the phone reads, or,  *)
(* on Android before a save, of the object on the screen.                  *)
(***************************************************************************)
EXTENDS Pets, CommonProofs

\* Profiles whose n-th answers are to the n-th page.
Shape == [text : Nat, quiz : Seq([by : Nat, page : Nat]), photo : [Slot -> Nat]]
Aligned(p) == \A i \in 1 .. Len(p.quiz) : p.quiz[i].page = i
Good == {p \in Shape : Aligned(p)}
Sent == [photo : Nat, slot : Slot, view : 0 .. MaxViews]
GoodWrite == [doc : {"pet"}, val : Good \cup {Absent}, ack : Acks, n : Nat]

Documents ==
  /\ db \in [{"pet"} -> Good \cup {Absent}]
  /\ queue \in Seq(GoodWrite)

Objects ==
  /\ petObj \in [0 .. MaxViews -> Good]
  /\ transfers \subseteq Sent
  /\ view \in 0 .. MaxViews
  /\ texts \in Nat /\ photos \in Nat /\ quizzes \in Nat

QuizAsksNext ==
  /\ quiz \in [obj : Good, page : Nat, asked : BOOLEAN, done : BOOLEAN]
  /\ quiz.asked => quiz.obj = Blank /\ quiz.page = 0
  /\ quiz.page # 0 /\ ~quiz.done => quiz.page = Len(quiz.obj.quiz) + 1

AnswersInv == Documents /\ Objects /\ QuizAsksNext

\* The bounds one by one.
LEMMA Bounds ==
  /\ Pages \in Nat \ {0}
  /\ MaxTexts \in Nat \ {0} /\ MaxPhotos \in Nat \ {0} /\ MaxViews \in Nat
  /\ MaxQuizzes \in Nat /\ MaxFaults \in Nat /\ MaxQueue \in Nat /\ MaxReads \in Nat
  BY PetBounds

\* The formula of the pet screen and that of the quiz agree on every number of
\* whole pages: pages are left, or they are not (isAllDone, getQuestion).
LEMMA PagesLeft ==
  ASSUME NEW answers, Len(answers) \in Nat
  PROVE  /\ ~AllDone(answers) <=> Len(answers) < Pages
         /\ ~NoneLeft(answers) <=> Len(answers) < Pages
  BY Bounds DEF AllDone, NoneLeft, Answered, Questions

\* What the code does to a profile object keeps its answers in their places:
\* making it, filling in text, setting a URL, adding the answers to the next page.
LEMMA GoodProfiles ==
  /\ Blank \in Good /\ Len(Blank.quiz) = 0
  /\ \A p \in Good, t \in Nat : [p EXCEPT !.text = t] \in Good
  /\ \A p \in Good, s \in Slot, n \in Nat : [p EXCEPT !.photo[s] = n] \in Good
  /\ \A p \in Good, n \in Nat :
       [p EXCEPT !.quiz = Append(@, [by |-> n, page |-> Len(p.quiz) + 1])] \in Good
<1>1. Blank \in Good /\ Len(Blank.quiz) = 0
  BY DEF Blank, Good, Shape, Aligned
<1>2. \A p \in Good, t \in Nat : [p EXCEPT !.text = t] \in Good
  BY DEF Good, Shape, Aligned
<1>3. \A p \in Good, s \in Slot, n \in Nat : [p EXCEPT !.photo[s] = n] \in Good
  BY DEF Good, Shape, Aligned
<1>4. ASSUME NEW p \in Good, NEW n \in Nat
      PROVE  [p EXCEPT !.quiz = Append(@, [by |-> n, page |-> Len(p.quiz) + 1])] \in Good
  <2> DEFINE a == [by |-> n, page |-> Len(p.quiz) + 1]
             q == Append(p.quiz, a)
             r == [p EXCEPT !.quiz = q]
  <2>1. p.quiz \in Seq([by : Nat, page : Nat]) /\ Len(p.quiz) \in Nat
    BY DEF Good, Shape
  <2>2. a \in [by : Nat, page : Nat] /\ a.page = Len(p.quiz) + 1
    BY <2>1
  <2> HIDE DEF a
  <2>3. /\ q \in Seq([by : Nat, page : Nat]) /\ Len(q) = Len(p.quiz) + 1
        /\ \A i \in 1 .. Len(p.quiz) : q[i] = p.quiz[i]
        /\ q[Len(p.quiz) + 1] = a
    BY <2>1, <2>2
  <2> HIDE DEF q
  <2>4. r \in Shape /\ r.quiz = q
    BY <2>3 DEF Good, Shape
  <2>5. Aligned(r)
    <3>1. \A i \in 1 .. Len(p.quiz) + 1 : i \in 1 .. Len(p.quiz) \/ i = Len(p.quiz) + 1
      BY <2>1
    <3>2. \A i \in 1 .. Len(p.quiz) : p.quiz[i].page = i
      BY DEF Good, Aligned
    <3>3. \A i \in 1 .. Len(q) : q[i].page = i
      BY <2>1, <2>2, <2>3, <3>1, <3>2
    <3> HIDE DEF r
    <3> QED
      BY <2>4, <3>3 DEF Aligned
  <2> QED
    BY <2>4, <2>5 DEF Good, q, a
<1> QED
  BY <1>1, <1>2, <1>3, <1>4

\* What the phone reads of the pet is a good profile or none.
LEMMA DocGood == ASSUME Documents PROVE Doc \in Good \cup {Absent}
<1>1. queue \in Seq(GoodWrite) /\ Len(queue) \in Nat
  BY DEF Documents
<1>2. \A i \in 1 .. Len(queue) : queue[i].val \in Good \cup {Absent}
  <2>1. \A i \in 1 .. Len(queue) : queue[i] \in GoodWrite
    BY <1>1
  <2> QED
    BY <2>1 DEF GoodWrite
<1>3. \/ View(db, queue, "pet") = db["pet"]
      \/ \E i \in 1 .. Len(queue) :
           queue[i].doc = "pet" /\ View(db, queue, "pet") = queue[i].val
  BY <1>1, ViewIsServerOrPending
<1> QED
  BY <1>2, <1>3 DEF Doc, Documents

\* An upload of a good profile, or a deletion, is a good write.
LEMMA UploadGood ==
  ASSUME Documents, NEW p \in Good \cup {Absent}, NEW ack \in Acks, NEW n \in Nat,
         Upload(p, ack, n), UNCHANGED db
  PROVE  Documents'
<1> DEFINE w == [doc |-> "pet", val |-> p, ack |-> ack, n |-> n]
<1>1. w \in GoodWrite
  BY DEF GoodWrite
<1>2. queue' = Append(queue, w)
  BY DEF Upload
<1> HIDE DEF w
<1> QED
  BY <1>1, <1>2 DEF Documents

\* Objects that are no longer in use are blank.
LEMMA InUseGood ==
  ASSUME NEW objs \in [0 .. MaxViews -> Good], NEW to, NEW ts
  PROVE  InUse(objs, to, ts) \in [0 .. MaxViews -> Good]
  BY GoodProfiles DEF InUse

\* A URL that is set, or taken away, in one of the objects.
LEMMA SetUrlGood ==
  ASSUME Objects, NEW v \in 0 .. MaxViews, NEW s \in Slot, NEW url \in Nat
  PROVE  /\ SetUrl(v, s, url) \in [0 .. MaxViews -> Good]
         /\ SetUrl(v, s, url)[v] \in Good
<1>1. [petObj[v] EXCEPT !.photo[s] = url] \in Good
  BY GoodProfiles DEF Objects
<1>2. SetUrl(v, s, url) = [petObj EXCEPT ![v] = [petObj[v] EXCEPT !.photo[s] = url]]
  BY DEF SetUrl
<1> QED
  BY <1>1, <1>2 DEF Objects

----------------------------------------------------------------------------

\* The answers of a pet made before are in their places.
LEMMA InitAnswers == Init => AnswersInv
<1> SUFFICES ASSUME Init PROVE AnswersInv
  OBVIOUS
<1>1. PICK old \in {Absent} \cup
             {[text |-> 1, quiz |-> OldQuiz, photo |-> [Blank.photo EXCEPT ![s] = 1]] : s \in Slot} :
        db = [d \in {"pet"} |-> old]
  BY DEF Init
<1>2. old \in Good \cup {Absent}
  <2> SUFFICES ASSUME NEW s \in Slot,
                      old = [text |-> 1, quiz |-> OldQuiz, photo |-> [Blank.photo EXCEPT ![s] = 1]]
               PROVE  old \in Good
    BY <1>1
  <2>1. /\ OldQuiz \in Seq([by : Nat, page : Nat])
        /\ \A i \in 1 .. Len(OldQuiz) : OldQuiz[i].page = i
    BY Bounds DEF OldQuiz
  <2>2. [Blank.photo EXCEPT ![s] = 1] \in [Slot -> Nat]
    BY DEF Blank
  <2>3. old \in Shape
    BY <2>1, <2>2 DEF Shape
  <2>4. old.quiz = OldQuiz
    OBVIOUS
  <2> QED
    BY <2>1, <2>3, <2>4 DEF Good, Aligned
<1>3. Documents
  BY <1>1, <1>2 DEF Init, Documents
<1>4. Objects
  BY GoodProfiles, Bounds DEF Init, Objects
<1>5. QuizAsksNext
  BY GoodProfiles DEF Init, QuizAsksNext, NoQuiz
<1> QED
  BY <1>3, <1>4, <1>5 DEF AnswersInv

\* The pet screen is opened and left; the objects of screens that are gone are
\* given up.
LEMMA ScreenAnswers ==
  ASSUME AnswersInv, OpenPet \/ Exit PROVE AnswersInv'
<1>1. Documents' /\ QuizAsksNext'
  BY DEF AnswersInv, OpenPet, Exit, Documents, QuizAsksNext
<1>2. Objects'
  <2>1. CASE OpenPet
    BY <2>1, Bounds DEF AnswersInv, OpenPet, Objects, storage, counters
  <2>2. CASE Exit
    BY <2>2, InUseGood DEF AnswersInv, Exit, Leave, Objects, storage, counters
  <2> QED
    BY <2>1, <2>2
<1> QED
  BY <1>1, <1>2 DEF AnswersInv

\* The object of a pet screen takes what its download brings.
LEMMA AnswerPetAnswers ==
  ASSUME AnswersInv, NEW v \in 1 .. MaxViews, AnswerPetIos(v) \/ AnswerPetAndroid(v)
  PROVE  AnswersInv'
<1>1. Documents' /\ QuizAsksNext'
  BY DEF AnswersInv, AnswerPetIos, AnswerPetAndroid, Documents, QuizAsksNext
<1>2. UNCHANGED <<transfers, view, texts, photos, quizzes>>
  BY DEF AnswerPetIos, AnswerPetAndroid, storage, counters
<1>3. petObj' \in [0 .. MaxViews -> Good]
  <2>1. petObj' = petObj \/ Filled(v)
    BY DEF AnswerPetIos, AnswerPetAndroid
  <2>2. CASE Doc # Absent /\ Filled(v)
    <3>1. Doc \in Good
      BY <2>2, DocGood DEF AnswersInv
    <3>2. [petObj EXCEPT ![v] = Doc] \in [0 .. MaxViews -> Good]
      BY <3>1 DEF AnswersInv, Objects
    <3> QED
      BY <2>2, <3>2, InUseGood DEF Filled
  <2>3. CASE Doc = Absent /\ Filled(v)
    BY <2>3 DEF Filled, AnswersInv, Objects
  <2>4. CASE petObj' = petObj
    BY <2>4 DEF AnswersInv, Objects
  <2> QED
    BY <2>1, <2>2, <2>3, <2>4
<1>4. Objects'
  BY <1>2, <1>3 DEF AnswersInv, Objects
<1> QED
  BY <1>1, <1>4 DEF AnswersInv

\* A save uploads the screen's object with the text of the fields.
LEMMA SaveAnswers == ASSUME AnswersInv, SaveIos \/ SaveAndroid PROVE AnswersInv'
<1>1. PICK fields \in Typed, ack \in {"save", NoAck} : SaveFields(fields, ack)
  BY DEF SaveIos, SaveAndroid
<1>2. /\ view \in 0 .. MaxViews /\ view \in Nat /\ petObj[view] \in Good
      /\ petObj[view].text \in Nat /\ texts \in Nat
  BY Bounds DEF AnswersInv, Objects, Good, Shape
<1>3. fields \in Nat
  BY <1>2, Bounds DEF Typed
<1>4. petObj' \in [0 .. MaxViews -> Good]
  <2>1. [petObj[view] EXCEPT !.text = fields] \in Good
    BY <1>2, <1>3, GoodProfiles
  <2>2. petObj' = [petObj EXCEPT ![view] = [petObj[view] EXCEPT !.text = fields]]
    BY <1>1 DEF SaveFields
  <2> QED
    BY <2>1, <2>2 DEF AnswersInv, Objects
<1>5. Upload(petObj'[view], ack, view) /\ UNCHANGED db /\ ack \in Acks
  BY <1>1 DEF SaveFields, Acks
<1>6. Documents'
  BY <1>2, <1>4, <1>5, UploadGood DEF AnswersInv
<1>7. Objects'
  BY <1>1, <1>2, <1>3, <1>4 DEF SaveFields, AnswersInv, Objects, storage
<1>8. QuizAsksNext'
  BY <1>1 DEF SaveFields, AnswersInv, QuizAsksNext
<1> QED
  BY <1>6, <1>7, <1>8 DEF AnswersInv

\* A deleted pet has no answers.
LEMMA DeletePetAnswers == ASSUME AnswersInv, DeletePet PROVE AnswersInv'
<1>1. view \in Nat /\ NoAck \in Acks /\ Upload(Absent, NoAck, view) /\ UNCHANGED db
  BY Bounds DEF DeletePet, AnswersInv, Objects, Acks
<1>2. Documents'
  BY <1>1, UploadGood DEF AnswersInv
<1>3. petObj' \in [0 .. MaxViews -> Good]
  BY InUseGood DEF DeletePet, CloseDeletedPet, AnswersInv, Objects
<1>4. Objects'
  BY <1>3 DEF DeletePet, AnswersInv, Objects, counters
<1>5. QuizAsksNext'
  BY DEF DeletePet, AnswersInv, QuizAsksNext
<1> QED
  BY <1>2, <1>4, <1>5 DEF AnswersInv

(* Photos *)

\* A photo that is deleted is uploaded on iOS with the screen's answers.
LEMMA DeletePhotoAnswers ==
  ASSUME AnswersInv, NEW s \in Slot, DeletePhotoIos(s) \/ DeletePhotoAndroid(s)
  PROVE  AnswersInv'
<1>1. view \in 0 .. MaxViews /\ view \in Nat /\ 0 \in Nat
  BY Bounds DEF AnswersInv, Objects
<1>2. petObj' = SetUrl(view, s, 0)
  BY DEF DeletePhotoIos, DeletePhotoAndroid
<1>3. petObj' \in [0 .. MaxViews -> Good] /\ petObj'[view] \in Good
  BY <1>1, <1>2, SetUrlGood DEF AnswersInv
<1>4. Documents'
  <2>1. CASE DeletePhotoIos(s)
    <3>1. Upload(petObj'[view], NoAck, view) /\ UNCHANGED db /\ NoAck \in Acks
      BY <2>1 DEF DeletePhotoIos, Acks
    <3> QED
      BY <1>1, <1>3, <3>1, UploadGood DEF AnswersInv
  <2>2. CASE DeletePhotoAndroid(s)
    BY <2>2 DEF DeletePhotoAndroid, AnswersInv, Documents
  <2> QED
    BY <2>1, <2>2
<1>5. Objects'
  BY <1>3 DEF DeletePhotoIos, DeletePhotoAndroid, AnswersInv, Objects, counters
<1>6. QuizAsksNext'
  BY DEF DeletePhotoIos, DeletePhotoAndroid, AnswersInv, QuizAsksNext
<1> QED
  BY <1>4, <1>5, <1>6 DEF AnswersInv

\* A photo that is picked takes at most a URL from the object.
LEMMA PickPhotoAnswers ==
  ASSUME AnswersInv, NEW s \in Slot, PickPhotoIos(s) \/ PickPhotoAndroid(s)
  PROVE  AnswersInv'
<1>1. Send(s) /\ petObj' \in {petObj, SetUrl(view, s, 0)}
  BY DEF PickPhotoIos, PickPhotoAndroid
<1>2. petObj' \in [0 .. MaxViews -> Good]
  BY <1>1, SetUrlGood DEF AnswersInv, Objects
<1>3. transfers' \subseteq Sent /\ photos' \in Nat
  <2> DEFINE t == [photo |-> photos + 1, slot |-> s, view |-> view]
  <2>1. t \in Sent
    BY DEF AnswersInv, Objects, Sent
  <2>2. transfers' = transfers \cup {t} /\ photos' = photos + 1
    BY <1>1 DEF Send
  <2> QED
    BY <2>1, <2>2 DEF AnswersInv, Objects
<1>4. Documents' /\ Objects' /\ QuizAsksNext'
  BY <1>1, <1>2, <1>3 DEF Send, AnswersInv, Documents, Objects, QuizAsksNext
<1> QED
  BY <1>4 DEF AnswersInv

\* A late photo goes into the object of the screen it was picked on, which is
\* uploaded with the answers that object has.
LEMMA GotUrlAnswers ==
  ASSUME AnswersInv, NEW t \in transfers, GotUrlIos(t) \/ GotUrlAndroid(t)
  PROVE  AnswersInv'
<1>1. /\ t.photo \in Nat /\ t.slot \in Slot /\ t.view \in 0 .. MaxViews /\ t.view \in Nat
  BY Bounds DEF AnswersInv, Objects, Sent
<1>2. GotUrl(t)
  BY DEF GotUrlIos, GotUrlAndroid
<1> DEFINE objs == SetUrl(t.view, t.slot, t.photo)
<1>3. objs \in [0 .. MaxViews -> Good] /\ objs[t.view] \in Good
  BY <1>1, SetUrlGood DEF AnswersInv
<1> HIDE DEF objs
<1>4. petObj' = InUse(objs, screen, transfers')
  BY <1>2 DEF GotUrl, objs
<1>5. petObj' \in [0 .. MaxViews -> Good]
  BY <1>3, <1>4, InUseGood
<1>6. Documents'
  <2>1. CASE GotUrlIos(t)
    <3>1. Upload(objs[t.view], NoAck, t.view) /\ UNCHANGED db /\ NoAck \in Acks
      BY <1>2, <2>1 DEF GotUrlIos, GotUrl, objs, Acks
    <3> QED
      BY <1>1, <1>3, <3>1, UploadGood DEF AnswersInv
  <2>2. CASE GotUrlAndroid(t)
    BY <1>2, <2>2 DEF GotUrlAndroid, GotUrl, AnswersInv, Documents
  <2> QED
    BY <2>1, <2>2
<1>7. Objects'
  BY <1>2, <1>5 DEF GotUrl, AnswersInv, Objects, counters
<1>8. QuizAsksNext'
  BY <1>2 DEF GotUrl, AnswersInv, QuizAsksNext
<1> QED
  BY <1>6, <1>7, <1>8 DEF AnswersInv

\* A photo that does not arrive changes no answers.
LEMMA TransferFailsAnswers ==
  ASSUME AnswersInv, NEW t \in transfers, TransferFails(t) PROVE AnswersInv'
<1>1. petObj' \in [0 .. MaxViews -> Good]
  BY InUseGood DEF TransferFails, AnswersInv, Objects
<1>2. Objects'
  BY <1>1 DEF TransferFails, AnswersInv, Objects
<1>3. Documents' /\ QuizAsksNext'
  BY DEF TransferFails, AnswersInv, Documents, QuizAsksNext
<1> QED
  BY <1>2, <1>3 DEF AnswersInv

(* The quiz *)

\* A quiz that is closed asks nothing.
LEMMA NoQuizAnswers == ASSUME quiz' = NoQuiz PROVE QuizAsksNext'
<1>1. NoQuiz.page = 0 /\ ~NoQuiz.asked
      /\ NoQuiz \in [obj : Good, page : Nat, asked : BOOLEAN, done : BOOLEAN]
  BY GoodProfiles DEF NoQuiz
<1> QED
  BY <1>1 DEF QuizAsksNext

\* The page that is asked follows those the quiz's own object has.
LEMMA AskPageNext ==
  ASSUME QuizAsksNext, NEW loaded \in Good, AskPage(loaded) PROVE QuizAsksNext'
<1>2. CASE NoneLeft(loaded.quiz)
  BY <1>2, NoQuizAnswers DEF AskPage
<1>3. CASE ~NoneLeft(loaded.quiz)
  <2>1. Len(loaded.quiz) + 1 \in Nat
    BY DEF Good, Shape
  <2> QED
    BY <1>3, <2>1 DEF AskPage, QuizAsksNext
<1> QED
  BY <1>2, <1>3

\* A new quiz has a blank object until its download is answered.
LEMMA StartQuizAnswers == ASSUME AnswersInv, StartQuiz PROVE AnswersInv'
<1>1. QuizAsksNext'
  BY GoodProfiles DEF StartQuiz, QuizAsksNext, NoQuiz
<1>2. Documents' /\ Objects'
  BY DEF StartQuiz, AnswersInv, Documents, Objects, storage
<1> QED
  BY <1>1, <1>2 DEF AnswersInv

\* The quiz takes what its download brings, on iOS also nothing.
LEMMA AnswerQuizAnswers ==
  ASSUME AnswersInv, AnswerQuizIos \/ AnswerQuizAndroid PROVE AnswersInv'
<1>1. Documents' /\ Objects'
  BY DEF AnswerQuizIos, AnswerQuizAndroid, AnswersInv, Documents, Objects, storage, counters
<1>2. quiz.obj \in Good /\ (Doc # Absent => Doc \in Good)
  BY DocGood DEF AnswersInv, QuizAsksNext
<1>3. QuizAsksNext'
  <2>1. CASE AnswerQuizIos
    BY <1>2, <2>1, AskPageNext DEF AnswerQuizIos, AnswersInv
  <2>2. CASE AnswerQuizAndroid /\ Doc # Absent
    BY <1>2, <2>2, AskPageNext DEF AnswerQuizAndroid, AnswersInv
  <2>3. CASE AnswerQuizAndroid /\ Doc = Absent
    BY <2>3, NoQuizAnswers DEF AnswerQuizAndroid
  <2> QED
    BY <2>1, <2>2, <2>3
<1> QED
  BY <1>1, <1>3 DEF AnswersInv

\* The answers that are added are to the page after those the object has, and
\* the object is uploaded as it then is.
LEMMA FinishQuizAnswers == ASSUME AnswersInv, FinishQuiz PROVE AnswersInv'
<1> DEFINE next == [by |-> quizzes, page |-> Len(quiz.obj.quiz) + 1]
           obj == [quiz.obj EXCEPT !.quiz = Append(@, next)]
<1>1. /\ quiz \in [obj : Good, page : Nat, asked : BOOLEAN, done : BOOLEAN]
      /\ quiz.page = Len(quiz.obj.quiz) + 1 /\ quizzes \in Nat
      /\ ~quiz.asked
  BY DEF FinishQuiz, AnswersInv, QuizAsksNext, Objects
<1>2. obj \in Good
  BY <1>1, GoodProfiles
<1>3. quiz' = [quiz EXCEPT !.obj.quiz = Append(@, [by |-> quizzes, page |-> quiz.page]),
                           !.done = TRUE]
  BY DEF FinishQuiz
<1>4. quiz'.obj = obj /\ quiz'.page = quiz.page /\ quiz'.done /\ quiz'.asked = quiz.asked
      /\ quiz' = [obj |-> obj, page |-> quiz.page, asked |-> quiz.asked, done |-> TRUE]
  BY <1>1, <1>3
<1> HIDE DEF obj
<1>5. Documents'
  <2>1. Upload(quiz'.obj, "quiz", quizzes) /\ UNCHANGED db /\ "quiz" \in Acks
    BY DEF FinishQuiz, Acks
  <2> QED
    BY <1>1, <1>2, <1>4, <2>1, UploadGood DEF AnswersInv
<1>6. QuizAsksNext'
  BY <1>1, <1>2, <1>4 DEF QuizAsksNext
<1>7. Objects'
  BY DEF FinishQuiz, AnswersInv, Objects, storage, counters
<1> QED
  BY <1>5, <1>6, <1>7 DEF AnswersInv

\* A closed quiz asks nothing; the pet screen downloads again.
LEMMA ExitQuizAnswers == ASSUME AnswersInv, ExitQuiz PROVE AnswersInv'
<1>1. QuizAsksNext'
  BY NoQuizAnswers DEF ExitQuiz, CloseQuiz
<1>2. Documents' /\ Objects'
  BY DEF ExitQuiz, AnswersInv, Documents, Objects, storage, counters
<1> QED
  BY <1>1, <1>2 DEF AnswersInv

\* Without its download the quiz of iOS asks the first page of a blank object.
LEMMA QuizReadFailsAnswers == ASSUME AnswersInv, QuizReadFails PROVE AnswersInv'
<1>1. QuizAsksNext'
  <2>1. /\ quiz \in [obj : Good, page : Nat, asked : BOOLEAN, done : BOOLEAN]
        /\ quiz.obj = Blank
    BY DEF QuizReadFails, AnswersInv, QuizAsksNext
  <2>2. PICK n \in {0, 1} : quiz' = [quiz EXCEPT !.asked = FALSE, !.page = n]
    BY DEF QuizReadFails
  <2>3. /\ quiz'.obj = Blank /\ quiz'.page = n /\ ~quiz'.asked
        /\ quiz' \in [obj : Good, page : Nat, asked : BOOLEAN, done : BOOLEAN]
    <3>1. quiz' = [obj |-> quiz.obj, page |-> n, asked |-> FALSE, done |-> quiz.done]
      BY <2>1, <2>2
    <3>2. quiz.done \in BOOLEAN /\ n \in Nat
      BY <2>1
    <3> QED
      BY <2>1, <3>1, <3>2, GoodProfiles
  <2> QED
    BY <2>3, GoodProfiles DEF QuizAsksNext
<1>2. Documents' /\ Objects'
  BY DEF QuizReadFails, AnswersInv, Documents, Objects, storage
<1> QED
  BY <1>1, <1>2 DEF AnswersInv

(* The library and the system *)

\* An acknowledged write is a good document, and closes at most the quiz or
\* the screen.
LEMMA FlushAnswers == ASSUME AnswersInv, Flush PROVE AnswersInv'
<1> DEFINE w == Head(queue)
<1>1. queue \in Seq(GoodWrite) /\ queue # <<>>
  BY DEF Flush, AnswersInv, Documents
<1>2. w \in GoodWrite /\ Tail(queue) \in Seq(GoodWrite)
  BY <1>1
<1>3. w.val \in Good \cup {Absent}
  BY <1>2 DEF GoodWrite
<1>4. db' = [db EXCEPT ![w.doc] = w.val] /\ queue' = Tail(queue)
  BY DEF Flush
<1>5. Documents'
  BY <1>2, <1>3, <1>4 DEF AnswersInv, Documents
<1>6. \/ CloseQuiz /\ UNCHANGED petObj
      \/ Leave /\ UNCHANGED quiz
      \/ UNCHANGED <<petObj, quiz>>
  BY DEF Flush
<1>7. petObj' \in [0 .. MaxViews -> Good]
  BY <1>6, InUseGood DEF Leave, AnswersInv, Objects
<1>8. Objects'
  BY <1>7 DEF Flush, AnswersInv, Objects, storage, counters
<1>9. QuizAsksNext'
  <2>1. CASE CloseQuiz
    BY <2>1, NoQuizAnswers DEF CloseQuiz
  <2>2. CASE UNCHANGED quiz
    BY <2>2 DEF AnswersInv, QuizAsksNext
  <2> QED
    BY <1>6, <2>1, <2>2
<1> QED
  BY <1>5, <1>8, <1>9 DEF AnswersInv

\* After a restart the objects are blank and the queue is what it was.
LEMMA RestartAnswers == ASSUME AnswersInv, Restart PROVE AnswersInv'
<1>1. queue \in Seq(GoodWrite) /\ Len(queue) \in Nat
  BY DEF AnswersInv, Documents
<1>2. queue' \in Seq(GoodWrite)
  <2>1. \A i \in 1 .. Len(queue) : [queue[i] EXCEPT !.ack = NoAck] \in GoodWrite
    <3> SUFFICES ASSUME NEW i \in 1 .. Len(queue)
                 PROVE  [queue[i] EXCEPT !.ack = NoAck] \in GoodWrite
      OBVIOUS
    <3>1. queue[i] \in GoodWrite
      BY <1>1
    <3> QED
      BY <3>1 DEF GoodWrite, Acks
  <2>2. queue' = [i \in 1 .. Len(queue) |-> [queue[i] EXCEPT !.ack = NoAck]]
    BY DEF Restart, WithoutAcks
  <2> QED
    BY <1>1, <2>1, <2>2
<1>3. Documents'
  BY <1>2 DEF Restart, AnswersInv, Documents
<1>4. Objects'
  BY GoodProfiles DEF Restart, AnswersInv, Objects
<1>5. QuizAsksNext'
  BY NoQuizAnswers DEF Restart
<1> QED
  BY <1>3, <1>4, <1>5 DEF AnswersInv

\* A step that touches no profile.
LEMMA IdleAnswers ==
  ASSUME AnswersInv,
         UNCHANGED <<db, queue, petObj, transfers, view, texts, photos, quizzes, quiz>>
  PROVE  AnswersInv'
  BY DEF AnswersInv, Documents, Objects, QuizAsksNext

\* Every handler of the pet screen, the photos and the quiz keeps the answers in
\* their places.
LEMMA NextAnswers == AnswersInv /\ [Next]_vars => AnswersInv'
<1> SUFFICES ASSUME AnswersInv, [Next]_vars PROVE AnswersInv'
  OBVIOUS
<1>1. CASE OpenPet \/ SaveIos \/ SaveAndroid \/ Exit \/ DeletePetIos \/ DeletePetAndroid
  BY <1>1, ScreenAnswers, SaveAnswers, DeletePetAnswers DEF DeletePetIos, DeletePetAndroid
<1>2. CASE StartQuiz \/ AnswerQuizIos \/ AnswerQuizAndroid \/ FinishQuiz \/ ExitQuiz
  BY <1>2, StartQuizAnswers, AnswerQuizAnswers, FinishQuizAnswers, ExitQuizAnswers
<1>3. CASE Flush \/ QuizReadFails \/ Restart
  BY <1>3, FlushAnswers, QuizReadFailsAnswers, RestartAnswers
<1>4. ASSUME NEW v \in 1 .. MaxViews, AnswerPetIos(v) \/ AnswerPetAndroid(v)
      PROVE  AnswersInv'
  BY <1>4, AnswerPetAnswers
<1>5. ASSUME NEW v \in 1 .. MaxViews, ReadFails(v) PROVE AnswersInv'
  BY <1>5, IdleAnswers DEF ReadFails, storage
<1>6. ASSUME NEW s \in Slot, DeletePhotoIos(s) \/ DeletePhotoAndroid(s)
                             \/ PickPhotoIos(s) \/ PickPhotoAndroid(s)
      PROVE  AnswersInv'
  BY <1>6, DeletePhotoAnswers, PickPhotoAnswers
<1>7. ASSUME NEW t \in transfers, GotUrlIos(t) \/ GotUrlAndroid(t) \/ TransferFails(t)
      PROVE  AnswersInv'
  BY <1>7, GotUrlAnswers, TransferFailsAnswers
<1>8. CASE UNCHANGED vars
  BY <1>8, IdleAnswers DEF vars
<1> QED
  BY <1>1, <1>2, <1>3, <1>4, <1>5, <1>6, <1>7, <1>8 DEF Next

\* The n-th answers of a pet are to the n-th page of questions, whatever was
\* uploaded when, and from which object (MatchingProfile compares two quizzes
\* place by place).
THEOREM AnswersInPlace == Spec => []AnswersAtQuestions
<1>1. AnswersInv => AnswersAtQuestions
  <2> SUFFICES ASSUME AnswersInv, Pet # Absent, NEW i \in 1 .. Len(Pet.quiz)
               PROVE  Pet.quiz[i].page = i
    BY DEF AnswersAtQuestions
  <2>1. Pet \in Good
    BY DEF AnswersInv, Documents, Pet
  <2> QED
    BY <2>1 DEF Good, Aligned
<1> QED
  BY <1>1, InitAnswers, NextAnswers, PTL DEF Spec

----------------------------------------------------------------------------
(* The types, and the screens that are to come *)

DocsTyped ==
  /\ db \in [{"pet"} -> Profile \cup {Absent}]
  /\ queue \in Seq(Write) /\ Len(queue) <= MaxQueue
PhotosTyped == files \subseteq 1 .. MaxPhotos /\ transfers \subseteq Transfer
QuizTyped ==
  quiz \in [obj : Profile, page : 0 .. Pages, asked : BOOLEAN, done : BOOLEAN]
WantedTyped == wanted \in {Absent, Unsure} \cup Given
CountersTyped ==
  /\ app \in Apps /\ unsaved \in BOOLEAN /\ gaveUp \in BOOLEAN /\ leftFile \in BOOLEAN
  /\ texts \in 0 .. MaxTexts /\ photos \in 0 .. MaxPhotos
  /\ quizzes \in 0 .. MaxQuizzes /\ faults \in 0 .. MaxFaults
\* A pet screen or a quiz that is shown has a number.
ScreenTyped ==
  /\ screen \in {"home", "pet", "quiz", "crashed"} /\ view \in 0 .. MaxViews
  /\ screen \in {"pet", "quiz"} => view \in 1 .. MaxViews
ObjectsTyped == petObj \in [0 .. MaxViews -> Profile]
ReadsTyped == reads \in [0 .. MaxViews -> 0 .. MaxReads]
\* A screen that is yet to be opened has a blank object, and nothing is under
\* way for it.
Future ==
  /\ \A w \in 0 .. MaxViews : w > view => petObj[w] = Blank /\ reads[w] = 0
  /\ \A t \in transfers : t.view <= view

TypeInv ==
  /\ DocsTyped /\ PhotosTyped /\ QuizTyped /\ WantedTyped /\ CountersTyped
  /\ ScreenTyped /\ ObjectsTyped /\ ReadsTyped /\ Future

\* What the code does to a profile object leaves a profile.
LEMMA Profiles ==
  /\ Blank \in Profile /\ Nothing \in Given /\ NoQuiz.obj = Blank
  /\ NoQuiz \in [obj : Profile, page : 0 .. Pages, asked : BOOLEAN, done : BOOLEAN]
  /\ \A p \in Profile, t \in 0 .. MaxTexts : [p EXCEPT !.text = t] \in Profile
  /\ \A p \in Profile, s \in Slot, n \in 0 .. MaxPhotos : [p EXCEPT !.photo[s] = n] \in Profile
  /\ \A p \in Profile, a \in Answers : [p EXCEPT !.quiz = Append(@, a)] \in Profile
  /\ \A w \in Given, t \in 0 .. MaxTexts : [w EXCEPT !.text = t] \in Given
  /\ \A w \in Given, a \in Answers : [w EXCEPT !.quiz = Append(@, a)] \in Given
<1>1. Blank \in Profile /\ Nothing \in Given /\ NoQuiz.obj = Blank
  BY Bounds DEF Blank, Profile, Nothing, Given, NoQuiz
<1>2. NoQuiz \in [obj : Profile, page : 0 .. Pages, asked : BOOLEAN, done : BOOLEAN]
  BY <1>1, Bounds DEF NoQuiz
<1>3. \A p \in Profile, t \in 0 .. MaxTexts : [p EXCEPT !.text = t] \in Profile
  BY DEF Profile
<1>4. \A p \in Profile, s \in Slot, n \in 0 .. MaxPhotos : [p EXCEPT !.photo[s] = n] \in Profile
  BY DEF Profile
<1>5. \A p \in Profile, a \in Answers : [p EXCEPT !.quiz = Append(@, a)] \in Profile
  <2> SUFFICES ASSUME NEW p \in Profile, NEW a \in Answers, NEW q, q = Append(p.quiz, a)
               PROVE  [p EXCEPT !.quiz = q] \in Profile
    OBVIOUS
  <2>1. q \in Seq(Answers)
    BY DEF Profile
  <2> QED
    BY <2>1 DEF Profile
<1>6. \A w \in Given, t \in 0 .. MaxTexts : [w EXCEPT !.text = t] \in Given
  BY DEF Given
<1>7. \A w \in Given, a \in Answers : [w EXCEPT !.quiz = Append(@, a)] \in Given
  BY DEF Given
<1> QED
  BY <1>1, <1>2, <1>3, <1>4, <1>5, <1>6, <1>7

\* What the phone reads of the pet is a profile or none.
LEMMA DocTyped == ASSUME DocsTyped PROVE Doc \in Profile \cup {Absent}
<1>1. queue \in Seq(Write) /\ Len(queue) \in Nat
  BY DEF DocsTyped
<1>2. \A i \in 1 .. Len(queue) : queue[i].val \in Profile \cup {Absent}
  <2>1. \A i \in 1 .. Len(queue) : queue[i] \in Write
    BY <1>1
  <2> QED
    BY <2>1 DEF Write
<1>3. \/ View(db, queue, "pet") = db["pet"]
      \/ \E i \in 1 .. Len(queue) :
           queue[i].doc = "pet" /\ View(db, queue, "pet") = queue[i].val
  BY <1>1, ViewIsServerOrPending
<1> QED
  BY <1>2, <1>3 DEF Doc, DocsTyped

\* upload() and the deletion put a write into the queue, and it is what the phone
\* reads from then on.
LEMMA UploadTyped ==
  ASSUME DocsTyped, NEW p \in Profile \cup {Absent}, NEW ack \in Acks, NEW n \in Nat,
         Upload(p, ack, n), UNCHANGED db
  PROVE  DocsTyped' /\ Doc' = p
<1> DEFINE w == [doc |-> "pet", val |-> p, ack |-> ack, n |-> n]
<1>1. w \in Write /\ w.doc = "pet" /\ w.val = p
  BY DEF Write
<1>2. queue' = Append(queue, w) /\ Len(queue) < MaxQueue
  BY DEF Upload
<1> HIDE DEF w
<1>3. queue \in Seq(Write) /\ Len(queue) \in Nat /\ MaxQueue \in Nat
  BY Bounds DEF DocsTyped
<1>4. DocsTyped'
  BY <1>1, <1>2, <1>3 DEF DocsTyped
<1>5. View(db, Append(queue, w), "pet") = p
  BY <1>1, <1>3, ViewAppend
<1> QED
  BY <1>2, <1>4, <1>5 DEF Doc

\* What is wanted after what the owner asks for.
LEMMA WantsTyped ==
  ASSUME WantedTyped, NEW w, NEW hasty \in BOOLEAN, Wants(w, hasty),
         wanted \in Given => w \in Given \cup {Absent}
  PROVE  WantedTyped'
  BY DEF Wants, WantedTyped

\* An object that is no longer in use is blank.
LEMMA InUseTyped ==
  ASSUME NEW objs \in [0 .. MaxViews -> Profile], NEW to, NEW ts
  PROVE  /\ InUse(objs, to, ts) \in [0 .. MaxViews -> Profile]
         /\ \A v \in 0 .. MaxViews : objs[v] = Blank => InUse(objs, to, ts)[v] = Blank
  BY Profiles DEF InUse

\* A URL that is set, or taken away, in one of the objects.
LEMMA SetUrlTyped ==
  ASSUME ObjectsTyped, NEW v \in 0 .. MaxViews, NEW s \in Slot, NEW url \in 0 .. MaxPhotos
  PROVE  /\ SetUrl(v, s, url) \in [0 .. MaxViews -> Profile]
         /\ SetUrl(v, s, url)[v] \in Profile
         /\ \A w \in 0 .. MaxViews : w # v => SetUrl(v, s, url)[w] = petObj[w]
<1>1. [petObj[v] EXCEPT !.photo[s] = url] \in Profile
  BY Profiles DEF ObjectsTyped
<1>2. SetUrl(v, s, url) = [petObj EXCEPT ![v] = [petObj[v] EXCEPT !.photo[s] = url]]
  BY DEF SetUrl
<1> QED
  BY <1>1, <1>2 DEF ObjectsTyped

\* A download that is asked for.
LEMMA DownloadTyped ==
  ASSUME ReadsTyped, NEW v \in 0 .. MaxViews, Download(v)
  PROVE  /\ ReadsTyped' /\ reads'[v] > 0
         /\ \A w \in 0 .. MaxViews : w # v => reads'[w] = reads[w]
  BY Bounds DEF ReadsTyped, Download

\* A download that has come to an end.
LEMMA ReadDone ==
  ASSUME ReadsTyped, NEW v \in 0 .. MaxViews, reads[v] > 0,
         reads' = [reads EXCEPT ![v] = @ - 1]
  PROVE  /\ ReadsTyped' /\ reads'[v] = reads[v] - 1
         /\ \A w \in 0 .. MaxViews : w # v => reads'[w] = reads[w]
  BY Bounds DEF ReadsTyped

\* The pet is new or of another phone.
LEMMA InitTyped == Init => TypeInv /\ wanted \in Given
<1> SUFFICES ASSUME Init PROVE TypeInv /\ wanted \in Given
  OBVIOUS
<1>1. PICK old \in {Absent} \cup
             {[text |-> 1, quiz |-> OldQuiz, photo |-> [Blank.photo EXCEPT ![s] = 1]] : s \in Slot} :
        /\ db = [d \in {"pet"} |-> old]
        /\ files = IF old = Absent THEN {} ELSE Urls(old)
        /\ wanted = IF old = Absent THEN Nothing ELSE [text |-> 1, quiz |-> old.quiz]
  BY DEF Init
<1>2. /\ db \in [{"pet"} -> Profile \cup {Absent}]
      /\ files \subseteq 1 .. MaxPhotos
      /\ wanted \in Given
  <2>1. CASE old = Absent
    BY <1>1, <2>1, Profiles
  <2>2. CASE old # Absent
    <3>1. PICK s \in Slot :
            old = [text |-> 1, quiz |-> OldQuiz, photo |-> [Blank.photo EXCEPT ![s] = 1]]
      BY <1>1, <2>2
    <3>2. OldQuiz \in Seq(Answers)
      BY Bounds DEF OldQuiz, Answers
    <3>3. /\ [Blank.photo EXCEPT ![s] = 1] \in [Slot -> 0 .. MaxPhotos]
          /\ 1 \in 0 .. MaxTexts
      BY Bounds DEF Blank
    <3>4. old \in Profile /\ old.quiz \in Seq(Answers)
      BY <3>1, <3>2, <3>3 DEF Profile
    <3>5. Urls(old) \subseteq 1 .. MaxPhotos
      BY <3>4, Bounds DEF Urls, Profile
    <3>6. [text |-> 1, quiz |-> old.quiz] \in Given
      BY <3>3, <3>4 DEF Given
    <3> QED
      BY <1>1, <2>2, <3>4, <3>5, <3>6
  <2> QED
    BY <2>1, <2>2
<1>3. DocsTyped
  BY <1>2, Bounds DEF Init, DocsTyped
<1>4. PhotosTyped /\ QuizTyped /\ WantedTyped
  BY <1>2, Profiles DEF Init, PhotosTyped, QuizTyped, WantedTyped
<1>5. CountersTyped
  <2>1. app \in Apps /\ unsaved = FALSE /\ gaveUp = FALSE /\ leftFile = FALSE
    BY DEF Init
  <2>2. texts = 1 /\ photos = 1 /\ quizzes = 0 /\ faults = 0
    BY DEF Init
  <2>3. /\ 1 \in 0 .. MaxTexts /\ 1 \in 0 .. MaxPhotos
        /\ 0 \in 0 .. MaxQuizzes /\ 0 \in 0 .. MaxFaults
    BY Bounds
  <2> QED
    BY <2>1, <2>2, <2>3, Zenon DEF CountersTyped
<1>6. ScreenTyped /\ ReadsTyped
  BY Bounds DEF Init, ScreenTyped, ReadsTyped
<1>7. ObjectsTyped /\ Future
  BY Profiles DEF Init, ObjectsTyped, Future
<1> QED
  BY <1>2, <1>3, <1>4, <1>5, <1>6, <1>7 DEF TypeInv

\* The pet screen is opened: the first download of a new object.
LEMMA OpenPetTyped == ASSUME TypeInv, OpenPet PROVE TypeInv'
<1>1. view \in 0 .. MaxViews /\ view + 1 \in 1 .. MaxViews /\ view + 1 \in 0 .. MaxViews
  BY Bounds DEF TypeInv, ScreenTyped, OpenPet
<1>2. /\ ReadsTyped'
      /\ \A w \in 0 .. MaxViews : w # view + 1 => reads'[w] = reads[w]
  BY <1>1, DownloadTyped DEF TypeInv, OpenPet
<1>3. ScreenTyped' /\ WantedTyped'
  BY <1>1, Profiles DEF TypeInv, ScreenTyped, WantedTyped, OpenPet
<1>4. Future'
  <2>1. \A w \in 0 .. MaxViews : w > view' => w > view /\ w # view + 1
    BY <1>1, Bounds DEF OpenPet
  <2>2. \A t \in transfers : t.view \in Nat /\ t.view <= view
    BY Bounds DEF TypeInv, PhotosTyped, Transfer, Future
  <2>3. \A t \in transfers : t.view <= view + 1
    BY <1>1, <2>2, Bounds
  <2> QED
    BY <1>2, <2>1, <2>3 DEF TypeInv, Future, OpenPet, storage
<1>5. DocsTyped' /\ PhotosTyped' /\ QuizTyped' /\ CountersTyped' /\ ObjectsTyped'
  BY DEF TypeInv, OpenPet, DocsTyped, PhotosTyped, QuizTyped, CountersTyped, ObjectsTyped,
     storage, leavings, counters
<1> QED
  BY <1>2, <1>3, <1>4, <1>5 DEF TypeInv

\* A download that is answered fills its object, one that fails does not.
LEMMA AnswerPetTyped ==
  ASSUME TypeInv, NEW v \in 1 .. MaxViews,
         AnswerPetIos(v) \/ AnswerPetAndroid(v) \/ ReadFails(v)
  PROVE  TypeInv'
<1>1. v \in 0 .. MaxViews /\ reads[v] > 0 /\ view \in Nat
  <2>1. reads[v] > 0
    BY DEF AnswerPetIos, AnswerPetAndroid, ReadFails
  <2> QED
    BY <2>1, Bounds DEF TypeInv, ScreenTyped
<1>2. v <= view
  BY <1>1, Bounds DEF TypeInv, Future
<1>3. /\ UNCHANGED <<app, db, queue, storage, view, quiz, leavings, texts, photos, quizzes>>
      /\ \/ UNCHANGED <<faults, wanted>>
         \/ Fault /\ Wants(wanted, TRUE)
  BY DEF AnswerPetIos, AnswerPetAndroid, ReadFails, counters
<1>4. /\ reads' = reads \/ reads' = [reads EXCEPT ![v] = @ - 1]
      /\ screen' \in {screen, "crashed"}
      /\ \/ petObj' = petObj
         \/ Doc # Absent /\ petObj' = InUse([petObj EXCEPT ![v] = Doc], screen, transfers)
  BY DEF AnswerPetIos, AnswerPetAndroid, ReadFails, Filled
<1>5. ReadsTyped' /\ \A w \in 0 .. MaxViews : w # v => reads'[w] = reads[w]
  BY <1>1, <1>4, ReadDone DEF TypeInv, ReadsTyped
<1>6. ObjectsTyped' /\ \A w \in 0 .. MaxViews : w > view => petObj'[w] = Blank
  <2>1. CASE petObj' = petObj
    BY <2>1 DEF TypeInv, ObjectsTyped, Future
  <2>2. CASE Doc # Absent /\ petObj' = InUse([petObj EXCEPT ![v] = Doc], screen, transfers)
    <3> DEFINE objs == [petObj EXCEPT ![v] = Doc]
    <3>1. Doc \in Profile
      BY <2>2, DocTyped DEF TypeInv
    <3>2. objs \in [0 .. MaxViews -> Profile]
      BY <3>1 DEF TypeInv, ObjectsTyped
    <3>3. \A w \in 0 .. MaxViews : w > view => objs[w] = Blank
      BY <1>1, <1>2, Bounds DEF TypeInv, ObjectsTyped, Future
    <3> HIDE DEF objs
    <3>4. petObj' = InUse(objs, screen, transfers)
      BY <2>2 DEF objs
    <3> QED
      BY <3>2, <3>3, <3>4, InUseTyped DEF ObjectsTyped
  <2> QED
    BY <1>4, <2>1, <2>2
<1>7. Future'
  <2>1. \A w \in 0 .. MaxViews : w > view => w # v
    BY <1>1, <1>2, Bounds
  <2> QED
    BY <1>3, <1>5, <1>6, <2>1 DEF TypeInv, Future, storage
<1>8. ScreenTyped'
  BY <1>3, <1>4 DEF TypeInv, ScreenTyped
<1>9. WantedTyped' /\ CountersTyped'
  <2>1. WantedTyped'
    BY <1>3 DEF TypeInv, WantedTyped, Wants
  <2>2. faults' \in 0 .. MaxFaults
    <3>1. faults \in 0 .. MaxFaults
      BY DEF TypeInv, CountersTyped
    <3>2. faults' = faults \/ (faults < MaxFaults /\ faults' = faults + 1)
      BY <1>3 DEF Fault
    <3> QED
      BY <3>1, <3>2, Bounds
  <2> QED
    BY <1>3, <2>1, <2>2 DEF TypeInv, CountersTyped, leavings
<1>10. DocsTyped' /\ PhotosTyped' /\ QuizTyped'
  BY <1>3 DEF TypeInv, DocsTyped, PhotosTyped, QuizTyped, storage
<1> QED
  BY <1>5, <1>6, <1>7, <1>8, <1>9, <1>10 DEF TypeInv

\* A save: text of the fields, and an upload.
LEMMA SaveTyped == ASSUME TypeInv, SaveIos \/ SaveAndroid PROVE TypeInv'
<1>1. PICK fields \in Typed, ack \in {"save", NoAck} : SaveFields(fields, ack) /\ screen = "pet"
  BY DEF SaveIos, SaveAndroid
<1>2. view \in 1 .. MaxViews /\ view \in 0 .. MaxViews /\ view \in Nat
  BY <1>1, Bounds DEF TypeInv, ScreenTyped
<1>3. petObj[view] \in Profile /\ petObj[view].text \in 0 .. MaxTexts
  BY <1>2 DEF TypeInv, ObjectsTyped, Profile
<1>4. fields \in 0 .. MaxTexts /\ texts' \in 0 .. MaxTexts
  <2>1. fields = petObj[view].text \/ (fields = texts + 1 /\ fields <= MaxTexts)
    BY <1>1 DEF Typed
  <2>2. texts \in 0 .. MaxTexts /\ (texts' = texts \/ texts' = fields)
    BY <1>1 DEF TypeInv, CountersTyped, SaveFields
  <2> QED
    BY <1>3, <2>1, <2>2, Bounds
<1>5. petObj' = [petObj EXCEPT ![view] = [petObj[view] EXCEPT !.text = fields]]
  BY <1>1 DEF SaveFields
<1>6. [petObj[view] EXCEPT !.text = fields] \in Profile
  BY <1>3, <1>4, Profiles
<1>7. /\ ObjectsTyped' /\ petObj'[view] \in Profile
      /\ \A w \in 0 .. MaxViews : w > view => petObj'[w] = petObj[w]
  BY <1>2, <1>5, <1>6, Bounds DEF TypeInv, ObjectsTyped
<1>8. DocsTyped'
  <2>1. Upload(petObj'[view], ack, view) /\ UNCHANGED db /\ ack \in Acks
    BY <1>1 DEF SaveFields, Acks
  <2> QED
    BY <1>2, <1>7, <2>1, UploadTyped DEF TypeInv
<1>9. WantedTyped'
  <2>1. wanted \in Given => [wanted EXCEPT !.text = fields] \in Given
    BY <1>4, Profiles
  <2> QED
    BY <1>1, <2>1 DEF TypeInv, WantedTyped, SaveFields, Wants
<1>10. Future' /\ ScreenTyped' /\ ReadsTyped'
  BY <1>1, <1>7 DEF SaveFields, TypeInv, Future, ScreenTyped, ReadsTyped, storage
<1>11. PhotosTyped' /\ QuizTyped' /\ CountersTyped'
  BY <1>1, <1>4 DEF SaveFields, TypeInv, PhotosTyped, QuizTyped, CountersTyped, storage
<1> QED
  BY <1>7, <1>8, <1>9, <1>10, <1>11 DEF TypeInv

\* Back to the first screen: only objects go.
LEMMA ExitTyped == ASSUME TypeInv, Exit PROVE TypeInv'
<1>1. ObjectsTyped' /\ \A w \in 0 .. MaxViews : petObj[w] = Blank => petObj'[w] = Blank
  BY InUseTyped DEF TypeInv, ObjectsTyped, Exit, Leave
<1>2. Future' /\ ScreenTyped' /\ ReadsTyped'
  BY <1>1 DEF Exit, Leave, TypeInv, Future, ScreenTyped, ReadsTyped, storage
<1>3. DocsTyped' /\ PhotosTyped' /\ QuizTyped' /\ WantedTyped'
  BY DEF Exit, TypeInv, DocsTyped, PhotosTyped, QuizTyped, WantedTyped, storage
<1>4. CountersTyped'
  BY DEF Exit, Leave, TypeInv, CountersTyped, counters
<1> QED
  BY <1>1, <1>2, <1>3, <1>4 DEF TypeInv

\* Deleting the pet: the deletion is queued, the screen closed.
LEMMA DeletePetTyped ==
  ASSUME TypeInv, DeletePetIos \/ DeletePetAndroid PROVE TypeInv'
<1>1. DeletePet
  BY DEF DeletePetIos, DeletePetAndroid
<1>2. view \in Nat
  BY Bounds DEF TypeInv, ScreenTyped
<1>3. DocsTyped'
  <2>1. Upload(Absent, NoAck, view) /\ UNCHANGED db /\ NoAck \in Acks
    BY <1>1 DEF DeletePet, Acks
  <2> QED
    BY <1>2, <2>1, UploadTyped DEF TypeInv
<1>4. ObjectsTyped' /\ \A w \in 0 .. MaxViews : petObj[w] = Blank => petObj'[w] = Blank
  BY <1>1, InUseTyped DEF TypeInv, ObjectsTyped, DeletePet, CloseDeletedPet
<1>5. Future' /\ ScreenTyped' /\ ReadsTyped'
  BY <1>1, <1>4 DEF DeletePet, CloseDeletedPet, TypeInv, Future, ScreenTyped, ReadsTyped
<1>6. PhotosTyped' /\ QuizTyped'
  BY <1>1 DEF DeletePetIos, DeletePetAndroid, DeletePet, TypeInv, PhotosTyped, QuizTyped
<1>7. WantedTyped'
  BY <1>1 DEF DeletePet, Wants, TypeInv, WantedTyped
<1>8. CountersTyped'
  <2>1. gaveUp' \in BOOLEAN /\ unsaved' \in BOOLEAN /\ leftFile' \in BOOLEAN
    BY <1>1 DEF DeletePetIos, DeletePetAndroid, DeletePet, CloseDeletedPet, TypeInv, CountersTyped
  <2> QED
    BY <1>1, <2>1 DEF DeletePet, TypeInv, CountersTyped, counters
<1> QED
  BY <1>3, <1>4, <1>5, <1>6, <1>7, <1>8 DEF TypeInv

\* A photo that is deleted on its sheet.
LEMMA DeletePhotoTyped ==
  ASSUME TypeInv, NEW s \in Slot, DeletePhotoIos(s) \/ DeletePhotoAndroid(s)
  PROVE  TypeInv'
<1>1. screen = "pet" /\ petObj' = SetUrl(view, s, 0) /\ files' = Without(view, s)
  BY DEF DeletePhotoIos, DeletePhotoAndroid
<1>2. view \in 0 .. MaxViews /\ view \in Nat /\ 0 \in 0 .. MaxPhotos
  BY <1>1, Bounds DEF TypeInv, ScreenTyped
<1>3. /\ ObjectsTyped' /\ petObj'[view] \in Profile
      /\ \A w \in 0 .. MaxViews : w # view => petObj'[w] = petObj[w]
  <2>1. ObjectsTyped
    BY DEF TypeInv
  <2>2. /\ petObj' \in [0 .. MaxViews -> Profile] /\ petObj'[view] \in Profile
        /\ \A w \in 0 .. MaxViews : w # view => petObj'[w] = petObj[w]
    BY <1>1, <1>2, <2>1, SetUrlTyped
  <2> QED
    BY <2>2 DEF ObjectsTyped
<1>4. DocsTyped'
  <2>1. CASE DeletePhotoIos(s)
    <3>1. Upload(petObj'[view], NoAck, view) /\ UNCHANGED db /\ NoAck \in Acks
      BY <2>1 DEF DeletePhotoIos, Acks
    <3> QED
      BY <1>2, <1>3, <3>1, UploadTyped DEF TypeInv
  <2>2. CASE DeletePhotoAndroid(s)
    BY <2>2 DEF DeletePhotoAndroid, TypeInv, DocsTyped
  <2> QED
    BY <2>1, <2>2
<1>5. UNCHANGED <<app, transfers, screen, view, reads, quiz, gaveUp, leftFile, texts,
                photos, quizzes, faults>>
  BY DEF DeletePhotoIos, DeletePhotoAndroid, leavings, counters
<1>6. Future'
  <2>1. \A w \in 0 .. MaxViews : w > view => w # view
    BY <1>2, Bounds
  <2> QED
    BY <1>3, <1>5, <2>1 DEF TypeInv, Future
<1>7. PhotosTyped' /\ ScreenTyped' /\ ReadsTyped' /\ QuizTyped'
  BY <1>1, <1>5 DEF Without, TypeInv, PhotosTyped, ScreenTyped, ReadsTyped, QuizTyped
<1>8. WantedTyped'
  BY DEF DeletePhotoIos, DeletePhotoAndroid, Wants, TypeInv, WantedTyped
<1>9. CountersTyped'
  <2>1. unsaved' \in BOOLEAN
    BY DEF DeletePhotoIos, DeletePhotoAndroid, leavings, TypeInv, CountersTyped
  <2> QED
    BY <1>5, <2>1 DEF TypeInv, CountersTyped
<1> QED
  BY <1>3, <1>4, <1>6, <1>7, <1>8, <1>9 DEF TypeInv

\* A photo from the gallery is on its way.
LEMMA PickPhotoTyped ==
  ASSUME TypeInv, NEW s \in Slot, PickPhotoIos(s) \/ PickPhotoAndroid(s)
  PROVE  TypeInv'
<1> DEFINE t == [photo |-> photos + 1, slot |-> s, view |-> view]
<1>1. Send(s)
  BY DEF PickPhotoIos, PickPhotoAndroid
<1>2. /\ screen = "pet" /\ photos < MaxPhotos /\ photos' = photos + 1
      /\ transfers' = transfers \cup {t}
      /\ UNCHANGED <<app, db, queue, screen, view, quiz, gaveUp, leftFile, texts,
                     quizzes, faults>>
  BY <1>1 DEF Send
<1>3. view \in 1 .. MaxViews /\ view \in 0 .. MaxViews /\ view \in Nat
  BY <1>2, Bounds DEF TypeInv, ScreenTyped
<1>4. photos + 1 \in 1 .. MaxPhotos /\ photos + 1 \in 0 .. MaxPhotos /\ 0 \in 0 .. MaxPhotos
  <2>1. photos \in 0 .. MaxPhotos
    BY DEF TypeInv, CountersTyped
  <2> QED
    BY <1>2, <2>1, Bounds
<1>5. t \in Transfer /\ t.view = view
  BY <1>3, <1>4 DEF Transfer
<1> HIDE DEF t
<1>6. /\ petObj' = petObj \/ petObj' = SetUrl(view, s, 0)
      /\ files' = files \/ files' = Without(view, s)
      /\ unsaved' = unsaved \/ unsaved' = TRUE
      /\ WantedTyped'
  BY DEF PickPhotoIos, PickPhotoAndroid, Wants, TypeInv, WantedTyped
<1>7. /\ ObjectsTyped'
      /\ \A w \in 0 .. MaxViews : w # view => petObj'[w] = petObj[w]
  <2>1. ObjectsTyped
    BY DEF TypeInv
  <2>2. CASE petObj' = petObj
    BY <2>1, <2>2 DEF ObjectsTyped
  <2>3. CASE petObj' = SetUrl(view, s, 0)
    <3>1. /\ petObj' \in [0 .. MaxViews -> Profile]
          /\ \A w \in 0 .. MaxViews : w # view => petObj'[w] = petObj[w]
      BY <1>3, <1>4, <2>1, <2>3, SetUrlTyped
    <3> QED
      BY <3>1 DEF ObjectsTyped
  <2> QED
    BY <1>6, <2>2, <2>3
<1>8. ReadsTyped' /\ \A w \in 0 .. MaxViews : w # view => reads'[w] = reads[w]
  <2>1. Download(view) \/ UNCHANGED reads
    BY DEF PickPhotoIos, PickPhotoAndroid, Appear
  <2> QED
    BY <1>3, <2>1, DownloadTyped DEF TypeInv, ReadsTyped
<1>9. Future'
  <2>1. \A w \in 0 .. MaxViews : w > view => w # view
    BY <1>3, Bounds
  <2>2. \A x \in transfers' : x.view <= view
    BY <1>2, <1>3, <1>5 DEF TypeInv, Future
  <2> QED
    BY <1>2, <1>7, <1>8, <2>1, <2>2 DEF TypeInv, Future
<1>10. PhotosTyped'
  BY <1>2, <1>5, <1>6 DEF Without, TypeInv, PhotosTyped
<1>11. DocsTyped' /\ QuizTyped' /\ ScreenTyped'
  BY <1>2 DEF TypeInv, DocsTyped, QuizTyped, ScreenTyped
<1>12. CountersTyped'
  <2>1. photos' \in 0 .. MaxPhotos
    BY <1>2, <1>4
  <2>2. unsaved' \in BOOLEAN
    BY <1>6 DEF TypeInv, CountersTyped
  <2> QED
    BY <1>2, <2>1, <2>2 DEF TypeInv, CountersTyped
<1> QED
  BY <1>6, <1>7, <1>8, <1>9, <1>10, <1>11, <1>12 DEF TypeInv

\* A photo is in Storage and its URL in the object.
LEMMA GotUrlTyped ==
  ASSUME TypeInv, NEW t \in transfers, GotUrlIos(t) \/ GotUrlAndroid(t)
  PROVE  TypeInv'
<1>1. /\ t.photo \in 1 .. MaxPhotos /\ t.photo \in 0 .. MaxPhotos /\ t.slot \in Slot
      /\ t.view \in 0 .. MaxViews /\ t.view \in Nat
  BY Bounds DEF TypeInv, PhotosTyped, Transfer
<1>2. t.view <= view /\ view \in Nat
  BY Bounds DEF TypeInv, Future, ScreenTyped
<1>3. GotUrl(t)
  BY DEF GotUrlIos, GotUrlAndroid
<1> DEFINE objs == SetUrl(t.view, t.slot, t.photo)
<1>4. /\ objs \in [0 .. MaxViews -> Profile] /\ objs[t.view] \in Profile
      /\ \A w \in 0 .. MaxViews : w # t.view => objs[w] = petObj[w]
  <2>1. ObjectsTyped
    BY DEF TypeInv
  <2> QED
    BY <1>1, <2>1, SetUrlTyped
<1> HIDE DEF objs
<1>5. /\ petObj' = InUse(objs, screen, transfers') /\ transfers' \subseteq transfers
      /\ UNCHANGED <<app, db, screen, view, reads, quiz, counters>>
  BY <1>3 DEF GotUrl, objs
<1>6. ObjectsTyped' /\ \A w \in 0 .. MaxViews : objs[w] = Blank => petObj'[w] = Blank
  BY <1>4, <1>5, InUseTyped DEF ObjectsTyped
<1>7. DocsTyped'
  <2>1. CASE GotUrlIos(t)
    <3>1. Upload(objs[t.view], NoAck, t.view) /\ NoAck \in Acks
      BY <2>1 DEF GotUrlIos, objs, Acks
    <3> QED
      BY <1>1, <1>4, <1>5, <3>1, UploadTyped DEF TypeInv
  <2>2. CASE GotUrlAndroid(t)
    BY <1>5, <2>2 DEF GotUrlAndroid, TypeInv, DocsTyped
  <2> QED
    BY <2>1, <2>2
<1>8. Future'
  <2>1. \A w \in 0 .. MaxViews : w > view => w # t.view
    BY <1>1, <1>2, Bounds
  <2> QED
    BY <1>4, <1>5, <1>6, <2>1 DEF TypeInv, Future
<1>9. PhotosTyped'
  <2>1. files' \subseteq files \cup {t.photo}
    BY DEF GotUrlIos, GotUrlAndroid, Without
  <2> QED
    BY <1>1, <1>5, <2>1 DEF TypeInv, PhotosTyped
<1>10. QuizTyped' /\ ScreenTyped' /\ ReadsTyped'
  BY <1>5 DEF TypeInv, QuizTyped, ScreenTyped, ReadsTyped
<1>11. WantedTyped'
  BY DEF GotUrlIos, GotUrlAndroid, Wants, TypeInv, WantedTyped
<1>12. CountersTyped'
  <2>1. unsaved' \in BOOLEAN /\ gaveUp' \in BOOLEAN /\ leftFile' \in BOOLEAN
    BY DEF GotUrlIos, GotUrlAndroid, leavings, TypeInv, CountersTyped
  <2> QED
    BY <1>5, <2>1 DEF counters, TypeInv, CountersTyped
<1> QED
  BY <1>6, <1>7, <1>8, <1>9, <1>10, <1>11, <1>12 DEF TypeInv

\* A photo that does not arrive.
LEMMA TransferFailsTyped ==
  ASSUME TypeInv, NEW t \in transfers, TransferFails(t) PROVE TypeInv'
<1>1. t.photo \in 1 .. MaxPhotos
  BY DEF TypeInv, PhotosTyped, Transfer
<1>2. /\ transfers' \subseteq transfers /\ files' \subseteq files \cup {t.photo}
      /\ petObj' = InUse(petObj, screen, transfers')
      /\ screen' \in {screen, "crashed"} /\ faults < MaxFaults /\ faults' = faults + 1
      /\ UNCHANGED <<app, db, queue, view, reads, quiz, wanted, unsaved, gaveUp, texts,
                     photos, quizzes>>
  BY DEF TransferFails, Fault
<1>3. leftFile' \in BOOLEAN
  BY DEF TransferFails, TypeInv, CountersTyped
<1>4. ObjectsTyped' /\ \A w \in 0 .. MaxViews : petObj[w] = Blank => petObj'[w] = Blank
  BY <1>2, InUseTyped DEF TypeInv, ObjectsTyped
<1>5. faults' \in 0 .. MaxFaults
  <2>1. faults \in 0 .. MaxFaults
    BY DEF TypeInv, CountersTyped
  <2> QED
    BY <1>2, <2>1, Bounds
<1>6. Future' /\ ScreenTyped' /\ ReadsTyped' /\ PhotosTyped'
  BY <1>1, <1>2, <1>4 DEF TypeInv, Future, ScreenTyped, ReadsTyped, PhotosTyped
<1>7. DocsTyped' /\ QuizTyped' /\ WantedTyped'
  BY <1>2 DEF TypeInv, DocsTyped, QuizTyped, WantedTyped
<1>8. CountersTyped'
  BY <1>2, <1>3, <1>5 DEF TypeInv, CountersTyped
<1> QED
  BY <1>4, <1>6, <1>7, <1>8 DEF TypeInv

\* The quiz is opened, answered, finished and closed.
LEMMA StartQuizTyped == ASSUME TypeInv, StartQuiz PROVE TypeInv'
<1>1. QuizTyped'
  BY Profiles, Bounds DEF StartQuiz, QuizTyped, NoQuiz
<1>2. quizzes' \in 0 .. MaxQuizzes
  <2>1. quizzes \in 0 .. MaxQuizzes /\ quizzes < MaxQuizzes /\ quizzes' = quizzes + 1
    BY DEF StartQuiz, TypeInv, CountersTyped
  <2> QED
    BY <2>1, Bounds
<1>3. ScreenTyped' /\ Future' /\ ReadsTyped' /\ ObjectsTyped'
  BY DEF StartQuiz, TypeInv, ScreenTyped, Future, ReadsTyped, ObjectsTyped, storage
<1>4. DocsTyped' /\ PhotosTyped' /\ WantedTyped'
  BY DEF StartQuiz, Wants, TypeInv, DocsTyped, PhotosTyped, WantedTyped, storage
<1>5. CountersTyped'
  BY <1>2 DEF StartQuiz, TypeInv, CountersTyped, leavings
<1> QED
  BY <1>1, <1>3, <1>4, <1>5 DEF TypeInv

\* A step of the quiz's download, or of the system's on it.
LEMMA QuizStepTyped ==
  ASSUME TypeInv, QuizTyped', screen = "quiz", screen' \in {"quiz", "crashed"},
         UNCHANGED <<app, db, queue, storage, view, petObj, reads, leavings,
                     texts, photos, quizzes>>,
         WantedTyped', faults' \in 0 .. MaxFaults
  PROVE  TypeInv'
<1>1. ScreenTyped' /\ Future' /\ ReadsTyped' /\ ObjectsTyped'
  BY DEF TypeInv, ScreenTyped, Future, ReadsTyped, ObjectsTyped, storage
<1>2. DocsTyped' /\ PhotosTyped'
  BY DEF TypeInv, DocsTyped, PhotosTyped, storage
<1>3. CountersTyped'
  BY DEF TypeInv, CountersTyped, leavings
<1> QED
  BY <1>1, <1>2, <1>3 DEF TypeInv

\* The quiz takes what its download brings, or the app ends.
LEMMA AnswerQuizTyped ==
  ASSUME TypeInv, AnswerQuizIos \/ AnswerQuizAndroid PROVE TypeInv'
<1>1. Doc \in Profile \cup {Absent} /\ QuizTyped /\ quiz.obj \in Profile
  BY DocTyped DEF TypeInv, QuizTyped
<1>2. \/ screen' = "crashed" /\ quiz' = NoQuiz
      \/ \E loaded \in Profile : AskPage(loaded)
  BY <1>1 DEF AnswerQuizIos, AnswerQuizAndroid
<1>3. ASSUME NEW loaded \in Profile, ~NoneLeft(loaded.quiz)
      PROVE  Len(loaded.quiz) + 1 \in 0 .. Pages
  <2>1. Len(loaded.quiz) \in Nat
    BY DEF Profile
  <2> QED
    BY <1>3, <2>1, Bounds, PagesLeft
<1>4. QuizTyped' /\ screen' \in {screen, "crashed"}
  <2>1. CASE screen' = "crashed" /\ quiz' = NoQuiz
    BY <2>1, Profiles DEF QuizTyped
  <2>2. ASSUME NEW loaded \in Profile, AskPage(loaded) PROVE QuizTyped' /\ screen' \in {screen, "crashed"}
    <3>1. CASE NoneLeft(loaded.quiz)
      BY <2>2, <3>1, Profiles DEF AskPage, QuizTyped
    <3>2. CASE ~NoneLeft(loaded.quiz)
      <4>1. quiz' = [quiz EXCEPT !.obj = loaded, !.asked = FALSE,
                                 !.page = Len(loaded.quiz) + 1]
            /\ screen' = screen
        BY <2>2, <3>2 DEF AskPage
      <4>2. Len(loaded.quiz) + 1 \in 0 .. Pages
        BY <1>3, <3>2
      <4> QED
        BY <1>1, <4>1, <4>2 DEF QuizTyped
    <3> QED
      BY <3>1, <3>2
  <2> QED
    BY <1>2, <2>1, <2>2
<1>5. WantedTyped' /\ faults' \in 0 .. MaxFaults
  BY DEF AnswerQuizIos, AnswerQuizAndroid, counters, TypeInv, WantedTyped, CountersTyped
<1>6. /\ screen = "quiz"
      /\ UNCHANGED <<app, db, queue, storage, view, petObj, reads, leavings,
                     texts, photos, quizzes>>
  BY DEF AnswerQuizIos, AnswerQuizAndroid, counters
<1> QED
  BY <1>4, <1>5, <1>6, QuizStepTyped

\* A download of the quiz that fails: iOS asks the first page.
LEMMA QuizReadFailsTyped == ASSUME TypeInv, QuizReadFails PROVE TypeInv'
<1>1. QuizTyped'
  <2>1. /\ quiz \in [obj : Profile, page : 0 .. Pages, asked : BOOLEAN, done : BOOLEAN]
        /\ 0 \in 0 .. Pages /\ 1 \in 0 .. Pages
    BY Bounds DEF TypeInv, QuizTyped
  <2>2. PICK n \in {0, 1} : quiz' = [quiz EXCEPT !.asked = FALSE, !.page = n]
    BY DEF QuizReadFails
  <2> QED
    BY <2>1, <2>2 DEF QuizTyped
<1>2. faults' \in 0 .. MaxFaults
  <2>1. faults \in 0 .. MaxFaults /\ faults < MaxFaults /\ faults' = faults + 1
    BY DEF QuizReadFails, Fault, TypeInv, CountersTyped
  <2> QED
    BY <2>1, Bounds
<1>3. WantedTyped'
  BY DEF QuizReadFails, Wants, TypeInv, WantedTyped
<1>4. /\ screen = "quiz" /\ screen' = "quiz"
      /\ UNCHANGED <<app, db, queue, storage, view, petObj, reads, leavings,
                     texts, photos, quizzes>>
  BY DEF QuizReadFails
<1> QED
  BY <1>1, <1>2, <1>3, <1>4, QuizStepTyped

\* The answers that are added were given in this quiz to one of the pages.
LEMMA FinishQuizTyped == ASSUME TypeInv, FinishQuiz PROVE TypeInv'
<1> DEFINE given == [by |-> quizzes, page |-> quiz.page]
           obj == [quiz.obj EXCEPT !.quiz = Append(@, given)]
<1>1. /\ quiz \in [obj : Profile, page : 0 .. Pages, asked : BOOLEAN, done : BOOLEAN]
      /\ quiz.page # 0 /\ quizzes \in 0 .. MaxQuizzes
  BY DEF FinishQuiz, TypeInv, QuizTyped, CountersTyped
<1>2. given \in Answers
  <2>1. quiz.page \in 1 .. Pages
    BY <1>1, Bounds
  <2> QED
    BY <1>1, <2>1 DEF Answers
<1>3. /\ quiz' = [quiz EXCEPT !.obj.quiz = Append(@, given), !.done = TRUE]
      /\ Wants([wanted EXCEPT !.quiz = Append(@, given)], FALSE)
  BY DEF FinishQuiz
<1> HIDE DEF given
<1>4. obj \in Profile
  BY <1>1, <1>2, Profiles
<1>5. quiz' = [obj |-> obj, page |-> quiz.page, asked |-> quiz.asked, done |-> TRUE]
  BY <1>1, <1>3
<1> HIDE DEF obj
<1>6. QuizTyped' /\ quiz'.obj = obj
  BY <1>1, <1>4, <1>5 DEF QuizTyped
<1>7. DocsTyped'
  <2>1. Upload(quiz'.obj, "quiz", quizzes) /\ UNCHANGED db
    BY DEF FinishQuiz
  <2>2. Upload(obj, "quiz", quizzes) /\ "quiz" \in Acks /\ quizzes \in Nat
    BY <1>1, <1>6, <2>1, Bounds DEF Acks
  <2> QED
    BY <1>4, <2>1, <2>2, UploadTyped DEF TypeInv
<1>8. WantedTyped'
  <2>1. wanted \in Given => [wanted EXCEPT !.quiz = Append(@, given)] \in Given
    BY <1>2, Profiles
  <2> QED
    BY <1>3, <2>1 DEF Wants, TypeInv, WantedTyped
<1>9. ScreenTyped' /\ Future' /\ ReadsTyped' /\ ObjectsTyped'
  BY DEF FinishQuiz, TypeInv, ScreenTyped, Future, ReadsTyped, ObjectsTyped, storage
<1>10. PhotosTyped' /\ CountersTyped'
  BY DEF FinishQuiz, TypeInv, PhotosTyped, CountersTyped, storage, leavings, counters
<1> QED
  BY <1>6, <1>7, <1>8, <1>9, <1>10 DEF TypeInv

\* The quiz gives way to the pet screen, which on iOS downloads again.
LEMMA CloseQuizTyped ==
  ASSUME TypeInv, screen = "quiz", CloseQuiz,
         UNCHANGED <<view, petObj, transfers>>
  PROVE  QuizTyped' /\ ScreenTyped' /\ ObjectsTyped' /\ ReadsTyped' /\ Future'
<1>1. view \in 1 .. MaxViews /\ view \in 0 .. MaxViews /\ view \in Nat
  BY Bounds DEF TypeInv, ScreenTyped
<1>2. ReadsTyped' /\ \A w \in 0 .. MaxViews : w # view => reads'[w] = reads[w]
  <2>1. Download(view) \/ UNCHANGED reads
    BY DEF CloseQuiz, Appear
  <2> QED
    BY <1>1, <2>1, DownloadTyped DEF TypeInv, ReadsTyped
<1>3. Future'
  <2>1. \A w \in 0 .. MaxViews : w > view => w # view
    BY <1>1, Bounds
  <2> QED
    BY <1>2, <2>1 DEF TypeInv, Future
<1>4. QuizTyped' /\ ScreenTyped' /\ ObjectsTyped'
  BY <1>1, Profiles DEF CloseQuiz, TypeInv, QuizTyped, ScreenTyped, ObjectsTyped
<1> QED
  BY <1>2, <1>3, <1>4

\* The owner closes the quiz.
LEMMA ExitQuizTyped == ASSUME TypeInv, ExitQuiz PROVE TypeInv'
<1>1. QuizTyped' /\ ScreenTyped' /\ ObjectsTyped' /\ ReadsTyped' /\ Future'
  BY CloseQuizTyped DEF ExitQuiz, storage
<1>2. DocsTyped' /\ PhotosTyped' /\ WantedTyped' /\ CountersTyped'
  BY DEF ExitQuiz, TypeInv, DocsTyped, PhotosTyped, WantedTyped, CountersTyped,
     storage, leavings, counters
<1> QED
  BY <1>1, <1>2 DEF TypeInv

\* A write is acknowledged: what is shown may close.
LEMMA FlushTyped == ASSUME TypeInv, Flush PROVE TypeInv'
<1> DEFINE w == Head(queue)
<1>1. queue \in Seq(Write) /\ queue # <<>> /\ Len(queue) <= MaxQueue
  BY DEF Flush, TypeInv, DocsTyped
<1>2. w \in Write /\ Tail(queue) \in Seq(Write) /\ Len(Tail(queue)) <= MaxQueue
  BY <1>1, Bounds
<1>3. w.val \in Profile \cup {Absent}
  BY <1>2 DEF Write
<1>4. db' = [db EXCEPT ![w.doc] = w.val] /\ queue' = Tail(queue)
  BY DEF Flush
<1>5. DocsTyped'
  <2>1. db' \in [{"pet"} -> Profile \cup {Absent}]
    BY <1>3, <1>4 DEF TypeInv, DocsTyped
  <2> QED
    BY <1>2, <1>4, <2>1 DEF DocsTyped
<1>6. \/ screen = "quiz" /\ CloseQuiz /\ UNCHANGED <<petObj, leavings>>
      \/ Leave /\ UNCHANGED <<reads, quiz, leftFile>>
      \/ UNCHANGED <<screen, petObj, reads, quiz, leavings>>
  BY DEF Flush
<1>7. UNCHANGED <<app, storage, view, wanted, counters>>
  BY DEF Flush
<1>8. QuizTyped' /\ ScreenTyped' /\ ObjectsTyped' /\ ReadsTyped' /\ Future'
  <2>1. CASE screen = "quiz" /\ CloseQuiz /\ UNCHANGED <<petObj, leavings>>
    BY <1>7, <2>1, CloseQuizTyped DEF storage
  <2>2. CASE Leave /\ UNCHANGED <<reads, quiz, leftFile>>
    <3>1. ObjectsTyped' /\ \A v \in 0 .. MaxViews : petObj[v] = Blank => petObj'[v] = Blank
      BY <2>2, InUseTyped DEF TypeInv, ObjectsTyped, Leave
    <3> QED
      BY <1>7, <2>2, <3>1 DEF Leave, TypeInv, QuizTyped, ScreenTyped, ReadsTyped, Future, storage
  <2>3. CASE UNCHANGED <<screen, petObj, reads, quiz, leavings>>
    BY <1>7, <2>3 DEF TypeInv, QuizTyped, ScreenTyped, ObjectsTyped, ReadsTyped, Future, storage
  <2> QED
    BY <1>6, <2>1, <2>2, <2>3
<1>9. unsaved' \in BOOLEAN /\ gaveUp' \in BOOLEAN /\ leftFile' \in BOOLEAN
  BY <1>6 DEF Leave, leavings, TypeInv, CountersTyped
<1>10. PhotosTyped' /\ WantedTyped' /\ CountersTyped'
  BY <1>7, <1>9 DEF TypeInv, PhotosTyped, WantedTyped, CountersTyped, storage, counters
<1> QED
  BY <1>5, <1>8, <1>10 DEF TypeInv

\* What the phone reads is the same when its first write is on the server.
LEMMA FlushDoc == ASSUME TypeInv, Flush PROVE Doc' = Doc
<1>1. queue \in Seq(Write) /\ queue # <<>> /\ db \in [{"pet"} -> Profile \cup {Absent}]
  BY DEF Flush, TypeInv, DocsTyped
<1>2. db'["pet"] = IF Head(queue).doc = "pet" THEN Head(queue).val ELSE db["pet"]
  BY <1>1 DEF Flush
<1>3. queue' = Tail(queue)
  BY DEF Flush
<1> QED
  BY <1>1, <1>2, <1>3, ViewFlush DEF Doc

\* A restart takes the completions from the queue, and every object.
LEMMA RestartTyped == ASSUME TypeInv, Restart PROVE TypeInv' /\ Doc' = Doc
<1>1. queue \in Seq(Write) /\ Len(queue) \in Nat /\ Len(queue) <= MaxQueue
  BY DEF TypeInv, DocsTyped
<1>2. queue' = [i \in 1 .. Len(queue) |-> [queue[i] EXCEPT !.ack = NoAck]]
  BY DEF Restart, WithoutAcks
<1>3. /\ queue' \in Seq(Write) /\ Len(queue') = Len(queue)
      /\ \A i \in 1 .. Len(queue) : queue'[i].doc = queue[i].doc /\ queue'[i].val = queue[i].val
  <2>1. ASSUME NEW i \in 1 .. Len(queue)
        PROVE  /\ [queue[i] EXCEPT !.ack = NoAck] \in Write
               /\ [queue[i] EXCEPT !.ack = NoAck].doc = queue[i].doc
               /\ [queue[i] EXCEPT !.ack = NoAck].val = queue[i].val
    <3>1. queue[i] \in Write
      BY <1>1
    <3> QED
      BY <3>1 DEF Write, Acks
  <2> DEFINE g == [i \in 1 .. Len(queue) |-> [queue[i] EXCEPT !.ack = NoAck]]
  <2>2. g \in [1 .. Len(queue) -> Write]
    BY <2>1
  <2>3. \A i \in 1 .. Len(queue) : g[i].doc = queue[i].doc /\ g[i].val = queue[i].val
    BY <2>1
  <2> HIDE DEF g
  <2>4. g \in Seq(Write) /\ Len(g) = Len(queue)
    BY <1>1, <2>2
  <2>5. queue' = g
    BY <1>2 DEF g
  <2> QED
    BY <2>3, <2>4, <2>5
<1>4. db' = db
  BY DEF Restart
<1>5. DocsTyped'
  BY <1>1, <1>3, <1>4 DEF TypeInv, DocsTyped
<1>6. Doc' = Doc
  <2>1. PendingOn(queue', "pet") = PendingOn(queue, "pet")
    BY <1>3 DEF PendingOn
  <2>2. CASE PendingOn(queue, "pet") = {}
    BY <1>4, <2>1, <2>2 DEF Doc, View
  <2>3. CASE PendingOn(queue, "pet") # {}
    <3>1. PICK i \in PendingOn(queue, "pet") : \A j \in PendingOn(queue, "pet") : j <= i
      BY <1>1, <2>3, LastPending
    <3>2. View(db, queue, "pet") = queue[i].val
      BY <1>1, <3>1, ViewIsLast
    <3>3. View(db', queue', "pet") = queue'[i].val
      BY <1>1, <1>3, <2>1, <3>1, ViewIsLast
    <3> QED
      BY <1>3, <3>1, <3>2, <3>3 DEF Doc, PendingOn
  <2> QED
    BY <2>2, <2>3
<1>7. files' \subseteq 1 .. MaxPhotos /\ leftFile' \in BOOLEAN
  <2>1. {t.photo : t \in transfers} \subseteq 1 .. MaxPhotos
    BY DEF TypeInv, PhotosTyped, Transfer
  <2>2. PICK stored \in SUBSET {t.photo : t \in transfers} :
          files' = files \cup stored /\ leftFile' = (leftFile \/ stored # {})
    BY DEF Restart
  <2> QED
    BY <2>1, <2>2 DEF TypeInv, PhotosTyped
<1>8. faults' \in 0 .. MaxFaults
  <2>1. faults \in 0 .. MaxFaults /\ faults < MaxFaults /\ faults' = faults + 1
    BY DEF Restart, Fault, TypeInv, CountersTyped
  <2> QED
    BY <2>1, Bounds
<1>9. PhotosTyped' /\ QuizTyped' /\ WantedTyped'
  BY <1>7, Profiles DEF Restart, TypeInv, PhotosTyped, QuizTyped, WantedTyped
<1>10. ScreenTyped' /\ ObjectsTyped'
  BY Profiles DEF Restart, TypeInv, ScreenTyped, ObjectsTyped
<1>11. ReadsTyped' /\ Future'
  BY Bounds DEF Restart, ReadsTyped, Future
<1>12. CountersTyped'
  BY <1>7, <1>8 DEF Restart, TypeInv, CountersTyped
<1> QED
  BY <1>5, <1>6, <1>9, <1>10, <1>11, <1>12 DEF TypeInv

\* Every step keeps every variable in its type.
LEMMA NextTyped == TypeInv /\ [Next]_vars => TypeInv'
<1> SUFFICES ASSUME TypeInv, [Next]_vars PROVE TypeInv'
  OBVIOUS
<1>1. CASE OpenPet \/ SaveIos \/ SaveAndroid \/ Exit \/ DeletePetIos \/ DeletePetAndroid
  BY <1>1, OpenPetTyped, SaveTyped, ExitTyped, DeletePetTyped
<1>2. CASE StartQuiz \/ AnswerQuizIos \/ AnswerQuizAndroid \/ FinishQuiz \/ ExitQuiz
  BY <1>2, StartQuizTyped, AnswerQuizTyped, FinishQuizTyped, ExitQuizTyped
<1>3. CASE Flush \/ QuizReadFails \/ Restart
  BY <1>3, FlushTyped, QuizReadFailsTyped, RestartTyped
<1>4. ASSUME NEW v \in 1 .. MaxViews, AnswerPetIos(v) \/ AnswerPetAndroid(v) \/ ReadFails(v)
      PROVE  TypeInv'
  BY <1>4, AnswerPetTyped
<1>5. ASSUME NEW s \in Slot, DeletePhotoIos(s) \/ DeletePhotoAndroid(s)
                             \/ PickPhotoIos(s) \/ PickPhotoAndroid(s)
      PROVE  TypeInv'
  BY <1>5, DeletePhotoTyped, PickPhotoTyped
<1>6. ASSUME NEW t \in transfers, GotUrlIos(t) \/ GotUrlAndroid(t) \/ TransferFails(t)
      PROVE  TypeInv'
  BY <1>6, GotUrlTyped, TransferFailsTyped
<1>7. CASE UNCHANGED vars
  BY <1>7 DEF vars, TypeInv, DocsTyped, PhotosTyped, QuizTyped, WantedTyped, CountersTyped,
     ScreenTyped, ObjectsTyped, ReadsTyped, Future
<1> QED
  BY <1>1, <1>2, <1>3, <1>4, <1>5, <1>6, <1>7 DEF Next

\* Type correctness: every object, document, queued write and photo is what the
\* code may hold.
THEOREM PetsTypeOK == Spec => []TypeOK
<1>1. TypeInv => TypeOK
  BY DEF TypeInv, TypeOK, DocsTyped, PhotosTyped, QuizTyped, WantedTyped, CountersTyped,
     ScreenTyped, ObjectsTyped, ReadsTyped
<1> QED
  BY <1>1, InitTyped, NextTyped, PTL DEF Spec

----------------------------------------------------------------------------
(* What the owner gave is kept, what they deleted stays away *)

\* The object of the last pet screen is in use: it is shown or a photo will go
\* into it, and be uploaded with it on iOS.
Current == screen \in {"pet", "quiz"} \/ \E t \in transfers : t.view = view

\* Nothing that could upload a deleted pet is left.
DeletedGone ==
  wanted = Absent => screen \in {"home", "crashed"} /\ transfers = {} /\ Doc = Absent

\* The phone's own view has what the owner gave.
DocKept ==
  wanted \in Given =>
    /\ Doc = Absent => wanted = Nothing
    /\ Doc # Absent => Doc.text = wanted.text /\ (app = "ios" => Doc.quiz = wanted.quiz)

\* So has the object in use, unless its download is outstanding or, for answers,
\* a quiz is open.  Of a missing pet an object has nothing.
ObjectKept ==
  wanted \in Given /\ Current =>
    /\ reads[view] = 0 => /\ petObj[view].text = wanted.text
                          /\ app = "ios" /\ screen # "quiz" => petObj[view].quiz = wanted.quiz
    /\ Doc = Absent => petObj[view].text = 0 /\ petObj[view].quiz = <<>>

\* So has the object of the quiz while it asks; before, pages are left to ask.
QuizKeeps ==
  wanted \in Given /\ screen = "quiz" =>
    /\ quiz.asked => quiz.obj = Blank /\ quiz.page = 0
    /\ quiz.asked /\ app = "ios" => Len(wanted.quiz) < Pages
    /\ quiz.page # 0 /\ ~quiz.done => /\ quiz.obj.text = wanted.text
                                      /\ app = "ios" => quiz.obj.quiz = wanted.quiz

KeptInv == DeletedGone /\ DocKept /\ ObjectKept /\ QuizKeeps /\ IosSurvives

\* The pet is given, or deleted, or the owner was hasty, and only one of these.
LEMMA WantedCases ==
  ASSUME WantedTyped
  PROVE  /\ wanted = Unsure \/ wanted = Absent \/ wanted \in Given
         /\ wanted = Absent => wanted # Unsure /\ wanted \notin Given
         /\ wanted \in Given => wanted # Unsure /\ wanted # Absent
         /\ wanted = Unsure => wanted \notin Given /\ wanted # Absent
         /\ Nothing \in Given /\ Nothing # Absent /\ Nothing # Unsure
  BY PetAssumption, Profiles DEF WantedTyped

\* Nothing is claimed for a hasty owner.
LEMMA UnsureKept == ASSUME wanted' = Unsure PROVE KeptInv'
  BY PetAssumption DEF KeptInv, DeletedGone, DocKept, ObjectKept, QuizKeeps, IosSurvives

\* What Wants makes of an owner who gave something.
LEMMA WantsGiven ==
  ASSUME WantedTyped, NEW w, NEW hasty \in BOOLEAN, Wants(w, hasty)
  PROVE  /\ wanted = Unsure => wanted' = Unsure
         /\ wanted = Absent => wanted' = Absent
         /\ wanted \in Given => wanted' = IF hasty THEN Unsure ELSE w
  BY WantedCases DEF Wants

\* Who sees the pet screen or the quiz has not deleted the pet; nor has one
\* whose photo is on its way.
LEMMA NotDeleted ==
  ASSUME WantedTyped, KeptInv, screen \in {"pet", "quiz"} \/ transfers # {}
  PROVE  wanted = Unsure \/ wanted \in Given
  BY WantedCases DEF KeptInv, DeletedGone

\* An object in use is what InUse leaves of it.
LEMMA InUseKeeps ==
  ASSUME NEW objs, NEW to, NEW ts, view \in 0 .. MaxViews,
         to \in {"pet", "quiz"} \/ \E t \in ts : t.view = view
  PROVE  InUse(objs, to, ts)[view] = objs[view]
  BY DEF InUse

\* A URL in one object leaves the text and the answers of each.
LEMMA SetUrlKeeps ==
  ASSUME ObjectsTyped, NEW v \in 0 .. MaxViews, NEW s \in Slot, NEW url \in 0 .. MaxPhotos,
         NEW w \in 0 .. MaxViews
  PROVE  /\ SetUrl(v, s, url)[w].text = petObj[w].text
         /\ SetUrl(v, s, url)[w].quiz = petObj[w].quiz
<1>1. petObj[v] \in Profile /\ petObj[w] \in Profile
  BY DEF ObjectsTyped
<1> DEFINE p == [petObj[v] EXCEPT !.photo[s] = url]
<1>2. p.text = petObj[v].text /\ p.quiz = petObj[v].quiz
  BY <1>1 DEF Profile
<1>3. SetUrl(v, s, url) = [petObj EXCEPT ![v] = p]
  BY DEF SetUrl
<1> HIDE DEF p
<1>4. SetUrl(v, s, url)[w] = IF w = v THEN p ELSE petObj[w]
  BY <1>3 DEF ObjectsTyped
<1> QED
  BY <1>2, <1>4

\* A step that leaves what is wanted, what the phone reads and what the object in
\* use holds.  A quiz of iOS that is closed makes the screen download again.
LEMMA SameKept ==
  ASSUME TypeInv, KeptInv, wanted' = wanted, Doc' = Doc, app' = app, view' = view,
         Current' => /\ Current
                     /\ petObj'[view].text = petObj[view].text
                     /\ petObj'[view].quiz = petObj[view].quiz
                     /\ reads'[view] = 0 => reads[view] = 0
                     /\ reads'[view] = 0 /\ screen = "quiz" /\ app = "ios" => screen' = "quiz",
         screen' = "quiz" => screen = "quiz" /\ quiz' = quiz,
         screen' \in {screen, "home", "pet"} \/ (screen' = "crashed" /\ app = "android"),
         wanted = Absent => screen' # "pet" /\ transfers' \subseteq transfers
  PROVE  KeptInv'
<1>1. DeletedGone'
  BY DEF KeptInv, DeletedGone
<1>2. DocKept'
  BY DEF KeptInv, DocKept
<1>3. ObjectKept'
  <2> SUFFICES ASSUME wanted \in Given, Current'
               PROVE  /\ reads'[view] = 0 =>
                           /\ petObj'[view].text = wanted.text
                           /\ app = "ios" /\ screen' # "quiz" => petObj'[view].quiz = wanted.quiz
                      /\ Doc = Absent => petObj'[view].text = 0 /\ petObj'[view].quiz = <<>>
    BY DEF ObjectKept
  <2> QED
    BY DEF KeptInv, ObjectKept
<1>4. QuizKeeps'
  BY DEF KeptInv, QuizKeeps
<1>5. IosSurvives'
  BY DEF KeptInv, IosSurvives
<1> QED
  BY <1>1, <1>2, <1>3, <1>4, <1>5 DEF KeptInv

\* The pet is new to the owner, or what the other phone made.
LEMMA InitKept == Init => KeptInv
<1> SUFFICES ASSUME Init PROVE KeptInv
  OBVIOUS
<1>1. PICK old \in {Absent} \cup
             {[text |-> 1, quiz |-> OldQuiz, photo |-> [Blank.photo EXCEPT ![s] = 1]] : s \in Slot} :
        /\ db = [d \in {"pet"} |-> old]
        /\ wanted = IF old = Absent THEN Nothing ELSE [text |-> 1, quiz |-> old.quiz]
  BY DEF Init
<1>2. wanted \in Given /\ wanted # Absent
  BY InitTyped, PetAssumption
<1>3. Doc = old
  BY <1>1 DEF Init, Doc, View, PendingOn
<1>4. old # Absent => old.text = 1
  BY <1>1
<1>5. DocKept
  BY <1>1, <1>3, <1>4 DEF DocKept
<1>6. screen = "home" /\ transfers = {}
  BY DEF Init
<1> QED
  BY <1>2, <1>5, <1>6 DEF KeptInv, DeletedGone, ObjectKept, Current, QuizKeeps, IosSurvives

\* The screen that is opened downloads; until then its object is blank.
LEMMA OpenPetKept == ASSUME TypeInv, KeptInv, OpenPet PROVE KeptInv'
<1>1. /\ screen = "home" /\ screen' = "pet" /\ view' = view + 1 /\ Download(view + 1)
      /\ wanted' = IF wanted = Absent THEN Nothing ELSE wanted
      /\ UNCHANGED <<app, db, queue, petObj>>
  BY DEF OpenPet
<1>2. view \in Nat /\ view + 1 \in 0 .. MaxViews /\ view + 1 > view
  BY Bounds DEF OpenPet, TypeInv, ScreenTyped
<1>3. petObj'[view'] = Blank /\ reads'[view'] > 0
  BY <1>1, <1>2, DownloadTyped DEF TypeInv, Future
<1>4. Doc' = Doc
  BY <1>1 DEF Doc
<1>5. wanted' # Absent /\ DocKept'
  <2>1. wanted = Absent => wanted' = Nothing /\ Doc = Absent
    BY <1>1 DEF KeptInv, DeletedGone
  <2>2. wanted # Absent => wanted' = wanted
    BY <1>1
  <2> QED
    BY <1>1, <1>4, <2>1, <2>2, WantedCases DEF KeptInv, DocKept, TypeInv
<1>6. DeletedGone'
  BY <1>5 DEF DeletedGone
<1>7. ObjectKept'
  BY <1>3 DEF ObjectKept, Blank
<1>8. QuizKeeps' /\ IosSurvives'
  BY <1>1 DEF QuizKeeps, IosSurvives
<1> QED
  BY <1>5, <1>6, <1>7, <1>8 DEF KeptInv

\* A download brings what the phone has last; of a missing pet it brings nothing.
LEMMA AnswerPetKept ==
  ASSUME TypeInv, KeptInv, NEW v \in 1 .. MaxViews, AnswerPetIos(v) \/ AnswerPetAndroid(v)
  PROVE  KeptInv'
<1>1. /\ UNCHANGED <<app, db, queue, view, wanted, quiz, transfers>>
      /\ Doc' = Doc
  BY DEF AnswerPetIos, AnswerPetAndroid, storage, Doc
<1>2. CASE screen' = "crashed" /\ UNCHANGED <<petObj, reads>> /\ app = "android" /\ wanted # Absent
  BY <1>1, <1>2, SameKept DEF Current
<1>3. CASE screen' = "crashed" /\ UNCHANGED <<petObj, reads>> /\ app = "android" /\ wanted = Absent
  BY <1>1, <1>3, SameKept DEF Current
<1>4. CASE Filled(v) /\ reads[v] > 0 /\ Running
  <2>1. /\ screen' = screen /\ reads' = [reads EXCEPT ![v] = @ - 1]
        /\ petObj' = IF Doc = Absent THEN petObj
                     ELSE InUse([petObj EXCEPT ![v] = Doc], screen, transfers)
    BY <1>4 DEF Filled
  <2>2. v \in 0 .. MaxViews /\ view \in 0 .. MaxViews
    BY Bounds DEF TypeInv, ScreenTyped
  <2>3. Current' => Current
    BY <1>1, <2>1 DEF Current
  <2>4. Current => petObj'[view] = IF Doc # Absent /\ v = view THEN Doc ELSE petObj[view]
    <3> DEFINE objs == [petObj EXCEPT ![v] = Doc]
    <3>1. objs[view] = IF v = view THEN Doc ELSE petObj[view]
      BY <2>2 DEF TypeInv, ObjectsTyped
    <3> HIDE DEF objs
    <3>2. CASE Doc = Absent
      BY <2>1, <3>2
    <3>3. CASE Doc # Absent /\ Current
      <4>1. petObj' = InUse(objs, screen, transfers)
        BY <2>1, <3>3 DEF objs
      <4> QED
        BY <2>2, <3>1, <3>3, <4>1, InUseKeeps DEF Current
    <3> QED
      BY <3>2, <3>3
  <2>5. v # view => reads'[view] = reads[view]
    BY <1>4, <2>1, <2>2, ReadDone DEF TypeInv
  <2>6. ObjectKept'
    <3> SUFFICES ASSUME wanted \in Given, Current
                 PROVE  /\ reads'[view] = 0 =>
                             /\ petObj'[view].text = wanted.text
                             /\ app = "ios" /\ screen # "quiz" => petObj'[view].quiz = wanted.quiz
                        /\ Doc = Absent => petObj'[view].text = 0 /\ petObj'[view].quiz = <<>>
      BY <1>1, <2>1, <2>3 DEF ObjectKept
    <3>1. CASE Doc = Absent
      <4>1. wanted = Nothing
        BY <3>1 DEF KeptInv, DocKept
      <4> QED
        BY <2>4, <3>1, <4>1 DEF KeptInv, ObjectKept, Nothing
    <3>2. CASE Doc # Absent /\ v = view
      BY <2>4, <3>2 DEF KeptInv, DocKept
    <3>3. CASE Doc # Absent /\ v # view
      BY <2>4, <2>5, <3>3 DEF KeptInv, ObjectKept
    <3> QED
      BY <3>1, <3>2, <3>3
  <2>7. DeletedGone' /\ DocKept' /\ QuizKeeps' /\ IosSurvives'
    BY <1>1, <2>1 DEF KeptInv, DeletedGone, DocKept, QuizKeeps, IosSurvives
  <2> QED
    BY <2>6, <2>7 DEF KeptInv
<1> QED
  BY <1>2, <1>3, <1>4 DEF AnswerPetIos, AnswerPetAndroid

\* A save gives the object and the upload the text of the fields.
LEMMA SaveKept == ASSUME TypeInv, KeptInv, SaveIos \/ SaveAndroid PROVE KeptInv'
<1>1. PICK fields \in Typed, ack \in {"save", NoAck} : SaveFields(fields, ack) /\ screen = "pet"
  BY DEF SaveIos, SaveAndroid
<1>2. /\ petObj' = [petObj EXCEPT ![view].text = fields]
      /\ Upload(petObj'[view], ack, view) /\ Wants([wanted EXCEPT !.text = fields], Loading)
      /\ UNCHANGED <<app, db, screen, view, reads, transfers>>
  BY <1>1 DEF SaveFields, storage
<1>3. view \in 0 .. MaxViews /\ view \in Nat /\ petObj[view] \in Profile
  BY Bounds DEF TypeInv, ScreenTyped, ObjectsTyped
<1>4. petObj'[view].text = fields /\ petObj'[view].quiz = petObj[view].quiz
  <2>1. petObj'[view] = [petObj[view] EXCEPT !.text = fields]
    BY <1>2, <1>3 DEF TypeInv, ObjectsTyped
  <2> QED
    BY <1>3, <2>1 DEF Profile
<1>5. TypeInv' /\ petObj'[view] \in Profile
  BY <1>2, <1>3, SaveTyped DEF TypeInv, ObjectsTyped
<1>6. Doc' = petObj'[view]
  <2>1. ack \in Acks
    BY DEF Acks
  <2> QED
    BY <1>2, <1>3, <1>5, <2>1, UploadTyped DEF TypeInv
<1>7. wanted = Unsure \/ wanted \in Given
  BY <1>1, NotDeleted DEF TypeInv
<1>8. /\ wanted = Unsure => wanted' = Unsure
      /\ wanted \in Given => wanted' = IF Loading THEN Unsure ELSE [wanted EXCEPT !.text = fields]
  <2> DEFINE w == [wanted EXCEPT !.text = fields]
  <2>1. Wants(w, Loading)
    BY <1>2
  <2> HIDE DEF w
  <2>2. Loading \in BOOLEAN /\ WantedTyped
    BY DEF Loading, TypeInv
  <2>3. /\ wanted = Unsure => wanted' = Unsure
        /\ wanted \in Given => wanted' = IF Loading THEN Unsure ELSE w
    BY <2>1, <2>2, WantsGiven
  <2> QED
    BY <2>3 DEF w
<1>9. CASE wanted' = Unsure
  BY <1>9, UnsureKept
<1>10. CASE wanted \in Given /\ ~Loading
  <2>1. wanted' = [wanted EXCEPT !.text = fields]
    BY <1>8, <1>10
  <2>2. wanted'.text = fields /\ wanted'.quiz = wanted.quiz
    BY <1>10, <2>1 DEF Given
  <2>3. reads[view] = 0
    <3>1. reads[view] \in Nat
      BY <1>3, Bounds DEF TypeInv, ReadsTyped
    <3> QED
      BY <1>10, <3>1 DEF Loading
  <2>4. app = "ios" => petObj[view].quiz = wanted.quiz
    BY <1>1, <1>10, <2>3 DEF KeptInv, ObjectKept, Current
  <2>5. petObj'[view] # Absent
    BY <1>5, PetAssumption
  <2>6. wanted' # Absent
    <3>1. wanted' \in Given
      BY <1>10, <2>1, <1>4, <1>5, Profiles DEF Profile
    <3> QED
      BY <3>1, PetAssumption
  <2>7. DeletedGone'
    BY <2>6 DEF DeletedGone
  <2>8. DocKept'
    BY <1>2, <1>4, <1>6, <2>2, <2>4, <2>5 DEF DocKept
  <2>9. ObjectKept'
    BY <1>2, <1>4, <1>6, <2>2, <2>4, <2>5 DEF ObjectKept
  <2>10. QuizKeeps' /\ IosSurvives'
    BY <1>1, <1>2 DEF QuizKeeps, IosSurvives
  <2> QED
    BY <2>7, <2>8, <2>9, <2>10 DEF KeptInv
<1> QED
  BY <1>7, <1>8, <1>9, <1>10

\* Back to the first screen: the object stays only for the photos.
LEMMA LeaveKept ==
  ASSUME TypeInv, KeptInv, screen = "pet", Leave, Doc' = Doc,
         UNCHANGED <<app, wanted, view, transfers, reads>>
  PROVE  KeptInv'
<1>1. screen' = "home" /\ petObj' = InUse(petObj, "home", transfers)
  BY DEF Leave
<1>2. view \in 0 .. MaxViews
  BY DEF TypeInv, ScreenTyped
<1>3. Current' => petObj'[view] = petObj[view]
  BY <1>1, <1>2, InUseKeeps DEF Current
<1>4. Current
  BY DEF Current
<1> QED
  BY <1>1, <1>3, <1>4, SameKept

\* The owner leaves the pet screen.
LEMMA ExitKept == ASSUME TypeInv, KeptInv, Exit PROVE KeptInv'
<1>1. Doc' = Doc /\ screen = "pet" /\ Leave /\ UNCHANGED <<app, wanted, view, transfers, reads>>
  BY DEF Exit, Doc, storage
<1> QED
  BY <1>1, LeaveKept

\* The pet is gone for the phone as soon as the deletion is queued, and no photo
\* is on its way, or the owner was hasty.
LEMMA DeletePetKept == ASSUME TypeInv, KeptInv, DeletePet PROVE KeptInv'
<1>1. /\ screen = "pet" /\ screen' = "home" /\ Upload(Absent, NoAck, view) /\ db' = db
      /\ Wants(Absent, Loading \/ transfers # {}) /\ transfers' = transfers
  BY DEF DeletePet, CloseDeletedPet
<1>2. view \in Nat /\ NoAck \in Acks
  BY Bounds DEF TypeInv, ScreenTyped, Acks
<1>3. Doc' = Absent
  BY <1>1, <1>2, UploadTyped DEF TypeInv
<1>4. wanted = Unsure \/ wanted \in Given
  BY <1>1, NotDeleted DEF TypeInv
<1>5. wanted' = Unsure \/ (wanted' = Absent /\ transfers = {})
  BY <1>1, <1>4, WantsGiven DEF TypeInv, Loading
<1>6. CASE wanted' = Unsure
  BY <1>6, UnsureKept
<1>7. CASE wanted' = Absent /\ transfers = {}
  BY <1>1, <1>3, <1>7, PetAssumption
     DEF KeptInv, DeletedGone, DocKept, ObjectKept, QuizKeeps, IosSurvives
<1> QED
  BY <1>5, <1>6, <1>7

\* A photo that is deleted leaves text and answers; on iOS they are uploaded.
LEMMA DeletePhotoKept ==
  ASSUME TypeInv, KeptInv, NEW s \in Slot, DeletePhotoIos(s) \/ DeletePhotoAndroid(s)
  PROVE  KeptInv'
<1>1. /\ screen = "pet" /\ petObj' = SetUrl(view, s, 0) /\ Wants(wanted, Loading)
      /\ UNCHANGED <<app, db, transfers, screen, view, reads, quiz>>
  BY DEF DeletePhotoIos, DeletePhotoAndroid
<1>2. view \in 0 .. MaxViews /\ view \in Nat /\ 0 \in 0 .. MaxPhotos
  BY Bounds DEF TypeInv, ScreenTyped
<1>3. ObjectsTyped /\ ReadsTyped /\ WantedTyped /\ TypeInv'
  BY DeletePhotoTyped DEF TypeInv
<1>4. petObj'[view].text = petObj[view].text /\ petObj'[view].quiz = petObj[view].quiz
  BY <1>1, <1>2, <1>3, SetUrlKeeps
<1>5. petObj'[view] \in Profile /\ petObj'[view] # Absent
  BY <1>2, <1>3, PetAssumption, SetUrlTyped, <1>1
<1>6. wanted = Unsure \/ wanted \in Given
  BY <1>1, <1>3, NotDeleted
<1>7. wanted' = Unsure \/ (wanted \in Given /\ wanted' = wanted /\ reads[view] = 0)
  <2>1. Loading \in BOOLEAN /\ (~Loading => reads[view] = 0)
    <3>1. reads[view] \in Nat
      BY <1>2, <1>3, Bounds DEF ReadsTyped
    <3> QED
      BY <3>1 DEF Loading
  <2> QED
    BY <1>1, <1>3, <1>6, <2>1, WantsGiven
<1>8. CASE wanted' = Unsure
  BY <1>8, UnsureKept
<1>9. CASE wanted \in Given /\ wanted' = wanted /\ reads[view] = 0 /\ DeletePhotoIos(s)
  <2>1. Doc' = petObj'[view]
    <3>1. Upload(petObj'[view], NoAck, view) /\ UNCHANGED db /\ NoAck \in Acks
      BY <1>9 DEF DeletePhotoIos, Acks
    <3> QED
      BY <1>2, <1>5, <3>1, UploadTyped DEF TypeInv
  <2>2. /\ petObj[view].text = wanted.text
        /\ app = "ios" => petObj[view].quiz = wanted.quiz
    BY <1>1, <1>9 DEF KeptInv, ObjectKept, Current
  <2>3. wanted # Absent
    BY <1>9, PetAssumption
  <2>4. DeletedGone' /\ DocKept'
    BY <1>1, <1>4, <1>5, <1>9, <2>1, <2>2, <2>3 DEF DeletedGone, DocKept
  <2>5. ObjectKept' /\ QuizKeeps' /\ IosSurvives'
    BY <1>1, <1>4, <1>5, <1>9, <2>1, <2>2 DEF ObjectKept, QuizKeeps, IosSurvives
  <2> QED
    BY <2>4, <2>5 DEF KeptInv
<1>10. CASE wanted \in Given /\ wanted' = wanted /\ reads[view] = 0 /\ DeletePhotoAndroid(s)
  <2>1. Doc' = Doc
    BY <1>10 DEF DeletePhotoAndroid, Doc
  <2>2. wanted # Absent
    BY <1>10, PetAssumption
  <2> QED
    BY <1>1, <1>4, <1>10, <2>1, <2>2, SameKept DEF Current
<1> QED
  BY <1>7, <1>8, <1>9, <1>10

\* A photo that is picked leaves text and answers.
LEMMA PickPhotoKept ==
  ASSUME TypeInv, KeptInv, NEW s \in Slot, PickPhotoIos(s) \/ PickPhotoAndroid(s)
  PROVE  KeptInv'
<1>1. screen = "pet" /\ UNCHANGED <<app, db, queue, screen, view, quiz>>
  BY DEF PickPhotoIos, PickPhotoAndroid, Send
<1>2. view \in 0 .. MaxViews /\ 0 \in 0 .. MaxPhotos
  BY Bounds DEF TypeInv, ScreenTyped
<1>3. ObjectsTyped /\ ReadsTyped /\ WantedTyped
  BY DEF TypeInv
<1>4. petObj'[view].text = petObj[view].text /\ petObj'[view].quiz = petObj[view].quiz
  <2>1. petObj' = petObj \/ petObj' = SetUrl(view, s, 0)
    BY DEF PickPhotoIos, PickPhotoAndroid
  <2> QED
    BY <1>2, <1>3, <2>1, SetUrlKeeps
<1>5. reads'[view] = 0 => reads[view] = 0
  <2>1. Download(view) \/ reads' = reads
    BY DEF PickPhotoIos, PickPhotoAndroid, Appear
  <2> QED
    BY <1>2, <1>3, <2>1, DownloadTyped
<1>6. wanted = Unsure \/ wanted \in Given
  BY <1>1, <1>3, NotDeleted
<1>7. wanted' = Unsure \/ (wanted \in Given /\ wanted' = wanted)
  <2>1. Wants(wanted, FALSE) \/ Wants(wanted, Loading)
    BY DEF PickPhotoIos, PickPhotoAndroid
  <2>2. Loading \in BOOLEAN
    BY DEF Loading
  <2> QED
    BY <1>3, <1>6, <2>1, <2>2, WantsGiven
<1>8. CASE wanted' = Unsure
  BY <1>8, UnsureKept
<1>9. CASE wanted \in Given /\ wanted' = wanted
  <2>1. Doc' = Doc /\ wanted # Absent /\ Current
    BY <1>1, <1>9, PetAssumption DEF Doc, Current
  <2> QED
    BY <1>1, <1>4, <1>5, <1>9, <2>1, SameKept
<1> QED
  BY <1>7, <1>8, <1>9

\* A late photo is uploaded on iOS with what its object holds, which is what is
\* wanted, or the owner did not wait.
LEMMA GotUrlKept ==
  ASSUME TypeInv, KeptInv, NEW t \in transfers, GotUrlIos(t) \/ GotUrlAndroid(t)
  PROVE  KeptInv'
<1> DEFINE objs == SetUrl(t.view, t.slot, t.photo)
<1>1. /\ petObj' = InUse(objs, screen, transfers') /\ transfers' = transfers \ {t}
      /\ UNCHANGED <<app, db, screen, view, reads, quiz>>
  BY DEF GotUrlIos, GotUrlAndroid, GotUrl
<1>2. /\ t.photo \in 0 .. MaxPhotos /\ t.slot \in Slot
      /\ t.view \in 0 .. MaxViews /\ t.view \in Nat
      /\ view \in 0 .. MaxViews
  BY Bounds DEF TypeInv, PhotosTyped, Transfer, ScreenTyped
<1>3. ObjectsTyped /\ ReadsTyped /\ WantedTyped
  BY DEF TypeInv
<1>4. objs[view].text = petObj[view].text /\ objs[view].quiz = petObj[view].quiz
  BY <1>2, <1>3, SetUrlKeeps
<1>5. objs[t.view] \in Profile
  BY <1>2, <1>3, SetUrlTyped
<1> HIDE DEF objs
<1>6. Current' => petObj'[view] = objs[view] /\ Current
  BY <1>1, <1>2, InUseKeeps DEF Current
<1>7. wanted = Unsure \/ wanted \in Given
  BY <1>3, NotDeleted
<1>8. CASE GotUrlAndroid(t)
  <2>1. wanted' = wanted /\ Doc' = Doc
    BY <1>1, <1>8 DEF GotUrlAndroid, Doc
  <2>2. CASE wanted = Unsure
    BY <2>1, <2>2, UnsureKept
  <2>3. CASE wanted \in Given
    <3>1. wanted # Absent
      BY <2>3, PetAssumption
    <3> QED
      BY <1>1, <1>4, <1>6, <2>1, <3>1, SameKept
  <2> QED
    BY <1>7, <2>2, <2>3
<1>9. CASE GotUrlIos(t)
  <2> DEFINE hasty == screen = "quiz" \/ t.view # view \/ Loading
  <2>1. Wants(wanted, hasty) /\ app = "ios"
    BY <1>9 DEF GotUrlIos
  <2>2. hasty \in BOOLEAN
    BY DEF Loading
  <2>3. ~hasty => screen # "quiz" /\ t.view = view /\ reads[view] = 0
    <3>1. reads[view] \in Nat
      BY <1>2, <1>3, Bounds DEF ReadsTyped
    <3> QED
      BY <3>1 DEF Loading
  <2> HIDE DEF hasty
  <2>4. wanted' = Unsure \/ (wanted \in Given /\ wanted' = wanted /\ ~hasty)
    BY <1>3, <1>7, <2>1, <2>2, WantsGiven
  <2>5. CASE wanted' = Unsure
    BY <2>5, UnsureKept
  <2>6. CASE wanted \in Given /\ wanted' = wanted /\ ~hasty
    <3>1. Doc' = objs[view]
      <4>1. Upload(objs[t.view], NoAck, t.view) /\ UNCHANGED db /\ NoAck \in Acks
        BY <1>1, <1>9 DEF GotUrlIos, objs, Acks
      <4> QED
        BY <1>2, <1>5, <2>3, <2>6, <4>1, UploadTyped DEF TypeInv
    <3>2. Current
      BY <2>3, <2>6 DEF Current
    <3>3. petObj[view].text = wanted.text /\ petObj[view].quiz = wanted.quiz
      BY <2>1, <2>3, <2>6, <3>2 DEF KeptInv, ObjectKept
    <3>4. wanted # Absent /\ objs[view] # Absent
      BY <1>5, <2>3, <2>6, PetAssumption
    <3>5. DeletedGone' /\ DocKept'
      BY <1>1, <1>4, <2>6, <3>1, <3>3, <3>4 DEF DeletedGone, DocKept
    <3>6. ObjectKept'
      BY <1>1, <1>4, <1>6, <2>6, <3>1, <3>3, <3>4 DEF ObjectKept
    <3>7. QuizKeeps' /\ IosSurvives'
      BY <1>1, <2>3, <2>6 DEF KeptInv, QuizKeeps, IosSurvives
    <3> QED
      BY <3>5, <3>6, <3>7 DEF KeptInv
  <2> QED
    BY <2>4, <2>5, <2>6
<1> QED
  BY <1>8, <1>9

\* A photo that does not arrive leaves the object to the others.
LEMMA TransferFailsKept ==
  ASSUME TypeInv, KeptInv, NEW t \in transfers, TransferFails(t) PROVE KeptInv'
<1>1. /\ petObj' = InUse(petObj, screen, transfers') /\ transfers' = transfers \ {t}
      /\ screen' = IF app = "ios" THEN screen ELSE "crashed"
      /\ UNCHANGED <<app, db, queue, view, reads, quiz, wanted>>
  BY DEF TransferFails
<1>2. view \in 0 .. MaxViews /\ app \in {"ios", "android"}
  BY DEF TypeInv, ScreenTyped, CountersTyped, Apps
<1>3. Current' => Current /\ petObj'[view] = petObj[view]
  BY <1>1, <1>2, InUseKeeps DEF Current
<1>4. Doc' = Doc
  BY <1>1 DEF Doc
<1>5. wanted # Absent
  BY NotDeleted, PetAssumption DEF TypeInv
<1>6. screen' = screen \/ (screen' = "crashed" /\ app = "android")
  BY <1>1, <1>2
<1>7. TypeInv /\ KeptInv
  OBVIOUS
<1>8. UNCHANGED <<app, view, reads, quiz, wanted>>
  BY <1>1
<1> QED
  BY <1>3, <1>4, <1>5, <1>6, <1>7, <1>8, SameKept

\* A quiz opens for who has pages left, as far as the pet screen knows, and on
\* iOS it knows unless its download is outstanding.
LEMMA StartQuizKept == ASSUME TypeInv, KeptInv, StartQuiz PROVE KeptInv'
<1>1. /\ screen = "pet" /\ screen' = "quiz" /\ QuestionsLeft
      /\ quiz' = [NoQuiz EXCEPT !.asked = TRUE] /\ Wants(wanted, Loading)
      /\ UNCHANGED <<app, db, queue, transfers, view, petObj, reads>>
  BY DEF StartQuiz, storage
<1>2. view \in 0 .. MaxViews /\ petObj[view] \in Profile
  BY DEF TypeInv, ScreenTyped, ObjectsTyped
<1>3. wanted = Unsure \/ wanted \in Given
  BY <1>1, NotDeleted DEF TypeInv
<1>4. wanted' = Unsure \/ (wanted \in Given /\ wanted' = wanted /\ reads[view] = 0)
  <2>1. Loading \in BOOLEAN /\ WantedTyped /\ (~Loading => reads[view] = 0)
    <3>1. reads[view] \in Nat
      BY <1>2, Bounds DEF TypeInv, ReadsTyped
    <3> QED
      BY <3>1 DEF Loading, TypeInv
  <2> QED
    BY <1>1, <1>3, <2>1, WantsGiven
<1>5. CASE wanted' = Unsure
  BY <1>5, UnsureKept
<1>6. CASE wanted \in Given /\ wanted' = wanted /\ reads[view] = 0
  <2>1. wanted # Absent /\ Current /\ Doc' = Doc
    BY <1>1, <1>6, PetAssumption DEF Current, Doc
  <2>2. DeletedGone' /\ DocKept'
    BY <1>1, <1>6, <2>1 DEF KeptInv, DeletedGone, DocKept
  <2>3. ObjectKept'
    BY <1>1, <1>6, <2>1 DEF KeptInv, ObjectKept
  <2>4. app = "ios" => Len(wanted.quiz) < Pages
    <3>1. app = "ios" => petObj[view].quiz = wanted.quiz
      BY <1>1, <1>6, <2>1 DEF KeptInv, ObjectKept
    <3>2. app = "ios" => Len(petObj[view].quiz) < Pages
      <4>1. Len(petObj[view].quiz) \in Nat
        BY <1>2 DEF Profile
      <4> QED
        BY <1>1, <4>1, PagesLeft DEF QuestionsLeft
    <3> QED
      BY <3>1, <3>2
  <2>5. quiz'.obj = Blank /\ quiz'.page = 0
    BY <1>1 DEF NoQuiz
  <2>6. QuizKeeps'
    BY <1>1, <1>6, <2>4, <2>5 DEF QuizKeeps
  <2>7. IosSurvives'
    BY <1>1 DEF IosSurvives
  <2> QED
    BY <2>2, <2>3, <2>6, <2>7 DEF KeptInv
<1> QED
  BY <1>4, <1>5, <1>6

\* What the quiz downloads is what is wanted, and on iOS pages are left.
LEMMA AnswerQuizKept ==
  ASSUME TypeInv, KeptInv, AnswerQuizIos \/ AnswerQuizAndroid PROVE KeptInv'
<1>1. /\ screen = "quiz" /\ quiz.asked
      /\ UNCHANGED <<app, db, queue, transfers, view, petObj, reads, wanted>>
  BY DEF AnswerQuizIos, AnswerQuizAndroid, storage
<1>2. /\ quiz \in [obj : Profile, page : 0 .. Pages, asked : BOOLEAN, done : BOOLEAN]
      /\ Doc \in Profile \cup {Absent} /\ app \in {"ios", "android"}
  BY DocTyped DEF TypeInv, QuizTyped, CountersTyped, Apps
<1>3. wanted = Unsure \/ wanted \in Given
  BY <1>1, NotDeleted DEF TypeInv
<1>4. CASE wanted = Unsure
  BY <1>1, <1>4, UnsureKept
<1>5. CASE wanted \in Given
  <2>1. wanted # Absent /\ Doc' = Doc
    BY <1>1, <1>5, PetAssumption DEF Doc
  <2> DEFINE loaded == IF Doc = Absent THEN quiz.obj ELSE Doc
  <2>2. loaded \in Profile /\ loaded.text = wanted.text
        /\ (app = "ios" => loaded.quiz = wanted.quiz /\ Len(wanted.quiz) < Pages)
    <3>1. CASE Doc = Absent
      BY <1>1, <1>2, <1>5, <3>1 DEF KeptInv, DocKept, QuizKeeps, Blank, Nothing
    <3>2. CASE Doc # Absent
      BY <1>1, <1>2, <1>5, <3>2 DEF KeptInv, DocKept, QuizKeeps
    <3> QED
      BY <3>1, <3>2
  <2>3. \/ app = "android" /\ screen' = "crashed"
        \/ /\ screen' = "quiz"
           /\ quiz' = [quiz EXCEPT !.obj = loaded, !.asked = FALSE,
                                   !.page = Len(loaded.quiz) + 1]
    <3>1. CASE AnswerQuizIos
      <4>1. AskPage(loaded) /\ app = "ios"
        BY <3>1 DEF AnswerQuizIos
      <4>2. ~NoneLeft(loaded.quiz)
        <5>1. Len(wanted.quiz) \in Nat /\ Len(wanted.quiz) < Pages
          BY <1>5, <2>2, <4>1 DEF Given
        <5> QED
          BY <2>2, <4>1, <5>1, PagesLeft
      <4> QED
        BY <1>1, <4>1, <4>2 DEF AskPage
    <3>2. CASE AnswerQuizAndroid
      BY <1>1, <3>2 DEF AnswerQuizAndroid, AskPage
    <3> QED
      BY <3>1, <3>2
  <2> HIDE DEF loaded
  <2>4. CASE app = "android" /\ screen' = "crashed"
    BY <1>1, <2>1, <2>4, SameKept DEF Current
  <2>5. CASE /\ screen' = "quiz"
             /\ quiz' = [quiz EXCEPT !.obj = loaded, !.asked = FALSE,
                                     !.page = Len(loaded.quiz) + 1]
    <3>1. quiz'.obj = loaded /\ ~quiz'.asked
      BY <1>2, <2>5
    <3>2. QuizKeeps'
      BY <1>1, <2>2, <3>1 DEF QuizKeeps
    <3>3. DeletedGone' /\ DocKept' /\ IosSurvives'
      BY <1>1, <2>1, <2>5 DEF KeptInv, DeletedGone, DocKept, IosSurvives
    <3>4. ObjectKept'
      BY <1>1, <1>5, <2>1, <2>5 DEF KeptInv, ObjectKept, Current
    <3> QED
      BY <3>2, <3>3, <3>4 DEF KeptInv
  <2> QED
    BY <2>3, <2>4, <2>5
<1> QED
  BY <1>3, <1>4, <1>5

\* Finished answers are appended to what the quiz downloaded, with its text.
LEMMA FinishQuizKept == ASSUME TypeInv, KeptInv, FinishQuiz PROVE KeptInv'
<1> DEFINE given == [by |-> quizzes, page |-> quiz.page]
           w == [wanted EXCEPT !.quiz = Append(@, given)]
           obj == [quiz.obj EXCEPT !.quiz = Append(@, given)]
<1>1. /\ screen = "quiz" /\ quiz.page # 0 /\ ~quiz.done /\ Wants(w, FALSE)
      /\ quiz' = [quiz EXCEPT !.obj.quiz = Append(@, given), !.done = TRUE]
      /\ UNCHANGED <<app, db, transfers, screen, view, petObj, reads>>
  BY DEF FinishQuiz, storage
<1>2. Upload(quiz'.obj, "quiz", quizzes)
  BY DEF FinishQuiz
<1>3. /\ quiz \in [obj : Profile, page : 0 .. Pages, asked : BOOLEAN, done : BOOLEAN]
      /\ quizzes \in Nat /\ "quiz" \in Acks
  BY Bounds DEF TypeInv, QuizTyped, CountersTyped, Acks
<1> HIDE DEF given
<1>4. quiz'.obj = obj /\ quiz'.done /\ quiz'.asked = quiz.asked
  BY <1>1, <1>3
<1>5. obj.text = quiz.obj.text /\ obj.quiz = Append(quiz.obj.quiz, given)
  BY <1>3 DEF Profile
<1> HIDE DEF obj
<1>6. obj \in Profile /\ obj # Absent
  <2>1. TypeInv'
    BY FinishQuizTyped
  <2> QED
    BY <1>4, <2>1, PetAssumption DEF TypeInv, QuizTyped
<1>7. Doc' = obj
  BY <1>1, <1>2, <1>3, <1>4, <1>6, UploadTyped DEF TypeInv
<1>8. wanted = Unsure \/ wanted \in Given
  BY <1>1, NotDeleted DEF TypeInv
<1>9. WantedTyped /\ (wanted = Unsure => wanted' = Unsure) /\ (wanted \in Given => wanted' = w)
  BY <1>1, WantsGiven DEF TypeInv
<1>10. CASE wanted = Unsure
  BY <1>9, <1>10, UnsureKept
<1>11. CASE wanted \in Given
  <2>1. w.text = wanted.text /\ w.quiz = Append(wanted.quiz, given)
    BY <1>11 DEF Given
  <2>2. w # Absent
    <3>1. given \in Answers
      <4>1. quiz.page \in 1 .. Pages /\ quizzes \in 0 .. MaxQuizzes
        BY <1>1, <1>3, Bounds DEF TypeInv, CountersTyped
      <4> QED
        BY <4>1 DEF given, Answers
    <3>2. w \in Given
      BY <1>11, <3>1, Profiles
    <3> QED
      BY <3>2, PetAssumption
  <2>3. wanted' = w
    BY <1>9, <1>11
  <2> HIDE DEF w
  <2>4. quiz.obj.text = wanted.text /\ (app = "ios" => quiz.obj.quiz = wanted.quiz)
        /\ ~quiz.asked
    BY <1>1, <1>11 DEF KeptInv, QuizKeeps
  <2>5. Current
    BY <1>1 DEF Current
  <2>6. DeletedGone' /\ DocKept'
    BY <1>1, <1>5, <1>6, <1>7, <2>1, <2>2, <2>3, <2>4 DEF DeletedGone, DocKept
  <2>7. ObjectKept'
    BY <1>1, <1>6, <1>7, <1>11, <2>1, <2>3, <2>5 DEF KeptInv, ObjectKept
  <2>8. QuizKeeps' /\ IosSurvives'
    BY <1>1, <1>4, <2>4 DEF QuizKeeps, IosSurvives
  <2> QED
    BY <2>6, <2>7, <2>8 DEF KeptInv
<1> QED
  BY <1>8, <1>10, <1>11

\* The pet screen that appears again downloads on iOS; on Android its text, all
\* that is claimed of it, is as it was.
LEMMA CloseQuizKept ==
  ASSUME TypeInv, KeptInv, screen = "quiz", CloseQuiz, Doc' = Doc,
         UNCHANGED <<app, wanted, view, petObj, transfers>>
  PROVE  KeptInv'
<1>1. screen' = "pet" /\ view \in 0 .. MaxViews
  BY DEF CloseQuiz, TypeInv, ScreenTyped
<1>2. wanted # Absent
  BY DEF KeptInv, DeletedGone
<1>3. /\ reads'[view] = 0 => reads[view] = 0
      /\ app = "ios" => reads'[view] # 0
  <2>1. IF app = "ios" THEN Download(view) ELSE UNCHANGED reads
    BY DEF CloseQuiz, Appear
  <2>2. CASE app = "ios"
    <3>1. reads'[view] > 0
      BY <1>1, <2>1, <2>2, DownloadTyped DEF TypeInv
    <3> QED
      BY <2>2, <3>1
  <2>3. CASE app # "ios"
    BY <2>1, <2>3
  <2> QED
    BY <2>2, <2>3
<1>4. Current
  BY DEF Current
<1> QED
  BY <1>1, <1>2, <1>3, <1>4, SameKept

\* The owner closes the quiz without an end.
LEMMA ExitQuizKept == ASSUME TypeInv, KeptInv, ExitQuiz PROVE KeptInv'
<1>1. /\ screen = "quiz" /\ CloseQuiz /\ Doc' = Doc
      /\ UNCHANGED <<app, wanted, view, petObj, transfers>>
  BY DEF ExitQuiz, Doc, storage
<1> QED
  BY <1>1, CloseQuizKept

\* A write that reaches the server is one the phone had already, and closes the
\* quiz or the screen.
LEMMA FlushKept == ASSUME TypeInv, KeptInv, Flush PROVE KeptInv'
<1>1. Doc' = Doc
  BY FlushDoc
<1>2. UNCHANGED <<app, transfers, view, wanted>>
  BY DEF Flush, storage
<1>3. \/ screen = "quiz" /\ CloseQuiz /\ UNCHANGED petObj
      \/ screen = "pet" /\ Leave /\ UNCHANGED reads
      \/ UNCHANGED <<screen, petObj, reads, quiz>>
  BY DEF Flush
<1>4. CASE screen = "quiz" /\ CloseQuiz /\ UNCHANGED petObj
  BY <1>1, <1>2, <1>4, CloseQuizKept
<1>5. CASE screen = "pet" /\ Leave /\ UNCHANGED reads
  BY <1>1, <1>2, <1>5, LeaveKept
<1>6. CASE UNCHANGED <<screen, petObj, reads, quiz>>
  <2>1. Current' = Current
    BY <1>2, <1>6 DEF Current
  <2>2. wanted = Absent => screen # "pet"
    BY DEF KeptInv, DeletedGone
  <2> QED
    BY <1>1, <1>2, <1>6, <2>1, <2>2, SameKept
<1> QED
  BY <1>3, <1>4, <1>5, <1>6

\* An owner who goes on after a download failed is a hasty one.
LEMMA ReadFailsKept == ASSUME TypeInv, KeptInv, NEW v \in 1 .. MaxViews, ReadFails(v) PROVE KeptInv'
<1>1. /\ reads' = [reads EXCEPT ![v] = @ - 1] /\ Wants(wanted, TRUE)
      /\ UNCHANGED <<app, db, queue, transfers, screen, view, petObj, quiz>>
  BY DEF ReadFails, storage
<1>2. wanted' = Unsure \/ (wanted = Absent /\ wanted' = Absent)
  BY <1>1, WantsGiven, WantedCases DEF TypeInv
<1>3. CASE wanted' = Unsure
  BY <1>3, UnsureKept
<1>4. CASE wanted = Absent /\ wanted' = Absent
  BY <1>1, <1>4, PetAssumption
     DEF KeptInv, DeletedGone, DocKept, ObjectKept, QuizKeeps, IosSurvives, Doc
<1> QED
  BY <1>2, <1>3, <1>4

\* A quiz whose download fails is one the owner does not wait for.
LEMMA QuizReadFailsKept == ASSUME TypeInv, KeptInv, QuizReadFails PROVE KeptInv'
<1>1. screen = "quiz" /\ Wants(wanted, TRUE)
  BY DEF QuizReadFails
<1>2. wanted = Unsure \/ wanted \in Given
  BY <1>1, NotDeleted DEF TypeInv
<1>3. wanted' = Unsure
  BY <1>1, <1>2, WantsGiven DEF TypeInv
<1> QED
  BY <1>3, UnsureKept

\* The queue survives the app: what the phone reads is what it was.
LEMMA RestartKept == ASSUME TypeInv, KeptInv, Restart PROVE KeptInv'
<1>1. Doc' = Doc /\ screen' = "home" /\ transfers' = {} /\ UNCHANGED <<app, wanted, view>>
  BY RestartTyped DEF Restart
<1>2. ~Current'
  BY <1>1 DEF Current
<1> QED
  BY <1>1, <1>2, SameKept

\* Every handler keeps what the owner gave, and away what they deleted.
LEMMA NextKept == TypeInv /\ KeptInv /\ [Next]_vars => KeptInv'
<1> SUFFICES ASSUME TypeInv, KeptInv, [Next]_vars PROVE KeptInv'
  OBVIOUS
<1>1. CASE OpenPet \/ SaveIos \/ SaveAndroid \/ Exit \/ DeletePetIos \/ DeletePetAndroid
  BY <1>1, OpenPetKept, SaveKept, ExitKept, DeletePetKept DEF DeletePetIos, DeletePetAndroid
<1>2. CASE StartQuiz \/ AnswerQuizIos \/ AnswerQuizAndroid \/ FinishQuiz \/ ExitQuiz
  BY <1>2, StartQuizKept, AnswerQuizKept, FinishQuizKept, ExitQuizKept
<1>3. CASE Flush \/ QuizReadFails \/ Restart
  BY <1>3, FlushKept, QuizReadFailsKept, RestartKept
<1>4. ASSUME NEW v \in 1 .. MaxViews, AnswerPetIos(v) \/ AnswerPetAndroid(v) \/ ReadFails(v)
      PROVE  KeptInv'
  BY <1>4, AnswerPetKept, ReadFailsKept
<1>5. ASSUME NEW s \in Slot, DeletePhotoIos(s) \/ DeletePhotoAndroid(s)
                             \/ PickPhotoIos(s) \/ PickPhotoAndroid(s)
      PROVE  KeptInv'
  BY <1>5, DeletePhotoKept, PickPhotoKept
<1>6. ASSUME NEW t \in transfers, GotUrlIos(t) \/ GotUrlAndroid(t) \/ TransferFails(t)
      PROVE  KeptInv'
  BY <1>6, GotUrlKept, TransferFailsKept
<1>7. CASE UNCHANGED vars
  BY <1>7 DEF vars, KeptInv, DeletedGone, DocKept, ObjectKept, Current, QuizKeeps,
     IosSurvives, Doc
<1> QED
  BY <1>1, <1>2, <1>3, <1>4, <1>5, <1>6, <1>7 DEF Next

\* With nothing pending the server has what the phone reads.
LEMMA QuietDoc == ASSUME queue = <<>> PROVE Doc = Pet
  BY DEF Doc, View, PendingOn, Pet

\* The text saved last is the text of the profile, for both apps.
THEOREM SavedTextKept == Spec => []TextKept
<1>1. TypeInv /\ KeptInv => TextKept
  <2> SUFFICES ASSUME TypeInv, KeptInv, AtRest, Pet # Absent, wanted # Absent
               PROVE  Pet.text = wanted.text
    BY DEF TextKept
  <2>1. wanted \in Given /\ Doc = Pet
    BY WantedCases, QuietDoc DEF TypeInv, AtRest
  <2> QED
    BY <2>1 DEF KeptInv, DocKept
<1> QED
  BY <1>1, InitTyped, InitKept, NextTyped, NextKept, PTL DEF Spec

\* iOS: nothing overwrites the answers of a finished quiz.
THEOREM AnswersKept == Spec => []QuizKept
<1>1. TypeInv /\ KeptInv => QuizKept
  <2> SUFFICES ASSUME TypeInv, KeptInv, app = "ios", AtRest, Pet # Absent, wanted # Absent
               PROVE  Pet.quiz = wanted.quiz
    BY DEF QuizKept
  <2>1. wanted \in Given /\ Doc = Pet
    BY WantedCases, QuietDoc DEF TypeInv, AtRest
  <2> QED
    BY <2>1 DEF KeptInv, DocKept
<1> QED
  BY <1>1, InitTyped, InitKept, NextTyped, NextKept, PTL DEF Spec

\* No late upload and no screen brings a deleted pet back.
THEOREM DeletedPetGone == Spec => []DeletedStaysDeleted
<1>1. KeptInv => DeletedStaysDeleted
  BY QuietDoc DEF KeptInv, DeletedGone, DeletedStaysDeleted, AtRest
<1> QED
  BY <1>1, InitTyped, InitKept, NextTyped, NextKept, PTL DEF Spec

\* The quiz of iOS does not open without questions.
THEOREM QuizOpensWithQuestions == Spec => []IosSurvives
<1>1. KeptInv => IosSurvives
  BY DEF KeptInv
<1> QED
  BY <1>1, InitTyped, InitKept, NextTyped, NextKept, PTL DEF Spec

----------------------------------------------------------------------------
(* Every photo has one place *)

\* What the phone shows of the pet, a blank profile for a missing one.
Shown == IF Doc = Absent THEN Blank ELSE Doc

\* Of n photos picked so far, of which ts are on their way, p has each in one place
\* at most, and none that is still on its way.
Apart(p, n, ts) ==
  /\ \A a, b \in Slot : p.photo[a] = p.photo[b] /\ p.photo[a] # 0 => a = b
  /\ \A u \in Urls(p) : u <= n
  /\ \A t \in ts : t.photo \notin Urls(p)

ApartInv ==
  /\ Apart(Shown, photos, transfers) /\ Apart(quiz.obj, photos, transfers)
  /\ \A w \in 0 .. MaxViews : Apart(petObj[w], photos, transfers)
  /\ \A t \in transfers : t.photo <= photos
  /\ \A t, x \in transfers : t.photo = x.photo => t = x

\* Profiles with the same photos are as one here.
LEMMA ApartPhotos ==
  ASSUME NEW p, NEW q, p.photo = q.photo
  PROVE  Urls(p) = Urls(q) /\ \A n, ts : Apart(p, n, ts) <=> Apart(q, n, ts)
  BY DEF Apart, Urls

\* A blank profile has no photos.
LEMMA ApartBlank == Urls(Blank) = {} /\ \A n, ts : Apart(Blank, n, ts)
  BY DEF Apart, Urls, Blank

\* Fewer photos on their way.
LEMMA ApartFewer ==
  ASSUME NEW p, NEW n, NEW ts, Apart(p, n, ts), NEW fewer \in SUBSET ts
  PROVE  Apart(p, n, fewer)
  BY DEF Apart

\* A photo that is picked is new to every profile.
LEMMA ApartPicked ==
  ASSUME NEW p \in Profile, NEW n \in Nat, NEW ts, Apart(p, n, ts), NEW t, t.photo = n + 1
  PROVE  Apart(p, n + 1, ts \cup {t})
<1>1. \A u \in Urls(p) : u \in Nat /\ u <= n
  BY Bounds DEF Apart, Urls, Profile
<1>2. \A u \in Urls(p) : u <= n + 1 /\ u # n + 1
  BY <1>1
<1> QED
  BY <1>2 DEF Apart

\* The URLs of a profile in which one place changes.
LEMMA UrlsSet ==
  ASSUME NEW p \in Profile, NEW n, NEW ts, Apart(p, n, ts), NEW s \in Slot,
         NEW u \in 0 .. MaxPhotos
  PROVE  Urls([p EXCEPT !.photo[s] = u]) = (Urls(p) \ {p.photo[s]}) \cup ({u} \ {0})
<1> DEFINE q == [p EXCEPT !.photo[s] = u]
<1>1. \A a \in Slot : q.photo[a] = IF a = s THEN u ELSE p.photo[a]
  BY DEF Profile
<1> HIDE DEF q
<1>2. \A a, b \in Slot : p.photo[a] = p.photo[b] /\ p.photo[a] # 0 => a = b
  BY DEF Apart
<1>3. \A x : x \in Urls(q) <=> x # 0 /\ \E a \in Slot : x = q.photo[a]
  BY DEF Urls
<1>4. \A x : x \in Urls(p) <=> x # 0 /\ \E a \in Slot : x = p.photo[a]
  BY DEF Urls
<1>5. Urls(q) = (Urls(p) \ {p.photo[s]}) \cup ({u} \ {0})
  BY <1>1, <1>2, <1>3, <1>4
<1> QED
  BY <1>5 DEF q

\* A URL is taken away.
LEMMA ApartCleared ==
  ASSUME NEW p \in Profile, NEW n, NEW ts, Apart(p, n, ts), NEW s \in Slot
  PROVE  Apart([p EXCEPT !.photo[s] = 0], n, ts)
<1> DEFINE q == [p EXCEPT !.photo[s] = 0]
<1>1. \A a \in Slot : q.photo[a] = IF a = s THEN 0 ELSE p.photo[a]
  BY DEF Profile
<1>2. 0 \in 0 .. MaxPhotos
  BY Bounds
<1>3. Urls(q) \subseteq Urls(p)
  BY <1>2, UrlsSet
<1> HIDE DEF q
<1>4. Apart(q, n, ts)
  BY <1>1, <1>3 DEF Apart
<1> QED
  BY <1>4 DEF q

\* A photo that arrives is in no other place, and no longer on its way.
LEMMA ApartArrived ==
  ASSUME NEW p \in Profile, NEW n, NEW ts, Apart(p, n, ts), NEW t \in ts,
         t.photo \in 1 .. MaxPhotos, t.slot \in Slot, t.photo <= n,
         \A x \in ts : x.photo = t.photo => x = t
  PROVE  Apart([p EXCEPT !.photo[t.slot] = t.photo], n, ts \ {t})
<1> DEFINE q == [p EXCEPT !.photo[t.slot] = t.photo]
<1>1. \A a \in Slot : q.photo[a] = IF a = t.slot THEN t.photo ELSE p.photo[a]
  BY DEF Profile
<1>2. t.photo \in 0 .. MaxPhotos
  BY Bounds
<1>3. Urls(q) \subseteq Urls(p) \cup {t.photo}
  BY <1>2, UrlsSet
<1> HIDE DEF q
<1>4. \A a \in Slot : p.photo[a] # t.photo
  <2> SUFFICES ASSUME NEW a \in Slot, p.photo[a] = t.photo PROVE FALSE
    OBVIOUS
  <2>1. t.photo # 0
    BY Bounds
  <2>2. t.photo \in Urls(p)
    BY <2>1 DEF Urls
  <2> QED
    BY <2>2 DEF Apart
<1>5. \A a, b \in Slot : q.photo[a] = q.photo[b] /\ q.photo[a] # 0 => a = b
  BY <1>1, <1>4 DEF Apart
<1>6. /\ \A u \in Urls(q) : u <= n
      /\ \A x \in ts \ {t} : x.photo \notin Urls(q)
  BY <1>3 DEF Apart
<1>7. Apart(q, n, ts \ {t})
  BY <1>5, <1>6 DEF Apart
<1> QED
  BY <1>7 DEF q

\* A step that picks no photo.
LEMMA ApartStep ==
  ASSUME ApartInv, photos' = photos, transfers' \subseteq transfers,
         Apart(Shown', photos, transfers'), Apart(quiz'.obj, photos, transfers'),
         \A w \in 0 .. MaxViews : Apart(petObj'[w], photos, transfers')
  PROVE  ApartInv'
  BY DEF ApartInv

\* A step that changes neither what the phone reads nor photos.
LEMMA ApartSame ==
  ASSUME ApartInv, photos' = photos, transfers' \subseteq transfers, Doc' = Doc,
         quiz' = quiz \/ quiz' = NoQuiz,
         \A w \in 0 .. MaxViews : petObj'[w] = petObj[w] \/ petObj'[w] = Blank
  PROVE  ApartInv'
<1>1. Shown' = Shown
  BY DEF Shown
<1>2. Apart(Shown', photos, transfers') /\ Apart(quiz'.obj, photos, transfers')
  BY <1>1, ApartFewer, ApartBlank, Profiles DEF ApartInv
<1>3. \A w \in 0 .. MaxViews : Apart(petObj'[w], photos, transfers')
  BY ApartFewer, ApartBlank DEF ApartInv
<1> QED
  BY <1>2, <1>3, ApartStep

\* An object in use or a blank one.
LEMMA InUseBlank ==
  ASSUME NEW objs, NEW to, NEW ts, NEW w \in 0 .. MaxViews
  PROVE  InUse(objs, to, ts)[w] = objs[w] \/ InUse(objs, to, ts)[w] = Blank
  BY DEF InUse

\* What SetUrl makes of each object.
LEMMA SetUrlIs ==
  ASSUME ObjectsTyped, NEW v \in 0 .. MaxViews, NEW s \in Slot, NEW url
  PROVE  \A w \in 0 .. MaxViews :
           SetUrl(v, s, url)[w] = IF w = v THEN [petObj[v] EXCEPT !.photo[s] = url]
                                  ELSE petObj[w]
<1> DEFINE p == [petObj[v] EXCEPT !.photo[s] = url]
<1>1. SetUrl(v, s, url) = [petObj EXCEPT ![v] = p]
  BY DEF SetUrl
<1> HIDE DEF p
<1>2. \A w \in 0 .. MaxViews : SetUrl(v, s, url)[w] = IF w = v THEN p ELSE petObj[w]
  BY <1>1 DEF ObjectsTyped
<1> QED
  BY <1>2 DEF p

\* The photos of an old pet are in one place, and none is on its way.
LEMMA InitApart == Init => ApartInv
<1> SUFFICES ASSUME Init PROVE ApartInv
  OBVIOUS
<1>1. PICK old \in {Absent} \cup
             {[text |-> 1, quiz |-> OldQuiz, photo |-> [Blank.photo EXCEPT ![s] = 1]] : s \in Slot} :
        db = [d \in {"pet"} |-> old]
  BY DEF Init
<1>2. transfers = {} /\ photos = 1 /\ quiz = NoQuiz /\ petObj = [v \in 0 .. MaxViews |-> Blank]
  BY DEF Init
<1>3. Doc = old
  BY <1>1 DEF Init, Doc, View, PendingOn
<1>4. Apart(Shown, 1, {})
  <2>1. CASE old = Absent
    BY <1>3, <2>1, ApartBlank DEF Shown
  <2>2. CASE old # Absent
    <3>1. PICK s \in Slot :
            old = [text |-> 1, quiz |-> OldQuiz, photo |-> [Blank.photo EXCEPT ![s] = 1]]
      BY <1>1, <2>2
    <3>2. Shown = old /\ \A a \in Slot : old.photo[a] = IF a = s THEN 1 ELSE 0
      BY <1>3, <2>2, <3>1 DEF Shown, Blank
    <3> QED
      BY <3>2 DEF Apart, Urls
  <2> QED
    BY <2>1, <2>2
<1> QED
  BY <1>2, <1>4, ApartBlank, Profiles DEF ApartInv

\* Steps that change no profile's photos.
LEMMA IdleApart ==
  ASSUME TypeInv, ApartInv, OpenPet \/ Exit \/ StartQuiz \/ ExitQuiz \/ QuizReadFails
  PROVE  ApartInv'
<1>1. photos' = photos /\ transfers' = transfers /\ Doc' = Doc
  BY DEF OpenPet, Exit, StartQuiz, ExitQuiz, QuizReadFails, storage, counters, Doc
<1>2. \A w \in 0 .. MaxViews : petObj'[w] = petObj[w] \/ petObj'[w] = Blank
  <2>1. petObj' = petObj \/ petObj' = InUse(petObj, "home", transfers)
    BY DEF OpenPet, Exit, Leave, StartQuiz, ExitQuiz, QuizReadFails
  <2> QED
    BY <2>1, InUseBlank
<1>3. quiz'.obj = quiz.obj \/ quiz'.obj = Blank
  <2>1. quiz \in [obj : Profile, page : 0 .. Pages, asked : BOOLEAN, done : BOOLEAN]
    BY DEF TypeInv, QuizTyped
  <2>2. CASE OpenPet \/ Exit
    BY <2>2 DEF OpenPet, Exit
  <2>3. CASE StartQuiz
    BY <2>3 DEF StartQuiz, NoQuiz
  <2>4. CASE ExitQuiz
    BY <2>4 DEF ExitQuiz, CloseQuiz, NoQuiz
  <2>5. CASE QuizReadFails
    BY <2>1, <2>5 DEF QuizReadFails
  <2> QED
    BY <2>2, <2>3, <2>4, <2>5
<1>4. Shown' = Shown
  BY <1>1 DEF Shown
<1>5. Apart(Shown', photos, transfers') /\ Apart(quiz'.obj, photos, transfers')
  BY <1>1, <1>3, <1>4, ApartBlank DEF ApartInv
<1>6. \A w \in 0 .. MaxViews : Apart(petObj'[w], photos, transfers')
  BY <1>1, <1>2, ApartBlank DEF ApartInv
<1> QED
  BY <1>1, <1>5, <1>6, ApartStep

\* A download puts what the phone shows into an object.
LEMMA AnswerPetApart ==
  ASSUME TypeInv, ApartInv, NEW v \in 1 .. MaxViews,
         AnswerPetIos(v) \/ AnswerPetAndroid(v) \/ ReadFails(v)
  PROVE  ApartInv'
<1>1. photos' = photos /\ transfers' = transfers /\ Doc' = Doc /\ quiz' = quiz
  BY DEF AnswerPetIos, AnswerPetAndroid, ReadFails, storage, counters, Doc
<1>2. \/ petObj' = petObj
      \/ Doc # Absent /\ petObj' = InUse([petObj EXCEPT ![v] = Doc], screen, transfers)
  BY DEF AnswerPetIos, AnswerPetAndroid, ReadFails, Filled
<1>3. \A w \in 0 .. MaxViews : petObj'[w] \in {petObj[w], Blank, Shown}
  <2>1. CASE petObj' = petObj
    BY <2>1
  <2>2. CASE Doc # Absent /\ petObj' = InUse([petObj EXCEPT ![v] = Doc], screen, transfers)
    <3> DEFINE objs == [petObj EXCEPT ![v] = Doc]
    <3>1. \A w \in 0 .. MaxViews : objs[w] \in {petObj[w], Shown}
      BY <2>2 DEF TypeInv, ObjectsTyped, Shown
    <3> HIDE DEF objs
    <3>2. petObj' = InUse(objs, screen, transfers)
      BY <2>2 DEF objs
    <3> QED
      BY <3>1, <3>2, InUseBlank
  <2> QED
    BY <1>2, <2>1, <2>2
<1>4. Shown' = Shown
  BY <1>1 DEF Shown
<1>5. Apart(Shown', photos, transfers') /\ Apart(quiz'.obj, photos, transfers')
  BY <1>1, <1>4 DEF ApartInv
<1>6. \A w \in 0 .. MaxViews : Apart(petObj'[w], photos, transfers')
  BY <1>1, <1>3, ApartBlank DEF ApartInv
<1> QED
  BY <1>1, <1>5, <1>6, ApartStep

\* A save changes the text only.
LEMMA SaveApart == ASSUME TypeInv, ApartInv, SaveIos \/ SaveAndroid PROVE ApartInv'
<1>1. PICK fields \in Typed, ack \in {"save", NoAck} : SaveFields(fields, ack)
  BY DEF SaveIos, SaveAndroid
<1>2. /\ petObj' = [petObj EXCEPT ![view].text = fields] /\ Upload(petObj'[view], ack, view)
      /\ photos' = photos /\ transfers' = transfers /\ quiz' = quiz /\ db' = db
  BY <1>1 DEF SaveFields, storage
<1>3. view \in 0 .. MaxViews /\ view \in Nat /\ ack \in Acks /\ TypeInv'
  BY SaveTyped, Bounds DEF TypeInv, ScreenTyped, Acks
<1>4. \A w \in 0 .. MaxViews : petObj'[w].photo = petObj[w].photo
  <2>1. petObj' = [petObj EXCEPT ![view] = [petObj[view] EXCEPT !.text = fields]]
    BY <1>2
  <2>2. [petObj[view] EXCEPT !.text = fields].photo = petObj[view].photo
    BY <1>3 DEF TypeInv, ObjectsTyped, Profile
  <2> QED
    BY <1>3, <2>1, <2>2 DEF TypeInv, ObjectsTyped
<1>5. \A w \in 0 .. MaxViews : Apart(petObj'[w], photos, transfers')
  BY <1>2, <1>4, ApartPhotos DEF ApartInv
<1>6. petObj'[view] \in Profile
  BY <1>3 DEF TypeInv, ObjectsTyped
<1>7. Doc' = petObj'[view]
  BY <1>2, <1>3, <1>6, UploadTyped DEF TypeInv
<1>8. Shown' = petObj'[view]
  BY <1>6, <1>7, PetAssumption DEF Shown
<1> QED
  BY <1>2, <1>3, <1>5, <1>8, ApartStep DEF ApartInv

\* A deleted pet has no photos.
LEMMA DeletePetApart == ASSUME TypeInv, ApartInv, DeletePet PROVE ApartInv'
<1>1. /\ Upload(Absent, NoAck, view) /\ db' = db /\ photos' = photos /\ transfers' = transfers
      /\ quiz' = quiz /\ petObj' = InUse(petObj, "home", transfers)
  BY DEF DeletePet, CloseDeletedPet, counters
<1>2. view \in Nat /\ NoAck \in Acks
  BY Bounds DEF TypeInv, ScreenTyped, Acks
<1>3. Doc' = Absent
  BY <1>1, <1>2, UploadTyped DEF TypeInv
<1>4. Apart(Shown', photos, transfers')
  BY <1>3, ApartBlank DEF Shown
<1>5. \A w \in 0 .. MaxViews : petObj'[w] = petObj[w] \/ petObj'[w] = Blank
  BY <1>1, InUseBlank
<1>6. \A w \in 0 .. MaxViews : Apart(petObj'[w], photos, transfers')
  BY <1>1, <1>5, ApartBlank DEF ApartInv
<1> QED
  BY <1>1, <1>4, <1>6, ApartStep DEF ApartInv

\* A photo goes from an object, on iOS from the document too.
LEMMA DeletePhotoApart ==
  ASSUME TypeInv, ApartInv, NEW s \in Slot, DeletePhotoIos(s) \/ DeletePhotoAndroid(s)
  PROVE  ApartInv'
<1>1. /\ petObj' = SetUrl(view, s, 0) /\ photos' = photos /\ transfers' = transfers
      /\ quiz' = quiz /\ db' = db
  BY DEF DeletePhotoIos, DeletePhotoAndroid, counters
<1>2. view \in 0 .. MaxViews /\ view \in Nat /\ petObj[view] \in Profile /\ ObjectsTyped
  BY Bounds DEF TypeInv, ScreenTyped, ObjectsTyped
<1>3. Apart([petObj[view] EXCEPT !.photo[s] = 0], photos, transfers)
  BY <1>2, ApartCleared DEF ApartInv
<1>4. \A w \in 0 .. MaxViews : Apart(petObj'[w], photos, transfers')
  BY <1>1, <1>2, <1>3, SetUrlIs DEF ApartInv
<1>5. petObj'[view] \in Profile
  BY <1>2, DeletePhotoTyped DEF TypeInv, ObjectsTyped
<1>6. Doc' = Doc \/ Doc' = petObj'[view]
  <2>1. CASE DeletePhotoIos(s)
    <3>1. Upload(petObj'[view], NoAck, view) /\ UNCHANGED db /\ NoAck \in Acks
      BY <2>1 DEF DeletePhotoIos, Acks
    <3> QED
      BY <1>2, <1>5, <3>1, UploadTyped DEF TypeInv
  <2>2. CASE DeletePhotoAndroid(s)
    BY <2>2 DEF DeletePhotoAndroid, Doc
  <2> QED
    BY <2>1, <2>2
<1>7. Shown' = Shown \/ Shown' = petObj'[view]
  BY <1>5, <1>6, PetAssumption DEF Shown
<1> QED
  BY <1>1, <1>2, <1>4, <1>7, ApartStep DEF ApartInv

\* A photo that is picked is none of those picked before.
LEMMA PickPhotoApart ==
  ASSUME TypeInv, ApartInv, NEW s \in Slot, PickPhotoIos(s) \/ PickPhotoAndroid(s)
  PROVE  ApartInv'
<1> DEFINE t == [photo |-> photos + 1, slot |-> s, view |-> view]
<1>1. /\ photos' = photos + 1 /\ transfers' = transfers \cup {t} /\ quiz' = quiz
      /\ UNCHANGED <<db, queue>>
  BY DEF PickPhotoIos, PickPhotoAndroid, Send
<1>2. /\ view \in 0 .. MaxViews /\ photos \in Nat /\ ObjectsTyped
      /\ \A w \in 0 .. MaxViews : petObj[w] \in Profile
      /\ quiz.obj \in Profile
  BY Bounds DEF TypeInv, ScreenTyped, ObjectsTyped, CountersTyped, QuizTyped
<1>3. t.photo = photos + 1
  OBVIOUS
<1> HIDE DEF t
<1>4. Doc' = Doc /\ Shown' = Shown /\ Shown \in Profile
  BY <1>1, DocTyped, Profiles DEF Doc, Shown, TypeInv
<1>5. Apart(Shown', photos', transfers') /\ Apart(quiz'.obj, photos', transfers')
  BY <1>1, <1>2, <1>3, <1>4, ApartPicked DEF ApartInv
<1>6. \A w \in 0 .. MaxViews : Apart(petObj'[w], photos', transfers')
  <2>1. petObj' = petObj \/ petObj' = SetUrl(view, s, 0)
    BY DEF PickPhotoIos, PickPhotoAndroid
  <2>2. \A w \in 0 .. MaxViews : Apart(petObj[w], photos + 1, transfers \cup {t})
    BY <1>2, <1>3, ApartPicked DEF ApartInv
  <2>3. Apart([petObj[view] EXCEPT !.photo[s] = 0], photos + 1, transfers \cup {t})
    BY <1>2, <2>2, ApartCleared
  <2>4. CASE petObj' = petObj
    BY <1>1, <2>2, <2>4
  <2>5. CASE petObj' = SetUrl(view, s, 0)
    <3> DEFINE p == [petObj[view] EXCEPT !.photo[s] = 0]
    <3>1. \A w \in 0 .. MaxViews : petObj'[w] = IF w = view THEN p ELSE petObj[w]
      <4>1. \A w \in 0 .. MaxViews :
              SetUrl(view, s, 0)[w] = IF w = view THEN p ELSE petObj[w]
        BY <1>2, SetUrlIs, SMTT(30)
      <4> HIDE DEF p
      <4> QED
        BY <2>5, <4>1
    <3>2. Apart(p, photos + 1, transfers \cup {t})
      BY <2>3
    <3> HIDE DEF p
    <3>3. \A w \in 0 .. MaxViews : Apart(petObj'[w], photos + 1, transfers \cup {t})
      BY <2>2, <3>1, <3>2
    <3> QED
      BY <1>1, <3>3
  <2> QED
    BY <2>1, <2>4, <2>5
<1>7. \A x \in transfers : x.photo \in Nat /\ x.photo <= photos
  BY Bounds DEF TypeInv, PhotosTyped, Transfer, ApartInv
<1>8. \A x \in transfers' : x.photo <= photos'
  BY <1>1, <1>2, <1>3, <1>7
<1>9. \A x, y \in transfers' : x.photo = y.photo => x = y
  <2>1. \A x \in transfers : x.photo # t.photo
    BY <1>2, <1>3, <1>7
  <2> QED
    BY <1>1, <2>1 DEF ApartInv
<1> QED
  BY <1>5, <1>6, <1>8, <1>9 DEF ApartInv

\* A photo that arrives goes into one place of one object.
LEMMA GotUrlApart ==
  ASSUME TypeInv, ApartInv, NEW t \in transfers, GotUrlIos(t) \/ GotUrlAndroid(t)
  PROVE  ApartInv'
<1> DEFINE objs == SetUrl(t.view, t.slot, t.photo)
<1>1. /\ petObj' = InUse(objs, screen, transfers') /\ transfers' = transfers \ {t}
      /\ photos' = photos /\ quiz' = quiz /\ db' = db
  BY DEF GotUrlIos, GotUrlAndroid, GotUrl, counters
<1>2. /\ t.photo \in 1 .. MaxPhotos /\ t.photo \in 0 .. MaxPhotos /\ t.slot \in Slot
      /\ t.view \in 0 .. MaxViews /\ t.view \in Nat
      /\ ObjectsTyped /\ petObj[t.view] \in Profile
  BY Bounds DEF TypeInv, PhotosTyped, Transfer, ObjectsTyped
<1>3. Apart([petObj[t.view] EXCEPT !.photo[t.slot] = t.photo], photos, transfers')
  <2>1. /\ Apart(petObj[t.view], photos, transfers) /\ t.photo <= photos
        /\ \A x \in transfers : x.photo = t.photo => x = t
    BY <1>2 DEF ApartInv
  <2> QED
    BY <1>1, <1>2, <2>1, ApartArrived
<1>4. \A w \in 0 .. MaxViews : Apart(petObj[w], photos, transfers')
  BY <1>1, ApartFewer DEF ApartInv
<1>5. \A w \in 0 .. MaxViews : Apart(objs[w], photos, transfers')
  BY <1>2, <1>3, <1>4, SetUrlIs
<1>6. objs[t.view] \in Profile
  BY <1>2, SetUrlTyped
<1> HIDE DEF objs
<1>7. \A w \in 0 .. MaxViews : Apart(petObj'[w], photos, transfers')
  BY <1>1, <1>5, InUseBlank, ApartBlank
<1>8. Doc' = Doc \/ Doc' = objs[t.view]
  <2>1. CASE GotUrlIos(t)
    <3>1. Upload(objs[t.view], NoAck, t.view) /\ UNCHANGED db /\ NoAck \in Acks
      BY <1>1, <2>1 DEF GotUrlIos, objs, Acks
    <3> QED
      BY <1>2, <1>6, <3>1, UploadTyped DEF TypeInv
  <2>2. CASE GotUrlAndroid(t)
    BY <1>1, <2>2 DEF GotUrlAndroid, Doc
  <2> QED
    BY <2>1, <2>2
<1>9. Shown' = Shown \/ Shown' = objs[t.view]
  BY <1>6, <1>8, PetAssumption DEF Shown
<1>10. Apart(Shown', photos, transfers') /\ Apart(quiz'.obj, photos, transfers')
  BY <1>1, <1>2, <1>5, <1>9, ApartFewer DEF ApartInv
<1> QED
  BY <1>1, <1>7, <1>10, ApartStep

\* Fewer photos are on their way.
LEMMA TransferFailsApart ==
  ASSUME TypeInv, ApartInv, NEW t \in transfers, TransferFails(t) PROVE ApartInv'
<1>1. /\ photos' = photos /\ transfers' \subseteq transfers /\ quiz' = quiz
      /\ petObj' = InUse(petObj, screen, transfers') /\ Doc' = Doc
  BY DEF TransferFails, Doc
<1> QED
  BY <1>1, InUseBlank, ApartSame

\* The quiz takes the photos the phone shows, and uploads them again.
LEMMA AnswerQuizApart ==
  ASSUME TypeInv, ApartInv, AnswerQuizIos \/ AnswerQuizAndroid PROVE ApartInv'
<1>1. /\ photos' = photos /\ transfers' = transfers /\ Doc' = Doc /\ petObj' = petObj
  BY DEF AnswerQuizIos, AnswerQuizAndroid, storage, counters, Doc
<1>2. quiz \in [obj : Profile, page : 0 .. Pages, asked : BOOLEAN, done : BOOLEAN]
  BY DEF TypeInv, QuizTyped
<1>3. quiz'.obj \in {quiz.obj, Shown, Blank}
  <2>1. ASSUME NEW loaded, AskPage(loaded) PROVE quiz'.obj = loaded \/ quiz'.obj = Blank
    BY <1>2, <2>1, Profiles DEF AskPage
  <2>2. CASE AnswerQuizIos
    <3>1. AskPage(IF Doc = Absent THEN quiz.obj ELSE Doc)
      BY <2>2 DEF AnswerQuizIos
    <3>2. (IF Doc = Absent THEN quiz.obj ELSE Doc) \in {quiz.obj, Shown}
      BY DEF Shown
    <3> QED
      BY <2>1, <3>1, <3>2
  <2>3. CASE AnswerQuizAndroid /\ Doc # Absent
    BY <2>1, <2>3 DEF AnswerQuizAndroid, Shown
  <2>4. CASE AnswerQuizAndroid /\ Doc = Absent
    BY <2>4, Profiles DEF AnswerQuizAndroid
  <2> QED
    BY <2>2, <2>3, <2>4
<1>4. Shown' = Shown
  BY <1>1 DEF Shown
<1>5. Apart(Shown', photos, transfers') /\ Apart(quiz'.obj, photos, transfers')
  BY <1>1, <1>3, <1>4, ApartBlank DEF ApartInv
<1> QED
  BY <1>1, <1>5, ApartStep DEF ApartInv

\* The object of a finished quiz is the one it downloaded, with more answers.
LEMMA FinishedObject ==
  ASSUME TypeInv, FinishQuiz
  PROVE  /\ quiz'.obj \in Profile /\ quiz'.obj.photo = quiz.obj.photo /\ quiz'.done
         /\ Doc' = quiz'.obj
<1> DEFINE given == [by |-> quizzes, page |-> quiz.page]
           obj == [quiz.obj EXCEPT !.quiz = Append(@, given)]
<1>1. /\ quiz \in [obj : Profile, page : 0 .. Pages, asked : BOOLEAN, done : BOOLEAN]
      /\ quizzes \in Nat /\ "quiz" \in Acks
  BY Bounds DEF TypeInv, QuizTyped, CountersTyped, Acks
<1>2. quiz' = [quiz EXCEPT !.obj.quiz = Append(@, given), !.done = TRUE]
  BY DEF FinishQuiz
<1> HIDE DEF given
<1>3. quiz'.obj = obj /\ quiz'.done
  BY <1>1, <1>2
<1>4. obj.photo = quiz.obj.photo
  BY <1>1 DEF Profile
<1> HIDE DEF obj
<1>5. quiz'.obj \in Profile
  BY FinishQuizTyped DEF TypeInv, QuizTyped
<1>6. Upload(quiz'.obj, "quiz", quizzes) /\ UNCHANGED db
  BY DEF FinishQuiz
<1>7. Doc' = quiz'.obj
  BY <1>1, <1>5, <1>6, UploadTyped DEF TypeInv
<1> QED
  BY <1>3, <1>4, <1>5, <1>7

\* The finished quiz uploads the photos it downloaded.
LEMMA FinishQuizApart == ASSUME TypeInv, ApartInv, FinishQuiz PROVE ApartInv'
<1>1. photos' = photos /\ transfers' = transfers /\ petObj' = petObj
  BY DEF FinishQuiz, storage, counters
<1>2. Apart(quiz'.obj, photos, transfers')
  BY <1>1, FinishedObject, ApartPhotos DEF ApartInv
<1>3. Shown' = quiz'.obj
  BY FinishedObject, PetAssumption DEF Shown
<1> QED
  BY <1>1, <1>2, <1>3, ApartStep DEF ApartInv

\* What the phone reads is on the server, or the app is gone with its objects.
LEMMA FlushApart == ASSUME TypeInv, ApartInv, Flush PROVE ApartInv'
<1>1. photos' = photos /\ transfers' = transfers /\ Doc' = Doc
  BY FlushDoc DEF Flush, storage, counters
<1>2. /\ quiz' = quiz \/ quiz' = NoQuiz
      /\ petObj' = petObj \/ petObj' = InUse(petObj, "home", transfers)
  BY DEF Flush, CloseQuiz, Leave
<1>3. \A w \in 0 .. MaxViews : petObj'[w] = petObj[w] \/ petObj'[w] = Blank
  BY <1>2, InUseBlank
<1> QED
  BY <1>1, <1>2, <1>3, ApartSame

\* A restart leaves no object and no photo on its way.
LEMMA RestartApart == ASSUME TypeInv, ApartInv, Restart PROVE ApartInv'
<1>1. /\ photos' = photos /\ transfers' \subseteq transfers /\ Doc' = Doc /\ quiz' = NoQuiz
      /\ \A w \in 0 .. MaxViews : petObj'[w] = Blank
  BY RestartTyped DEF Restart
<1> QED
  BY <1>1, ApartSame

\* Every step leaves every photo in one place.
LEMMA NextApart == TypeInv /\ ApartInv /\ [Next]_vars => ApartInv'
<1> SUFFICES ASSUME TypeInv, ApartInv, [Next]_vars PROVE ApartInv'
  OBVIOUS
<1>1. CASE OpenPet \/ SaveIos \/ SaveAndroid \/ Exit \/ DeletePetIos \/ DeletePetAndroid
  BY <1>1, IdleApart, SaveApart, DeletePetApart DEF DeletePetIos, DeletePetAndroid
<1>2. CASE StartQuiz \/ AnswerQuizIos \/ AnswerQuizAndroid \/ FinishQuiz \/ ExitQuiz
  BY <1>2, IdleApart, AnswerQuizApart, FinishQuizApart
<1>3. CASE Flush \/ QuizReadFails \/ Restart
  BY <1>3, FlushApart, IdleApart, RestartApart
<1>4. ASSUME NEW v \in 1 .. MaxViews, AnswerPetIos(v) \/ AnswerPetAndroid(v) \/ ReadFails(v)
      PROVE  ApartInv'
  BY <1>4, AnswerPetApart
<1>5. ASSUME NEW s \in Slot, DeletePhotoIos(s) \/ DeletePhotoAndroid(s)
                             \/ PickPhotoIos(s) \/ PickPhotoAndroid(s)
      PROVE  ApartInv'
  BY <1>5, DeletePhotoApart, PickPhotoApart
<1>6. ASSUME NEW t \in transfers, GotUrlIos(t) \/ GotUrlAndroid(t) \/ TransferFails(t)
      PROVE  ApartInv'
  BY <1>6, GotUrlApart, TransferFailsApart
<1>7. CASE UNCHANGED vars
  BY <1>7 DEF vars, ApartInv, Shown, Doc
<1> QED
  BY <1>1, <1>2, <1>3, <1>4, <1>5, <1>6, <1>7 DEF Next

----------------------------------------------------------------------------
(* Files and URLs *)

\* Storage has the photos of p, and no others unless one was left there.
HasFiles(p, fs, left) == Urls(p) \subseteq fs /\ (~left => fs = Urls(p))

OnScreen == screen \in {"pet", "quiz"}

\* iOS changes file, object and document together: what the phone shows has its
\* files, and an object in use has the photos the phone shows, unless its download
\* is outstanding or the quiz is open.
PhotosIos ==
  app = "ios" /\ wanted # Unsure =>
    /\ HasFiles(Shown, files, leftFile)
    /\ Current /\ screen # "quiz" /\ reads[view] = 0 => petObj[view].photo = Shown.photo
    /\ Current /\ Doc = Absent => petObj[view].photo = Blank.photo

\* Android changes file and object first: until the save it is the object on the
\* screen that has its files.
PhotosAndroid ==
  app = "android" /\ wanted # Unsure =>
    /\ unsaved => screen # "home"
    /\ unsaved /\ ~gaveUp /\ OnScreen =>
         reads[view] = 0 /\ HasFiles(petObj[view], files, leftFile)
    /\ ~unsaved /\ ~gaveUp =>
         /\ HasFiles(Shown, files, leftFile)
         /\ OnScreen /\ reads[view] = 0 => petObj[view].photo = Shown.photo
    /\ (\E t \in transfers : t.view = view) => reads[view] = 0

\* The quiz uploads the photos the phone shows already.
PhotosQuiz ==
  wanted # Unsure /\ screen = "quiz" /\ quiz.page # 0 /\ ~quiz.done =>
    quiz.obj.photo = Shown.photo

PhotosInv == PhotosIos /\ PhotosAndroid /\ PhotosQuiz

\* Nothing is claimed for a hasty owner.
LEMMA UnsurePhotos == ASSUME wanted' = Unsure PROVE PhotosInv'
  BY DEF PhotosInv, PhotosIos, PhotosAndroid, PhotosQuiz

\* An owner who is not hasty after a step was not so before.
LEMMA NotHasty ==
  ASSUME TypeInv, KeptInv, screen \in {"pet", "quiz"} \/ transfers # {}, NEW w,
         NEW hasty \in BOOLEAN, Wants(w, hasty), wanted' # Unsure
  PROVE  wanted \in Given /\ wanted # Unsure /\ wanted # Absent /\ ~hasty /\ wanted' = w
<1>1. wanted = Unsure \/ wanted \in Given
  BY NotDeleted DEF TypeInv
<1>2. WantedTyped
  BY DEF TypeInv
<1> QED
  BY <1>1, <1>2, WantsGiven, PetAssumption

\* An owner who waits acts when no download is outstanding.
LEMMA NotLoading ==
  ASSUME TypeInv PROVE Loading \in BOOLEAN /\ (~Loading => reads[view] = 0)
<1>1. reads[view] \in Nat
  BY Bounds DEF TypeInv, ScreenTyped, ReadsTyped
<1> QED
  BY <1>1 DEF Loading

\* A step that changes no file, no photo of the object in use and nothing that the
\* phone shows.
LEMMA SamePhotos ==
  ASSUME PhotosInv,
         UNCHANGED <<app, wanted, view, files, leftFile, gaveUp, unsaved>>, Doc' = Doc,
         transfers' \subseteq transfers,
         Current' => Current /\ petObj'[view].photo = petObj[view].photo,
         OnScreen' => OnScreen, screen' = "home" => screen = "home" \/ ~unsaved,
         reads'[view] = reads[view] \/ (app = "ios" /\ reads'[view] # 0),
         app = "ios" /\ screen = "quiz" => screen' = "quiz" \/ reads'[view] # 0 \/ ~Current',
         screen' = "quiz" => screen = "quiz" /\ quiz' = quiz
  PROVE  PhotosInv'
<1>1. Shown' = Shown
  BY DEF Shown
<1>2. OnScreen' => Current'
  BY DEF OnScreen, Current
<1>3. PhotosIos'
  BY <1>1 DEF PhotosInv, PhotosIos
<1>4. PhotosAndroid'
  <2> SUFFICES ASSUME app = "android", wanted # Unsure
               PROVE  /\ unsaved => screen' # "home"
                      /\ unsaved /\ ~gaveUp /\ OnScreen' =>
                           reads[view] = 0 /\ HasFiles(petObj'[view], files, leftFile)
                      /\ ~unsaved /\ ~gaveUp =>
                           /\ HasFiles(Shown, files, leftFile)
                           /\ OnScreen' /\ reads[view] = 0 => petObj'[view].photo = Shown.photo
                      /\ (\E t \in transfers' : t.view = view) => reads[view] = 0
    BY <1>1 DEF PhotosAndroid
  <2>1. OnScreen' => OnScreen /\ Urls(petObj'[view]) = Urls(petObj[view])
    BY <1>2 DEF Urls
  <2> QED
    BY <1>2, <2>1 DEF PhotosInv, PhotosAndroid, HasFiles
<1>5. PhotosQuiz'
  BY <1>1 DEF PhotosInv, PhotosQuiz
<1> QED
  BY <1>3, <1>4, <1>5 DEF PhotosInv

\* An old pet's photo is in Storage; a new pet has none.
LEMMA InitPhotos == Init => PhotosInv
<1> SUFFICES ASSUME Init PROVE PhotosInv
  OBVIOUS
<1>1. PICK old \in {Absent} \cup
             {[text |-> 1, quiz |-> OldQuiz, photo |-> [Blank.photo EXCEPT ![s] = 1]] : s \in Slot} :
        /\ db = [d \in {"pet"} |-> old]
        /\ files = IF old = Absent THEN {} ELSE Urls(old)
  BY DEF Init
<1>2. Doc = old
  BY <1>1 DEF Init, Doc, View, PendingOn
<1>3. HasFiles(Shown, files, leftFile)
  BY <1>1, <1>2, ApartBlank DEF HasFiles, Shown
<1>4. screen = "home" /\ transfers = {} /\ ~unsaved
  BY DEF Init
<1> QED
  BY <1>3, <1>4 DEF PhotosInv, PhotosIos, PhotosAndroid, PhotosQuiz, Current, OnScreen

\* The screen that is opened downloads.
LEMMA OpenPetPhotos == ASSUME TypeInv, KeptInv, PhotosInv, OpenPet PROVE PhotosInv'
<1>1. /\ screen = "home" /\ screen' = "pet" /\ view' = view + 1 /\ Download(view + 1)
      /\ UNCHANGED <<app, db, queue, files, transfers, petObj, unsaved, gaveUp, leftFile>>
      /\ wanted' = IF wanted = Absent THEN Nothing ELSE wanted
  BY DEF OpenPet, storage, leavings
<1>2. view \in Nat /\ view + 1 \in 0 .. MaxViews /\ view + 1 > view
  BY Bounds DEF OpenPet, TypeInv, ScreenTyped
<1>3. petObj'[view'] = Blank /\ reads'[view'] > 0 /\ reads'[view'] # 0
  BY <1>1, <1>2, DownloadTyped DEF TypeInv, Future
<1>4. Doc' = Doc /\ Shown' = Shown
  BY <1>1 DEF Doc, Shown
<1>5. wanted' # Unsure => wanted # Unsure
  BY <1>1, PetAssumption
<1>6. PhotosIos'
  BY <1>1, <1>3, <1>4, <1>5 DEF PhotosInv, PhotosIos
<1>7. ~ \E t \in transfers' : t.view = view'
  <2>1. \A t \in transfers : t.view \in Nat /\ t.view <= view
    BY Bounds DEF TypeInv, PhotosTyped, Transfer, Future
  <2> QED
    BY <1>1, <1>2, <2>1
<1>8. PhotosAndroid'
  BY <1>1, <1>3, <1>4, <1>5, <1>7 DEF PhotosInv, PhotosAndroid
<1>9. PhotosQuiz'
  BY <1>1 DEF PhotosQuiz
<1> QED
  BY <1>6, <1>8, <1>9 DEF PhotosInv

\* A download that fails is one the owner does not wait for.
LEMMA ReadFailsPhotos ==
  ASSUME TypeInv, KeptInv, PhotosInv, NEW v \in 1 .. MaxViews, ReadFails(v) PROVE PhotosInv'
<1>1. /\ reads' = [reads EXCEPT ![v] = @ - 1] /\ Wants(wanted, TRUE)
      /\ UNCHANGED <<app, db, queue, files, transfers, screen, view, petObj, quiz,
                     unsaved, gaveUp, leftFile>>
  BY DEF ReadFails, storage, leavings
<1>2. CASE wanted' = Unsure
  BY <1>2, UnsurePhotos
<1>3. CASE wanted' # Unsure
  <2>1. wanted = Absent /\ wanted' = Absent
    BY <1>1, <1>3, WantsGiven, WantedCases DEF TypeInv
  <2>2. screen \in {"home", "crashed"} /\ transfers = {} /\ Doc' = Doc /\ Shown' = Shown
    BY <1>1, <2>1 DEF KeptInv, DeletedGone, Doc, Shown
  <2> QED
    BY <1>1, <2>1, <2>2
       DEF PhotosInv, PhotosIos, PhotosAndroid, PhotosQuiz, Current, OnScreen
<1> QED
  BY <1>2, <1>3

\* A download brings the photos the phone shows.
LEMMA AnswerPetPhotos ==
  ASSUME TypeInv, KeptInv, PhotosInv, NEW v \in 1 .. MaxViews,
         AnswerPetIos(v) \/ AnswerPetAndroid(v)
  PROVE  PhotosInv'
<1>1. /\ UNCHANGED <<app, db, queue, view, wanted, quiz, files, transfers, unsaved, gaveUp, leftFile>>
      /\ Doc' = Doc /\ Shown' = Shown
  BY DEF AnswerPetIos, AnswerPetAndroid, storage, leavings, Doc, Shown
<1>2. CASE screen' = "crashed" /\ UNCHANGED <<petObj, reads>> /\ app = "android"
  BY <1>1, <1>2, SamePhotos DEF Current, OnScreen
<1>3. CASE Filled(v) /\ reads[v] > 0 /\ Running
  <2>1. /\ screen' = screen /\ reads' = [reads EXCEPT ![v] = @ - 1]
        /\ petObj' = IF Doc = Absent THEN petObj
                     ELSE InUse([petObj EXCEPT ![v] = Doc], screen, transfers)
    BY <1>3 DEF Filled
  <2>2. v \in 0 .. MaxViews /\ view \in 0 .. MaxViews
    BY Bounds DEF TypeInv, ScreenTyped
  <2>3. v # view => reads'[view] = reads[view]
    BY <1>3, <2>1, <2>2, ReadDone DEF TypeInv
  <2>4. Current' = Current /\ OnScreen' = OnScreen
    BY <1>1, <2>1 DEF Current, OnScreen
  <2>5. Current => petObj'[view] = IF Doc # Absent /\ v = view THEN Doc ELSE petObj[view]
    <3> DEFINE objs == [petObj EXCEPT ![v] = Doc]
    <3>1. objs[view] = IF v = view THEN Doc ELSE petObj[view]
      BY <2>2 DEF TypeInv, ObjectsTyped
    <3> HIDE DEF objs
    <3>2. CASE Doc = Absent
      BY <2>1, <3>2
    <3>3. CASE Doc # Absent /\ Current
      <4>1. petObj' = InUse(objs, screen, transfers)
        BY <2>1, <3>3 DEF objs
      <4> QED
        BY <2>2, <3>1, <3>3, <4>1, InUseKeeps DEF Current
    <3> QED
      BY <3>2, <3>3
  <2>6. CASE v # view
    <3>1. Current => petObj'[view] = petObj[view]
      BY <2>5, <2>6
    <3>2. PhotosIos'
      BY <1>1, <2>1, <2>3, <2>4, <2>6, <3>1 DEF PhotosInv, PhotosIos
    <3>3. OnScreen => Current
      BY DEF OnScreen, Current
    <3>4. PhotosAndroid'
      BY <1>1, <2>1, <2>3, <2>4, <2>6, <3>1, <3>3 DEF PhotosInv, PhotosAndroid
    <3>5. PhotosQuiz'
      BY <1>1, <2>1 DEF PhotosInv, PhotosQuiz
    <3> QED
      BY <3>2, <3>4, <3>5 DEF PhotosInv
  <2>7. CASE v = view
    <3>1. Current /\ Doc # Absent => petObj'[view].photo = Shown.photo
      BY <2>5, <2>7 DEF Shown
    <3>2. PhotosIos'
      <4>1. Doc = Absent => petObj' = petObj /\ Shown = Blank
        BY <2>1 DEF Shown
      <4> QED
        BY <1>1, <2>1, <2>4, <3>1, <4>1 DEF PhotosInv, PhotosIos
    <3>3. reads[view] # 0
      BY <1>3, <2>7
    <3>4. app = "android" => Doc # Absent
      BY <1>1, <1>3, <2>1 DEF AnswerPetIos, AnswerPetAndroid, Running
    <3>5. OnScreen => Current
      BY DEF OnScreen, Current
    <3>6. PhotosAndroid'
      <4> SUFFICES ASSUME app = "android", wanted # Unsure
                   PROVE  /\ unsaved => screen # "home"
                          /\ unsaved /\ ~gaveUp => ~OnScreen
                          /\ ~unsaved /\ ~gaveUp =>
                               /\ HasFiles(Shown, files, leftFile)
                               /\ OnScreen => petObj'[view].photo = Shown.photo
                          /\ ~ \E t \in transfers : t.view = view
        BY <1>1, <2>1, <2>4 DEF PhotosAndroid
      <4> QED
        BY <3>1, <3>3, <3>4, <3>5 DEF PhotosInv, PhotosAndroid
    <3>7. PhotosQuiz'
      BY <1>1, <2>1 DEF PhotosInv, PhotosQuiz
    <3> QED
      BY <3>2, <3>6, <3>7 DEF PhotosInv
  <2> QED
    BY <2>6, <2>7
<1> QED
  BY <1>2, <1>3 DEF AnswerPetIos, AnswerPetAndroid

\* A save uploads the photos of the object on the screen.
LEMMA SavePhotos ==
  ASSUME TypeInv, KeptInv, PhotosInv, SaveIos \/ SaveAndroid PROVE PhotosInv'
<1>1. PICK fields \in Typed, ack \in {"save", NoAck} : SaveFields(fields, ack) /\ screen = "pet"
  BY DEF SaveIos, SaveAndroid
<1> DEFINE w == [wanted EXCEPT !.text = fields]
<1>2. /\ petObj' = [petObj EXCEPT ![view].text = fields] /\ Upload(petObj'[view], ack, view)
      /\ Wants(w, Loading) /\ unsaved' = FALSE
      /\ UNCHANGED <<app, db, screen, view, reads, transfers, files, gaveUp, leftFile>>
  BY <1>1 DEF SaveFields, storage
<1> HIDE DEF w
<1>3. view \in 0 .. MaxViews /\ view \in Nat /\ petObj[view] \in Profile /\ ack \in Acks
  BY Bounds DEF TypeInv, ScreenTyped, ObjectsTyped, Acks
<1>4. petObj'[view] \in Profile
  BY <1>2, <1>3, SaveTyped DEF TypeInv, ObjectsTyped
<1>5. petObj'[view].photo = petObj[view].photo
  <2>1. petObj'[view] = [petObj[view] EXCEPT !.text = fields]
    BY <1>2, <1>3 DEF TypeInv, ObjectsTyped
  <2> QED
    BY <1>3, <2>1 DEF Profile
<1>6. Doc' = petObj'[view]
  BY <1>2, <1>3, <1>4, UploadTyped DEF TypeInv
<1>7. Doc' # Absent /\ Shown' = petObj'[view]
  BY <1>4, <1>6, PetAssumption DEF Shown
<1>8. CASE wanted' = Unsure
  BY <1>8, UnsurePhotos
<1>9. CASE wanted' # Unsure
  <2>1. wanted # Unsure /\ ~Loading
    BY <1>1, <1>2, <1>9, NotHasty, NotLoading
  <2>2. reads[view] = 0 /\ Current /\ OnScreen
    BY <1>1, <2>1, NotLoading DEF Current, OnScreen
  <2>3. Urls(Shown') = Urls(petObj[view])
    BY <1>5, <1>7 DEF Urls
  <2>4. app = "ios" => HasFiles(Shown', files, leftFile)
    <3>1. app = "ios" => Urls(Shown) = Urls(petObj[view]) /\ HasFiles(Shown, files, leftFile)
      BY <1>1, <2>1, <2>2 DEF PhotosInv, PhotosIos, Urls
    <3> QED
      BY <2>3, <3>1 DEF HasFiles
  <2>5. app = "android" /\ ~gaveUp => HasFiles(Shown', files, leftFile)
    <3>1. CASE unsaved
      BY <2>1, <2>2, <2>3, <3>1 DEF PhotosInv, PhotosAndroid, HasFiles
    <3>2. CASE ~unsaved
      <4>1. app = "android" /\ ~gaveUp =>
              Urls(Shown) = Urls(petObj[view]) /\ HasFiles(Shown, files, leftFile)
        BY <2>1, <2>2, <3>2 DEF PhotosInv, PhotosAndroid, Urls
      <4> QED
        BY <2>3, <4>1 DEF HasFiles
    <3> QED
      BY <3>1, <3>2
  <2>6. PhotosIos'
    BY <1>2, <1>7, <2>4 DEF PhotosIos
  <2>7. PhotosAndroid'
    BY <1>1, <1>2, <1>7, <2>2, <2>5 DEF PhotosAndroid
  <2>8. PhotosQuiz'
    BY <1>1, <1>2 DEF PhotosQuiz
  <2> QED
    BY <2>6, <2>7, <2>8 DEF PhotosInv
<1> QED
  BY <1>8, <1>9

\* An object that is shown and loaded has its files, unless on Android changes were
\* given up; so does one that a photo goes into on iOS.
LEMMA ObjectFiles ==
  ASSUME TypeInv, PhotosInv, wanted # Unsure, reads[view] = 0, Current,
         app = "ios" => screen # "quiz", app = "android" => OnScreen /\ ~gaveUp
  PROVE  HasFiles(petObj[view], files, leftFile)
<1>1. petObj[view].photo = Shown.photo /\ HasFiles(Shown, files, leftFile)
        => HasFiles(petObj[view], files, leftFile)
  BY DEF HasFiles, Urls
<1>2. app = "ios" \/ app = "android"
  BY DEF TypeInv, CountersTyped, Apps
<1>3. CASE app = "ios"
  BY <1>1, <1>3 DEF PhotosInv, PhotosIos
<1>4. CASE app = "android" /\ unsaved
  BY <1>4 DEF PhotosInv, PhotosAndroid
<1>5. CASE app = "android" /\ ~unsaved
  BY <1>1, <1>5 DEF PhotosInv, PhotosAndroid
<1> QED
  BY <1>2, <1>3, <1>4, <1>5

\* The file of a photo goes with its URL.
LEMMA ClearedFiles ==
  ASSUME NEW p \in Profile, NEW n, NEW ts, Apart(p, n, ts), NEW s \in Slot,
         NEW fs, NEW left, HasFiles(p, fs, left)
  PROVE  HasFiles([p EXCEPT !.photo[s] = 0], fs \ {p.photo[s]}, left)
<1> DEFINE q == [p EXCEPT !.photo[s] = 0]
<1>1. 0 \in 0 .. MaxPhotos
  BY Bounds
<1>2. Urls(q) = (Urls(p) \ {p.photo[s]}) \cup ({0} \ {0})
  BY <1>1, UrlsSet
<1> HIDE DEF q
<1>3. HasFiles(q, fs \ {p.photo[s]}, left)
  BY <1>2 DEF HasFiles
<1> QED
  BY <1>3 DEF q

\* The file of a photo comes with its URL: iOS deletes the one that was there,
\* Android leaves it.
LEMMA ArrivedFiles ==
  ASSUME NEW p \in Profile, NEW n, NEW ts, Apart(p, n, ts), NEW s \in Slot,
         NEW u \in 1 .. MaxPhotos, NEW fs, NEW left, HasFiles(p, fs, left)
  PROVE  /\ HasFiles([p EXCEPT !.photo[s] = u], (fs \ {p.photo[s]}) \cup {u}, left)
         /\ Urls([p EXCEPT !.photo[s] = u]) \subseteq fs \cup {u}
         /\ p.photo[s] = 0 => HasFiles([p EXCEPT !.photo[s] = u], fs \cup {u}, left)
<1> DEFINE q == [p EXCEPT !.photo[s] = u]
<1>1. u \in 0 .. MaxPhotos /\ u # 0
  BY Bounds
<1>2. Urls(q) = (Urls(p) \ {p.photo[s]}) \cup ({u} \ {0})
  BY <1>1, UrlsSet
<1>3. 0 \notin Urls(p)
  BY DEF Urls
<1> HIDE DEF q
<1>4. HasFiles(q, (fs \ {p.photo[s]}) \cup {u}, left)
  BY <1>1, <1>2 DEF HasFiles
<1>5. /\ Urls(q) \subseteq fs \cup {u}
      /\ p.photo[s] = 0 => HasFiles(q, fs \cup {u}, left)
  BY <1>1, <1>2, <1>3 DEF HasFiles
<1> QED
  BY <1>4, <1>5 DEF q

\* The screen is left: Android's changes, if any, are given up.
LEMMA LeavePhotos ==
  ASSUME TypeInv, PhotosInv, screen = "pet", Leave, Doc' = Doc,
         UNCHANGED <<app, wanted, view, files, transfers, leftFile, reads>>
  PROVE  PhotosInv'
<1>1. /\ screen' = "home" /\ petObj' = InUse(petObj, "home", transfers)
      /\ unsaved' = FALSE /\ gaveUp' = (gaveUp \/ unsaved) /\ Shown' = Shown
  BY DEF Leave, Shown
<1>2. view \in 0 .. MaxViews
  BY DEF TypeInv, ScreenTyped
<1>3. Current' => Current /\ petObj'[view] = petObj[view]
  BY <1>1, <1>2, InUseKeeps DEF Current
<1>4. PhotosIos'
  BY <1>1, <1>3 DEF PhotosInv, PhotosIos
<1>5. PhotosAndroid'
  BY <1>1 DEF PhotosInv, PhotosAndroid, OnScreen
<1>6. PhotosQuiz'
  BY <1>1 DEF PhotosQuiz
<1> QED
  BY <1>4, <1>5, <1>6 DEF PhotosInv

\* The same for the owner who leaves.
LEMMA ExitPhotos == ASSUME TypeInv, PhotosInv, Exit PROVE PhotosInv'
<1>1. /\ screen = "pet" /\ Leave /\ Doc' = Doc
      /\ UNCHANGED <<app, wanted, view, files, transfers, leftFile, reads>>
  BY DEF Exit, Doc, storage
<1> QED
  BY <1>1, LeavePhotos

\* iOS leaves the files of a deleted pet, Android deletes those of the object.
LEMMA DeletePetPhotos ==
  ASSUME TypeInv, KeptInv, PhotosInv, DeletePetIos \/ DeletePetAndroid PROVE PhotosInv'
<1>1. DeletePet
  BY DEF DeletePetIos, DeletePetAndroid
<1>2. /\ screen = "pet" /\ screen' = "home" /\ Upload(Absent, NoAck, view) /\ db' = db
      /\ Wants(Absent, Loading \/ transfers # {}) /\ unsaved' = FALSE
      /\ UNCHANGED <<app, view, transfers, gaveUp>>
  BY <1>1 DEF DeletePet, CloseDeletedPet
<1>3. view \in Nat /\ NoAck \in Acks
  BY Bounds DEF TypeInv, ScreenTyped, Acks
<1>4. Doc' = Absent /\ Shown' = Blank
  BY <1>2, <1>3, UploadTyped DEF TypeInv, Shown
<1>5. CASE wanted' = Unsure
  BY <1>5, UnsurePhotos
<1>6. CASE wanted' # Unsure
  <2>1. wanted # Unsure /\ ~Loading /\ transfers = {}
    BY <1>2, <1>6, NotHasty, NotLoading
  <2>2. reads[view] = 0 /\ Current /\ OnScreen
    BY <1>2, <2>1, NotLoading DEF Current, OnScreen
  <2>3. app = "android" /\ ~gaveUp => HasFiles(petObj[view], files, leftFile)
    BY <2>1, <2>2, ObjectFiles
  <2>4. app = "ios" => HasFiles(petObj[view], files, leftFile)
    BY <1>2, <2>1, <2>2, ObjectFiles
  <2>5. ~Current' /\ ~OnScreen'
    BY <1>2, <2>1 DEF Current, OnScreen
  <2>6. PhotosIos'
    <3> SUFFICES ASSUME app = "ios" PROVE HasFiles(Blank, files', leftFile')
      BY <1>2, <1>4, <2>5 DEF PhotosIos
    <3>1. files' = files /\ leftFile' = (leftFile \/ Urls(petObj[view]) # {})
      BY DEF DeletePetIos, DeletePetAndroid
    <3> QED
      BY <2>4, <3>1, ApartBlank DEF HasFiles
  <2>7. PhotosAndroid'
    <3> SUFFICES ASSUME app = "android", ~gaveUp PROVE HasFiles(Blank, files', leftFile')
      BY <1>2, <1>4, <2>1, <2>5 DEF PhotosAndroid
    <3>1. files' = files \ Urls(petObj[view]) /\ leftFile' = leftFile
      BY DEF DeletePetIos, DeletePetAndroid
    <3> QED
      BY <2>3, <3>1, ApartBlank DEF HasFiles
  <2>8. PhotosQuiz'
    BY <1>2 DEF PhotosQuiz
  <2> QED
    BY <2>6, <2>7, <2>8 DEF PhotosInv
<1> QED
  BY <1>5, <1>6

\* A file goes with its URL, which on iOS goes from the document as well.
LEMMA DeletePhotoIosPhotos ==
  ASSUME TypeInv, KeptInv, ApartInv, PhotosInv, NEW s \in Slot, DeletePhotoIos(s)
  PROVE  PhotosInv'
<1>1. /\ app = "ios" /\ screen = "pet" /\ petObj' = SetUrl(view, s, 0)
      /\ files' = files \ {petObj[view].photo[s]} /\ Upload(petObj'[view], NoAck, view)
      /\ Wants(wanted, Loading) /\ UNCHANGED <<app, db, screen, view, reads, leftFile>>
  BY DEF DeletePhotoIos, leavings, Without
<1>2. /\ view \in 0 .. MaxViews /\ view \in Nat /\ petObj[view] \in Profile /\ ObjectsTyped
      /\ NoAck \in Acks /\ Apart(petObj[view], photos, transfers)
  BY Bounds DEF TypeInv, ScreenTyped, ObjectsTyped, Acks, ApartInv
<1> DEFINE p == [petObj[view] EXCEPT !.photo[s] = 0]
<1>3. petObj'[view] = p
  BY <1>1, <1>2, SetUrlIs
<1>4. HasFiles(petObj[view], files, leftFile) => HasFiles(p, files', leftFile)
  BY <1>1, <1>2, ClearedFiles
<1> HIDE DEF p
<1>5. p \in Profile
  BY <1>2, <1>3, DeletePhotoTyped DEF TypeInv, ObjectsTyped
<1>6. Doc' = p
  BY <1>1, <1>2, <1>3, <1>5, UploadTyped DEF TypeInv
<1>7. Doc' # Absent /\ Shown' = p
  BY <1>5, <1>6, PetAssumption DEF Shown
<1>8. CASE wanted' = Unsure
  BY <1>8, UnsurePhotos
<1>9. CASE wanted' # Unsure
  <2>1. wanted # Unsure /\ ~Loading
    BY <1>1, <1>9, NotHasty, NotLoading
  <2>2. reads[view] = 0 /\ Current
    BY <1>1, <2>1, NotLoading DEF Current
  <2>3. HasFiles(p, files', leftFile)
    BY <1>1, <1>4, <2>1, <2>2, ObjectFiles
  <2>4. PhotosIos'
    BY <1>1, <1>3, <1>7, <2>3 DEF PhotosIos
  <2>5. PhotosAndroid' /\ PhotosQuiz'
    BY <1>1 DEF PhotosAndroid, PhotosQuiz
  <2> QED
    BY <2>4, <2>5 DEF PhotosInv
<1> QED
  BY <1>8, <1>9

\* On Android the object on the screen has its files until it is saved; a place that
\* was empty changes nothing.
LEMMA DeletePhotoAndroidPhotos ==
  ASSUME TypeInv, KeptInv, ApartInv, PhotosInv, NEW s \in Slot, DeletePhotoAndroid(s)
  PROVE  PhotosInv'
<1>1. /\ app = "android" /\ screen = "pet" /\ petObj' = SetUrl(view, s, 0)
      /\ files' = files \ {petObj[view].photo[s]} /\ Wants(wanted, Loading)
      /\ unsaved' = (unsaved \/ petObj[view].photo[s] # 0)
      /\ UNCHANGED <<app, db, queue, transfers, screen, view, reads, leftFile, gaveUp>>
  BY DEF DeletePhotoAndroid, Without
<1>2. /\ view \in 0 .. MaxViews /\ petObj[view] \in Profile /\ ObjectsTyped
      /\ Apart(petObj[view], photos, transfers) /\ 0 \notin files
  BY Bounds DEF TypeInv, ScreenTyped, ObjectsTyped, PhotosTyped, ApartInv
<1> DEFINE p == [petObj[view] EXCEPT !.photo[s] = 0]
<1>3. petObj'[view] = p
  BY <1>1, <1>2, SetUrlIs
<1>4. HasFiles(petObj[view], files, leftFile) => HasFiles(p, files', leftFile)
  BY <1>1, <1>2, ClearedFiles
<1>5. petObj[view].photo[s] = 0 => p.photo = petObj[view].photo
  BY <1>2 DEF Profile
<1> HIDE DEF p
<1>6. Doc' = Doc /\ Shown' = Shown
  BY <1>1 DEF Doc, Shown
<1>7. CASE wanted' = Unsure
  BY <1>7, UnsurePhotos
<1>8. CASE wanted' # Unsure
  <2>1. wanted # Unsure /\ ~Loading
    BY <1>1, <1>8, NotHasty, NotLoading
  <2>2. reads[view] = 0 /\ Current /\ OnScreen
    BY <1>1, <2>1, NotLoading DEF Current, OnScreen
  <2>3. ~gaveUp => HasFiles(p, files', leftFile)
    BY <1>1, <1>4, <2>1, <2>2, ObjectFiles
  <2>4. ~unsaved' /\ ~gaveUp =>
          HasFiles(Shown, files', leftFile) /\ petObj'[view].photo = Shown.photo
    <3> SUFFICES ASSUME ~unsaved, petObj[view].photo[s] = 0, ~gaveUp
                 PROVE  HasFiles(Shown, files', leftFile) /\ petObj'[view].photo = Shown.photo
      BY <1>1
    <3>1. files' = files
      BY <1>1, <1>2
    <3>2. HasFiles(Shown, files, leftFile) /\ petObj[view].photo = Shown.photo
      BY <1>1, <2>1, <2>2 DEF PhotosInv, PhotosAndroid
    <3> QED
      BY <1>3, <1>5, <3>1, <3>2
  <2>5. PhotosAndroid'
    BY <1>1, <1>3, <1>6, <2>2, <2>3, <2>4 DEF PhotosAndroid
  <2>6. PhotosIos' /\ PhotosQuiz'
    BY <1>1 DEF PhotosIos, PhotosQuiz
  <2> QED
    BY <2>5, <2>6 DEF PhotosInv
<1> QED
  BY <1>7, <1>8

\* iOS downloads again once the picker is gone.
LEMMA PickPhotoIosPhotos ==
  ASSUME TypeInv, PhotosInv, NEW s \in Slot, PickPhotoIos(s) PROVE PhotosInv'
<1>1. /\ app = "ios" /\ screen = "pet" /\ Download(view) /\ Wants(wanted, FALSE)
      /\ UNCHANGED <<app, db, queue, screen, view, petObj, files, leftFile>>
  BY DEF PickPhotoIos, Send, Appear
<1>2. view \in 0 .. MaxViews
  BY DEF TypeInv, ScreenTyped
<1>3. reads'[view] # 0
  BY <1>1, <1>2, DownloadTyped, Bounds DEF TypeInv
<1>4. wanted' = wanted
  BY <1>1 DEF Wants
<1>5. Current /\ Doc' = Doc /\ Shown' = Shown
  BY <1>1 DEF Current, Doc, Shown
<1>6. PhotosIos'
  BY <1>1, <1>3, <1>4, <1>5 DEF PhotosInv, PhotosIos
<1>7. PhotosAndroid' /\ PhotosQuiz'
  BY <1>1 DEF PhotosAndroid, PhotosQuiz
<1> QED
  BY <1>6, <1>7 DEF PhotosInv

\* Android deletes the old file, and the object has no URL until the new one is there.
LEMMA PickPhotoAndroidPhotos ==
  ASSUME TypeInv, KeptInv, ApartInv, PhotosInv, NEW s \in Slot, PickPhotoAndroid(s)
  PROVE  PhotosInv'
<1>1. /\ app = "android" /\ screen = "pet" /\ petObj' = SetUrl(view, s, 0)
      /\ files' = files \ {petObj[view].photo[s]} /\ Wants(wanted, Loading)
      /\ unsaved' = TRUE /\ UNCHANGED <<app, screen, view, reads, leftFile, gaveUp>>
  BY DEF PickPhotoAndroid, Send, Without
<1>2. /\ view \in 0 .. MaxViews /\ petObj[view] \in Profile /\ ObjectsTyped
      /\ Apart(petObj[view], photos, transfers)
  BY DEF TypeInv, ScreenTyped, ObjectsTyped, ApartInv
<1> DEFINE p == [petObj[view] EXCEPT !.photo[s] = 0]
<1>3. petObj'[view] = p
  BY <1>1, <1>2, SetUrlIs
<1>4. HasFiles(petObj[view], files, leftFile) => HasFiles(p, files', leftFile)
  BY <1>1, <1>2, ClearedFiles
<1> HIDE DEF p
<1>5. CASE wanted' = Unsure
  BY <1>5, UnsurePhotos
<1>6. CASE wanted' # Unsure
  <2>1. wanted # Unsure /\ ~Loading
    BY <1>1, <1>6, NotHasty, NotLoading
  <2>2. reads[view] = 0 /\ Current /\ OnScreen
    BY <1>1, <2>1, NotLoading DEF Current, OnScreen
  <2>3. ~gaveUp => HasFiles(p, files', leftFile)
    BY <1>1, <1>4, <2>1, <2>2, ObjectFiles
  <2>4. PhotosAndroid'
    BY <1>1, <1>3, <2>2, <2>3 DEF PhotosAndroid
  <2>5. PhotosIos' /\ PhotosQuiz'
    BY <1>1 DEF PhotosIos, PhotosQuiz
  <2> QED
    BY <2>4, <2>5 DEF PhotosInv
<1> QED
  BY <1>5, <1>6

\* A photo that arrives on iOS goes into the object and the document, and the file
\* that it replaces goes, or the owner was hasty.
LEMMA GotUrlIosPhotos ==
  ASSUME TypeInv, KeptInv, ApartInv, PhotosInv, NEW t \in transfers, GotUrlIos(t)
  PROVE  PhotosInv'
<1> DEFINE objs == SetUrl(t.view, t.slot, t.photo)
           hasty == screen = "quiz" \/ t.view # view \/ Loading
<1>1. /\ app = "ios" /\ petObj' = InUse(objs, screen, transfers')
      /\ files' = (files \ {petObj[t.view].photo[t.slot]}) \cup {t.photo}
      /\ Upload(objs[t.view], NoAck, t.view) /\ Wants(wanted, hasty)
      /\ UNCHANGED <<app, db, screen, view, reads, leftFile>>
  BY DEF GotUrlIos, GotUrl, leavings, Without
<1>2. /\ t.photo \in 1 .. MaxPhotos /\ t.photo \in 0 .. MaxPhotos /\ t.slot \in Slot
      /\ t.view \in 0 .. MaxViews /\ t.view \in Nat /\ view \in 0 .. MaxViews
      /\ ObjectsTyped /\ petObj[t.view] \in Profile /\ NoAck \in Acks
  BY Bounds DEF TypeInv, PhotosTyped, ScreenTyped, Transfer, ObjectsTyped, Acks
<1>3. Apart(petObj[t.view], photos, transfers)
  BY <1>2 DEF ApartInv
<1> DEFINE p == [petObj[t.view] EXCEPT !.photo[t.slot] = t.photo]
<1>4. objs[t.view] = p
  <2>1. \A w \in 0 .. MaxViews : objs[w] = IF w = t.view THEN p ELSE petObj[w]
    BY <1>2, SetUrlIs
  <2> HIDE DEF p, objs
  <2> QED
    BY <1>2, <2>1
<1>5. HasFiles(petObj[t.view], files, leftFile) => HasFiles(p, files', leftFile)
  BY <1>1, <1>2, <1>3, ArrivedFiles
<1>6. p \in Profile
  BY <1>2, <1>4, SetUrlTyped
<1> HIDE DEF p, objs
<1>7. Doc' = p
  BY <1>1, <1>2, <1>4, <1>6, UploadTyped DEF TypeInv
<1>8. Doc' # Absent /\ Shown' = p
  BY <1>6, <1>7, PetAssumption DEF Shown
<1>9. CASE wanted' = Unsure
  BY <1>9, UnsurePhotos
<1>10. CASE wanted' # Unsure
  <2>1. wanted # Unsure /\ ~hasty
    <3>1. hasty \in BOOLEAN /\ Wants(wanted, hasty)
      BY <1>1, NotLoading
    <3> HIDE DEF hasty
    <3> QED
      BY <1>10, <3>1, NotHasty
  <2>2. reads[view] = 0 /\ Current /\ screen # "quiz" /\ t.view = view
    BY <2>1, NotLoading DEF Current
  <2>3. HasFiles(p, files', leftFile)
    BY <1>1, <1>5, <2>1, <2>2, ObjectFiles
  <2>4. Current' => petObj'[view] = p
    BY <1>1, <1>2, <1>4, <2>2, InUseKeeps DEF Current
  <2>5. PhotosIos'
    BY <1>1, <1>8, <2>3, <2>4 DEF PhotosIos
  <2>6. PhotosAndroid' /\ PhotosQuiz'
    BY <1>1, <2>2 DEF PhotosAndroid, PhotosQuiz
  <2> QED
    BY <2>5, <2>6 DEF PhotosInv
<1> QED
  BY <1>9, <1>10

\* On Android it goes into the object, which is to be saved, unless its screen is
\* gone.
LEMMA GotUrlAndroidPhotos ==
  ASSUME TypeInv, KeptInv, ApartInv, PhotosInv, NEW t \in transfers, GotUrlAndroid(t)
  PROVE  PhotosInv'
<1> DEFINE objs == SetUrl(t.view, t.slot, t.photo)
<1>1. /\ app = "android" /\ petObj' = InUse(objs, screen, transfers') /\ Running
      /\ files' = files \cup {t.photo} /\ transfers' \subseteq transfers
      /\ unsaved' = (unsaved \/ (screen # "home" /\ t.view = view))
      /\ leftFile' = (leftFile \/ screen = "home" \/ t.view # view
                               \/ petObj[t.view].photo[t.slot] # 0)
      /\ UNCHANGED <<app, db, queue, screen, view, reads, gaveUp, wanted, quiz>>
  BY DEF GotUrlAndroid, GotUrl
<1>2. /\ t.photo \in 1 .. MaxPhotos /\ t.slot \in Slot
      /\ t.view \in 0 .. MaxViews /\ view \in 0 .. MaxViews
      /\ ObjectsTyped /\ petObj[t.view] \in Profile
      /\ screen \in {"home", "pet", "quiz", "crashed"}
  BY Bounds DEF TypeInv, PhotosTyped, ScreenTyped, Transfer, ObjectsTyped
<1>3. Apart(petObj[t.view], photos, transfers)
  BY <1>2 DEF ApartInv
<1> DEFINE p == [petObj[t.view] EXCEPT !.photo[t.slot] = t.photo]
<1>4. objs[view] = IF t.view = view THEN p ELSE petObj[view]
  <2>1. \A w \in 0 .. MaxViews : objs[w] = IF w = t.view THEN p ELSE petObj[w]
    BY <1>2, SetUrlIs, SMTT(30)
  <2> HIDE DEF p, objs
  <2> QED
    BY <1>2, <2>1
<1>5. HasFiles(petObj[t.view], files, leftFile) =>
        /\ Urls(p) \subseteq files'
        /\ petObj[t.view].photo[t.slot] = 0 => HasFiles(p, files', leftFile)
  BY <1>1, <1>2, <1>3, ArrivedFiles
<1> HIDE DEF p, objs
<1>6. Doc' = Doc /\ Shown' = Shown /\ OnScreen' = OnScreen
  BY <1>1 DEF Doc, Shown, OnScreen
<1>7. OnScreen => petObj'[view] = objs[view]
  BY <1>1, <1>2, InUseKeeps DEF OnScreen
<1>8. screen # "home" => OnScreen
  BY <1>1, <1>2 DEF Running, OnScreen
<1>9. PhotosIos'
  BY <1>1 DEF PhotosIos
<1>10. PhotosQuiz'
  BY <1>1, <1>6 DEF PhotosInv, PhotosQuiz
<1>11. PhotosAndroid'
  <2> SUFFICES ASSUME wanted # Unsure PROVE PhotosAndroid'
    BY <1>1 DEF PhotosAndroid
  <2>1. (\E x \in transfers' : x.view = view) => reads[view] = 0
    BY <1>1 DEF PhotosInv, PhotosAndroid
  <2>2. CASE screen # "home" /\ t.view = view
    <3>1. OnScreen /\ Current /\ reads[view] = 0 /\ unsaved' = TRUE
      BY <1>1, <1>8, <2>2 DEF PhotosInv, PhotosAndroid, Current
    <3>2. ~gaveUp => HasFiles(petObj[view], files, leftFile)
      BY <1>1, <3>1, ObjectFiles
    <3>3. leftFile' = (leftFile \/ petObj[t.view].photo[t.slot] # 0)
      BY <1>1, <2>2
    <3>4. ~gaveUp => HasFiles(petObj'[view], files', leftFile')
      BY <1>4, <1>5, <1>7, <2>2, <3>1, <3>2, <3>3 DEF HasFiles
    <3> QED
      BY <1>1, <2>1, <2>2, <3>1, <3>4 DEF PhotosAndroid
  <2>3. CASE screen = "home" \/ t.view # view
    <3>1. leftFile' /\ unsaved' = unsaved
      <4>1. unsaved \in BOOLEAN
        BY DEF TypeInv, CountersTyped
      <4>2. leftFile'
        BY <1>1, <2>3
      <4>3. unsaved' = unsaved
        BY <1>1, <2>3, <4>1
      <4> QED
        BY <4>2, <4>3
    <3>2. \A o : HasFiles(o, files, leftFile) => HasFiles(o, files', leftFile')
      BY <1>1, <3>1 DEF HasFiles
    <3>3. OnScreen => petObj'[view] = petObj[view]
      BY <1>4, <1>7, <2>3 DEF OnScreen
    <3> QED
      BY <1>1, <1>6, <2>1, <3>1, <3>2, <3>3 DEF PhotosInv, PhotosAndroid
  <2> QED
    BY <2>2, <2>3
<1> QED
  BY <1>9, <1>10, <1>11 DEF PhotosInv

\* A photo that fails may have left its file; Android does not survive.
LEMMA TransferFailsPhotos ==
  ASSUME TypeInv, PhotosInv, NEW t \in transfers, TransferFails(t) PROVE PhotosInv'
<1>1. /\ transfers' \subseteq transfers /\ petObj' = InUse(petObj, screen, transfers')
      /\ screen' = IF app = "ios" THEN screen ELSE "crashed"
      /\ UNCHANGED <<app, db, queue, view, reads, quiz, wanted, unsaved, gaveUp>>
  BY DEF TransferFails
<1>2. PICK stored \in {{}, {t.photo}} :
        files' = files \cup stored /\ leftFile' = (leftFile \/ stored # {})
  BY DEF TransferFails
<1>3. \A o : HasFiles(o, files, leftFile) => HasFiles(o, files', leftFile')
  BY <1>2 DEF HasFiles
<1>4. Doc' = Doc /\ Shown' = Shown
  BY <1>1 DEF Doc, Shown
<1>5. view \in 0 .. MaxViews
  BY DEF TypeInv, ScreenTyped
<1>6. app = "ios" /\ Current' => Current /\ petObj'[view] = petObj[view]
  BY <1>1, <1>5, InUseKeeps DEF Current
<1>7. PhotosIos'
  BY <1>1, <1>3, <1>4, <1>6 DEF PhotosInv, PhotosIos
<1>8. PhotosAndroid'
  BY <1>1, <1>3, <1>4 DEF PhotosInv, PhotosAndroid, OnScreen
<1>9. PhotosQuiz'
  BY <1>1, <1>4 DEF PhotosInv, PhotosQuiz
<1> QED
  BY <1>7, <1>8, <1>9 DEF PhotosInv

\* A quiz that begins has no page yet.
LEMMA StartQuizPhotos ==
  ASSUME TypeInv, KeptInv, PhotosInv, StartQuiz PROVE PhotosInv'
<1>1. /\ screen = "pet" /\ screen' = "quiz" /\ quiz' = [NoQuiz EXCEPT !.asked = TRUE]
      /\ Wants(wanted, Loading)
      /\ UNCHANGED <<app, db, queue, files, transfers, view, petObj, reads,
                     unsaved, gaveUp, leftFile>>
  BY DEF StartQuiz, storage, leavings
<1>2. quiz'.page = 0
  BY <1>1 DEF NoQuiz
<1>3. CASE wanted' = Unsure
  BY <1>3, UnsurePhotos
<1>4. CASE wanted' # Unsure
  <2>1. wanted # Unsure
    BY <1>1, <1>4, NotHasty, NotLoading
  <2>2. Doc' = Doc /\ Shown' = Shown /\ Current /\ OnScreen
    BY <1>1 DEF Doc, Shown, Current, OnScreen
  <2>3. PhotosIos'
    BY <1>1, <2>1, <2>2 DEF PhotosInv, PhotosIos
  <2>4. PhotosAndroid'
    BY <1>1, <2>1, <2>2 DEF PhotosInv, PhotosAndroid
  <2>5. PhotosQuiz'
    BY <1>2 DEF PhotosQuiz
  <2> QED
    BY <2>3, <2>4, <2>5 DEF PhotosInv
<1> QED
  BY <1>3, <1>4

\* The quiz takes the photos the phone shows.
LEMMA AnswerQuizPhotos ==
  ASSUME TypeInv, KeptInv, PhotosInv, AnswerQuizIos \/ AnswerQuizAndroid PROVE PhotosInv'
<1>1. /\ screen = "quiz" /\ quiz.asked
      /\ UNCHANGED <<app, db, queue, files, transfers, view, petObj, reads, wanted,
                     unsaved, gaveUp, leftFile>>
  BY DEF AnswerQuizIos, AnswerQuizAndroid, storage, leavings
<1>2. CASE wanted = Unsure
  BY <1>1, <1>2, UnsurePhotos
<1>3. CASE wanted # Unsure
  <2>1. wanted \in Given
    BY <1>1, <1>3, NotDeleted DEF TypeInv
  <2>2. quiz.obj = Blank
    BY <1>1, <2>1 DEF KeptInv, QuizKeeps
  <2>3. screen' = "crashed" \/ (screen' = "quiz" /\ quiz'.obj = Shown)
    <3>1. quiz \in [obj : Profile, page : 0 .. Pages, asked : BOOLEAN, done : BOOLEAN]
      BY DEF TypeInv, QuizTyped
    <3>2. ASSUME AskPage(Shown) PROVE screen' = "crashed" \/ (screen' = "quiz" /\ quiz'.obj = Shown)
      BY <1>1, <3>1, <3>2 DEF AskPage
    <3>3. CASE AnswerQuizIos
      <4>1. AskPage(Shown)
        BY <2>2, <3>3 DEF AnswerQuizIos, Shown
      <4> QED
        BY <3>2, <4>1
    <3>4. CASE AnswerQuizAndroid
      <4>1. screen' = "crashed" \/ AskPage(Shown)
        BY <3>4 DEF AnswerQuizAndroid, Shown
      <4> QED
        BY <3>2, <4>1
    <3> QED
      BY <3>3, <3>4
  <2>4. KeptInv'
    BY AnswerQuizKept
  <2>5. app = "ios" => screen' = "quiz"
    BY <1>1, <1>3, <2>3, <2>4 DEF KeptInv, IosSurvives
  <2>6. Doc' = Doc /\ Shown' = Shown /\ Current /\ OnScreen
    BY <1>1 DEF Doc, Shown, Current, OnScreen
  <2>7. PhotosIos'
    BY <1>1, <1>3, <2>5, <2>6 DEF PhotosInv, PhotosIos
  <2>8. PhotosAndroid'
    BY <1>1, <1>3, <2>3, <2>6 DEF PhotosInv, PhotosAndroid
  <2>9. PhotosQuiz'
    BY <2>3, <2>6 DEF PhotosQuiz
  <2> QED
    BY <2>7, <2>8, <2>9 DEF PhotosInv
<1> QED
  BY <1>2, <1>3

\* A finished quiz uploads the photos it took.
LEMMA FinishQuizPhotos ==
  ASSUME TypeInv, KeptInv, PhotosInv, FinishQuiz PROVE PhotosInv'
<1> DEFINE given == [by |-> quizzes, page |-> quiz.page]
           w == [wanted EXCEPT !.quiz = Append(@, given)]
<1>1. /\ screen = "quiz" /\ quiz.page # 0 /\ ~quiz.done /\ Wants(w, FALSE)
      /\ UNCHANGED <<app, screen, files, transfers, view, petObj, reads,
                     unsaved, gaveUp, leftFile>>
  BY DEF FinishQuiz, storage, leavings
<1> HIDE DEF w
<1>2. /\ quiz'.obj \in Profile /\ quiz'.obj.photo = quiz.obj.photo /\ quiz'.done
      /\ Doc' = quiz'.obj
  BY FinishedObject
<1>3. Doc' # Absent /\ Shown' = quiz'.obj
  BY <1>2, PetAssumption DEF Shown
<1>4. CASE wanted' = Unsure
  BY <1>4, UnsurePhotos
<1>5. CASE wanted' # Unsure
  <2>1. wanted # Unsure
    BY <1>1, <1>5, NotHasty
  <2>2. Shown'.photo = Shown.photo
    BY <1>1, <1>2, <1>3, <2>1 DEF PhotosInv, PhotosQuiz
  <2>3. HasFiles(Shown, files, leftFile) => HasFiles(Shown', files, leftFile)
    BY <2>2 DEF HasFiles, Urls
  <2>4. OnScreen' = OnScreen
    BY <1>1 DEF OnScreen
  <2>5. PhotosIos'
    BY <1>1, <1>3, <2>1, <2>3 DEF PhotosInv, PhotosIos
  <2>6. PhotosAndroid'
    BY <1>1, <2>1, <2>2, <2>3, <2>4 DEF PhotosInv, PhotosAndroid
  <2>7. PhotosQuiz'
    BY <1>2 DEF PhotosQuiz
  <2> QED
    BY <2>5, <2>6, <2>7 DEF PhotosInv
<1> QED
  BY <1>4, <1>5

\* The pet screen of iOS downloads once the quiz is closed; that of Android is as it
\* was.
LEMMA CloseQuizPhotos ==
  ASSUME TypeInv, PhotosInv, screen = "quiz", CloseQuiz, Doc' = Doc,
         UNCHANGED <<app, wanted, view, files, transfers, petObj, unsaved, gaveUp, leftFile>>
  PROVE  PhotosInv'
<1>1. screen' = "pet" /\ (app = "ios" => Download(view)) /\ (app # "ios" => reads' = reads)
  BY DEF CloseQuiz, Appear
<1>2. view \in 0 .. MaxViews
  BY DEF TypeInv, ScreenTyped
<1>3. app = "ios" => reads'[view] # 0
  BY <1>1, <1>2, DownloadTyped, Bounds DEF TypeInv
<1>4. Current /\ OnScreen
  BY DEF Current, OnScreen
<1> QED
  BY <1>1, <1>3, <1>4, SamePhotos

\* The owner closes the quiz.
LEMMA ExitQuizPhotos == ASSUME TypeInv, PhotosInv, ExitQuiz PROVE PhotosInv'
<1>1. /\ screen = "quiz" /\ CloseQuiz /\ Doc' = Doc
      /\ UNCHANGED <<app, wanted, view, files, transfers, petObj, unsaved, gaveUp, leftFile>>
  BY DEF ExitQuiz, Doc, storage, leavings
<1> QED
  BY <1>1, CloseQuizPhotos

\* A write that is acknowledged may close the quiz or the screen.
LEMMA FlushPhotos == ASSUME TypeInv, PhotosInv, Flush PROVE PhotosInv'
<1>1. UNCHANGED <<app, files, transfers, view, wanted>> /\ Doc' = Doc
  BY FlushDoc DEF Flush, storage
<1>2. \/ screen = "quiz" /\ CloseQuiz /\ UNCHANGED <<petObj, leavings>>
      \/ screen = "pet" /\ Leave /\ UNCHANGED <<reads, quiz, leftFile>>
      \/ UNCHANGED <<screen, petObj, reads, quiz, leavings>>
  BY DEF Flush
<1>3. CASE screen = "quiz" /\ CloseQuiz /\ UNCHANGED <<petObj, leavings>>
  BY <1>1, <1>3, CloseQuizPhotos DEF leavings
<1>4. CASE screen = "pet" /\ Leave /\ UNCHANGED <<reads, quiz, leftFile>>
  BY <1>1, <1>4, LeavePhotos
<1>5. CASE UNCHANGED <<screen, petObj, reads, quiz, leavings>>
  BY <1>1, <1>5, SamePhotos DEF Current, OnScreen, leavings
<1> QED
  BY <1>2, <1>3, <1>4, <1>5

\* A quiz whose download fails is one the owner does not wait for.
LEMMA QuizReadFailsPhotos ==
  ASSUME TypeInv, KeptInv, PhotosInv, QuizReadFails PROVE PhotosInv'
<1>1. screen = "quiz" /\ Wants(wanted, TRUE)
  BY DEF QuizReadFails
<1>2. wanted' = Unsure
  BY <1>1, NotHasty
<1> QED
  BY <1>2, UnsurePhotos

\* What a killed app was about is given up; its queue is not.
LEMMA RestartPhotos == ASSUME TypeInv, PhotosInv, Restart PROVE PhotosInv'
<1>1. /\ screen' = "home" /\ transfers' = {} /\ unsaved' = FALSE
      /\ gaveUp' = (gaveUp \/ unsaved) /\ UNCHANGED <<app, wanted>> /\ Doc' = Doc
  BY RestartTyped DEF Restart
<1>2. PICK stored \in SUBSET {t.photo : t \in transfers} :
        files' = files \cup stored /\ leftFile' = (leftFile \/ stored # {})
  BY DEF Restart
<1>3. \A o : HasFiles(o, files, leftFile) => HasFiles(o, files', leftFile')
  BY <1>2 DEF HasFiles
<1>4. Shown' = Shown /\ ~Current' /\ ~OnScreen'
  BY <1>1 DEF Shown, Current, OnScreen
<1>5. PhotosIos'
  BY <1>1, <1>3, <1>4 DEF PhotosInv, PhotosIos
<1>6. PhotosAndroid'
  BY <1>1, <1>3, <1>4 DEF PhotosInv, PhotosAndroid
<1>7. PhotosQuiz'
  BY <1>1 DEF PhotosQuiz
<1> QED
  BY <1>5, <1>6, <1>7 DEF PhotosInv

\* Every step leaves files and URLs together.
LEMMA NextPhotos ==
  TypeInv /\ KeptInv /\ ApartInv /\ PhotosInv /\ [Next]_vars => PhotosInv'
<1> SUFFICES ASSUME TypeInv, KeptInv, ApartInv, PhotosInv, [Next]_vars PROVE PhotosInv'
  OBVIOUS
<1>1. CASE OpenPet \/ SaveIos \/ SaveAndroid \/ Exit \/ DeletePetIos \/ DeletePetAndroid
  BY <1>1, OpenPetPhotos, SavePhotos, ExitPhotos, DeletePetPhotos
<1>2. CASE StartQuiz \/ AnswerQuizIos \/ AnswerQuizAndroid \/ FinishQuiz \/ ExitQuiz
  BY <1>2, StartQuizPhotos, AnswerQuizPhotos, FinishQuizPhotos, ExitQuizPhotos
<1>3. CASE Flush \/ QuizReadFails \/ Restart
  BY <1>3, FlushPhotos, QuizReadFailsPhotos, RestartPhotos
<1>4. ASSUME NEW v \in 1 .. MaxViews, AnswerPetIos(v) \/ AnswerPetAndroid(v) \/ ReadFails(v)
      PROVE  PhotosInv'
  BY <1>4, AnswerPetPhotos, ReadFailsPhotos
<1>5. ASSUME NEW s \in Slot, DeletePhotoIos(s) \/ DeletePhotoAndroid(s)
                             \/ PickPhotoIos(s) \/ PickPhotoAndroid(s)
      PROVE  PhotosInv'
  BY <1>5, DeletePhotoIosPhotos, DeletePhotoAndroidPhotos, PickPhotoIosPhotos,
     PickPhotoAndroidPhotos
<1>6. ASSUME NEW t \in transfers, GotUrlIos(t) \/ GotUrlAndroid(t) \/ TransferFails(t)
      PROVE  PhotosInv'
  BY <1>6, GotUrlIosPhotos, GotUrlAndroidPhotos, TransferFailsPhotos
<1>7. CASE UNCHANGED vars
  <2>1. Doc' = Doc /\ Shown' = Shown
    BY <1>7 DEF vars, Doc, Shown
  <2> QED
    BY <1>7, <2>1
       DEF vars, PhotosInv, PhotosIos, PhotosAndroid, PhotosQuiz, Current, OnScreen
<1> QED
  BY <1>1, <1>2, <1>3, <1>4, <1>5, <1>6, <1>7 DEF Next

\* Once all is uploaded, the phone shows the server's pet.
LEMMA AtRestPhotos ==
  ASSUME TypeInv, PhotosInv, AtRest, app = "android" => ~gaveUp
  PROVE  HasFiles(IF Pet = Absent THEN Blank ELSE Pet, files, leftFile)
<1>1. screen = "home" /\ queue = <<>> /\ wanted # Unsure
  BY DEF AtRest
<1>2. Shown = IF Pet = Absent THEN Blank ELSE Pet
  BY <1>1, QuietDoc DEF Shown
<1>3. app = "ios" \/ app = "android"
  BY DEF TypeInv, CountersTyped, Apps
<1> QED
  BY <1>1, <1>2, <1>3 DEF PhotosInv, PhotosIos, PhotosAndroid

\* No profile shows a photo that is gone, whichever object was uploaded last and
\* whatever was picked, deleted or still on its way, unless Android's owner left
\* the screen, or the app ended, with changes that were not saved.
THEOREM FilesOfPhotos == Spec => []PhotosExist
<1>1. TypeInv /\ PhotosInv => PhotosExist
  BY AtRestPhotos DEF PhotosExist, HasFiles
<1> QED
  BY <1>1, InitTyped, InitKept, InitApart, InitPhotos, NextTyped, NextKept, NextApart,
     NextPhotos, PTL DEF Spec

\* And no file is in Storage that no profile shows, but for those that are counted
\* as left there.
THEOREM NoFileLeft == Spec => []NoOrphans
<1>1. TypeInv /\ PhotosInv => NoOrphans
  BY AtRestPhotos, ApartBlank DEF NoOrphans, HasFiles
<1> QED
  BY <1>1, InitTyped, InitKept, InitApart, InitPhotos, NextTyped, NextKept, NextApart,
     NextPhotos, PTL DEF Spec
=============================================================================
