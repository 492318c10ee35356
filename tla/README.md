# PetClump: specifications

TLA+ models of PetClump, an app in which owners match their pets, befriend them
and chat.  There are two clients, written independently and talking to the same
Cloud Firestore database:

- `src/ios/PetClump/` (Swift), called *iOS* below;
- `src/android/app/src/main/java/com/petclump/petclump/` (Java), called *Android*.

There is no server code: all logic runs in the clients, none of it in a
transaction, and every database call is asynchronous.  What is hard about this
program is therefore the order of callbacks on one device and the interleaving
of several devices on shared documents.

## The system

| Document | Written by |
|---|---|
| `users/<uid>` | owner profile: name, form, location |
| `pets/<petId>` | pet profile, quiz answers, photo URLs |
| `pets/<p>/friends/<q>` | p's record of q: `{pending: sending, receiving or friending}` |
| `chats/<room>` | `bigPrime`, `priPrime`, and each pet's public number or `"?"` |
| `chats/<room>/message/*` | messages: sender, time, cipher text, IV |
| `reports/*`, Storage | reports; photos |

### Components

| Component | State | Operations | What is hard | What makes it correct |
|---|---|---|---|---|
| Friend requests (`FriendHandler`, `FriendListVC`, `MatchDetailVC`; `PetProfile.new_friend_change`, `update_friend_key`, `friend_delete`, `FriendFragment`, `FriendRecycleViewAdapter`) | two records and a room per pair; rows and buttons on two screens | request, accept, reject, list, open chat | two writers per document, read-modify-write of the room, chains of acknowledged writes, stale rows | both sides agree on the friendship and on the key; a request has a room; requests do not stay crossed |
| Key exchange (`KeyExchanger`) | a secret in a file, prime and root in the room | make parameters, public number, shared key | parameters replaced while the other side answers | both chats hold one key |
| Chat (`Messenger`, `ChatRoomVC`; `ChattingActivity`, `MessagingDownloader`, `BaseMessage`) | messages in the room; the list on screen | open, send, receive snapshots | own pending writes, clocks, sending before the room is read | each message on screen once, none missing, none gone |
| Best matches (`MatchBestVC`; `MatchingProfileDownloader`, `BestMatchFragment`, `EndlessRecyclerViewScrollListener`) | query cursor, pages under way, list | ask for a page, filter it, list it | answers in any order, listeners that stay, pages asked for twice | no own pet or friend listed, no candidate skipped, everything reached in the end |
| Match score (`MatchingProfile`) | none | quiz and distance percentages | two formulas that should be one | same score on both apps |
| Owner profile, login, settings (`OwnerProfile`, `LoginVC`, `WelcomeVC`, `OwnerSettingVC`; `MainActivity`, `UserInfoEditActivity`, `OwnerProfileFriendFragment`) | `users/<uid>`; on Android one `OwnerProfile` object for own and foreign profiles | first-time check, silent location update, edit, view a friend's owner | shared singleton, upload racing the first-time check, saving before the form is loaded | a profile holds its owner's data and is not lost |
| Pet profile and photos (`PetProfile`, `PetSettingVC`, `ImageInputDelegate`; `PetInfoActivity`) | `pets/<petId>`, photos in Storage, one profile object per screen | create, edit, delete, set and delete a photo | a document and a file changed apart, transfers that end when their screen is gone | every stored URL has its photo, and every photo its URL; what was saved stays |
| Quiz (`QuizVC`, `QuizQuestion`; `QuizActivity`) | a profile object of its own, a page of questions | start, answer, finish, leave | two objects for one pet, the last page | every answer is stored at its question and stays |
| Free schedule (`FreeSchedule`) | 21 characters, 7 by 3 table | write, parse, common free time | counting from 0 and from 1 in two apps, lengths other than 21 | both apps show what was ticked |
| Image cache (`CachedImage`, `DownloadImageTask`) | memory and file cache | load into a view | recycled views, failed downloads | a view shows the picture it was last asked for |
| Cryptographer | none | AES-CBC, text form of the IV | errors become text, signed bytes | each app reads the other's vector |
| GPS service, screens, layouts, vendored `ios/Pods` | | | | not modelled |

The components meet in three places: a match opens the profile from which a
request is sent; an accepted request opens the chat, whose key comes from the
room; and the list of matches filters by the friend records.

## Modules

| Module | Stands for |
|---|---|
| `Firestore` | the client library as the code uses it: a mutation queue per device, reads with latency compensation, completions that do not survive the process |
| `Friending` | the friend-request protocol of both apps, with the key exchange in symbols |
| `MCFriending` | its instances for TLC |
| `CommonProofs` | lemmas: queues and views; sequences that hold the same, and how those in an order grow |
| `FriendingProofs`, `ChatProofs`, `MatchingProofs`, `OwnerProofs`, `PetsProofs`, `ImagesProofs`, `FormulasProofs` | the theorems about each module |
| `ChatRoom` | what a chat promises, abstractly |
| `Chat`, `MCChat` | the messages of one room and the two screens that show them |
| `Matching`, `MCMatching` | the paged list of best matches |
| `Owner`, `MCOwner` | login and the owner's profile, on a phone with either app |
| `Pets`, `MCPets` | one pet's profile, photos and quiz, on a phone with either app |
| `Images`, `MCImages` | views that are used again and the two image caches |
| `Formulas`, `MCFormulas` | the functions whose results the two apps must agree on |

### Friending

`db` is the server, `queue[p]` the mutation queue of p's device, `reads[p]` the
`getDocument`/`get` calls whose callbacks are outstanding.  A write waits in the
queue until `Flush` applies it and runs its completion (`ack`); a read is
answered by an action of its own, at any later time, with `View`: the server's
document under the device's pending writes.  So each callback of the code is a
separate action, and what a handler does before its first callback is one
action:

| Code | Actions |
|---|---|
| `MatchDetailVC.viewDidLoad`, `shouldDisableAddFriendButton` | `OpenDetail`, `AnswerCheck`, `CloseDetail` |
| `addFriend` (iOS) | `AddIos`: three writes at once |
| `new_friend_change(NEW_FRIEND)` (Android) | `AddAndroid`: room and own record; the other record when that is acknowledged (`Flush`, ack `"receiver"`) |
| `FriendListVC.viewWillAppear` / `listenToFriendList` | `LoadList` / `ListChange` |
| `acceptFriend` / `new_friend_change(ADD_UNREAD_FRIEND)` and `update_friend_key` | `AcceptIos` / `AcceptAndroid`, then `AnswerAccept` |
| `rejectFriend` / `friend_delete` | `RejectIos` / `RejectAndroid`, then `AnswerDelete`, one link at a time |
| opening a chat, rows that read the room | `OpenChat`, `LoadList`, `ListChange`, then `ChatOpens` or `ChatCrashes` |
| the process is killed; a read fails | `Kill`; `ReadFails` |

The n-th request of a run makes the parameters n; p's public number under them
is `[params |-> n, by |-> p]`; `SharedKey` is what `getSharedKey` computes, equal
on both sides exactly when both numbers were made under the same parameters.
`KeysAgree` therefore says what the unit test `keyExchangeDH` says, of every
interleaving instead of one exchange.

Messages, friend's profile downloads and layout are left out.  `LoadList` is one
step for what `viewWillAppear` does in four reads per friend (the records, the
friend's profile, the status twice): its rows are those of one moment, though in
the code a record may change between two of the reads.  Android disables
Add after the second write was acknowledged; reopening the profile enables it
again, so the model leaves it enabled.

### Chat and ChatRoom

A listener is told of the documents its device sees (`Local`); a snapshot is
taken when they change (`Raise`) and handled later (`Handle`).  An
acknowledgement changes no document and, without metadata changes, raises no
snapshot.  iOS rebuilds its list from every snapshot; Android skips a snapshot
that has pending writes, otherwise appends the changes whose *time* no row has,
and adds its own messages itself.  `passed[p]` is a history variable: the
messages in the snapshots of this listener that were taken with writes pending,
but for the one just sent, which the sender's button shows.

`ChatRoom` promises that a screen shows only messages posted to the room and
that none disappears while it is open; `Chat` implements it with
`posted <-` the messages in the room and in the queues and `shown <-` the rows.

### Matching

`batches` are the pages asked for, each with the answers it still waits for.
On iOS `SnapshotIos` reads the page, `AnswerFriending` answers one friend check,
`OwnerRead` one owner; only `OwnerRead` can complete the page, as only
`toSort.didSet` does.  On Android each page is preceded by a read of the friend
list (`FriendListRead`), filtered by it (`PageRead`) and completed by
`OwnerRead`.  `Scroll` is the whole of `onScrolled`: it may end the wait for a
page, when the list is longer than before, and, near enough to the end of the
list, asks for the next.  Listeners are never removed in the code: `PageChanged`
and `FriendListChanges` are what they do later.  A friend record may come, change
or go (`ADDED`, `MODIFIED`, `REMOVED`), and each time every listener asks for a
page.  `kind` keeps apart the pets that never had a record (`"other"`), those
known when the list was opened (`"friend"`) and those whose record came or went
since (`"added"`, `"removed"`).  Scores only order the pets of one page and are
left out.

### Owner

One phone with either app (`app`), several accounts.  `object` is
`OwnerProfile.most_recent_owner` on iOS and the `OwnerProfile` singleton on
Android; `current` says whether it is still the object a `WelcomeVC` made, which
its download fills.  A profile is what the properties tell apart: which form
filled it in, and which place it names.

| Code | Actions |
|---|---|
| sign in, `saveGPS`, `checkLoggedIn` (Android) | `SignIn`, `AnswerGps` ("login"), `Flush`, `AnswerGps` ("start"), `Flush` |
| Android starts with somebody signed in | `Init` with the reads of `checkLoggedIn` ("start") and, after a silent Google sign-in, of its completion ("login"), answered in either order |
| sign in, `WelcomeVC.viewDidLoad`, `viewWillAppear` (iOS) | `SignIn`, `Welcome`, then `AnswerWelcome` (the silent upload) and `AnswerCheck` (the forced form) in any order |
| `OwnerSettingVC`, `UserInfoEditActivity` | `OpenForm`, `AnswerFormIos` / `AnswerFormAndroid`, `SaveIos` / `SaveAndroid`, `LeaveForm` |
| `UserInfoActivity`, `BestMatchFragment` | `ReloadOwn`, `AnswerOwn` |
| `OwnerProfileFriendFragment` | `ViewFriend`, `AnswerFriend`, `AnswerOwn`; the downloads of the two pets before each are part of the read |

The library keeps one mutation queue per signed-in user, so `queue` is indexed
by user.  A missing document ends the Android app (`Downloads`), as `getData()`
is null.  The owner waits until a form is filled before saving it; `located` is
the permission and, on Android, whether `setGPS` found a place.

### Pets

`pets/<petId>` is always written as a whole, from a profile object, and there is
more than one such object for a pet: each opening of the pet screen makes one
(`petObj`, by the number of the opening), the quiz has its own (`quiz.obj`), and
a photo on its way to Storage (`transfers`) holds on to the one it was picked
with.  `files` are the photos in Storage.

| Code | Actions |
|---|---|
| `SettingVC.enterPetView`, `PetSettingVC.viewWillAppear`; `PetInfoActivity.onCreate` | `OpenPet`, then `AnswerPetIos` / `AnswerPetAndroid` |
| `tapSave` / `saveInfo` | `SaveIos` / `SaveAndroid`; `Exit` leaves without |
| `imagePickerController`, `uploadImageToFirebaseStorage` | `PickPhotoIos`, then `GotUrlIos`: the old file is deleted, the object written |
| `onActivityResult`, `setPhoto` | `PickPhotoAndroid`: the old file is deleted at once; `GotUrlAndroid` only changes the object |
| `tapOnImageView` / the photo's dialog | `DeletePhotoIos` / `DeletePhotoAndroid` |
| `PetProfile.delete` | `DeletePetIos` (photos stay) / `DeletePetAndroid` |
| `QuizVC`, `QuizActivity` | `StartQuiz`, `AnswerQuizIos` / `AnswerQuizAndroid`, `FinishQuiz`, `ExitQuiz` |
| a failed read or transfer; the process ends | `ReadFails`, `QuizReadFails`, `TransferFails`; `Restart` |

The end of the questions is found by the code's own formulas, on numbers of
answers: `AllDone` (iOS, answers + 5 > questions) or `AllAnswered` (Android, they
are equal) of the pet screen's object, `NoneLeft` (`getQuestion`) of the quiz's.
A page of ten answers is one entry that names the page of questions it answered
and the session it was given in.  `wanted` is a history variable: the text and
answers the owner gave last; it becomes `Unsure` when the owner acts before what
the act is based on is there - a screen whose download is outstanding, a pet
deleted or a quiz open while a photo is on its way - and when a read fails.
Each of these conditions is needed: without it a property below fails.
`gaveUp` and `leftFile` are the history of photos: on Android the owner left a
screen, or the app ended, with changes to photos unsaved (the documents then
name files that are gone); a file was left in Storage that no profile will name
(a transfer that its screen outlived, an upload nobody saved, the photos of a
pet deleted on iOS, the first of two photos picked for one place).
`PhotosExist` and `NoOrphans` are about every other moment.
Deleting a file is one step; a failed deletion, the rotation of a picked photo
and the two steps of an upload (bytes, then URL) are left out.

### Images

`Coming(v)` are the loads whose pictures view v still expects.  On iOS `BindIos`
looks in memory and on disk and else starts a download; downloads end in any
order (`Fetch`).  On Android `BindAndroid` queues an `AsyncTask`; `RunTask` is
`doInBackground` of the first, `Post` its `onPostExecute`.  `BindNone` is a row
of a pet without a photo, `BindEmpty` the same in the friend list and the chat
of Android, which start a task even so.  A row keeps its old picture until the
new one comes.

### Formulas

No state: an action picks an input, and the invariants compare the functions of
both apps with each other and with a reference.  `PrimeFactors`, `IsPrimeRoot`
and `FindPrimitiveRoot` are those of `PrimeUtil`, with the limit of 10000 scaled
to 4 and primes of 11 to 151 for those of 512 bits; the primality test is taken
as exact, which it is for large numbers, but calls 1 a prime as the code does.
Hours are the tags of the views (11 to 73); the two forms write them, the two
screens read them and the two comparisons intersect them, each with its own
indices.  Their texts are those the forms write, 21 long, or empty; of another
length a shorter text is read as never free, a longer one as never free on iOS,
and `FreeSchedule.java` would end the app on it.  The text of a vector is a sequence of numbers and separators, and both
`convertIV` functions parse it.  Ids are short strings of one length, as Firebase's
user ids followed by a digit are.

## Model checking

| Run | Instance | Checks |
|---|---|---|
| `friending_mixed` | iOS and Android, two requests, one answer each, one fault | `TypeOK`, `KeysAgree` |
| `friending_requests` | iOS and Android, two requests, two acceptances each, no rejection | `RequestHasRoom`, `RecordsAgree`, `NoCrossedRequests` |
| `friending_ios` | two iOS apps, two requests, rejections, owners who wait for the check before they tap Add | `FriendshipNotReset` |
| `friending_one_request` | iOS and Android, one request from either, one answer each | `FriendsAgree`, `FriendsCanTalk`, `AcceptFindsRoom`, `AcceptedCanTalk` |
| `chat_mixed` | iOS and Android, two messages, two times | `TypeOK`, `ShownOnce`, `IosUpToDate`, `AndroidUpToDate`, `IosCatchesUp`, `ImplementsRoom` |
| `matching_pages` | four pets in pages of two, both apps, every mix of own, known and other pets, one record that comes, changes or goes | `TypeOK`, `SkipsOwnAndFriends`, `NoGap`, `AndroidNoDuplicates`, `AndroidListsAll` |
| `owner_phone` | either app, on Android also started signed in, two accounts new or old, two logins, forms and views, one failed read | `TypeOK`, `SavedFormStays`, `ObjectIsOwn`, `HomeHasProfile` |
| `pets_phone` | either app, one photo slot, two texts, photos, screens and quizzes, two pages of questions, one failure or kill | `TypeOK`, `PhotosExist`, `NoOrphans`, `TextKept`, `QuizKept`, `DeletedStaysDeleted`, `AnswersAtQuestions`, `IosSurvives` |
| `images_phone` | either app, two rows, two photos, four bindings, one failure or kill | `ViewsSettle`, `LoadedOnce`, `PictureComes` |
| `formulas` | twelve primes and every start up to 10; every two hours of one owner with every hour of the other, saved with either app; up to three of five edge bytes; any two pairs of eight ids | `RootGenerates`, `FreeTimeAgrees`, `IvRead`, `RoomsDistinct` |

**Bounds.**  Two pets are all who ever write the documents of a pair.
`MaxAdds = 2` is the least with crossing or repeated requests; `MaxAnswers = 2`
the least with an answer from a stale row; one fault reaches every outstanding
read and every lost completion.  Two messages and two times give equal times,
clocks that disagree, and an own message between two snapshots (three messages
were also explored once, for the invariants, before `passed` took its present
form: 1.2 million states, no violation).
Two pages of two pets give a page with a friend answered last, an empty page, a
page asked for twice and the end of the query.  Two logins let one account's
callbacks run under the other, two views let two friends' chains overlap, two
forms let a save be followed by another.  One photo slot has all that can
happen to a photo; two photos replace each other in it, and three, one of them
picked twice before it arrived, were explored once by hand (with one and with
two texts, 2.1 and 7.1 million states, no violation).  Two pet screens let the first one's
transfer end under the second, two
quizzes reach the last page.  Two rows and two photos with four bindings give a
row bound to another photo and back, two rows for one photo, and a load after a
failed one.  The primes include some whose predecessor leaves 1, a prime, and a
composite number after the divisors tried; the bytes are both ends of both
ranges.  `CHECK_DEADLOCK FALSE`
everywhere: owners may stop pressing buttons, and the bounds end every run.

**Fairness.**  `Friending`: queued writes are sent and reads answered
(`Flush`, `AnswerAccept`, `AnswerDelete`), which is what the library does while
the app runs; no press of a button and no reload of a list is assumed.  `Chat`:
the network (`Flush`, `Deliver`) and the main thread (`Handle`).  `Matching`: reads are answered,
and the owner goes on scrolling to the end of the list (`Scroll(Len(list) - 1)`),
without which no app owes anybody a list.
`Images`: a download ends, with a picture or a timeout (`Fetch`), and Android's
serial executor and main thread run (`RunTask`, `Post`); a download is part of
`RunTask`, and as `DownloadImageTask` sets no read timeout, its fairness assumes
that the network ends one; `PictureComes` asks for
nothing that failed, and failures are bounded.

**What does not hold, and the runs that show it** (expected violations):

- `friending_chat_crash`: the records say "friending" before the room has the
  acceptor's number; opening the chat then unwraps nil (`Messenger.swift:54`).
- `matching_friend_last`: on iOS a friend check answered last leaves the page
  unlisted for ever (`MatchBestVC.swift:83`).

**What else the models show not to hold.**  These behaviours are in the models;
the properties are stated so that they name or exclude them.

- A rejected row keeps its Accept button; acceptance then makes two friends
  without a room (`FriendListVC.swift:127`).
- With three pets on Android the crash in a chat with one of them loses the second
  half of a request to another: its continuation was in memory
  (`PetProfile.java:169`).  `RecordsAgree` is checked with two pets.
- An iOS message sent before the room was read is stored as the text "error"
  (`Crytographer.swift:59`).
- On a phone that already grants the location the silent upload makes the
  document of a first-time user, and the form is not forced
  (`WelcomeVC.swift:70`).  The free time of such a document is an empty text,
  and comparing it with another ends the iOS app (`OwnerProfile.swift:164`).
- On Android a friend who is removed after the page was filtered is a candidate
  again but not listed (`PetProfile.java:304`): nothing asks for that page again.
  A page asked for once per old listener lists its pets once per listener
  (`PetProfile.java:290`), and one without a valid pet ends the paging
  (`MatchingProfileDownloader.java:78`).
- A photo whose URL comes back to the object of an older pet screen writes that
  object whole: newer text or answers are lost, a deleted pet is back
  (`ImageInputDelegate.swift:47`).
- iOS leaves the photos of a deleted pet in Storage ("TODO delete photos",
  `PetProfile.swift:211`).  Android deletes an old photo before Save; leaving the
  screen without saving leaves a URL without its file (`PetInfoActivity.java:87`).
- On Android a second photo picked for a place before the first has arrived does
  not remove the first, which stays in Storage (`PetProfile.java:460`).
- On Android a quiz answered from the pet screen is overwritten by a later Save
  of that screen, whose object was downloaded before; and the screen's count of
  answers can open a quiz that has no questions left, which ends the app.
- A transfer that fails ends the Android app: the completion asks the failed task
  for its result (`PetProfile.java:472`).
- On iOS a row gets an older photo when that download ends after the newer one
  (`CachedImage.swift:41`); on Android only a row cleared for a pet without a
  photo does.
- A download that failed leaves an empty file on Android, and that photo is never
  loaded again (`DownloadImageTask.java:59`).
- The search for a root starts at a random number below 50000; when that is 0,
  it returns 0, and every public number and key is that of 0
  (`KeyExchanger.java:156`).  On iOS the loop of `primeFactors` runs while n is 1,
  so there are no factors and every start passes (`KeyExchanger.swift:137`).  What
  a found root generates is bounded by the factors tried: see `RootGenerates`.

Bounds also say where the passing properties stop.  `RecordsAgree` is checked
without rejections, because `friend_delete` stops half-way when a link finds
nothing, and without kills, because a lost completion leaves a one-sided request.
`FriendsAgree` and `AcceptedCanTalk` are checked for one request: a second one
resets records that are being answered.  `FriendshipNotReset` needs owners who
wait for the check (`Hasty` empty): Add is enabled until it is answered
(`MatchDetailVC.swift:38`), and `friending_mixed` and `friending_one_request`
let an iOS owner tap before.  `FirstLogin` bounds `SavedFormStays` and `ObjectIsOwn` to one owner, who signs in
or, on Android, is signed in when the app starts: a download of
`WelcomeVC` answered after somebody else signed in uploads under the new user,
and one answered while a second form is being saved uploads the first one.
`ObjectIsOwn` excludes failed reads: the singleton keeps the friend's profile
when the download of the own one fails.  `AndroidUpToDate` names the two ways in
which an Android chat loses a message until it is reopened: a snapshot taken
while an own write is pending, and a message stamped with the time of a row.
Only the messages in that snapshot are exempted (`passed`): every other one must
be shown.  `NoGap` is about pets that never had a friend record,
`AndroidNoDuplicates` about a friend list that stays as it is, `AndroidListsAll`
about lists with a candidate on every page.

## Proofs

All are checked by TLAPS for every value of the constants: any pets or accounts,
any mix of apps, any messages, rows, pictures, pages and bounds.  The
assumptions, which TLC evaluates on every instance:

| Assumption | Says |
|---|---|
| `PetsAssumption`, `BoundsAssumption`, `AbsentAssumption`, `UnknownAssumption` (`Friending`) | the constants are of their types; `Absent` is neither a status nor a room, and "?" no public number |
| `ChatAssumption` | who runs iOS and who writes early are pets; times and the bound are numbers |
| `MatchingAssumption` | the bounds are numbers; a page, the threshold of the scroll listener and the number of pages are at least 1 |
| `OwnerBounds`, `NobodyAssumption`, `AbsentAssumption` (`Owner`) | the bounds are numbers; nobody is not an account, `Absent` not a profile |
| `PetBounds`, `PetAssumption` | the bounds are numbers, and pages, texts and photos at least 1, as an old pet has one; `Absent` and `Unsure` differ and are no profiles |
| `FormulasAssumption` | bytes are in 0 .. 255, letters are numbers, lengths at least 1; the primes are above the last root tried, the divisors tried at least 2 |
| `ImageBounds` | the bounds are numbers; the empty URL is none of the pictures' |

### Friending

- **`FriendingTypeOK`**: one lemma per action, over lemmas of `CommonProofs` on
  queues (`Append`, `Tail`, `WithoutAcks` keep a queue of writes, `View` returns
  a value some write or the server holds).
- **`KeysAlwaysAgree`** (`KeysAgree`).  Not inductive: a session takes its key
  from a room, and the room from a queue.  The invariant adds that every room
  anywhere - on the server, in any queue - is *coherent*: a public number in it
  was made by the pet it stands for under the room's own parameters.
  Whole-document writes keep that, whatever they overwrite, and a coherent room
  gives both sides one key.
- **`RequestsDoNotCross`** (`NoCrossedRequests`, with iOS on both sides).  A
  device writes its own record before the other's in one queue, so the last
  write to reach the server turns one of the records into "receiving".  The
  invariant says for each pet with a "sending" record, on the server or pending,
  that the other's record *tells* of it or that a write that *will tell* is
  still queued behind.  Kills keep the queue, hence the argument.
- **`RequestsHaveRooms`** (`RequestHasRoom`), **`AcceptsFindRooms`**
  (`AcceptFindsRoom`), where nobody rejects.  Then nothing is ever deleted, and
  `GrowInv` says in which order things appear: the room before the first record,
  a device's own record before the other's, both before any list shows a
  request or an acceptance reads the room.  "On the server" becomes "on the
  server, or ahead of it in the same queue", which every append, flush and kill
  keeps.
- **`RecordsStayPaired`** (`RecordsAgree`), where nobody rejects and nothing can
  come between the two writes of a request (`HalvesStay`): on iOS one tap queues
  both; Android writes the second on the acknowledgement of the first, which a
  kill loses, and so does a crash in a chat with a third pet.
- **`FriendshipsAreNotReset`** (`FriendshipNotReset`), for `Careful` owners: iOS,
  who wait for the check before they tap Add, reject nobody, and no faults.
  `ResetInv` says when p is *done* with requests to q: the button cannot send
  one any more, and none is in its queue.  A pet becomes friends only behind its
  own last request in the queue, or after the other's has been accepted.
- **`FriendshipIsMutual`** (`FriendsAgree`), under the same hypotheses: an acceptance
  queues its two writes one behind the other, and nothing resets what the first
  has set until the second arrives.
- **`FriendsHaveNumbers`** (`FriendsCanTalk`), under the same hypotheses where one pet
  does the asking (`OneAsks`), as often and of as many as it likes.  Each request
  writes the room again with "?" for the other; `TalkInv` says that such a write
  is always followed in its queue by a request, so that none is left when the
  other has accepted, and that the acceptor's number is then in the room, in its
  queue, or about to be computed.  Also that the acceptor's app does not crash in
  a chat before, which would lose that read.  With two pets asking each other
  the property is false: the later room lacks the number the earlier one had.

- **`OneRequestStaysPaired`** (`RecordsAgree`), **`OneRequestIsMutual`**
  (`FriendsAgree`), **`OneRequestCanTalk`** (`FriendsCanTalk`),
  **`OneRequestFindsRoom`** (`AcceptFindsRoom`), **`OneRequestNotReset`**
  (`FriendshipNotReset`), for any pets on any mix of apps, hasty owners and owners
  who reject, where one request is sent, each owner answers at most once and no
  fault strikes (`OneRequest`).  `OneInv` follows the request through its stages -
  unasked, sending, waiting, accepted, rejected - and says for each of its three
  documents that it is as it will be or is still *owed*: by a queued write, by a
  write that an acknowledgement will lead to (Android), or by a read whose
  answer writes it.  No stage needs the order of the queue but the first.
  `ScreenStep` covers all that the screens do: rows and chats follow what their
  app sees of the records, so nobody else's app takes part, and the only app
  that can crash in a chat is the asker's, which owes nothing by then.

### Chat

`ChatInv` says how the stages of a message hang together: messages have
different numbers up to `sent` (`Numbered`); what a listener has seen is what its
device sees now (`Local`); the snapshots that wait hold each what the one before
held and changes of their own, the last one all that was seen (`EventsOk`); rows
are of seen messages, no two of one.

- **`ChatTypeOK`**, **`NothingShownTwice`** (`ShownOnce`): on Android the changes
  that wait are not on the screen, whether or not the button has shown them.
- **`IosShowsAll`** (`IosUpToDate`): with nothing waiting the list is the query in
  its order.  `CommonProofs` has what is needed of sorting: a sequence in an order
  is determined by its members.
- **`AndroidShowsAll`** (`AndroidUpToDate`): every seen message has a row, or a row
  with its time, or waits in a snapshot that will be handled (`Told`), or came in
  one that was passed over.  The message just sent is new to the room (`Beyond`):
  it is not among those passed over, and the button makes its row.
- **`ChatsImplementRoom`** (`ImplementsRoom`): initial states map to initial states
  of `ChatRoom` and every step to a step or a stutter, under
  `posted <-` the messages in the room and in the queues, `shown <-` the rows.

### Matching

- **`MatchingTypeOK`**, **`OwnAndFriendsSkipped`** (`SkipsOwnAndFriends`),
  **`NothingSkippedByPaging`** (`NoGap`).  `BatchOk` says where every pet of a page
  is: waiting for its friend check, for its owner, ready, or skipped on purpose;
  and that an open page counts exactly those that are not skipped, so that it is
  listed when and only when the last of them is ready.  Every candidate below
  the page's first pet is in the list already, as pages are asked for one after
  the other.
  A friend record that comes or goes makes no pet a candidate (`KindsGoOn`), and
  the pages it asks for start at the cursor like all others.
- **`AndroidListsOnce`** (`AndroidNoDuplicates`).  While the friend list does not
  change there is at most one page under way (`Alone`), and while there is one
  the scroll listener waits: its wait ends only when the list has grown, and the
  page starts at the cursor, where the list ends.

### Owner

- **`OwnerTypeOK`**, **`NobodyWithoutProfile`** (`HomeHasProfile`).  The property
  speaks of a moment when nothing is outstanding; the invariant says what holds
  before it.  On iOS, on the first screen, a profile is stored (on the server or
  in the user's queue) or a check of this very login is under way: every way
  back to the screen asks again, and a check that finds nothing, or fails,
  leaves the screen for the form.  On Android only the acknowledged upload of a
  login leads to the first screen, and in the first login that upload can only
  be the owner's.
- **`SavedFormKept`** (`SavedFormStays`), **`ObjectOfOwner`** (`ObjectIsOwn`).
  In the first login, or for who was signed in when the app started
  (`FirstLogin`), what the phone sees of the profile - the
  server under the queue - has the form that was saved, and every silent upload
  writes an object that has it too: on iOS the object has the profile's form, or
  a download or an acknowledged form that will replace it is under way; on
  Android every outstanding read ends with the profile of who is signed in.

### Pets

A profile is written as a whole from one of many objects, so each invariant is
about all of them: the document, every queued write, the object of every pet
screen and of the quiz.

- **`PetsTypeOK`**: a screen yet to be opened has a blank object, a transfer comes
  from one that was.
- `PagesLeft`: on whole pages the formulas of the pet screen and of the quiz agree.
- **`AnswersInPlace`** (`AnswersAtQuestions`): in each object the n-th answers are
  to the n-th page.  The quiz asks the page after those its own object has;
  while its download is outstanding, or has failed, that object is blank.
- **`SavedTextKept`** (`TextKept`), **`AnswersKept`** (`QuizKept`),
  **`DeletedPetGone`** (`DeletedStaysDeleted`), **`QuizOpensWithQuestions`**
  (`IosSurvives`).  `KeptInv`: what the phone sees of the pet has what the owner
  gave, and so has the object in use - on the screen, or waited for by a
  transfer that will upload it - unless its download is outstanding; a deleted
  pet has no transfer left that could upload it.
- **`FilesOfPhotos`** (`PhotosExist`), **`NoFileLeft`** (`NoOrphans`).  `ApartInv`: no
  photo is in two places of an object, nor in one while it is still on its way,
  so deleting the old file of one place takes no other's.  `PhotosInv`: on iOS
  Storage has the files of what the phone shows; on Android it has, from the
  first change to the save, those of the object on the screen.

### Images

- **`DownloadedOnce`** (`LoadedOnce`).  A task of Android downloads when it finds no
  file, so the invariant says that a URL without a file was never downloaded; a
  failed download and a kill leave an empty file, and nothing removes one.
- **`RowsSettle`** (`ViewsSettle`).  The property speaks of rows that expect nothing
  more; the invariant speaks of what a row expects.  On iOS every download of a
  row that is not overtaken is for the picture the row is bound to.  On Android
  the last of its tasks is, or, when no task is left, the last of its results:
  the serial executor takes the head of one queue and appends to the other.

### Formulas

An input is picked once, so the invariant is what an input is (`InputOk`), for
any set of ticked hours; the rest is about the functions.

- **`RoomsAreDistinct`** (`RoomsDistinct`).  Of two different ids one is greater,
  at the first letter that differs, so both apps join them in one order; ids of
  one length can be cut apart again.
- **`FreeTimesAgree`** (`FreeTimeAgrees`).  The tag of a view, the index of the one
  loop of iOS and of the two of Android count the same 21 hours.
- **`VectorsAreRead`** (`IvRead`).  `IvText` says what stands at each place of the text
  either app writes; without brackets and spaces it is `Bare`, numbers at the odd
  places and commas at the even ones, so each part between two commas is one
  number.  `InOrderLists` (there is one way to list a set of numbers) turns what
  the parsers keep into these places.

### Only model-checked

Liveness (`AcceptedCanTalk`, `IosCatchesUp`, `AndroidListsAll`, `PictureComes`):
fairness and ENABLED are out of the prover's reach.  `Formulas`: `RootGenerates`
rests on recursion over data (factors and powers).  `NoCrossedRequests` with an
Android side: its second write depends on an acknowledgement, and with kills the
property is false.  Beyond the hypotheses of their theorems, the invariants of
`Friending` that have some: with several requests and an owner who rejects what
is still under way several fail (see above), and the runs `friending_requests`
and `friending_ios` show in which instances they hold.

## Not modelled

- **Vendored code.**  `src/ios/Pods` and `src/ios/PetClump/lib` are third-party
  C, C++, Objective-C and Swift (BoringSSL, gRPC, Protobuf, Firebase, BigInt,
  CryptoSwift, AMPagerTabs, ImageScroller, ZLSwipeableView).  PetClump's own code is the Swift and Java of the
  two apps, some ten thousand lines; the libraries appear only as the code uses
  them.
- **Layouts, cells, navigation, text** of the screens; the GPS service, which
  broadcasts a sensor; reports, which are written and never read.
- **The system purging caches.**  Files of the cache directories stay in
  `Images`; a file the system removes would be downloaded a second
  time, which `LoadedOnce` does not allow for.
- **Match scores.**  Floating-point percentages.  The quiz part is one formula in
  both apps.  The place part is not: iOS compares a distance in metres with half
  this owner's range and gives nothing without a valid place; Android compares
  kilometres with half the other owner's.  No document says which is meant.
- **AES, prime generation, modular powers** are library functions; keys and
  ciphers are symbols.
- **Dead code:** `checkBirthday` of `UserInfoEditActivity` is never called (and
  counts months from 0); `UploadPhotoActivity` and `UserDataSettingVC` are
  screens for development that the apps do not open.

## Plan

1. A composition of `Friending` and `Matching` through the friend records.
2. Proofs: the theorems on several requests between iOS pets with owners who
   reject, for the instances in which they hold.
