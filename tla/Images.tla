------------------------------- MODULE Images -------------------------------
(***************************************************************************)
(* How the views of one phone get their pictures: the rows of the lists,   *)
(* which are used again for other pets while a picture is on its way, and  *)
(* the cache of each app.                                                  *)
(*                                                                         *)
(* iOS keeps pictures in memory and as files, and loads what it has in     *)
(* neither on a concurrent queue.  Android keeps files only and queues one *)
(* AsyncTask per bound view; the tasks of an app run one after the other,  *)
(* and their results reach the main thread in that order.  Neither app     *)
(* clears a view before its new picture comes.                             *)
(***************************************************************************)
EXTENDS Naturals, Sequences, FiniteSets

CONSTANTS View, Url,
          NoPicture,      \* an empty URL; the default picture of a view
          Blank,          \* what Android shows of a file that is no picture
          MaxBinds, MaxFaults          \* bounds of a behaviour

ASSUME ImageBounds == MaxBinds \in Nat /\ MaxFaults \in Nat /\ NoPicture \notin Url

Apps == {"ios", "android"}

VARIABLES
  app,       \* which app the phone runs
  memory,    \* iOS: the URLs whose pictures are in the NSCache
  file,      \* the file of each URL: "none", "whole" or "empty"
  fetches,   \* iOS: downloads from the web
  tasks,     \* Android: the serial queue of AsyncTasks
  results,   \* Android: pictures on their way to the main thread
  shown,     \* what each view shows
  bound,     \* the URL each view was bound to last
  overtaken, \* history: it was bound while the picture of another was coming
  lost,      \* history: the load it was bound for failed
  calm,      \* history: no failure was left when it was bound
  web,       \* history: how often Android loaded each URL from the web
  binds, faults

vars == <<app, memory, file, fetches, tasks, results, shown, bound,
          overtaken, lost, calm, web, binds, faults>>

Init ==
  /\ app \in Apps
  /\ memory = {}  /\ file = [u \in Url |-> "none"]
  /\ fetches = {}  /\ tasks = <<>>  /\ results = <<>>
  /\ shown = [v \in View |-> NoPicture]
  /\ bound = [v \in View |-> NoPicture]
  /\ overtaken = [v \in View |-> FALSE]
  /\ lost = [v \in View |-> FALSE]
  /\ calm = [v \in View |-> FALSE]
  /\ web = [u \in Url |-> 0]
  /\ binds = 0  /\ faults = 0

\* Entries of a sequence as a set.
Entries(s) == {s[i] : i \in DOMAIN s}

\* Loads for view v whose pictures are still to come.
Coming(v) ==
  {load \in fetches \union Entries(tasks) \union {r.load : r \in Entries(results)} :
     load.view = v}

\* A row is drawn for a pet whose photo is u.
Bind(v, u) ==
  /\ binds < MaxBinds
  /\ binds' = binds + 1
  /\ bound' = [bound EXCEPT ![v] = u]
  /\ lost' = [lost EXCEPT ![v] = FALSE]
  /\ calm' = [calm EXCEPT ![v] = faults = MaxFaults]

Load(v, u) == [view |-> v, url |-> u, n |-> binds + 1]

\* An empty URL clears the view at once and calls nothing off.
BindNone(v) ==
  /\ Bind(v, NoPicture)
  /\ shown' = [shown EXCEPT ![v] = NoPicture]
  /\ overtaken' = [overtaken EXCEPT ![v] = Coming(v) # {}]
  /\ UNCHANGED <<app, memory, file, fetches, tasks, results, web, faults>>

----------------------------------------------------------------------------
(* iOS *)

OlderComing(v, u) ==
  overtaken' = [overtaken EXCEPT ![v] = \E load \in Coming(v) : load.url # u]

\* Memory, then disk, then the web.
Download(v, u) ==
  IF u \in memory \/ file[u] = "whole"
  THEN /\ memory' = memory \union {u}
       /\ shown' = [shown EXCEPT ![v] = u]
       /\ UNCHANGED fetches
  ELSE /\ fetches' = fetches \union {Load(v, u)}
       /\ UNCHANGED <<memory, shown>>

\* Mutant: no second download of a URL while one is under way.
BindIosCoalesced(v, u) ==
  /\ app = "ios"
  /\ Bind(v, u)
  /\ OlderComing(v, u)
  /\ IF \E load \in fetches : load.url = u
     THEN UNCHANGED <<memory, shown, fetches>>
     ELSE Download(v, u)
  /\ UNCHANGED <<app, file, tasks, results, web, faults>>

BindIos(v, u) ==
  /\ app = "ios"
  /\ Bind(v, u)
  /\ OlderComing(v, u)
  /\ Download(v, u)
  /\ UNCHANGED <<app, file, tasks, results, web, faults>>

\* The picture is kept and given to the view that asked, whatever that view
\* has been bound to since.
Fetched(load) ==
  /\ memory' = memory \union {load.url}
  /\ file' = [file EXCEPT ![load.url] = "whole"]
  /\ shown' = [shown EXCEPT ![load.view] = load.url]
  /\ UNCHANGED <<lost, faults>>

\* The completion is not called and nothing is kept.
FetchFailed(load) ==
  /\ faults < MaxFaults
  /\ faults' = faults + 1
  /\ lost' = [lost EXCEPT ![load.view] = @ \/ bound[load.view] = load.url]
  /\ UNCHANGED <<memory, file, shown>>

Fetch(v, u) ==
  \E load \in fetches :
    /\ load.view = v  /\ load.url = u
    /\ fetches' = fetches \ {load}
    /\ Fetched(load) \/ FetchFailed(load)
    /\ UNCHANGED <<app, tasks, results, bound, overtaken, calm, web, binds>>

\* The system empties the NSCache when it pleases.
Evict(u) ==
  /\ u \in memory
  /\ memory' = memory \ {u}
  /\ UNCHANGED <<app, file, fetches, tasks, results, shown, bound, overtaken,
                 lost, calm, web, binds, faults>>

----------------------------------------------------------------------------
(* Android *)

\* Earlier tasks of this view only come earlier: nothing is overtaken.
BindAndroid(v, u) ==
  /\ app = "android"
  /\ Bind(v, u)
  /\ tasks' = Append(tasks, Load(v, u))
  /\ overtaken' = [overtaken EXCEPT ![v] = FALSE]
  /\ UNCHANGED <<app, memory, file, fetches, results, shown, web, faults>>

\* The friend list and the chat start a task even for an empty URL.
BindEmpty(v) ==
  /\ app = "android"
  /\ Bind(v, NoPicture)
  /\ tasks' = Append(tasks, Load(v, NoPicture))
  /\ overtaken' = [overtaken EXCEPT ![v] = FALSE]
  /\ UNCHANGED <<app, memory, file, fetches, results, shown, web, faults>>

\* doInBackground without a file: the picture is saved and shown; after a
\* failure the file has been created all the same, and stays empty.
FromWeb(u, picture) ==
  /\ web' = [web EXCEPT ![u] = @ + 1]
  /\ \/ /\ picture = u
        /\ file' = [file EXCEPT ![u] = "whole"]
        /\ UNCHANGED faults
     \/ /\ faults < MaxFaults
        /\ faults' = faults + 1
        /\ picture = Blank
        /\ file' = [file EXCEPT ![u] = "empty"]

\* doInBackground with a file: what it holds, or nothing.  The file of an empty
\* URL is the directory of the cache, and there is nothing on the web either.
FromFile(u, picture) ==
  /\ picture = IF u # NoPicture /\ file[u] = "whole" THEN u ELSE Blank
  /\ UNCHANGED <<file, web, faults>>

Ran(i, picture) ==
  /\ results' = Append(results, [load |-> tasks[i], picture |-> picture])
  /\ tasks' = [k \in 1 .. Len(tasks) - 1 |-> IF k < i THEN tasks[k] ELSE tasks[k + 1]]
  /\ UNCHANGED <<app, memory, fetches, shown, bound, overtaken, lost, calm, binds>>

RunOf(i) ==
  \E picture \in Url \union {Blank} :
    /\ IF tasks[i].url # NoPicture /\ file[tasks[i].url] = "none"
       THEN FromWeb(tasks[i].url, picture)
       ELSE FromFile(tasks[i].url, picture)
    /\ Ran(i, picture)

\* Mutant: the tasks run on a pool of threads.
RunInPool == \E i \in DOMAIN tasks : RunOf(i)

\* Mutant: the file is written and never looked for.
RunUncached ==
  \E picture \in Url \union {Blank} :
    /\ tasks # <<>> /\ Head(tasks).url # NoPicture
    /\ FromWeb(Head(tasks).url, picture)
    /\ Ran(1, picture)

\* The task at the head of the serial executor.
RunTask == tasks # <<>> /\ RunOf(1)

\* onPostExecute
Post ==
  /\ results # <<>>
  /\ results' = Tail(results)
  /\ LET r == Head(results)
     IN  /\ shown' = [shown EXCEPT ![r.load.view] = r.picture]
         /\ lost' = [lost EXCEPT ![r.load.view] =
                       @ \/ (r.picture = Blank /\ bound[r.load.view] = r.load.url)]
  /\ UNCHANGED <<app, memory, file, fetches, tasks, bound, overtaken, calm,
                 web, binds, faults>>

----------------------------------------------------------------------------

\* What a kill may leave of the files: iOS writes atomically, Android may have
\* created the file of the task that runs.
FilesKilled ==
  IF tasks # <<>> /\ Head(tasks).url # NoPicture /\ file[Head(tasks).url] = "none"
  THEN {file, [file EXCEPT ![Head(tasks).url] = "empty"]}
  ELSE {file}

\* The process ends; the app comes back with new views.
Kill ==
  /\ faults < MaxFaults
  /\ faults' = faults + 1
  /\ file' \in FilesKilled
  /\ memory' = {}  /\ fetches' = {}  /\ tasks' = <<>>  /\ results' = <<>>
  /\ shown' = [v \in View |-> NoPicture]
  /\ bound' = [v \in View |-> NoPicture]
  /\ overtaken' = [v \in View |-> FALSE]
  /\ lost' = [v \in View |-> FALSE]
  /\ calm' = [v \in View |-> FALSE]
  /\ UNCHANGED <<app, web, binds>>

Next ==
  \/ \E v \in View : BindNone(v) \/ BindEmpty(v)
  \/ \E v \in View, u \in Url : BindIos(v, u) \/ BindAndroid(v, u) \/ Fetch(v, u)
  \/ \E u \in Url : Evict(u)
  \/ RunTask
  \/ Post
  \/ Kill

Spec == Init /\ [][Next]_vars

\* A download ends, with a picture or a timeout; threads and the main loop run.
Fairness ==
  /\ \A v \in View, u \in Url : WF_vars(Fetch(v, u))
  /\ WF_vars(RunTask)
  /\ WF_vars(Post)

FairSpec == Spec /\ Fairness

----------------------------------------------------------------------------
(* Properties *)

\* A row that is used again (onBindViewHolder, cellForRowAt) ends up with the
\* picture of its last pet.  Two things excuse it: that load failed (the task
\* of an empty URL always does), or an older one was still under way, which on
\* Android matters only when the view was cleared for a pet without a photo:
\* the tasks run in order.
ViewsSettle ==
  \A v \in View :
    Coming(v) = {} => shown[v] = bound[v] \/ lost[v] \/ overtaken[v]

\* However many rows show a photo, and whenever they were bound, Android ends
\* at most one download of it, kills included: the file is looked for when the
\* task runs, not when the row is bound.  (A download that failed counts: its
\* empty file is found, too.)
LoadedOnce == \A u \in Url : web[u] <= 1

\* A photo that is asked for again after the failures are over comes (on iOS a
\* failure leaves nothing behind), to every row that asks.  On Android it does
\* not when an earlier failure left the empty file.
PictureComes ==
  \A v \in View, u \in Url :
    (bound[v] = u /\ calm[v] /\ ~overtaken[v] /\ file[u] # "empty")
      ~> (shown[v] = u \/ bound[v] # u)
=============================================================================
