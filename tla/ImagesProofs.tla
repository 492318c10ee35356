---------------------------- MODULE ImagesProofs ----------------------------
(***************************************************************************)
(* Two results for any views and URLs, any number of bindings, failures    *)
(* and kills.                                                              *)
(*                                                                         *)
(* DownloadedOnce: LoadedOnce is not inductive: that a task finds no file  *)
(* must mean that nothing was downloaded yet.  Every step that downloads   *)
(* leaves a file, a failed one an empty file, and no step takes one away.  *)
(*                                                                         *)
(* RowsSettle: ViewsSettle speaks of the end, when nothing is coming.  The *)
(* invariant says what is coming: on iOS only pictures the row is bound    *)
(* to, on Android a last one that is.                                      *)
(***************************************************************************)
EXTENDS Images, TLAPS

NoFileNoDownload ==
  /\ file \in [Url -> {"none", "whole", "empty"}]
  /\ web \in [Url -> Nat]
  /\ \A u \in Url : web[u] <= 1 /\ (file[u] = "none" => web[u] = 0)

\* At the start no photo has a file or a download.
LEMMA InitNoFile == Init => NoFileNoDownload
  BY DEF Init, NoFileNoDownload

\* A task without a file (doInBackground) makes the first download and a file.
LEMMA RunTaskNoFile == NoFileNoDownload /\ RunTask => NoFileNoDownload'
<1> SUFFICES ASSUME NoFileNoDownload, RunTask PROVE NoFileNoDownload'
  OBVIOUS
<1> DEFINE url == tasks[1].url
<1>1. PICK picture \in Url \union {Blank} :
        IF url # NoPicture /\ file[url] = "none"
        THEN FromWeb(url, picture) ELSE FromFile(url, picture)
  BY DEF RunTask, RunOf
<1>2. CASE url # NoPicture /\ file[url] = "none"
  <2>1. /\ web' = [web EXCEPT ![url] = @ + 1]
        /\ \/ file' = [file EXCEPT ![url] = "whole"]
           \/ file' = [file EXCEPT ![url] = "empty"]
    BY <1>1, <1>2 DEF FromWeb
  <2> HIDE DEF url
  <2>2. CASE url \in Url
    BY <1>2, <2>1, <2>2 DEF NoFileNoDownload
  <2>3. CASE url \notin Url
    BY <2>1, <2>3 DEF NoFileNoDownload
  <2> QED
    BY <2>2, <2>3
<1>3. CASE ~(url # NoPicture /\ file[url] = "none")
  <2>1. UNCHANGED <<file, web>>
    BY <1>1, <1>3 DEF FromFile
  <2> QED
    BY <2>1 DEF NoFileNoDownload
<1> QED
  BY <1>2, <1>3

\* A picture iOS stores is a file (writeToDisk); a failed download leaves none.
LEMMA FetchNoFile ==
  ASSUME NEW v \in View, NEW u \in Url, NoFileNoDownload, Fetch(v, u)
  PROVE  NoFileNoDownload'
<1>1. PICK load \in fetches : /\ load.url = u
                              /\ Fetched(load) \/ FetchFailed(load)
                              /\ UNCHANGED web
  BY DEF Fetch
<1>2. file' = [file EXCEPT ![u] = "whole"] \/ UNCHANGED file
  BY <1>1 DEF Fetched, FetchFailed
<1> QED
  BY <1>1, <1>2 DEF NoFileNoDownload

\* A kill creates at most an empty file.
LEMMA KillNoFile == NoFileNoDownload /\ Kill => NoFileNoDownload'
<1> SUFFICES ASSUME NoFileNoDownload, Kill PROVE NoFileNoDownload'
  OBVIOUS
<1> DEFINE url == Head(tasks).url
<1>1. /\ UNCHANGED web
      /\ file' = file \/ file' = [file EXCEPT ![url] = "empty"]
  BY DEF Kill, FilesKilled
<1> HIDE DEF url
<1>2. CASE url \in Url
  BY <1>1, <1>2 DEF NoFileNoDownload
<1>3. CASE url \notin Url
  BY <1>1, <1>3 DEF NoFileNoDownload
<1> QED
  BY <1>2, <1>3

\* All other steps leave the files and the downloads as they are.
LEMMA NextNoFile == NoFileNoDownload /\ [Next]_vars => NoFileNoDownload'
<1> SUFFICES ASSUME NoFileNoDownload, [Next]_vars PROVE NoFileNoDownload'
  OBVIOUS
<1>0. ASSUME UNCHANGED <<file, web>> PROVE NoFileNoDownload'
  BY <1>0 DEF NoFileNoDownload
<1>1. CASE \E v \in View : BindNone(v) \/ BindEmpty(v)
  BY <1>0, <1>1 DEF BindNone, BindEmpty
<1>2. CASE \E v \in View, u \in Url : BindIos(v, u) \/ BindAndroid(v, u)
  BY <1>0, <1>2 DEF BindIos, BindAndroid
<1>3. CASE \E v \in View, u \in Url : Fetch(v, u)
  BY <1>3, FetchNoFile
<1>4. CASE \E u \in Url : Evict(u)
  BY <1>0, <1>4 DEF Evict
<1>5. CASE RunTask
  BY <1>5, RunTaskNoFile
<1>6. CASE Post
  BY <1>0, <1>6 DEF Post
<1>7. CASE Kill
  BY <1>7, KillNoFile
<1>8. CASE UNCHANGED vars
  BY <1>0, <1>8 DEF vars
<1> QED
  BY <1>1, <1>2, <1>3, <1>4, <1>5, <1>6, <1>7, <1>8 DEF Next

\* However many rows show a photo, DownloadImageTask ends at most one download
\* of it, because it looks for the file when it runs and always leaves one.
THEOREM DownloadedOnce == Spec => []LoadedOnce
<1>1. NoFileNoDownload => LoadedOnce
  BY DEF NoFileNoDownload, LoadedOnce
<1> QED
  BY <1>1, InitNoFile, NextNoFile, PTL DEF Spec

----------------------------------------------------------------------------
(* Rows settle *)

SomeUrl == Url \union {NoPicture}
Row == [view : View, url : SomeUrl, n : Nat]
Result == [load : Row, picture : Url \union {NoPicture, Blank}]

ImagesTypeOK ==
  /\ fetches \subseteq Row
  /\ tasks \in Seq(Row)
  /\ results \in Seq(Result)
  /\ binds \in Nat
  /\ bound \in [View -> SomeUrl]
  /\ shown \in [View -> Url \union {NoPicture, Blank}]
  /\ overtaken \in [View -> BOOLEAN]
  /\ lost \in [View -> BOOLEAN]

\* One phone runs one app.
OneApp ==
  /\ app = "ios" => tasks = <<>> /\ results = <<>>
  /\ app = "android" => fetches = {}
  /\ app \in Apps

TaskOf(v) == \E i \in DOMAIN tasks : tasks[i].view = v
ResultOf(v) == \E i \in DOMAIN results : results[i].load.view = v
FetchOf(v) == \E load \in fetches : load.view = v

\* Of its tasks, or of its results when it has no task, the last is for the
\* picture the row is bound to.
LastTask(v) ==
  \A i \in DOMAIN tasks :
    (tasks[i].view = v /\ \A j \in DOMAIN tasks : j > i => tasks[j].view # v)
      => tasks[i].url = bound[v]
LastResult(v) ==
  ~TaskOf(v) =>
    \A i \in DOMAIN results :
      (results[i].load.view = v
         /\ \A j \in DOMAIN results : j > i => results[j].load.view # v)
        => results[i].load.url = bound[v]

\* A result is the picture of its task, or none.
PictureOfLoad ==
  \A i \in DOMAIN results : results[i].picture \in {results[i].load.url, Blank}

Settling(v) ==
  \/ overtaken[v]
  \/ /\ \A load \in fetches : load.view = v => load.url = bound[v]
     /\ LastTask(v)
     /\ LastResult(v)
     /\ (~FetchOf(v) /\ ~TaskOf(v) /\ ~ResultOf(v)) => shown[v] = bound[v] \/ lost[v]

RowsInv ==
  /\ ImagesTypeOK
  /\ OneApp
  /\ PictureOfLoad
  /\ \A v \in View : Settling(v)

\* Nothing is coming for a row without a download, task or result of its own.
LEMMA ComingIs ==
  ASSUME NEW v \in View
  PROVE  Coming(v) = {} <=> ~FetchOf(v) /\ ~TaskOf(v) /\ ~ResultOf(v)
  BY DEF Coming, Entries, FetchOf, TaskOf, ResultOf

\* A step that changes nothing of a row and of what is coming keeps it settling.
LEMMA Untouched ==
  ASSUME NEW w \in View, Settling(w), UNCHANGED <<fetches, tasks, results>>,
         bound'[w] = bound[w], shown'[w] = shown[w],
         overtaken'[w] = overtaken[w], lost'[w] = lost[w]
  PROVE  Settling(w)'
  BY DEF Settling, LastTask, LastResult, FetchOf, TaskOf, ResultOf

\* New rows show nothing and expect nothing.
LEMMA InitRows == ImageBounds /\ Init => RowsInv
<1> SUFFICES ASSUME ImageBounds, Init PROVE RowsInv
  OBVIOUS
<1>1. ImagesTypeOK
  BY DEF Init, ImagesTypeOK, SomeUrl
<1>2. OneApp /\ PictureOfLoad
  BY DEF Init, OneApp, PictureOfLoad
<1>3. \A v \in View : Settling(v)
  BY DEF Init, Settling, LastTask, LastResult
<1> QED
  BY <1>1, <1>2, <1>3 DEF RowsInv

\* A cleared row (load of an empty URL) is settled unless a picture is coming.
LEMMA BindNoneRows == ASSUME ImageBounds, RowsInv, NEW v \in View, BindNone(v) PROVE RowsInv'
<1> USE DEF RowsInv
<1>1. ImagesTypeOK'
  BY DEF BindNone, Bind, ImagesTypeOK, SomeUrl, ImageBounds
<1>2. OneApp' /\ PictureOfLoad'
  BY DEF BindNone, Bind, OneApp, PictureOfLoad
<1>3. ASSUME NEW w \in View PROVE Settling(w)'
  <2>1. CASE w # v
    BY <2>1, <1>3, Untouched DEF BindNone, Bind, ImagesTypeOK
  <2>2. CASE w = v /\ Coming(v) # {}
    BY <2>2 DEF BindNone, Settling, ImagesTypeOK
  <2>3. CASE w = v /\ Coming(v) = {}
    <3>1. ~FetchOf(v) /\ ~TaskOf(v) /\ ~ResultOf(v)
      BY <2>3, ComingIs
    <3>2. shown'[v] = bound'[v]
      BY DEF BindNone, Bind, ImagesTypeOK
    <3>3. UNCHANGED <<fetches, tasks, results>>
      BY DEF BindNone
    <3> QED
      BY <2>3, <3>1, <3>2, <3>3 DEF Settling, LastTask, LastResult, FetchOf, TaskOf, ResultOf
  <2> QED
    BY <2>1, <2>2, <2>3
<1> QED
  BY <1>1, <1>2, <1>3

\* On iOS a row that is bound to u expects nothing else, or is overtaken.
LEMMA BindIosRows ==
  ASSUME ImageBounds, RowsInv, NEW v \in View, NEW u \in Url, BindIos(v, u) PROVE RowsInv'
<1> USE DEF RowsInv
<1>1. ImagesTypeOK'
  BY DEF BindIos, Bind, OlderComing, Download, Load, Row, ImagesTypeOK, SomeUrl
<1>2. OneApp' /\ PictureOfLoad'
  BY DEF BindIos, Bind, OneApp, PictureOfLoad, Apps
<1>3. tasks = <<>> /\ results = <<>> /\ UNCHANGED <<tasks, results>>
  BY DEF BindIos, OneApp
<1>4. ASSUME NEW w \in View PROVE Settling(w)'
  <2>1. CASE w # v
    <3>1. /\ bound'[w] = bound[w] /\ lost'[w] = lost[w]
          /\ overtaken'[w] = overtaken[w] /\ shown'[w] = shown[w]
      BY <2>1 DEF BindIos, Bind, OlderComing, Download, ImagesTypeOK
    <3>2. \A load \in fetches' : load.view = w => load \in fetches
      BY <2>1 DEF BindIos, Download, Load
    <3>3. fetches \subseteq fetches'
      BY DEF BindIos, Download
    <3> QED
      BY <1>3, <3>1, <3>2, <3>3 DEF Settling, LastTask, LastResult, FetchOf, TaskOf, ResultOf
  <2>2. CASE w = v
    <3>1. bound'[v] = u
      BY DEF BindIos, Bind, ImagesTypeOK
    <3>2. overtaken'[v] \/ \A load \in fetches : load.view = v => load.url = u
      BY DEF BindIos, OlderComing, Coming, ImagesTypeOK
    <3>3. \/ shown'[v] = u /\ UNCHANGED fetches
          \/ fetches' = fetches \union {Load(v, u)}
      BY DEF BindIos, Download, ImagesTypeOK
    <3>4. Load(v, u).view = v /\ Load(v, u).url = u
      BY DEF Load
    <3> QED
      BY <1>3, <2>2, <3>1, <3>2, <3>3, <3>4 DEF Settling, LastTask, LastResult, FetchOf
  <2> QED
    BY <2>1, <2>2
<1> QED
  BY <1>1, <1>2, <1>4

\* A download that ends gives the row the picture it is bound to, or is lost.
LEMMA FetchRows ==
  ASSUME ImageBounds, RowsInv, NEW v \in View, NEW u \in Url, Fetch(v, u) PROVE RowsInv'
<1> USE DEF RowsInv
<1>1. PICK load \in fetches :
        /\ load.view = v  /\ load.url = u
        /\ fetches' = fetches \ {load}
        /\ Fetched(load) \/ FetchFailed(load)
        /\ UNCHANGED <<app, tasks, results, bound, overtaken, calm, web, binds>>
  BY DEF Fetch
<1>2. ImagesTypeOK'
  BY <1>1 DEF Fetched, FetchFailed, ImagesTypeOK
<1>3. OneApp' /\ PictureOfLoad'
  BY <1>1 DEF OneApp, PictureOfLoad, Apps
<1>4. tasks = <<>> /\ results = <<>> /\ tasks' = <<>> /\ results' = <<>>
  BY <1>1 DEF OneApp, Apps
<1>5. ASSUME NEW w \in View PROVE Settling(w)'
  <2>1. CASE overtaken[w]
    BY <1>1, <2>1 DEF Settling
  <2>2. CASE ~overtaken[w] /\ w # v
    <3>1. shown'[w] = shown[w] /\ lost'[w] = lost[w]
      BY <1>1, <2>2 DEF Fetched, FetchFailed, ImagesTypeOK
    <3>2. FetchOf(w)' <=> FetchOf(w)
      BY <1>1, <2>2 DEF FetchOf
    <3> QED
      BY <1>1, <1>4, <2>2, <3>1, <3>2 DEF Settling, LastTask, LastResult, TaskOf, ResultOf
  <2>3. CASE ~overtaken[w] /\ w = v
    <3>1. bound[v] = u
      BY <1>1, <2>3 DEF Settling
    <3>2. shown'[v] = u \/ lost'[v]
      BY <1>1, <3>1 DEF Fetched, FetchFailed, ImagesTypeOK
    <3> QED
      BY <1>1, <1>4, <2>3, <3>1, <3>2 DEF Settling, LastTask, LastResult
  <2> QED
    BY <2>1, <2>2, <2>3
<1> QED
  BY <1>2, <1>3, <1>5

\* On Android the task of a row that is bound is the last one.
LEMMA TaskRows ==
  ASSUME ImageBounds, RowsInv, NEW v \in View, NEW u \in SomeUrl, Bind(v, u),
         app = "android", tasks' = Append(tasks, Load(v, u)),
         overtaken' = [overtaken EXCEPT ![v] = FALSE],
         UNCHANGED <<app, fetches, results, shown>>
  PROVE  RowsInv'
<1> USE DEF RowsInv
<1> DEFINE new == Load(v, u)
<1>1. new \in Row /\ new.view = v /\ new.url = u
  BY DEF Load, Row, ImagesTypeOK, Bind
<1>2. /\ DOMAIN tasks' = 1 .. Len(tasks) + 1
      /\ DOMAIN tasks = 1 .. Len(tasks) /\ Len(tasks) \in Nat
      /\ \A i \in DOMAIN tasks : tasks'[i] = tasks[i]
      /\ tasks'[Len(tasks) + 1] = new
  BY <1>1 DEF ImagesTypeOK
<1>3. ImagesTypeOK'
  BY <1>1 DEF Bind, ImagesTypeOK, SomeUrl
<1>4. OneApp' /\ PictureOfLoad'
  BY DEF OneApp, PictureOfLoad, Apps
<1>5. fetches = {}
  BY DEF OneApp
<1> HIDE DEF new
<1>6. ASSUME NEW w \in View PROVE Settling(w)'
  <2>1. CASE w # v
    <3>1. /\ bound'[w] = bound[w] /\ lost'[w] = lost[w]
          /\ overtaken'[w] = overtaken[w] /\ shown'[w] = shown[w]
      BY <2>1 DEF Bind, ImagesTypeOK
    <3>2. TaskOf(w)' <=> TaskOf(w)
      BY <1>1, <1>2, <2>1 DEF TaskOf
    <3>3. LastTask(w) => LastTask(w)'
      BY <1>1, <1>2, <2>1, <3>1 DEF LastTask
    <3>4. LastResult(w) => LastResult(w)'
      BY <3>1, <3>2 DEF LastResult
    <3>5. ResultOf(w)' <=> ResultOf(w)
      BY DEF ResultOf
    <3> QED
      BY <1>5, <3>1, <3>2, <3>3, <3>4, <3>5 DEF Settling, FetchOf
  <2>2. CASE w = v
    <3>1. bound'[v] = u
      BY DEF Bind, ImagesTypeOK
    <3>2. LastTask(v)'
      BY <1>1, <1>2, <3>1 DEF LastTask
    <3>3. TaskOf(v)'
      BY <1>1, <1>2 DEF TaskOf
    <3> QED
      BY <1>5, <2>2, <3>2, <3>3 DEF Settling, LastResult
  <2> QED
    BY <2>1, <2>2
<1> QED
  BY <1>3, <1>4, <1>6

\* The serial executor moves the first task to the end of the results.
LEMMA RunTaskRows == ASSUME ImageBounds, RowsInv, RunTask PROVE RowsInv'
<1> USE DEF RowsInv
<1> DEFINE first == tasks[1]
           rest == [k \in 1 .. Len(tasks) - 1 |-> IF k < 1 THEN tasks[k] ELSE tasks[k + 1]]
<1>1. PICK picture \in Url \union {Blank} :
        /\ IF first.url # NoPicture /\ file[first.url] = "none"
           THEN FromWeb(first.url, picture) ELSE FromFile(first.url, picture)
        /\ results' = Append(results, [load |-> first, picture |-> picture])
        /\ tasks' = rest
        /\ UNCHANGED <<app, memory, fetches, shown, bound, overtaken, lost, calm, binds>>
  BY DEF RunTask, RunOf, Ran
<1> DEFINE new == [load |-> first, picture |-> picture]
<1>2. tasks \in Seq(Row) /\ tasks # <<>> /\ Len(tasks) \in Nat \ {0}
      /\ first \in Row /\ 1 \in DOMAIN tasks
  BY DEF RunTask, ImagesTypeOK
<1>3. /\ DOMAIN tasks' = 1 .. Len(tasks) - 1 /\ DOMAIN tasks = 1 .. Len(tasks)
      /\ \A i \in DOMAIN tasks' : tasks'[i] = tasks[i + 1] /\ i + 1 \in DOMAIN tasks
  BY <1>1, <1>2
<1>4. picture \in {first.url, Blank} /\ new \in Result
  BY <1>1, <1>2 DEF FromWeb, FromFile, Result
<1>5. /\ DOMAIN results' = 1 .. Len(results) + 1
      /\ DOMAIN results = 1 .. Len(results) /\ Len(results) \in Nat
      /\ \A i \in DOMAIN results : results'[i] = results[i]
      /\ results'[Len(results) + 1] = new
  BY <1>1, <1>4 DEF ImagesTypeOK
<1>6. ImagesTypeOK'
  <2>1. rest \in Seq(Row)
    BY <1>2
  <2>2. results' \in Seq(Result)
    BY <1>1, <1>4 DEF ImagesTypeOK
  <2> QED
    BY <1>1, <2>1, <2>2 DEF ImagesTypeOK
<1>7. OneApp'
  <2>1. app = "android" /\ fetches = {}
    BY <1>2 DEF OneApp, Apps
  <2> QED
    BY <1>1, <2>1 DEF OneApp, Apps
<1>8. new.load = first /\ new.picture = picture
  OBVIOUS
<1> HIDE DEF new, first
<1>9. PictureOfLoad'
  BY <1>4, <1>5, <1>8 DEF PictureOfLoad
<1>10. ASSUME NEW w \in View PROVE Settling(w)'
  <2>1. CASE overtaken[w]
    BY <1>1, <2>1 DEF Settling
  <2>2. CASE ~overtaken[w]
    <3>1. /\ \A load \in fetches : load.view = w => load.url = bound[w]
          /\ LastTask(w) /\ LastResult(w)
          /\ (~FetchOf(w) /\ ~TaskOf(w) /\ ~ResultOf(w)) => shown[w] = bound[w] \/ lost[w]
      BY <2>2 DEF Settling
    <3>2. bound'[w] = bound[w]
      BY <1>1
    <3>3. LastTask(w)'
      <4> SUFFICES ASSUME NEW i \in DOMAIN tasks', tasks'[i].view = w,
                          \A j \in DOMAIN tasks' : j > i => tasks'[j].view # w
                   PROVE  tasks'[i].url = bound[w]
        BY <3>2 DEF LastTask
      <4>1. i + 1 \in DOMAIN tasks /\ tasks[i + 1] = tasks'[i]
        BY <1>3
      <4>2. ASSUME NEW j \in DOMAIN tasks, j > i + 1 PROVE tasks[j].view # w
        <5>1. j - 1 \in DOMAIN tasks' /\ j - 1 > i /\ tasks'[j - 1] = tasks[j]
          BY <1>2, <1>3, <4>2
        <5> QED
          BY <5>1
      <4> QED
        BY <3>1, <4>1, <4>2 DEF LastTask
    <3>4. TaskOf(w) => TaskOf(w)' \/ first.view = w
      <4> SUFFICES ASSUME NEW i \in DOMAIN tasks, tasks[i].view = w, i # 1 PROVE TaskOf(w)'
        BY DEF TaskOf, first
      <4>1. i - 1 \in DOMAIN tasks' /\ tasks'[i - 1] = tasks[i]
        BY <1>2, <1>3
      <4> QED
        BY <4>1 DEF TaskOf
    <3>5. LastResult(w)'
      <4> SUFFICES ASSUME ~TaskOf(w)', NEW i \in DOMAIN results', results'[i].load.view = w,
                          \A j \in DOMAIN results' : j > i => results'[j].load.view # w
                   PROVE  results'[i].load.url = bound[w]
        BY <3>2 DEF LastResult
      <4>1. CASE first.view = w
        <5>1. i = Len(results) + 1
          BY <1>5, <1>8, <4>1
        <5>2. \A j \in DOMAIN tasks : j > 1 => tasks[j].view # w
          <6> SUFFICES ASSUME NEW j \in DOMAIN tasks, j > 1 PROVE tasks[j].view # w
            OBVIOUS
          <6>1. j - 1 \in DOMAIN tasks' /\ tasks'[j - 1] = tasks[j]
            BY <1>2, <1>3
          <6> QED
            BY <6>1 DEF TaskOf
        <5>3. first.url = bound[w]
          BY <1>2, <3>1, <4>1, <5>2 DEF LastTask, first
        <5> QED
          BY <1>5, <1>8, <5>1, <5>3
      <4>2. CASE first.view # w
        <5>1. i \in DOMAIN results /\ results[i].load.view = w
          BY <1>5, <1>8, <4>2
        <5>2. \A j \in DOMAIN results : j > i => results[j].load.view # w
          BY <1>5
        <5>3. ~TaskOf(w)
          BY <3>4, <4>2
        <5> QED
          BY <1>5, <3>1, <5>1, <5>2, <5>3 DEF LastResult
      <4> QED
        BY <4>1, <4>2
    <3>6. (~TaskOf(w)' /\ ~ResultOf(w)') => ~TaskOf(w) /\ ~ResultOf(w)
      <4>1. first.view = w => ResultOf(w)'
        BY <1>5, <1>8 DEF ResultOf
      <4>2. ResultOf(w) => ResultOf(w)'
        BY <1>5 DEF ResultOf
      <4> QED
        BY <3>4, <4>1, <4>2
    <3>7. (FetchOf(w)' <=> FetchOf(w)) /\ shown' = shown /\ lost' = lost /\ fetches' = fetches
      BY <1>1 DEF FetchOf
    <3> QED
      BY <3>1, <3>2, <3>3, <3>5, <3>6, <3>7 DEF Settling
  <2> QED
    BY <2>1, <2>2
<1> QED
  BY <1>6, <1>7, <1>9, <1>10

\* onPostExecute of the last task of a row shows what the row is bound to.
LEMMA PostRows == ASSUME ImageBounds, RowsInv, Post PROVE RowsInv'
<1> USE DEF RowsInv
<1> DEFINE r == Head(results)
<1>1. /\ results \in Seq(Result) /\ results # <<>> /\ Len(results) \in Nat \ {0}
      /\ r = results[1] /\ r \in Result /\ 1 \in DOMAIN results
  BY DEF Post, ImagesTypeOK
<1>2. /\ DOMAIN results = 1 .. Len(results) /\ DOMAIN results' = 1 .. Len(results) - 1
      /\ \A i \in DOMAIN results' : results'[i] = results[i + 1] /\ i + 1 \in DOMAIN results
  BY <1>1 DEF Post
<1>3. /\ r.load \in Row /\ r.load.view \in View
      /\ r.picture \in Url \union {NoPicture, Blank}
  BY <1>1 DEF Result, Row
<1>4. /\ shown' = [shown EXCEPT ![r.load.view] = r.picture]
      /\ lost' = [lost EXCEPT ![r.load.view] =
                    @ \/ (r.picture = Blank /\ bound[r.load.view] = r.load.url)]
      /\ UNCHANGED <<app, memory, file, fetches, tasks, bound, overtaken, calm,
                     web, binds, faults>>
  BY DEF Post
<1>5. r.picture \in {r.load.url, Blank}
  BY <1>1 DEF PictureOfLoad
<1>6. ImagesTypeOK'
  <2>1. results' \in Seq(Result)
    BY <1>1 DEF Post
  <2>2. shown' \in [View -> Url \union {NoPicture, Blank}]
    BY <1>3, <1>4 DEF ImagesTypeOK
  <2>3. lost' \in [View -> BOOLEAN]
    BY <1>3, <1>4 DEF ImagesTypeOK
  <2> QED
    BY <1>4, <2>1, <2>2, <2>3 DEF ImagesTypeOK
<1>7. OneApp'
  BY <1>1, <1>4 DEF OneApp, Apps
<1>8. PictureOfLoad'
  BY <1>2 DEF PictureOfLoad
<1> HIDE DEF r
<1>9. ASSUME NEW w \in View PROVE Settling(w)'
  <2>1. CASE overtaken[w]
    BY <1>4, <2>1 DEF Settling
  <2>2. CASE ~overtaken[w]
    <3>1. /\ \A load \in fetches : load.view = w => load.url = bound[w]
          /\ LastTask(w) /\ LastResult(w)
          /\ (~FetchOf(w) /\ ~TaskOf(w) /\ ~ResultOf(w)) => shown[w] = bound[w] \/ lost[w]
      BY <2>2 DEF Settling
    <3>2. (TaskOf(w)' <=> TaskOf(w)) /\ (FetchOf(w)' <=> FetchOf(w)) /\ LastTask(w)'
      BY <1>4, <3>1 DEF TaskOf, FetchOf, LastTask
    <3>3. LastResult(w)'
      <4> SUFFICES ASSUME ~TaskOf(w), NEW i \in DOMAIN results', results'[i].load.view = w,
                          \A j \in DOMAIN results' : j > i => results'[j].load.view # w
                   PROVE  results'[i].load.url = bound[w]
        BY <1>4, <3>2 DEF LastResult
      <4>1. i + 1 \in DOMAIN results /\ results[i + 1] = results'[i]
        BY <1>2
      <4>2. ASSUME NEW j \in DOMAIN results, j > i + 1 PROVE results[j].load.view # w
        <5>1. j - 1 \in DOMAIN results' /\ j - 1 > i /\ results'[j - 1] = results[j]
          BY <1>1, <1>2, <4>2
        <5> QED
          BY <5>1
      <4> QED
        BY <3>1, <4>1, <4>2 DEF LastResult
    <3>4. ASSUME ~FetchOf(w), ~TaskOf(w), ~ResultOf(w)' PROVE shown'[w] = bound[w] \/ lost'[w]
      <4>1. \A j \in DOMAIN results : j > 1 => results[j].load.view # w
        <5> SUFFICES ASSUME NEW j \in DOMAIN results, j > 1 PROVE results[j].load.view # w
          OBVIOUS
        <5>1. j - 1 \in DOMAIN results' /\ results'[j - 1] = results[j]
          BY <1>1, <1>2
        <5> QED
          BY <3>4, <5>1 DEF ResultOf
      <4>2. CASE r.load.view = w
        <5>1. r.load.url = bound[w]
          BY <1>1, <3>1, <3>4, <4>1, <4>2 DEF LastResult
        <5> QED
          BY <1>4, <1>5, <4>2, <5>1 DEF ImagesTypeOK
      <4>3. CASE r.load.view # w
        <5>1. ~ResultOf(w)
          BY <1>1, <1>2, <4>1, <4>3 DEF ResultOf
        <5>2. shown'[w] = shown[w] /\ lost'[w] = lost[w]
          BY <1>4, <4>3 DEF ImagesTypeOK
        <5> QED
          BY <3>1, <3>4, <5>1, <5>2
      <4> QED
        BY <4>2, <4>3
    <3> QED
      BY <1>4, <3>1, <3>2, <3>3, <3>4 DEF Settling
  <2> QED
    BY <2>1, <2>2
<1> QED
  BY <1>6, <1>7, <1>8, <1>9

\* After a kill the views are new and nothing is coming.
LEMMA KillRows == ASSUME ImageBounds, RowsInv, Kill PROVE RowsInv'
<1> USE DEF RowsInv
<1>1. ImagesTypeOK'
  BY DEF Kill, ImagesTypeOK, SomeUrl
<1>2. OneApp' /\ PictureOfLoad'
  BY DEF Kill, OneApp, PictureOfLoad, Apps
<1>3. \A w \in View : Settling(w)'
  BY DEF Kill, Settling, LastTask, LastResult
<1> QED
  BY <1>1, <1>2, <1>3

\* Neither the NSCache nor a step elsewhere touches a row.
LEMMA IdleRows ==
  ASSUME RowsInv, UNCHANGED <<app, fetches, tasks, results, shown, bound, overtaken, lost, binds>>
  PROVE  RowsInv'
<1> USE DEF RowsInv
<1>1. ImagesTypeOK' /\ OneApp' /\ PictureOfLoad'
  BY DEF ImagesTypeOK, OneApp, PictureOfLoad, Apps
<1>2. ASSUME NEW w \in View PROVE Settling(w)'
  BY <1>2, Untouched
<1> QED
  BY <1>1, <1>2

\* Every step of the two image caches keeps the rows settling.
LEMMA NextRows == ImageBounds /\ RowsInv /\ [Next]_vars => RowsInv'
<1> SUFFICES ASSUME ImageBounds, RowsInv, [Next]_vars PROVE RowsInv'
  OBVIOUS
<1>1. ASSUME NEW v \in View, BindNone(v) PROVE RowsInv'
  BY <1>1, BindNoneRows
<1>2. ASSUME NEW v \in View, BindEmpty(v) PROVE RowsInv'
  <2>1. NoPicture \in SomeUrl
    BY DEF SomeUrl
  <2> QED
    BY <1>2, <2>1, TaskRows DEF BindEmpty
<1>3. ASSUME NEW v \in View, NEW u \in Url, BindIos(v, u) PROVE RowsInv'
  BY <1>3, BindIosRows
<1>4. ASSUME NEW v \in View, NEW u \in Url, BindAndroid(v, u) PROVE RowsInv'
  <2>1. u \in SomeUrl
    BY <1>4 DEF SomeUrl
  <2> QED
    BY <1>4, <2>1, TaskRows DEF BindAndroid
<1>5. ASSUME NEW v \in View, NEW u \in Url, Fetch(v, u) PROVE RowsInv'
  BY <1>5, FetchRows
<1>6. ASSUME NEW u \in Url, Evict(u) PROVE RowsInv'
  BY <1>6, IdleRows DEF Evict
<1>7. CASE RunTask
  BY <1>7, RunTaskRows
<1>8. CASE Post
  BY <1>8, PostRows
<1>9. CASE Kill
  BY <1>9, KillRows
<1>10. CASE UNCHANGED vars
  BY <1>10, IdleRows DEF vars
<1> QED
  BY <1>1, <1>2, <1>3, <1>4, <1>5, <1>6, <1>7, <1>8, <1>9, <1>10 DEF Next

\* A row that is used again (onBindViewHolder, cellForRowAt) ends up with the
\* picture of its last pet, for any views, pictures and failures.
THEOREM RowsSettle == Spec => []ViewsSettle
<1>1. Init => RowsInv
  BY InitRows, ImageBounds
<1>2. RowsInv /\ [Next]_vars => RowsInv'
  BY NextRows, ImageBounds
<1>3. RowsInv => ViewsSettle
  <2> SUFFICES ASSUME RowsInv, NEW v \in View, Coming(v) = {}
               PROVE  shown[v] = bound[v] \/ lost[v] \/ overtaken[v]
    BY DEF ViewsSettle
  <2> QED
    BY ComingIs DEF RowsInv, Settling
<1> QED
  BY <1>1, <1>2, <1>3, PTL DEF Spec
=============================================================================
