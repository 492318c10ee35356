--------------------------- MODULE FormulasProofs ---------------------------
(***************************************************************************)
(* For ids and vectors of every length, and whatever hours are ticked: the *)
(* name of a room is the same from both sides and no other pair's, both    *)
(* apps show the hours that either wrote, and both read the vector that    *)
(* either wrote.                                                           *)
(***************************************************************************)
EXTENDS Formulas, CommonProofs, SequenceTheorems

----------------------------------------------------------------------------
(* Inputs *)

\* What the functions may be applied to.
InputOk ==
  \/ input = Nothing
  \/ \E p \in Primes, start \in 0 .. MaxRoot :
       input = [kind |-> "prime", p |-> p, start |-> start]
  \/ \E mine \in SUBSET Hours, friend \in SUBSET Hours, myApp \in App, friendApp \in App :
       input = [kind |-> "times", mine |-> mine, friend |-> friend,
                myApp |-> myApp, friendApp |-> friendApp]
  \/ \E n \in 1 .. MaxBytes : \E iv \in [1 .. n -> Bytes] :
       input = [kind |-> "iv", iv |-> iv]
  \/ \E one \in Pairs, other \in Pairs :
       input = [kind |-> "pets", one |-> one, other |-> other]

\* The input is one the actions pick.
LEMMA InputTyped == Spec => []InputOk
<1>1. Init => InputOk
  BY DEF Init, InputOk
<1>2. InputOk /\ [Next]_input => InputOk'
  <2> SUFFICES ASSUME InputOk, [Next]_input PROVE InputOk'
    OBVIOUS
  <2>1. CASE PickPrime
    BY <2>1 DEF PickPrime, InputOk
  <2>2. CASE PickTimes
    <3>1. PICK mine \in TwoHours, friend \in OneHour, myApp \in App, friendApp \in App :
            input' = [kind |-> "times", mine |-> mine, friend |-> friend,
                      myApp |-> myApp, friendApp |-> friendApp]
      BY <2>2 DEF PickTimes
    <3>2. mine \in SUBSET Hours /\ friend \in SUBSET Hours
      BY DEF TwoHours, OneHour
    <3> QED BY <3>1, <3>2 DEF InputOk
  <2>3. CASE PickIv
    <3>1. PICK iv \in UNION {[1 .. n -> Bytes] : n \in 1 .. MaxBytes} :
            input' = [kind |-> "iv", iv |-> iv]
      BY <2>3 DEF PickIv
    <3>2. \E n \in 1 .. MaxBytes : iv \in [1 .. n -> Bytes]
      OBVIOUS
    <3> QED BY <3>1, <3>2 DEF InputOk
  <2>4. CASE PickPets
    BY <2>4 DEF PickPets, InputOk
  <2>5. CASE UNCHANGED input
    BY <2>5 DEF InputOk
  <2> QED BY <2>1, <2>2, <2>3, <2>4, <2>5 DEF Next
<1> QED BY <1>1, <1>2, PTL DEF Spec

----------------------------------------------------------------------------
(* The name of a chat room *)

\* An id is a sequence of IdLength letters, and two ids differ at a letter.
LEMMA IdsAreSequences ==
  /\ \A s \in Ids : s \in Seq(Letters) /\ Len(s) = IdLength
  /\ \A s, t \in Ids : (\A i \in 1 .. IdLength : s[i] = t[i]) => s = t
  BY FormulasAssumption DEF Ids

\* The order of ids is decided by the first letter that differs.
LEMMA GreaterIsTotal ==
  ASSUME NEW s \in Ids, NEW t \in Ids, s # t
  PROVE  Greater(s, t) <=> ~ Greater(t, s)
<1> DEFINE D == {i \in 1 .. IdLength : s[i] # t[i]}
<1>1. D \in SUBSET Nat /\ D # {}
  BY IdsAreSequences, FormulasAssumption
<1>2. PICK i \in D : \A j \in D : i <= j
  BY <1>1, LeastNatural
<1>3. \A j \in 1 .. IdLength : s[j] \in Nat /\ t[j] \in Nat
  BY FormulasAssumption DEF Ids
<1>4. i \in 1 .. IdLength /\ s[i] # t[i]
  BY <1>2
<1>5. \A j \in 1 .. i - 1 : s[j] = t[j]
  <2> TAKE j \in 1 .. i - 1
  <2>1. j \in 1 .. IdLength /\ ~ (i <= j)
    BY <1>4, FormulasAssumption
  <2> QED BY <1>2, <2>1
<1>6. \A u, v \in Ids : {u, v} = {s, t} /\ u[i] < v[i] => ~ Greater(u, v)
  <2> SUFFICES ASSUME NEW u \in Ids, NEW v \in Ids, {u, v} = {s, t}, u[i] < v[i],
                      NEW k \in 1 .. IdLength, u[k] > v[k],
                      \A j \in 1 .. k - 1 : u[j] = v[j]
               PROVE  FALSE
    BY DEF Greater
  <2>1. \A j \in 1 .. i - 1 : u[j] = v[j]
    BY <1>5
  <2>2. \A j \in 1 .. IdLength : u[j] \in Nat /\ v[j] \in Nat
    BY <1>3
  <2>3. k \in Nat /\ i \in Nat /\ 1 <= i /\ 1 <= k
    BY <1>4
  <2>4. CASE k < i
    BY <2>1, <2>2, <2>3, <2>4
  <2>5. CASE i < k
    BY <1>4, <2>2, <2>3, <2>5
  <2>6. CASE k = i
    BY <2>2, <2>6
  <2> QED BY <2>3, <2>4, <2>5, <2>6
<1>7. CASE s[i] > t[i]
  <2>1. Greater(s, t)
    BY <1>4, <1>5, <1>7 DEF Greater
  <2>2. ~ Greater(t, s)
    BY <1>3, <1>4, <1>6, <1>7
  <2> QED BY <2>1, <2>2
<1>8. CASE t[i] > s[i]
  <2>1. Greater(t, s)
    BY <1>4, <1>5, <1>8 DEF Greater
  <2>2. ~ Greater(s, t)
    BY <1>3, <1>4, <1>6, <1>8
  <2> QED BY <2>1, <2>2
<1> QED BY <1>3, <1>4, <1>7, <1>8

\* What is joined without a separator can be taken apart, as the ids are of
\* one length.
LEMMA JoinIsInjective ==
  ASSUME NEW a \in Ids, NEW b \in Ids, NEW c \in Ids, NEW d \in Ids,
         a \o b = c \o d
  PROVE  a = c /\ b = d
<1>1. /\ a \in Seq(Letters) /\ b \in Seq(Letters) /\ c \in Seq(Letters) /\ d \in Seq(Letters)
      /\ Len(a) = IdLength /\ Len(b) = IdLength /\ Len(c) = IdLength /\ Len(d) = IdLength
      /\ IdLength \in Nat
  BY IdsAreSequences, FormulasAssumption
<1>2. \A i \in 1 .. IdLength + IdLength :
        /\ (a \o b)[i] = IF i <= IdLength THEN a[i] ELSE b[i - IdLength]
        /\ (c \o d)[i] = IF i <= IdLength THEN c[i] ELSE d[i - IdLength]
  BY <1>1, ConcatProperties
<1>3. \A i \in 1 .. IdLength : a[i] = c[i]
  <2> TAKE i \in 1 .. IdLength
  <2>1. i \in 1 .. IdLength + IdLength /\ i <= IdLength
    BY <1>1
  <2> QED BY <1>2, <2>1
<1>4. \A i \in 1 .. IdLength : b[i] = d[i]
  <2> TAKE i \in 1 .. IdLength
  <2>1. /\ i + IdLength \in 1 .. IdLength + IdLength
        /\ ~ (i + IdLength <= IdLength)
        /\ (i + IdLength) - IdLength = i
    BY <1>1
  <2> QED BY <1>2, <2>1
<1> QED BY <1>3, <1>4, IdsAreSequences

\* Both apps put the greater id first, whoever asks.
LEMMA RoomOfBoth ==
  ASSUME NEW a \in Ids, NEW b \in Ids, a # b
  PROVE  /\ ChatRoomId(a, b) = ChatRoomId(b, a)
         /\ CombinedId(a, b) = ChatRoomId(a, b)
         /\ CombinedId(b, a) = ChatRoomId(a, b)
         /\ ChatRoomId(a, b) \in {a \o b, b \o a}
  BY GreaterIsTotal DEF ChatRoomId, CombinedId

\* The room of two pets is the same from both sides and in both apps, and no
\* other two pets have it (generateChatRoomId, getCombinedId).
THEOREM RoomsAreDistinct == Spec => []RoomsDistinct
<1>1. InputOk => RoomsDistinct
  <2> SUFFICES ASSUME InputOk, input.kind = "pets"
               PROVE  LET a == input.one[1]  b == input.one[2]
                          c == input.other[1]  d == input.other[2]
                      IN  /\ Cardinality({ChatRoomId(a, b), ChatRoomId(b, a),
                                          CombinedId(a, b), CombinedId(b, a)}) = 1
                          /\ ChatRoomId(a, b) = CombinedId(c, d) => {a, b} = {c, d}
    BY DEF RoomsDistinct
  <2> DEFINE a == input.one[1]
             b == input.one[2]
             c == input.other[1]
             d == input.other[2]
  <2>1. input.one \in Pairs /\ input.other \in Pairs
    BY DEF InputOk, Nothing
  <2>2. a \in Ids /\ b \in Ids /\ a # b /\ c \in Ids /\ d \in Ids /\ c # d
    BY <2>1 DEF Pairs
  <2> HIDE DEF a, b, c, d
  <2>3. Cardinality({ChatRoomId(a, b), ChatRoomId(b, a),
                     CombinedId(a, b), CombinedId(b, a)}) = 1
    <3>1. {ChatRoomId(a, b), ChatRoomId(b, a), CombinedId(a, b), CombinedId(b, a)}
            = {ChatRoomId(a, b)}
      BY <2>2, RoomOfBoth
    <3> QED BY <3>1, FS_Singleton
  <2>4. ASSUME ChatRoomId(a, b) = CombinedId(c, d)
        PROVE  {a, b} = {c, d}
    <3>1. ChatRoomId(a, b) \in {a \o b, b \o a} /\ ChatRoomId(a, b) \in {c \o d, d \o c}
      BY <2>2, <2>4, RoomOfBoth
    <3>2. /\ a \o b = c \o d => a = c /\ b = d
          /\ a \o b = d \o c => a = d /\ b = c
          /\ b \o a = c \o d => b = c /\ a = d
          /\ b \o a = d \o c => b = d /\ a = c
      BY <2>2, JoinIsInjective, Zenon
    <3>3. \/ a \o b = c \o d \/ a \o b = d \o c
          \/ b \o a = c \o d \/ b \o a = d \o c
      BY <3>1
    <3>4. (a = c /\ b = d) \/ (a = d /\ b = c)
      BY <3>2, <3>3, Zenon
    <3> QED BY <3>4
  <2> QED BY <2>3, <2>4 DEF a, b, c, d
<1> QED BY <1>1, InputTyped, PTL

----------------------------------------------------------------------------
(* The week of free time *)

\* The place of an hour in the text, and the hour at a place.
Place(h) == ((h \div 10) - 1) * 3 + ((h % 10) - 1) + 1
HourAt(n) == 10 * (((n - 1) \div 3) + 1) + ((n - 1) % 3) + 1

\* The tag of a view tells its day and its part of the day.
LEMMA TagsOfHours ==
  ASSUME NEW h \in Hours
  PROVE  \E day \in 1 .. 7, part \in 1 .. 3 :
           h = 10 * day + part /\ h \div 10 = day /\ h % 10 = part
<1>1. PICK day \in 1 .. 7, part \in 1 .. 3 : h = 10 * day + part
  BY DEF Hours
<1>2. h \div 10 = day /\ h % 10 = part
  BY <1>1
<1> QED BY <1>1, <1>2

\* Tags and indices count the same 21 hours.
LEMMA PlacesOfHours ==
  /\ \A h \in Hours : Place(h) \in 1 .. 21 /\ HourAt(Place(h)) = h
  /\ \A n \in 1 .. 21 : HourAt(n) \in Hours /\ Place(HourAt(n)) = n
<1>1. ASSUME NEW h \in Hours
      PROVE  Place(h) \in 1 .. 21 /\ HourAt(Place(h)) = h
  <2>1. PICK day \in 1 .. 7, part \in 1 .. 3 :
          h = 10 * day + part /\ h \div 10 = day /\ h % 10 = part
    BY TagsOfHours
  <2>2. Place(h) = 3 * (day - 1) + part
    BY <2>1 DEF Place
  <2>3. Place(h) \in 1 .. 21 /\ (Place(h) - 1) \div 3 = day - 1 /\ (Place(h) - 1) % 3 = part - 1
    BY <2>2
  <2> QED BY <2>1, <2>3 DEF HourAt
<1>2. ASSUME NEW n \in 1 .. 21
      PROVE  HourAt(n) \in Hours /\ Place(HourAt(n)) = n
  <2>1. PICK day \in 1 .. 7, part \in 1 .. 3 : n = 3 * (day - 1) + part
    <3>1. (n - 1) \div 3 \in 0 .. 6 /\ (n - 1) % 3 \in 0 .. 2
          /\ n = 3 * ((n - 1) \div 3) + ((n - 1) % 3) + 1
      OBVIOUS
    <3>2. /\ ((n - 1) \div 3) + 1 \in 1 .. 7 /\ ((n - 1) % 3) + 1 \in 1 .. 3
          /\ n = 3 * (((n - 1) \div 3) + 1 - 1) + (((n - 1) % 3) + 1)
      BY <3>1
    <3> QED BY <3>2
  <2>2. (n - 1) \div 3 = day - 1 /\ (n - 1) % 3 = part - 1
    BY <2>1
  <2>3. HourAt(n) = 10 * day + part
    BY <2>2 DEF HourAt
  <2>4. HourAt(n) \in Hours
    BY <2>3 DEF Hours
  <2>5. HourAt(n) \div 10 = day /\ HourAt(n) % 10 = part
    BY <2>3
  <2> QED BY <2>1, <2>4, <2>5 DEF Place
<1> QED BY <1>1, <1>2

\* A text says of each place whether it is marked.
LEMMA TextSays ==
  ASSUME NEW places
  PROVE  /\ Text(places) \in Seq({0, 1}) /\ Len(Text(places)) = 21
         /\ \A n \in 1 .. 21 : Text(places)[n] = 1 <=> n \in places
<1>1. Text(places) \in [1 .. 21 -> {0, 1}]
  BY DEF Text
<1>2. \A n \in 1 .. 21 : Text(places)[n] = 1 <=> n \in places
  BY DEF Text
<1>3. Text(places) \in Seq({0, 1}) /\ Len(Text(places)) = 21
  <2>1. 21 \in Nat
    OBVIOUS
  <2> QED BY <1>1, <2>1, FunctionIsSequence
<1> QED BY <1>2, <1>3

\* Whichever app writes the form, an hour that is ticked is a 1 at its place.
LEMMA FormSays ==
  ASSUME NEW app \in App, NEW ticked \in SUBSET Hours
  PROVE  /\ Form(app, ticked) \in Seq({0, 1}) /\ Len(Form(app, ticked)) = 21
         /\ \A h \in Hours : Form(app, ticked)[Place(h)] = 1 <=> h \in ticked
<1>1. CASE app = "ios"
  <2> DEFINE places == {((h \div 10) - 1) * 3 + ((h % 10) - 1) + 1 : h \in ticked}
  <2>1. Form(app, ticked) = Text(places)
    BY <1>1 DEF Form, FormIos
  <2>2. places = {Place(h) : h \in ticked}
    BY DEF Place
  <2> HIDE DEF places
  <2>3. \A h \in Hours : Place(h) \in places <=> h \in ticked
    BY <2>2, PlacesOfHours
  <2>4. /\ Text(places) \in Seq({0, 1}) /\ Len(Text(places)) = 21
        /\ \A h \in Hours : Text(places)[Place(h)] = 1 <=> Place(h) \in places
    BY TextSays, PlacesOfHours
  <2> QED BY <2>1, <2>3, <2>4
<1>2. CASE app = "android"
  <2> DEFINE places == {n \in 1 .. 21 : 10 * (((n - 1) \div 3) + 1) + ((n - 1) % 3) + 1 \in ticked}
  <2>1. Form(app, ticked) = Text(places)
    BY <1>2 DEF Form, FormAndroid
  <2>2. places = {n \in 1 .. 21 : HourAt(n) \in ticked}
    BY DEF HourAt
  <2> HIDE DEF places
  <2>3. \A h \in Hours : Place(h) \in places <=> h \in ticked
    BY <2>2, PlacesOfHours
  <2>4. /\ Text(places) \in Seq({0, 1}) /\ Len(Text(places)) = 21
        /\ \A h \in Hours : Text(places)[Place(h)] = 1 <=> Place(h) \in places
    BY TextSays, PlacesOfHours
  <2> QED BY <2>1, <2>3, <2>4
<1> QED BY <1>1, <1>2 DEF App

\* Either app shows an hour when there is a 1 at its place.
LEMMA ShownSays ==
  ASSUME NEW text \in Seq({0, 1}), Len(text) = 21
  PROVE  /\ ShownIos(text) = {h \in Hours : text[Place(h)] = 1}
         /\ ShownAndroid(text) = {h \in Hours : text[Place(h)] = 1}
<1>1. ASSUME NEW week \in 0 .. 6, NEW part \in 0 .. 2
      PROVE  FreeMatrix(text)[week][part] <=> text[3 * week + part + 1] = 1
  BY DEF FreeMatrix
<1>2. ASSUME NEW h \in Hours
      PROVE  /\ IsFreeIos(FreeMatrix(text), (h \div 10) - 1, (h % 10) - 1) <=> text[Place(h)] = 1
             /\ IsFreeAndroid(FreeMatrix(text), h \div 10, h % 10) <=> text[Place(h)] = 1
  <2>1. PICK day \in 1 .. 7, part \in 1 .. 3 :
          h = 10 * day + part /\ h \div 10 = day /\ h % 10 = part
    BY TagsOfHours
  <2>2. /\ day - 1 \in 0 .. 6 /\ part - 1 \in 0 .. 2
        /\ Place(h) = 3 * (day - 1) + (part - 1) + 1
    BY <2>1 DEF Place
  <2>3. FreeMatrix(text)[day - 1][part - 1] <=> text[Place(h)] = 1
    <3>1. FreeMatrix(text)[day - 1][part - 1] <=> text[3 * (day - 1) + (part - 1) + 1] = 1
      <4> HIDE DEF FreeMatrix
      <4> DEFINE free(w, p) == FreeMatrix(text)[w][p] <=> text[3 * w + p + 1] = 1
      <4>1. \A w \in 0 .. 6, p \in 0 .. 2 : free(w, p)
        BY <1>1
      <4> HIDE DEF free
      <4>2. free(day - 1, part - 1)
        BY <2>2, <4>1
      <4> QED BY <4>2 DEF free
    <3> QED BY <2>2, <3>1
  <2> QED BY <2>1, <2>3 DEF IsFreeIos, IsFreeAndroid
<1>3. ShownIos(text) = {h \in Hours : text[Place(h)] = 1}
  BY <1>2 DEF ShownIos
<1>4. ShownAndroid(text) = {h \in Hours : text[Place(h)] = 1}
  BY <1>2 DEF ShownAndroid
<1> QED BY <1>3, <1>4

\* Both apps show what two owners ticked, the first alone or both together.
TimesShown(mine, friend, myApp, friendApp) ==
  /\ ShownIos(Form(myApp, mine)) = mine
  /\ ShownAndroid(Form(myApp, mine)) = mine
  /\ ShownIos(CommonFreeTime(Form(friendApp, friend), Form(myApp, mine)))
       = mine \intersect friend
  /\ MutualSchedule(Form(myApp, mine), Form(friendApp, friend)) = mine \intersect friend

\* What two owners ticked is shown by both apps, and so is what both ticked.
LEMMA TickedIsShown ==
  ASSUME NEW mine \in SUBSET Hours, NEW friend \in SUBSET Hours,
         NEW myApp \in App, NEW friendApp \in App
  PROVE  TimesShown(mine, friend, myApp, friendApp)
<1> DEFINE m == Form(myApp, mine)
           f == Form(friendApp, friend)
           c == CommonFreeTime(f, m)
<1>1. /\ m \in Seq({0, 1}) /\ Len(m) = 21
      /\ f \in Seq({0, 1}) /\ Len(f) = 21
      /\ \A h \in Hours : m[Place(h)] = 1 <=> h \in mine
      /\ \A h \in Hours : f[Place(h)] = 1 <=> h \in friend
  BY FormSays
<1> HIDE DEF m, f
<1>2. ShownIos(m) = mine /\ ShownAndroid(m) = mine /\ ShownAndroid(f) = friend
  BY <1>1, ShownSays
<1>3. c = [n \in 1 .. 21 |-> IF f[n] = 1 /\ m[n] = 1 THEN 1 ELSE 0]
  BY <1>1 DEF CommonFreeTime
<1> HIDE DEF c
<1>4. c \in Seq({0, 1}) /\ Len(c) = 21
  <2>1. c \in [1 .. 21 -> {0, 1}]
    BY <1>3
  <2> QED BY <2>1, FunctionIsSequence
<1>5. \A h \in Hours : c[Place(h)] = 1 <=> h \in mine \intersect friend
  <2>1. \A n \in 1 .. 21 : c[n] = 1 <=> f[n] = 1 /\ m[n] = 1
    BY <1>3
  <2> QED BY <1>1, <2>1, PlacesOfHours
<1>6. ShownIos(c) = mine \intersect friend
  BY <1>4, <1>5, ShownSays
<1>7. MutualSchedule(m, f) = mine \intersect friend
  BY <1>2 DEF MutualSchedule
<1> QED BY <1>2, <1>6, <1>7 DEF m, f, c, TimesShown

\* What an owner ticked in one app is what both apps show of it, alone or with
\* what another owner ticked, whatever each ticked (OwnerSettingVC,
\* UserInfoEditActivity, getCommonFreeTime, mutualSchedule).
THEOREM FreeTimesAgree == Spec => []FreeTimeAgrees
<1>1. InputOk => FreeTimeAgrees
  <2> SUFFICES ASSUME InputOk, input.kind = "times"
               PROVE  FreeTimeAgrees
    BY DEF FreeTimeAgrees
  <2> DEFINE mine == input.mine
             friend == input.friend
             myApp == input.myApp
             friendApp == input.friendApp
  <2>1. /\ mine \in SUBSET Hours /\ friend \in SUBSET Hours
        /\ myApp \in App /\ friendApp \in App
    BY DEF InputOk, Nothing
  <2> HIDE DEF mine, friend, myApp, friendApp
  <2>2. TimesShown(mine, friend, myApp, friendApp)
    BY <2>1, TickedIsShown
  <2> QED BY <2>2 DEF TimesShown, FreeTimeAgrees, mine, friend, myApp, friendApp
<1> QED BY <1>1, InputTyped, PTL

----------------------------------------------------------------------------
(* The text of an initialization vector *)

\* g lists the numbers of S, n in all, the least first.
Lists(g, n, S) ==
  /\ DOMAIN g = 1 .. n /\ \A i \in 1 .. n : g[i] \in Int
  /\ \A i, j \in 1 .. n : i < j => g[i] < g[j]
  /\ S = {g[i] : i \in 1 .. n}

\* There is one way to list a set.
LEMMA InOrderLists ==
  ASSUME NEW n \in Nat, NEW g, NEW S, Lists(g, n, S)
  PROVE  InOrder(S) = [k \in 1 .. n |-> g[k]]
<1> DEFINE Below(k) == {j \in S : j < k}
<1>1. /\ DOMAIN g = 1 .. n /\ \A i \in 1 .. n : g[i] \in Int
      /\ \A i, j \in 1 .. n : i < j => g[i] < g[j]
      /\ S = {g[i] : i \in 1 .. n}
  BY DEF Lists
<1>2. \A i, j \in 1 .. n : g[i] = g[j] => i = j
  <2> TAKE i, j \in 1 .. n
  <2>1. g[i] \in Int /\ g[j] \in Int /\ (i < j => g[i] < g[j]) /\ (j < i => g[j] < g[i])
    BY <1>1
  <2> QED BY <2>1
<1>3. Cardinality(S) = n
  BY <1>1, <1>2, DistinctCount
<1>4. ASSUME NEW m \in 1 .. n
      PROVE  Cardinality(Below(g[m])) = m - 1
  <2> DEFINE f == [i \in 1 .. m - 1 |-> g[i]]
  <2>1. m - 1 \in Nat /\ \A i \in 1 .. m - 1 : i \in 1 .. n
    OBVIOUS
  <2>2. DOMAIN f = 1 .. m - 1 /\ \A i, j \in 1 .. m - 1 : f[i] = f[j] => i = j
    BY <1>2, <2>1
  <2>3. Below(g[m]) = {f[i] : i \in 1 .. m - 1}
    <3>1. ASSUME NEW i \in 1 .. n, g[i] < g[m]
          PROVE  i \in 1 .. m - 1
      <4>1. ~ (m < i) /\ i # m
        BY <1>1, <3>1
      <4> QED BY <4>1
    <3>2. ASSUME NEW i \in 1 .. m - 1
          PROVE  g[i] \in S /\ g[i] < g[m]
      BY <1>1, <2>1
    <3>3. \A x \in Below(g[m]) : \E i \in 1 .. m - 1 : x = g[i]
      BY <1>1, <3>1
    <3> QED BY <3>2, <3>3
  <2> HIDE DEF f
  <2> QED BY <2>1, <2>2, <2>3, DistinctCount
<1>5. ASSUME NEW k \in 1 .. n
      PROVE  (CHOOSE x \in S : Cardinality(Below(x)) = k - 1) = g[k]
  <2>1. g[k] \in S /\ Cardinality(Below(g[k])) = k - 1
    BY <1>1, <1>4
  <2>2. ASSUME NEW x \in S, Cardinality(Below(x)) = k - 1
        PROVE  x = g[k]
    <3>1. PICK m \in 1 .. n : x = g[m]
      BY <1>1
    <3>2. Cardinality(Below(x)) = m - 1
      BY <1>4, <3>1
    <3>3. m = k
      BY <2>2, <3>2
    <3> QED BY <3>1, <3>3
  <2> HIDE DEF Below
  <2> QED BY <2>1, <2>2
<1> QED BY <1>3, <1>5 DEF InOrder

\* What a sequence has at the places of a listed set.
LEMMA AtListed ==
  ASSUME NEW n \in Nat, NEW g, NEW S, Lists(g, n, S), NEW seq
  PROVE  At(seq, S) = [k \in 1 .. n |-> seq[g[k]]]
<1> DEFINE ps == [k \in 1 .. n |-> g[k]]
<1>1. InOrder(S) = ps
  BY InOrderLists
<1>2. Len(ps) = n /\ \A k \in 1 .. n : ps[k] = g[k]
  OBVIOUS
<1> HIDE DEF ps
<1> QED BY <1>1, <1>2 DEF At

----------------------------------------------------------------------------

Mark == {"[", "]", ",", " "}
Token == {Number(n) : n \in Int} \cup {Char(c) : c \in Mark}

\* The text of a vector, place by place.
IvText(nums) ==
  [k \in 1 .. 3 * Len(nums) |->
     IF k = 1 THEN Char("[")
     ELSE IF k = 3 * Len(nums) THEN Char("]")
     ELSE IF k % 3 = 2 THEN Number(nums[(k + 1) \div 3])
     ELSE Char(IF k % 3 = 0 THEN "," ELSE " ")]

\* What is left of it without brackets and spaces.
Bare(nums) ==
  [k \in 1 .. 2 * Len(nums) - 1 |->
     IF k % 2 = 1 THEN Number(nums[(k + 1) \div 2]) ELSE Char(",")]

\* Numbers and the four characters of the text are tokens.
LEMMA Tokens ==
  /\ \A n \in Int : Number(n) \in Token
  /\ \A c \in Mark : Char(c) \in Token
  BY DEF Token

\* A sequence of tokens between brackets.
LEMMA Bracketed ==
  ASSUME NEW m \in Nat, NEW body \in Seq(Token), Len(body) = m,
         NEW text \in Seq(Token), Len(text) = m + 2,
         text[1] = Char("["), text[m + 2] = Char("]"),
         \A k \in 1 .. m : text[k + 1] = body[k]
  PROVE  <<Char("[")>> \o body \o <<Char("]")>> = text
<1> DEFINE a == Char("[")
           b == Char("]")
           S == Token
<1>0. /\ a \in S /\ b \in S /\ text[1] = a /\ text[m + 2] = b
      /\ body \in Seq(S) /\ text \in Seq(S)
  BY Tokens DEF Mark
<1> HIDE DEF a, b, S
<1> DEFINE open == <<a>>
           close == <<b>>
           first == open \o body
           all == first \o close
<1>1. /\ open \in Seq(S) /\ Len(open) = 1 /\ open[1] = a
      /\ close \in Seq(S) /\ Len(close) = 1 /\ close[1] = b
  BY <1>0
<1> HIDE DEF open, close
<1>2. /\ first \in Seq(S) /\ Len(first) = m + 1
      /\ \A i \in 1 .. m + 1 : first[i] = IF i <= 1 THEN open[i] ELSE body[i - 1]
  <2>1. /\ first \in Seq(S) /\ Len(first) = Len(open) + Len(body)
        /\ \A i \in 1 .. Len(open) + Len(body) :
             first[i] = IF i <= Len(open) THEN open[i] ELSE body[i - Len(open)]
    BY <1>0, <1>1, ConcatProperties
  <2> HIDE DEF first
  <2>2. Len(open) + Len(body) = m + 1
    BY <1>1
  <2> QED BY <1>1, <2>1, <2>2
<1> HIDE DEF first
<1>3. /\ all \in Seq(S) /\ Len(all) = m + 2
      /\ \A i \in 1 .. m + 2 : all[i] = IF i <= m + 1 THEN first[i] ELSE close[i - (m + 1)]
  <2>1. /\ all \in Seq(S) /\ Len(all) = Len(first) + Len(close)
        /\ \A i \in 1 .. Len(first) + Len(close) :
             all[i] = IF i <= Len(first) THEN first[i] ELSE close[i - Len(first)]
    BY <1>0, <1>1, <1>2, ConcatProperties
  <2> HIDE DEF all
  <2>2. Len(first) + Len(close) = m + 2
    BY <1>1, <1>2
  <2> QED BY <1>2, <2>1, <2>2
<1> HIDE DEF all
<1>4. ASSUME NEW i \in 1 .. m + 2
      PROVE  all[i] = text[i]
  <2>1. CASE i = 1
    <3>1. all[1] = first[1] /\ first[1] = open[1]
      BY <1>2, <1>3
    <3> QED BY <1>0, <1>1, <2>1, <3>1
  <2>2. CASE i = m + 2
    <3>1. all[i] = close[1]
      BY <1>3, <2>2
    <3> QED BY <1>0, <1>1, <2>2, <3>1
  <2>3. CASE i # 1 /\ i # m + 2
    <3>1. i \in 1 .. m + 1 /\ ~ (i <= 1) /\ i - 1 \in 1 .. m /\ (i - 1) + 1 = i
      BY <2>3
    <3>2. all[i] = body[i - 1]
      BY <1>2, <1>3, <3>1
    <3>3. text[i] = body[i - 1]
      BY <3>1
    <3> QED BY <3>2, <3>3
  <2> QED BY <2>1, <2>2, <2>3
<1>5. all = text
  BY <1>0, <1>3, <1>4, SeqEqual
<1> QED BY <1>5 DEF all, first, open, close, a, b

\* What is where in the text.
LEMMA IvTextSays ==
  ASSUME NEW nums \in Seq(Int), NEW n \in Nat, n = Len(nums), n >= 1
  PROVE  /\ IvText(nums) \in Seq(Token) /\ Len(IvText(nums)) = 3 * n
         /\ IvText(nums)[1] = Char("[") /\ IvText(nums)[3 * n] = Char("]")
         /\ \A i \in 1 .. n : IvText(nums)[3 * i - 1] = Number(nums[i])
         /\ \A i \in 1 .. n - 1 : /\ IvText(nums)[3 * i] = Char(",")
                                /\ IvText(nums)[3 * i + 1] = Char(" ")
<1> DEFINE text == IvText(nums)
<1>1. \A i \in 1 .. n : nums[i] \in Int
  OBVIOUS
<1>2. \A k \in 1 .. 3 * n :
        text[k] = IF k = 1 THEN Char("[")
                  ELSE IF k = 3 * n THEN Char("]")
                  ELSE IF k % 3 = 2 THEN Number(nums[(k + 1) \div 3])
                  ELSE Char(IF k % 3 = 0 THEN "," ELSE " ")
  BY DEF IvText
<1>3. text \in Seq(Token) /\ Len(text) = 3 * n
  <2>1. ASSUME NEW k \in 1 .. 3 * n, k % 3 = 2
        PROVE  (k + 1) \div 3 \in 1 .. n
    BY <2>1
  <2>2. \A k \in 1 .. 3 * n : text[k] \in Token
    <3> HIDE DEF text
    <3> QED BY <1>1, <1>2, <2>1, Tokens DEF Mark
  <2>3. text = [k \in 1 .. 3 * n |-> text[k]] /\ 3 * n \in Nat
    BY DEF IvText
  <2>4. text \in [1 .. 3 * n -> Token]
    <3> HIDE DEF text
    <3> QED BY <2>2, <2>3
  <2> HIDE DEF text
  <2> QED BY <2>3, <2>4, FunctionIsSequence
<1> HIDE DEF text
<1>4. text[1] = Char("[") /\ text[3 * n] = Char("]")
  <2>1. 1 \in 1 .. 3 * n /\ 3 * n \in 1 .. 3 * n /\ 3 * n # 1
    OBVIOUS
  <2> QED BY <1>2, <2>1
<1>5. ASSUME NEW i \in 1 .. n
      PROVE  text[3 * i - 1] = Number(nums[i])
  <2>1. /\ 3 * i - 1 \in 1 .. 3 * n /\ 3 * i - 1 # 1 /\ 3 * i - 1 # 3 * n
        /\ (3 * i - 1) % 3 = 2 /\ ((3 * i - 1) + 1) \div 3 = i
    OBVIOUS
  <2> QED BY <1>2, <2>1
<1>6. ASSUME NEW i \in 1 .. n - 1
      PROVE  text[3 * i] = Char(",") /\ text[3 * i + 1] = Char(" ")
  <2>1. 3 * i \in 1 .. 3 * n /\ 3 * i # 1 /\ 3 * i # 3 * n /\ (3 * i) % 3 = 0
    OBVIOUS
  <2>2. /\ 3 * i + 1 \in 1 .. 3 * n /\ 3 * i + 1 # 1 /\ 3 * i + 1 # 3 * n
        /\ (3 * i + 1) % 3 = 1
    OBVIOUS
  <2> DEFINE k == 3 * i
             l == 3 * i + 1
  <2>3. text[k] = Char(",")
    <3>1. k \in 1 .. 3 * n /\ k # 1 /\ k # 3 * n /\ k % 3 = 0 /\ 0 # 2
      BY <2>1
    <3> HIDE DEF k
    <3> QED BY <1>2, <3>1
  <2>4. text[l] = Char(" ")
    <3>1. l \in 1 .. 3 * n /\ l # 1 /\ l # 3 * n /\ l % 3 = 1
      BY <2>2
    <3> HIDE DEF l
    <3>2. l % 3 # 2 /\ l % 3 # 0
      BY <3>1
    <3> QED BY <1>2, <3>1, <3>2
  <2> QED BY <2>3, <2>4
<1> QED BY <1>3, <1>4, <1>5, <1>6 DEF text

\* What Swift writes.
LEMMA IvTextIosIs ==
  ASSUME NEW nums \in Seq(Int), NEW n \in Nat, n = Len(nums), n >= 1
  PROVE  IvTextIos(nums) = IvText(nums)
<1> DEFINE m == 3 * n - 2
           body == [k \in 1 .. m |->
             IF k % 3 = 1 THEN Number(nums[(k + 2) \div 3])
             ELSE Char(IF k % 3 = 2 THEN "," ELSE " ")]
           text == IvText(nums)
<1>1. \A k \in 1 .. m : body[k] = IF k % 3 = 1 THEN Number(nums[(k + 2) \div 3])
                                ELSE Char(IF k % 3 = 2 THEN "," ELSE " ")
  OBVIOUS
<1>2. \A k \in 1 .. m : text[k + 1] = body[k]
  <2> TAKE k \in 1 .. m
  <2>1. /\ k + 1 \in 1 .. 3 * n /\ k + 1 # 1 /\ k + 1 # 3 * n
        /\ (k + 1) % 3 = 2 <=> k % 3 = 1
        /\ (k + 1) % 3 = 0 <=> k % 3 = 2
        /\ (k + 1) + 1 = k + 2
    OBVIOUS
  <2>2. text[k + 1] = IF (k + 1) % 3 = 2 THEN Number(nums[((k + 1) + 1) \div 3])
                      ELSE Char(IF (k + 1) % 3 = 0 THEN "," ELSE " ")
    BY <2>1 DEF IvText
  <2> QED BY <1>1, <2>1, <2>2
<1>3. /\ text \in Seq(Token) /\ Len(text) = m + 2
      /\ text[1] = Char("[") /\ text[m + 2] = Char("]")
  <2>1. m + 2 = 3 * n
    OBVIOUS
  <2> HIDE DEF m
  <2> QED BY <2>1, IvTextSays
<1>4. body \in Seq(Token) /\ Len(body) = m
  <2>1. m \in Nat /\ \A k \in 1 .. m : k + 1 \in 1 .. m + 2
    OBVIOUS
  <2> HIDE DEF text, m
  <2>2. \A k \in 1 .. m : body[k] \in Token
    <3> HIDE DEF body
    <3> QED BY <1>2, <1>3, <2>1
  <2>3. body \in [1 .. m -> Token]
    BY <2>2
  <2> HIDE DEF body
  <2> QED BY <2>1, <2>3, FunctionIsSequence
<1>5. IvTextIos(nums) = <<Char("[")>> \o body \o <<Char("]")>>
  BY DEF IvTextIos
<1>6. m \in Nat /\ Char("[") \in Token /\ Char("]") \in Token
  <2>1. m \in Nat
    OBVIOUS
  <2>2. Char("[") \in Token /\ Char("]") \in Token
    BY Tokens DEF Mark
  <2> QED BY <2>1, <2>2
<1> HIDE DEF body, text, m
<1> QED BY <1>2, <1>3, <1>4, <1>5, <1>6, Bracketed DEF text

\* What Java writes.
LEMMA IvTextOfIs ==
  ASSUME NEW nums \in Seq(Int), NEW n \in Nat, n = Len(nums), n >= 1
  PROVE  IvTextOf(nums) = IvText(nums)
<1> DEFINE m == 3 * n - 2
           temp == [k \in 1 .. 3 * n |->
                IF k % 3 = 2 THEN Number(nums[(k + 1) \div 3])
                ELSE Char(IF k % 3 = 1 THEN " " ELSE ",")]
           body == SubSeq(temp, 2, 3 * n - 1)
           text == IvText(nums)
<1>1. \A k \in 1 .. 3 * n : temp[k] = IF k % 3 = 2 THEN Number(nums[(k + 1) \div 3])
                                   ELSE Char(IF k % 3 = 1 THEN " " ELSE ",")
  OBVIOUS
<1>2. Len(temp) = 3 * n
  OBVIOUS
<1>3. \A k \in 2 .. 3 * n - 1 : text[k] = temp[k]
  <2> TAKE k \in 2 .. 3 * n - 1
  <2>1. /\ k \in 1 .. 3 * n /\ k # 1 /\ k # 3 * n
        /\ k % 3 = 0 \/ k % 3 = 1 \/ k % 3 = 2
    OBVIOUS
  <2>2. text[k] = IF k % 3 = 2 THEN Number(nums[(k + 1) \div 3])
                  ELSE Char(IF k % 3 = 0 THEN "," ELSE " ")
    BY <2>1 DEF IvText
  <2> QED BY <1>1, <2>1, <2>2
<1> HIDE DEF temp
<1>4. /\ text \in Seq(Token) /\ Len(text) = 3 * n
      /\ text[1] = Char("[") /\ text[3 * n] = Char("]")
  BY IvTextSays
<1> HIDE DEF text
<1>5. /\ body \in Seq(Token) /\ Len(body) = m
      /\ \A k \in 1 .. m : body[k] = temp[k + 1]
  <2>1. \A k \in 2 .. 3 * n - 1 : temp[k] \in Token
    <3>1. \A k \in 1 .. Len(text) : text[k] \in Token
      BY <1>4
    <3>2. \A k \in 2 .. 3 * n - 1 : k \in 1 .. 3 * n
      OBVIOUS
    <3> QED BY <1>3, <1>4, <3>1, <3>2
  <2>2. 2 \in Int /\ 3 * n - 1 \in Int
    OBVIOUS
  <2>3. /\ body \in Seq(Token)
        /\ Len(body) = IF 2 <= 3 * n - 1 THEN (3 * n - 1) - 2 + 1 ELSE 0
        /\ \A k \in 1 .. (3 * n - 1) - 2 + 1 : body[k] = temp[2 + k - 1]
    BY <2>1, <2>2, SubSeqProperties
  <2>4. 2 <= 3 * n - 1 /\ (3 * n - 1) - 2 + 1 = m /\ \A k \in 1 .. m : 2 + k - 1 = k + 1
    OBVIOUS
  <2> HIDE DEF body, m
  <2> QED BY <2>3, <2>4
<1>6. IvTextOf(nums) = <<Char("[")>> \o body \o <<Char("]")>>
  BY <1>2 DEF IvTextOf, temp
<1>7. /\ m \in Nat /\ Char("[") \in Token /\ Char("]") \in Token /\ m + 2 = 3 * n
      /\ \A k \in 1 .. m : k + 1 \in 2 .. 3 * n - 1
  <2>1. /\ m \in Nat /\ m + 2 = 3 * n
        /\ \A k \in 1 .. m : k + 1 \in 2 .. 3 * n - 1
    OBVIOUS
  <2>2. Char("[") \in Token /\ Char("]") \in Token
    BY Tokens DEF Mark
  <2> QED BY <2>1, <2>2
<1> HIDE DEF body, m
<1>8. \A k \in 1 .. m : text[k + 1] = body[k]
  BY <1>3, <1>5, <1>7
<1>9. <<Char("[")>> \o body \o <<Char("]")>> = text
  <2>1. Len(text) = m + 2 /\ text[m + 2] = Char("]")
    BY <1>4, <1>7
  <2>2. /\ m \in Nat /\ Char("[") \in Token /\ Char("]") \in Token
        /\ text \in Seq(Token) /\ text[1] = Char("[")
        /\ body \in Seq(Token) /\ Len(body) = m
    BY <1>4, <1>5, <1>7
  <2> QED BY ONLY <1>8, <2>1, <2>2, Bracketed
<1> QED BY <1>6, <1>9 DEF text

----------------------------------------------------------------------------
(* Reading it *)

\* Where the numbers and the commas are.
Kept(k) == (3 * k + 1) \div 2

\* They are 3i - 1 and 3i, and 3i + 1 are the spaces.
LEMMA KeptPlaces ==
  ASSUME NEW n \in Nat, n >= 1
  PROVE  /\ \A k \in 1 .. 2 * n - 1 : Kept(k) \in 2 .. 3 * n - 1
         /\ \A i, j \in 1 .. 2 * n - 1 : i < j => Kept(i) < Kept(j)
         /\ \A i \in 1 .. n : 2 * i - 1 \in 1 .. 2 * n - 1 /\ Kept(2 * i - 1) = 3 * i - 1
         /\ \A i \in 1 .. n - 1 : 2 * i \in 1 .. 2 * n - 1 /\ Kept(2 * i) = 3 * i
         /\ \A k \in 1 .. 2 * n - 1 : \/ \E i \in 1 .. n : k = 2 * i - 1
                                      \/ \E i \in 1 .. n - 1 : k = 2 * i
         /\ \A k \in 2 .. 3 * n - 1 : \/ \E i \in 1 .. n : k = 3 * i - 1
                                      \/ \E i \in 1 .. n - 1 : k = 3 * i
                                      \/ \E i \in 1 .. n - 1 : k = 3 * i + 1
<1>1. ASSUME NEW k \in 1 .. 2 * n - 1
      PROVE  Kept(k) \in 2 .. 3 * n - 1
  BY DEF Kept
<1>2. ASSUME NEW i \in 1 .. 2 * n - 1, NEW j \in 1 .. 2 * n - 1, i < j
      PROVE  Kept(i) < Kept(j)
  BY <1>2 DEF Kept
<1>3. ASSUME NEW i \in 1 .. n
      PROVE  2 * i - 1 \in 1 .. 2 * n - 1 /\ Kept(2 * i - 1) = 3 * i - 1
  BY DEF Kept
<1>4. ASSUME NEW i \in 1 .. n - 1
      PROVE  2 * i \in 1 .. 2 * n - 1 /\ Kept(2 * i) = 3 * i
  BY DEF Kept
<1>5. ASSUME NEW k \in 1 .. 2 * n - 1
      PROVE  \/ \E i \in 1 .. n : k = 2 * i - 1
             \/ \E i \in 1 .. n - 1 : k = 2 * i
  <2>1. CASE k % 2 = 1
    <3>1. (k + 1) \div 2 \in 1 .. n /\ k = 2 * ((k + 1) \div 2) - 1
      BY <2>1
    <3> QED BY <3>1
  <2>2. CASE k % 2 = 0
    <3>1. k \div 2 \in 1 .. n - 1 /\ k = 2 * (k \div 2)
      BY <2>2
    <3> QED BY <3>1
  <2> QED BY <2>1, <2>2
<1>6. ASSUME NEW k \in 2 .. 3 * n - 1
      PROVE  \/ \E i \in 1 .. n : k = 3 * i - 1
             \/ \E i \in 1 .. n - 1 : k = 3 * i
             \/ \E i \in 1 .. n - 1 : k = 3 * i + 1
  <2>1. CASE k % 3 = 2
    <3>1. (k + 1) \div 3 \in 1 .. n /\ k = 3 * ((k + 1) \div 3) - 1
      BY <2>1
    <3> QED BY <3>1
  <2>2. CASE k % 3 = 0
    <3>1. k \div 3 \in 1 .. n - 1 /\ k = 3 * (k \div 3)
      BY <2>2
    <3> QED BY <3>1
  <2>3. CASE k % 3 = 1
    <3>1. k \div 3 \in 1 .. n - 1 /\ k = 3 * (k \div 3) + 1
      BY <2>3
    <3> QED BY <3>1
  <2> QED BY <2>1, <2>2, <2>3
<1> QED BY <1>1, <1>2, <1>3, <1>4, <1>5, <1>6

\* The tokens differ where the parsers look.
LEMMA TokensDiffer ==
  /\ \A x : Number(x)[1] = "number" /\ Number(x)[2] = x
  /\ \A c : Char(c)[1] = c
  /\ \A x, c : c # "number" => Number(x) # Char(c)
  /\ \A c, d : c # d => Char(c) # Char(d)
  BY DEF Number, Char

\* Bare has numbers and commas in turn.
LEMMA BareSays ==
  ASSUME NEW nums \in Seq(Int), NEW n \in Nat, n = Len(nums), n >= 1
  PROVE  /\ Bare(nums) \in Seq(Token) /\ Len(Bare(nums)) = 2 * n - 1
         /\ \A i \in 1 .. n : Bare(nums)[2 * i - 1] = Number(nums[i])
         /\ \A i \in 1 .. n - 1 : Bare(nums)[2 * i] = Char(",")
<1> DEFINE m == 2 * n - 1
           bare == Bare(nums)
<1>1. /\ bare = [k \in 1 .. m |-> bare[k]]
      /\ \A k \in 1 .. m : bare[k] = IF k % 2 = 1 THEN Number(nums[(k + 1) \div 2]) ELSE Char(",")
  BY DEF Bare
<1> HIDE DEF bare
<1>2. ASSUME NEW i \in 1 .. n
      PROVE  bare[2 * i - 1] = Number(nums[i])
  <2>1. 2 * i - 1 \in 1 .. m /\ (2 * i - 1) % 2 = 1 /\ ((2 * i - 1) + 1) \div 2 = i
    OBVIOUS
  <2> HIDE DEF m
  <2> QED BY <1>1, <2>1
<1>3. ASSUME NEW i \in 1 .. n - 1
      PROVE  bare[2 * i] = Char(",")
  <2>1. 2 * i \in 1 .. m /\ (2 * i) % 2 = 0 /\ 0 # 1
    OBVIOUS
  <2> HIDE DEF m
  <2> QED BY <1>1, <2>1
<1>4. \A k \in 1 .. m : bare[k] \in Token
  <2> TAKE k \in 1 .. m
  <2>1. CASE k % 2 = 1
    <3>1. (k + 1) \div 2 \in 1 .. n
      BY <2>1
    <3>2. nums[(k + 1) \div 2] \in Int
      BY <3>1
    <3> QED BY <1>1, <2>1, <3>2, Tokens
  <2>2. CASE k % 2 # 1
    BY <1>1, <2>2, Tokens DEF Mark
  <2> QED BY <2>1, <2>2
<1>5. bare \in [1 .. m -> Token] /\ m \in Nat
  <2>1. m \in Nat
    OBVIOUS
  <2> HIDE DEF m
  <2> QED BY <1>1, <1>4, <2>1
<1>6. bare \in Seq(Token) /\ Len(bare) = m
  <2> HIDE DEF m
  <2> QED BY <1>5, FunctionIsSequence
<1> QED BY <1>2, <1>3, <1>6 DEF bare

\* A sequence that has the numbers and the commas of the text, in their places,
\* is Bare.
LEMMA BareIs ==
  ASSUME NEW nums \in Seq(Int), NEW n \in Nat, n = Len(nums), n >= 1,
         NEW s, s = [k \in 1 .. 2 * n - 1 |-> IvText(nums)[Kept(k)]]
  PROVE  s = Bare(nums)
<1> DEFINE m == 2 * n - 1
           text == IvText(nums)
           bare == Bare(nums)
<1>1. \A k \in 1 .. m : text[Kept(k)] = bare[k]
  <2> TAKE k \in 1 .. m
  <2>1. CASE \E i \in 1 .. n : k = 2 * i - 1
    <3>1. PICK i \in 1 .. n : k = 2 * i - 1
      BY <2>1
    <3>2. Kept(k) = 3 * i - 1
      BY <3>1, KeptPlaces
    <3> HIDE DEF text, bare, m
    <3>3. text[3 * i - 1] = Number(nums[i]) /\ bare[2 * i - 1] = Number(nums[i])
      BY IvTextSays, BareSays DEF text, bare
    <3> QED BY <3>1, <3>2, <3>3
  <2>2. CASE \E i \in 1 .. n - 1 : k = 2 * i
    <3>1. PICK i \in 1 .. n - 1 : k = 2 * i
      BY <2>2
    <3>2. Kept(k) = 3 * i
      BY <3>1, KeptPlaces
    <3> HIDE DEF text, bare, m
    <3>3. text[3 * i] = Char(",") /\ bare[2 * i] = Char(",")
      BY IvTextSays, BareSays DEF text, bare
    <3> QED BY <3>1, <3>2, <3>3
  <2> QED BY <2>1, <2>2, KeptPlaces
<1>2. bare = [k \in 1 .. m |-> bare[k]]
  BY DEF Bare
<1> HIDE DEF bare, text
<1>3. s = [k \in 1 .. m |-> text[Kept(k)]]
  BY DEF text
<1> HIDE DEF m
<1> QED BY <1>1, <1>2, <1>3 DEF bare

\* Which characters of the text go, on iOS.
LEMMA KeptTokens ==
  ASSUME NEW nums \in Seq(Int), NEW n \in Nat, n = Len(nums), n >= 1,
         NEW i \in 2 .. 3 * n - 1
  PROVE  /\ IvText(nums)[i][1] \notin {"[", "]"}
         /\ IvText(nums)[i][1] # " " <=> \E k \in 1 .. 2 * n - 1 : i = Kept(k)
<1> DEFINE text == IvText(nums)
<1>1. /\ \A j \in 1 .. n : text[3 * j - 1] = Number(nums[j])
      /\ \A j \in 1 .. n - 1 : text[3 * j] = Char(",") /\ text[3 * j + 1] = Char(" ")
  BY IvTextSays
<1> HIDE DEF text
<1>2. CASE \E j \in 1 .. n : i = 3 * j - 1
  <2>1. PICK j \in 1 .. n : i = 3 * j - 1
    BY <1>2
  <2>2. text[i][1] = "number"
    BY <1>1, <2>1, TokensDiffer
  <2>3. 2 * j - 1 \in 1 .. 2 * n - 1 /\ i = Kept(2 * j - 1)
    BY <2>1, KeptPlaces
  <2> QED BY <2>2, <2>3 DEF text
<1>3. CASE \E j \in 1 .. n - 1 : i = 3 * j
  <2>1. PICK j \in 1 .. n - 1 : i = 3 * j
    BY <1>3
  <2>2. text[i][1] = ","
    BY <1>1, <2>1, TokensDiffer
  <2>3. 2 * j \in 1 .. 2 * n - 1 /\ i = Kept(2 * j)
    BY <2>1, KeptPlaces
  <2> QED BY <2>2, <2>3 DEF text
<1>4. CASE \E j \in 1 .. n - 1 : i = 3 * j + 1
  <2>1. PICK j \in 1 .. n - 1 : i = 3 * j + 1
    BY <1>4
  <2>2. text[i][1] = " "
    BY <1>1, <2>1, TokensDiffer
  <2>3. ASSUME NEW k \in 1 .. 2 * n - 1, i = Kept(k)
        PROVE  FALSE
    <3>1. CASE \E l \in 1 .. n : k = 2 * l - 1
      <4>1. PICK l \in 1 .. n : k = 2 * l - 1
        BY <3>1
      <4>2. i = 3 * l - 1
        BY <2>3, <4>1, KeptPlaces
      <4> QED BY <2>1, <4>2
    <3>2. CASE \E l \in 1 .. n - 1 : k = 2 * l
      <4>1. PICK l \in 1 .. n - 1 : k = 2 * l
        BY <3>2
      <4>2. i = 3 * l
        BY <2>3, <4>1, KeptPlaces
      <4> QED BY <2>1, <4>2
    <3> QED BY <3>1, <3>2, KeptPlaces
  <2> QED BY <2>2, <2>3 DEF text
<1> QED BY <1>2, <1>3, <1>4, KeptPlaces

\* Between the ends.
LEMMA Inside ==
  ASSUME NEW m \in Int, NEW i \in 1 .. m, i # 1, i # m
  PROVE  i \in 2 .. m - 1
  OBVIOUS

\* Swift drops spaces and brackets.
LEMMA DroppingIos ==
  ASSUME NEW nums \in Seq(Int), NEW n \in Nat, n = Len(nums), n >= 1
  PROVE  Dropping(IvText(nums), {" ", "[", "]"}) = Bare(nums)
<1>0. 3 * n \in Int
  OBVIOUS
<1> DEFINE text == IvText(nums)
           m == 2 * n - 1
           g == [k \in 1 .. m |-> Kept(k)]
           S == {i \in 1 .. Len(text) : text[i][1] \notin {" ", "[", "]"}}
<1>1. /\ Len(text) = 3 * n
      /\ text[1][1] = "[" /\ text[3 * n][1] = "]"
  BY IvTextSays, TokensDiffer
<1>2. \A i \in 2 .. 3 * n - 1 :
        /\ text[i][1] \notin {"[", "]"}
        /\ text[i][1] # " " <=> \E k \in 1 .. m : i = Kept(k)
  BY KeptTokens
<1>3. \A k \in 1 .. m : Kept(k) \in 2 .. 3 * n - 1
  BY KeptPlaces
<1> HIDE DEF text
<1>4. S = {g[k] : k \in 1 .. m}
  <2>1. ASSUME NEW i \in S
        PROVE  i \in 2 .. 3 * n - 1
    <3>1. i \in 1 .. 3 * n /\ text[i][1] # "[" /\ text[i][1] # "]"
      BY <1>1
    <3>2. i # 1 /\ i # 3 * n
      BY <1>1, <3>1
    <3>3. i \in 1 .. 3 * n
      BY <3>1
    <3> QED BY ONLY <1>0, <3>2, <3>3, Inside
  <2>2. \A i \in S : \E k \in 1 .. m : i = g[k]
    <3>1. \A i \in S : text[i][1] # " "
      OBVIOUS
    <3> HIDE DEF m, S
    <3> QED BY <1>2, <2>1, <3>1
  <2>3. \A k \in 1 .. m : g[k] \in S
    <3>1. \A i \in 2 .. 3 * n - 1 : i \in 1 .. 3 * n
      OBVIOUS
    <3> HIDE DEF m
    <3> QED BY <1>1, <1>2, <1>3, <3>1
  <2> HIDE DEF S, g, m
  <2> QED BY <2>2, <2>3
<1>5. \A i, j \in 1 .. m : i < j => Kept(i) < Kept(j)
  BY KeptPlaces
<1>6. m \in Nat /\ \A k \in 1 .. m : Kept(k) \in Int
  BY <1>3
<1> HIDE DEF m, S
<1>7. Lists(g, m, S)
  BY <1>4, <1>5, <1>6 DEF Lists
<1>8. At(text, S) = [k \in 1 .. m |-> text[g[k]]]
  <2> HIDE DEF g
  <2> QED BY <1>6, <1>7, AtListed
<1>9. At(text, S) = [k \in 1 .. m |-> text[Kept(k)]]
  BY <1>8
<1>10. At(text, S) = Bare(nums)
  BY <1>9, BareIs DEF m, text
<1> QED BY <1>10 DEF Dropping, S, text

\* Java cuts the brackets off and drops the spaces.
LEMMA DroppingAndroid ==
  ASSUME NEW nums \in Seq(Int), NEW n \in Nat, n = Len(nums), n >= 1
  PROVE  Dropping(SubSeq(IvText(nums), 2, Len(IvText(nums)) - 1), {" "}) = Bare(nums)
<1> DEFINE text == IvText(nums)
           inner == SubSeq(text, 2, 3 * n - 1)
           m == 2 * n - 1
           g == [k \in 1 .. m |-> Kept(k) - 1]
           S == {i \in 1 .. Len(inner) : inner[i][1] \notin {" "}}
<1>1. text \in Seq(Token) /\ Len(text) = 3 * n
  BY IvTextSays
<1>2. \A i \in 2 .. 3 * n - 1 : text[i][1] # " " <=> \E k \in 1 .. m : i = Kept(k)
  BY KeptTokens
<1>3. \A k \in 1 .. m : Kept(k) \in 2 .. 3 * n - 1
  BY KeptPlaces
<1> HIDE DEF text
<1>4. Len(inner) = 3 * n - 2 /\ \A i \in 1 .. 3 * n - 2 : inner[i] = text[i + 1]
  <2>1. \A k \in 2 .. 3 * n - 1 : text[k] \in Token
    <3>1. \A k \in 1 .. Len(text) : text[k] \in Token
      BY <1>1
    <3>2. \A k \in 2 .. 3 * n - 1 : k \in 1 .. 3 * n
      OBVIOUS
    <3> QED BY <1>1, <3>1, <3>2
  <2>2. 2 \in Int /\ 3 * n - 1 \in Int
    OBVIOUS
  <2>3. /\ Len(inner) = IF 2 <= 3 * n - 1 THEN (3 * n - 1) - 2 + 1 ELSE 0
        /\ \A k \in 1 .. (3 * n - 1) - 2 + 1 : inner[k] = text[2 + k - 1]
    BY <2>1, <2>2, SubSeqProperties
  <2>4. /\ 2 <= 3 * n - 1 /\ (3 * n - 1) - 2 + 1 = 3 * n - 2
        /\ \A k \in 1 .. 3 * n - 2 : 2 + k - 1 = k + 1
    OBVIOUS
  <2> HIDE DEF inner
  <2> QED BY <2>3, <2>4
<1> HIDE DEF inner
<1>5. S = {g[k] : k \in 1 .. m}
  <2>1. ASSUME NEW i \in S
        PROVE  \E k \in 1 .. m : i = g[k]
    <3>1. i \in 1 .. 3 * n - 2 /\ text[i + 1][1] # " "
      BY <1>4
    <3> HIDE DEF S
    <3>2. i \in Int /\ i + 1 \in 2 .. 3 * n - 1
      <4>1. \A j \in 1 .. 3 * n - 2 : j \in Int /\ j + 1 \in 2 .. 3 * n - 1
        OBVIOUS
      <4>2. i \in 1 .. 3 * n - 2
        BY <3>1
      <4> QED BY ONLY <4>1, <4>2
    <3>3. PICK k \in 1 .. m : i + 1 = Kept(k)
      BY <1>2, <3>1, <3>2
    <3> HIDE DEF m
    <3>4. i = Kept(k) - 1
      BY <3>2, <3>3
    <3> QED BY <3>4
  <2>2. ASSUME NEW k \in 1 .. m
        PROVE  g[k] \in S
    <3>1. Kept(k) \in 2 .. 3 * n - 1
      BY <1>3
    <3>2. /\ Kept(k) - 1 \in 1 .. 3 * n - 2
          /\ (Kept(k) - 1) + 1 = Kept(k)
      BY <3>1
    <3>3. text[Kept(k)][1] # " "
      BY <1>2, <3>1
    <3>4. Kept(k) - 1 \in S
      BY <1>4, <3>2, <3>3
    <3> QED BY <3>4
  <2> HIDE DEF S, m
  <2> QED BY <2>1, <2>2
<1>6. \A i, j \in 1 .. m : i < j => Kept(i) - 1 < Kept(j) - 1
  <2> TAKE i, j \in 1 .. m
  <2>1. i < j => Kept(i) < Kept(j)
    BY KeptPlaces
  <2>2. Kept(i) \in Int /\ Kept(j) \in Int
    BY <1>3
  <2> QED BY <2>1, <2>2
<1>7. m \in Nat /\ \A k \in 1 .. m : Kept(k) - 1 \in Int
  BY <1>3
<1>8. \A k \in 1 .. m : inner[Kept(k) - 1] = text[Kept(k)]
  <2> TAKE k \in 1 .. m
  <2>1. Kept(k) \in 2 .. 3 * n - 1
    BY <1>3
  <2>2. Kept(k) - 1 \in 1 .. 3 * n - 2 /\ (Kept(k) - 1) + 1 = Kept(k)
    BY <2>1
  <2> QED BY <1>4, <2>2
<1> HIDE DEF m, S
<1>9. Lists(g, m, S)
  BY <1>5, <1>6, <1>7 DEF Lists
<1>10. At(inner, S) = [k \in 1 .. m |-> inner[g[k]]]
  <2> HIDE DEF g
  <2> QED BY <1>7, <1>9, AtListed
<1>11. At(inner, S) = [k \in 1 .. m |-> text[Kept(k)]]
  BY <1>8, <1>10
<1>12. At(inner, S) = Bare(nums)
  BY <1>11, BareIs DEF m, text
<1>13. inner = SubSeq(IvText(nums), 2, Len(IvText(nums)) - 1)
  BY <1>1 DEF inner, text
<1> QED BY <1>12, <1>13 DEF Dropping, S

\* Between two cuts lies one number.
Parts(nums) == [k \in 1 .. Len(nums) |-> <<Number(nums[k])>>]

\* The cuts lie at the even places, so a part is the number between two.
LEMMA SegmentsOfBare ==
  ASSUME NEW nums \in Seq(Int), NEW n \in Nat, n = Len(nums), n >= 1
  PROVE  Segments(Bare(nums)) = Parts(nums)
<1> DEFINE text == Bare(nums)
           commas == {i \in 1 .. Len(text) : text[i] = Char(",")}
           S == {0, Len(text) + 1} \union commas
           g == [k \in 1 .. n + 1 |-> 2 * (k - 1)]
           cuts == InOrder(S)
<1>1. /\ text \in Seq(Token) /\ Len(text) = 2 * n - 1
      /\ \A i \in 1 .. n : text[2 * i - 1] = Number(nums[i])
      /\ \A i \in 1 .. n - 1 : text[2 * i] = Char(",")
  BY BareSays
<1> HIDE DEF text
<1>2. \A i \in commas : \E j \in 1 .. n - 1 : i = 2 * j
  <2> TAKE i \in commas
  <2>1. i \in 1 .. 2 * n - 1 /\ text[i] = Char(",")
    BY <1>1
  <2>2. ASSUME NEW j \in 1 .. n, i = 2 * j - 1
        PROVE  FALSE
    <3>1. text[i] = Number(nums[j])
      BY <1>1, <2>2
    <3> QED BY <2>1, <3>1, TokensDiffer
  <2> QED BY <2>1, <2>2, KeptPlaces
<1>3. \A j \in 1 .. n - 1 : 2 * j \in commas
  <2>1. \A j \in 1 .. n - 1 : 2 * j \in 1 .. 2 * n - 1
    OBVIOUS
  <2> QED BY <1>1, <2>1
<1>4. Len(text) + 1 = 2 * n
  <2>1. Len(text) = 2 * n - 1
    BY <1>1
  <2>2. (2 * n - 1) + 1 = 2 * n
    BY ONLY n \in Nat
  <2> QED BY ONLY <2>1, <2>2
<1> HIDE DEF commas
<1>5. S = {g[k] : k \in 1 .. n + 1}
  <2>1. 1 \in 1 .. n + 1 /\ n + 1 \in 1 .. n + 1 /\ g[1] = 0 /\ g[n + 1] = 2 * n
    OBVIOUS
  <2>2. ASSUME NEW j \in 1 .. n - 1
        PROVE  j + 1 \in 1 .. n + 1 /\ g[j + 1] = 2 * j
    OBVIOUS
  <2>3. ASSUME NEW k \in 1 .. n + 1
        PROVE  \/ g[k] = 0
               \/ g[k] = 2 * n
               \/ \E j \in 1 .. n - 1 : g[k] = 2 * j
    <3>1. CASE k = 1
      BY <3>1
    <3>2. CASE k = n + 1
      BY <3>2
    <3>3. CASE k # 1 /\ k # n + 1
      <4>1. k - 1 \in 1 .. n - 1 /\ g[k] = 2 * (k - 1)
        BY <3>3
      <4> QED BY <4>1
    <3> QED BY <3>1, <3>2, <3>3
  <2> HIDE DEF g
  <2>4. \A x \in S : \E k \in 1 .. n + 1 : x = g[k]
    <3>1. \A x \in S : x = 0 \/ x = 2 * n \/ x \in commas
      BY <1>4
    <3>2. \A x \in commas : \E k \in 1 .. n + 1 : x = g[k]
      <4> TAKE x \in commas
      <4>1. PICK j \in 1 .. n - 1 : x = 2 * j
        BY <1>2
      <4> QED BY <2>2, <4>1
    <3> HIDE DEF S
    <3> QED BY <2>1, <3>1, <3>2
  <2>5. \A k \in 1 .. n + 1 : g[k] \in S
    BY <1>3, <1>4, <2>3
  <2> HIDE DEF S
  <2> QED BY <2>4, <2>5
<1>6. /\ n + 1 \in Nat
      /\ DOMAIN g = 1 .. n + 1 /\ \A k \in 1 .. n + 1 : g[k] \in Int
      /\ \A i, j \in 1 .. n + 1 : i < j => g[i] < g[j]
  OBVIOUS
<1>7. \A k \in 1 .. n : /\ k \in 1 .. n + 1 /\ k + 1 \in 1 .. n + 1
                        /\ g[k] + 1 = 2 * k - 1 /\ g[k + 1] - 1 = 2 * k - 1
  OBVIOUS
<1> HIDE DEF S, g
<1>8. Lists(g, n + 1, S)
  BY <1>5, <1>6 DEF Lists
<1>9. cuts = [k \in 1 .. n + 1 |-> g[k]]
  BY <1>6, <1>8, InOrderLists
<1>10. Len(cuts) - 1 = n /\ \A k \in 1 .. n + 1 : cuts[k] = g[k]
  BY <1>9
<1> HIDE DEF cuts
<1>11. ASSUME NEW k \in 1 .. n
       PROVE  SubSeq(text, cuts[k] + 1, cuts[k + 1] - 1) = <<Number(nums[k])>>
  <2> DEFINE q == 2 * k - 1
             part == SubSeq(text, q, q)
             one == <<Number(nums[k])>>
  <2>1. cuts[k] + 1 = q /\ cuts[k + 1] - 1 = q
    BY <1>7, <1>10
  <2>2. q \in Int /\ q <= q /\ q - q + 1 = 1 /\ q + 1 - 1 = q /\ q \in 1 .. 2 * n - 1
    OBVIOUS
  <2>3. text[q] = Number(nums[k]) /\ text[q] \in Token
    <3>1. text[q] = Number(nums[k])
      BY <1>1
    <3>2. nums[k] \in Int
      OBVIOUS
    <3> QED BY <3>1, <3>2, Tokens
  <2> HIDE DEF q
  <2>4. \A i \in q .. q : text[i] \in Token
    BY <2>2, <2>3
  <2>5. /\ part \in Seq(Token)
        /\ Len(part) = IF q <= q THEN q - q + 1 ELSE 0
        /\ \A i \in 1 .. q - q + 1 : part[i] = text[q + i - 1]
    BY <2>2, <2>4, SubSeqProperties
  <2> HIDE DEF part
  <2>6. Len(part) = 1 /\ part[1] = Number(nums[k])
    BY <2>2, <2>3, <2>5
  <2>7. one \in Seq(Token) /\ Len(one) = 1 /\ one[1] = Number(nums[k])
    <3>1. Number(nums[k]) \in Token
      BY <2>3
    <3> QED BY <3>1
  <2> HIDE DEF one
  <2>8. part = one
    BY <2>5, <2>6, <2>7, SeqEqual
  <2> QED BY <2>1, <2>8 DEF part, one
<1>12. Segments(text) = [k \in 1 .. Len(cuts) - 1 |-> SubSeq(text, cuts[k] + 1, cuts[k + 1] - 1)]
  BY DEF Segments, cuts, S, commas
<1>13. Segments(text) = [k \in 1 .. n |-> <<Number(nums[k])>>]
  BY <1>10, <1>11, <1>12
<1> QED BY <1>13 DEF Parts, text

\* All places of a sequence are all of it.
LEMMA AtAll ==
  ASSUME NEW n \in Nat, NEW seq, seq = [k \in 1 .. n |-> seq[k]]
  PROVE  At(seq, 1 .. n) = seq
<1> DEFINE g == [k \in 1 .. n |-> k]
<1>1. /\ DOMAIN g = 1 .. n /\ \A k \in 1 .. n : g[k] \in Int
      /\ \A i, j \in 1 .. n : i < j => g[i] < g[j]
  OBVIOUS
<1>2. 1 .. n = {g[k] : k \in 1 .. n}
  OBVIOUS
<1> DEFINE places == 1 .. n
<1>3. Lists(g, n, places)
  BY <1>1, <1>2 DEF Lists
<1>4. At(seq, places) = [k \in 1 .. n |-> seq[g[k]]]
  <2> HIDE DEF g, places
  <2> QED BY ONLY n \in Nat, <1>3, AtListed
<1> QED BY <1>4

\* Of a part, each app reads the number.
LEMMA PartsRead ==
  ASSUME NEW nums \in Seq(Int), NEW n \in Nat, n = Len(nums)
  PROVE  /\ Len(Parts(nums)) = n
         /\ Parts(nums) = [k \in 1 .. n |-> Parts(nums)[k]]
         /\ \A k \in 1 .. n : /\ Parts(nums)[k] # <<>> /\ Len(Parts(nums)[k]) = 1
                              /\ Parts(nums)[k][1][1] = "number"
                              /\ Parts(nums)[k][1][2] = nums[k]
<1>1. \A k \in 1 .. n : Parts(nums)[k] = <<Number(nums[k])>>
  BY DEF Parts
<1>2. Len(Parts(nums)) = n /\ Parts(nums) = [k \in 1 .. n |-> Parts(nums)[k]]
  BY DEF Parts
<1>3. ASSUME NEW k \in 1 .. n
      PROVE  /\ Parts(nums)[k] # <<>> /\ Len(Parts(nums)[k]) = 1
             /\ Parts(nums)[k][1][1] = "number"
             /\ Parts(nums)[k][1][2] = nums[k]
  <2> DEFINE number == Number(nums[k])
  <2>1. number[1] = "number" /\ number[2] = nums[k]
    BY TokensDiffer
  <2>2. Parts(nums)[k] = <<number>>
    BY <1>1
  <2> HIDE DEF number
  <2>3. <<number>> # <<>> /\ Len(<<number>>) = 1 /\ <<number>>[1] = number
    OBVIOUS
  <2> QED BY ONLY <2>1, <2>2, <2>3
<1> QED BY <1>2, <1>3

\* Bytes are integers.
LEMMA BytesAreNumbers ==
  ASSUME NEW nums \in Seq(0 .. 255)
  PROVE  /\ nums \in Seq(Int)
         /\ \A k \in 1 .. Len(nums) : nums[k] \in 0 .. 255
         /\ nums = [k \in 1 .. Len(nums) |-> nums[k]]
<1> DEFINE n == Len(nums)
           S == 0 .. 255
<1>1. nums \in Seq(S) /\ \A b \in S : b \in Int
  OBVIOUS
<1> HIDE DEF S
<1>2. n \in Nat /\ (\A k \in 1 .. n : nums[k] \in S) /\ nums = [k \in 1 .. n |-> nums[k]]
  BY <1>1
<1> HIDE DEF n
<1>3. nums \in [1 .. n -> Int]
  <2>1. \A k \in 1 .. n : nums[k] \in Int
    BY <1>1, <1>2
  <2> QED BY <1>2, <2>1
<1>4. nums \in Seq(Int)
  BY <1>2, <1>3, FunctionIsSequence
<1> QED BY <1>2, <1>4 DEF n, S

\* Swift reads the bytes.
LEMMA IosReads ==
  ASSUME NEW nums \in Seq(0 .. 255), NEW n \in Nat, n = Len(nums), n >= 1
  PROVE  IvIos(IvText(nums)) = nums
<1> DEFINE all == Parts(nums)
<1>1. nums \in Seq(Int) /\ (\A k \in 1 .. n : nums[k] \in 0 .. 255)
      /\ nums = [k \in 1 .. n |-> nums[k]]
  BY BytesAreNumbers
<1>2. Segments(Dropping(IvText(nums), {" ", "[", "]"})) = all
  BY <1>1, DroppingIos, SegmentsOfBare
<1>3. /\ Len(all) = n /\ all = [k \in 1 .. n |-> all[k]]
      /\ \A k \in 1 .. n : /\ all[k] # <<>> /\ Len(all[k]) = 1
                           /\ all[k][1][1] = "number" /\ all[k][1][2] = nums[k]
  BY <1>1, PartsRead
<1> HIDE DEF all
<1>4. {i \in 1 .. Len(all) : all[i] # <<>>} = 1 .. n
  BY <1>3
<1>5. At(all, 1 .. n) = all
  BY <1>3, AtAll
<1> DEFINE segments == At(all, {i \in 1 .. Len(all) : all[i] # <<>>})
           UInt8(s) == IF Len(s) = 1 /\ s[1][1] = "number" /\ s[1][2] \in 0 .. 255
                       THEN s[1][2] ELSE Failed
<1>6. IvIos(IvText(nums)) = [i \in 1 .. Len(segments) |-> UInt8(segments[i])]
  BY <1>2 DEF IvIos
<1>7. segments = all
  BY <1>4, <1>5
<1> HIDE DEF segments
<1>8. \A i \in 1 .. n : UInt8(all[i]) = nums[i]
  BY <1>1, <1>3
<1> HIDE DEF UInt8
<1>9. IvIos(IvText(nums)) = [i \in 1 .. n |-> nums[i]]
  BY <1>3, <1>6, <1>7, <1>8
<1> QED BY <1>1, <1>9

\* Java reads them with their sign.
LEMMA AndroidReads ==
  ASSUME NEW nums \in Seq(Int), NEW n \in Nat, n = Len(nums), n >= 1
  PROVE  IvAndroid(IvText(nums)) = [i \in 1 .. n |-> Signed(nums[i])]
<1> DEFINE all == Parts(nums)
<1>1. Segments(Dropping(SubSeq(IvText(nums), 2, Len(IvText(nums)) - 1), {" "})) = all
  BY DroppingAndroid, SegmentsOfBare
<1>2. /\ Len(all) = n
      /\ \A k \in 1 .. n : /\ Len(all[k]) = 1
                           /\ all[k][1][1] = "number" /\ all[k][1][2] = nums[k]
  BY PartsRead
<1> HIDE DEF all
<1>3. IvAndroid(IvText(nums)) =
        [i \in 1 .. n |-> IF Len(all[i]) = 1 /\ all[i][1][1] = "number"
                          THEN Signed(all[i][1][2]) ELSE Failed]
  BY <1>1, <1>2 DEF IvAndroid
<1> QED BY <1>2, <1>3

\* Java's sign comes and goes.
LEMMA SignedBack ==
  ASSUME NEW b \in 0 .. 255
  PROVE  Signed(b) \in Int /\ Signed(b) % 256 = b
  BY DEF Signed

\* A vector of any length is read as it was, by either app, from the text of
\* either app (Messenger.upload, convertIV).
THEOREM VectorsAreRead == Spec => []IvRead
<1>1. InputOk => IvRead
  <2> SUFFICES ASSUME InputOk, input.kind = "iv"
               PROVE  IvRead
    BY DEF IvRead
  <2> DEFINE iv == input.iv
             n == Len(iv)
             signed == [i \in 1 .. n |-> Signed(iv[i])]
             again == [i \in 1 .. Len(signed) |-> signed[i] % 256]
  <2>1. PICK m \in 1 .. MaxBytes : iv \in [1 .. m -> Bytes]
    BY DEF InputOk, Nothing
  <2>2. MaxBytes \in Nat /\ Bytes \subseteq 0 .. 255
    BY FormulasAssumption
  <2> HIDE DEF iv
  <2>3. /\ iv \in Seq(0 .. 255) /\ n = m /\ n \in Nat /\ n >= 1
    <3>1. iv \in [1 .. m -> 0 .. 255]
      BY <2>1, <2>2
    <3>2. m \in Nat /\ m >= 1
      BY <2>2
    <3>3. iv \in Seq(0 .. 255) /\ Len(iv) = m
      BY <3>1, <3>2, FunctionIsSequence
    <3> QED BY <3>2, <3>3
  <2>4. iv \in Seq(Int) /\ iv = [i \in 1 .. n |-> iv[i]] /\ \A i \in 1 .. n : iv[i] \in 0 .. 255
    BY <2>3, BytesAreNumbers
  <2> HIDE DEF n
  <2>5. again = iv
    <3>1. Len(signed) = n /\ \A i \in 1 .. n : signed[i] = Signed(iv[i])
      BY <2>3
    <3> HIDE DEF signed
    <3>2. \A i \in 1 .. n : signed[i] % 256 = iv[i]
      BY <2>4, <3>1, SignedBack
    <3> QED BY <2>4, <3>1, <3>2
  <2>6. IvTextIos(iv) = IvText(iv) /\ IvTextAndroid(signed) = IvText(iv)
    <3>1. IvTextAndroid(signed) = IvTextOf(again)
      BY DEF IvTextAndroid
    <3> HIDE DEF signed, again
    <3> QED BY <2>3, <2>4, <2>5, <3>1, IvTextIosIs, IvTextOfIs DEF n
  <2>7. IvIos(IvText(iv)) = iv /\ IvAndroid(IvText(iv)) = signed
    BY <2>3, <2>4, IosReads, AndroidReads DEF n
  <2> HIDE DEF signed
  <2>8. \A text \in {IvTextIos(iv), IvTextAndroid(signed)} :
          IvIos(text) = iv /\ IvAndroid(text) = signed
    BY <2>6, <2>7
  <2> QED BY <2>8 DEF IvRead, iv, signed, n
<1> QED BY <1>1, InputTyped, PTL

=============================================================================
