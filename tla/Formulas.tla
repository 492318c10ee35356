------------------------------ MODULE Formulas ------------------------------
(***************************************************************************)
(* The pure functions on whose results the two apps must agree, since one  *)
(* phone writes what the other reads: the root of the key exchange, the    *)
(* week of free time, the text of an initialization vector and the name of *)
(* a chat room.  Each is translated once per app; an action picks an       *)
(* input, and the invariants compare the translations with each other and  *)
(* with a reference definition.                                            *)
(***************************************************************************)
EXTENDS Integers, SequencesExt

CONSTANTS Primes,        \* candidates for bigPrime (512 bits in the code)
          Limit,         \* divisors tried by primeFactors (10000 in the code)
          MaxRoot,       \* last candidate of findPrimitiveRoot (10^8 in the code)
          Bytes,         \* sample of the values of a byte
          MaxBytes,      \* bytes of an initialization vector (16 in the code)
          Letters,       \* characters of a pet's id, as numbers
          IdLength       \* characters of a pet's id

ASSUME FormulasAssumption ==
  /\ \A p \in Primes : p \in Nat /\ p > 3 /\ MaxRoot < p
  /\ Limit \in Nat /\ Limit > 2
  /\ MaxRoot \in Nat
  /\ Bytes \subseteq 0 .. 255
  /\ MaxBytes \in Nat \ {0}
  /\ Letters \subseteq Nat
  /\ IdLength \in Nat \ {0}

VARIABLE input           \* what the functions are applied to

App == {"ios", "android"}

----------------------------------------------------------------------------
(* The root of the key exchange *)

\* Exact from 2 on, as the randomized test is for large numbers.
IsPrime(n) == n = 1 \/ (n > 1 /\ \A d \in 2 .. n - 1 : n % d # 0)

Power(g, e, p) ==
  LET pow[n \in Nat] == IF n = 0 THEN 1 ELSE (pow[n - 1] * g) % p
  IN  pow[e]

\* Mutant: the prime that is left is not added to the factors.
SmallFactors(number) ==
  LET rest[n \in Nat, i \in Nat] ==
        IF n = 1 \/ i = Limit THEN {}
        ELSE IF n % i # 0 THEN rest[n, i + 1]
        ELSE {i} \union IF IsPrime(n \div i) THEN {} ELSE rest[n \div i, i]
  IN  rest[number, 2]

\* Divides by 2, 3, ... and gives up at Limit: the list may be incomplete.
PrimeFactors(number) ==
  LET rest[n \in Nat, i \in Nat] ==
        IF n = 1 \/ i = Limit THEN {}
        ELSE IF n % i # 0 THEN rest[n, i + 1]
        ELSE {i} \union IF IsPrime(n \div i) THEN {n \div i} ELSE rest[n \div i, i]
  IN  rest[number, 2]

IsPrimeRoot(g, p) ==
  \A q \in PrimeFactors(p - 1) : Power(g, (p - 1) \div q, p) # 1

\* The search starts at a random number and answers 0 when it finds nothing.
FindPrimitiveRoot(p, start) ==
  LET roots == {i \in start .. MaxRoot : IsPrimeRoot(i, p)}
  IN  IF roots = {} THEN 0 ELSE Min(roots)

----------------------------------------------------------------------------
(* The week of free time *)

\* An hour is the tag of its view: ten times the day plus the part, from 1.
Hours == {10 * day + part : day \in 1 .. 7, part \in 1 .. 3}

Text(places) == [n \in 1 .. 21 |-> IF n \in places THEN 1 ELSE 0]

\* The iOS form writes each view at the place its tag says (from 0) ...
FormIos(ticked) ==
  Text({((h \div 10) - 1) * 3 + ((h % 10) - 1) + 1 : h \in ticked})

\* Mutant: the parts of the day are the outer loop.
FormByPart(ticked) ==
  Text({n \in 1 .. 21 : 10 * (((n - 1) % 7) + 1) + ((n - 1) \div 7) + 1 \in ticked})

\* ... the Android form appends them in two nested loops.
FormAndroid(ticked) ==
  Text({n \in 1 .. 21 : 10 * (((n - 1) \div 3) + 1) + ((n - 1) % 3) + 1 \in ticked})

Form(app, ticked) == IF app = "ios" THEN FormIos(ticked) ELSE FormAndroid(ticked)

\* The constructor of both apps, on what their forms write: 21 characters, or
\* none in a profile that has no form yet.  A shorter text means never free, on
\* iOS a longer one too; FreeSchedule.java would end the app on a longer one, as
\* its loop runs to the length of the text it has replaced by 21 zeros.
FreeMatrix(text) ==
  [week \in 0 .. 6 |->
     [part \in 0 .. 2 |-> Len(text) = 21 /\ text[3 * week + part + 1] = 1]]

\* isFree counts from 0 on iOS and from 1 on Android; so do their callers.
IsFreeIos(matrix, week, part) == matrix[week][part]
IsFreeAndroid(matrix, weekDay, partDay) == matrix[weekDay - 1][partDay - 1]

ShownIos(text) ==
  LET matrix == FreeMatrix(text)
  IN  {h \in Hours : IsFreeIos(matrix, (h \div 10) - 1, (h % 10) - 1)}
ShownAndroid(text) ==
  LET matrix == FreeMatrix(text)
  IN  {h \in Hours : IsFreeAndroid(matrix, h \div 10, h % 10)}

\* iOS compares the two texts, Android what they mean.
CommonFreeTime(this, other) ==
  [n \in 1 .. Len(this) |-> IF this[n] = 1 /\ other[n] = 1 THEN 1 ELSE 0]
MutualSchedule(mine, friend) == ShownAndroid(mine) \intersect ShownAndroid(friend)

----------------------------------------------------------------------------
(* The text of an initialization vector *)

\* A text is a sequence of tokens: a number, or a character that is kept as is.
Number(n) == <<"number", n>>
Char(c) == <<c, 0>>

\* Swift's description of an array: ", " between two numbers.
IvTextIos(iv) ==
  <<Char("[")>>
    \o [k \in 1 .. 3 * Len(iv) - 2 |->
         IF k % 3 = 1 THEN Number(iv[(k + 2) \div 3]) ELSE Char(IF k % 3 = 2 THEN "," ELSE " ")]
    \o <<Char("]")>>

\* A byte of Java has a sign.
Signed(n) == ((n + 128) % 256) - 128

IvTextOf(numbers) ==
  LET temp == [k \in 1 .. 3 * Len(numbers) |->
                IF k % 3 = 2 THEN Number(numbers[(k + 1) \div 3])
                ELSE Char(IF k % 3 = 1 THEN " " ELSE ",")]
  IN  <<Char("[")>> \o SubSeq(temp, 2, Len(temp) - 1) \o <<Char("]")>>

\* Mutant: the sign of the byte is written.
IvTextSigned(bytes) == IvTextOf(bytes)

IvTextAndroid(bytes) == IvTextOf([i \in 1 .. Len(bytes) |-> bytes[i] % 256])

\* The members of a set of numbers, the least first.
InOrder(S) ==
  [n \in 1 .. Cardinality(S) |-> CHOOSE k \in S : Cardinality({j \in S : j < k}) = n - 1]

\* What a sequence has at some of its positions.
At(seq, positions) ==
  LET ps == InOrder(positions) IN [n \in 1 .. Len(ps) |-> seq[ps[n]]]

Segments(text) ==
  LET commas == {i \in 1 .. Len(text) : text[i] = Char(",")}
      cuts == InOrder({0, Len(text) + 1} \union commas)
  IN  [k \in 1 .. Len(cuts) - 1 |-> SubSeq(text, cuts[k] + 1, cuts[k + 1] - 1)]

Dropping(text, chars) == At(text, {i \in 1 .. Len(text) : text[i][1] \notin chars})

\* A segment that is no number, or no byte for UInt8, ends the app.
Failed == -1000

IvIos(text) ==
  LET all == Segments(Dropping(text, {" ", "[", "]"}))
      segments == At(all, {i \in 1 .. Len(all) : all[i] # <<>>})
      UInt8(s) == IF Len(s) = 1 /\ s[1][1] = "number" /\ s[1][2] \in 0 .. 255
                  THEN s[1][2] ELSE Failed
  IN  [i \in 1 .. Len(segments) |-> UInt8(segments[i])]

IvAndroid(text) ==
  LET segments == Segments(Dropping(SubSeq(text, 2, Len(text) - 1), {" "}))
      Byte(s) == IF Len(s) = 1 /\ s[1][1] = "number" THEN Signed(s[1][2]) ELSE Failed
  IN  [i \in 1 .. Len(segments) |-> Byte(segments[i])]

----------------------------------------------------------------------------
(* The name of a chat room *)

Greater(s, t) ==
  \E i \in 1 .. IdLength : s[i] > t[i] /\ \A j \in 1 .. i - 1 : s[j] = t[j]

ChatRoomId(my, friend) == IF Greater(my, friend) THEN my \o friend ELSE friend \o my

\* Mutant: the first id given comes first.
CombinedAsGiven(id1, id2) == id1 \o id2

CombinedId(id1, id2) == IF Greater(id1, id2) THEN id1 \o id2 ELSE id2 \o id1

----------------------------------------------------------------------------
(* Inputs *)

Ids == [1 .. IdLength -> Letters]
Pairs == {pair \in Ids \X Ids : pair[1] # pair[2]}

\* At most so many hours are ticked: two by one owner, one by the other.
OneHour == {{}} \union {{h} : h \in Hours}
TwoHours == {{}} \union {{h, k} : h, k \in Hours}

Nothing == [kind |-> "nothing"]

Init == input = Nothing

\* A new request: a prime and the random number the search starts at.
PickPrime ==
  \E p \in Primes, start \in 0 .. MaxRoot :
    input' = [kind |-> "prime", p |-> p, start |-> start]

\* Two owners save their forms, each with either app.
PickTimes ==
  \E mine \in TwoHours, friend \in OneHour, myApp, friendApp \in App :
    input' = [kind |-> "times", mine |-> mine, friend |-> friend,
              myApp |-> myApp, friendApp |-> friendApp]

\* A message is sent with a new vector.
PickIv ==
  \E iv \in UNION {[1 .. n -> Bytes] : n \in 1 .. MaxBytes} :
    input' = [kind |-> "iv", iv |-> iv]

\* Two chats, of two pets each.
PickPets ==
  \E one, other \in Pairs : input' = [kind |-> "pets", one |-> one, other |-> other]

Next == input = Nothing /\ (PickPrime \/ PickTimes \/ PickIv \/ PickPets)

Spec == Init /\ [][Next]_input

----------------------------------------------------------------------------
(* Properties *)

Order(g, p) == Min({k \in 1 .. p - 1 : Power(g, k, p) = 1})

Divisors(n) == {d \in 1 .. n : n % d = 0}
RealPrime(n) == n > 1 /\ Divisors(n) = {1, n}

\* The part of n that trial division below Limit can vouch for.
Vouched(n) ==
  LET small == {q \in Divisors(n) : RealPrime(q) /\ q < Limit}
      smooth == Max({d \in Divisors(n) : \A q \in Divisors(d) : RealPrime(q) => q \in small})
  IN  IF RealPrime(n \div smooth) THEN n ELSE smooth

\* The root an Android owner sends with a request (findPrimitiveRoot) generates
\* as much of the group as the factors tried can show, all of it when they
\* leave 1 or a prime: the early return of primeFactors and its limit lose
\* nothing else.  A root of 0 stands for none found, or for a search from 0.
RootGenerates ==
  input.kind = "prime" =>
    LET root == FindPrimitiveRoot(input.p, input.start)
    IN  root # 0 => Order(root, input.p) % Vouched(input.p - 1) = 0

\* What an owner ticked in one app is what either app shows of it, in the form
\* opened again and in the hours two owners have in common, although the forms
\* write, and the screens read, with loops and indices of their own.
FreeTimeAgrees ==
  input.kind = "times" =>
    LET mine == Form(input.myApp, input.mine)
        friend == Form(input.friendApp, input.friend)
        common == input.mine \intersect input.friend
    IN  /\ ShownIos(mine) = input.mine
        /\ ShownAndroid(mine) = input.mine
        /\ ShownIos(CommonFreeTime(friend, mine)) = common
        /\ MutualSchedule(mine, friend) = common

\* The vector a message was encrypted with is read back, byte for byte, by
\* either app from the text either app stored with it (convertIV): unsigned
\* bytes of Swift, signed ones of Java, and no number that UInt8 refuses.
IvRead ==
  input.kind = "iv" =>
    LET iv == input.iv
        signed == [i \in 1 .. Len(iv) |-> Signed(iv[i])]
    IN  \A text \in {IvTextIos(iv), IvTextAndroid(signed)} :
          IvIos(text) = iv /\ IvAndroid(text) = signed

\* The two apps name the room of two pets alike, from either side, and no other
\* two pets get that name, though the ids are joined without a separator
\* (generateChatRoomId, getCombinedId): so it is for ids of one length.
RoomsDistinct ==
  input.kind = "pets" =>
    LET a == input.one[1]  b == input.one[2]
        c == input.other[1]  d == input.other[2]
    IN  /\ Cardinality({ChatRoomId(a, b), ChatRoomId(b, a),
                        CombinedId(a, b), CombinedId(b, a)}) = 1
        /\ ChatRoomId(a, b) = CombinedId(c, d) => {a, b} = {c, d}
=============================================================================
