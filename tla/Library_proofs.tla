---------------------------- MODULE Library_proofs ----------------------------
(***************************************************************************)
(* Proofs about the catalogue, for any users, titles and beginnings of      *)
(* names: look ups by name, the counters and lists of friends and books,    *)
(* and the wows and buys of the books.                                      *)
(***************************************************************************)
EXTENDS Library, DataLemmas

LibraryTyped ==
  /\ userList \in Seq(Names) /\ library \in Seq(Titles)
  /\ friends \in [Names -> Seq(Names)] /\ numFrds \in [Names -> Int]
  /\ owner \in [Titles -> Names \cup {Nobody}]
  /\ shelf \in [Names -> Seq(Titles)] /\ numBooks \in [Names -> Int]
  /\ marks \in [Titles -> [MarkKinds -> Seq(Names)]]
  /\ numMarks \in [Titles -> [MarkKinds -> Nat]]
  /\ acts \in [Names -> [Acts -> Nat]]

\* No name in the list starts with a later one: that one would not have been
\* added.  It is why a look up by the full name does not stop too early.
InOrder(list) == \A i, j \in DOMAIN list : i < j => ~Begins(list[i], list[j])

\* Nobody can mark a book before it is in the library.
Unmarked == \A b \in Titles \ ToSet(library), k \in MarkKinds : marks[b][k] = <<>>

LibraryInv ==
  /\ LibraryTyped /\ InOrder(userList) /\ InOrder(library)
  /\ ShelvesAreOwn /\ ListsAreWhole /\ Unmarked /\ MarksAgree

-----------------------------------------------------------------------------
(* Look ups.                                                                 *)

\* Place is 0 when no name fits, and the first that does otherwise.
LEMMA PlaceFinds ==
  ASSUME NEW S, NEW list \in Seq(S), NEW sought
  PROVE  LET p == Place(list, sought) IN
         \/ p = 0 /\ \A i \in DOMAIN list : ~Begins(list[i], sought)
         \/ /\ p \in DOMAIN list /\ Begins(list[p], sought)
            /\ \A i \in DOMAIN list : i < p => ~Begins(list[i], sought)
<1> DEFINE I == {i \in 1 .. Len(list) : Begins(list[i], sought)}
<1>1. Place(list, sought) = IF I # {} THEN Min(I) ELSE 0
  BY DEF Place, SelectInSeq
<1>2. I \in SUBSET Nat /\ (I # {} => Min(I) \in I /\ \A i \in I : Min(I) <= i)
  <2>1. I \in SUBSET Nat
    OBVIOUS
  <2> HIDE DEF I
  <2>2. QED
    BY <2>1, MinProperty
<1>3. CASE I = {}
  BY <1>1, <1>3
<1>4. CASE I # {}
  <2>1. DOMAIN list = 1 .. Len(list)
    OBVIOUS
  <2>2. \A i \in 1 .. Len(list) : i < Min(I) => i \notin I
    BY <1>2, <1>4
  <2>3. QED
    BY <1>1, <1>2, <1>4, <2>1, <2>2
<1>5. QED
  BY <1>3, <1>4

\* A list in order has each name once, and finds it.
LEMMA InOrderFinds ==
  ASSUME NEW S, NEW list \in Seq(S), InOrder(list)
  PROVE  /\ IsInjective(list)
         /\ \A n \in ToSet(list) : Place(list, n) # 0 /\ list[Place(list, n)] = n
<1>1. IsInjective(list)
  <2>1. SUFFICES ASSUME NEW i \in DOMAIN list, NEW j \in DOMAIN list, list[i] = list[j], i # j
                 PROVE  FALSE
    BY DEF IsInjective
  <2>2. i \in Nat /\ j \in Nat /\ (i < j \/ j < i)
    BY <2>1
  <2>3. QED
    BY <2>1, <2>2 DEF InOrder, Begins
<1>2. ASSUME NEW n \in ToSet(list)
      PROVE  Place(list, n) # 0 /\ list[Place(list, n)] = n
  <2>1. PICK j \in DOMAIN list : list[j] = n
    BY DEF ToSet
  <2>2. Begins(list[j], n) /\ 0 \notin DOMAIN list
    BY <2>1 DEF Begins
  <2>3. Place(list, n) \in DOMAIN list /\ Begins(list[Place(list, n)], n) /\ ~(j < Place(list, n))
    BY <2>2, PlaceFinds
  <2>4. ~(Place(list, n) < j)
    BY <2>1, <2>3 DEF InOrder
  <2>5. j = Place(list, n)
    BY <2>3, <2>4
  <2>6. QED
    BY <2>1, <2>2, <2>5
<1>3. QED
  BY <1>1, <1>2

\* A name that no name in the list starts with is added in order.
LEMMA InOrderGrows ==
  ASSUME NEW S, NEW list \in Seq(S), InOrder(list), NEW n \in S, Place(list, n) = 0
  PROVE  InOrder(Append(list, n)) /\ n \notin ToSet(list)
<1>1. \A i \in DOMAIN list : ~Begins(list[i], n)
  BY PlaceFinds
<1>2. /\ DOMAIN Append(list, n) = DOMAIN list \cup {Len(list) + 1}
      /\ \A i \in DOMAIN list : Append(list, n)[i] = list[i] /\ i < Len(list) + 1
      /\ Append(list, n)[Len(list) + 1] = n
  OBVIOUS
<1>3. InOrder(Append(list, n))
  BY <1>1, <1>2 DEF InOrder
<1>4. n \notin ToSet(list)
  BY <1>1 DEF ToSet, Begins
<1>5. QED
  BY <1>3, <1>4

\* FoundByName is what the order of the lists is for.
LEMMA OrderedAreFound == LibraryInv => FoundByName
<1> SUFFICES ASSUME LibraryInv PROVE FoundByName
  OBVIOUS
<1>1. userList \in Seq(Names) /\ library \in Seq(Titles) /\ InOrder(userList) /\ InOrder(library)
  BY DEF LibraryInv, LibraryTyped
<1>2. QED
  BY <1>1, InOrderFinds DEF FoundByName, People, User, Book

-----------------------------------------------------------------------------
(* Counting.                                                                 *)

\* The books a user owns are finitely many.
LEMMA OwnedIsFinite ==
  ASSUME LibraryInv, NEW u \in Names
  PROVE  /\ IsFiniteSet(Owned(u)) /\ Cardinality(Owned(u)) \in Nat
         /\ (Owned(u) = {}) <=> (Cardinality(Owned(u)) = 0)
<1>1. library \in Seq(Titles)
  BY DEF LibraryInv, LibraryTyped
<1>2. IsFiniteSet(ToSet(library)) /\ Owned(u) \in SUBSET ToSet(library)
  BY <1>1, ElementsAreFinite DEF Owned
<1>3. IsFiniteSet(Owned(u))
  BY <1>2, FS_Subset
<1>4. QED
  BY <1>3, FS_CardinalityType, FS_EmptySet

\* How often y is in a sequence.
Times(s, y) == Cardinality({i \in DOMAIN s : s[i] = y})

\* It is a number.
LEMMA TimesCount ==
  ASSUME NEW S, NEW s \in Seq(S), NEW y
  PROVE  IsFiniteSet({i \in DOMAIN s : s[i] = y}) /\ Times(s, y) \in Nat
<1> DEFINE A == {i \in DOMAIN s : s[i] = y}
<1>1. IsFiniteSet(1 .. Len(s)) /\ A \in SUBSET (1 .. Len(s))
  BY FS_Interval
<1> HIDE DEF A
<1>2. IsFiniteSet(A) /\ Cardinality(A) \in Nat
  BY <1>1, FS_Subset, FS_CardinalityType
<1>3. QED
  BY <1>2 DEF A, Times

\* One more when it is put in front.
LEMMA OneMore ==
  ASSUME NEW S, NEW s \in Seq(S), NEW t \in Seq(S), NEW x, NEW y,
         Len(t) = Len(s) + 1, t[1] = x, \A i \in 1 .. Len(s) : t[i + 1] = s[i]
  PROVE  Times(t, y) = Times(s, y) + (IF x = y THEN 1 ELSE 0)
<1> DEFINE A == {i \in DOMAIN s : s[i] = y}
           B == {i \in DOMAIN t : t[i] = y}
           C == {i \in B : i # 1}
           shift == [i \in A |-> i + 1]
<1>1. /\ t \in Seq(S) /\ DOMAIN t = 1 .. (Len(s) + 1) /\ DOMAIN s = 1 .. Len(s) /\ Len(s) \in Nat
      /\ t[1] = x /\ \A i \in 1 .. Len(s) : t[i + 1] = s[i]
  OBVIOUS
<1>2. IsFiniteSet(A) /\ Cardinality(A) \in Nat
  BY TimesCount DEF Times
<1>3. shift \in Bijection(A, C)
  <2>1. shift \in [A -> C] /\ \A i, j \in A : shift[i] = shift[j] => i = j
    BY <1>1
  <2>2. ASSUME NEW c \in C PROVE \E i \in A : shift[i] = c
    <3>1. c - 1 \in 1 .. Len(s) /\ t[(c - 1) + 1] = s[c - 1] /\ t[c] = y /\ (c - 1) + 1 = c
      BY <1>1, <2>2
    <3>2. c - 1 \in A
      BY <1>1, <3>1
    <3>3. QED
      BY <3>1, <3>2
  <2> HIDE DEF shift, A, C
  <2>3. QED
    BY <2>1, <2>2, Fun_IsBij
<1>4. IsFiniteSet(C) /\ Cardinality(C) = Cardinality(A)
  <2> HIDE DEF shift, A, C
  <2>1. QED
    BY <1>2, <1>3, FS_Bijection DEF ExistsBijection
<1>5. 1 \notin C /\ B = IF x = y THEN C \cup {1} ELSE C
  BY <1>1
<1>6. Cardinality(B) = Cardinality(A) + (IF x = y THEN 1 ELSE 0)
  <2> HIDE DEF A, B, C
  <2>1. Cardinality(C \cup {1}) = Cardinality(C) + 1
    BY <1>4, <1>5, FS_AddElement
  <2>2. QED
    BY <1>2, <1>4, <1>5, <2>1
<1>7. QED
  BY <1>6 DEF Times

-----------------------------------------------------------------------------
(* The commands.                                                             *)

\* The library starts empty.
LEMMA LibraryInitInv == LibraryInit => LibraryInv
<1> SUFFICES ASSUME LibraryInit PROVE LibraryInv
  OBVIOUS
<1>1. \A S : <<>> \in Seq(S)
  OBVIOUS
<1>2. LibraryTyped
  BY <1>1 DEF LibraryInit, LibraryTyped
<1>3. InOrder(userList) /\ InOrder(library) /\ Unmarked
  BY DEF LibraryInit, InOrder, Unmarked
<1>4. \A u \in Names : Owned(u) = {} /\ ToSet(shelf[u]) = {} /\ Cardinality(Owned(u)) = 0
  <2>1. \A u \in Names : Owned(u) = {} /\ ToSet(shelf[u]) = {}
    BY DEF LibraryInit, Owned, ToSet
  <2>2. QED
    BY <2>1, FS_EmptySet
<1>5. \A u \in Names : IsInjective(shelf[u]) /\ IsInjective(friends[u]) /\ Len(friends[u]) = 0
  BY DEF LibraryInit, IsInjective
<1>6. ShelvesAreOwn /\ ListsAreWhole
  BY <1>4, <1>5 DEF LibraryInit, ShelvesAreOwn, ListsAreWhole
<1>7. MarksAgree
  <2>1. \A b \in Titles, k \in MarkKinds :
          numMarks[b][k] = Len(marks[b][k]) /\ owner[b] \notin ToSet(marks[b][k])
    BY DEF LibraryInit, ToSet
  <2>2. ASSUME NEW u \in Names, NEW k \in MarkKinds PROVE acts[u][k] = Marked(u, k)
    <3> DEFINE f == [b \in Titles |-> Quantify(DOMAIN marks[b][k], LAMBDA i : marks[b][k][i] = u)]
    <3>1. \A b \in Titles : {i \in DOMAIN marks[b][k] : marks[b][k][i] = u} = {}
      BY DEF LibraryInit
    <3>2. f \in [Titles -> Int] /\ \A b \in Titles : f[b] = 0
      BY <3>1, FS_EmptySet DEF Quantify
    <3>3. Marked(u, k) = SumFunction(f)
      BY DEF Marked
    <3>4. acts[u][k] = 0
      BY DEF LibraryInit, Acts
    <3> HIDE DEF f
    <3>5. QED
      BY <3>2, <3>3, <3>4, SumType, LibraryAssumption
  <2>3. \A b \in Titles, k \in MarkKinds : Len(marks[b][k]) <= numMarks[b][k]
    BY DEF LibraryInit
  <2>4. \A u \in Names, k \in MarkKinds : acts[u][k] <= Marked(u, k)
    <3>1. \A u \in Names, k \in MarkKinds : acts[u][k] = 0
      BY DEF LibraryInit, Acts
    <3>2. QED
      BY <2>2, <3>1
  <2>5. QED
    BY <2>1, <2>2, <2>3, <2>4 DEF MarksAgree
<1>8. QED
  BY <1>2, <1>3, <1>6, <1>7 DEF LibraryInv

\* The books' records of a mark are all that is counted.
LEMMA MarkedStays ==
  ASSUME UNCHANGED marks, NEW u, NEW k
  PROVE  Marked(u, k)' = Marked(u, k)
<1> DEFINE In(m) == SumFunction([b \in Titles |-> Quantify(DOMAIN m[b][k], LAMBDA i : m[b][k][i] = u)])
<1>1. Marked(u, k) = In(marks) /\ Marked(u, k)' = In(marks')
  BY DEF Marked, Quantify
<1> HIDE DEF In
<1>2. QED
  BY <1>1

\* A command that changes nothing; the only ending that is told apart is a list
\* without its head.
LEMMA EndsKeeps ==
  ASSUME LibraryInv, NEW how, Ends(how), how = "list" => cut # {}
  PROVE  LibraryInv'
<1> USE DEF Ends, userVars, friendVars, bookVars, markVars, actyVars, LibraryInv
<1>1. LibraryTyped' /\ InOrder(userList)' /\ InOrder(library)' /\ Unmarked'
  BY DEF LibraryTyped, InOrder, Unmarked
<1>2. ShelvesAreOwn' /\ ListsAreWhole'
  BY DEF ShelvesAreOwn, ListsAreWhole, Owned
<1>3. MarksAgree'
  BY MarkedStays DEF MarksAgree
<1>4. QED
  BY <1>1, <1>2, <1>3

\* Users and books are found by what the lists hold.
LEMMA LookUps ==
  ASSUME LibraryInv
  PROVE  /\ \A n \in Names : KnowsUser(n) => User(n) \in Names /\ User(n) \in People
         /\ \A b \in Titles : KnowsBook(b) => Book(b) \in Titles /\ Book(b) \in ToSet(library)
<1>1. userList \in Seq(Names) /\ library \in Seq(Titles)
  BY DEF LibraryInv, LibraryTyped
<1>2. \A n \in Names : KnowsUser(n) => Place(userList, n) \in DOMAIN userList
  BY <1>1, PlaceFinds DEF KnowsUser
<1>3. \A b \in Titles : KnowsBook(b) => Place(library, b) \in DOMAIN library
  BY <1>1, PlaceFinds DEF KnowsBook
<1>4. QED
  BY <1>1, <1>2, <1>3 DEF User, Book, People, ToSet

\* An activity that is no mark.
LEMMA ActivityKeeps ==
  ASSUME LibraryInv, NEW u \in Names, NEW a \in {"joined", "friend", "book"},
         AddActy(u, a) \/ UNCHANGED actyVars
  PROVE  /\ acts' \in [Names -> [Acts -> Nat]] /\ failed \subseteq failed'
         /\ \A v \in Names, k \in MarkKinds : acts'[v][k] = acts[v][k]
<1>1. acts \in [Names -> [Acts -> Nat]] /\ a \in Acts /\ a \notin MarkKinds /\ MarkKinds \subseteq Acts
  BY DEF LibraryInv, LibraryTyped, Acts, MarkKinds
<1>2. \/ acts' = [acts EXCEPT ![u] = [acts[u] EXCEPT ![a] = acts[u][a] + 1]]
      \/ acts' = acts
  BY DEF AddActy, actyVars
<1>3. failed \subseteq failed'
  BY DEF AddActy, actyVars
<1>4. [acts[u] EXCEPT ![a] = acts[u][a] + 1] \in [Acts -> Nat]
  BY <1>1
<1>5. QED
  BY <1>1, <1>2, <1>3, <1>4

\* The marks agree as long as no new owner has marked the book.
LEMMA MarksStay ==
  ASSUME LibraryInv, UNCHANGED <<marks, numMarks>>, failed \subseteq failed',
         \A v \in Names, k \in MarkKinds : acts'[v][k] = acts[v][k],
         \A b \in Titles, k \in MarkKinds : owner'[b] \notin ToSet(marks[b][k])
  PROVE  MarksAgree'
BY MarkedStays DEF LibraryInv, MarksAgree

\* The new user is last, and his name starts with no other.
LEMMA AddUserKeeps ==
  ASSUME LibraryInv, NEW n \in Names, NEW m \in Mails, AddUser(n, m)
  PROVE  LibraryInv'
<1>1. CASE KnowsUser(n)
  BY <1>1, EndsKeeps DEF AddUser
<1>2. CASE ~KnowsUser(n)
  <2>1. /\ userList' = Append(userList, n) /\ AddActy(n, "joined")
        /\ UNCHANGED <<friends, numFrds, library, owner, shelf, numBooks, marks, numMarks>>
        /\ UNCHANGED <<libRuns, cut>>
    BY <1>2 DEF AddUser, friendVars, bookVars, markVars
  <2>2. userList' \in Seq(Names) /\ InOrder(userList)'
    BY <1>2, <2>1, InOrderGrows DEF LibraryInv, LibraryTyped, KnowsUser
  <2>3. LibraryTyped'
    BY <2>1, <2>2, ActivityKeeps DEF LibraryInv, LibraryTyped
  <2>4. InOrder(library)' /\ Unmarked' /\ ShelvesAreOwn' /\ ListsAreWhole'
    BY ZenonT(30), <2>1 DEF LibraryInv, InOrder, Unmarked, ShelvesAreOwn, ListsAreWhole, Owned
  <2>5. MarksAgree'
    BY <2>1, ActivityKeeps, MarksStay DEF LibraryInv, MarksAgree
  <2>6. QED
    BY <2>2, <2>3, <2>4, <2>5 DEF LibraryInv
<1>3. QED
  BY <1>1, <1>2

\* A list of friends without a head has lost it: the counter counts those behind.
LEMMA AddFriendKeeps ==
  ASSUME LibraryInv, NEW u \in Names, NEW n \in Names, AddFriend(u, n)
  PROVE  LibraryInv'
<1> DEFINE f == User(n)
<1>1. f \in Names
  BY LookUps DEF AddFriend
<1>2. friends \in [Names -> Seq(Names)] /\ numFrds \in [Names -> Int] /\ friends[u] \in Seq(Names)
  BY DEF LibraryInv, LibraryTyped
<1>3. CASE numFrds[u] # 0 /\ friends[u] = <<>>
  <2>1. <<u, "friends">> \in cut
    BY <1>2, <1>3 DEF LibraryInv, ListsAreWhole
  <2>2. QED
    BY <1>3, <2>1, EndsKeeps DEF AddFriend
<1>4. CASE ~(numFrds[u] # 0 /\ friends[u] = <<>>) /\ f \in ToSet(friends[u])
  BY <1>4, EndsKeeps DEF AddFriend
<1>5. CASE ~(numFrds[u] # 0 /\ friends[u] = <<>>) /\ f \notin ToSet(friends[u])
  <2>1. /\ friends' = [friends EXCEPT ![u] = Append(friends[u], f)]
        /\ numFrds' = [numFrds EXCEPT ![u] = numFrds[u] + 1]
        /\ AddActy(u, "friend") \/ UNCHANGED actyVars
        /\ UNCHANGED <<userList, library, owner, shelf, numBooks, marks, numMarks>>
        /\ UNCHANGED <<libRuns, cut>>
    BY <1>5 DEF AddFriend, userVars, bookVars, markVars
  <2> HIDE DEF f
  <2>2. LibraryTyped'
    <3>1. Append(friends[u], f) \in Seq(Names) /\ numFrds[u] + 1 \in Int
      BY <1>1, <1>2
    <3>2. friends' \in [Names -> Seq(Names)] /\ numFrds' \in [Names -> Int]
      BY <1>2, <2>1, <3>1
    <3>3. QED
      BY <2>1, <3>2, ActivityKeeps DEF LibraryInv, LibraryTyped
  <2>3. InOrder(userList)' /\ InOrder(library)' /\ Unmarked' /\ ShelvesAreOwn'
    BY <2>1 DEF LibraryInv, InOrder, Unmarked, ShelvesAreOwn, Owned
  <2>4. ListsAreWhole'
    <3>1. /\ Len(friends'[u]) = Len(friends[u]) + 1 /\ numFrds'[u] = numFrds[u] + 1
          /\ IsInjective(friends[u]) => IsInjective(friends'[u])
      <4>1. friends'[u] = Append(friends[u], f) /\ numFrds'[u] = numFrds[u] + 1
        BY <1>2, <2>1
      <4>2. \A i \in DOMAIN friends[u] : friends[u][i] # f
        BY <1>5 DEF ToSet, f
      <4>3. QED
        BY SMTT(30), <1>1, <1>2, <4>1, <4>2 DEF IsInjective
    <3>2. \A v \in Names : v # u => friends'[v] = friends[v] /\ numFrds'[v] = numFrds[v]
      BY <1>2, <2>1
    <3>3. \A v \in Names : <<v, "friends">> \notin cut' =>
            Len(friends'[v]) = numFrds'[v] /\ IsInjective(friends'[v])
      BY <2>1, <3>1, <3>2 DEF LibraryInv, ListsAreWhole
    <3>4. QED
      BY <2>1, <3>3 DEF LibraryInv, ListsAreWhole, Owned
  <2>5. MarksAgree'
    BY <2>1, ActivityKeeps, MarksStay DEF LibraryInv, MarksAgree
  <2>6. QED
    BY <2>2, <2>3, <2>4, <2>5 DEF LibraryInv
<1>6. QED
  BY <1>3, <1>4, <1>5

\* The name sought stands in the list, whole or longer.
LEMMA Removal ==
  ASSUME NEW S, NEW list \in Seq(S), NEW n, Place(list, n) # 0
  PROVE  LET i == Place(list, n) IN
         /\ i \in DOMAIN list /\ list[i] \in ToSet(list) /\ list[i] \in S
         /\ Detach(list, i) \in Seq(S)
         /\ ToSet(Detach(list, i)) \subseteq ToSet(list)
         /\ IsInjective(list) =>
              /\ IsInjective(Detach(list, i))
              /\ ToSet(Detach(list, i)) \subseteq ToSet(list) \ {list[i]}
         /\ ~(i = 1 /\ Len(list) > 1) =>
              /\ Len(Detach(list, i)) = Len(list) - 1
              /\ ToSet(list) \ {list[i]} \subseteq ToSet(Detach(list, i))
<1> DEFINE i == Place(list, n)
           d == Detach(list, i)
<1>1. i \in DOMAIN list /\ DOMAIN list = 1 .. Len(list) /\ Len(list) \in Nat
  BY PlaceFinds
<1> HIDE DEF i
<1>2. list[i] \in ToSet(list) /\ list[i] \in S
  BY <1>1 DEF ToSet
<1>3. CASE i = 1
  <2>1. d = <<>> /\ d \in Seq(S) /\ Len(d) = 0
    BY <1>3 DEF Detach
  <2>2. ToSet(d) = {} /\ IsInjective(d)
    BY <2>1 DEF ToSet, IsInjective
  <2>3. ~(Len(list) > 1) => Len(list) = 1 /\ ToSet(list) \subseteq {list[i]}
    BY <1>1, <1>3 DEF ToSet
  <2> HIDE DEF d
  <2>4. /\ ToSet(d) \subseteq ToSet(list) \ {list[i]}
        /\ ~(i = 1 /\ Len(list) > 1) =>
             Len(d) = Len(list) - 1 /\ ToSet(list) \ {list[i]} \subseteq ToSet(d)
    BY <1>1, <1>3, <2>1, <2>2, <2>3
  <2>5. QED
    BY <1>1, <1>2, <2>1, <2>2, <2>4 DEF i, d
<1>4. CASE i # 1
  <2>1. d = RemoveAt(list, i)
    BY <1>4 DEF Detach
  <2> HIDE DEF d
  <2>2. /\ d \in Seq(S) /\ Len(d) = Len(list) - 1
        /\ \A j \in 1 .. (Len(list) - 1) : d[j] = IF j < i THEN list[j] ELSE list[j + 1]
    BY <1>1, <2>1, RemoveAtPlaces
  <2>3. DOMAIN d = 1 .. (Len(list) - 1)
    BY <1>1, <2>2
  <2>4. \A j \in DOMAIN d : \E l \in DOMAIN list : l # i /\ d[j] = list[l] /\ l = IF j < i THEN j ELSE j + 1
    BY <1>1, <2>2, <2>3
  <2>5. ToSet(d) \subseteq ToSet(list)
    BY <2>4 DEF ToSet
  <2>6. ASSUME IsInjective(list)
        PROVE  IsInjective(d) /\ ToSet(d) \subseteq ToSet(list) \ {list[i]}
    <3>1. \A j, l \in DOMAIN list : list[j] = list[l] => j = l
      BY <2>6 DEF IsInjective
    <3>2. \A j \in DOMAIN d : d[j] # list[i]
      BY <1>1, <2>4, <3>1
    <3>3. ASSUME NEW j \in DOMAIN d, NEW k \in DOMAIN d, d[j] = d[k] PROVE j = k
      <4>1. PICK a \in DOMAIN list : a # i /\ d[j] = list[a] /\ a = IF j < i THEN j ELSE j + 1
        BY <2>4
      <4>2. PICK b \in DOMAIN list : b # i /\ d[k] = list[b] /\ b = IF k < i THEN k ELSE k + 1
        BY <2>4
      <4>3. a = b
        BY <3>1, <3>3, <4>1, <4>2
      <4>4. j \in Nat /\ k \in Nat /\ i \in Nat
        BY <1>1, <2>3
      <4>5. QED
        BY <4>1, <4>2, <4>3, <4>4
    <3>4. QED
      BY <2>5, <3>2, <3>3 DEF ToSet, IsInjective
  <2>7. ToSet(list) \ {list[i]} \subseteq ToSet(d)
    <3>1. SUFFICES ASSUME NEW l \in DOMAIN list, l # i PROVE list[l] \in ToSet(d)
      BY DEF ToSet
    <3>2. l < i => l \in DOMAIN d /\ d[l] = list[l]
      BY <1>1, <2>2, <2>3
    <3>3. ~(l < i) => l - 1 \in DOMAIN d /\ d[l - 1] = list[l]
      BY <1>1, <2>2, <2>3, <3>1
    <3>4. QED
      BY <3>2, <3>3 DEF ToSet
  <2>8. QED
    BY <1>1, <1>2, <1>4, <2>2, <2>5, <2>6, <2>7 DEF i, d
<1>5. QED
  BY <1>3, <1>4

\* What is lost besides the friend removed is noted in cut.
LEMMA RmFriendKeeps ==
  ASSUME LibraryInv, NEW u \in Names, NEW n \in Names, RmFriend(u, n)
  PROVE  LibraryInv'
<1> DEFINE i == Place(friends[u], n)
           d == Detach(friends[u], i)
<1>1. friends \in [Names -> Seq(Names)] /\ numFrds \in [Names -> Int] /\ friends[u] \in Seq(Names)
  BY DEF LibraryInv, LibraryTyped
<1>2. /\ i # 0
      /\ friends' = [friends EXCEPT ![u] = d]
      /\ numFrds' = [numFrds EXCEPT ![u] = numFrds[u] - 1]
      /\ cut' = IF i = 1 /\ Len(friends[u]) > 1 THEN cut \cup {<<u, "friends">>} ELSE cut
      /\ UNCHANGED <<userList, library, owner, shelf, numBooks, marks, numMarks>>
      /\ UNCHANGED <<failed, libRuns, acts>>
  BY <1>1 DEF RmFriend, Cuts, userVars, bookVars, markVars, actyVars
<1>3. /\ d \in Seq(Names)
      /\ IsInjective(friends[u]) => IsInjective(d)
      /\ ~(i = 1 /\ Len(friends[u]) > 1) => Len(d) = Len(friends[u]) - 1
  BY <1>1, <1>2, Removal
<1> HIDE DEF d, i
<1>4. LibraryTyped'
  <2>1. friends' \in [Names -> Seq(Names)] /\ numFrds' \in [Names -> Int]
    BY <1>1, <1>2, <1>3
  <2>2. QED
    BY <1>2, <2>1 DEF LibraryInv, LibraryTyped
<1>5. InOrder(userList)' /\ InOrder(library)' /\ Unmarked' /\ ShelvesAreOwn'
  BY <1>2 DEF LibraryInv, InOrder, Unmarked, ShelvesAreOwn, Owned
<1>6. ListsAreWhole'
  <2>1. friends'[u] = d /\ numFrds'[u] = numFrds[u] - 1
    BY <1>1, <1>2
  <2>2. \A v \in Names : v # u => friends'[v] = friends[v] /\ numFrds'[v] = numFrds[v]
    BY <1>1, <1>2
  <2>3. /\ cut \subseteq cut'
        /\ \A v \in Names : <<v, "books">> \in cut' => <<v, "books">> \in cut
        /\ <<u, "friends">> \notin cut' => ~(i = 1 /\ Len(friends[u]) > 1)
    BY <1>2
  <2>4. ASSUME NEW v \in Names, <<v, "friends">> \notin cut'
        PROVE  Len(friends'[v]) = numFrds'[v] /\ IsInjective(friends'[v])
    <3>1. Len(friends[v]) = numFrds[v] /\ IsInjective(friends[v])
      BY <2>3, <2>4 DEF LibraryInv, ListsAreWhole
    <3>2. QED
      BY <1>3, <2>1, <2>2, <2>3, <2>4, <3>1
  <2>5. \A v \in Names : <<v, "books">> \notin cut' => ToSet(shelf'[v]) = Owned(v)'
    BY <1>2, <2>3 DEF LibraryInv, ListsAreWhole, Owned
  <2>6. libRuns' = "list" => cut' # {}
    BY <1>2, <2>3 DEF LibraryInv, ListsAreWhole
  <2>7. QED
    BY <2>4, <2>5, <2>6 DEF ListsAreWhole
<1>7. MarksAgree'
  BY <1>2, MarksStay DEF LibraryInv, MarksAgree
<1>8. QED
  BY <1>4, <1>5, <1>6, <1>7 DEF LibraryInv

\* One shelf changes with what its user owns.
LEMMA ShelfChanges ==
  ASSUME LibraryInv, NEW u \in Names, NEW d \in Seq(Titles), NEW n \in Int,
         shelf' = [shelf EXCEPT ![u] = d], numBooks' = [numBooks EXCEPT ![u] = n],
         UNCHANGED <<friends, numFrds, libRuns>>,
         cut' = cut \/ cut' = cut \cup {<<u, "books">>},
         \A v \in Names \ {u} : Owned(v)' = Owned(v),
         n = Cardinality(Owned(u)'), ToSet(d) \subseteq Owned(u)', IsInjective(d),
         <<u, "books">> \notin cut' => Owned(u)' \subseteq ToSet(d)
  PROVE  ShelvesAreOwn' /\ ListsAreWhole'
<1>1. shelf \in [Names -> Seq(Titles)] /\ numBooks \in [Names -> Int]
  BY DEF LibraryInv, LibraryTyped
<1>2. shelf'[u] = d /\ numBooks'[u] = n
  BY <1>1
<1>3. \A v \in Names : v # u =>
        shelf'[v] = shelf[v] /\ numBooks'[v] = numBooks[v] /\ Owned(v)' = Owned(v)
  BY <1>1
<1>4. /\ cut \subseteq cut'
      /\ \A v \in Names : <<v, "friends">> \in cut' => <<v, "friends">> \in cut
      /\ \A v \in Names : <<v, "books">> \in cut' => v = u \/ <<v, "books">> \in cut
  OBVIOUS
<1>5. ASSUME NEW v \in Names
      PROVE  /\ numBooks'[v] = Cardinality(Owned(v)')
             /\ ToSet(shelf'[v]) \subseteq Owned(v)' /\ IsInjective(shelf'[v])
  <2>1. CASE v = u
    BY <1>2, <2>1
  <2>2. CASE v # u
    BY <1>3, <2>2 DEF LibraryInv, ShelvesAreOwn
  <2>3. QED
    BY <2>1, <2>2
<1>6. ShelvesAreOwn'
  BY <1>5 DEF ShelvesAreOwn
<1>7. ASSUME NEW v \in Names, <<v, "books">> \notin cut'
      PROVE  ToSet(shelf'[v]) = Owned(v)'
  <2>1. CASE v = u
    <3>1. ToSet(d) = Owned(u)'
      BY <1>7, <2>1
    <3>2. QED
      BY <1>2, <2>1, <3>1
  <2>2. CASE v # u
    <3>1. <<v, "books">> \notin cut
      BY <1>4, <1>7
    <3>2. ToSet(shelf[v]) = Owned(v)
      BY <3>1 DEF LibraryInv, ListsAreWhole
    <3>3. QED
      BY <1>3, <2>2, <3>2
  <2>3. QED
    BY <2>1, <2>2
<1>8. \A v \in Names : <<v, "friends">> \notin cut' =>
        Len(friends'[v]) = numFrds'[v] /\ IsInjective(friends'[v])
  BY <1>4 DEF LibraryInv, ListsAreWhole
<1>9. libRuns' = "list" => cut' # {}
  BY <1>4 DEF LibraryInv, ListsAreWhole
<1>10. QED
  BY <1>6, <1>7, <1>8, <1>9 DEF ListsAreWhole

\* The new book has no owner's marks to agree with, and is lost from no shelf.
LEMMA AddBookKeeps ==
  ASSUME LibraryInv, NEW u \in Names, NEW b \in Titles, AddBook(u, b)
  PROVE  LibraryInv'
<1>1. /\ library \in Seq(Titles) /\ shelf \in [Names -> Seq(Titles)] /\ shelf[u] \in Seq(Titles)
      /\ numBooks \in [Names -> Int] /\ owner \in [Titles -> Names \cup {Nobody}]
  BY DEF LibraryInv, LibraryTyped
<1>2. /\ numBooks[u] = Cardinality(Owned(u))
      /\ ToSet(shelf[u]) \subseteq Owned(u) /\ IsInjective(shelf[u])
      /\ <<u, "books">> \notin cut => ToSet(shelf[u]) = Owned(u)
  BY DEF LibraryInv, ShelvesAreOwn, ListsAreWhole
<1>3. CASE KnowsBook(b)
  BY <1>3, EndsKeeps DEF AddBook
<1>4. CASE ~KnowsBook(b) /\ numBooks[u] # 0 /\ shelf[u] = <<>>
  <2>1. Owned(u) # {} /\ ToSet(shelf[u]) = {}
    BY <1>2, <1>4, OwnedIsFinite DEF ToSet
  <2>2. <<u, "books">> \in cut
    BY <1>2, <2>1
  <2>3. QED
    BY <1>4, <2>2, EndsKeeps DEF AddBook
<1>5. CASE ~KnowsBook(b) /\ ~(numBooks[u] # 0 /\ shelf[u] = <<>>)
  <2> DEFINE d == PutOnShelf(shelf[u], b)
  <2>1. /\ library' = Append(library, b)
        /\ owner' = [owner EXCEPT ![b] = u]
        /\ shelf' = [shelf EXCEPT ![u] = d]
        /\ numBooks' = [numBooks EXCEPT ![u] = numBooks[u] + 1]
        /\ cut' = IF Len(shelf[u]) > 1 THEN cut \cup {<<u, "books">>} ELSE cut
        /\ AddActy(u, "book")
        /\ UNCHANGED <<userList, friends, numFrds, marks, numMarks, libRuns>>
    BY <1>5 DEF AddBook, userVars, friendVars, markVars
  <2>2. library' \in Seq(Titles) /\ InOrder(library)' /\ b \notin ToSet(library)
    BY <1>1, <1>5, <2>1, InOrderGrows DEF LibraryInv, KnowsBook
  <2>3. ToSet(library') = ToSet(library) \cup {b}
    BY ZenonT(30), <1>1, <2>1, ElementsOfAppend
  <2>4. owner' \in [Titles -> Names \cup {Nobody}] /\ owner'[b] = u /\ \A x \in Titles \ {b} : owner'[x] = owner[x]
    BY <1>1, <2>1
  <2>5. ToSet(library) \subseteq Titles
    BY <1>1 DEF ToSet
  <2>6. Owned(u)' = Owned(u) \cup {b} /\ \A v \in Names \ {u} : Owned(v)' = Owned(v)
    BY <2>2, <2>3, <2>4, <2>5 DEF Owned
  <2>7. Cardinality(Owned(u)') = numBooks[u] + 1
    <3>1. b \notin Owned(u)
      BY <2>2 DEF Owned
    <3>2. QED
      BY ZenonT(30), <1>2, <2>6, <3>1, OwnedIsFinite, FS_AddElement
  <2>8. b \notin ToSet(shelf[u])
    BY <1>2, <2>2 DEF Owned
  <2>9. /\ d \in Seq(Titles) /\ IsInjective(d) /\ b \in ToSet(d)
        /\ ToSet(d) \subseteq ToSet(shelf[u]) \cup {b}
        /\ ~(Len(shelf[u]) > 1) => ToSet(shelf[u]) \subseteq ToSet(d)
    <3>1. CASE shelf[u] = <<>>
      <4>1. d = <<b>> /\ ToSet(shelf[u]) = {}
        BY <3>1 DEF PutOnShelf, ToSet
      <4> HIDE DEF d
      <4>2. d \in Seq(Titles) /\ IsInjective(d) /\ ToSet(d) = {b}
        BY <4>1 DEF ToSet, IsInjective
      <4>3. QED
        BY <4>1, <4>2
    <3>2. CASE shelf[u] # <<>>
      <4>1. d = <<shelf[u][1], b>> /\ 1 \in DOMAIN shelf[u] /\ shelf[u][1] \in Titles
        BY <1>1, <3>2 DEF PutOnShelf
      <4>2. shelf[u][1] \in ToSet(shelf[u])
        BY <4>1 DEF ToSet
      <4> HIDE DEF d
      <4>3. d \in Seq(Titles) /\ DOMAIN d = 1 .. 2 /\ d[1] = shelf[u][1] /\ d[2] = b
        BY <4>1
      <4>4. ToSet(d) = {shelf[u][1], b}
        BY <4>3 DEF ToSet
      <4>5. IsInjective(d)
        BY <2>8, <4>2, <4>3 DEF IsInjective
      <4>6. ~(Len(shelf[u]) > 1) => ToSet(shelf[u]) \subseteq {shelf[u][1]}
        <5>1. DOMAIN shelf[u] = 1 .. Len(shelf[u]) /\ Len(shelf[u]) \in Nat
          BY <1>1
        <5>2. QED
          BY <5>1 DEF ToSet
      <4>7. QED
        BY <4>2, <4>3, <4>4, <4>5, <4>6
    <3>3. QED
      BY <3>1, <3>2
  <2> HIDE DEF d
  <2>10. ShelvesAreOwn' /\ ListsAreWhole'
    <3>1. ToSet(d) \subseteq Owned(u)' /\ (<<u, "books">> \notin cut' => Owned(u)' \subseteq ToSet(d))
      BY <1>2, <2>1, <2>6, <2>9
    <3>2. numBooks[u] + 1 \in Int
      BY <1>1
    <3>3. QED
      BY <2>1, <2>6, <2>7, <2>9, <3>1, <3>2, ShelfChanges
  <2>11. LibraryTyped'
    <3>1. shelf' \in [Names -> Seq(Titles)] /\ numBooks' \in [Names -> Int]
      BY <1>1, <2>1, <2>9
    <3>2. QED
      BY <2>1, <2>2, <2>4, <3>1, ActivityKeeps DEF LibraryInv, LibraryTyped
  <2>12. InOrder(userList)' /\ Unmarked'
    BY <2>1, <2>3 DEF LibraryInv, InOrder, Unmarked
  <2>13. MarksAgree'
    <3>1. ASSUME NEW x \in Titles, NEW k \in MarkKinds PROVE owner'[x] \notin ToSet(marks[x][k])
      <4>1. CASE x = b
        BY <2>2, <4>1 DEF LibraryInv, Unmarked, ToSet
      <4>2. CASE x # b
        BY <2>4, <4>2 DEF LibraryInv, MarksAgree
      <4>3. QED
        BY <4>1, <4>2
    <3>2. QED
      BY <2>1, <3>1, ActivityKeeps, MarksStay
  <2>14. QED
    BY <2>2, <2>10, <2>11, <2>12, <2>13 DEF LibraryInv
<1>6. QED
  BY <1>3, <1>4, <1>5

\* The book removed is the user's own, so the counter follows what is owned.
LEMMA RmBookKeeps ==
  ASSUME LibraryInv, NEW u \in Names, NEW b \in Titles, RmBook(u, b)
  PROVE  LibraryInv'
<1> DEFINE i == Place(shelf[u], b)
           t == shelf[u][i]
           d == Detach(shelf[u], i)
<1>1. /\ library \in Seq(Titles) /\ shelf \in [Names -> Seq(Titles)] /\ shelf[u] \in Seq(Titles)
      /\ numBooks \in [Names -> Int] /\ owner \in [Titles -> Names \cup {Nobody}]
      /\ marks \in [Titles -> [MarkKinds -> Seq(Names)]]
  BY DEF LibraryInv, LibraryTyped
<1>2. /\ numBooks[u] = Cardinality(Owned(u))
      /\ ToSet(shelf[u]) \subseteq Owned(u) /\ IsInjective(shelf[u])
      /\ <<u, "books">> \notin cut => ToSet(shelf[u]) = Owned(u)
  BY DEF LibraryInv, ShelvesAreOwn, ListsAreWhole
<1>3. /\ i # 0
      /\ owner' = [owner EXCEPT ![t] = Nobody]
      /\ shelf' = [shelf EXCEPT ![u] = d]
      /\ numBooks' = [numBooks EXCEPT ![u] = numBooks[u] - 1]
      /\ cut' = IF i = 1 /\ Len(shelf[u]) > 1 THEN cut \cup {<<u, "books">>} ELSE cut
      /\ UNCHANGED <<library, userList, friends, numFrds, marks, numMarks, failed, acts, libRuns>>
  BY <1>1 DEF RmBook, Cuts, userVars, friendVars, markVars, actyVars
<1>4. /\ t \in ToSet(shelf[u]) /\ t \in Titles
      /\ d \in Seq(Titles) /\ IsInjective(d) /\ ToSet(d) \subseteq ToSet(shelf[u]) \ {t}
      /\ ~(i = 1 /\ Len(shelf[u]) > 1) => ToSet(shelf[u]) \ {t} \subseteq ToSet(d)
  BY <1>1, <1>2, <1>3, Removal
<1> HIDE DEF i, t, d
<1>5. t \in Owned(u) /\ owner[t] = u
  BY <1>2, <1>4 DEF Owned
<1>6. /\ owner' \in [Titles -> Names \cup {Nobody}] /\ owner'[t] = Nobody
      /\ \A x \in Titles \ {t} : owner'[x] = owner[x]
  BY <1>1, <1>3, <1>4
<1>7. ToSet(library) \subseteq Titles
  BY <1>1 DEF ToSet
<1>8. Owned(u)' = Owned(u) \ {t} /\ \A v \in Names \ {u} : Owned(v)' = Owned(v)
  BY <1>3, <1>5, <1>6, <1>7, LibraryAssumption DEF Owned
<1>9. Cardinality(Owned(u)') = numBooks[u] - 1
  BY <1>2, <1>5, <1>8, OwnedIsFinite, FS_RemoveElement
<1>10. ShelvesAreOwn' /\ ListsAreWhole'
  <2>1. ToSet(d) \subseteq Owned(u)' /\ (<<u, "books">> \notin cut' => Owned(u)' \subseteq ToSet(d))
    BY <1>2, <1>3, <1>4, <1>8
  <2>2. numBooks[u] - 1 \in Int
    BY <1>1
  <2>3. QED
    BY <1>3, <1>4, <1>8, <1>9, <2>1, <2>2, ShelfChanges
<1>11. LibraryTyped'
  <2>1. shelf' \in [Names -> Seq(Titles)] /\ numBooks' \in [Names -> Int]
    BY <1>1, <1>3, <1>4
  <2>2. QED
    BY <1>3, <1>6, <2>1 DEF LibraryInv, LibraryTyped
<1>12. InOrder(userList)' /\ InOrder(library)' /\ Unmarked'
  BY <1>3 DEF LibraryInv, InOrder, Unmarked
<1>13. MarksAgree'
  <2>1. ASSUME NEW x \in Titles, NEW k \in MarkKinds PROVE owner'[x] \notin ToSet(marks[x][k])
    <3>1. CASE x = t
      <4>1. ToSet(marks[x][k]) \subseteq Names
        BY <1>1 DEF ToSet
      <4>2. QED
        BY <1>6, <3>1, <4>1, LibraryAssumption
    <3>2. CASE x # t
      BY <1>6, <3>2 DEF LibraryInv, MarksAgree
    <3>3. QED
      BY <3>1, <3>2
  <2>2. QED
    BY <1>3, <2>1, MarksStay
<1>14. QED
  BY <1>10, <1>11, <1>12, <1>13 DEF LibraryInv

\* The counter, the record and the activity of a mark go together, unless a
\* malloc fails: of the record, or of the activity when the record is linked.
LEMMA MarkKeeps ==
  ASSUME LibraryInv, NEW u \in Names, NEW b \in ToSet(library), NEW k \in MarkKinds, Mark(u, b, k)
  PROVE  LibraryInv'
<1>1. /\ marks \in [Titles -> [MarkKinds -> Seq(Names)]]
      /\ numMarks \in [Titles -> [MarkKinds -> Nat]] /\ acts \in [Names -> [Acts -> Nat]]
  BY DEF LibraryInv, LibraryTyped
<1>2. b \in Titles /\ marks[b][k] \in Seq(Names) /\ k \in Acts /\ MarkKinds \subseteq Acts
  BY <1>1 DEF LibraryInv, LibraryTyped, ToSet, Acts
<1>3. CASE owner[b] = Nobody \/ Begins(owner[b], u)
  BY <1>3, EndsKeeps DEF Mark
<1>4. CASE ~(owner[b] = Nobody \/ Begins(owner[b], u))
  <2> DEFINE s == <<u>> \o marks[b][k]
  <2>1. /\ numMarks' = [numMarks EXCEPT ![b][k] = numMarks[b][k] + 1]
        /\ UNCHANGED <<userList, friends, numFrds, library, owner, shelf, numBooks, libRuns, cut>>
        /\ \/ marks' = [marks EXCEPT ![b][k] = s] /\ AddActy(u, k)
           \/ failed' = failed \cup {<<"record", b, k>>} /\ UNCHANGED <<marks, acts>>
    BY <1>1, <1>2, <1>4 DEF Mark, userVars, friendVars, bookVars
  <2>2. numMarks' = [numMarks EXCEPT ![b] = [numMarks[b] EXCEPT ![k] = numMarks[b][k] + 1]]
    BY <1>1, <1>2, <2>1
  <2>3. /\ numMarks' \in [Titles -> [MarkKinds -> Nat]] /\ numMarks'[b][k] = numMarks[b][k] + 1
        /\ \A x \in Titles, j \in MarkKinds : <<x, j>> # <<b, k>> => numMarks'[x][j] = numMarks[x][j]
    <3>1. [numMarks[b] EXCEPT ![k] = numMarks[b][k] + 1] \in [MarkKinds -> Nat]
      BY <1>1, <1>2
    <3>2. QED
      BY <1>1, <1>2, <2>2, <3>1
  <2>4. InOrder(userList)' /\ InOrder(library)' /\ ShelvesAreOwn' /\ ListsAreWhole'
    BY <2>1 DEF LibraryInv, InOrder, ShelvesAreOwn, ListsAreWhole, Owned
  <2>5. CASE failed' = failed \cup {<<"record", b, k>>} /\ UNCHANGED <<marks, acts>>
    <3>1. LibraryTyped' /\ Unmarked'
      BY <2>1, <2>3, <2>5 DEF LibraryInv, LibraryTyped, Unmarked
    <3>2. ASSUME NEW x \in Titles, NEW j \in MarkKinds
          PROVE  /\ Len(marks[x][j]) <= numMarks'[x][j]
                 /\ <<"record", x, j>> \notin failed' => numMarks'[x][j] = Len(marks[x][j])
                 /\ owner[x] \notin ToSet(marks[x][j])
      <4>1. /\ Len(marks[x][j]) <= numMarks[x][j]
            /\ <<"record", x, j>> \notin failed => numMarks[x][j] = Len(marks[x][j])
            /\ owner[x] \notin ToSet(marks[x][j])
        BY DEF LibraryInv, MarksAgree
      <4>2. Len(marks[x][j]) \in Nat /\ numMarks[x][j] \in Nat
        BY <1>1
      <4>3. CASE <<x, j>> = <<b, k>>
        BY <2>3, <2>5, <4>1, <4>2, <4>3
      <4>4. CASE <<x, j>> # <<b, k>>
        BY <2>3, <2>5, <4>1, <4>4
      <4>5. QED
        BY <4>3, <4>4
    <3>3. \A v \in Names, j \in MarkKinds :
            /\ acts[v][j] <= Marked(v, j)
            /\ <<"activity", v, j>> \notin failed' => acts[v][j] = Marked(v, j)
      BY <2>5 DEF LibraryInv, MarksAgree
    <3>4. MarksAgree'
      BY <2>1, <2>5, <3>2, <3>3, MarkedStays DEF MarksAgree
    <3>5. QED
      BY <2>4, <3>1, <3>4 DEF LibraryInv
  <2>6. CASE marks' = [marks EXCEPT ![b][k] = s] /\ AddActy(u, k)
    <3>1. s \in Seq(Names) /\ Len(s) = Len(marks[b][k]) + 1
      BY <1>2
    <3>2. ToSet(s) = ToSet(marks[b][k]) \cup {u}
      <4>1. s[1] = u /\ \A i \in 1 .. Len(marks[b][k]) : s[i + 1] = marks[b][k][i]
        BY <1>2
      <4> HIDE DEF s
      <4>2. QED
        BY SMTT(30), <1>2, <3>1, <4>1, ElementsOfPrepend
    <3>3. marks' = [marks EXCEPT ![b] = [marks[b] EXCEPT ![k] = s]]
      BY <1>1, <1>2, <2>6
    <3>4. PICK told \in {0, 1} :
            /\ acts' = [acts EXCEPT ![u] = [acts[u] EXCEPT ![k] = acts[u][k] + told]]
            /\ told = 0 => <<"activity", u, k>> \in failed'
      <4>1. CASE acts' = [acts EXCEPT ![u][k] = acts[u][k] + 1]
        BY <1>1, <1>2, <4>1
      <4>2. CASE UNCHANGED acts /\ failed' = failed \cup {<<"activity", u, k>>}
        <5>1. acts[u][k] + 0 = acts[u][k]
          BY <1>1, <1>2
        <5>2. [acts[u] EXCEPT ![k] = acts[u][k] + 0] = acts[u]
          BY <1>1, <1>2, <5>1
        <5>3. acts' = [acts EXCEPT ![u] = [acts[u] EXCEPT ![k] = acts[u][k] + 0]]
          BY <1>1, <4>2, <5>2
        <5>4. QED
          BY <4>2, <5>3
      <4>3. QED
        BY <2>6, <4>1, <4>2 DEF AddActy
    <3>a. failed \subseteq failed' /\ \A x, j : <<"record", x, j>> \in failed' => <<"record", x, j>> \in failed
      BY <2>6 DEF AddActy
    <3> HIDE DEF s
    <3>5. /\ marks' \in [Titles -> [MarkKinds -> Seq(Names)]] /\ marks'[b][k] = s
          /\ \A x \in Titles, j \in MarkKinds : <<x, j>> # <<b, k>> => marks'[x][j] = marks[x][j]
      <4>1. [marks[b] EXCEPT ![k] = s] \in [MarkKinds -> Seq(Names)]
        BY <1>1, <1>2, <3>1
      <4>2. QED
        BY <1>1, <1>2, <3>3, <4>1
    <3>6. /\ acts' \in [Names -> [Acts -> Nat]] /\ acts'[u][k] = acts[u][k] + told
          /\ \A v \in Names, j \in MarkKinds : <<v, j>> # <<u, k>> => acts'[v][j] = acts[v][j]
      <4>1. [acts[u] EXCEPT ![k] = acts[u][k] + told] \in [Acts -> Nat]
        BY <1>1, <1>2
      <4>2. QED
        BY <1>1, <1>2, <3>4, <4>1
    <3>7. LibraryTyped'
      BY <2>1, <2>3, <3>5, <3>6 DEF LibraryInv, LibraryTyped
    <3>8. Unmarked'
      BY <2>1, <3>5 DEF LibraryInv, Unmarked
    <3>9. ASSUME NEW x \in Titles, NEW j \in MarkKinds
          PROVE  /\ Len(marks'[x][j]) <= numMarks'[x][j]
                 /\ <<"record", x, j>> \notin failed' => numMarks'[x][j] = Len(marks'[x][j])
                 /\ owner'[x] \notin ToSet(marks'[x][j])
      <4>1. /\ Len(marks[x][j]) <= numMarks[x][j]
            /\ <<"record", x, j>> \notin failed' => numMarks[x][j] = Len(marks[x][j])
            /\ owner[x] \notin ToSet(marks[x][j])
            /\ Len(marks[x][j]) \in Nat /\ numMarks[x][j] \in Nat
        BY <1>1, <3>a DEF LibraryInv, MarksAgree
      <4>2. CASE <<x, j>> = <<b, k>>
        BY <1>4, <2>1, <2>3, <3>1, <3>2, <3>5, <4>1, <4>2 DEF Begins
      <4>3. CASE <<x, j>> # <<b, k>>
        BY <2>1, <2>3, <3>5, <4>1, <4>3
      <4>4. QED
        BY <4>2, <4>3
    <3>10. ASSUME NEW v \in Names, NEW j \in MarkKinds
           PROVE  /\ acts'[v][j] <= Marked(v, j)'
                  /\ <<"activity", v, j>> \notin failed' => acts'[v][j] = Marked(v, j)'
      <4> DEFINE f == [x \in Titles |-> Times(marks[x][j], v)]
                 h == [x \in Titles |-> Times(marks'[x][j], v)]
                 more == IF <<v, j>> = <<u, k>> THEN 1 ELSE 0
      <4>1. Marked(v, j) = SumFunction(f) /\ Marked(v, j)' = SumFunction(h)
        BY DEF Marked, Quantify, Times
      <4>2. /\ acts[v][j] <= Marked(v, j) /\ acts[v][j] \in Nat
            /\ <<"activity", v, j>> \notin failed' => acts[v][j] = Marked(v, j)
        BY <1>1, <1>2, <3>a DEF LibraryInv, MarksAgree
      <4>3. \A x \in Titles : Times(marks[x][j], v) \in Nat
        <5>1. \A x \in Titles : marks[x][j] \in Seq(Names)
          BY <1>1
        <5>2. QED
          BY <5>1, TimesCount
      <4>4. j = k => Times(marks'[b][j], v) = Times(marks[b][j], v) + more
        <5>1. s[1] = u /\ \A i \in 1 .. Len(marks[b][k]) : s[i + 1] = marks[b][k][i]
          BY <1>2 DEF s
        <5>2. Times(s, v) = Times(marks[b][k], v) + (IF u = v THEN 1 ELSE 0)
          BY <1>2, <3>1, <5>1, OneMore
        <5>3. QED
          BY <3>5, <5>2
      <4>5. /\ acts'[v][j] \in Nat /\ acts'[v][j] <= acts[v][j] + more
            /\ <<"activity", v, j>> \notin failed' => acts'[v][j] = acts[v][j] + more
        <5>1. CASE <<v, j>> = <<u, k>>
          BY <1>1, <1>2, <3>4, <3>6, <5>1
        <5>2. CASE <<v, j>> # <<u, k>>
          BY <1>1, <1>2, <3>6, <5>2
        <5>3. QED
          BY <5>1, <5>2
      <4>6. f \in [Titles -> Int] /\ f[b] = Times(marks[b][j], v)
        BY <1>2, <4>3
      <4>7. h = [f EXCEPT ![b] = f[b] + more]
        <5>1. \A x \in Titles : x # b \/ j # k => h[x] = f[x]
          BY <3>5
        <5>2. j # k => more = 0
          OBVIOUS
        <5>3. h[b] = f[b] + more
          BY <1>2, <4>4, <4>6, <5>1, <5>2
        <5>4. QED
          BY <4>6, <5>1, <5>3
      <4> HIDE DEF f, h
      <4>8. more \in Int /\ SumFunction(h) = SumFunction(f) - f[b] + (f[b] + more) /\ SumFunction(f) \in Int
        <5>1. IsFiniteSet(Titles) /\ more \in Int /\ f[b] \in Int /\ f[b] + more \in Int
          BY <1>2, <4>6, LibraryAssumption
        <5>2. SumFunction(f) \in Int
          BY <4>6, <5>1, SumType
        <5> HIDE DEF more
        <5>3. QED
          BY <1>2, <4>6, <4>7, <5>1, <5>2, SumChange
      <4>9. Marked(v, j)' = Marked(v, j) + more /\ Marked(v, j) \in Int
        BY <4>1, <4>6, <4>8, <1>2
      <4>10. more \in Int
        BY <4>8
      <4> HIDE DEF more
      <4>11. QED
        BY <4>2, <4>5, <4>9, <4>10
    <3>11. MarksAgree'
      BY <3>9, <3>10 DEF MarksAgree
    <3>12. QED
      BY <2>4, <3>7, <3>8, <3>11 DEF LibraryInv
  <2>7. QED
    BY <2>1, <2>5, <2>6
<1>5. QED
  BY <1>3, <1>4

\* Commands that only look up end without a list that lost its head.
LEMMA LookersKeep ==
  ASSUME LibraryInv,
         \/ \E u \in Names : InputView(u) \/ Whatsup(u)
         \/ InputWow \/ Search
         \/ \E b \in Titles : ReadHistory(b)
  PROVE  LibraryInv'
<1>1. \E how \in {"yes", "view", "unset"} : Ends(how)
  <2>1. CASE \E u \in Names : InputView(u) \/ Whatsup(u)
    BY <2>1 DEF InputView, ViewShelf, ViewFriends, Whatsup
  <2>2. CASE InputWow \/ Search \/ \E b \in Titles : ReadHistory(b)
    BY <2>2 DEF InputWow, WowCommand, ReadHistory, Search
  <2>3. QED
    BY <2>1, <2>2
<1>2. QED
  BY <1>1, EndsKeeps

\* Every command keeps the invariant.
LEMMA LibraryStep == LibraryInv /\ [LibraryNext]_libVars => LibraryInv'
<1> SUFFICES ASSUME LibraryInv, [LibraryNext]_libVars PROVE LibraryInv'
  OBVIOUS
<1>1. CASE UNCHANGED libVars
  <2>1. LibraryTyped' /\ InOrder(userList)' /\ InOrder(library)' /\ Unmarked'
    BY <1>1 DEF LibraryInv, libVars, LibraryTyped, InOrder, Unmarked
  <2>2. ShelvesAreOwn' /\ ListsAreWhole'
    BY <1>1 DEF LibraryInv, libVars, ShelvesAreOwn, ListsAreWhole, Owned
  <2>3. MarksAgree'
    BY <1>1, MarkedStays DEF LibraryInv, libVars, MarksAgree
  <2>4. QED
    BY <2>1, <2>2, <2>3 DEF LibraryInv
<1>2. ASSUME NEW n \in Names, NEW m \in Mails, AddUser(n, m) PROVE LibraryInv'
  BY <1>2, AddUserKeeps
<1>3. ASSUME NEW u \in Names, InputAdd(u) PROVE LibraryInv'
  BY <1>3, AddFriendKeeps, AddBookKeeps DEF InputAdd
<1>4. ASSUME NEW u \in Names, InputRm(u) PROVE LibraryInv'
  BY <1>4, RmFriendKeeps, RmBookKeeps DEF InputRm
<1>5. ASSUME NEW u \in Names, InputView(u) \/ Whatsup(u) PROVE LibraryInv'
  BY <1>5, LookersKeep
<1>6. ASSUME NEW u \in Names, NEW b \in Titles, WowBook(u, b) PROVE LibraryInv'
  <2>1. Book(b) \in ToSet(library) /\ Mark(u, Book(b), "wow") /\ "wow" \in MarkKinds
    BY <1>6, LookUps DEF WowBook, MarkKinds
  <2>2. QED
    BY <2>1, MarkKeeps
<1>7. CASE InputWow \/ Search
  BY <1>7, LookersKeep
<1>8. ASSUME NEW u \in Names, InputBuy(u) PROVE LibraryInv'
  <2>1. ASSUME NEW b \in Titles, BuyBook(u, b) PROVE LibraryInv'
    <3>1. CASE KnowsBook(b)
      <4>1. Book(b) \in ToSet(library) /\ Mark(u, Book(b), "buy") /\ "buy" \in MarkKinds
        BY <2>1, <3>1, LookUps DEF BuyBook, MarkKinds
      <4>2. QED
        BY <4>1, MarkKeeps
    <3>2. CASE ~KnowsBook(b)
      BY <2>1, <3>2, EndsKeeps DEF BuyBook
    <3>3. QED
      BY <3>1, <3>2
  <2>2. ASSUME NEW b \in Titles, ReadHistory(b) PROVE LibraryInv'
    BY <2>2, LookersKeep
  <2>3. QED
    BY <1>8, <2>1, <2>2 DEF InputBuy
<1>9. QED
  BY <1>1, <1>2, <1>3, <1>4, <1>5, <1>6, <1>7, <1>8 DEF LibraryNext

-----------------------------------------------------------------------------
(* What holds of every run.                                                  *)

\* The invariant of the catalogue.
THEOREM LibraryInvariant == LibrarySpec => []LibraryInv
<1>1. QED
  BY LibraryInitInv, LibraryStep, PTL DEF LibrarySpec

\* Who is registered is found under his own name, and a book under its own
\* title, whatever names begin alike.
THEOREM LibraryFindsByName == LibrarySpec => []FoundByName
<1>1. QED
  BY LibraryInvariant, OrderedAreFound, PTL

\* A shelf holds books of its user only, and the counter counts what he owns.
THEOREM LibraryShelvesAreOwn == LibrarySpec => []ShelvesAreOwn
<1>1. LibraryInv => ShelvesAreOwn
  BY DEF LibraryInv
<1>2. QED
  BY <1>1, LibraryInvariant, PTL

\* A list is as long as its counter says until its head is cut off or a third
\* book comes, and only then is the NULL head met.
THEOREM LibraryListsAreWhole == LibrarySpec => []ListsAreWhole
<1>1. LibraryInv => ListsAreWhole
  BY DEF LibraryInv
<1>2. QED
  BY <1>1, LibraryInvariant, PTL

\* The counters of wows and buys are not below their records, nor these below
\* the users' activities; each pair agrees unless the malloc between the two
\* failed, and no owner marks his book.  For any set of mallocs that may fail.
THEOREM LibraryMarksAgree == LibrarySpec => []MarksAgree
<1>1. LibraryInv => MarksAgree
  BY DEF LibraryInv
<1>2. QED
  BY <1>1, LibraryInvariant, PTL
=============================================================================
