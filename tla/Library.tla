------------------------------- MODULE Library -------------------------------
(***************************************************************************)
(* The catalogue of eLibrary: users, friends, books, shelves and the wows   *)
(* and buys of books, one action per command of a session.  Commands run    *)
(* one at a time.  A look up takes the first entry whose name starts with   *)
(* the name sought.  Book groups and descriptions, which only the views     *)
(* read, are left out.  The mallocs of an activity and of the record of a   *)
(* wow or buy may fail, those of users, friends and books do not.           *)
(***************************************************************************)
EXTENDS Integers, SequencesExt, FiniteSetsExt

CONSTANTS
  Names,      \* names of users
  Titles,     \* names of books
  StartsWith, \* the pairs <<name, beginning>> of different names
  Mails,
  NoMail,
  Nobody,     \* the owner pointer NULL
  MayFail,    \* the mallocs that may fail: of the "record", of a kind of activity
  MaxCalls    \* bound: commands that changed something

ASSUME LibraryAssumption ==
  /\ StartsWith \subseteq (Names \X Names) \cup (Titles \X Titles)
  /\ Nobody \notin Names /\ NoMail \notin Mails /\ IsFiniteSet(Titles)
  /\ MaxCalls \in Nat

VARIABLES
  userList,  \* g_userData: the names in order
  mail,
  friends,   \* friends[u]: the list; numFrds[u]: its counter
  numFrds,
  library,   \* g_bookTotal: the titles in order
  owner,
  shelf,     \* shelf[u]: books; numBooks[u]: its counter
  numBooks,
  marks,     \* marks[b][k]: whoWowed, whoBuyed, the last one first
  numMarks,  \* numMarks[b][k]: numWow, numBuy
  acts,      \* acts[u][a]: how many activities of each kind u has
  libRuns,   \* "yes", or what ended the program
  cut,       \* history: the lists that lost more than was removed
  failed,    \* history: the records and activities whose malloc failed
  calls      \* history: commands that changed something

libVars == <<userList, mail, friends, numFrds, library, owner, shelf, numBooks,
             marks, numMarks, acts, libRuns, cut, failed, calls>>

MarkKinds == {"wow", "buy"}
Acts == {"joined", "friend", "book"} \cup MarkKinds
People == ToSet(userList)

Begins(name, sought) == name = sought \/ <<name, sought>> \in StartsWith
\* The place of the first name in list that starts with the name sought, or 0.
Place(list, sought) == SelectInSeq(list, LAMBDA n : Begins(n, sought))
KnowsUser(n) == Place(userList, n) # 0
User(n) == userList[Place(userList, n)]
KnowsBook(b) == Place(library, b) # 0
Book(b) == library[Place(library, b)]

LibraryInit ==
  /\ userList = <<>> /\ mail = [n \in Names |-> NoMail]
  /\ friends = [n \in Names |-> <<>>] /\ numFrds = [n \in Names |-> 0]
  /\ library = <<>> /\ owner = [b \in Titles |-> Nobody]
  /\ shelf = [n \in Names |-> <<>>] /\ numBooks = [n \in Names |-> 0]
  /\ marks = [b \in Titles |-> [k \in MarkKinds |-> <<>>]]
  /\ numMarks = [b \in Titles |-> [k \in MarkKinds |-> 0]]
  /\ acts = [n \in Names |-> [a \in Acts |-> 0]]
  /\ libRuns = "yes" /\ cut = {} /\ failed = {} /\ calls = 0

userVars == <<userList, mail>>
friendVars == <<friends, numFrds>>
bookVars == <<library, owner, shelf, numBooks>>
markVars == <<marks, numMarks>>
actyVars == <<acts, failed>>

Command == libRuns = "yes"
\* A command of the session of user u.
By(u) == Command /\ u \in People
Changes == calls < MaxCalls /\ calls' = calls + 1
\* A command that changes nothing, and may be the last.
Ends(how) ==
  /\ libRuns' = how
  /\ UNCHANGED <<userVars, friendVars, bookVars, markVars, actyVars, cut, calls>>

\* addUserActy may fail in its malloc.  What was done before it stays done:
\* no caller takes it back, and only those for users, wows and buys report it.
AddActy(u, a) ==
  \/ acts' = [acts EXCEPT ![u][a] = @ + 1] /\ UNCHANGED failed
  \/ a \in MayFail /\ failed' = failed \cup {<<"activity", u, a>>} /\ UNCHANGED acts

\* A name that is taken: with the same mail it is refused; with another the
\* search stays at that user for ever, and the list stays locked.
AddUserExact(n, m) ==
  /\ Command /\ Changes
  /\ n \notin People
  /\ userList' = Append(userList, n)
  /\ mail' = [mail EXCEPT ![n] = m]
  /\ AddActy(n, "joined")
  /\ UNCHANGED <<friendVars, bookVars, markVars, libRuns, cut>>
AddUser(n, m) ==
  /\ Command
  /\ IF KnowsUser(n)
     THEN Ends(IF mail[User(n)] = m THEN "yes" ELSE "hung")
     ELSE /\ Changes
          /\ userList' = Append(userList, n)
          /\ mail' = [mail EXCEPT ![n] = m]
          /\ AddActy(n, "joined")
          /\ UNCHANGED <<friendVars, bookVars, markVars, libRuns, cut>>

\* add -f: only a friend after the first is an activity.  The counter tells
\* whether there is a list.
AddFriend(u, n) ==
  /\ By(u) /\ KnowsUser(n)
  /\ IF numFrds[u] # 0 /\ friends[u] = <<>> THEN Ends("list")
     ELSE IF User(n) \in ToSet(friends[u]) THEN Ends("yes")
     ELSE /\ Changes
          /\ friends' = [friends EXCEPT ![u] = Append(@, User(n))]
          /\ numFrds' = [numFrds EXCEPT ![u] = @ + 1]
          /\ IF numFrds[u] # 0 THEN AddActy(u, "friend") ELSE UNCHANGED actyVars
          /\ UNCHANGED <<userVars, bookVars, markVars, libRuns, cut>>

\* detechFrdNode, detechBookNode: the head is taken for the only node.
Detach(list, i) == IF i = 1 THEN <<>> ELSE RemoveAt(list, i)
Cuts(u, what, list, i) ==
  cut' = IF i = 1 /\ Len(list) > 1 THEN cut \cup {<<u, what>>} ELSE cut

\* rm -f
\* Fault: the counter stays.
RmFriendUncounted(u, n) ==
  LET i == Place(friends[u], n) IN
  /\ By(u) /\ Changes /\ i # 0
  /\ friends' = [friends EXCEPT ![u] = Detach(@, i)]
  /\ Cuts(u, "friends", friends[u], i)
  /\ UNCHANGED <<numFrds, userVars, bookVars, markVars, actyVars, libRuns>>
RmFriend(u, n) ==
  LET i == Place(friends[u], n) IN
  /\ By(u) /\ Changes /\ i # 0
  /\ friends' = [friends EXCEPT ![u] = Detach(@, i)]
  /\ numFrds' = [numFrds EXCEPT ![u] = @ - 1]
  /\ Cuts(u, "friends", friends[u], i)
  /\ UNCHANGED <<userVars, bookVars, markVars, actyVars, libRuns>>

\* The new book becomes the second on the shelf, and the last.
PutOnShelf(list, b) == IF list = <<>> THEN <<b>> ELSE <<Head(list), b>>

\* add -b, -d and -g: a book the library has keeps its owner and its shelf.
AddBook(u, b) ==
  /\ By(u)
  /\ IF KnowsBook(b) THEN Ends("yes")
     ELSE IF numBooks[u] # 0 /\ shelf[u] = <<>> THEN Ends("list")
     ELSE /\ Changes
          /\ library' = Append(library, b)
          /\ owner' = [owner EXCEPT ![b] = u]
          /\ shelf' = [shelf EXCEPT ![u] = PutOnShelf(@, b)]
          /\ numBooks' = [numBooks EXCEPT ![u] = @ + 1]
          /\ cut' = IF Len(shelf[u]) > 1 THEN cut \cup {<<u, "books">>} ELSE cut
          /\ AddActy(u, "book")
          /\ UNCHANGED <<userVars, friendVars, markVars, libRuns>>

\* rm -b: countCollected is 0 and nothing raises it, so the decrement wraps and
\* the book is never freed: it stays in the library and has no owner.
\* Fault: the book keeps its owner.
RmBookOwned(u, b) ==
  LET i == Place(shelf[u], b) IN
  /\ By(u) /\ Changes /\ i # 0
  /\ owner' = owner
  /\ shelf' = [shelf EXCEPT ![u] = Detach(@, i)]
  /\ numBooks' = [numBooks EXCEPT ![u] = @ - 1]
  /\ Cuts(u, "books", shelf[u], i)
  /\ UNCHANGED <<library, userVars, friendVars, markVars, actyVars, libRuns>>
RmBook(u, b) ==
  LET i == Place(shelf[u], b) IN
  /\ By(u) /\ Changes /\ i # 0
  /\ owner' = [owner EXCEPT ![shelf[u][i]] = Nobody]
  /\ shelf' = [shelf EXCEPT ![u] = Detach(@, i)]
  /\ numBooks' = [numBooks EXCEPT ![u] = @ - 1]
  /\ Cuts(u, "books", shelf[u], i)
  /\ UNCHANGED <<library, userVars, friendVars, markVars, actyVars, libRuns>>

\* wowBook, buyBook: refused when the owner's name starts with that of the
\* user; the owner pointer is not tested.  The mark is counted before its
\* record is allocated, and the record is linked before the activity is.
\* Fault: an owner may mark the book.
MarkAny(u, b, k) ==
  /\ Changes
  /\ numMarks' = [numMarks EXCEPT ![b][k] = @ + 1]
  /\ marks' = [marks EXCEPT ![b][k] = <<u>> \o @]
  /\ AddActy(u, k)
  /\ UNCHANGED <<userVars, friendVars, bookVars, libRuns, cut>>
Mark(u, b, k) ==
  IF owner[b] = Nobody THEN Ends("owner")
  ELSE IF Begins(owner[b], u) THEN Ends("yes")
  ELSE /\ Changes
       /\ numMarks' = [numMarks EXCEPT ![b][k] = @ + 1]
       /\ \/ marks' = [marks EXCEPT ![b][k] = <<u>> \o @] /\ AddActy(u, k)
          \/ /\ "record" \in MayFail
             /\ failed' = failed \cup {<<"record", b, k>>}
             /\ UNCHANGED <<marks, acts>>
       /\ UNCHANGED <<userVars, friendVars, bookVars, libRuns, cut>>

\* wowBook of a book that was found, as the tests call it.  The command looks
\* its user up by the name of the book and its book by a filter it never sets.
WowBook(u, b) == By(u) /\ KnowsBook(b) /\ Mark(u, Book(b), "wow")
WowCommand == Command /\ \E how \in {"yes", "unset"} : Ends(how)

\* buy: a book that is not there leaves the list of books unset.
BuyBook(u, b) ==
  /\ By(u)
  /\ IF KnowsBook(b) THEN Mark(u, Book(b), "buy") ELSE Ends("unset")

\* wow -b, buy -b: the same for the list; the history itself is not returned.
ReadHistory(b) == Command /\ Ends(IF KnowsBook(b) THEN "yes" ELSE "unset")

\* view -b: the books of the list that is returned are NULL.  view -f: the list
\* is walked when it is empty.  whatsup: the merged list is read at its end
\* when it gets its first activity.
ViewShelf(u) == By(u) /\ Ends(IF numBooks[u] = 0 THEN "yes" ELSE "view")
ViewFriends(u) == By(u) /\ Ends(IF friends[u] # <<>> THEN "yes" ELSE "view")
Whatsup(u) == By(u) /\ Ends(IF numFrds[u] = 0 THEN "yes" ELSE "view")

\* search -b and -f, wow -f and buy -f look up and copy, and change nothing.
Search == Command /\ Ends("yes")

(* The commands by their first word; u is the user of the session.           *)
InputAdd(u) ==
  \/ \E n \in Names : AddFriend(u, n)
  \/ \E b \in Titles : AddBook(u, b)
InputRm(u) ==
  \/ \E n \in Names : RmFriend(u, n)
  \/ \E b \in Titles : RmBook(u, b)
InputView(u) == ViewShelf(u) \/ ViewFriends(u)
InputWow == WowCommand \/ \E b \in Titles : ReadHistory(b)
InputBuy(u) == \E b \in Titles : BuyBook(u, b) \/ ReadHistory(b)

LibraryNext ==
  \/ \E n \in Names, m \in Mails : AddUser(n, m)
  \/ \E u \in Names : InputAdd(u)
  \/ \E u \in Names : InputRm(u)
  \/ \E u \in Names : InputView(u)
  \/ \E u \in Names : Whatsup(u)
  \/ \E u \in Names, b \in Titles : WowBook(u, b)
  \/ InputWow
  \/ \E u \in Names : InputBuy(u)
  \/ Search

LibrarySpec == LibraryInit /\ [][LibraryNext]_libVars

-----------------------------------------------------------------------------
(* Properties                                                               *)

\* Who is in the list of users, and what is in the library, is found under its
\* own name, though a look up takes whatever starts with that name: a session
\* acts for its user, and a command on its book.
FoundByName ==
  /\ \A n \in People : User(n) = n
  /\ \A b \in ToSet(library) : Book(b) = b

Owned(u) == {b \in ToSet(library) : owner[b] = u}

\* numBooks counts the books a user owns, on the shelf or lost from it; a shelf
\* has no other books, so neither removing one nor looking for one meets a book
\* without owner, and the counter is not decremented below zero.
ShelvesAreOwn ==
  \A u \in Names :
    /\ numBooks[u] = Cardinality(Owned(u))
    /\ ToSet(shelf[u]) \subseteq Owned(u) /\ IsInjective(shelf[u])

\* A list holds all its counter counts until its head is removed in front of
\* others, or a third book is added; only then can a command meet the NULL head
\* of a list that counts as not empty.
ListsAreWhole ==
  /\ \A u \in Names :
       /\ <<u, "friends">> \notin cut => Len(friends[u]) = numFrds[u] /\ IsInjective(friends[u])
       /\ <<u, "books">> \notin cut => ToSet(shelf[u]) = Owned(u)
  /\ libRuns = "list" => cut # {}

Marked(u, k) ==
  SumFunction([b \in Titles |-> Quantify(DOMAIN marks[b][k], LAMBDA i : marks[b][k][i] = u)])

\* A counter of a book is never below its records, nor the records of a user
\* below his activities: the code counts first, then links, then tells.  Each
\* pair agrees where the malloc between the two never failed; a record without
\* its activity, or a count without its record, is left by such a failure only.
\* No record is the owner's.
MarksAgree ==
  /\ \A b \in Titles, k \in MarkKinds :
       /\ Len(marks[b][k]) <= numMarks[b][k]
       /\ <<"record", b, k>> \notin failed => numMarks[b][k] = Len(marks[b][k])
       /\ owner[b] \notin ToSet(marks[b][k])
  /\ \A u \in Names, k \in MarkKinds :
       /\ acts[u][k] <= Marked(u, k)
       /\ <<"activity", u, k>> \notin failed => acts[u][k] = Marked(u, k)

\* What the comment says of a wow: one user can not wow the same book twice.
WowsOnce == \A b \in Titles : IsInjective(marks[b]["wow"])

=============================================================================
