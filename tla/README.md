# Verification of MorningProjects

TLA+ models of the programs in this repository, model-checked with TLC on small
instances and, for the core, proved with TLAPS for every instance. Paths are
relative to the repository.

## 1. The system

The repository is a collection of C programs and libraries by one author. The
largest is eLibrary, a social library whose users share books and send each
other messages; around it stand a semaphore wrapper, a race game with three
threads, containers (hash table, list, trees, memory pool) and small network
programs.

| Component | Source | State it keeps | Operations |
|---|---|---|---|
| Message exchange and boxes | `eLibrary/src/server/eLibrary_server_handler.c` 1269-1490, `eLibrary/src/client/eLibrary_client_parse.c` 863-1026 | a box per user: a list of conversations with counters; one slot (`g_systemEvent`, `g_sysEvtPayload`) with `lock_exchange` and `cond_exchange` | `sendReceiveMsg`, `notifyExchange`, `getMsgInfo`, `thread_processMsg`, the `msg` command |
| Library catalogue | `eLibrary_server_handler.c` 297-1267 | users, friends, books, shelves, activity lists | addUser, addFriend, rmFriend, addBook, rmBook, wowBook, buyBook, the queries |
| Server process | `eLibrary_server_process.c`, `eLibrary_server_API.c`, `CNM/eLibrary_CNM_monitor.c` | a request queue, a job centre, workers, the listener's request buffer | init, post a request, assign and pick jobs, terminate |
| Database engine, friend maps | `DB_ENGINE/eLibrary_DB_API.c`, `eLibrary_server_handler.c` 33-238 | accounts, cached users, a map of friends per user | create, find by filter, add and remove friends |
| Client request builder, cache | `eLibrary/src/client/eLibrary_client_api.c` | the request under construction, two stacks of what was seen | createRequest, readCache, fillCache |
| Client parser and views | `eLibrary_client_parse.c`, `eLibrary_client_output.c` | none of its own | parse a command line, print |
| Sockets | `CNM_socket.c`, the CNM client files | file descriptors | open, send, receive |
| Semaphore wrapper | `sem_wrapper/sem_wrapper.c` | one mutex and one counter per process, one condition variable per handle | init, wait, trywait, timedwait, post, getvalue, destroy |
| Gopiggy | `gopiggy/Gopiggy.c` | pigs, ranking, apple flag and index, two mutexes, a condition variable, a semaphore | the threads pig, feeder and user_interface |
| Hash table | `common/src/hashit` | buckets, a count, a load factor | insert, look up, remove |
| Linked list | `common/src/LinkedList` | head, tail, current element, count | insert, remove, sort, destroy |
| Trees | `common/src/tree` | binary search, AVL and red-black trees | attach, remove, look up, traverse |
| Memory pool | `common/src/memman_pool` | a free list per size, chunks | alloc, free, destroy |
| Helpers, Chatty, TinySQL | `common/src`, `chatty`, `TinySQL` | handles; sockets; headers only | thin wrappers |

How they interact. A session of eLibrary is a thread that reads commands and
calls the handlers directly; all sessions share the catalogue and the boxes. For
a message the session records the sent copy, then fills the one slot and signals
the exchange thread, which records the received copy in the addressee's box. The
server process is a second, unfinished design of the same service: a listener
queues requests, a daemon turns them into jobs and workers answer them. The
semaphore wrapper, the containers and the pool are used by callers outside the
repository or by their own drivers. The three threads of Gopiggy share plain
globals and call nothing else.

Where the difficulty lies, and what makes each component correct:

- **Exchange**: threads interleave between any two statements; the slot is
  filled, signalled, drained and released under one lock, with retries, failing
  calls and spurious wakeups. Correct when no wakeup is lost, no message in the
  slot is overwritten or taken twice, every send ends, and every message is in
  each box once. The boxes have no lock.
- **Semaphore wrapper**: waits re-test a counter after wakeups, timeouts and
  failures; several handles share the counter and some returns keep the mutex.
  Correct when each post adds one token, each success of a wait took one and no
  failure did, no decrement wraps, no token is slept beside and no success leaks
  the mutex. The code keeps the second only for the plain wait.
- **Gopiggy**: three threads, timeouts, a flag handed back and forth, a ranking
  sorted by two threads at once, a lock never given back. Correct when no
  hand-over is slept through, the ranking and the result are sorted, each apple
  ends once, and every race ends.
- **Catalogue**: long sequences of calls over linked records that point to each
  other; look ups that compare beginnings of names. Correct when a look up finds
  what was meant, and lists, counters, owners and activities agree.
- **Server process**: termination against pending requests, a buffer reused while
  queued. Correct when each request is answered once, where it came from, with its
  own payload, and the workers stop.
- **Containers and pool**: sequences of calls at the boundaries (empty, full,
  overwritten). Correct when a removal takes one entry, a rotation or a sort moves
  entries and loses none, and what is free is not in use.

The hazards, each at its line, are in `PROJECT.json`; those without a property
say why.

## 2. Modules

| Module | Models |
|---|---|
| `MsgBox` | the boxes: `sendReceiveMsg`, `getMsgNode`, `getMsgInfo`, `msg -f`, statement by statement on an explicit heap of conversations |
| `MsgExchange` | the sessions and the exchange thread around the slot; extends `MsgBox` |
| `OneSlotChannel` | what the exchange promises: a channel of one message |
| `MsgExchange_proofs` | proofs about `MsgExchange` |
| `SemWrapper` | the wrapper: mutex, counter and the calls in progress |
| `CountingSemaphore` | what it promises: tokens, and what each call answers about them |
| `SemWrapper_proofs` | proofs about `SemWrapper` |
| `PiggyRace` | the three threads of Gopiggy from the end of the login on |
| `PiggyRace_proofs` | proofs about `PiggyRace` |
| `Library` | the catalogue: users, friends, books, shelves, wows and buys, and the commands that use them |
| `Library_proofs` | proofs about `Library` |
| `ServerProcess` | the listener, the daemon, the workers and the termination of the server process |
| `ServerProcess_proofs` | proof about `ServerProcess` |
| `SearchTrees` | `tree.c`: the algorithms of the three kinds of tree, on trees as values |
| `TreeShell` | `beliketree.c`: the shell that calls them; extends `SearchTrees` |
| `Trees_proofs` | proofs about `SearchTrees` and `TreeShell` |
| `LinkedList` | `linkit.c`: the list and its demo |
| `HashTable` | `hashtable.c` and the shell `hashit.c` |
| `MemPool` | `memman_pool.c` |
| `Structures_proofs` | proofs about `LinkedList`, `MemPool` and `HashTable` |
| `DataLemmas` | what the proofs use of sums, counts, sequences and maxima |
| `MCMsgExchange`, `MCSemWrapper`, `MCPiggyRace`, `MCLibrary`, `MCServer` | the instances the configurations use |
| `MCCommon` | the four of `common` in one instance: a behaviour follows one of them |

Conventions. `pc[t]` is the next statement of thread `t`; an action is what the
code does from there to the next point where another thread can matter. Where
data is shared without a lock (boxes, ranking) a load and a store are separate
actions; a section under a lock that no other thread can see into is one action.
Operators marked *Fault* are not in the specification: each changes one operation
the way a plausible mistake would, and shows that a property notices it.

### The exchange

`boxes[u]` is `USER_INFO`'s `MSG_BOX` (list head, total, unread), `nodes` the
heap of `struct msgList`, `op[t]` the locals of a call. `StartSend` … `AfterRecord`
follow `sendReceiveMsg`; `LockToNotify`, `Publish`, `SlotBusy`, `Retry`, `Signal`,
`UnlockAfterNotify` follow `notifyExchange`; `SetReady` … `ReceiverUnlocks` follow
`thread_processMsg`. A C list is the sequence of the nodes from its head, so a
store through a stale head drops the nodes another thread has prepended, as it
does in memory. Counters are `UINT32`, here modulo `Wrap`. What may go wrong
besides scheduling is listed in the constant `MayHappen`: a failing malloc, lock,
signal or unlock, a spurious wakeup, and a shutdown event, which the exchange
handles although nothing in the repository posts it (`PostShutdown` is external).
The logged-in user is one global of the process in the code; the model gives each
session its user, which is what the handlers are passed.

### The semaphore wrapper

`mutex` and `value` are the file's statics, `sem[t]` the handle a call was given.
Every operation takes the mutex, then goes its own way (`FirstLabel`): the three
waits loop on `Block` and `Relock`; `TimesOut`, `BlockFails` and
`RelockAfterTimeout` are the exits that keep the mutex. trywait's deadline has an
uninitialised `tv_nsec`, so its wait may fail at once. The tests of lock, unlock
and broadcast against -1 never see an error of pthread's and are not modelled;
but trywait and timedwait test their unlock the wrong way round (lines 121 and
167), so one that has taken a token returns -1 (`Unlock`). Callers therefore do
not see a counting semaphore. What they do see is `CountingSemaphore`, whose state
holds the answer of each call (`StateOf` maps `status` to it): a plain wait
succeeds exactly when it took a token; a wait with a time limit takes at most
one and fails in either case, so its answer does not tell.

### Gopiggy

`ranked` is `f_ranked_pigs`, `released` the apple flag, `catcher` and `bonusPig`
the locals `piggy_apple_catcher` and `index_apple_catcher` of the pig thread.
`RankShift` and `RankPlace` are one turn of the inner loop of `rank_piggy`, for
either caller. Beyond the last apple `f_apple_locations` is read past its end:
any answer (`Reaches`). The pig thread works for microseconds and sleeps for a
second, so nearly always the other threads run while it sleeps, but nothing makes
them: a behaviour is `paced` (they do) or not (any interleaving). The properties
of the ranking, the result, the apples and the array index are claimed for paced
behaviours only. Without the pace they fail: two threads can sort one array, and
the feeder can clear the flag or move the index between a test and its use.

### The catalogue

`userList` and `library` are the lists behind `g_userData` and `g_bookTotal`,
`shelf[u]` and `friends[u]` those of a user, each with the counter the code keeps
beside it. The mallocs of a wow's or buy's record and of an activity may fail
(`MayFail`): the handler counts, links the record, then tells the activity, so
`Mark` has three outcomes, and `failed` remembers where a pair was torn; `AddActy`
is `addUserActy` for every command. The mallocs of users, friends and books are
taken to succeed: a book of which only one of its two list nodes could be
allocated, on the shelf and not in the library or the other way round, is not in
the model. An entry is found as `getUserInfo` and `getBookByName` find it: the
first whose name *begins* with the one sought (`Place`, the constant `StartsWith`).
An action is a command of a session, from its guard in the parser to the end of
the handler, its activity included; `InputAdd`, `InputRm` and so on group them by
the first word. `Detach` empties a list whose head goes and `PutOnShelf` hangs a
book behind the first, as the code does; `cut` remembers which lists that cost
something. `libRuns` tells what ended the program: a user list locked for ever
(`hung`), a NULL head under a counter above zero (`list`), a book without owner
(`owner`), a result that was never set (`unset`), a view that follows NULL (`view`).
`countCollected` starts at 0 and is only decremented, so the free in `rmBook` is
never reached and a removed book stays in the library without an owner. The
command `wow` never reaches a book (`WowCommand`); `WowBook` is the handler, called
with a book it was given, as the repository's test does.

### The server process

A request is a number, its place in `asked`. A message in `queue` has its own
connection and type but only a pointer to the request buffer: its payload is
whatever the buffer holds when the daemon makes the job (`Assign`), so `body` may be
that of a later request, and `overrun` remembers for which this could happen. The
listener does not check the type of a request; clients are taken never to send the
type that ends a worker, 99, so `Pick` has no branch for it. The
termination queues jobs of type 0 (`EndJob`), and no worker ends on type 0.

### Trees, list, hash table, pool

A tree is a value: `Nil`, or a node with two trees. A pointer that does not make a
tree is marked: `Fault` for a NULL that was dereferenced, `Loop` for a child that is
its own node; a key twice in a red-black tree means that two nodes share a child
(`shared`). The model ends there, as it does where the shell ends: `running`.
Binary removal, both AVL repairs and the red-black insertion and removal follow the C
functions, including what they miss: `retrieve_smallest` that never sets the parent,
the even child `avl_rebalance_ex` does not turn, and the turns of `rebalance` that suit
only one side. Where the C function recurses or loops, the operator has a recursive
function on `UpTo(t)`, the trees no higher than its argument: `TreesUpTo[n]` are the
trees of at most `n` levels, and the height of a tree is the least such `n`. The two
removals that go on with another key, or another `p_balanced`, return functions of
them. The colour of a new red-black node is not initialised, hence `FreshColors`.

The list is the sequence of its nodes; `num` is `num_nodes`, which `insert_next`
and `insert_prev` do not raise. The hash table walks the steps of `rand()` from a
fixed seed (`Step`, any sequence; `Walk`), gives up after `Limit` probes and reads the
bucket it is given even when that is NULL. `num_data` is unsigned, here modulo
`NumWrap`, and HT_create leaves in it what malloc's memory held: any value. Where
that was above `NUM_BUCKETS` the test for a full table does not hold when it should and
the count may wrap below the entries, so what is claimed of it has the condition
`counted`. A pool's piece is in `available` or in `out`;
`MemFree` picks the bank by the byte alone, so small pieces go to banks nothing is
taken from. Sizes are those of a build with four-byte pointers. `mem_add_bank` (line
124) allocates `sizeof(mem_chunk_t *)` for a whole chunk header, which fits only
because malloc's smallest block is larger; what an overrun would do is not modelled.

## 3. Runs

| Run | Instance | Shows |
|---|---|---|
| `exchange_race` | two sessions, two sends, anything rare, free interleaving | `TypeOK`: the heap stays well formed; `MutualExclusion`, `NoLostWakeup`, `SlotHeld`; the exchange is a `OneSlotChannel` (`ImplementsChannel`) |
| `exchange_fair` | the same, nothing rare, fairness | every send ends (`SendsEnd`); every message put is taken (`ImplementsFairChannel`) |
| `exchange_paced` | three sends, commands one at a time, names that match exactly, by prefix, or not at all | `CountersAddUp`, `ExactlyOneCopy` |
| `exchange_lost` | two sends at once | a violation: the boxes are updated where the code has only the comments `/*lock*/` and `/*unlock*/`, and a message is lost |
| `sem_all` | three threads, two handles, four calls of all kinds, timeouts, failures, spurious wakeups | `NoUnderflow`, `NoLostPost`, `LeaksAreReported`; tokens and answers are those of a `CountingSemaphore` (`ImplementsSemaphore`) |
| `sem_fair` | wait, post and getvalue on one handle, fairness | `CallsEnd` |
| `piggy_race` | two pigs, two apples, both timings, fairness | `FeederIsAwake`, `LeaderLeads`, `ResultIsRight`, `LocationExists`, `AppleEndsOnce`, `BonusIsEarned`, `RaceEnds` |
| `common_all` | trees of each kind over five keys (six nodes), lists of four nodes and two values, a table of three buckets with four keys and any first count, a pool of two usable banks, failing mallocs | `KeepsKeys`, `BalancedUntilRemoval`, `RulesUntilRemoval`, `RbRemovesOnLeft`, `BstRemovesOne`: what each kind of tree keeps, and until when; `ListIsSound`, `SortKeepsNodes`; `FindsStored`, `CountCoversEntries`; `PiecesAreSound` |
| `library_all` | three users and three books, two names each of which one begins with the other; six commands that change something; failing mallocs of records and activities | `FoundByName`, `ShelvesAreOwn`, `ListsAreWhole`, `MarksAgree` |
| `library_wows` | the same, no malloc fails | a violation: one user wows one book twice, though the list of commands says he can not |
| `server_all` | two workers, two connections, three requests, terminations at any time, fairness | `AnswersFit`, `RequestsAnswered`, `WorkersOutliveServer` |
| `piggy_bonus` | a longer track, paced | a violation: who catches the last apple runs at full speed to the end, though the comment says three seconds |

The properties of the trees say how far the code goes: a removal of a node whose
right child has no left child breaks a binary tree, the first removal ends the
balance of an AVL tree, and a red-black tree survives a removal that costs a black
node only when the way down went left past black siblings. Outside these
conditions the runs reach the trees the code really makes; they are not hidden.

Why these bounds. Two sessions and the exchange thread are all the roles there
are; two sends make both orders of every race on a box, a second conversation
and a full slot; three, given one at a time, also a repeated contact. `Wrap`
is above every count a correct run reaches, and small enough that a counter
decremented below zero shows. Three threads are a waiter, a waiter that is woken
as well, and a poster; two handles are needed for the shared counter; four calls
let each be made and one repeated. Two pigs are the least that overtake each
other; two apples are one that has a successor and the last; the track is as short
as lets a pig run on after the last apple. Five keys are the
fewest with which a removal needs a double turn, climbs two levels or meets a red
sibling. Four nodes have two inner ones and a repeated value. Three buckets and
four keys fill the table, with two keys on one bucket and two that compare equal
but hash differently; `NumWrap` is twice the buckets, so a first count may lie below,
on and above their number and one above it wraps. Two pieces to a bank let a bank run out and grow. Six
commands let two users come, one be a friend of another or own two books, and lose
one; the mallocs that fail are those of the records and of the activities of wows and
buys, which the handler is about to pair (the proof covers every other choice). Two workers and three requests let a request be overtaken, overwritten twice,
and follow a termination. One turn stands for the three an apple
falls and one for the three a bonus lasts. `exchange_race`, `sem_all` and the
`piggy` runs do not check deadlock, because the program really stops there: after a
leaked lock, and after a race, when the feeder waits for an apple nobody will
release and the display for the lock the pig thread ended with. `sem_fair` does not
either: a waiter may wait for a post that never comes. Nor do `common_all` and the
library runs, whose programs end at a command that fails or follows NULL, nor
`server_all`, where the workers wait for ever once the daemon has ended.

Fairness. Threads are scheduled: weak fairness on each thread's steps. In the
exchange also strong fairness on taking `lock_exchange`: a sender that finds the
slot filled sleeps a second outside the lock before it tries again, so the lock is
free nearly all the time and a waiter for it gets it. Nothing obliges a user to give
a command, a wait to time out, or a condition variable to wake without a signal.
In the server each of its threads is scheduled: the listener once it has a request
to post, the daemon and every worker. Nobody has to send a request or a termination.

## 4. Proofs

For every set of users, sessions, names and threads, every bound, and every choice
of what may fail. The assumptions are those named in the modules: threads and the
"nobody" values are distinct, functions have their domains, numbers are naturals.

- `MsgExchange_proofs`. `SlotInv` is `TypeOK`, `MutualExclusion`, `NoLostWakeup`
  and `SlotHeld` together. Neither of the last two is inductive alone: that nobody fills the slot
  while the exchange records, and that the sender of an unseen message is still
  ahead of its signal, both rest on no other thread being inside the lock; and
  the heap part of `TypeOK` is needed to know what a step of a box does.
  `SlotInit` and `SlotStep`, one step per action, give `SlotInvariant`, hence
  `TypeCorrect`, `ExchangeExcludes`, `ExchangeWakes`, `ExchangeHoldsSlot`.
  `ExchangeIsChannel` is the refinement: the channel's content is the payload
  while the event says a message was sent; `Publish` is `Put`, giving the slot back
  (`FreeSlot`) is `Take`, every other step a stutter.
  The boxes have no lock, and `exchange_lost` shows what two commands at once do to
  them, so what is proved of them has the hypothesis `OneAtATime`: commands are paced,
  as in the repository's tests, no malloc fails, and twice the sends stay below
  `Wrap` (a counter of 32 bits; a message to oneself is counted twice in one box).
  Without the second the code itself breaks both: a message whose context cannot be
  allocated is recorded nowhere, and `briefMsgContexts` that cannot allocate its answer
  leaves the conversation unread while the box is lowered all the same.
  `exchange_paced` is such an instance, and states it as an assumption. `BoxInv` is
  `SlotInv` and four more. `Turns` and `Errands` say whose turn it is: pacing keeps two
  commands apart, and within one the slot keeps the sender and the exchange thread
  apart, since a session records before it publishes. `HeapInv` gives each
  conversation one box and one place in it, what the thread in the boxes has loaded, and
  the books: a box or a conversation is off by exactly the counters the thread has left
  to increment (`Counts`) or the unread messages it has left to subtract (`Clears`).
  `Tally` bounds a box by messages sent and taken, so nothing wraps. `BoxStep` goes
  through the actions, with one lemma for each statement of `sendReceiveMsg`, and gives
  `BoxesAddUp`, that is `CountersAddUp`.
  `Copied` follows the messages: no two records are alike, since a message's number is
  beyond all recorded before it is written by its sender, and beyond all received
  until the exchange writes it; what is in the slot is recorded with its sender, what is
  taken out of it also with its addressee. It rests on `BoxInv` and gives
  `MessagesAreKept`, that is `ExactlyOneCopy`.
- `SemWrapper_proofs`. `SemInv` is `TypeOK`, `NoUnderflow`, `NoLostPost` and
  `LeaksAreReported`; a thread past its test owns the mutex, so the value it tested
  is still there. It gives `SemTypeCorrect`, `SemNeverUnderflows`,
  `SemLosesNoPost`, `SemReportsLeaks`.
  `WrapperIsSemaphore` is the refinement to `CountingSemaphore`: `Take` is `Serve`,
  for a plain wait to `served` and for one with a time limit to `taken`, `Increment` is `Deliver`, the entry to a call and its return are `CallOrReturn`,
  every step inside a stutter; a return maps the status to the answer. It has the hypothesis `FewPosts`: the first
  value and the calls together stay below the wrap, 2^32 in the code. `RoomInv` carries
  that along: a call that begins takes its room from those not yet made, so a post has
  its room until it increments. The instance states `FewPosts` as an assumption.
- `PiggyRace_proofs`. `FeederNeverMissesAnEvent`: `FeederIsAwake` is inductive
  with the domain of `pc` beside it; only `Release` and `Take` move both the flag and the
  feeder, every other step of the pig thread and of the display moves neither.
  `RaceTypes` holds for any interleaving. `TypeInv` adds that `num_piggy_finished` is the
  number of pigs on the line and that a pig moves at least a step in each turn
  (`KeepsUp`), so that the race is over within `Track` turns and `period` is in range.
  The rest is about paced races. `Pace` says where the others are while the pig thread works;
  it gives `RaceReadsLocations`. `RankInv` is the invariant of the two insertion
  sorts, for any key: the pigs before the one to be placed are in order and different,
  with a gap where it may go (`NearlyRanked`). It gives `RaceLeaderLeads` and
  `RaceResultIsRight`. `AppleInv` gives for each place of the feeder how many apples
  have ended (`FeederCounts`), and what the pig thread has decided still holds when it acts
  (`PigHolds`): `RaceAppleEndsOnce`. `BonusInv` is an account per pig: the turns run
  at full speed and those still owed are paid for by catches, and who is counted is
  who is awarded: `RaceBonusIsEarned`.
- `Library_proofs`. `LibraryInv` is three properties of the run (`ShelvesAreOwn`,
  `ListsAreWhole`, `MarksAgree`), that nothing behind an entry begins with its
  name or title (`InOrder`), and that what is no book has no marks; one lemma per command.
  It gives
  `LibraryFindsByName`, `LibraryShelvesAreOwn`, `LibraryListsAreWhole` and
  `LibraryMarksAgree`. The last is for any choice of failing mallocs: a counter is
  never below its records, nor the records below the activities, and each pair is
  equal where the malloc between the two never failed.
- `Structures_proofs`. For the pool, `PoolInv` adds that a piece's number was not made before
  and that one handed out with the size of a bank in use is as long as that bank's:
  `PoolPiecesAreSound`.
  For the list, `ListInv` adds that no node is in it twice and what the demo has done
  by each phase: `ListStaysSound`, and with it `ListSortIsStable`, an action property
  about each whole sort.
  For the hash table, `HtInv` follows a key's walk: an entry lies on the walk of its key
  with no empty bucket before it (`Kept`), and a key that compares equal to no other
  is in one bucket at most (`Single`). It gives
  `TableFindsStored` and `NumDataCovers`: a `num_data` that started at most at
  `NUM_BUCKETS` stays between the entries and `NUM_BUCKETS`, so it never wraps
  (`CountSteps`); of one that started above nothing is claimed. `TableCountsAndIsUsedUp` needs the hypothesis
  `WalksEverywhere`: within the probes it makes, a walk comes to every bucket. The steps
  come from `rand()` with a fixed seed, so whether they do is a fact about the C
  library and the number of buckets, not about this code; the instance states it as an
  assumption.
- `Trees_proofs`. Everything here is for trees of any size over any finite set of integer
  keys. Induction is on the height: `TreeInduction` and `ChildInduction` are about a set
  of trees, so they need no operator as a parameter, and `TreeRecursion` says that a
  definition which looks only at lower trees has a function that satisfies it. From it
  every recursive operator gets the equation it is written by (`LookupDef`, `AttachDef`,
  `AvlRemoveDef`, `RbRemoveDef`, ...), and all that follows uses these equations only.
  On the operators: a turn keeps the keys and their order (`Keeps`), or dereferences a
  NULL; so `AvlRemoves` says that `AVLtree_remove` of an ordered tree takes out one key
  and keeps the others in order, and `RbRemoves` the same of `tree_remove`, unless
  its repair has shared a node, and then a key is there twice (`Twice`).
  `AvlAttachBalances`: when the search for the deepest leaning node finds one, the tree
  below it had grown by a level on the side of the new key and leaned that way, so the
  turn brings it back to its old height (`Tips`, `Rebalanced`). `RbAttachRules`: on
  the way back up there is at most one red pair and it is at the root (`Loose`,
  `Grown`), and the turns take it away.
  On the shell: `TreeInv` says that such a tree is ordered and holds the keys added and
  not removed (`HoldsKeys`), that an AVL tree that only grew is balanced, and that a
  red-black tree that only grew from red nodes keeps its rules. It is needed because
  `KeepsKeys` speaks of sequences and counts, from which a turn cannot be argued
  locally; `TreeStep` keeps it, one lemma for each operation. It gives `TreesKeepKeys`,
  `AvlGrowsBalanced` and `RbGrowsByTheRules`; `TreeTypes` is on its own.
  `BstRemoves` is about any tree whose keys are in order but may be equal (`Weak`),
  since the shell adds a key twice. It follows that the key sought is on the way down, and
  that the smallest of the right subtree may take its place.
  `RbRemovesRight`: a removal keeps the rules or leaves the tree one black node short,
  and then its root is black (`Shrunk`); a short left side with a black sibling is
  put right by `rebalance` (`RepairOnTheRight`), and the hypothesis of the property sees
  to it that no other repair is called (`OnlyLeftBelow`).
- `DataLemmas`. Sums of functions over finite sets, counts of indices, sequences
  without repetition, maxima. The facts about sums are proved by induction over the finite
  set, as a set of sizes closed under successor.
- `ServerProcess_proofs`. `AnswersFit` speaks of a request only once it is answered,
  so it is not inductive. `AnswersInv` follows a request all the way: what is queued
  is the last request converted unless it was overrun (`QueueFits`), every job fits
  (`JobsFit`), a request is in one place (`Once`, `Apart`), and the one in the buffer
  is nowhere yet (`Fresh`). One lemma per action, then `AnswersFitRequests`. That
  `Workers` is finite is assumed: the termination puts one job for each.

Only model-checked: liveness (`SendsEnd`, `ImplementsFairChannel`, `CallsEnd`,
`RaceEnds`, `RequestsAnswered`, `WorkersOutliveServer`), which the prover cannot do
under fairness. Every other property of a passing run is a theorem.

## 5. Plan

1. `MsgBox`, `MsgExchange`, `OneSlotChannel` and proofs: done.
2. `SemWrapper`, `CountingSemaphore` and proofs: done.
3. `PiggyRace` and proofs: done.
4. `Library` and proofs: done.
5. `ServerProcess` and proof: done.
6. `HashTable`, `LinkedList`, `MemPool` and proofs: done.
7. `SearchTrees`, `TreeShell` and proofs: done.

What is open beyond proofs: two sessions that change the catalogue at once. The
handlers have no lock but `addUser`'s, so statement-level steps as in `MsgBox` would
show the lost updates the message boxes already show.

## 6. Not modelled

- Text: parsing of command lines, printing, the strings of requests and activities,
  groups and descriptions of books.
- Sockets and terminals: pure input and output. Chatty's server forks a process per
  connection, and the processes share nothing after that.
- The database engine and the friend maps: calls to TinySQL, which has no code, and
  empty bodies. `Map_InsertElement` is called with an argument missing and takes a
  free slot only when it has one already, so no map ever gets an element.
- The client's request builder: a table from commands to requests, without state.
  `eLibrary_CLT_getResponse` is empty, and the two caches are stacks that are
  declared and have no code.
- The handle functions of `common` are stubs that always fail; its other helpers are
  wrappers without state. `session.c` is compiled out.
- The server process does not compile as it stands (undeclared variables, a missing
  comma); its control flow is clear and is modelled. Its queue and job centre are
  only declared: the model takes both as first in, first out, with a message copied
  when posted and a payload when its job is assigned.
- Of `linkit`, `hashit` and `beliketree`: help texts, and commands that are refused
  before they call anything. A command of the library that changes nothing because
  its user, book or friend is not there is not an action either.
