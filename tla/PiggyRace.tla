------------------------------- MODULE PiggyRace -------------------------------
(***************************************************************************)
(* gopiggy: a race of pigs, run by three threads that share plain globals. *)
(*   pig     moves every pig once a second, ranks them, releases an apple  *)
(*           ahead of the leader and lets a pig catch it;                  *)
(*   feeder  waits for a released apple to be caught, or drops it after a  *)
(*           timeout, then makes the next one available;                   *)
(*   ui      starts the race and redraws the ranking once a second.        *)
(* A section under apple_locker or window_refresh_lock is one step.        *)
(*                                                                         *)
(* paced chooses the timing of a behaviour.  The pig thread works for a    *)
(* moment and sleeps for a second, so the others nearly always run while   *)
(* it sleeps (paced); nothing in the code makes sure they do (not paced).  *)
(***************************************************************************)
EXTENDS Integers, Sequences, Functions

CONSTANTS
  NumPigs,       \* f_num_pigs
  Track,         \* TRACK_LENGTH
  Apples,        \* f_apple_locations
  Speeds,        \* MIN_SPEED + rand() % speed_cap
  MaxSpeed,      \* MAX_SPEED
  ReleaseRange,  \* an apple is released nearer than this to the leader (25)
  CatchRange,    \* and caught by a pig nearer than this (4)
  FallTicks,     \* ticks the apple falls (3)
  DropTicks,     \* seconds until it is dropped (APPLE_DROP_TIMEOUT)
  Bonus,         \* seconds at MaxSpeed (3)
  Timings        \* the values of paced in this instance

ASSUME SizesAssumption ==
  /\ NumPigs \in Nat \ {0}
  /\ {Track, MaxSpeed, ReleaseRange, CatchRange, Bonus} \subseteq Nat \ {0}
  /\ Speeds # {} /\ Speeds \subseteq 1..MaxSpeed
  /\ Apples \in Seq(1..Track)
  /\ FallTicks \in Nat \ {0} /\ DropTicks \in Nat \ {0}
  /\ Timings \subseteq BOOLEAN /\ Timings # {}

Pigs == 0..(NumPigs - 1)
NumApples == Len(Apples)
Nobody == -1

VARIABLES
  pc,           \* pc[t]: the next statement of thread t
  i, j,         \* i[t], j[t]: the loop variables of pig and ui
  position,     \* position[p]: current_position
  period,       \* period[p]: time_period, 0 until p has finished
  numFinished,  \* num_piggy_finished
  ticks,        \* time since f_start_time, in turns of the pig thread
  ranked,       \* f_ranked_pigs
  released,     \* f_apple_released
  appleIndex,   \* f_apple_index_available
  fallCount,    \* apple_fall_count
  catcher,      \* piggy_apple_catcher
  bonusPig,     \* index_apple_catcher
  bonus,        \* apple_bonus
  caught,       \* caught[p]: num_apples_caught
  dropped,      \* the feeder's apple_dropped
  windowHeld,   \* window_refresh_lock is held, by the pig thread that ended
  started,      \* f_game_started
  tokens,       \* sem_game_start
  paced,        \* the timing of this behaviour
  shames,       \* history: apples announced as caught by nobody
  fast          \* history: fast[p], the turns p ran at MaxSpeed

race == <<position, period, numFinished, ticks, fast>>
apple == <<released, fallCount, catcher, caught>>
award == <<bonusPig, bonus>>
feed == <<appleIndex, dropped, shames>>
game == <<windowHeld, started, tokens, paced>>
vars == <<pc, i, j, race, ranked, apple, award, feed, game>>

Threads == {"pig", "feeder", "ui"}
Walkers == {"pig", "ui"}

\* The login is over and the three threads run.
Init ==
  /\ pc = [t \in Threads |-> IF t = "pig" THEN "start" ELSE IF t = "feeder" THEN "top" ELSE "menu"]
  /\ i = [t \in Walkers |-> 0] /\ j = [t \in Walkers |-> 0]
  /\ position = [p \in Pigs |-> 0]
  /\ period = [p \in Pigs |-> 0]
  /\ numFinished = 0 /\ ticks = 0
  /\ ranked = [p \in Pigs |-> 0]
  /\ released = FALSE /\ fallCount = 0 /\ catcher = Nobody
  /\ caught = [p \in Pigs |-> 0]
  /\ bonusPig = Nobody /\ bonus = 0
  /\ appleIndex = 0 /\ dropped = FALSE
  /\ windowHeld = FALSE /\ started = FALSE /\ tokens = 0
  /\ paced \in Timings
  /\ shames = 0 /\ fast = [p \in Pigs |-> 0]

At(t, label) == pc[t] = label
Goto(t, label) == pc' = [pc EXCEPT ![t] = label]

\* Feeder and ui sleep or wait; the pig thread sleeps, waits or has ended.
OthersRest == pc["feeder"] \in {"idle", "timed", "done"} /\ pc["ui"] \in {"menu", "done"}
PigRests == pc["pig"] \in {"start", "sleep", "done"}
PigMayTick == paced => OthersRest
OthersMayRun == paced => PigRests

-----------------------------------------------------------------------------
(* rank_piggy, called by pig and ui without a lock: insertion sort by       *)
(* position.  One step is one turn of the inner loop.                       *)

StartLoop(t) == i' = [i EXCEPT ![t] = 0] /\ j' = [j EXCEPT ![t] = 0]

\* The pig before it in the order is behind: it moves one place down.
Shift(t) ==
  /\ ranked' = [ranked EXCEPT ![j[t]] = ranked[j[t] - 1]]
  /\ j' = [j EXCEPT ![t] = j[t] - 1]
  /\ UNCHANGED <<pc, i, race, apple, award, feed, game>>

\* The pig's place is found; the next pig, or the end of the loop.
Place(t, next) ==
  /\ ranked' = [ranked EXCEPT ![j[t]] = i[t]]
  /\ IF i[t] + 1 < NumPigs
     THEN /\ i' = [i EXCEPT ![t] = i[t] + 1]
          /\ j' = [j EXCEPT ![t] = i[t] + 1]
          /\ UNCHANGED pc
     ELSE Goto(t, next) /\ StartLoop(t)
  /\ UNCHANGED <<race, apple, award, feed, game>>

AfterRank == [t \in Walkers |-> IF t = "pig" THEN "check" ELSE "show"]

Overtakes(t) == j[t] > 0 /\ position[ranked[j[t] - 1]] < position[i[t]]

\* Fault: each pig is put where it stands, the one it overtakes is not moved.
RankPlaceFirst(t) == At(t, "rank") /\ Place(t, AfterRank[t])

RankShift(t) == At(t, "rank") /\ Overtakes(t) /\ Shift(t)
RankPlace(t) == At(t, "rank") /\ ~Overtakes(t) /\ Place(t, AfterRank[t])

\* rank_piggy_final, the same by time_period.
Faster == j["pig"] > 0 /\ period[ranked[j["pig"] - 1]] > period[i["pig"]]

\* Fault: as in rank_piggy.
FinalPlaceFirst == At("pig", "final") /\ Place("pig", "close")

FinalShift == At("pig", "final") /\ Faster /\ Shift("pig")
FinalPlace == At("pig", "final") /\ ~Faster /\ Place("pig", "close")

-----------------------------------------------------------------------------
(* The pig thread.                                                          *)

Start ==
  /\ At("pig", "start") /\ PigMayTick
  /\ tokens > 0
  /\ tokens' = tokens - 1
  /\ Goto("pig", "run")
  /\ UNCHANGED <<i, j, race, ranked, apple, award, feed, windowHeld, started, paced>>

\* The pig in turn, and how the loop over the pigs goes on.
Runner == i["pig"]
NextRunner ==
  /\ UNCHANGED <<j, ranked, apple, feed, game>>
  /\ IF Runner + 1 < NumPigs
     THEN i' = [i EXCEPT !["pig"] = Runner + 1] /\ UNCHANGED pc
     ELSE i' = [i EXCEPT !["pig"] = 0] /\ Goto("pig", "rank")

Advance(p, speed) ==
  IF position[p] + speed >= Track
  THEN /\ position' = [position EXCEPT ![p] = Track]
       /\ period' = [period EXCEPT ![p] = ticks + 1]
       /\ numFinished' = numFinished + 1
  ELSE /\ position' = [position EXCEPT ![p] = position[p] + speed]
       /\ UNCHANGED <<period, numFinished>>

HasBonus(p) == bonusPig = p /\ bonus > 0

\* Fault: a pig that has finished runs on.
RunOn ==
  /\ At("pig", "run")
  /\ ~HasBonus(Runner)
  /\ \E speed \in Speeds : Advance(Runner, speed)
  /\ NextRunner
  /\ UNCHANGED <<ticks, fast, award>>

Run ==
  /\ At("pig", "run")
  /\ position[Runner] # Track
  /\ ~HasBonus(Runner)
  /\ \E speed \in Speeds : Advance(Runner, speed)
  /\ NextRunner
  /\ UNCHANGED <<ticks, fast, award>>

\* At full speed, announced under the window lock.
RunFast ==
  /\ At("pig", "run")
  /\ position[Runner] # Track
  /\ HasBonus(Runner)
  /\ ~windowHeld
  /\ bonus' = bonus - 1
  /\ fast' = [fast EXCEPT ![Runner] = fast[Runner] + 1]
  /\ Advance(Runner, MaxSpeed)
  /\ NextRunner
  /\ UNCHANGED <<ticks, bonusPig>>

Rests ==
  /\ At("pig", "run")
  /\ position[Runner] = Track
  /\ NextRunner
  /\ UNCHANGED <<race, award>>

-----------------------------------------------------------------------------
(* try_catch_apple.                                                         *)

\* Fault: the index is not tested.
CheckNothing ==
  /\ At("pig", "check")
  /\ Goto("pig", "try")
  /\ UNCHANGED <<i, j, race, ranked, apple, award, feed, game>>

\* if (f_apple_index_available < 5), the only test of the index.
Check ==
  /\ At("pig", "check")
  /\ Goto("pig", IF appleIndex < NumApples THEN "try" ELSE "award")
  /\ UNCHANGED <<i, j, race, ranked, apple, award, feed, game>>

\* Whether the pig of that rank is from least to less than range before the
\* apple.  Beyond the last apple the code reads past the array: any answer.
Reaches(rank, least, range) ==
  IF appleIndex < NumApples
  THEN {Apples[appleIndex + 1] - position[ranked[rank]] \in least..(range - 1)}
  ELSE BOOLEAN

\* Fault: what an earlier call returned is kept.
NoCatchKept == UNCHANGED catcher /\ Goto("pig", "award")

\* try_catch_apple returns -1.
NoCatch == catcher' = Nobody /\ Goto("pig", "award")

LeaderFar ==
  /\ At("pig", "try")
  /\ ~released
  /\ FALSE \in Reaches(0, 1, ReleaseRange)
  /\ NoCatch
  /\ UNCHANGED <<i, j, race, ranked, released, fallCount, caught, award, feed, game>>

LeaderNear ==
  /\ At("pig", "try")
  /\ ~released
  /\ TRUE \in Reaches(0, 1, ReleaseRange)
  /\ Goto("pig", "release")
  /\ UNCHANGED <<i, j, race, ranked, apple, award, feed, game>>

\* pthread_cond_signal: the feeder, if it waits.
WakeFeeder(next) ==
  pc' = [pc EXCEPT !["pig"] = next,
                   !["feeder"] = IF @ = "idle" THEN "woken" ELSE IF @ = "timed" THEN "timed_woken" ELSE @]

\* Fault: the flag is set but nobody is told.
ReleaseSilently ==
  /\ At("pig", "release")
  /\ released' = TRUE
  /\ Goto("pig", "announce")
  /\ UNCHANGED <<i, j, race, ranked, fallCount, catcher, caught, award, feed, game>>

Release ==
  /\ At("pig", "release")
  /\ released' = TRUE
  /\ WakeFeeder("announce")
  /\ UNCHANGED <<i, j, race, ranked, fallCount, catcher, caught, award, feed, game>>

\* Fault: the window lock is not given back.
AnnounceAndKeep ==
  /\ At("pig", "announce")
  /\ ~windowHeld
  /\ windowHeld' = TRUE
  /\ fallCount' = 0
  /\ NoCatch
  /\ UNCHANGED <<i, j, race, ranked, released, caught, award, feed, started, tokens, paced>>

Announce ==
  /\ At("pig", "announce")
  /\ ~windowHeld
  /\ fallCount' = 0
  /\ NoCatch
  /\ UNCHANGED <<i, j, race, ranked, released, caught, award, feed, game>>

Fall ==
  /\ At("pig", "try")
  /\ released
  /\ fallCount' = fallCount + 1
  /\ IF fallCount + 1 = FallTicks
     THEN Goto("pig", "catch") /\ StartLoop("pig") /\ UNCHANGED catcher
     ELSE NoCatch /\ UNCHANGED <<i, j>>
  /\ UNCHANGED <<race, ranked, released, caught, award, feed, game>>

\* The apple is on the ground: the ranked pigs are tried one after the other.
Miss ==
  /\ At("pig", "catch")
  /\ FALSE \in Reaches(Runner, 0, CatchRange) \/ ~released
  /\ IF Runner + 1 < NumPigs
     THEN i' = [i EXCEPT !["pig"] = Runner + 1] /\ UNCHANGED <<pc, catcher>>
     ELSE NoCatch /\ UNCHANGED i
  /\ UNCHANGED <<j, race, ranked, released, fallCount, caught, award, feed, game>>

Hit ==
  /\ At("pig", "catch")
  /\ TRUE \in Reaches(Runner, 0, CatchRange) /\ released
  /\ Goto("pig", "take")
  /\ UNCHANGED <<i, j, race, ranked, apple, award, feed, game>>

\* Fault: the apple stays released.
TakeAndKeep ==
  /\ At("pig", "take")
  /\ catcher' = ranked[Runner]
  /\ WakeFeeder("count")
  /\ UNCHANGED <<i, j, race, ranked, released, fallCount, caught, award, feed, game>>

Take ==
  /\ At("pig", "take")
  /\ released' = FALSE
  /\ catcher' = ranked[Runner]
  /\ WakeFeeder("count")
  /\ UNCHANGED <<i, j, race, ranked, fallCount, caught, award, feed, game>>

\* Announced under the window lock, then counted for the pig that has the rank.
Count ==
  /\ At("pig", "count")
  /\ ~windowHeld
  /\ caught' = [caught EXCEPT ![ranked[Runner]] = caught[ranked[Runner]] + 1]
  /\ Goto("pig", "award")
  /\ UNCHANGED <<i, j, race, ranked, released, fallCount, catcher, award, feed, game>>

-----------------------------------------------------------------------------
(* The end of a turn, and of the race.                                      *)

\* The catcher is a local that only a call of try_catch_apple changes.
Award ==
  /\ At("pig", "award")
  /\ Goto("pig", "sleep")
  /\ IF catcher # Nobody
     THEN bonusPig' = catcher /\ bonus' = Bonus
     ELSE UNCHANGED award
  /\ UNCHANGED <<i, j, race, ranked, apple, feed, game>>

NextTurn ==
  /\ At("pig", "sleep") /\ PigMayTick
  /\ ticks' = ticks + 1
  /\ StartLoop("pig")
  /\ Goto("pig", IF numFinished < NumPigs THEN "run" ELSE "final")
  /\ UNCHANGED <<position, period, numFinished, fast, ranked, apple, award, feed, game>>

\* The result is shown under the window lock, which is never given back.
Close ==
  /\ At("pig", "close")
  /\ ~windowHeld
  /\ windowHeld' = TRUE
  /\ Goto("pig", "stop")
  /\ UNCHANGED <<i, j, race, ranked, apple, award, feed, started, tokens, paced>>

Stop ==
  /\ At("pig", "stop")
  /\ started' = FALSE
  /\ Goto("pig", "done")
  /\ UNCHANGED <<i, j, race, ranked, apple, award, feed, windowHeld, tokens, paced>>

-----------------------------------------------------------------------------
(* The feeder.                                                              *)

\* Clears the flag and waits, without a gap between the two.
AwaitRelease ==
  /\ At("feeder", "top") /\ OthersMayRun
  /\ released' = FALSE
  /\ Goto("feeder", IF appleIndex < NumApples THEN "idle" ELSE "done")
  /\ UNCHANGED <<i, j, race, ranked, fallCount, catcher, caught, award, feed, game>>

\* pthread_cond_wait returns although nobody signalled.
SpuriousWakeup ==
  /\ pc["feeder"] \in {"idle", "timed"} /\ OthersMayRun
  /\ Goto("feeder", IF At("feeder", "idle") THEN "woken" ELSE "timed_woken")
  /\ UNCHANGED <<i, j, race, ranked, apple, award, feed, game>>

\* The first loop tests the flag: released, the feeder sets its timeout.
Woken ==
  /\ At("feeder", "woken") /\ OthersMayRun
  /\ Goto("feeder", IF released THEN "timed_woken" ELSE "idle")
  /\ UNCHANGED <<i, j, race, ranked, apple, award, feed, game>>

\* The second loop tests the flag, before the first wait too.
TimedWoken ==
  /\ At("feeder", "timed_woken") /\ OthersMayRun
  /\ Goto("feeder", IF released THEN "timed" ELSE "after")
  /\ UNCHANGED <<i, j, race, ranked, apple, award, feed, game>>

\* The timeout is set in whole seconds: it may pass up to a second early.
TimesOut ==
  /\ At("feeder", "timed") /\ OthersMayRun
  /\ paced => fallCount >= DropTicks - 1
  /\ dropped' = TRUE
  /\ Goto("feeder", "after")
  /\ UNCHANGED <<i, j, race, ranked, apple, award, appleIndex, shames, game>>

AfterApple ==
  /\ At("feeder", "after") /\ OthersMayRun
  /\ Goto("feeder", IF dropped THEN "shame" ELSE "advance")
  /\ UNCHANGED <<i, j, race, ranked, apple, award, feed, game>>

Shame ==
  /\ At("feeder", "shame") /\ OthersMayRun
  /\ ~windowHeld
  /\ shames' = shames + 1
  /\ Goto("feeder", "reset")
  /\ UNCHANGED <<i, j, race, ranked, apple, award, appleIndex, dropped, game>>

\* Without apple_locker.
Reset ==
  /\ At("feeder", "reset") /\ OthersMayRun
  /\ released' = FALSE
  /\ Goto("feeder", "advance")
  /\ UNCHANGED <<i, j, race, ranked, fallCount, catcher, caught, award, feed, game>>

NextApple ==
  /\ At("feeder", "advance") /\ OthersMayRun
  /\ appleIndex' = appleIndex + 1
  /\ dropped' = FALSE
  /\ Goto("feeder", "top")
  /\ UNCHANGED <<i, j, race, ranked, apple, award, shames, game>>

-----------------------------------------------------------------------------
(* The user interface.                                                      *)

Quit ==
  /\ At("ui", "menu") /\ OthersMayRun
  /\ ~started
  /\ Goto("ui", "done")
  /\ UNCHANGED <<i, j, race, ranked, apple, award, feed, game>>

Go ==
  /\ At("ui", "menu") /\ OthersMayRun
  /\ ~started
  /\ tokens' = tokens + 1
  /\ Goto("ui", "start")
  /\ UNCHANGED <<i, j, race, ranked, apple, award, feed, windowHeld, started, paced>>

SetStarted ==
  /\ At("ui", "start") /\ OthersMayRun
  /\ started' = TRUE
  /\ Goto("ui", "menu")
  /\ UNCHANGED <<i, j, race, ranked, apple, award, feed, windowHeld, tokens, paced>>

Redraw ==
  /\ At("ui", "menu") /\ OthersMayRun
  /\ started
  /\ StartLoop("ui")
  /\ Goto("ui", "rank")
  /\ UNCHANGED <<race, ranked, apple, award, feed, game>>

Show ==
  /\ At("ui", "show") /\ OthersMayRun
  /\ ~windowHeld
  /\ Goto("ui", "menu")
  /\ UNCHANGED <<i, j, race, ranked, apple, award, feed, game>>

-----------------------------------------------------------------------------

Pig ==
  \/ Start \/ Run \/ RunFast \/ Rests
  \/ RankShift("pig") \/ RankPlace("pig")
  \/ Check \/ LeaderFar \/ LeaderNear \/ Release \/ Announce
  \/ Fall \/ Miss \/ Hit \/ Take \/ Count
  \/ Award \/ NextTurn \/ FinalShift \/ FinalPlace \/ Close \/ Stop

Feeder ==
  \/ AwaitRelease \/ Woken \/ TimedWoken \/ TimesOut
  \/ AfterApple \/ Shame \/ Reset \/ NextApple

Display ==
  \/ SetStarted \/ Redraw \/ Show
  \/ OthersMayRun /\ (RankShift("ui") \/ RankPlace("ui"))

Next == Pig \/ Feeder \/ SpuriousWakeup \/ Display \/ Quit \/ Go

Spec == Init /\ [][Next]_vars

\* The threads run; no section under a lock lasts.
FairSpec == Spec /\ WF_vars(Pig) /\ WF_vars(Feeder) /\ WF_vars(Display)

-----------------------------------------------------------------------------
(* Properties.                                                              *)

Labels == [pig |-> {"start", "run", "rank", "check", "try", "release", "announce", "catch", "take",
                    "count", "award", "sleep", "final", "close", "stop", "done"},
           feeder |-> {"top", "idle", "woken", "timed", "timed_woken", "after", "shame", "reset",
                       "advance", "done"},
           ui |-> {"menu", "start", "rank", "show", "done"}]

\* The globals stay in their ranges whatever the threads do to each other: a
\* rank and a catcher name a pig, and only the array index may run past its end.
TypeOK ==
  /\ \A t \in Threads : pc[t] \in Labels[t]
  /\ \A t \in Walkers : i[t] \in Pigs /\ j[t] \in 0..i[t]
  /\ position \in [Pigs -> 0..Track]
  /\ period \in [Pigs -> 0..Track]
  /\ numFinished \in 0..NumPigs
  /\ ticks \in Nat
  /\ ranked \in [Pigs -> Pigs]
  /\ appleIndex \in 0..NumApples
  /\ {fallCount, tokens, shames} \subseteq Nat
  /\ {catcher, bonusPig} \subseteq Pigs \cup {Nobody}
  /\ bonus \in 0..Bonus
  /\ caught \in [Pigs -> Nat] /\ fast \in [Pigs -> Nat]
  /\ {released, dropped, windowHeld, started, paced} \subseteq BOOLEAN

\* The feeder sleeps neither through a release nor through a catch: what the
\* pig thread changes under apple_locker it also signals.
FeederIsAwake ==
  /\ At("feeder", "idle") => released = FALSE
  /\ At("feeder", "timed") => released = TRUE

\* When the pig thread looks for the leader, rank_piggy has put the pigs in the
\* order of their positions, none twice, although the display ranks too.
LeaderLeads ==
  paced /\ pc["pig"] \in {"check", "try", "catch"} =>
    \A r \in 1..(NumPigs - 1) :
      /\ position[ranked[r - 1]] >= position[ranked[r]]
      /\ \A q \in 0..(r - 1) : ranked[q] # ranked[r]

\* The printed result is in the order of the finishing times.
ResultIsRight ==
  paced /\ At("pig", "close") =>
    \A r \in 1..(NumPigs - 1) :
      /\ period[ranked[r - 1]] <= period[ranked[r]]
      /\ \A q \in 0..(r - 1) : ranked[q] # ranked[r]

\* try_catch_apple reads a location only of an apple there is.
LocationExists ==
  paced /\ pc["pig"] \in {"try", "catch"} => appleIndex < NumApples

TotalCaught == SumFunction(caught)

\* Every apple the feeder has done with was caught by one pig or announced as
\* caught by none, never both and never twice.
AppleEndsOnce ==
  paced /\ PigRests /\ pc["feeder"] \in {"idle", "timed", "done"} =>
    TotalCaught + shames = appleIndex

\* As long as there are apples, a pig runs at most Bonus turns at full speed for
\* each apple it has caught, as the comment in the pig thread says.
BonusIsEarned ==
  paced /\ appleIndex < NumApples => \A p \in Pigs : fast[p] <= Bonus * caught[p]

\* "This lucky piggy shall run at max speed for 3sec." (Gopiggy.c:244).
BonusLastsThreeTurns ==
  paced => \A p \in Pigs : fast[p] <= Bonus * caught[p]

\* A race that was started ends with a result, whatever the other threads do and
\* however the timing falls.
RaceEnds == ~paced /\ At("ui", "start") ~> At("pig", "done")

===============================================================================
