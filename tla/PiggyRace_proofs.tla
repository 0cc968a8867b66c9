--------------------------- MODULE PiggyRace_proofs ---------------------------
(* The feeder is never asleep beside an event it waits for: proved for any   *)
(* track, any number of pigs and apples and any timing of the threads.       *)
EXTENDS PiggyRace, DataLemmas

AllLabels ==
  {"start", "run", "rank", "check", "try", "release", "announce", "catch", "take", "count", "award",
   "sleep", "final", "close", "stop", "done", "top", "idle", "woken", "timed", "timed_woken",
   "after", "shame", "reset", "advance", "menu", "show"}

\* What the argument needs: where the feeder is, and the flag.
FeederInv ==
  /\ pc \in [Threads -> AllLabels]
  /\ released \in BOOLEAN
  /\ FeederIsAwake

\* The feeder starts awake.
LEMMA FeederInit == Init => FeederInv
<1> SUFFICES ASSUME Init PROVE FeederInv
  OBVIOUS
<1>1. pc \in [Threads -> AllLabels] /\ pc["feeder"] = "top"
  <2>1. pc = [t \in Threads |-> IF t = "pig" THEN "start" ELSE IF t = "feeder" THEN "top" ELSE "menu"]
    BY DEF Init
  <2> QED BY <2>1 DEF Threads, AllLabels
<1>2. released = FALSE
  BY DEF Init
<1> QED BY <1>1, <1>2 DEF FeederInv, FeederIsAwake, At

\* A step of the pig thread or of the display that is no release and no catch
\* moves neither the flag nor the feeder.
LEMMA ApartFromFeeder ==
  ASSUME FeederInv, UNCHANGED released,
         pc' \in [Threads -> AllLabels], pc'["feeder"] = pc["feeder"]
  PROVE  FeederInv'
BY DEF FeederInv, FeederIsAwake, At

\* Such are a move of the pig thread or of the display,
LEMMA GotoIsApart ==
  ASSUME FeederInv, UNCHANGED released, NEW t \in {"pig", "ui"}, NEW l \in AllLabels,
         Goto(t, l) \/ UNCHANGED pc
  PROVE  FeederInv'
<1>1. pc' \in [Threads -> AllLabels] /\ pc'["feeder"] = pc["feeder"]
  BY DEF FeederInv, Goto, Threads, AllLabels
<1> QED BY <1>1, ApartFromFeeder

\* a pig put down in its place of the ranking,
LEMMA PlaceIsApart ==
  ASSUME FeederInv, NEW t \in Walkers, NEW l \in AllLabels, Place(t, l)
  PROVE  FeederInv'
<1>1. UNCHANGED released /\ (Goto(t, l) \/ UNCHANGED pc)
  BY DEF Place, apple
<1> QED BY <1>1, GotoIsApart DEF Walkers

\* one moved down by a place,
LEMMA ShiftIsApart ==
  ASSUME FeederInv, NEW t \in Walkers, Shift(t)
  PROVE  FeederInv'
<1>1. UNCHANGED <<pc, released>>
  BY DEF Shift, apple
<1> QED BY <1>1 DEF FeederInv, FeederIsAwake, At

\* the insertion sort of both threads that does the two,
LEMMA RankIsApart ==
  ASSUME FeederInv, NEW t \in Walkers, RankShift(t) \/ RankPlace(t)
  PROVE  FeederInv'
<1>1. CASE RankShift(t)
  BY <1>1, ShiftIsApart DEF RankShift
<1>2. CASE RankPlace(t)
  <2>1. AfterRank[t] \in AllLabels
    BY DEF AfterRank, Walkers, AllLabels
  <2> QED BY <1>2, <2>1, PlaceIsApart DEF RankPlace
<1> QED BY <1>1, <1>2

\* the turn of the next pig to run,
LEMMA NextRunnerIsApart ==
  ASSUME FeederInv, NextRunner
  PROVE  FeederInv'
<1>1. UNCHANGED released /\ (Goto("pig", "rank") \/ UNCHANGED pc)
  BY DEF NextRunner, apple
<1> QED BY <1>1, GotoIsApart DEF AllLabels

\* and an apple not caught.
LEMMA NoCatchIsApart ==
  ASSUME FeederInv, NoCatch, UNCHANGED released
  PROVE  FeederInv'
BY GotoIsApart DEF NoCatch, AllLabels

\* What the pig thread does keeps the feeder awake for the apple it releases,
LEMMA PigStep ==
  ASSUME FeederInv, Pig
  PROVE  FeederInv'
<1>1. CASE Run \/ RunFast \/ Rests
  BY <1>1, NextRunnerIsApart DEF Run, RunFast, Rests
<1>2. CASE RankShift("pig") \/ RankPlace("pig")
  BY <1>2, RankIsApart DEF Walkers
<1>3. CASE Start \/ Check \/ LeaderNear \/ Hit \/ Count \/ Award \/ NextTurn \/ Close \/ Stop
  <2>1. UNCHANGED released
    BY <1>3 DEF Start, Check, LeaderNear, Hit, Count, Award, NextTurn, Close, Stop, apple
  <2>2. \/ \E l \in {"run", "take", "award", "sleep", "stop", "done", "release"} : Goto("pig", l)
        \/ Goto("pig", IF appleIndex < NumApples THEN "try" ELSE "award")
        \/ Goto("pig", IF numFinished < NumPigs THEN "run" ELSE "final")
    BY <1>3 DEF Start, Check, LeaderNear, Hit, Count, Award, NextTurn, Close, Stop
  <2>3. pc' \in [Threads -> AllLabels] /\ pc'["feeder"] = pc["feeder"]
    BY <2>2 DEF Goto, FeederInv, Threads, AllLabels
  <2> QED BY <2>1, <2>3, ApartFromFeeder
<1>4. CASE LeaderFar \/ Announce
  BY <1>4, NoCatchIsApart DEF LeaderFar, Announce
<1>5. CASE Fall
  BY <1>5, GotoIsApart, NoCatchIsApart DEF Fall, AllLabels
<1>6. CASE Miss
  BY <1>6, GotoIsApart, NoCatchIsApart DEF Miss, AllLabels
<1>7. CASE Release
  \* A feeder that slept on a cleared flag is woken in the same step.
  <2>1. pc' \in [Threads -> AllLabels] /\ pc'["feeder"] \notin {"idle", "timed"}
    BY <1>7 DEF Release, WakeFeeder, FeederInv, Threads, AllLabels
  <2> QED BY <1>7, <2>1 DEF Release, FeederInv, FeederIsAwake, At
<1>8. CASE Take
  <2>1. pc' \in [Threads -> AllLabels] /\ pc'["feeder"] \notin {"idle", "timed"}
    BY <1>8 DEF Take, WakeFeeder, FeederInv, Threads, AllLabels
  <2> QED BY <1>8, <2>1 DEF Take, FeederInv, FeederIsAwake, At
<1>9. CASE FinalShift \/ FinalPlace
  BY <1>9, ShiftIsApart, PlaceIsApart DEF FinalShift, FinalPlace, Walkers, AllLabels
<1> QED BY <1>1, <1>2, <1>3, <1>4, <1>5, <1>6, <1>7, <1>8, <1>9 DEF Pig

\* as does what the feeder does,
LEMMA FeederStep ==
  ASSUME FeederInv, Feeder \/ SpuriousWakeup
  PROVE  FeederInv'
<1> USE DEF FeederInv, FeederIsAwake, At, Goto, Threads, AllLabels
<1>1. CASE AwaitRelease
  BY <1>1 DEF AwaitRelease
<1>2. CASE SpuriousWakeup
  BY <1>2 DEF SpuriousWakeup, apple
<1>3. CASE Woken \/ TimedWoken
  BY <1>3 DEF Woken, TimedWoken, apple
<1>4. CASE TimesOut \/ AfterApple \/ Shame \/ NextApple
  BY <1>4 DEF TimesOut, AfterApple, Shame, NextApple, apple
<1>5. CASE Reset
  BY <1>5 DEF Reset
<1> QED BY <1>1, <1>2, <1>3, <1>4, <1>5 DEF Feeder

\* and what the display and the user do.
LEMMA UserStep ==
  ASSUME FeederInv, Display \/ Quit \/ Go
  PROVE  FeederInv'
<1>1. CASE RankShift("ui") \/ RankPlace("ui")
  BY <1>1, RankIsApart DEF Walkers
<1>2. CASE SetStarted \/ Redraw \/ Show \/ Quit \/ Go
  <2>1. UNCHANGED released
    BY <1>2 DEF SetStarted, Redraw, Show, Quit, Go, apple
  <2>2. pc' \in [Threads -> AllLabels] /\ pc'["feeder"] = pc["feeder"]
    BY <1>2 DEF SetStarted, Redraw, Show, Quit, Go, Goto, FeederInv, Threads, AllLabels
  <2> QED BY <2>1, <2>2, ApartFromFeeder
<1> QED BY <1>1, <1>2 DEF Display

\* In every behaviour, with any pace of the threads, the feeder waits for a
\* release only while none has happened and for a catch only while there is one
\* to come: both hand-overs change the flag and signal under apple_locker
\* (Gopiggy.c 412-415, 439-442), and nothing else takes the flag from a sleeper.
THEOREM FeederNeverMissesAnEvent == Spec => []FeederIsAwake
<1>1. FeederInv /\ [Next]_vars => FeederInv'
  <2> SUFFICES ASSUME FeederInv, [Next]_vars PROVE FeederInv'
    OBVIOUS
  <2>1. CASE UNCHANGED vars
    BY <2>1 DEF vars, apple, FeederInv, FeederIsAwake, At
  <2>2. CASE Next
    BY <2>2, PigStep, FeederStep, UserStep DEF Next
  <2> QED BY <2>1, <2>2
<1>2. FeederInv => FeederIsAwake
  BY DEF FeederInv
<1> QED BY FeederInit, <1>1, <1>2, PTL DEF Spec

-----------------------------------------------------------------------------
(* The globals stay in their ranges.                                         *)

Places == pc \in [Threads -> AllLabels] /\ \A t \in Threads : pc[t] \in Labels[t]

\* A loop over the pigs begins at the first one.
Loops ==
  /\ i \in [Walkers -> Pigs] /\ j \in [Walkers -> Int]
  /\ \A t \in Walkers : j[t] \in 0 .. i[t]
  /\ pc["pig"] \in {"start", "run"} => j["pig"] = 0
  /\ pc["pig"] = "start" => i["pig"] = 0 /\ ticks = 0

Finishers == {p \in Pigs : position[p] = Track}

\* num_piggy_finished is the number of pigs on the line.
Raced ==
  /\ position \in [Pigs -> 0 .. Track] /\ period \in [Pigs -> 0 .. Track]
  /\ numFinished = Cardinality(Finishers)
  /\ ticks \in Nat /\ fast \in [Pigs -> Nat]

\* A pig that is still on its way has made at least a step in every turn: it
\* finishes before there are more turns than the track is long.
Ran(p, turns) == position[p] = Track \/ position[p] >= turns
KeepsUp ==
  /\ pc["pig"] = "run" =>
       \A p \in Pigs : Ran(p, ticks) /\ (p < i["pig"] => Ran(p, ticks + 1))
  /\ pc["pig"] \in {"rank", "check", "try", "release", "announce", "catch", "take", "count", "award",
                   "sleep"} => \A p \in Pigs : Ran(p, ticks + 1)

Ranks == ranked \in [Pigs -> Pigs]

Awards ==
  /\ {catcher, bonusPig} \subseteq Pigs \cup {Nobody}
  /\ bonus \in 0 .. Bonus
  /\ caught \in [Pigs -> Nat]

Flags ==
  /\ released \in BOOLEAN /\ dropped \in BOOLEAN /\ windowHeld \in BOOLEAN
  /\ started \in BOOLEAN /\ paced \in BOOLEAN
  /\ fallCount \in Nat /\ tokens \in Nat /\ shames \in Nat

\* The feeder is past its loop's test only with an apple to wait for.
Index ==
  /\ appleIndex \in 0 .. NumApples
  /\ pc["feeder"] \notin {"top", "done"} => appleIndex < NumApples

TypeInv == Places /\ Loops /\ Raced /\ KeepsUp /\ Ranks /\ Awards /\ Flags /\ Index

\* The numbers of the pigs and of the race.
LEMMA RaceSizes ==
  /\ NumPigs \in Nat \ {0} /\ Track \in Nat \ {0} /\ MaxSpeed \in Nat \ {0} /\ Bonus \in Nat \ {0}
  /\ Speeds \subseteq 1 .. MaxSpeed /\ NumApples \in Nat
  /\ 0 \in Pigs /\ (\A p \in Pigs : p \in Nat /\ p < NumPigs) /\ \A p \in Nat : p < NumPigs => p \in Pigs
BY SizesAssumption DEF Pigs, NumApples

\* The pigs can be counted.
LEMMA PigsCount ==
  /\ IsFiniteSet(Pigs) /\ Cardinality(Pigs) = NumPigs
<1>1. PICK n \in Nat : n = NumPigs /\ Pigs = 0 .. (n - 1)
  BY RaceSizes DEF Pigs
<1>2. IsFiniteSet(0 .. (n - 1)) /\ Cardinality(0 .. (n - 1)) = n
  BY <1>1, FS_Interval, RaceSizes
<1>3. QED
  BY <1>1, <1>2

\* The login leaves the globals in their ranges.
LEMMA TypeStarts == Init => TypeInv
<1> SUFFICES ASSUME Init PROVE TypeInv
  OBVIOUS
<1>1. Places
  <2>1. pc = [t \in Threads |-> IF t = "pig" THEN "start" ELSE IF t = "feeder" THEN "top" ELSE "menu"]
    BY DEF Init
  <2>2. QED
    BY <2>1 DEF Places, Threads, AllLabels, Labels
<1>2. pc["pig"] = "start" /\ pc["feeder"] = "top"
  BY DEF Init, Threads
<1>3. Loops
  BY RaceSizes DEF Init, Loops, Walkers
<1>4. Raced
  <2>1. Finishers = {}
    BY RaceSizes DEF Init, Finishers
  <2>2. position \in [Pigs -> 0 .. Track] /\ period \in [Pigs -> 0 .. Track] /\ numFinished = 0
        /\ ticks \in Nat /\ fast \in [Pigs -> Nat]
    BY RaceSizes DEF Init
  <2>3. QED
    BY <2>1, <2>2, FS_EmptySet DEF Raced
<1>5. KeepsUp
  BY <1>2 DEF KeepsUp
<1>6. Ranks /\ Awards
  BY RaceSizes DEF Init, Ranks, Awards
<1>7. Flags /\ Index
  <2>1. paced \in BOOLEAN
    BY SizesAssumption DEF Init
  <2>2. Flags
    <3>1. /\ released = FALSE /\ dropped = FALSE /\ windowHeld = FALSE /\ started = FALSE
          /\ fallCount = 0 /\ tokens = 0 /\ shames = 0
      BY DEF Init
    <3>2. FALSE \in BOOLEAN
      OBVIOUS
    <3>3. QED
      BY <2>1, <3>1, <3>2 DEF Flags
  <2>3. Index
    BY <1>2, RaceSizes DEF Init, Index
  <2>4. QED
    BY <2>2, <2>3
<1>8. QED
  BY <1>1, <1>3, <1>4, <1>5, <1>6, <1>7 DEF TypeInv

\* A pig that is on its way moves on, and may finish.
LEMMA AdvanceKeeps ==
  ASSUME Raced, NEW p \in Pigs, NEW speed \in 1 .. MaxSpeed, Advance(p, speed), UNCHANGED ticks,
         fast' \in [Pigs -> Nat], position[p] # Track, Ran(p, ticks)
  PROVE  /\ Raced'
         /\ \A q \in Pigs : q # p => position'[q] = position[q]
         /\ Ran(p, ticks + 1)'
<1>1. position \in [Pigs -> 0 .. Track] /\ period \in [Pigs -> 0 .. Track] /\ ticks \in Nat
  BY DEF Raced
<1>2. position[p] \in Nat /\ position[p] < Track /\ speed \in Nat /\ speed >= 1 /\ Track \in Nat
  BY <1>1, RaceSizes
<1>3. ticks <= position[p] /\ ticks + 1 \in 0 .. Track
  BY <1>1, <1>2 DEF Ran
<1>4. CASE position[p] + speed >= Track
  <2>1. /\ position' = [position EXCEPT ![p] = Track] /\ period' = [period EXCEPT ![p] = ticks + 1]
        /\ numFinished' = numFinished + 1
    BY <1>4 DEF Advance
  <2>2. Finishers' = Finishers \cup {p} /\ p \notin Finishers
    BY <1>1, <1>2, <2>1 DEF Finishers
  <2>3. IsFiniteSet(Finishers)
    BY PigsCount, FS_Subset DEF Finishers
  <2>4. Cardinality(Finishers') = Cardinality(Finishers) + 1
    BY <2>2, <2>3, FS_AddElement
  <2>5. position' \in [Pigs -> 0 .. Track] /\ period' \in [Pigs -> 0 .. Track]
    BY <1>1, <1>2, <1>3, <2>1
  <2>6. numFinished' = Cardinality(Finishers')
    BY <2>1, <2>4 DEF Raced
  <2>7. position'[p] = Track /\ \A q \in Pigs : q # p => position'[q] = position[q]
    BY <1>1, <2>1
  <2>8. QED
    BY <1>1, <2>5, <2>6, <2>7 DEF Raced, Ran
<1>5. CASE ~(position[p] + speed >= Track)
  <2>1. position' = [position EXCEPT ![p] = position[p] + speed] /\ UNCHANGED <<period, numFinished>>
    BY <1>5 DEF Advance
  <2>2. position[p] + speed \in 0 .. Track /\ position[p] + speed # Track
    BY <1>2, <1>5
  <2>3. position' \in [Pigs -> 0 .. Track] /\ position'[p] = position[p] + speed
        /\ \A q \in Pigs : q # p => position'[q] = position[q]
    BY <1>1, <2>1, <2>2
  <2>4. Finishers' = Finishers
    BY <1>2, <2>2, <2>3 DEF Finishers
  <2>5. Raced'
    BY <1>1, <2>1, <2>3, <2>4 DEF Raced
  <2>6. position'[p] >= ticks + 1
    BY <1>1, <1>2, <1>3, <2>3
  <2>7. QED
    BY <2>3, <2>5, <2>6 DEF Ran
<1>6. QED
  BY <1>4, <1>5

\* Where the threads are after a jump.
LEMMA GotoPlaces ==
  ASSUME Places, NEW t \in Threads, NEW l \in Labels[t], Goto(t, l)
  PROVE  Places' /\ pc'[t] = l /\ \A u \in Threads : u # t => pc'[u] = pc[u]
<1>1. l \in AllLabels
  BY DEF Threads, Labels, AllLabels
<1>2. QED
  BY <1>1 DEF Goto, Places

\* The loop over the pigs goes on with the next one, when the one in turn has run.
LEMMA NextRunnerKeeps ==
  ASSUME TypeInv, At("pig", "run"), NextRunner, Raced', UNCHANGED ticks,
         NEW r \in Pigs, r = i["pig"], Ran(r, ticks + 1)',
         \A q \in Pigs : q # r => position'[q] = position[q],
         bonusPig' = bonusPig, bonus' \in 0 .. Bonus
  PROVE  TypeInv'
<1>1. pc["pig"] = "run" /\ i["pig"] \in Pigs /\ j["pig"] = 0 /\ ticks \in Nat
  BY DEF At, TypeInv, Loops, Raced, Walkers
<1>2. UNCHANGED <<j, ranked, apple, feed, game>>
  BY DEF NextRunner
<1>3. \A p \in Pigs : Ran(p, ticks) /\ (p < i["pig"] => Ran(p, ticks + 1))
  BY <1>1 DEF TypeInv, KeepsUp
<1>4. \A p \in Pigs : p <= i["pig"] => Ran(p, ticks + 1)'
  <2>1. ASSUME NEW p \in Pigs, p <= i["pig"] PROVE Ran(p, ticks + 1)'
    <3>1. p = i["pig"] \/ p < i["pig"]
      BY <1>1, <2>1, RaceSizes
    <3>2. CASE p = i["pig"]
      BY <3>2
    <3>3. CASE p < i["pig"]
      <4>1. p # r
        BY <1>1, <3>3, RaceSizes
      <4>2. position'[p] = position[p] /\ Ran(p, ticks + 1)
        BY <1>3, <3>3, <4>1
      <4>3. QED
        BY <4>2 DEF Ran
    <3>4. QED
      BY <3>1, <3>2, <3>3
  <2>2. QED
    BY <2>1
<1>5. \A p \in Pigs : Ran(p, ticks)'
  <2>1. ASSUME NEW p \in Pigs PROVE Ran(p, ticks)'
    <3>1. CASE p = i["pig"]
      <4>1. Ran(p, ticks + 1)'
        BY <3>1
      <4>2. position'[p] \in Nat
        BY RaceSizes DEF Raced
      <4>3. QED
        BY <1>1, <4>1, <4>2 DEF Ran
    <3>2. CASE p # i["pig"]
      BY <1>3, <3>2 DEF Ran
    <3>3. QED
      BY <3>1, <3>2
  <2>2. QED
    BY <2>1
<1>6. CASE i["pig"] + 1 < NumPigs
  <2>1. i' = [i EXCEPT !["pig"] = i["pig"] + 1] /\ UNCHANGED pc
    BY <1>6 DEF NextRunner, Runner
  <2>2. i["pig"] + 1 \in Pigs
    BY <1>1, <1>6, RaceSizes
  <2>3. Places' /\ pc'["pig"] = "run"
    BY <1>1, <2>1 DEF TypeInv, Places
  <2>4. Loops'
    BY <1>1, <1>2, <2>1, <2>2, <2>3, RaceSizes DEF TypeInv, Loops, Walkers
  <2>5. KeepsUp'
    <3>1. i'["pig"] = i["pig"] + 1
      BY <2>1 DEF TypeInv, Loops, Walkers
    <3>2. \A p \in Pigs : p < i'["pig"] => Ran(p, ticks + 1)'
      <4>1. ASSUME NEW p \in Pigs, p < i'["pig"] PROVE p <= i["pig"]
        BY <1>1, <3>1, <4>1, RaceSizes
      <4>2. QED
        BY <1>4, <4>1
    <3>3. QED
      BY <1>5, <2>3, <3>2 DEF KeepsUp
  <2>6. QED
    BY <1>2, <2>1, <2>3, <2>4, <2>5 DEF TypeInv, Ranks, Awards, Flags, Index, apple, feed, game
<1>7. CASE ~(i["pig"] + 1 < NumPigs)
  <2>1. i' = [i EXCEPT !["pig"] = 0] /\ Goto("pig", "rank")
    BY <1>7 DEF NextRunner, Runner
  <2>2. Places' /\ pc'["pig"] = "rank" /\ pc'["feeder"] = pc["feeder"]
    <3>1. "pig" \in Threads /\ "feeder" \in Threads /\ "rank" \in Labels["pig"]
      BY DEF Threads, Labels
    <3>2. QED
      BY <2>1, <3>1, GotoPlaces DEF TypeInv
  <2>3. Loops'
    BY <1>1, <1>2, <2>1, <2>2, RaceSizes DEF TypeInv, Loops, Walkers
  <2>4. \A p \in Pigs : p <= i["pig"]
    BY <1>1, <1>7, RaceSizes
  <2>5. KeepsUp'
    BY <1>4, <2>2, <2>4 DEF KeepsUp
  <2>6. QED
    BY <1>2, <2>2, <2>3, <2>5 DEF TypeInv, Ranks, Awards, Flags, Index, apple, feed, game
<1>8. QED
  BY <1>6, <1>7

\* A pig's turn.
LEMMA RunKeeps ==
  ASSUME TypeInv, Run \/ RunFast \/ Rests
  PROVE  TypeInv'
<1>1. PICK r \in Pigs : r = i["pig"]
  BY DEF TypeInv, Loops, Walkers
<1>2. At("pig", "run") /\ NextRunner /\ UNCHANGED ticks /\ Raced /\ Ran(r, ticks) /\ Runner = r
  <2>1. At("pig", "run") /\ NextRunner /\ UNCHANGED ticks
    BY DEF Run, RunFast, Rests, race
  <2>2. QED
    BY <1>1, <2>1 DEF TypeInv, KeepsUp, At, Runner
<1>3. CASE Run
  <2>1. PICK speed \in Speeds : Advance(r, speed)
    BY <1>2, <1>3 DEF Run
  <2>2. position[r] # Track /\ UNCHANGED <<fast, award>> /\ speed \in 1 .. MaxSpeed
    BY <1>2, <1>3, RaceSizes DEF Run
  <2>3. fast' \in [Pigs -> Nat] /\ bonusPig' = bonusPig /\ bonus' \in 0 .. Bonus
    BY <2>2 DEF TypeInv, Raced, Awards, award
  <2>4. Raced' /\ (\A q \in Pigs : q # r => position'[q] = position[q]) /\ Ran(r, ticks + 1)'
    BY <1>2, <2>1, <2>2, <2>3, AdvanceKeeps
  <2>5. QED
    BY <1>1, <1>2, <2>3, <2>4, NextRunnerKeeps
<1>4. CASE RunFast
  <2>1. /\ position[r] # Track /\ Advance(r, MaxSpeed) /\ bonus > 0 /\ bonus' = bonus - 1
        /\ bonusPig' = bonusPig /\ fast' = [fast EXCEPT ![r] = fast[r] + 1]
    BY <1>2, <1>4 DEF RunFast, HasBonus
  <2>2. fast' \in [Pigs -> Nat]
    <3>1. fast \in [Pigs -> Nat] /\ fast[r] + 1 \in Nat
      BY <1>2 DEF Raced
    <3>2. QED
      BY <2>1, <3>1
  <2>3. bonus' \in 0 .. Bonus
    BY <2>1, RaceSizes DEF TypeInv, Awards
  <2>4. MaxSpeed \in 1 .. MaxSpeed
    BY RaceSizes
  <2>5. Raced' /\ (\A q \in Pigs : q # r => position'[q] = position[q]) /\ Ran(r, ticks + 1)'
    BY <1>2, <2>1, <2>2, <2>4, AdvanceKeeps
  <2>6. QED
    BY <1>1, <1>2, <2>1, <2>3, <2>5, NextRunnerKeeps
<1>5. CASE Rests
  <2>1. position[r] = Track /\ UNCHANGED <<position, period, numFinished, fast, bonusPig, bonus>>
    BY <1>2, <1>5 DEF Rests, race, award
  <2>2. Raced' /\ bonus' \in 0 .. Bonus
    BY <1>2, <2>1 DEF TypeInv, Raced, Finishers, Awards
  <2>3. (\A q \in Pigs : position'[q] = position[q]) /\ Ran(r, ticks + 1)'
    BY <2>1 DEF Ran
  <2>4. QED
    BY <1>1, <1>2, <2>1, <2>2, <2>3, NextRunnerKeeps
<1>6. QED
  BY <1>3, <1>4, <1>5

\* Ranking: a loop variable goes down, the other one up, and both start again.
LEMMA ShiftTypes ==
  ASSUME TypeInv, NEW t \in Walkers, j[t] > 0, Shift(t)
  PROVE  TypeInv'
<1>1. i[t] \in Pigs /\ j[t] \in 0 .. i[t] /\ j[t] \in Int /\ ranked \in [Pigs -> Pigs] /\ j \in [Walkers -> Int]
  BY DEF TypeInv, Loops, Ranks
<1>2. /\ ranked' = [ranked EXCEPT ![j[t]] = ranked[j[t] - 1]] /\ j' = [j EXCEPT ![t] = j[t] - 1]
      /\ UNCHANGED <<pc, i, race, apple, award, feed, game>>
  BY DEF Shift
<1>3. ranked' \in [Pigs -> Pigs]
  <2>1. j[t] - 1 \in Pigs
    BY <1>1, RaceSizes
  <2>2. ranked[j[t] - 1] \in Pigs
    BY <1>1, <2>1
  <2>3. QED
    BY <1>1, <1>2, <2>2
<1>4. Loops'
  <2>1. j' \in [Walkers -> Int] /\ j'[t] = j[t] - 1 /\ \A u \in Walkers : u # t => j'[u] = j[u]
    BY <1>1, <1>2
  <2>2. j[t] - 1 \in 0 .. i[t] /\ j[t] # 0
    BY <1>1, RaceSizes
  <2>3. \A u \in Walkers : j'[u] \in 0 .. i'[u]
    BY <1>2, <2>1, <2>2 DEF TypeInv, Loops
  <2>4. pc["pig"] \in {"start", "run"} => t # "pig"
    BY <2>2 DEF TypeInv, Loops
  <2>5. QED
    BY <1>2, <2>1, <2>3, <2>4 DEF TypeInv, Loops, Walkers, race
<1>5. QED
  BY <1>2, <1>3, <1>4
     DEF TypeInv, Places, Raced, Finishers, KeepsUp, Ran, Ranks, Awards, Flags, Index, race, apple, award, feed, game

\* Or a place is found, and the next pig or the end of the loop comes.
LEMMA PlaceTypes ==
  ASSUME TypeInv, NEW t \in Walkers, NEW next \in Labels[t], Place(t, next),
         t = "pig" => /\ pc["pig"] \in {"rank", "final"}
                      /\ next \in {"check", "close"} /\ (pc["pig"] = "final" => next = "close")
  PROVE  TypeInv'
<1>1. i[t] \in Pigs /\ j[t] \in 0 .. i[t] /\ j[t] \in Int /\ ranked \in [Pigs -> Pigs]
      /\ i \in [Walkers -> Pigs] /\ j \in [Walkers -> Int]
  BY DEF TypeInv, Loops, Ranks
<1>2. ranked' = [ranked EXCEPT ![j[t]] = i[t]] /\ UNCHANGED <<race, apple, award, feed, game>>
  BY DEF Place
<1>3. Ranks'
  BY <1>1, <1>2, RaceSizes DEF Ranks
<1>4. t \in Threads /\ "pig" \in Threads /\ "feeder" \in Threads /\ t # "feeder"
  BY DEF Walkers, Threads
<1>5. Raced' /\ Awards' /\ Flags'
  BY <1>2 DEF TypeInv, Raced, Finishers, Awards, Flags, race, apple, award, feed, game
<1>6. UNCHANGED <<position, ticks, appleIndex>>
  BY <1>2 DEF race, feed
<1>7. CASE i[t] + 1 < NumPigs
  <2>1. /\ i' = [i EXCEPT ![t] = i[t] + 1] /\ j' = [j EXCEPT ![t] = i[t] + 1] /\ UNCHANGED pc
    BY <1>7 DEF Place
  <2>2. i[t] + 1 \in Pigs /\ i[t] + 1 \in 0 .. (i[t] + 1) /\ i[t] + 1 \in Int
    BY <1>1, <1>7, RaceSizes
  <2>3. /\ i' \in [Walkers -> Pigs] /\ j' \in [Walkers -> Int]
        /\ i'[t] = i[t] + 1 /\ j'[t] = i[t] + 1
        /\ \A u \in Walkers : u # t => i'[u] = i[u] /\ j'[u] = j[u]
    BY <1>1, <2>1, <2>2
  <2>4. \A u \in Walkers : j'[u] \in 0 .. i'[u]
    BY <2>2, <2>3 DEF TypeInv, Loops
  <2>5. pc["pig"] \in {"start", "run"} => t # "pig"
    OBVIOUS
  <2>6. Loops'
    BY <1>6, <2>1, <2>3, <2>4, <2>5 DEF TypeInv, Loops, Walkers
  <2>7. KeepsUp'
    <3>1. pc["pig"] = "run" => i'["pig"] = i["pig"]
      BY <2>3, <2>5 DEF Walkers
    <3>2. QED
      BY <1>6, <2>1, <3>1 DEF TypeInv, KeepsUp, Ran
  <2>8. QED
    BY <1>3, <1>5, <1>6, <2>1, <2>6, <2>7 DEF TypeInv, Places, Index
<1>8. CASE ~(i[t] + 1 < NumPigs)
  <2>1. Goto(t, next) /\ i' = [i EXCEPT ![t] = 0] /\ j' = [j EXCEPT ![t] = 0]
    BY <1>8 DEF Place, StartLoop
  <2>2. Places' /\ pc'[t] = next /\ \A u \in Threads : u # t => pc'[u] = pc[u]
    BY <1>4, <2>1, GotoPlaces DEF TypeInv
  <2>3. /\ i' \in [Walkers -> Pigs] /\ j' \in [Walkers -> Int] /\ i'[t] = 0 /\ j'[t] = 0
        /\ \A u \in Walkers : u # t => i'[u] = i[u] /\ j'[u] = j[u]
    BY <1>1, <2>1, RaceSizes
  <2>4. \A u \in Walkers : j'[u] \in 0 .. i'[u]
    BY <2>3 DEF TypeInv, Loops
  <2>5. pc'["pig"] \in {"start", "run"} => t # "pig" /\ pc'["pig"] = pc["pig"]
    BY <1>4, <2>2
  <2>6. Loops'
    BY <1>6, <2>3, <2>4, <2>5 DEF TypeInv, Loops, Walkers
  <2>7. KeepsUp'
    <3>1. CASE t = "pig"
      BY <1>6, <2>2, <3>1 DEF TypeInv, KeepsUp, Ran
    <3>2. CASE t # "pig"
      BY <1>4, <1>6, <2>2, <2>3, <3>2 DEF TypeInv, KeepsUp, Ran, Walkers
    <3>3. QED
      BY <3>1, <3>2
  <2>8. Index'
    BY <1>4, <1>6, <2>2 DEF TypeInv, Index
  <2>9. QED
    BY <1>3, <1>5, <2>2, <2>6, <2>7, <2>8 DEF TypeInv
<1>9. QED
  BY <1>7, <1>8

\* The loop variables of a thread that begins or goes on with a loop.
LoopsOn ==
  /\ i' \in [Walkers -> Pigs] /\ j' \in [Walkers -> Int]
  /\ \A t \in Walkers : j'[t] \in 0 .. i'[t]
  /\ pc'["pig"] \in {"start", "run"} => i'["pig"] = i["pig"] /\ j'["pig"] = j["pig"]

\* They are where they were, or one thread's begin again.
LEMMA LoopsOnCases ==
  ASSUME TypeInv,
         \/ UNCHANGED <<i, j>>
         \/ StartLoop("ui")
         \/ StartLoop("pig") /\ pc'["pig"] \notin {"start", "run"}
  PROVE  LoopsOn
<1>1. /\ i \in [Walkers -> Pigs] /\ j \in [Walkers -> Int] /\ \A t \in Walkers : j[t] \in 0 .. i[t]
  BY DEF TypeInv, Loops
<1>2. CASE UNCHANGED <<i, j>>
  BY <1>1, <1>2 DEF LoopsOn
<1>3. ASSUME NEW t \in Walkers, StartLoop(t)
      PROVE  /\ i' \in [Walkers -> Pigs] /\ j' \in [Walkers -> Int]
             /\ \A u \in Walkers : j'[u] \in 0 .. i'[u] /\ (u # t => i'[u] = i[u] /\ j'[u] = j[u])
  <2>1. i' = [i EXCEPT ![t] = 0] /\ j' = [j EXCEPT ![t] = 0]
    BY <1>3 DEF StartLoop
  <2>2. QED
    BY <1>1, <2>1, RaceSizes
<1>4. QED
  BY <1>2, <1>3 DEF LoopsOn, Walkers

\* A step of the pig thread, or of another, that moves no pig: only places, flags,
\* the catcher and the awards change.
LEMMA QuietKeeps ==
  ASSUME TypeInv, Places', UNCHANGED <<race, ranked>>, Flags', Awards', Index', LoopsOn,
         pc'["pig"] = "start" => pc["pig"] = "start",
         pc'["pig"] = "run" => pc["pig"] \in {"start", "run"},
         pc'["pig"] \in {"rank", "check", "try", "release", "announce", "catch", "take", "count", "award",
                        "sleep"} =>
           pc["pig"] \in {"rank", "check", "try", "release", "announce", "catch", "take", "count", "award",
                         "sleep"}
  PROVE  TypeInv'
<1>1. UNCHANGED <<position, period, numFinished, ticks, fast>>
  BY DEF race
<1>2. Raced' /\ Ranks'
  BY <1>1 DEF TypeInv, Raced, Finishers, Ranks
<1>3. Loops'
  <2>1. pc'["pig"] \in {"start", "run"} => pc["pig"] \in {"start", "run"}
    OBVIOUS
  <2>2. pc'["pig"] = "start" => pc["pig"] = "start"
    OBVIOUS
  <2>3. QED
    BY <1>1, <2>1, <2>2 DEF TypeInv, Loops, LoopsOn
<1>4. KeepsUp'
  <2>1. CASE pc'["pig"] = "run"
    <3>1. i'["pig"] = i["pig"]
      BY <2>1 DEF LoopsOn
    <3>2. CASE pc["pig"] = "run"
      BY <1>1, <2>1, <3>1, <3>2 DEF TypeInv, KeepsUp, Ran
    <3>3. CASE pc["pig"] = "start"
      <4>1. ticks = 0 /\ i["pig"] = 0
        BY <3>3 DEF TypeInv, Loops
      <4>2. \A p \in Pigs : position[p] \in Nat /\ position[p] >= 0
        BY RaceSizes DEF TypeInv, Raced
      <4>3. \A p \in Pigs : Ran(p, ticks)' /\ ~(p < i'["pig"])
        BY <1>1, <3>1, <4>1, <4>2, RaceSizes DEF Ran
      <4>4. QED
        BY <2>1, <4>3 DEF KeepsUp
    <3>4. QED
      BY <2>1, <3>2, <3>3
  <2>2. CASE pc'["pig"] # "run"
    BY <1>1, <2>2 DEF TypeInv, KeepsUp, Ran
  <2>3. QED
    BY <2>1, <2>2
<1>5. QED
  BY <1>2, <1>3, <1>4 DEF TypeInv

\* The other steps of the pig thread,
LEMMA PigQuietTypes ==
  ASSUME TypeInv,
         \/ Start \/ Check \/ LeaderFar \/ LeaderNear \/ Release \/ Announce \/ Fall \/ Miss
         \/ Hit \/ Take \/ Count \/ Award \/ Close \/ Stop
  PROVE  TypeInv'
<1> USE DEF At
<1>1. /\ pc \in [Threads -> AllLabels] /\ i["pig"] \in Pigs /\ i \in [Walkers -> Pigs] /\ j["pig"] <= i["pig"]
      /\ ranked \in [Pigs -> Pigs] /\ "pig" \in Threads /\ "feeder" \in Threads
  BY RaceSizes DEF TypeInv, Places, Loops, Ranks, Walkers, Threads
<1>2. /\ UNCHANGED <<race, ranked, appleIndex, shames, dropped, paced>>
      /\ pc["pig"] \notin {"run", "final", "done"}
  BY DEF Start, Check, LeaderFar, LeaderNear, Release, Announce, Fall, Miss, Hit, Take, Count, Award,
         Close, Stop, feed, game
<1>3. /\ Places'
      /\ pc'["feeder"] = pc["feeder"] \/ (pc["feeder"] = "idle" /\ pc'["feeder"] = "woken")
                                     \/ (pc["feeder"] = "timed" /\ pc'["feeder"] = "timed_woken")
      /\ pc'["pig"] \in Labels["pig"] /\ pc'["pig"] # "start"
      /\ pc'["pig"] = "run" => pc["pig"] = "start"
      /\ pc["pig"] \in {"start", "close", "stop"} => pc'["pig"] \in {"run", "stop", "done"}
  <2>1. CASE Release \/ Take
    <3>1. WakeFeeder("announce") \/ WakeFeeder("count")
      BY <2>1 DEF Release, Take
    <3>2. /\ pc' \in [Threads -> AllLabels] /\ pc'["pig"] \in {"announce", "count"}
          /\ \A t \in Threads : t \notin {"pig", "feeder"} => pc'[t] = pc[t]
          /\ \/ pc'["feeder"] = pc["feeder"] \/ (pc["feeder"] = "idle" /\ pc'["feeder"] = "woken")
             \/ (pc["feeder"] = "timed" /\ pc'["feeder"] = "timed_woken")
      BY <1>1, <3>1 DEF WakeFeeder, AllLabels, Threads
    <3>3. Places'
      BY <3>2 DEF TypeInv, Places, Labels, Threads
    <3>4. pc["pig"] \in {"release", "take"}
      BY <2>1 DEF Release, Take
    <3>5. QED
      BY <1>1, <3>2, <3>3, <3>4 DEF Places
  <2>2. CASE ~(Release \/ Take)
    <3>1. \/ pc["pig"] = "start" /\ Goto("pig", "run")
          \/ pc["pig"] = "close" /\ Goto("pig", "stop")
          \/ pc["pig"] = "stop" /\ Goto("pig", "done")
          \/ /\ pc["pig"] \in {"check", "try", "release", "announce", "catch", "take", "count", "award"}
             /\ \/ \E l \in {"try", "award", "release", "catch", "take", "sleep"} : Goto("pig", l)
                \/ UNCHANGED pc
      BY <2>2 DEF Start, Check, LeaderFar, LeaderNear, Announce, Fall, Miss, Hit, Count, Award,
                  Close, Stop, NoCatch
    <3>2. \A l \in Labels["pig"] : Goto("pig", l) =>
            Places' /\ pc'["pig"] = l /\ pc'["feeder"] = pc["feeder"]
      BY <1>1, GotoPlaces DEF TypeInv, Threads
    <3>3. {"run", "stop", "done", "try", "award", "release", "catch", "take", "sleep"} \subseteq Labels["pig"]
      BY DEF Labels
    <3>4. UNCHANGED pc => Places' /\ pc["pig"] \in Labels["pig"]
      BY <1>1 DEF TypeInv, Places
    <3>5. QED
      BY <3>1, <3>2, <3>3, <3>4
  <2>3. QED
    BY <2>1, <2>2
<1>4. Flags'
  <2>1. released' \in BOOLEAN
    <3>1. released' = released \/ released' = TRUE \/ released' = FALSE
      BY DEF Start, Check, LeaderFar, LeaderNear, Release, Announce, Fall, Miss, Hit, Take, Count, Award,
             Close, Stop, apple
    <3>2. QED
      BY <3>1 DEF TypeInv, Flags
  <2>2. windowHeld' \in BOOLEAN /\ started' \in BOOLEAN
    <3>1. (windowHeld' = windowHeld \/ windowHeld' = TRUE) /\ (started' = started \/ started' = FALSE)
      BY DEF Start, Check, LeaderFar, LeaderNear, Release, Announce, Fall, Miss, Hit, Take, Count, Award,
             Close, Stop, game
    <3>2. QED
      BY <3>1 DEF TypeInv, Flags
  <2>3. tokens' \in Nat /\ fallCount' \in Nat
    <3>1. tokens' = tokens \/ (tokens > 0 /\ tokens' = tokens - 1)
      BY DEF Start, Check, LeaderFar, LeaderNear, Release, Announce, Fall, Miss, Hit, Take, Count, Award,
             Close, Stop, game
    <3>2. fallCount' = fallCount \/ fallCount' = 0 \/ fallCount' = fallCount + 1
      BY DEF Start, Check, LeaderFar, LeaderNear, Release, Announce, Fall, Miss, Hit, Take, Count, Award,
             Close, Stop, apple
    <3>3. QED
      BY <3>1, <3>2 DEF TypeInv, Flags
  <2>4. QED
    BY <1>2, <2>1, <2>2, <2>3 DEF TypeInv, Flags
<1>5. Awards'
  <2>1. catcher' \in Pigs \cup {Nobody}
    <3>1. catcher' \in {catcher, Nobody, ranked[Runner]}
      BY DEF Start, Check, LeaderFar, LeaderNear, Release, Announce, Fall, Miss, Hit, Take, Count, Award,
             Close, Stop, apple, NoCatch
    <3>2. ranked[Runner] \in Pigs
      BY <1>1 DEF Runner
    <3>3. QED
      BY <3>1, <3>2 DEF TypeInv, Awards
  <2>2. bonusPig' \in Pigs \cup {Nobody} /\ bonus' \in 0 .. Bonus
    <3>1. (bonusPig' = bonusPig /\ bonus' = bonus) \/ (bonusPig' = catcher /\ bonus' = Bonus)
      BY DEF Start, Check, LeaderFar, LeaderNear, Release, Announce, Fall, Miss, Hit, Take, Count, Award,
             Close, Stop, award
    <3>2. QED
      BY <3>1, RaceSizes DEF TypeInv, Awards
  <2>3. caught' \in [Pigs -> Nat]
    <3>1. caught' = caught \/ caught' = [caught EXCEPT ![ranked[Runner]] = caught[ranked[Runner]] + 1]
      BY DEF Start, Check, LeaderFar, LeaderNear, Release, Announce, Fall, Miss, Hit, Take, Count, Award,
             Close, Stop, apple
    <3>2. caught \in [Pigs -> Nat] /\ caught[ranked[Runner]] + 1 \in Nat
      BY <1>1 DEF TypeInv, Awards, Runner
    <3>3. QED
      BY <3>1, <3>2
  <2>4. QED
    BY <2>1, <2>2, <2>3 DEF Awards
<1>6. Index'
  BY <1>2, <1>3 DEF TypeInv, Index
<1>7. LoopsOn
  <2>1. CASE Fall
    <3>1. UNCHANGED <<i, j>> \/ StartLoop("pig")
      BY <2>1 DEF Fall
    <3>2. QED
      BY <1>3, <2>1, <3>1, LoopsOnCases DEF Fall
  <2>2. CASE Miss
    <3>1. /\ UNCHANGED j /\ pc["pig"] = "catch"
          /\ (i["pig"] + 1 < NumPigs /\ i' = [i EXCEPT !["pig"] = i["pig"] + 1]) \/ UNCHANGED i
      BY <2>2 DEF Miss, Runner
    <3>2. CASE UNCHANGED i
      BY <3>1, <3>2, LoopsOnCases
    <3>3. CASE i["pig"] + 1 < NumPigs /\ i' = [i EXCEPT !["pig"] = i["pig"] + 1]
      <4>1. i["pig"] + 1 \in Pigs
        BY <1>1, <3>3, RaceSizes
      <4>2. i' \in [Walkers -> Pigs] /\ i'["pig"] = i["pig"] + 1 /\ i'["ui"] = i["ui"]
        BY <1>1, <3>3, <4>1 DEF Walkers
      <4>3. \A t \in Walkers : j'[t] \in 0 .. i'[t]
        BY <1>1, <3>1, <4>2, RaceSizes DEF TypeInv, Loops, Walkers
      <4>4. QED
        BY <1>3, <3>1, <4>2, <4>3 DEF TypeInv, Loops, LoopsOn
    <3>4. QED
      BY <3>1, <3>2, <3>3
  <2>3. CASE ~(Fall \/ Miss)
    <3>1. UNCHANGED <<i, j>>
      BY <2>3 DEF Start, Check, LeaderFar, LeaderNear, Release, Announce, Hit, Take, Count, Award, Close, Stop
    <3>2. QED
      BY <3>1, LoopsOnCases
  <2>4. QED
    BY <2>1, <2>2, <2>3
<1>8. pc["pig"] \in {"start", "check", "try", "release", "announce", "catch", "take", "count", "award",
                  "close", "stop"}
  BY DEF Start, Check, LeaderFar, LeaderNear, Release, Announce, Fall, Miss, Hit, Take, Count, Award, Close, Stop
<1>9. pc'["pig"] \in {"rank", "check", "try", "release", "announce", "catch", "take", "count", "award", "sleep"} =>
        pc["pig"] \in {"rank", "check", "try", "release", "announce", "catch", "take", "count", "award", "sleep"}
  BY <1>3, <1>8
<1>10. QED
  BY <1>2, <1>3, <1>4, <1>5, <1>6, <1>7, <1>9, QuietKeeps

\* the next turn,
LEMMA NextTurnTypes ==
  ASSUME TypeInv, NextTurn
  PROVE  TypeInv'
<1>1. /\ pc["pig"] = "sleep" /\ ticks' = ticks + 1 /\ StartLoop("pig")
      /\ Goto("pig", IF numFinished < NumPigs THEN "run" ELSE "final")
      /\ UNCHANGED <<position, period, numFinished, fast, ranked, apple, award, feed, game>>
  BY DEF NextTurn, At
<1>2. "pig" \in Threads /\ "feeder" \in Threads /\ {"run", "final"} \subseteq Labels["pig"]
  BY DEF Threads, Labels
<1>3. Places' /\ pc'["pig"] \in {"run", "final"} /\ pc'["feeder"] = pc["feeder"]
  BY <1>1, <1>2, GotoPlaces DEF TypeInv
<1>4. /\ i \in [Walkers -> Pigs] /\ j \in [Walkers -> Int] /\ \A t \in Walkers : j[t] \in 0 .. i[t]
  BY DEF TypeInv, Loops
<1>5. i' = [i EXCEPT !["pig"] = 0] /\ j' = [j EXCEPT !["pig"] = 0]
  BY <1>1 DEF StartLoop
<1>6. Loops' /\ i'["pig"] = 0
  BY <1>3, <1>4, <1>5, RaceSizes DEF Loops, Walkers
<1>7. Raced'
  <2>1. ticks' \in Nat
    BY <1>1 DEF TypeInv, Raced
  <2>2. QED
    BY <1>1, <2>1 DEF TypeInv, Raced, Finishers
<1>8. KeepsUp'
  <2>1. \A p \in Pigs : Ran(p, ticks + 1)
    BY <1>1 DEF TypeInv, KeepsUp
  <2>2. \A p \in Pigs : Ran(p, ticks)'
    BY <1>1, <2>1 DEF Ran
  <2>3. \A p \in Pigs : ~(p < i'["pig"])
    BY <1>6, RaceSizes
  <2>4. QED
    BY <1>3, <2>2, <2>3 DEF KeepsUp
<1>9. QED
  BY <1>1, <1>3, <1>6, <1>7, <1>8 DEF TypeInv, Ranks, Awards, Flags, Index, apple, award, feed, game

\* those of the feeder
LEMMA FeederTypes ==
  ASSUME TypeInv, Feeder \/ SpuriousWakeup
  PROVE  TypeInv'
<1> USE DEF At
<1>1. pc \in [Threads -> AllLabels] /\ "pig" \in Threads /\ "feeder" \in Threads
  BY DEF TypeInv, Places, Threads
<1>2. UNCHANGED <<i, j, race, ranked, award, fallCount, catcher, caught, game>>
  BY DEF Feeder, SpuriousWakeup, AwaitRelease, Woken, TimedWoken, TimesOut, AfterApple, Shame, Reset, NextApple,
         apple
<1>3. Places' /\ pc'["pig"] = pc["pig"] /\ Index'
  <2>1. \A l \in Labels["feeder"] : Goto("feeder", l) =>
          Places' /\ pc'["feeder"] = l /\ pc'["pig"] = pc["pig"]
    BY <1>1, GotoPlaces DEF TypeInv, Threads
  <2>2. {"top", "idle", "woken", "timed", "timed_woken", "after", "shame", "reset", "advance", "done"}
          \subseteq Labels["feeder"]
    BY DEF Labels
  <2>3. appleIndex \in 0 .. NumApples /\ (pc["feeder"] \notin {"top", "done"} => appleIndex < NumApples)
    BY DEF TypeInv, Index
  <2>4. CASE NextApple
    <3>1. Goto("feeder", "top") /\ appleIndex' = appleIndex + 1 /\ pc["feeder"] = "advance"
      BY <2>4 DEF NextApple
    <3>2. appleIndex' \in 0 .. NumApples
      BY <2>3, <3>1, RaceSizes
    <3>3. QED
      BY <2>1, <2>2, <3>1, <3>2 DEF Index
  <2>5. CASE AwaitRelease
    <3>1. UNCHANGED appleIndex /\ Goto("feeder", IF appleIndex < NumApples THEN "idle" ELSE "done")
      BY <2>5 DEF AwaitRelease, feed
    <3>2. Places' /\ pc'["pig"] = pc["pig"] /\ pc'["feeder"] = IF appleIndex < NumApples THEN "idle" ELSE "done"
      BY <2>1, <2>2, <3>1
    <3>3. QED
      BY <2>3, <3>1, <3>2 DEF Index
  <2>6. CASE ~(NextApple \/ AwaitRelease)
    <3>1. /\ UNCHANGED appleIndex /\ pc["feeder"] \notin {"top", "done"}
          /\ \E l \in {"idle", "woken", "timed", "timed_woken", "after", "shame", "reset", "advance"} :
               Goto("feeder", l)
      BY <2>6 DEF Feeder, SpuriousWakeup, Woken, TimedWoken, TimesOut, AfterApple, Shame, Reset, feed
    <3>2. QED
      BY <2>1, <2>2, <2>3, <3>1 DEF Index
  <2>7. QED
    BY <2>4, <2>5, <2>6
<1>4. Flags'
  <2>1. released' = released \/ released' = FALSE
    BY DEF Feeder, SpuriousWakeup, AwaitRelease, Woken, TimedWoken, TimesOut, AfterApple, Shame, Reset, NextApple,
           apple
  <2>2. (dropped' = dropped \/ dropped' = TRUE \/ dropped' = FALSE) /\ (shames' = shames \/ shames' = shames + 1)
    BY DEF Feeder, SpuriousWakeup, AwaitRelease, Woken, TimedWoken, TimesOut, AfterApple, Shame, Reset, NextApple,
           feed
  <2>3. released' \in BOOLEAN /\ dropped' \in BOOLEAN
    BY <2>1, <2>2 DEF TypeInv, Flags
  <2>4. shames' \in Nat
    BY <2>2 DEF TypeInv, Flags
  <2>5. QED
    BY <1>2, <2>3, <2>4 DEF TypeInv, Flags, game
<1>5. Awards'
  BY <1>2 DEF TypeInv, Awards, award
<1>6. LoopsOn
  BY <1>2, LoopsOnCases
<1>7. QED
  BY <1>2, <1>3, <1>4, <1>5, <1>6, QuietKeeps

\* and of the user's thread.
LEMMA UserTypes ==
  ASSUME TypeInv, SetStarted \/ Redraw \/ Show \/ Quit \/ Go
  PROVE  TypeInv'
<1> USE DEF At
<1>1. pc \in [Threads -> AllLabels] /\ "pig" \in Threads /\ "feeder" \in Threads /\ "ui" \in Threads
  BY DEF TypeInv, Places, Threads
<1>2. UNCHANGED <<race, ranked, award, apple, feed, windowHeld, paced>>
  BY DEF SetStarted, Redraw, Show, Quit, Go, game
<1>3. Places' /\ pc'["pig"] = pc["pig"] /\ pc'["feeder"] = pc["feeder"]
  <2>1. \E l \in {"menu", "start", "rank", "done"} : Goto("ui", l)
    BY DEF SetStarted, Redraw, Show, Quit, Go
  <2>2. {"menu", "start", "rank", "done"} \subseteq Labels["ui"]
    BY DEF Labels
  <2>3. QED
    BY <1>1, <2>1, <2>2, GotoPlaces DEF TypeInv, Threads
<1>4. Flags'
  <2>1. started' = started \/ started' = TRUE
    BY DEF SetStarted, Redraw, Show, Quit, Go, game
  <2>2. tokens' = tokens \/ tokens' = tokens + 1
    BY DEF SetStarted, Redraw, Show, Quit, Go, game
  <2>3. started' \in BOOLEAN
    BY <2>1 DEF TypeInv, Flags
  <2>4. tokens' \in Nat
    BY <2>2 DEF TypeInv, Flags
  <2>5. QED
    BY <1>2, <2>3, <2>4 DEF TypeInv, Flags, apple, feed
<1>5. Awards' /\ Index'
  BY <1>2, <1>3 DEF TypeInv, Awards, Index, award, apple, feed
<1>6. LoopsOn
  <2>1. UNCHANGED <<i, j>> \/ StartLoop("ui")
    BY DEF SetStarted, Redraw, Show, Quit, Go
  <2>2. QED
    BY <2>1, LoopsOnCases
<1>7. QED
  BY <1>2, <1>3, <1>4, <1>5, <1>6, QuietKeeps

\* Both threads that rank.
LEMMA RankTypes ==
  ASSUME TypeInv,
         \/ \E t \in Walkers : RankShift(t) \/ RankPlace(t)
         \/ FinalShift \/ FinalPlace
  PROVE  TypeInv'
<1>1. ASSUME NEW t \in Walkers, RankShift(t) PROVE TypeInv'
  BY <1>1, ShiftTypes DEF RankShift, Overtakes
<1>2. ASSUME NEW t \in Walkers, RankPlace(t) PROVE TypeInv'
  <2>1. /\ Place(t, AfterRank[t]) /\ pc[t] = "rank" /\ AfterRank[t] \in Labels[t]
        /\ t = "pig" => AfterRank[t] = "check"
    BY <1>2 DEF RankPlace, At, AfterRank, Walkers, Labels
  <2>2. QED
    BY <2>1, PlaceTypes
<1>3. CASE FinalShift
  BY <1>3, ShiftTypes DEF FinalShift, Faster, Walkers
<1>4. CASE FinalPlace
  <2>1. Place("pig", "close") /\ pc["pig"] = "final" /\ "pig" \in Walkers /\ "close" \in Labels["pig"]
    BY <1>4 DEF FinalPlace, At, Walkers, Labels
  <2>2. QED
    BY <2>1, PlaceTypes
<1>5. QED
  BY <1>1, <1>2, <1>3, <1>4

\* Every step of the three threads keeps the ranges.
LEMMA TypeStep == TypeInv /\ [Next]_vars => TypeInv'
<1> SUFFICES ASSUME TypeInv, [Next]_vars PROVE TypeInv'
  OBVIOUS
<1>1. CASE UNCHANGED vars
  BY <1>1 DEF vars, race, apple, award, feed, game, TypeInv, Places, Loops, Raced, Finishers, KeepsUp, Ran,
              Ranks, Awards, Flags, Index
<1>2. CASE Run \/ RunFast \/ Rests
  BY <1>2, RunKeeps
<1>3. CASE (\E t \in Walkers : RankShift(t) \/ RankPlace(t)) \/ FinalShift \/ FinalPlace
  BY <1>3, RankTypes
<1>4. CASE \/ Start \/ Check \/ LeaderFar \/ LeaderNear \/ Release \/ Announce \/ Fall \/ Miss
           \/ Hit \/ Take \/ Count \/ Award \/ Close \/ Stop
  BY <1>4, PigQuietTypes
<1>5. CASE NextTurn
  BY <1>5, NextTurnTypes
<1>6. CASE Feeder \/ SpuriousWakeup
  BY <1>6, FeederTypes
<1>7. CASE SetStarted \/ Redraw \/ Show \/ Quit \/ Go
  BY <1>7, UserTypes
<1>8. QED
  BY <1>1, <1>2, <1>3, <1>4, <1>5, <1>6, <1>7 DEF Next, Pig, Display, Walkers

\* TypeOK, of the globals of gopiggy that three threads share without a lock: no
\* interleaving takes a rank, a catcher or a position out of its range, and every
\* race is over within as many turns as the track is long.
THEOREM RaceTypes == Spec => []TypeOK
<1>1. TypeInv => TypeOK
  <2> SUFFICES ASSUME TypeInv PROVE TypeOK
    OBVIOUS
  <2>1. (\A t \in Threads : pc[t] \in Labels[t]) /\ \A t \in Walkers : i[t] \in Pigs /\ j[t] \in 0 .. i[t]
    BY DEF TypeInv, Places, Loops
  <2>2. numFinished \in 0 .. NumPigs
    <3>1. Cardinality(Finishers) <= NumPigs /\ Cardinality(Finishers) \in Nat
      BY PigsCount, FS_Subset, FS_CardinalityType DEF Finishers
    <3>2. QED
      BY <3>1, RaceSizes DEF TypeInv, Raced
  <2>3. {released, dropped, windowHeld, started, paced} \subseteq BOOLEAN /\ {fallCount, tokens, shames} \subseteq Nat
    BY DEF TypeInv, Flags
  <2>4. QED
    BY <2>1, <2>2, <2>3 DEF TypeInv, TypeOK, Raced, Ranks, Awards, Index
<1>2. QED
  BY <1>1, TypeStarts, TypeStep, PTL DEF Spec

-----------------------------------------------------------------------------
(* What the timing of a paced race gives.                                    *)

\* While the pig thread works the others are where it left them, but for a feeder
\* that it woke, and an apple that it looks for is there.
Pace ==
  paced =>
    /\ PigRests \/ /\ pc["ui"] \in {"menu", "done"}
                   /\ pc["feeder"] \in {"idle", "timed", "done", "woken", "timed_woken"}
    /\ pc["pig"] \in {"try", "release", "announce", "catch", "take", "count"} => appleIndex < NumApples

PacedInv == TypeInv /\ Pace

\* A step of the pig thread goes on from where it is.
LEMMA PigMoves ==
  ASSUME TypeInv, Pig
  PROVE  /\ pc'["ui"] = pc["ui"] /\ pc["pig"] # "done"
         /\ pc'["feeder"] = pc["feeder"] \/ (pc["feeder"] = "idle" /\ pc'["feeder"] = "woken")
                                        \/ (pc["feeder"] = "timed" /\ pc'["feeder"] = "timed_woken")
         /\ UNCHANGED <<appleIndex, paced>>
<1>1. pc \in [Threads -> AllLabels] /\ "pig" \in Threads /\ "feeder" \in Threads /\ "ui" \in Threads
  BY DEF TypeInv, Places, Threads
<1>2. \A l : Goto("pig", l) => /\ pc'["ui"] = pc["ui"] /\ pc'["feeder"] = pc["feeder"]
  BY <1>1 DEF Goto
<1>3. CASE Run \/ RunFast \/ Rests
  <2>1. (UNCHANGED pc \/ Goto("pig", "rank")) /\ UNCHANGED <<feed, game>> /\ pc["pig"] = "run"
    BY <1>3 DEF Run, RunFast, Rests, NextRunner, At
  <2>2. QED
    BY <1>2, <2>1 DEF feed, game
<1>4. CASE RankShift("pig") \/ RankPlace("pig") \/ FinalShift \/ FinalPlace
  <2>1. /\ (UNCHANGED pc \/ (\E l \in {AfterRank["pig"], "close"} : Goto("pig", l)))
        /\ UNCHANGED <<feed, game>> /\ pc["pig"] \in {"rank", "final"}
    BY <1>4 DEF RankShift, RankPlace, FinalShift, FinalPlace, Shift, Place, At
  <2>2. QED
    BY <1>2, <2>1 DEF feed, game
<1>5. CASE Release \/ Take
  <2>1. /\ (\E l \in {"announce", "count"} : WakeFeeder(l)) /\ UNCHANGED <<feed, game>>
        /\ pc["pig"] \in {"release", "take"}
    BY <1>5 DEF Release, Take, At
  <2>2. QED
    BY <1>1, <2>1 DEF WakeFeeder, feed, game
<1>6. CASE \/ Start \/ Check \/ LeaderFar \/ LeaderNear \/ Announce \/ Fall \/ Miss
           \/ Hit \/ Count \/ Award \/ NextTurn \/ Close \/ Stop
  <2>1. UNCHANGED pc \/ (\E l : Goto("pig", l))
    BY <1>6 DEF Start, Check, LeaderFar, LeaderNear, Announce, Fall, Miss, Hit, Count, Award, NextTurn,
                Close, Stop, NoCatch
  <2>2. UNCHANGED <<appleIndex, paced>> /\ pc["pig"] # "done"
    BY <1>6 DEF Start, Check, LeaderFar, LeaderNear, Announce, Fall, Miss, Hit, Count, Award, NextTurn,
                Close, Stop, At, feed, game
  <2>3. QED
    BY <1>2, <2>1, <2>2
<1>7. QED
  BY <1>3, <1>4, <1>5, <1>6 DEF Pig

\* The other threads move only while it rests, if the race is paced.
LEMMA OthersMove ==
  ASSUME TypeInv, Feeder \/ SpuriousWakeup \/ Display \/ Quit \/ Go
  PROVE  /\ pc'["pig"] = pc["pig"] /\ UNCHANGED paced
         /\ paced => PigRests
<1>1. pc \in [Threads -> AllLabels] /\ "pig" \in Threads /\ "feeder" \in Threads /\ "ui" \in Threads
  BY DEF TypeInv, Places, Threads
<1>2. \A l : Goto("feeder", l) \/ Goto("ui", l) => pc'["pig"] = pc["pig"]
  BY <1>1 DEF Goto
<1>3. UNCHANGED pc \/ (\E l : Goto("feeder", l) \/ Goto("ui", l))
  BY DEF Feeder, SpuriousWakeup, AwaitRelease, Woken, TimedWoken, TimesOut, AfterApple, Shame, Reset, NextApple,
         Display, SetStarted, Redraw, Show, RankShift, RankPlace, Shift, Place, Quit, Go
<1>4. UNCHANGED paced /\ OthersMayRun
  BY DEF Feeder, SpuriousWakeup, AwaitRelease, Woken, TimedWoken, TimesOut, AfterApple, Shame, Reset, NextApple,
         Display, SetStarted, Redraw, Show, RankShift, RankPlace, Shift, Place, Quit, Go, game
<1>5. QED
  BY <1>2, <1>3, <1>4 DEF OthersMayRun

\* The timing is kept by both.
LEMMA PaceStep == PacedInv /\ [Next]_vars => PacedInv'
<1> SUFFICES ASSUME PacedInv, [Next]_vars PROVE PacedInv'
  OBVIOUS
<1>1. TypeInv /\ TypeInv'
  BY TypeStep DEF PacedInv
<1>2. CASE UNCHANGED vars
  <2>1. UNCHANGED <<pc, paced, appleIndex>>
    BY <1>2 DEF vars, feed, game
  <2>2. QED
    BY <1>1, <2>1 DEF PacedInv, Pace, PigRests
<1>3. CASE Feeder \/ SpuriousWakeup \/ Display \/ Quit \/ Go
  BY <1>1, <1>3, OthersMove DEF PacedInv, Pace, PigRests
<1>4. CASE Pig
  <2>1. SUFFICES ASSUME paced
                 PROVE  /\ pc'["ui"] \in {"menu", "done"}
                        /\ pc'["feeder"] \in {"idle", "timed", "done", "woken", "timed_woken"}
                        /\ pc'["pig"] \in {"try", "release", "announce", "catch", "take", "count"} =>
                             appleIndex < NumApples
    BY <1>1, <1>4, PigMoves DEF PacedInv, Pace
  <2>2. pc["ui"] \in {"menu", "done"} /\ pc["feeder"] \in {"idle", "timed", "done", "woken", "timed_woken"}
    <3>1. CASE ~PigRests
      BY <2>1, <3>1 DEF PacedInv, Pace
    <3>2. CASE PigRests
      <4>1. Start \/ NextTurn
        BY <1>4, <3>2 DEF Pig, PigRests, At, Run, RunFast, Rests, RankShift, RankPlace, Check, LeaderFar,
             LeaderNear, Release, Announce, Fall, Miss, Hit, Take, Count, Award, FinalShift, FinalPlace, Close, Stop
      <4>2. OthersRest
        BY <2>1, <4>1 DEF Start, NextTurn, PigMayTick
      <4>3. QED
        BY <4>2 DEF OthersRest
    <3>3. QED
      BY <3>1, <3>2
  <2>3. pc'["pig"] \in {"try", "release", "announce", "catch", "take", "count"} =>
          \/ pc["pig"] \in {"try", "release", "announce", "catch", "take", "count"}
          \/ appleIndex < NumApples
    <3>1. pc \in [Threads -> AllLabels] /\ "pig" \in Threads
      BY <1>1 DEF TypeInv, Places, Threads
    <3>2. \A l : Goto("pig", l) => pc'["pig"] = l
      BY <3>1 DEF Goto
    <3>3. CASE pc["pig"] \in {"try", "release", "announce", "catch", "take", "count"}
      BY <3>3
    <3>4. CASE Check
      BY <3>2, <3>4 DEF Check
    <3>5. CASE pc["pig"] \notin {"check", "try", "release", "announce", "catch", "take", "count"}
      <4>1. \/ UNCHANGED pc
            \/ \E l \in {"run", "rank", "check", "sleep", "final", "close", "stop", "done"} : Goto("pig", l)
        BY <1>4, <3>5 DEF Pig, At, Start, Run, RunFast, Rests, NextRunner, RankShift, RankPlace, Shift, Place, AfterRank,
             Walkers, Check, LeaderFar, LeaderNear, Release, Announce, Fall, Miss, Hit, Take, Count, Award,
             NextTurn, FinalShift, FinalPlace, Close, Stop
      <4>2. QED
        BY <3>2, <3>5, <4>1
    <3>6. QED
      BY <1>4, <3>3, <3>4, <3>5 DEF Pig, At, Start, Run, RunFast, Rests, RankShift, RankPlace,
           LeaderFar, LeaderNear, Release, Announce, Fall, Miss, Hit, Take, Count, Award,
           NextTurn, FinalShift, FinalPlace, Close, Stop
  <2>4. QED
    BY <1>1, <1>4, <2>1, <2>2, <2>3, PigMoves DEF PacedInv, Pace
<1>5. QED
  BY <1>2, <1>3, <1>4 DEF Next

\* And it is there from the start.
LEMMA PaceStarts == Init => PacedInv
<1> SUFFICES ASSUME Init PROVE PacedInv
  OBVIOUS
<1>1. TypeInv
  BY TypeStarts
<1>2. pc["pig"] = "start"
  BY DEF Init, Threads
<1>3. QED
  BY <1>1, <1>2 DEF PacedInv, Pace, PigRests

\* What the timing of a paced race gives holds in all of it.
THEOREM RaceIsPaced == Spec => []PacedInv
BY PaceStarts, PaceStep, PTL DEF Spec

\* LocationExists, of the apple locations that try_catch_apple reads: in a paced
\* race the index cannot move on between the test of it and the use.
THEOREM RaceReadsLocations == Spec => []LocationExists
<1>1. PacedInv => LocationExists
  BY DEF PacedInv, Pace, LocationExists
<1>2. QED
  BY <1>1, RaceIsPaced, PTL

-----------------------------------------------------------------------------
(* The ranking.                                                              *)

\* The first n pigs are in ranks 0 to n apart from rank h, greater keys first, and
\* those behind h have smaller keys than pig n, which is to be placed.
NearlyRanked(r, n, h, key) ==
  /\ \A a \in (0 .. n) \ {h} : r[a] \in 0 .. (n - 1)
  /\ \A a, b \in (0 .. n) \ {h} : a < b => r[a] # r[b] /\ key[r[a]] >= key[r[b]]
  /\ \A a \in (h + 1) .. n : key[r[a]] < key[n]

\* Ranks 0 to n have different pigs, greater keys first.
IsRanked(r, n, key) ==
  \A a, b \in 0 .. n : a < b => r[a] # r[b] /\ key[r[a]] >= key[r[b]]

\* A pig that is behind moves one rank down.
LEMMA ShiftRanks ==
  ASSUME NEW r \in [Pigs -> Pigs], NEW key \in [Pigs -> Int], NEW n \in Pigs, NEW h \in 1 .. n,
         NearlyRanked(r, n, h, key), key[r[h - 1]] < key[n], NEW s, s = [r EXCEPT ![h] = r[h - 1]]
  PROVE  NearlyRanked(s, n, h - 1, key)
<1>1. n \in Nat /\ h \in Nat /\ h - 1 \in Nat /\ h \in Pigs /\ \A a \in 0 .. n : a \in Pigs
  <2>1. NumPigs \in Nat
    BY RaceSizes
  <2>2. QED
    BY <2>1 DEF Pigs
<1>2. s[h] = r[h - 1] /\ \A a \in Pigs : a # h => s[a] = r[a]
  BY <1>1
<1>3. h - 1 \in (0 .. n) \ {h}
  BY <1>1
<1>4. \A a \in (0 .. n) \ {h - 1} : a = h \/ (a \in (0 .. n) \ {h} /\ s[a] = r[a])
  BY <1>1, <1>2
<1>5. \A a \in (0 .. n) \ {h - 1} : s[a] \in 0 .. (n - 1)
  BY <1>2, <1>3, <1>4 DEF NearlyRanked
<1>6. ASSUME NEW a \in (0 .. n) \ {h - 1}, NEW b \in (0 .. n) \ {h - 1}, a < b
      PROVE  s[a] # s[b] /\ key[s[a]] >= key[s[b]]
  <2>1. CASE a # h /\ b # h
    BY <1>4, <1>6, <2>1 DEF NearlyRanked
  <2>2. CASE a = h
    <3>1. b # h /\ h - 1 < b
      BY <1>1, <1>6, <2>2
    <3>2. QED
      BY <1>2, <1>3, <1>4, <1>6, <2>2, <3>1 DEF NearlyRanked
  <2>3. CASE b = h
    <3>1. a # h /\ a < h - 1
      BY <1>1, <1>6, <2>3
    <3>2. QED
      BY <1>2, <1>3, <1>4, <1>6, <2>3, <3>1 DEF NearlyRanked
  <2>4. QED
    BY <2>1, <2>2, <2>3
<1>7. ASSUME NEW a \in ((h - 1) + 1) .. n PROVE key[s[a]] < key[n]
  <2>1. CASE a = h
    BY <1>2, <2>1
  <2>2. CASE a # h
    <3>1. a \in (h + 1) .. n /\ a \in Pigs
      BY <1>1, <1>7, <2>2
    <3>2. QED
      BY <1>2, <2>2, <3>1 DEF NearlyRanked
  <2>3. QED
    BY <2>1, <2>2
<1>8. QED
  BY <1>5, <1>6, <1>7 DEF NearlyRanked

\* The pig is placed behind one that is not.
LEMMA PlaceRanks ==
  ASSUME NEW r \in [Pigs -> Pigs], NEW key \in [Pigs -> Int], NEW n \in Pigs, NEW h \in 0 .. n,
         NearlyRanked(r, n, h, key), h > 0 => key[r[h - 1]] >= key[n], NEW s, s = [r EXCEPT ![h] = n]
  PROVE  IsRanked(s, n, key) /\ \A a \in 0 .. n : s[a] \in 0 .. n
<1>1. n \in Nat /\ h \in Nat /\ h \in Pigs /\ \A a \in 0 .. n : a \in Pigs
  <2>1. NumPigs \in Nat
    BY RaceSizes
  <2>2. QED
    BY <2>1 DEF Pigs
<1>2. s[h] = n /\ \A a \in 0 .. n : a # h => s[a] = r[a]
  BY <1>1
<1>3. \A a \in 0 .. n : a # h => r[a] \in 0 .. (n - 1) /\ r[a] \in Pigs /\ key[r[a]] \in Int
  BY <1>1 DEF NearlyRanked
<1>4. key[n] \in Int
  OBVIOUS
<1>5. ASSUME NEW a \in 0 .. n, NEW b \in 0 .. n, a < b
      PROVE  s[a] # s[b] /\ key[s[a]] >= key[s[b]]
  <2>1. CASE a # h /\ b # h
    BY <1>2, <1>5, <2>1 DEF NearlyRanked
  <2>2. CASE a = h
    <3>1. b # h /\ b \in (h + 1) .. n
      BY <1>1, <1>5, <2>2
    <3>2. key[r[b]] < key[n] /\ r[b] # n
      BY <1>1, <1>3, <3>1 DEF NearlyRanked
    <3>3. QED
      BY <1>2, <1>3, <1>4, <2>2, <3>1, <3>2
  <2>3. CASE b = h
    <3>1. a # h /\ h > 0 /\ h - 1 \in (0 .. n) \ {h} /\ (a = h - 1 \/ a < h - 1)
      BY <1>1, <1>5, <2>3
    <3>2. key[r[h - 1]] >= key[n] /\ key[r[a]] >= key[r[h - 1]] /\ r[a] # n
      BY <1>1, <1>3, <3>1 DEF NearlyRanked
    <3>3. key[r[h - 1]] \in Int
      BY <1>3, <3>1
    <3>4. QED
      BY <1>2, <1>3, <1>4, <2>3, <3>1, <3>2, <3>3
  <2>4. QED
    BY <2>1, <2>2, <2>3
<1>6. \A a \in 0 .. n : s[a] \in 0 .. n
  BY <1>1, <1>2, <1>3
<1>7. QED
  BY <1>5, <1>6 DEF IsRanked

\* Then the next pig can be.
LEMMA NextIsNearly ==
  ASSUME NEW r \in [Pigs -> Pigs], NEW key \in [Pigs -> Int], NEW n \in Pigs, n + 1 \in Pigs,
         IsRanked(r, n, key), \A a \in 0 .. n : r[a] \in 0 .. n
  PROVE  NearlyRanked(r, n + 1, n + 1, key)
<1>1. n \in Nat
  BY RaceSizes
<1>2. \A a \in (0 .. (n + 1)) \ {n + 1} : a \in 0 .. n
  BY <1>1
<1>3. (n + 1) - 1 = n /\ ((n + 1) + 1) .. (n + 1) = {}
  BY <1>1
<1>4. QED
  BY <1>2, <1>3 DEF NearlyRanked, IsRanked

\* The less time, the greater.
Slowness == [p \in Pigs |-> -period[p]]

\* In a paced race only the pig thread ranks while the order matters to it.
RankInv ==
  paced =>
    /\ pc["pig"] = "rank" => NearlyRanked(ranked, i["pig"], j["pig"], position)
    /\ pc["pig"] \in {"check", "try", "catch"} => IsRanked(ranked, NumPigs - 1, position)
    /\ pc["pig"] = "final" => NearlyRanked(ranked, i["pig"], j["pig"], Slowness)
    /\ pc["pig"] = "close" => IsRanked(ranked, NumPigs - 1, Slowness)

\* A step that does not rank.
LEMMA RankStays ==
  ASSUME RankInv, UNCHANGED <<ranked, position, period, paced>>,
         pc'["pig"] \in {"rank", "final"} =>
           pc["pig"] = pc'["pig"] /\ i'["pig"] = i["pig"] /\ j'["pig"] = j["pig"],
         pc'["pig"] \in {"check", "try", "catch"} => pc["pig"] \in {"check", "try", "catch"},
         pc'["pig"] = "close" => pc["pig"] = "close"
  PROVE  RankInv'
<1>1. Slowness' = Slowness
  BY DEF Slowness
<1>2. QED
  BY <1>1 DEF RankInv

\* The start of a ranking.
LEMMA RankBegins ==
  ASSUME NEW r, NEW key
  PROVE  NearlyRanked(r, 0, 0, key)
<1>1. (0 .. 0) \ {0} = {} /\ (0 + 1) .. 0 = {}
  OBVIOUS
<1>2. QED
  BY <1>1 DEF NearlyRanked

\* A turn of the ranking's inner loop, and its end, whatever the key is.
LEMMA RankTurns ==
  ASSUME TypeInv, NEW key \in [Pigs -> Int], NEW next,
         NearlyRanked(ranked, i["pig"], j["pig"], key),
         \/ j["pig"] > 0 /\ key[ranked[j["pig"] - 1]] < key[i["pig"]] /\ Shift("pig")
         \/ (j["pig"] > 0 => key[ranked[j["pig"] - 1]] >= key[i["pig"]]) /\ Place("pig", next)
  PROVE  \/ pc'["pig"] = pc["pig"] /\ NearlyRanked(ranked, i["pig"], j["pig"], key)'
         \/ pc'["pig"] = next /\ IsRanked(ranked', NumPigs - 1, key)
<1>1. /\ i["pig"] \in Pigs /\ j["pig"] \in 0 .. i["pig"] /\ j["pig"] \in Int /\ ranked \in [Pigs -> Pigs]
      /\ i \in [Walkers -> Pigs] /\ j \in [Walkers -> Int] /\ "pig" \in Walkers
      /\ pc \in [Threads -> AllLabels] /\ "pig" \in Threads
  BY DEF TypeInv, Places, Loops, Ranks, Walkers, Threads
<1>a. PICK n \in Pigs : n = i["pig"]
  BY <1>1
<1>b. PICK h \in 0 .. n : h = j["pig"]
  BY <1>1, <1>a
<1>c. PICK r \in [Pigs -> Pigs] : r = ranked
  BY <1>1
<1>2. n = i["pig"] /\ h = j["pig"] /\ r = ranked
  BY <1>a, <1>b, <1>c
<1>3. n \in Nat /\ h \in Nat
  BY RaceSizes
<1>4. CASE h > 0 /\ key[r[h - 1]] < key[n] /\ Shift("pig")
  <2>1. /\ ranked' = [r EXCEPT ![h] = r[h - 1]] /\ i' = i /\ pc' = pc
        /\ j' = [j EXCEPT !["pig"] = h - 1]
    BY <1>2, <1>4 DEF Shift
  <2>2. h \in 1 .. n
    BY <1>3, <1>4
  <2>3. PICK s : s = ranked'
    OBVIOUS
  <2>4. NearlyRanked(s, n, h - 1, key)
    BY <1>2, <1>4, <2>1, <2>2, <2>3, ShiftRanks
  <2>5. j'["pig"] = h - 1 /\ i'["pig"] = n
    BY <1>1, <1>2, <2>1
  <2>6. QED
    BY <2>1, <2>3, <2>4, <2>5
<1>5. CASE (h > 0 => key[r[h - 1]] >= key[n]) /\ Place("pig", next)
  <2>1. ranked' = [r EXCEPT ![h] = n]
    BY <1>2, <1>5 DEF Place
  <2>2. PICK s : s = ranked'
    OBVIOUS
  <2>3. IsRanked(s, n, key) /\ \A a \in 0 .. n : s[a] \in 0 .. n
    BY <1>2, <1>5, <2>1, <2>2, PlaceRanks
  <2>4. CASE n + 1 < NumPigs
    <3>1. pc' = pc /\ i' = [i EXCEPT !["pig"] = n + 1] /\ j' = [j EXCEPT !["pig"] = n + 1]
      BY <1>2, <1>5, <2>4 DEF Place
    <3>2. i'["pig"] = n + 1 /\ j'["pig"] = n + 1
      BY <1>1, <3>1
    <3>3. n + 1 \in Pigs /\ s \in [Pigs -> Pigs]
      <4>1. n + 1 \in Pigs
        BY <1>3, <2>4, RaceSizes
      <4>2. [r EXCEPT ![h] = n] \in [Pigs -> Pigs]
        OBVIOUS
      <4>3. QED
        BY <2>1, <2>2, <4>1, <4>2
    <3>4. NearlyRanked(s, n + 1, n + 1, key)
      BY <2>3, <3>3, NextIsNearly
    <3>5. QED
      BY <2>2, <3>1, <3>2, <3>4
  <2>5. CASE ~(n + 1 < NumPigs)
    <3>1. Goto("pig", next)
      BY <1>2, <1>5, <2>5 DEF Place
    <3>2. pc'["pig"] = next
      BY <1>1, <3>1 DEF Goto
    <3>3. n = NumPigs - 1
      BY <1>3, <2>5, RaceSizes
    <3>4. QED
      BY <2>2, <2>3, <3>2, <3>3
  <2>6. QED
    BY <2>4, <2>5
<1>6. QED
  BY <1>2, <1>4, <1>5

\* Every step keeps the order where it matters.
LEMMA RankStep == TypeInv /\ PacedInv /\ RankInv /\ [Next]_vars => RankInv'
<1> SUFFICES ASSUME TypeInv, PacedInv, RankInv, [Next]_vars PROVE RankInv'
  OBVIOUS
<1>1. /\ pc \in [Threads -> AllLabels] /\ "pig" \in Threads
      /\ i \in [Walkers -> Pigs] /\ j \in [Walkers -> Int] /\ "pig" \in Walkers
      /\ ranked \in [Pigs -> Pigs] /\ position \in [Pigs -> Int] /\ Slowness \in [Pigs -> Int]
  BY RaceSizes DEF TypeInv, Places, Loops, Ranks, Raced, Walkers, Threads, Slowness
<1>2. \A l : Goto("pig", l) => pc'["pig"] = l
  BY <1>1 DEF Goto
<1>3. CASE UNCHANGED vars
  BY <1>3, RankStays DEF vars, race, game
<1>4. CASE Feeder \/ SpuriousWakeup \/ Display \/ Quit \/ Go
  <2>1. pc'["pig"] = pc["pig"] /\ UNCHANGED paced /\ (paced => PigRests)
    BY <1>4, OthersMove
  <2>2. QED
    BY <2>1 DEF RankInv, PigRests
<1>5. CASE Run \/ RunFast \/ Rests
  <2>1. /\ pc["pig"] = "run" /\ j["pig"] = 0 /\ UNCHANGED j
        /\ UNCHANGED pc \/ (Goto("pig", "rank") /\ i' = [i EXCEPT !["pig"] = 0])
    BY <1>5 DEF TypeInv, Loops, Run, RunFast, Rests, NextRunner, At
  <2>2. pc'["pig"] = "run" \/ (pc'["pig"] = "rank" /\ i'["pig"] = 0 /\ j'["pig"] = 0)
    BY <1>1, <1>2, <2>1
  <2>3. pc'["pig"] = "rank" => NearlyRanked(ranked, i["pig"], j["pig"], position)'
    BY <2>2, RankBegins
  <2>4. QED
    BY <2>2, <2>3 DEF RankInv
<1>6. CASE NextTurn
  <2>1. StartLoop("pig") /\ (Goto("pig", "run") \/ Goto("pig", "final"))
    BY <1>6 DEF NextTurn
  <2>2. i'["pig"] = 0 /\ j'["pig"] = 0 /\ pc'["pig"] \in {"run", "final"}
    BY <1>1, <1>2, <2>1 DEF StartLoop
  <2>3. NearlyRanked(ranked, i["pig"], j["pig"], Slowness)'
    BY <2>2, RankBegins
  <2>4. QED
    BY <2>2, <2>3 DEF RankInv
<1>7. CASE RankShift("pig") \/ RankPlace("pig")
  <2>1. SUFFICES ASSUME paced PROVE RankInv'
    BY <1>7 DEF RankInv, RankShift, RankPlace, Shift, Place, game
  <2>2. /\ pc["pig"] = "rank" /\ UNCHANGED <<position, paced>>
        /\ NearlyRanked(ranked, i["pig"], j["pig"], position)
    BY <1>7, <2>1 DEF RankInv, RankShift, RankPlace, Shift, Place, At, race, game
  <2>3. PICK key \in [Pigs -> Int] : key = position
    BY <1>1
  <2>4. \/ j["pig"] > 0 /\ key[ranked[j["pig"] - 1]] < key[i["pig"]] /\ Shift("pig")
        \/ (j["pig"] > 0 => key[ranked[j["pig"] - 1]] >= key[i["pig"]]) /\ Place("pig", "check")
    <3>1. i["pig"] \in Pigs /\ j["pig"] \in Nat /\ (j["pig"] > 0 => j["pig"] - 1 \in Pigs)
      BY RaceSizes DEF TypeInv, Loops, Walkers
    <3>2. key[i["pig"]] \in Int /\ (j["pig"] > 0 => key[ranked[j["pig"] - 1]] \in Int)
      BY <1>1, <3>1
    <3>3. QED
      BY <1>1, <1>7, <2>3, <3>1, <3>2 DEF RankShift, RankPlace, Overtakes, AfterRank
  <2>5. \/ pc'["pig"] = pc["pig"] /\ NearlyRanked(ranked', i'["pig"], j'["pig"], key)
        \/ pc'["pig"] = "check" /\ IsRanked(ranked', NumPigs - 1, key)
    BY <2>2, <2>3, <2>4, RankTurns
  <2>6. position' = key
    BY <2>2, <2>3
  <2>7. QED
    BY <2>2, <2>5, <2>6 DEF RankInv
<1>8. CASE FinalShift \/ FinalPlace
  <2>1. SUFFICES ASSUME paced PROVE RankInv'
    BY <1>8 DEF RankInv, FinalShift, FinalPlace, Shift, Place, game
  <2>2. /\ pc["pig"] = "final" /\ UNCHANGED <<period, paced>>
        /\ NearlyRanked(ranked, i["pig"], j["pig"], Slowness)
    BY <1>8, <2>1 DEF RankInv, FinalShift, FinalPlace, Shift, Place, At, race, game
  <2>3. PICK key \in [Pigs -> Int] : key = Slowness
    BY <1>1
  <2>4. \/ j["pig"] > 0 /\ key[ranked[j["pig"] - 1]] < key[i["pig"]] /\ Shift("pig")
        \/ (j["pig"] > 0 => key[ranked[j["pig"] - 1]] >= key[i["pig"]]) /\ Place("pig", "close")
    <3>1. i["pig"] \in Pigs /\ j["pig"] \in Nat /\ (j["pig"] > 0 => j["pig"] - 1 \in Pigs)
      BY RaceSizes DEF TypeInv, Loops, Walkers
    <3>2. \A p \in Pigs : key[p] = -period[p] /\ period[p] \in Int
      BY <2>3, RaceSizes DEF Slowness, TypeInv, Raced
    <3>3. j["pig"] > 0 => ranked[j["pig"] - 1] \in Pigs
      BY <1>1, <3>1
    <3>4. QED
      BY <1>8, <3>1, <3>2, <3>3 DEF FinalShift, FinalPlace, Faster
  <2>5. \/ pc'["pig"] = pc["pig"] /\ NearlyRanked(ranked', i'["pig"], j'["pig"], key)
        \/ pc'["pig"] = "close" /\ IsRanked(ranked', NumPigs - 1, key)
    BY <2>2, <2>3, <2>4, RankTurns
  <2>6. Slowness' = key
    BY <2>2, <2>3 DEF Slowness
  <2>7. QED
    BY <2>2, <2>5, <2>6 DEF RankInv
<1>9. CASE \/ Start \/ Check \/ LeaderFar \/ LeaderNear \/ Release \/ Announce \/ Fall \/ Miss
           \/ Hit \/ Take \/ Count \/ Award \/ Close \/ Stop
  <2>1. UNCHANGED <<ranked, position, period, paced>>
    BY <1>9 DEF Start, Check, LeaderFar, LeaderNear, Release, Announce, Fall, Miss, Hit, Take, Count, Award,
                Close, Stop, race, game
  <2>2. \/ UNCHANGED pc /\ pc["pig"] = "catch"
        \/ \E l \in {"run", "try", "award", "release", "catch", "take", "announce", "count", "sleep", "stop",
                     "done"} :
             /\ pc'["pig"] = l
             /\ l \in {"try", "catch"} => pc["pig"] \in {"check", "try", "catch"}
    <3>1. CASE Release \/ Take
      <4>1. WakeFeeder("announce") \/ WakeFeeder("count")
        BY <3>1 DEF Release, Take
      <4>2. QED
        BY <1>1, <4>1 DEF WakeFeeder
    <3>2. CASE ~(Release \/ Take)
      <4>1. \/ UNCHANGED pc /\ pc["pig"] = "catch"
            \/ \E l \in {"run", "try", "award", "release", "catch", "take", "sleep", "stop", "done"} :
                 /\ Goto("pig", l)
                 /\ l \in {"try", "catch"} => pc["pig"] \in {"check", "try", "catch"}
        BY <1>9, <3>2 DEF Start, Check, LeaderFar, LeaderNear, Announce, Fall, Miss, Hit, Count, Award,
                          Close, Stop, NoCatch, At
      <4>2. QED
        BY <1>2, <4>1
    <3>3. QED
      BY <3>1, <3>2
  <2>3. /\ pc'["pig"] \notin {"rank", "final", "close"}
        /\ pc'["pig"] \in {"check", "try", "catch"} => pc["pig"] \in {"check", "try", "catch"}
    BY <2>2
  <2>4. QED
    BY <2>1, <2>3, RankStays
<1>10. QED
  BY <1>3, <1>4, <1>5, <1>6, <1>7, <1>8, <1>9 DEF Next, Pig

\* The order holds from the start, where none is needed.
THEOREM RaceRanks == Spec => []RankInv
<1>1. Init => RankInv
  <2> SUFFICES ASSUME Init PROVE RankInv
    OBVIOUS
  <2>1. pc["pig"] = "start"
    BY DEF Init, Threads
  <2>2. QED
    BY <2>1 DEF RankInv
<1>2. PacedInv => TypeInv
  BY DEF PacedInv
<1>3. QED
  BY <1>1, <1>2, RankStep, RaceIsPaced, PTL DEF Spec

\* LeaderLeads, of rank_piggy: in a paced race the pig that try_catch_apple takes
\* for the leader is one, and no pig has two ranks, although the display ranks the
\* same array.
THEOREM RaceLeaderLeads == Spec => []LeaderLeads
<1>1. RankInv => LeaderLeads
  <2> SUFFICES ASSUME RankInv, paced, pc["pig"] \in {"check", "try", "catch"}, NEW r \in 1 .. (NumPigs - 1)
               PROVE  /\ position[ranked[r - 1]] >= position[ranked[r]]
                      /\ \A q \in 0 .. (r - 1) : ranked[q] # ranked[r]
    BY DEF LeaderLeads
  <2>1. IsRanked(ranked, NumPigs - 1, position)
    BY DEF RankInv
  <2>2. r \in 0 .. (NumPigs - 1) /\ \A q \in 0 .. (r - 1) : q \in 0 .. (NumPigs - 1) /\ q < r
    BY RaceSizes
  <2>3. r - 1 \in 0 .. (r - 1)
    BY RaceSizes
  <2>4. QED
    BY <2>1, <2>2, <2>3 DEF IsRanked
<1>2. QED
  BY <1>1, RaceRanks, PTL

\* ResultIsRight, of rank_piggy_final: the printed order is that of the finishing
\* times.
THEOREM RaceResultIsRight == Spec => []ResultIsRight
<1>1. RankInv /\ TypeInv => ResultIsRight
  <2> SUFFICES ASSUME RankInv, TypeInv, paced, pc["pig"] = "close", NEW r \in 1 .. (NumPigs - 1)
               PROVE  /\ period[ranked[r - 1]] <= period[ranked[r]]
                      /\ \A q \in 0 .. (r - 1) : ranked[q] # ranked[r]
    BY DEF ResultIsRight, At
  <2>1. IsRanked(ranked, NumPigs - 1, Slowness)
    BY DEF RankInv
  <2>2. r \in 0 .. (NumPigs - 1) /\ \A q \in 0 .. (r - 1) : q \in 0 .. (NumPigs - 1) /\ q < r
    BY RaceSizes
  <2>3. r - 1 \in 0 .. (r - 1) /\ r - 1 \in Pigs /\ r \in Pigs
    BY RaceSizes DEF Pigs
  <2>4. Slowness[ranked[r - 1]] >= Slowness[ranked[r]] /\ \A q \in 0 .. (r - 1) : ranked[q] # ranked[r]
    BY <2>1, <2>2, <2>3 DEF IsRanked
  <2>5. \A p \in Pigs : Slowness[p] = -period[p] /\ period[p] \in Int
    BY RaceSizes DEF Slowness, TypeInv, Raced
  <2>6. ranked[r - 1] \in Pigs /\ ranked[r] \in Pigs
    BY <2>3 DEF TypeInv, Ranks
  <2>7. QED
    BY <2>4, <2>5, <2>6
<1>2. PacedInv => TypeInv
  BY DEF PacedInv
<1>3. QED
  BY <1>1, <1>2, RaceRanks, RaceIsPaced, PTL

-----------------------------------------------------------------------------
(* Every apple ends once.                                                    *)

\* The apples that were caught or announced as caught by nobody.
Ended == TotalCaught + shames

\* The feeder is between an apple's end and the next apple from the end on, and
\* knows of it at the latest when it has reset the flag.
FeederCounts ==
  /\ pc["feeder"] \in {"top", "idle", "woken", "timed"} => Ended = appleIndex /\ ~dropped
  /\ pc["feeder"] = "timed_woken" =>
       ~dropped /\ Ended = appleIndex + (IF released \/ pc["pig"] = "count" THEN 0 ELSE 1)
  /\ pc["feeder"] = "after" => Ended = appleIndex + (IF dropped THEN 0 ELSE 1)
  /\ pc["feeder"] = "shame" => Ended = appleIndex
  /\ pc["feeder"] \in {"reset", "advance"} => Ended = appleIndex + 1
  /\ pc["feeder"] = "done" => Ended = appleIndex /\ appleIndex = NumApples /\ ~released

\* While the pig thread looks for an apple the feeder waits; what it has decided
\* to do with the apple still holds when it does so.
Seeking == {"run", "rank", "check", "try", "catch", "take"}
PigHolds ==
  /\ pc["pig"] \in Seeking => pc["feeder"] \in {"idle", "timed", "done"}
  /\ pc["pig"] = "take" => released
  /\ pc["pig"] = "release" => ~released /\ pc["feeder"] = "idle"
  /\ pc["pig"] = "count" => ~released /\ pc["feeder"] = "timed_woken"

AppleInv == paced => FeederCounts /\ PigHolds

\* The apples are counted by a sum over the pigs, and a catch adds one to it.
LEMMA CaughtSum ==
  ASSUME TypeInv
  PROVE  /\ TotalCaught \in Nat /\ (UNCHANGED caught => TotalCaught' = TotalCaught)
         /\ \A p \in Pigs : caught' = [caught EXCEPT ![p] = caught[p] + 1] => TotalCaught' = TotalCaught + 1
<1>1. TotalCaught = SumFunction(caught) /\ TotalCaught' = SumFunction(caught')
  BY DEF TotalCaught
<1>2. caught \in [Pigs -> Int] /\ (\A p \in Pigs : caught[p] \in Nat) /\ IsFiniteSet(Pigs)
  BY PigsCount DEF TypeInv, Awards
<1>3. SumFunction(caught) \in Nat
  BY <1>2, SumType
<1>4. ASSUME NEW p \in Pigs, caught' = [caught EXCEPT ![p] = caught[p] + 1]
      PROVE  SumFunction(caught') = SumFunction(caught) + 1
  <2>1. PICK f \in [Pigs -> Int] : f = caught
    BY <1>2
  <2>2. f[p] + 1 \in Int /\ SumFunction(f) \in Int
    BY <1>3, <2>1
  <2>3. SumFunction([f EXCEPT ![p] = f[p] + 1]) = SumFunction(f) - f[p] + (f[p] + 1)
    BY <1>2, <2>2, SumChange
  <2>4. caught' = [f EXCEPT ![p] = f[p] + 1]
    BY <1>4, <2>1
  <2>5. QED
    BY <2>1, <2>2, <2>3, <2>4
<1>5. UNCHANGED caught => SumFunction(caught') = SumFunction(caught)
  OBVIOUS
<1>6. QED
  BY <1>1, <1>3, <1>4, <1>5

\* A step that ends no apple and leaves the feeder where it is.
LEMMA AppleAside ==
  ASSUME TypeInv, AppleInv, UNCHANGED <<released, caught, dropped, shames, appleIndex, paced>>,
         pc'["feeder"] = pc["feeder"],
         paced => /\ (pc'["pig"] = "count") = (pc["pig"] = "count")
                  /\ pc'["pig"] \in Seeking => pc["pig"] \in Seeking \/ pc["feeder"] \in {"idle", "timed", "done"}
                  /\ pc'["pig"] = "take" => pc["pig"] = "take" \/ released
                  /\ pc'["pig"] = "release" => pc["pig"] = "release" \/ (~released /\ pc["feeder"] = "idle")
  PROVE  AppleInv'
<1>1. Ended' = Ended
  BY CaughtSum DEF Ended
<1>2. SUFFICES ASSUME paced PROVE FeederCounts' /\ PigHolds'
  BY DEF AppleInv
<1>3. FeederCounts /\ PigHolds
  BY <1>2 DEF AppleInv
<1>4. FeederCounts'
  BY <1>1, <1>2, <1>3 DEF FeederCounts
<1>5. PigHolds'
  BY <1>2, <1>3 DEF PigHolds
<1>6. QED
  BY <1>4, <1>5

\* The pig thread: a catch is counted once, and only for an apple that is there.
LEMMA ApplePigStep ==
  ASSUME PacedInv, FeederInv, AppleInv, Pig
  PROVE  AppleInv'
<1> USE DEF At
<1>1. /\ pc \in [Threads -> AllLabels] /\ "pig" \in Threads /\ "feeder" \in Threads /\ TypeInv
      /\ TotalCaught \in Nat /\ shames \in Nat /\ appleIndex \in Nat /\ released \in BOOLEAN
  BY CaughtSum DEF PacedInv, TypeInv, Places, Flags, Index, Threads
<1>2. \A l : Goto("pig", l) => pc'["pig"] = l /\ pc'["feeder"] = pc["feeder"]
  BY <1>1 DEF Goto
<1>3. UNCHANGED <<dropped, shames, appleIndex, paced>>
  BY DEF Pig, Start, Run, RunFast, Rests, NextRunner, RankShift, RankPlace, Shift, Place, Check, LeaderFar,
         LeaderNear, Release, Announce, Fall, Miss, Hit, Take, Count, Award, NextTurn, FinalShift, FinalPlace,
         Close, Stop, feed, game
<1>4. CASE Run \/ RunFast \/ Rests \/ RankShift("pig") \/ RankPlace("pig") \/ FinalShift \/ FinalPlace
  <2>1. UNCHANGED <<released, caught>>
    BY <1>4 DEF Run, RunFast, Rests, NextRunner, RankShift, RankPlace, Shift, Place, FinalShift, FinalPlace, apple
  <2>2. \/ UNCHANGED pc
        \/ pc["pig"] \in {"run", "rank"} /\ (Goto("pig", "rank") \/ Goto("pig", "check"))
        \/ Goto("pig", "close")
    BY <1>4 DEF Run, RunFast, Rests, NextRunner, RankShift, RankPlace, Shift, Place, FinalShift, FinalPlace,
                AfterRank, Walkers
  <2>3. /\ pc'["feeder"] = pc["feeder"] /\ pc["pig"] \in {"run", "rank", "final"}
        /\ pc'["pig"] = pc["pig"] \/ (pc["pig"] \in {"run", "rank"} /\ pc'["pig"] \in {"rank", "check"})
           \/ pc'["pig"] = "close"
    BY <1>2, <1>4, <2>2 DEF Run, RunFast, Rests, RankShift, RankPlace, FinalShift, FinalPlace
  <2>4. QED
    BY <1>1, <1>3, <2>1, <2>3, AppleAside DEF Seeking
<1>5. CASE Start \/ NextTurn
  <2>1. UNCHANGED <<released, caught>> /\ (paced => OthersRest)
    BY <1>5 DEF Start, NextTurn, PigMayTick, apple
  <2>2. pc'["feeder"] = pc["feeder"] /\ pc'["pig"] \in {"run", "final"} /\ pc["pig"] # "count"
    BY <1>2, <1>5 DEF Start, NextTurn
  <2>3. QED
    BY <1>1, <1>3, <2>1, <2>2, AppleAside DEF OthersRest
<1>6. CASE LeaderNear
  <2>1. UNCHANGED <<released, caught>> /\ ~released /\ pc["pig"] = "try"
    BY <1>6 DEF LeaderNear, apple
  <2>2. pc'["feeder"] = pc["feeder"] /\ pc'["pig"] = "release"
    BY <1>2, <1>6 DEF LeaderNear
  <2>3. paced => pc["feeder"] = "idle"
    <3>1. paced => pc["feeder"] \in {"idle", "timed", "done"} /\ appleIndex < NumApples
      BY <2>1 DEF AppleInv, PigHolds, Seeking, PacedInv, Pace
    <3>2. pc["feeder"] # "timed"
      BY <2>1 DEF FeederInv, FeederIsAwake
    <3>3. paced => pc["feeder"] # "done"
      BY <1>1, <3>1, RaceSizes DEF AppleInv, FeederCounts
    <3>4. QED
      BY <3>1, <3>2, <3>3
  <2>4. QED
    BY <1>1, <1>3, <2>1, <2>2, <2>3, AppleAside DEF Seeking
<1>7. CASE Check \/ LeaderFar \/ Announce \/ Fall \/ Miss \/ Hit \/ Award \/ Close \/ Stop
  <2>1. UNCHANGED <<released, caught>>
    BY <1>7 DEF Check, LeaderFar, Announce, Fall, Miss, Hit, Award, Close, Stop, apple
  <2>2. \/ UNCHANGED pc /\ pc["pig"] = "catch"
        \/ pc["pig"] \in {"check", "try", "catch"} /\ (Goto("pig", "try") \/ Goto("pig", "catch"))
        \/ pc["pig"] # "count" /\ \E l \in {"award", "sleep", "stop", "done"} : Goto("pig", l)
        \/ pc["pig"] = "catch" /\ Goto("pig", "take") /\ released
    BY <1>7 DEF Check, LeaderFar, Announce, Fall, Miss, Hit, Award, Close, Stop, NoCatch
  <2>3. /\ pc'["feeder"] = pc["feeder"]
        /\ \/ pc'["pig"] = pc["pig"] /\ pc["pig"] = "catch"
           \/ pc["pig"] \in {"check", "try", "catch"} /\ pc'["pig"] \in {"try", "catch"}
           \/ pc["pig"] # "count" /\ pc'["pig"] \in {"award", "sleep", "stop", "done"}
           \/ pc["pig"] = "catch" /\ pc'["pig"] = "take" /\ released
    BY <1>2, <2>2
  <2>4. QED
    BY <1>1, <1>3, <2>1, <2>3, AppleAside DEF Seeking
<1>8. CASE Release
  <2>1. SUFFICES ASSUME paced PROVE FeederCounts' /\ PigHolds'
    BY <1>3 DEF AppleInv
  <2>2. ~released /\ pc["feeder"] = "idle" /\ Ended = appleIndex /\ ~dropped
    BY <1>8, <2>1 DEF AppleInv, PigHolds, FeederCounts, Release
  <2>3. pc'["feeder"] = "woken" /\ pc'["pig"] = "announce"
    BY <1>1, <1>8, <2>2 DEF Release, WakeFeeder
  <2>4. Ended' = Ended
    BY <1>1, <1>3, <1>8, CaughtSum DEF Release, Ended
  <2>5. QED
    BY <1>3, <2>2, <2>3, <2>4 DEF FeederCounts, PigHolds, Seeking
<1>9. CASE Take
  <2>1. SUFFICES ASSUME paced PROVE FeederCounts' /\ PigHolds'
    BY <1>3 DEF AppleInv
  <2>2. released /\ pc["feeder"] \in {"idle", "timed", "done"}
    BY <1>9, <2>1 DEF AppleInv, PigHolds, Seeking, Take
  <2>3. pc["feeder"] = "timed"
    BY <2>1, <2>2 DEF FeederInv, FeederIsAwake, AppleInv, FeederCounts
  <2>4. Ended = appleIndex /\ ~dropped
    BY <2>1, <2>3 DEF AppleInv, FeederCounts
  <2>5. pc'["feeder"] = "timed_woken" /\ pc'["pig"] = "count" /\ released' = FALSE
    BY <1>1, <1>9, <2>3 DEF Take, WakeFeeder
  <2>6. Ended' = Ended
    BY <1>1, <1>3, <1>9, CaughtSum DEF Take, Ended
  <2>7. QED
    BY <1>1, <1>3, <2>4, <2>5, <2>6 DEF FeederCounts, PigHolds, Seeking
<1>10. CASE Count
  <2>1. SUFFICES ASSUME paced PROVE FeederCounts' /\ PigHolds'
    BY <1>3 DEF AppleInv
  <2>2. ~released /\ pc["feeder"] = "timed_woken" /\ ~dropped /\ Ended = appleIndex + 0
    BY <1>10, <2>1 DEF AppleInv, PigHolds, FeederCounts, Count
  <2>3. pc'["feeder"] = "timed_woken" /\ pc'["pig"] = "award" /\ released' = released
    BY <1>2, <1>10, <2>2 DEF Count
  <2>4. Ended' = Ended + 1
    <3>1. ranked[i["pig"]] \in Pigs
      BY <1>1 DEF TypeInv, Ranks, Loops, Walkers
    <3>2. TotalCaught' = TotalCaught + 1
      BY <1>1, <1>10, <3>1, CaughtSum DEF Count, Runner
    <3>3. QED
      BY <1>1, <1>3, <3>2 DEF Ended
  <2>5. QED
    BY <1>1, <1>3, <2>2, <2>3, <2>4 DEF FeederCounts, PigHolds, Seeking
<1>11. QED
  BY <1>4, <1>5, <1>6, <1>7, <1>8, <1>9, <1>10 DEF Pig

\* The feeder: it moves on to the next apple once for each that has ended.
LEMMA AppleFeederStep ==
  ASSUME PacedInv, FeederInv, AppleInv, Feeder \/ SpuriousWakeup
  PROVE  AppleInv'
<1> USE DEF At
<1>1. /\ pc \in [Threads -> AllLabels] /\ "pig" \in Threads /\ "feeder" \in Threads /\ TypeInv
      /\ TotalCaught \in Nat /\ shames \in Nat /\ appleIndex \in Nat /\ released \in BOOLEAN /\ dropped \in BOOLEAN
      /\ appleIndex <= NumApples /\ NumApples \in Nat
  BY CaughtSum, RaceSizes DEF PacedInv, TypeInv, Places, Flags, Index, Threads
<1>2. \A l : Goto("feeder", l) => pc'["feeder"] = l /\ pc'["pig"] = pc["pig"]
  BY <1>1 DEF Goto
<1>3. SUFFICES ASSUME paced PROVE FeederCounts' /\ PigHolds'
  BY <1>1, OthersMove DEF AppleInv
<1>4. pc["pig"] \in {"start", "sleep", "done"} /\ pc'["pig"] = pc["pig"]
  BY <1>1, <1>3, OthersMove DEF PigRests
<1>5. PigHolds'
  BY <1>4 DEF PigHolds, Seeking
<1>6. FeederCounts /\ Ended \in Nat
  BY <1>1, <1>3 DEF AppleInv, Ended
<1>7. UNCHANGED caught
  BY DEF Feeder, SpuriousWakeup, AwaitRelease, Woken, TimedWoken, TimesOut, AfterApple, Shame, Reset, NextApple,
         apple
<1>8. TotalCaught' = TotalCaught /\ Ended' = TotalCaught + shames'
  BY <1>1, <1>7, CaughtSum DEF Ended
<1>9. CASE SpuriousWakeup \/ Woken \/ TimedWoken
  <2>1. UNCHANGED <<released, dropped, shames, appleIndex>>
    BY <1>9 DEF SpuriousWakeup, Woken, TimedWoken, apple, feed
  <2>2. \/ pc["feeder"] = "idle" /\ pc'["feeder"] = "woken"
        \/ pc["feeder"] = "timed" /\ pc'["feeder"] = "timed_woken" /\ released
        \/ pc["feeder"] = "woken" /\ pc'["feeder"] = "timed_woken" /\ released
        \/ pc["feeder"] = "woken" /\ pc'["feeder"] = "idle"
        \/ pc["feeder"] = "timed_woken" /\ pc'["feeder"] = "timed" /\ released
        \/ pc["feeder"] = "timed_woken" /\ pc'["feeder"] = "after" /\ ~released
    BY <1>2, <1>9 DEF SpuriousWakeup, Woken, TimedWoken, FeederInv, FeederIsAwake
  <2>3. Ended' = Ended
    BY <1>8, <2>1 DEF Ended
  <2>4. QED
    BY <1>1, <1>4, <1>5, <1>6, <2>1, <2>2, <2>3 DEF FeederCounts
<1>10. CASE AwaitRelease
  <2>1. /\ pc["feeder"] = "top" /\ released' = FALSE /\ UNCHANGED <<dropped, shames, appleIndex>>
        /\ pc'["feeder"] = IF appleIndex < NumApples THEN "idle" ELSE "done"
    BY <1>2, <1>10 DEF AwaitRelease, feed
  <2>2. Ended' = Ended /\ Ended = appleIndex /\ ~dropped
    BY <1>6, <1>8, <2>1 DEF Ended, FeederCounts
  <2>3. QED
    BY <1>1, <1>5, <2>1, <2>2 DEF FeederCounts
<1>11. CASE TimesOut
  <2>1. /\ pc["feeder"] = "timed" /\ dropped' = TRUE /\ UNCHANGED <<shames, appleIndex>>
        /\ pc'["feeder"] = "after"
    BY <1>2, <1>11 DEF TimesOut
  <2>2. Ended' = Ended /\ Ended = appleIndex
    BY <1>6, <1>8, <2>1 DEF Ended, FeederCounts
  <2>3. QED
    BY <1>1, <1>5, <2>1, <2>2 DEF FeederCounts
<1>12. CASE AfterApple \/ Reset
  <2>1. /\ UNCHANGED <<dropped, shames, appleIndex>>
        /\ \/ pc["feeder"] = "after" /\ dropped /\ pc'["feeder"] = "shame"
           \/ pc["feeder"] = "after" /\ ~dropped /\ pc'["feeder"] = "advance"
           \/ pc["feeder"] = "reset" /\ pc'["feeder"] = "advance"
    BY <1>2, <1>12 DEF AfterApple, Reset, feed
  <2>2. Ended' = Ended
    BY <1>8, <2>1 DEF Ended
  <2>3. QED
    BY <1>1, <1>5, <1>6, <2>1, <2>2 DEF FeederCounts
<1>13. CASE Shame
  <2>1. /\ pc["feeder"] = "shame" /\ UNCHANGED <<dropped, appleIndex>> /\ shames' = shames + 1
        /\ pc'["feeder"] = "reset"
    BY <1>2, <1>13 DEF Shame
  <2>2. Ended' = appleIndex + 1
    BY <1>1, <1>6, <1>8, <2>1 DEF Ended, FeederCounts
  <2>3. QED
    BY <1>1, <1>5, <2>1, <2>2 DEF FeederCounts
<1>14. CASE NextApple
  <2>1. /\ pc["feeder"] = "advance" /\ UNCHANGED shames /\ appleIndex' = appleIndex + 1 /\ dropped' = FALSE
        /\ pc'["feeder"] = "top"
    BY <1>2, <1>14 DEF NextApple
  <2>2. Ended' = appleIndex'
    BY <1>1, <1>6, <1>8, <2>1 DEF Ended, FeederCounts
  <2>3. QED
    BY <1>1, <1>5, <2>1, <2>2 DEF FeederCounts
<1>15. QED
  BY <1>9, <1>10, <1>11, <1>12, <1>13, <1>14 DEF Feeder

\* The display does not touch the apples.
LEMMA AppleUserStep ==
  ASSUME TypeInv, AppleInv, Display \/ Quit \/ Go
  PROVE  AppleInv'
<1>1. pc \in [Threads -> AllLabels] /\ "pig" \in Threads /\ "feeder" \in Threads /\ "ui" \in Threads
  BY DEF TypeInv, Places, Threads
<1>2. \A l : Goto("ui", l) => pc'["pig"] = pc["pig"] /\ pc'["feeder"] = pc["feeder"]
  BY <1>1 DEF Goto
<1>3. UNCHANGED pc \/ (\E l : Goto("ui", l))
  BY DEF Display, SetStarted, Redraw, Show, RankShift, RankPlace, Shift, Place, Quit, Go
<1>4. UNCHANGED <<released, caught, dropped, shames, appleIndex, paced>>
  BY DEF Display, SetStarted, Redraw, Show, RankShift, RankPlace, Shift, Place, Quit, Go, apple, feed, game
<1>5. QED
  BY <1>2, <1>3, <1>4, AppleAside

\* AppleEndsOnce, of the pig and the feeder threads: in a paced race every apple the
\* feeder has done with was caught once or dropped once.
THEOREM RaceAppleEndsOnce == Spec => []AppleEndsOnce
<1>1. Init => AppleInv
  <2> SUFFICES ASSUME Init PROVE AppleInv
    OBVIOUS
  <2>1. pc["pig"] = "start" /\ pc["feeder"] = "top"
    BY DEF Init, Threads
  <2>2. SumFunction(caught) = 0
    <3>1. caught \in [Pigs -> Int] /\ (\A p \in Pigs : caught[p] = 0) /\ IsFiniteSet(Pigs)
      BY PigsCount DEF Init
    <3>2. QED
      BY <3>1, SumType
  <2>3. Ended = 0 /\ appleIndex = 0 /\ dropped = FALSE
    <3>1. TotalCaught = SumFunction(caught)
      BY DEF TotalCaught
    <3>2. QED
      BY <2>2, <3>1 DEF Init, Ended
  <2>4. QED
    BY <2>1, <2>3 DEF AppleInv, FeederCounts, PigHolds, Seeking
<1>2. PacedInv /\ FeederInv /\ AppleInv /\ [Next]_vars => AppleInv'
  <2> SUFFICES ASSUME PacedInv, FeederInv, AppleInv, [Next]_vars PROVE AppleInv'
    OBVIOUS
  <2>1. TypeInv
    BY DEF PacedInv
  <2>2. CASE UNCHANGED vars
    <3>1. UNCHANGED <<pc, released, caught, dropped, shames, appleIndex, paced>>
      BY <2>2 DEF vars, apple, feed, game
    <3>2. QED
      BY <2>1, <3>1, AppleAside
  <2>3. QED
    BY <2>1, <2>2, ApplePigStep, AppleFeederStep, AppleUserStep DEF Next
<1>3. FeederInv /\ [Next]_vars => FeederInv'
  <2> SUFFICES ASSUME FeederInv, [Next]_vars PROVE FeederInv'
    OBVIOUS
  <2>1. CASE UNCHANGED vars
    BY <2>1 DEF vars, apple, FeederInv, FeederIsAwake, At
  <2>2. QED
    BY <2>1, PigStep, FeederStep, UserStep DEF Next
<1>4. AppleInv => AppleEndsOnce
  <2> SUFFICES ASSUME AppleInv, paced, pc["feeder"] \in {"idle", "timed", "done"}
               PROVE  TotalCaught + shames = appleIndex
    BY DEF AppleEndsOnce
  <2>1. QED
    BY DEF AppleInv, FeederCounts, Ended
<1>5. QED
  BY <1>1, <1>2, <1>3, <1>4, FeederInit, RaceIsPaced, PTL DEF Spec

-----------------------------------------------------------------------------
(* The bonus.                                                                *)

\* The turns at full speed that a pig still has.
Spare(p) == IF bonusPig = p THEN bonus ELSE 0

\* While there are apples, a pig's turns at full speed, run and to come, are paid
\* for; the pig that is counted is the one that is awarded, and has paid by then.
Paid == \A p \in Pigs : fast[p] + Spare(p) <= Bonus * caught[p]
SameCatcher == pc["pig"] = "count" => catcher = ranked[i["pig"]]
CatcherPaid ==
  pc["pig"] = "award" /\ appleIndex < NumApples /\ catcher # Nobody =>
    fast[catcher] + Bonus <= Bonus * caught[catcher]
BonusInv == paced => (appleIndex < NumApples => Paid) /\ SameCatcher /\ CatcherPaid

\* What a catch pays for.
LEMMA CatchPays ==
  /\ \A n \in Nat : Bonus * n \in Nat /\ Bonus * (n + 1) = Bonus * n + Bonus
  /\ Bonus * 0 = 0
BY RaceSizes

\* A step that pays for nothing and runs nothing at full speed.
LEMMA BonusAside ==
  ASSUME BonusInv, UNCHANGED <<fast, award, caught, paced>>,
         paced => /\ appleIndex' < NumApples => appleIndex < NumApples
                  /\ pc'["pig"] = "count" =>
                       pc["pig"] = "count" /\ UNCHANGED <<catcher, ranked>> /\ i'["pig"] = i["pig"]
                  /\ pc'["pig"] = "award" /\ appleIndex' < NumApples =>
                       catcher' = Nobody \/ (pc["pig"] = "award" /\ UNCHANGED catcher)
  PROVE  BonusInv'
<1>1. SUFFICES ASSUME paced PROVE ((appleIndex < NumApples => Paid) /\ SameCatcher /\ CatcherPaid)'
  BY DEF BonusInv
<1>2. \A p \in Pigs : Spare(p)' = Spare(p)
  BY DEF Spare, award
<1>3. (appleIndex < NumApples => Paid)'
  BY <1>1, <1>2 DEF BonusInv, Paid
<1>4. SameCatcher'
  BY <1>1 DEF BonusInv, SameCatcher
<1>5. CatcherPaid'
  BY <1>1 DEF BonusInv, CatcherPaid
<1>6. QED
  BY <1>3, <1>4, <1>5

\* The pig thread pays a bonus for a catch and spends it a turn at a time.
LEMMA BonusPigStep ==
  ASSUME PacedInv, BonusInv, Pig
  PROVE  BonusInv'
<1> USE DEF At
<1>1. /\ pc \in [Threads -> AllLabels] /\ "pig" \in Threads /\ i["pig"] \in Pigs
      /\ ranked \in [Pigs -> Pigs] /\ caught \in [Pigs -> Nat] /\ fast \in [Pigs -> Nat]
      /\ bonus \in Nat /\ bonus <= Bonus /\ Bonus \in Nat /\ Nobody \notin Pigs
  BY RaceSizes DEF PacedInv, TypeInv, Places, Loops, Ranks, Awards, Raced, Threads, Walkers, Nobody
<1>2. \A l : Goto("pig", l) => pc'["pig"] = l
  BY <1>1 DEF Goto
<1>3. UNCHANGED <<appleIndex, paced>>
  BY PigMoves DEF PacedInv
<1>4. CASE Run \/ Rests \/ RankShift("pig") \/ RankPlace("pig") \/ FinalShift \/ FinalPlace
  <2>1. UNCHANGED <<fast, award, caught>>
    BY <1>4 DEF Run, Rests, NextRunner, RankShift, RankPlace, Shift, Place, FinalShift, FinalPlace, race, apple
  <2>2. UNCHANGED pc \/ (\E l \in {"rank", "check", "close"} : Goto("pig", l))
    BY <1>4 DEF Run, Rests, NextRunner, RankShift, RankPlace, Shift, Place, FinalShift, FinalPlace,
                AfterRank, Walkers
  <2>3. pc["pig"] \in {"run", "rank", "final"}
    BY <1>4 DEF Run, Rests, RankShift, RankPlace, FinalShift, FinalPlace
  <2>4. pc'["pig"] \notin {"count", "award"}
    BY <1>2, <2>2, <2>3
  <2>5. QED
    BY <1>3, <2>1, <2>4, BonusAside
<1>5. CASE RunFast
  <2>1. PICK p \in Pigs : p = i["pig"]
    BY <1>1
  <2>2. /\ bonusPig = p /\ bonus > 0 /\ bonus' = bonus - 1 /\ bonusPig' = p
        /\ fast' = [fast EXCEPT ![p] = fast[p] + 1] /\ UNCHANGED caught
    BY <1>5, <2>1 DEF RunFast, NextRunner, HasBonus, Runner, apple
  <2>3. pc'["pig"] \notin {"count", "award"}
    <3>1. pc["pig"] = "run" /\ (UNCHANGED pc \/ Goto("pig", "rank"))
      BY <1>5 DEF RunFast, NextRunner
    <3>2. QED
      BY <1>2, <3>1
  <2>4. Paid => Paid'
    <3>1. SUFFICES ASSUME Paid, NEW q \in Pigs
                   PROVE  fast'[q] + Spare(q)' <= Bonus * caught'[q]
      BY DEF Paid
    <3>2. fast[q] + Spare(q) <= Bonus * caught[q] /\ fast[q] \in Nat
      BY <1>1, <3>1 DEF Paid
    <3>3. CASE q = p
      <4>1. fast'[q] = fast[q] + 1 /\ Spare(q)' = Spare(q) - 1 /\ Spare(q) \in Nat
        BY <1>1, <2>2, <3>3 DEF Spare
      <4>2. fast'[q] + Spare(q)' = fast[q] + Spare(q)
        BY <3>2, <4>1
      <4>3. QED
        BY <2>2, <3>2, <4>2
    <3>4. CASE q # p
      <4>1. fast'[q] = fast[q] /\ Spare(q)' = Spare(q)
        BY <1>1, <2>2, <3>4 DEF Spare
      <4>2. QED
        BY <2>2, <3>2, <4>1
    <3>5. QED
      BY <3>3, <3>4
  <2>5. QED
    BY <1>3, <2>3, <2>4 DEF BonusInv, SameCatcher, CatcherPaid
<1>6. CASE \/ Start \/ Check \/ LeaderFar \/ LeaderNear \/ Release \/ Announce \/ Fall \/ Miss \/ Hit
           \/ NextTurn \/ Close \/ Stop
  <2>1. UNCHANGED <<fast, award, caught>>
    BY <1>6 DEF Start, Check, LeaderFar, LeaderNear, Release, Announce, Fall, Miss, Hit, NextTurn, Close, Stop,
                race, apple
  <2>2. /\ pc'["pig"] # "count"
        /\ pc'["pig"] = "award" => catcher' = Nobody \/ ~(appleIndex < NumApples)
    <3>1. CASE Release
      <4>1. WakeFeeder("announce")
        BY <3>1 DEF Release
      <4>2. QED
        BY <1>1, <4>1 DEF WakeFeeder
    <3>2. CASE ~Release
      <4>1. \/ UNCHANGED pc /\ pc["pig"] = "catch"
            \/ \E l \in {"run", "try", "release", "catch", "take", "final", "stop", "done"} : Goto("pig", l)
            \/ Goto("pig", "award") /\ (catcher' = Nobody \/ ~(appleIndex < NumApples))
        BY <1>6, <3>2 DEF Start, Check, LeaderFar, LeaderNear, Announce, Fall, Miss, Hit, NextTurn, Close,
                          Stop, NoCatch
      <4>2. QED
        BY <1>2, <4>1
    <3>3. QED
      BY <3>1, <3>2
  <2>3. QED
    BY <1>3, <2>1, <2>2, BonusAside
<1>7. CASE Take
  <2>1. UNCHANGED <<fast, award, caught, ranked, i>> /\ catcher' = ranked[i["pig"]] /\ WakeFeeder("count")
    BY <1>7 DEF Take, race, Runner
  <2>2. pc'["pig"] = "count"
    BY <1>1, <2>1 DEF WakeFeeder
  <2>3. Paid => Paid'
    BY <2>1 DEF Paid, Spare, award
  <2>4. QED
    BY <1>3, <2>1, <2>2, <2>3 DEF BonusInv, SameCatcher, CatcherPaid
<1>8. CASE Count
  <2>1. SUFFICES ASSUME paced PROVE BonusInv'
    BY <1>3 DEF BonusInv
  <2>2. PICK p \in Pigs : p = ranked[i["pig"]]
    BY <1>1
  <2>3. /\ caught' = [caught EXCEPT ![p] = caught[p] + 1] /\ UNCHANGED <<fast, award, catcher>>
        /\ pc["pig"] = "count" /\ Goto("pig", "award")
    BY <1>8, <2>2 DEF Count, Runner, race
  <2>4. catcher' = p /\ pc'["pig"] = "award"
    BY <1>2, <2>1, <2>2, <2>3 DEF BonusInv, SameCatcher
  <2>5. appleIndex < NumApples
    BY <2>1, <2>3 DEF PacedInv, Pace
  <2>6. Paid
    BY <2>1, <2>5 DEF BonusInv
  <2>7. \A q \in Pigs : Spare(q)' = Spare(q) /\ Spare(q) \in Nat
    BY <1>1, <2>3 DEF Spare, award
  <2>8. Paid'
    <3>1. SUFFICES ASSUME NEW q \in Pigs PROVE fast'[q] + Spare(q)' <= Bonus * caught'[q]
      BY DEF Paid
    <3>2. fast[q] + Spare(q) <= Bonus * caught[q] /\ fast[q] \in Nat /\ caught[q] \in Nat
      BY <1>1, <2>6 DEF Paid
    <3>3. Bonus * caught[q] <= Bonus * caught'[q] /\ Bonus * caught[q] \in Nat /\ Bonus * caught'[q] \in Nat
      <4>1. caught'[q] = caught[q] \/ caught'[q] = caught[q] + 1
        BY <1>1, <2>3
      <4>2. Bonus * caught[q] \in Nat /\ Bonus * (caught[q] + 1) = Bonus * caught[q] + Bonus
        BY <3>2, CatchPays
      <4>3. QED
        BY <1>1, <4>1, <4>2
    <3>4. QED
      BY <2>3, <2>7, <3>2, <3>3
  <2>9. fast'[p] + Bonus <= Bonus * caught'[p]
    <3>1. fast[p] + Spare(p) <= Bonus * caught[p] /\ fast[p] \in Nat /\ caught[p] \in Nat /\ Spare(p) \in Nat
      BY <1>1, <2>6, <2>7 DEF Paid
    <3>2. caught'[p] = caught[p] + 1
      BY <1>1, <2>3
    <3>3. Bonus * caught[p] \in Nat /\ Bonus * (caught[p] + 1) = Bonus * caught[p] + Bonus
      BY <3>1, CatchPays
    <3>4. QED
      BY <1>1, <2>3, <3>1, <3>2, <3>3
  <2>10. QED
    BY <2>4, <2>8, <2>9 DEF BonusInv, SameCatcher, CatcherPaid
<1>9. CASE Award
  <2>1. /\ UNCHANGED <<fast, caught, catcher>> /\ pc["pig"] = "award" /\ Goto("pig", "sleep")
        /\ IF catcher # Nobody THEN bonusPig' = catcher /\ bonus' = Bonus ELSE UNCHANGED award
    BY <1>9 DEF Award, race, apple
  <2>2. pc'["pig"] = "sleep"
    BY <1>2, <2>1
  <2>3. paced /\ appleIndex < NumApples => Paid'
    <3>1. SUFFICES ASSUME paced, appleIndex < NumApples, NEW q \in Pigs
                   PROVE  fast'[q] + Spare(q)' <= Bonus * caught'[q]
      BY DEF Paid
    <3>2. fast[q] + Spare(q) <= Bonus * caught[q] /\ fast[q] \in Nat /\ Spare(q) \in Nat
      BY <1>1, <3>1 DEF BonusInv, Paid, Spare
    <3>3. Bonus * caught[q] \in Nat
      BY <1>1, CatchPays
    <3>4. CASE catcher = Nobody
      BY <2>1, <3>2, <3>4 DEF Spare, award
    <3>5. CASE catcher # Nobody /\ q = catcher
      <4>1. fast[q] + Bonus <= Bonus * caught[q]
        BY <2>1, <3>1, <3>5 DEF BonusInv, CatcherPaid
      <4>2. QED
        BY <2>1, <3>5, <4>1 DEF Spare
    <3>6. CASE catcher # Nobody /\ q # catcher
      <4>1. Spare(q)' = 0
        BY <2>1, <3>6 DEF Spare
      <4>2. fast[q] + 0 <= Bonus * caught[q]
        BY <3>2, <3>3
      <4>3. QED
        BY <2>1, <4>1, <4>2
    <3>7. QED
      BY <3>4, <3>5, <3>6
  <2>4. QED
    BY <1>3, <2>2, <2>3 DEF BonusInv, SameCatcher, CatcherPaid
<1>10. QED
  BY <1>4, <1>5, <1>6, <1>7, <1>8, <1>9 DEF Pig

\* The others pay for nothing, and the index they read only grows.
LEMMA BonusOthersStep ==
  ASSUME PacedInv, BonusInv, Feeder \/ SpuriousWakeup \/ Display \/ Quit \/ Go
  PROVE  BonusInv'
<1>1. TypeInv /\ appleIndex \in Nat /\ NumApples \in Nat
  BY RaceSizes DEF PacedInv, TypeInv, Index
<1>2. pc'["pig"] = pc["pig"] /\ UNCHANGED paced /\ (paced => PigRests)
  BY <1>1, OthersMove
<1>3. UNCHANGED <<fast, award, caught>>
  BY DEF Feeder, SpuriousWakeup, AwaitRelease, Woken, TimedWoken, TimesOut, AfterApple, Shame, Reset, NextApple,
         Display, SetStarted, Redraw, Show, RankShift, RankPlace, Shift, Place, Quit, Go, race, apple
<1>4. appleIndex' = appleIndex \/ appleIndex' = appleIndex + 1
  BY DEF Feeder, SpuriousWakeup, AwaitRelease, Woken, TimedWoken, TimesOut, AfterApple, Shame, Reset, NextApple,
         Display, SetStarted, Redraw, Show, RankShift, RankPlace, Shift, Place, Quit, Go, feed
<1>5. appleIndex' < NumApples => appleIndex < NumApples
  BY <1>1, <1>4
<1>6. QED
  BY <1>2, <1>3, <1>5, BonusAside DEF PigRests

\* BonusIsEarned, of the bonus in the pig thread: in a paced race, as long as there
\* are apples, no pig runs more turns at full speed than it has caught apples for.
THEOREM RaceBonusIsEarned == Spec => []BonusIsEarned
<1>1. Init => BonusInv
  <2> SUFFICES ASSUME Init PROVE BonusInv
    OBVIOUS
  <2>1. pc["pig"] = "start"
    BY DEF Init, Threads
  <2>2. Paid
    <3>1. SUFFICES ASSUME NEW p \in Pigs PROVE fast[p] + Spare(p) <= Bonus * caught[p]
      BY DEF Paid
    <3>2. fast[p] = 0 /\ Spare(p) = 0 /\ caught[p] = 0
      BY DEF Init, Spare
    <3>3. QED
      BY <3>2, CatchPays
  <2>3. QED
    BY <2>1, <2>2 DEF BonusInv, SameCatcher, CatcherPaid
<1>2. PacedInv /\ BonusInv /\ [Next]_vars => BonusInv'
  <2> SUFFICES ASSUME PacedInv, BonusInv, [Next]_vars PROVE BonusInv'
    OBVIOUS
  <2>1. CASE UNCHANGED vars
    <3>1. UNCHANGED <<pc, i, ranked, fast, award, caught, catcher, appleIndex, paced>>
      BY <2>1 DEF vars, race, apple, feed, game
    <3>2. QED
      BY <3>1, BonusAside
  <2>2. QED
    BY <2>1, BonusPigStep, BonusOthersStep DEF Next
<1>3. PacedInv /\ BonusInv => BonusIsEarned
  <2> SUFFICES ASSUME PacedInv, BonusInv, paced, appleIndex < NumApples, NEW p \in Pigs
               PROVE  fast[p] <= Bonus * caught[p]
    BY DEF BonusIsEarned
  <2>1. fast[p] + Spare(p) <= Bonus * caught[p]
    BY DEF BonusInv, Paid
  <2>2. fast[p] \in Nat /\ Spare(p) \in Nat /\ caught[p] \in Nat
    BY DEF PacedInv, TypeInv, Raced, Awards, Spare
  <2>3. Bonus * caught[p] \in Nat
    BY <2>2, CatchPays
  <2>4. QED
    BY <2>1, <2>2, <2>3
<1>4. QED
  BY <1>1, <1>2, <1>3, RaceIsPaced, PTL DEF Spec
===============================================================================
