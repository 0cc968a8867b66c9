------------------------------ MODULE HashTable ------------------------------
(***************************************************************************)
(* hashtable.c and the hashit shell: open addressing.  Every look up seeds  *)
(* rand() with the same number, so the probes of a key are one fixed walk   *)
(* over the buckets, and it ends at a bucket that never held an entry.      *)
(* time33 hashes the whole key; compare looks at its first four bytes.      *)
(***************************************************************************)
EXTENDS Integers, FiniteSetsExt

CONSTANTS
  HtKeys,
  HtData,
  NumBuckets,  \* NUM_BUCKETS, 20 in the code
  Hash,        \* time33 of each key
  FourBytes,   \* what compare sees of each key
  Step,        \* Step[i]: the (i+1)st number of rand(), modulo NumBuckets
  Limit,       \* probes before giving up, 100 * NUM_BUCKETS in the code
  NumWrap,     \* num_data is unsigned, modulo NumWrap (2^32 in the code)
  NoData

Buckets == 0..(NumBuckets - 1)

ASSUME HashAssumption ==
  /\ NumBuckets \in Nat \ {0}
  /\ Hash \in [HtKeys -> Buckets]
  /\ DOMAIN FourBytes = HtKeys
  /\ Limit \in Nat /\ DOMAIN Step = 0..Limit /\ \A i \in DOMAIN Step : Step[i] \in Buckets
  /\ NoData \notin HtKeys \cup HtData
  /\ NumWrap \in Nat /\ NumBuckets < NumWrap

VARIABLES
  ht,       \* ht[i]: the bucket: key, data, vacated
  numData,
  htRuns,   \* the shell runs; otherwise a NULL bucket was dereferenced
  stored,   \* history: the key and data each class of equal keys was given last
  counted   \* history: the table was created with a num_data of at most NumBuckets

htVars == <<ht, numData, htRuns, stored, counted>>

Empty == [key |-> NoData, data |-> NoData, vacated |-> FALSE]
Classes == {FourBytes[k] : k \in HtKeys}

\* HT_create leaves in num_data whatever malloc's memory held.
HtInit ==
  /\ ht = [i \in Buckets |-> Empty]
  /\ numData \in 0..(NumWrap - 1)
  /\ htRuns = TRUE
  /\ stored = [c \in Classes |-> <<>>]
  /\ counted = (numData <= NumBuckets)

Taken(i) == ht[i].data # NoData
Matches(i, k) == Taken(i) /\ ~ht[i].vacated /\ FourBytes[ht[i].key] = FourBytes[k]

\* Walk[k][n]: the bucket after n probes.
Walk ==
  [k \in HtKeys |->
     LET walk[n \in 0..Limit] ==
           IF n = 0 THEN Hash[k] ELSE (walk[n - 1] + Step[n - 1]) % NumBuckets
     IN  [n \in 0..Limit |-> walk[n]]]

\* ht_lookup: the walk stops at the key or at a bucket never used; after Limit
\* probes it gives up, even when a vacated bucket was seen: NoBucket is NULL.
NoBucket == NumBuckets
Ends(k) == {n \in 0..Limit : Matches(Walk[k][n], k) \/ ht[Walk[k][n]] = Empty}
Probes(k) == IF Ends(k) = {} THEN Limit ELSE Min(Ends(k))
HtFind(k) ==
  LET walk == Walk[k]
      last == walk[Probes(k)]
      seen == {n \in 0..(Probes(k) - 1) : ht[walk[n]].vacated}
  IN  IF Ends(k) = {} THEN NoBucket
      ELSE IF seen # {} /\ ~Matches(last, k) THEN walk[Min(seen)]
      ELSE last

Found(i) == i # NoBucket /\ Taken(i) /\ ~ht[i].vacated

\* num_data++ and num_data--.
OneUp == (numData + 1) % NumWrap
OneDown == (numData + NumWrap - 1) % NumWrap

\* A full table is told by num_data being NumBuckets, which one that started
\* above may never be; an overwritten entry is counted again.
HtInsert(k, d) ==
  /\ htRuns
  /\ IF numData = NumBuckets \/ Probes(k) = Limit
     THEN UNCHANGED <<ht, numData, stored>>
     ELSE /\ ht' = [ht EXCEPT ![HtFind(k)] = [key |-> k, data |-> d, vacated |-> FALSE]]
          /\ numData' = OneUp
          /\ stored' = [stored EXCEPT ![FourBytes[k]] = <<k, d>>]
  /\ UNCHANGED <<htRuns, counted>>

\* HT_lookup and HT_remove read the bucket they are given, NULL included.
HtLookup(k) ==
  /\ htRuns
  /\ htRuns' = (HtFind(k) # NoBucket)
  /\ UNCHANGED <<ht, numData, stored, counted>>

\* Fault: a removed entry leaves a bucket that looks never used.
HtRemoveClean(k) ==
  LET i == HtFind(k) IN
  /\ htRuns
  /\ htRuns' = (i # NoBucket)
  /\ IF Found(i)
     THEN /\ ht' = [ht EXCEPT ![i] = Empty]
          /\ numData' = OneDown
          /\ stored' = [stored EXCEPT ![FourBytes[k]] = <<>>]
     ELSE UNCHANGED <<ht, numData, stored>>
  /\ UNCHANGED counted
\* Fault: a key that is not there is counted off.
HtRemoveCounted(k) ==
  LET i == HtFind(k) IN
  /\ htRuns
  /\ htRuns' = (i # NoBucket)
  /\ numData' = OneDown
  /\ IF Found(i)
     THEN /\ ht' = [ht EXCEPT ![i] = [Empty EXCEPT !.vacated = TRUE]]
          /\ stored' = [stored EXCEPT ![FourBytes[k]] = <<>>]
     ELSE UNCHANGED <<ht, stored>>
  /\ UNCHANGED counted
HtRemove(k) ==
  LET i == HtFind(k) IN
  /\ htRuns
  /\ htRuns' = (i # NoBucket)
  /\ IF Found(i)
     THEN /\ ht' = [ht EXCEPT ![i] = [Empty EXCEPT !.vacated = TRUE]]
          /\ numData' = OneDown
          /\ stored' = [stored EXCEPT ![FourBytes[k]] = <<>>]
     ELSE UNCHANGED <<ht, numData, stored>>
  /\ UNCHANGED counted

\* create again: the old table is forgotten.  destroy changes nothing: it calls
\* the callback of the shell, which is empty, and keeps the buckets.
HtCreate ==
  /\ htRuns
  /\ ht' = [i \in Buckets |-> Empty]
  /\ numData' \in 0..(NumWrap - 1)
  /\ stored' = [c \in Classes |-> <<>>]
  /\ counted' = (numData' <= NumBuckets)
  /\ UNCHANGED htRuns

HtNext ==
  \/ HtCreate
  \/ \E k \in HtKeys :
       HtLookup(k) \/ HtRemove(k) \/ \E d \in HtData : HtInsert(k, d)

HtSpec == HtInit /\ [][HtNext]_htVars

-----------------------------------------------------------------------------
(* Properties                                                               *)

OnlyOfClass(k) == \A other \in HtKeys \ {k} : FourBytes[other] # FourBytes[k]

\* What was inserted is found, with its data, whatever was inserted or removed
\* on its walk since; what was removed is not.
FindsStored ==
  htRuns => \A k \in HtKeys :
    LET last == stored[FourBytes[k]] IN
    /\ (last # <<>> /\ last[1] = k) => Found(HtFind(k)) /\ ht[HtFind(k)].data = last[2]
    /\ (last = <<>> /\ OnlyOfClass(k)) => ~Found(HtFind(k))

\* The probes of every key come to every bucket before they give up.
WalksEverywhere == \A k \in HtKeys, i \in Buckets : \E n \in 0..Limit : Walk[k][n] = i

\* Where num_data started at most at NumBuckets it stays there and is never
\* below the entries, though overwriting counts twice: a full table is refused
\* before it is walked.  Where it started above it wraps, and tells nothing.
\* In either case a look up follows NULL only when no bucket is left that was
\* never used.
CountCoversEntries ==
  /\ counted => numData \in Quantify(Buckets, LAMBDA i : Taken(i))..NumBuckets
  /\ ~htRuns => \A i \in Buckets : ht[i] # Empty

=============================================================================
