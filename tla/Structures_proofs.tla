-------------------------- MODULE Structures_proofs --------------------------
(***************************************************************************)
(* Proofs about the memory pool, the linked list and the hash table, for    *)
(* any number and size of banks, any data, any number of buckets, any hash  *)
(* and any sequence of probes.                                              *)
(***************************************************************************)
EXTENDS LinkedList, MemPool, HashTable, DataLemmas

-----------------------------------------------------------------------------
(* The memory pool.                                                          *)

Pieces == [unit : 0 .. MaxSize, id : Nat]
Handed == [piece : Pieces, size : Banks]

PoolTyped ==
  /\ available \in [Banks -> Seq(Pieces)] /\ out \subseteq Handed /\ made \in Nat

\* A piece was made, and the next ones are not there yet.
Made ==
  /\ \A i \in Banks : \A piece \in Free(i) : piece.id <= made
  /\ \A p \in out : p.piece.id <= made

\* A piece handed out with the size of a bank in use is as long as that bank's:
\* it is one of them again when it is freed.
Returnable == \A p \in out : p.size >= MinUnit => p.piece.unit = p.size

PoolInv == PoolTyped /\ Made /\ Returnable /\ PiecesAreSound

\* The least bank in use and size 0 are banks.
LEMMA BankNumbers ==
  /\ MaxSize \in Nat /\ MinUnit \in Banks /\ 0 \in Banks /\ MinUnit > 0 /\ PerBank \in Nat \ {0}
  /\ \A i \in Banks : i \in 0 .. MaxSize /\ i \in Nat
BY PoolAssumption DEF Banks

\* A bank is given other free pieces, of its length, that no other bank has and
\* none holds, while pieces in use go or come that are free nowhere.
LEMMA BankChanges ==
  ASSUME PoolInv, NEW i \in Banks, NEW l \in Seq(Pieces), IsInjective(l),
         available' = [available EXCEPT ![i] = l], made' \in Nat, made <= made',
         out' \subseteq Handed,
         \A piece \in ToSet(l) : piece.id <= made' /\ (i >= MinUnit => piece.unit = i),
         \A j \in Banks : j # i => ToSet(l) \cap Free(j) = {},
         \A p \in out' :
           /\ p.piece.id <= made' /\ p.piece.unit >= p.size
           /\ p.size >= MinUnit => p.piece.unit = p.size
           /\ p.piece \notin ToSet(l) /\ \A j \in Banks : j # i => p.piece \notin Free(j),
         \A p, q \in out' : p.piece = q.piece => p = q
  PROVE  PoolInv'
<1>1. available \in [Banks -> Seq(Pieces)] /\ made \in Nat
  BY DEF PoolInv, PoolTyped
<1>2. /\ available' \in [Banks -> Seq(Pieces)] /\ available'[i] = l
      /\ \A j \in Banks : j # i => available'[j] = available[j]
  BY <1>1
<1>3. Free(i)' = ToSet(l) /\ \A j \in Banks : j # i => Free(j)' = Free(j)
  BY <1>2 DEF Free
<1>4. \A j \in Banks : Free(j) \subseteq Pieces
  BY <1>1 DEF Free, ToSet
<1>5. PoolTyped'
  BY <1>2 DEF PoolTyped
<1>6. Made'
  <2>1. ASSUME NEW j \in Banks, NEW piece \in Free(j)' PROVE piece.id <= made'
    <3>1. CASE j = i
      BY <1>3, <2>1, <3>1
    <3>2. CASE j # i
      <4>1. piece \in Free(j)
        BY <1>3, <2>1, <3>2
      <4>2. piece.id <= made /\ piece.id \in Nat
        BY <1>4, <4>1 DEF PoolInv, Made, Pieces
      <4>3. QED
        BY <1>1, <4>2
    <3>3. QED
      BY <3>1, <3>2
  <2>2. QED
    BY <2>1 DEF Made
<1>7. Returnable'
  BY DEF Returnable
<1>8. PiecesAreSound'
  <2>1. \A j \in Banks : IsInjective(available'[j])
    BY <1>2 DEF PoolInv, PiecesAreSound
  <2>2. ASSUME NEW j \in Banks, NEW k \in Banks, j # k PROVE Free(j)' \cap Free(k)' = {}
    BY <1>3, <2>2 DEF PoolInv, PiecesAreSound
  <2>3. ASSUME NEW j \in Banks, NEW p \in out' PROVE p.piece \notin Free(j)'
    BY <1>3
  <2>4. AllFree' \cap InUse' = {}
    BY <2>3 DEF AllFree, InUse
  <2>5. ASSUME NEW j \in Banks, j >= MinUnit, NEW piece \in Free(j)' PROVE piece.unit = j
    BY <1>3, <2>5 DEF PoolInv, PiecesAreSound
  <2>6. \A p, q \in out' : p.piece = q.piece => p = q
    OBVIOUS
  <2>7. \A p \in out' : p.piece.unit >= p.size
    OBVIOUS
  <2>8. QED
    BY <2>1, <2>2, <2>4, <2>5, <2>6, <2>7 DEF PiecesAreSound
<1>9. QED
  BY <1>5, <1>6, <1>7, <1>8 DEF PoolInv

\* What is handed out comes from the front of pieces that are the bank's own or
\* new.
LEMMA TakeKeeps ==
  ASSUME PoolInv, NEW i \in Banks, i >= MinUnit, NEW pieces \in Seq(Pieces), pieces # <<>>,
         IsInjective(pieces), NEW size \in Banks, size <= i, size >= MinUnit => size = i,
         Take(i, pieces, size), made' \in Nat, made <= made',
         \A piece \in ToSet(pieces) : piece.id <= made' /\ piece.unit = i,
         \A j \in Banks : j # i => ToSet(pieces) \cap Free(j) = {},
         \A p \in out : p.piece \notin ToSet(pieces)
  PROVE  PoolInv'
<1> DEFINE l == Tail(pieces)
           new == [piece |-> Head(pieces), size |-> size]
<1>1. /\ l \in Seq(Pieces) /\ Head(pieces) \in Pieces /\ Head(pieces) = pieces[1] /\ 1 \in DOMAIN pieces
      /\ DOMAIN l = 1 .. (Len(pieces) - 1) /\ Len(pieces) \in Nat /\ DOMAIN pieces = 1 .. Len(pieces)
      /\ \A n \in 1 .. (Len(pieces) - 1) : l[n] = pieces[n + 1]
  OBVIOUS
<1>2. available' = [available EXCEPT ![i] = l] /\ out' = out \cup {new}
  BY DEF Take
<1> HIDE DEF l
<1>3. Head(pieces) \in ToSet(pieces)
  BY <1>1 DEF ToSet
<1>4. \A n \in DOMAIN l : n + 1 \in DOMAIN pieces /\ l[n] = pieces[n + 1] /\ n + 1 # 1
  BY <1>1
<1>5. ToSet(l) \subseteq ToSet(pieces)
  BY <1>4 DEF ToSet
<1>6. IsInjective(l) /\ Head(pieces) \notin ToSet(l)
  <2>1. \A m, n \in DOMAIN pieces : pieces[m] = pieces[n] => m = n
    BY DEF IsInjective
  <2>2. ASSUME NEW m \in DOMAIN l, NEW n \in DOMAIN l, l[m] = l[n] PROVE m = n
    <3>1. m + 1 = n + 1 /\ m \in Nat /\ n \in Nat
      BY <1>1, <1>4, <2>1, <2>2
    <3>2. QED
      BY <3>1
  <2>3. \A n \in DOMAIN l : l[n] # pieces[1]
    BY <1>1, <1>4, <2>1
  <2>4. QED
    BY <1>1, <2>2, <2>3 DEF IsInjective, ToSet
<1>7. new \in Handed /\ new.piece = Head(pieces) /\ new.size = size
  BY <1>1 DEF Handed
<1> HIDE DEF new
<1>8. out \subseteq Handed /\ made \in Nat
  BY DEF PoolInv, PoolTyped
<1>9. ASSUME NEW p \in out'
      PROVE  /\ p.piece.id <= made' /\ p.piece.unit >= p.size
             /\ p.size >= MinUnit => p.piece.unit = p.size
             /\ p.piece \notin ToSet(l) /\ \A j \in Banks : j # i => p.piece \notin Free(j)
  <2>1. CASE p = new
    <3>1. new.piece.id <= made' /\ new.piece.unit = i
      BY <1>3, <1>7
    <3>2. new.piece.unit >= new.size /\ (new.size >= MinUnit => new.piece.unit = new.size)
      BY <1>7, <3>1, BankNumbers
    <3>3. new.piece \notin ToSet(l) /\ \A j \in Banks : j # i => new.piece \notin Free(j)
      BY <1>3, <1>6, <1>7
    <3>4. QED
      BY <2>1, <3>1, <3>2, <3>3
  <2>2. CASE p \in out
    <3>1. /\ p.piece.id <= made /\ p.piece.unit >= p.size
          /\ p.size >= MinUnit => p.piece.unit = p.size
      BY <2>2 DEF PoolInv, Made, Returnable, PiecesAreSound
    <3>2. \A j \in Banks : p.piece \notin Free(j)
      BY <2>2 DEF PoolInv, PiecesAreSound, AllFree, InUse
    <3>3. p.piece.id \in Nat
      BY <1>8, <2>2 DEF Handed, Pieces
    <3>4. p.piece.id <= made'
      BY <1>8, <3>1, <3>3
    <3>5. QED
      BY <1>5, <2>2, <3>1, <3>2, <3>4
  <2>3. QED
    BY <1>2, <2>1, <2>2
<1>10. \A p, q \in out' : p.piece = q.piece => p = q
  <2>1. \A p \in out : p.piece # new.piece
    BY <1>3, <1>7
  <2>2. \A p, q \in out : p.piece = q.piece => p = q
    BY DEF PoolInv, PiecesAreSound
  <2>3. QED
    BY <1>2, <2>1, <2>2
<1>11. out' \subseteq Handed
  BY <1>2, <1>7, <1>8
<1>12. \A piece \in ToSet(l) : piece.id <= made' /\ (i >= MinUnit => piece.unit = i)
  BY <1>5
<1>13. \A j \in Banks : j # i => ToSet(l) \cap Free(j) = {}
  BY <1>5
<1>14. QED
  BY <1>1, <1>2, <1>6, <1>9, <1>10, <1>11, <1>12, <1>13, BankChanges

\* Only these three are told apart.
LEMMA PoolStays == PoolInv /\ UNCHANGED <<available, out, made>> => PoolInv'
<1> SUFFICES ASSUME PoolInv, UNCHANGED <<available, out, made>> PROVE PoolInv'
  OBVIOUS
<1>1. PoolTyped' /\ Made' /\ Returnable'
  BY DEF PoolInv, PoolTyped, Made, Returnable, Free
<1>2. (\A i \in Banks : Free(i)' = Free(i)) /\ InUse' = InUse
  BY DEF Free, InUse
<1>3. AllFree' = AllFree
  BY <1>2 DEF AllFree
<1>4. PiecesAreSound'
  BY <1>2, <1>3 DEF PoolInv, PiecesAreSound
<1>5. QED
  BY <1>1, <1>4 DEF PoolInv

\* Growing and handing out, from a bank or from malloc.
LEMMA MemAllocKeeps ==
  ASSUME PoolInv, NEW asked \in 1 .. MaxSize, MemAlloc(asked)
  PROVE  PoolInv'
<1> DEFINE size == asked + 1
           i == BankOf(size)
<1>1. available \in [Banks -> Seq(Pieces)] /\ out \subseteq Handed /\ made \in Nat
  BY DEF PoolInv, PoolTyped
<1>2. ASSUME size <= MaxSize, i \in Banks
      PROVE  /\ i >= MinUnit /\ size \in Banks /\ size <= i /\ (size >= MinUnit => size = i)
             /\ i \in 0 .. MaxSize
  BY <1>2, BankNumbers DEF BankOf, Banks
<1>3. CASE size > MaxSize
  <2> DEFINE new == [piece |-> Piece(NoBank, made + 1), size |-> 0]
  <2>1. out' = out \cup {new} /\ made' = made + 1 /\ UNCHANGED available
    BY <1>3 DEF MemAlloc, Big
  <2>2. /\ new \in Handed /\ new.piece.id = made + 1 /\ new.piece.unit = MaxSize /\ new.size = 0
    BY <1>1, BankNumbers DEF Handed, Pieces, Piece, NoBank
  <2> HIDE DEF new
  <2>3. \A j \in Banks : \A piece \in Free(j) : piece.id # made + 1
    <3>1. ASSUME NEW j \in Banks, NEW piece \in Free(j) PROVE piece.id # made + 1
      <4>1. piece \in Pieces /\ piece.id <= made
        BY <1>1 DEF PoolInv, Made, Free, ToSet
      <4>2. QED
        BY <1>1, <4>1 DEF Pieces
    <3>2. QED
      BY <3>1
  <2>4. \A p \in out : p.piece.id # made + 1 /\ p.piece.id <= made + 1
    <3>1. ASSUME NEW p \in out PROVE p.piece.id # made + 1 /\ p.piece.id <= made + 1
      <4>1. p.piece.id \in Nat /\ p.piece.id <= made
        BY <1>1 DEF PoolInv, Made, Handed, Pieces
      <4>2. QED
        BY <1>1, <4>1
    <3>2. QED
      BY <3>1
  <2> DEFINE l == available[0]
  <2>5. 0 \in Banks /\ l \in Seq(Pieces) /\ ToSet(l) = Free(0) /\ IsInjective(l)
    BY <1>1, BankNumbers DEF PoolInv, PiecesAreSound, Free
  <2>6. available' = [available EXCEPT ![0] = l]
    BY <1>1, <2>1, <2>5
  <2> HIDE DEF l
  <2>7. \A piece \in ToSet(l) : piece.id <= made' /\ (0 >= MinUnit => piece.unit = 0)
    <3>1. ASSUME NEW piece \in Free(0) PROVE piece.id <= made'
      <4>1. piece \in Pieces /\ piece.id <= made
        BY <1>1, <2>5 DEF PoolInv, Made, Free, ToSet
      <4>2. QED
        BY <1>1, <2>1, <4>1 DEF Pieces
    <3>2. ~(0 >= MinUnit)
      BY BankNumbers DEF Banks
    <3>3. QED
      BY <2>5, <3>1, <3>2
  <2>8. \A j \in Banks : j # 0 => ToSet(l) \cap Free(j) = {}
    BY <2>5 DEF PoolInv, PiecesAreSound
  <2>9. ASSUME NEW p \in out'
        PROVE  /\ p.piece.id <= made' /\ p.piece.unit >= p.size
               /\ p.size >= MinUnit => p.piece.unit = p.size
               /\ p.piece \notin ToSet(l) /\ \A j \in Banks : j # 0 => p.piece \notin Free(j)
    <3>1. CASE p = new
      <4>1. p.piece.id <= made'
        BY <1>1, <2>1, <2>2, <3>1
      <4>2. p.piece.unit >= p.size /\ ~(p.size >= MinUnit)
        BY <2>2, <3>1, BankNumbers DEF Banks
      <4>3. p.piece \notin ToSet(l) /\ \A j \in Banks : p.piece \notin Free(j)
        BY <2>2, <2>3, <2>5, <3>1
      <4>4. QED
        BY <4>1, <4>2, <4>3
    <3>2. CASE p \in out
      <4>1. p.piece.unit >= p.size /\ (p.size >= MinUnit => p.piece.unit = p.size)
        BY <3>2 DEF PoolInv, Returnable, PiecesAreSound
      <4>2. \A j \in Banks : p.piece \notin Free(j)
        BY <3>2 DEF PoolInv, PiecesAreSound, AllFree, InUse
      <4>3. QED
        BY <2>1, <2>4, <2>5, <3>2, <4>1, <4>2
    <3>3. QED
      BY <2>1, <3>1, <3>2
  <2>10. \A p, q \in out' : p.piece = q.piece => p = q
    <3>1. \A p \in out : p.piece # new.piece
      BY <2>2, <2>4
    <3>2. \A p, q \in out : p.piece = q.piece => p = q
      BY DEF PoolInv, PiecesAreSound
    <3>3. QED
      BY <2>1, <3>1, <3>2
  <2>11. made' \in Nat /\ made <= made' /\ out' \subseteq Handed
    BY <1>1, <2>1, <2>2
  <2>12. QED
    BY <2>5, <2>6, <2>7, <2>8, <2>9, <2>10, <2>11, BankChanges
<1>4. CASE size <= MaxSize /\ i \in Banks /\ available[i] # <<>> /\ Take(i, available[i], size)
           /\ UNCHANGED made
  <2> DEFINE l == available[i]
  <2>1. l \in Seq(Pieces) /\ ToSet(l) = Free(i) /\ IsInjective(l) /\ l # <<>>
    BY <1>1, <1>4 DEF PoolInv, PiecesAreSound, Free
  <2>2. \A piece \in ToSet(l) : piece.id <= made' /\ piece.unit = i
    BY <1>2, <1>4, <2>1 DEF PoolInv, Made, PiecesAreSound
  <2>3. \A j \in Banks : j # i => ToSet(l) \cap Free(j) = {}
    BY <1>4, <2>1 DEF PoolInv, PiecesAreSound
  <2>4. \A p \in out : p.piece \notin ToSet(l)
    BY <1>4, <2>1 DEF PoolInv, PiecesAreSound, AllFree, InUse
  <2>5. Take(i, l, size) /\ made' \in Nat /\ made <= made'
    BY <1>1, <1>4
  <2> HIDE DEF l, i, size
  <2>6. QED
    BY <1>2, <1>4, <2>1, <2>2, <2>3, <2>4, <2>5, TakeKeeps
<1>5. CASE size <= MaxSize /\ i \in Banks /\ Grow(i, size)
  <2> DEFINE l == NewPieces(i)
  <2>1. Take(i, l, size) /\ made' = made + PerBank /\ made' \in Nat /\ made <= made'
    BY <1>1, <1>5, BankNumbers DEF Grow
  <2>2. /\ DOMAIN l = 1 .. PerBank /\ 1 \in DOMAIN l
        /\ \A n \in 1 .. PerBank : l[n].unit = i /\ l[n].id = made + n /\ l[n] \in Pieces
    BY <1>1, <1>2, <1>5, BankNumbers DEF NewPieces, Piece, Pieces
  <2>3. l \in Seq(Pieces) /\ l # <<>>
    <3>1. l \in [1 .. PerBank -> Pieces]
      BY <2>2 DEF NewPieces
    <3> HIDE DEF l
    <3>2. QED
      BY <2>2, <3>1, BankNumbers
  <2> HIDE DEF l
  <2>4. \A n \in 1 .. PerBank : l[n].id \in Nat /\ l[n].id > made /\ l[n].id <= made'
    BY <1>1, <2>1, <2>2, BankNumbers
  <2>5. IsInjective(l)
    <3>1. ASSUME NEW m \in DOMAIN l, NEW n \in DOMAIN l, l[m] = l[n] PROVE m = n
      <4>1. made + m = made + n /\ m \in Nat /\ n \in Nat
        BY <2>2, <3>1, BankNumbers
      <4>2. QED
        BY <1>1, <4>1
    <3>2. QED
      BY <3>1 DEF IsInjective
  <2>6. \A piece \in ToSet(l) : piece.id <= made' /\ piece.unit = i /\ piece.id \in Nat /\ piece.id > made
    BY <2>2, <2>4 DEF ToSet
  <2>7. \A j \in Banks : ToSet(l) \cap Free(j) = {}
    <3>1. ASSUME NEW j \in Banks, NEW piece \in Free(j) PROVE piece \notin ToSet(l)
      <4>1. piece.id <= made
        BY DEF PoolInv, Made
      <4>2. QED
        BY <1>1, <2>6, <4>1
    <3>2. QED
      BY <3>1
  <2>8. \A p \in out : p.piece \notin ToSet(l)
    <3>1. ASSUME NEW p \in out PROVE p.piece \notin ToSet(l)
      <4>1. p.piece.id <= made
        BY DEF PoolInv, Made
      <4>2. QED
        BY <1>1, <2>6, <4>1
    <3>2. QED
      BY <3>1
  <2> HIDE DEF i, size
  <2>9. QED
    BY <1>2, <1>5, <2>1, <2>3, <2>5, <2>6, <2>7, <2>8, TakeKeeps
<1>6. CASE UNCHANGED <<available, out, made>>
  BY <1>6, PoolStays
<1>7. QED
  BY <1>3, <1>4, <1>5, <1>6, BankNumbers DEF MemAlloc, GrowFails

\* A freed piece is one of the bank that its byte tells, in front.
LEMMA MemFreeKeeps ==
  ASSUME PoolInv, NEW p \in out, MemFree(p)
  PROVE  PoolInv'
<1> DEFINE i == p.size
           l == <<p.piece>> \o available[i]
<1>1. /\ available \in [Banks -> Seq(Pieces)] /\ out \subseteq Handed /\ made \in Nat
      /\ i \in Banks /\ p.piece \in Pieces /\ available[i] \in Seq(Pieces)
  BY DEF PoolInv, PoolTyped, Handed
<1>2. available' = [available EXCEPT ![i] = l] /\ out' = out \ {p} /\ made' = made
  BY <1>1 DEF MemFree
<1>3. \A j \in Banks : p.piece \notin Free(j)
  BY DEF PoolInv, PiecesAreSound, AllFree, InUse
<1>4. l \in Seq(Pieces) /\ ToSet(l) = Free(i) \cup {p.piece}
  <2>1. l \in Seq(Pieces)
    BY <1>1
  <2>2. Len(l) = Len(available[i]) + 1 /\ l[1] = p.piece
        /\ \A n \in 1 .. Len(available[i]) : l[n + 1] = available[i][n]
    BY <1>1
  <2> HIDE DEF l
  <2>3. available[i] \in Seq(Pieces)
    BY <1>1
  <2>4. ToSet(l) = ToSet(available[i]) \cup {p.piece}
    <3>1. PICK a \in Seq(Pieces) : a = available[i]
      BY <2>3
    <3> HIDE DEF i
    <3>2. Len(l) = Len(a) + 1 /\ l[1] = p.piece /\ \A n \in 1 .. Len(a) : l[n + 1] = a[n]
      BY <2>2, <3>1
    <3>3. ToSet(l) = ToSet(a) \cup {p.piece}
      BY <2>1, <3>2, ElementsOfPrepend
    <3>4. QED
      BY <3>1, <3>3
  <2>5. QED
    BY <2>1, <2>4 DEF Free
<1>5. IsInjective(l)
  <2>1. /\ DOMAIN l = 1 .. (Len(available[i]) + 1) /\ l[1] = p.piece /\ Len(available[i]) \in Nat
        /\ \A n \in 2 .. (Len(available[i]) + 1) :
             n - 1 \in DOMAIN available[i] /\ l[n] = available[i][n - 1]
    BY <1>1
  <2> HIDE DEF l
  <2>2. \A n \in DOMAIN available[i] : available[i][n] # p.piece
    BY <1>1, <1>3 DEF Free, ToSet
  <2>3. \A m, n \in DOMAIN available[i] : available[i][m] = available[i][n] => m = n
    BY <1>1 DEF PoolInv, PiecesAreSound, IsInjective
  <2>4. ASSUME NEW m \in DOMAIN l, NEW n \in DOMAIN l, l[m] = l[n] PROVE m = n
    <3>1. \A x \in DOMAIN l : x = 1 \/ x \in 2 .. (Len(available[i]) + 1)
      BY <2>1
    <3>2. CASE m = 1 \/ n = 1
      BY <2>1, <2>2, <2>4, <3>1, <3>2
    <3>3. CASE m # 1 /\ n # 1
      <4>1. m - 1 = n - 1
        BY <2>1, <2>3, <2>4, <3>1, <3>3
      <4>2. QED
        BY <2>1, <4>1
    <3>4. QED
      BY <3>2, <3>3
  <2>5. QED
    BY <2>4 DEF IsInjective
<1> HIDE DEF l, i
<1>6. \A piece \in ToSet(l) : piece.id <= made' /\ (i >= MinUnit => piece.unit = i)
  BY <1>1, <1>2, <1>4 DEF PoolInv, Made, Returnable, PiecesAreSound, i
<1>7. \A j \in Banks : j # i => ToSet(l) \cap Free(j) = {}
  BY <1>1, <1>3, <1>4 DEF PoolInv, PiecesAreSound
<1>8. ASSUME NEW q \in out'
      PROVE  /\ q.piece.id <= made' /\ q.piece.unit >= q.size
             /\ q.size >= MinUnit => q.piece.unit = q.size
             /\ q.piece \notin ToSet(l) /\ \A j \in Banks : j # i => q.piece \notin Free(j)
  <2>1. q \in out /\ q # p
    BY <1>2, <1>8
  <2>2. /\ q.piece.id <= made /\ q.piece.unit >= q.size
        /\ q.size >= MinUnit => q.piece.unit = q.size
    BY <2>1 DEF PoolInv, Made, Returnable, PiecesAreSound
  <2>3. q.piece # p.piece /\ \A j \in Banks : q.piece \notin Free(j)
    BY <2>1 DEF PoolInv, PiecesAreSound, AllFree, InUse
  <2>4. QED
    BY <1>1, <1>2, <1>4, <2>2, <2>3
<1>9. \A q, r \in out' : q.piece = r.piece => q = r
  BY <1>2 DEF PoolInv, PiecesAreSound
<1>10. made' \in Nat /\ made <= made' /\ out' \subseteq Handed
  BY <1>1, <1>2
<1>11. QED
  BY <1>1, <1>2, <1>4, <1>5, <1>6, <1>7, <1>8, <1>9, <1>10, BankChanges

\* Init and destroy only forget: banks become empty, big pieces may go.
LEMMA ForgettingKeeps ==
  ASSUME PoolInv, available' \in [Banks -> Seq(Pieces)],
         \A i \in Banks : available'[i] \in {available[i], <<>>},
         out' \subseteq out, made' = made
  PROVE  PoolInv'
<1>1. \A i \in Banks : Free(i)' \subseteq Free(i)
  BY DEF Free, ToSet
<1>2. PoolTyped' /\ Made' /\ Returnable'
  BY <1>1 DEF PoolInv, PoolTyped, Made, Returnable
<1>3. \A i \in Banks : IsInjective(available'[i])
  <2>1. IsInjective(<<>>)
    BY DEF IsInjective
  <2>2. QED
    BY <2>1 DEF PoolInv, PiecesAreSound
<1>4. \A i, j \in Banks : i # j => Free(i)' \cap Free(j)' = {}
  BY <1>1 DEF PoolInv, PiecesAreSound
<1>5. AllFree' \cap InUse' = {}
  <2>1. AllFree' \subseteq AllFree
    BY <1>1 DEF AllFree
  <2>2. InUse' \subseteq InUse
    BY DEF InUse
  <2>3. QED
    BY <2>1, <2>2 DEF PoolInv, PiecesAreSound
<1>6. \A i \in Banks : i >= MinUnit => \A piece \in Free(i)' : piece.unit = i
  BY <1>1 DEF PoolInv, PiecesAreSound
<1>7. (\A p, q \in out' : p.piece = q.piece => p = q) /\ \A p \in out' : p.piece.unit >= p.size
  BY DEF PoolInv, PiecesAreSound
<1>8. PiecesAreSound'
  BY <1>3, <1>4, <1>5, <1>6, <1>7 DEF PiecesAreSound
<1>9. QED
  BY <1>2, <1>8 DEF PoolInv

\* Nothing is free and nothing in use at the start.
LEMMA PoolStarts == PoolInit => PoolInv
<1> SUFFICES ASSUME PoolInit PROVE PoolInv
  OBVIOUS
<1>1. available \in [Banks -> Seq(Pieces)] /\ out = {} /\ made = 0 /\ \A i \in Banks : available[i] = <<>>
  BY DEF PoolInit
<1>2. (\A i \in Banks : Free(i) = {}) /\ InUse = {}
  BY <1>1 DEF Free, InUse, ToSet
<1>3. PoolTyped /\ Made /\ Returnable
  BY <1>1, <1>2 DEF PoolTyped, Made, Returnable
<1>4. \A i \in Banks : IsInjective(available[i])
  BY <1>1 DEF IsInjective
<1>5. PiecesAreSound
  BY <1>1, <1>2, <1>4 DEF PiecesAreSound
<1>6. QED
  BY <1>3, <1>5 DEF PoolInv

\* Every step of the pool keeps the invariant.
LEMMA PoolStep == PoolInv /\ [PoolNext]_poolVars => PoolInv'
<1> SUFFICES ASSUME PoolInv, [PoolNext]_poolVars PROVE PoolInv'
  OBVIOUS
<1>1. available \in [Banks -> Seq(Pieces)]
  BY DEF PoolInv, PoolTyped
<1>2. CASE MemPoolInit
  <2>1. available' \in [Banks -> Seq(Pieces)] /\ \A i \in Banks : available'[i] = <<>>
    BY <1>2 DEF MemPoolInit
  <2>2. out' \subseteq out /\ made' = made
    BY <1>2 DEF MemPoolInit
  <2>3. QED
    BY <2>1, <2>2, ForgettingKeeps
<1>3. CASE MemPoolDestroy
  <2>1. /\ available' \in [Banks -> Seq(Pieces)]
        /\ \A i \in Banks : available'[i] \in {available[i], <<>>}
    BY <1>1, <1>3 DEF MemPoolDestroy
  <2>2. out' \subseteq out /\ made' = made
    BY <1>3 DEF MemPoolDestroy
  <2>3. QED
    BY <2>1, <2>2, ForgettingKeeps
<1>4. CASE \E asked \in 1 .. MaxSize : MemAlloc(asked)
  BY <1>4, MemAllocKeeps
<1>5. CASE \E p \in out : MemFree(p)
  BY <1>5, MemFreeKeeps
<1>6. CASE UNCHANGED poolVars
  BY <1>6, PoolStays DEF poolVars
<1>7. QED
  BY <1>2, <1>3, <1>4, <1>5, <1>6 DEF PoolNext

\* PiecesAreSound, of the pool as memman_pool keeps it: whatever is allocated and
\* freed, in whatever order, no piece is handed out twice or too short, although
\* small and big pieces are put on banks that are not theirs.
THEOREM PoolPiecesAreSound == PoolSpec => []PiecesAreSound
<1>1. PoolSpec => []PoolInv
  BY PoolStarts, PoolStep, PTL DEF PoolSpec
<1>2. PoolInv => PiecesAreSound
  BY DEF PoolInv
<1>3. QED
  BY <1>1, <1>2, PTL

-----------------------------------------------------------------------------
(* The linked list.                                                          *)

ListNodes == [id : 1 .. MaxNodes, data : Data]

\* Its nodes are told apart by their ids, its tail is freed only when it is empty,
\* and before the commands are taken all nodes are counted.
ListInv ==
  /\ chain \in Seq(ListNodes) /\ num \in Nat
  /\ \A i, j \in DOMAIN chain : chain[i].id = chain[j].id => i = j
  /\ tailFreed => chain = <<>>
  /\ phase \in {"fill", "remove", "add"} => ~beside
  /\ ListIsSound

\* t is s with e put in at place p.
IsInserted(t, s, p, e) ==
  /\ p \in 1 .. (Len(s) + 1) /\ Len(t) = Len(s) + 1 /\ t[p] = e
  /\ \A k \in 1 .. (p - 1) : t[k] = s[k]
  /\ \A k \in p .. Len(s) : t[k + 1] = s[k]

\* The three ways to put an element in: in the middle,
LEMMA InsertAtPlaces ==
  ASSUME NEW S, NEW s \in Seq(S), NEW e \in S, NEW p \in 1 .. (Len(s) + 1)
  PROVE  InsertAt(s, p, e) \in Seq(S) /\ IsInserted(InsertAt(s, p, e), s, p, e)
<1> DEFINE l == SubSeq(s, 1, p - 1)
           r == SubSeq(s, p, Len(s))
           t == (l \o <<e>>) \o r
<1>1. l \in Seq(S) /\ Len(l) = p - 1 /\ \A k \in 1 .. (p - 1) : l[k] = s[k]
  OBVIOUS
<1>2. /\ r \in Seq(S) /\ Len(r) = Len(s) - p + 1
      /\ \A k \in 1 .. (Len(s) - p + 1) : r[k] = s[p + k - 1]
  OBVIOUS
<1>3. InsertAt(s, p, e) = t
  BY DEF InsertAt
<1> HIDE DEF l, r
<1>4. l \o <<e>> \in Seq(S) /\ Len(l \o <<e>>) = p /\ (l \o <<e>>)[p] = e
      /\ \A k \in 1 .. (p - 1) : (l \o <<e>>)[k] = s[k]
  BY SMTT(30), <1>1
<1> DEFINE h == l \o <<e>>
<1> HIDE DEF h
<1>5. h \in Seq(S) /\ Len(h) = p /\ h[p] = e /\ \A k \in 1 .. (p - 1) : h[k] = s[k]
  BY <1>4 DEF h
<1>6. t = h \o r
  BY DEF h
<1>7. h \o r \in Seq(S) /\ Len(h \o r) = Len(s) + 1
  <2>1. h \in Seq(S) /\ r \in Seq(S)
    BY <1>2, <1>5
  <2>2. h \o r \in Seq(S) /\ Len(h \o r) = Len(h) + Len(r)
    BY <2>1
  <2>3. QED
    BY <1>2, <1>5, <2>2
<1>8. \A k \in 1 .. p : (h \o r)[k] = h[k]
  BY <1>2, <1>5
<1>9. \A k \in p .. Len(s) : (h \o r)[k + 1] = s[k]
  <2>1. ASSUME NEW k \in p .. Len(s) PROVE (h \o r)[k + 1] = s[k]
    <3>1. k + 1 - p \in 1 .. Len(r) /\ (h \o r)[k + 1] = r[k + 1 - p]
      BY <1>2, <1>5
    <3>2. p + (k + 1 - p) - 1 = k
      OBVIOUS
    <3>3. QED
      BY <1>2, <3>1, <3>2
  <2>2. QED
    BY <2>1
<1>10. InsertAt(s, p, e) = h \o r
  BY <1>3, <1>6
<1>11. (h \o r)[p] = e /\ \A k \in 1 .. (p - 1) : (h \o r)[k] = s[k]
  BY <1>5, <1>8
<1>12. IsInserted(h \o r, s, p, e)
  BY <1>7, <1>9, <1>11 DEF IsInserted
<1>13. QED
  BY <1>7, <1>10, <1>12

\* at the end,
LEMMA AppendPlaces ==
  ASSUME NEW S, NEW s \in Seq(S), NEW e \in S
  PROVE  Append(s, e) \in Seq(S) /\ IsInserted(Append(s, e), s, Len(s) + 1, e)
BY DEF IsInserted

\* and in front.
LEMMA PrependPlaces ==
  ASSUME NEW S, NEW s \in Seq(S), NEW e \in S
  PROVE  <<e>> \o s \in Seq(S) /\ IsInserted(<<e>> \o s, s, 1, e)
<1>1. <<e>> \o s \in Seq(S) /\ Len(<<e>> \o s) = Len(s) + 1
  OBVIOUS
<1>2. (<<e>> \o s)[1] = e /\ \A k \in 1 .. Len(s) : (<<e>> \o s)[k + 1] = s[k]
  OBVIOUS
<1>3. QED
  BY <1>1, <1>2 DEF IsInserted

\* What is found in a sequence by a test on ids.
LEMMA AtFinds ==
  ASSUME NEW id, chain \in Seq(ListNodes), id \in Ids(chain)
  PROVE  At(id) \in DOMAIN chain /\ chain[At(id)].id = id
<1> DEFINE I == {i \in 1 .. Len(chain) : chain[i].id = id}
<1>1. DOMAIN chain = 1 .. Len(chain)
  OBVIOUS
<1>2. I \in SUBSET Nat /\ I # {}
  BY <1>1 DEF Ids
<1>3. Min(I) \in I
  BY <1>2, MinProperty
<1>4. At(id) = Min(I)
  BY <1>2 DEF At, SelectInSeq
<1>5. QED
  BY <1>1, <1>3, <1>4

\* A list with room has an id left for a new node.
LEMMA FreshNode ==
  ASSUME NEW d \in Data, chain \in Seq(ListNodes), ListRoom
  PROVE  Fresh(d) \in ListNodes /\ Fresh(d).id \notin Ids(chain)
<1> DEFINE ids == [i \in 1 .. Len(chain) |-> chain[i].id]
           left == (1 .. MaxNodes) \ Ids(chain)
<1>1. MaxNodes \in Nat /\ Len(chain) \in Nat /\ DOMAIN chain = 1 .. Len(chain) /\ Len(chain) < MaxNodes
  BY ListAssumption DEF ListRoom
<1>2. ids \in Seq(Nat) /\ Len(ids) = Len(chain) /\ ToSet(ids) = Ids(chain)
  <2>1. \A i \in 1 .. Len(chain) : chain[i].id \in Nat
    <3>1. \A i \in 1 .. Len(chain) : chain[i] \in ListNodes
      OBVIOUS
    <3>2. QED
      BY <1>1, <3>1 DEF ListNodes
  <2>2. ids \in [1 .. Len(chain) -> Nat]
    BY <2>1
  <2>3. ids \in Seq(Nat) /\ Len(ids) = Len(chain)
    <3> HIDE DEF ids
    <3>1. QED
      BY <1>1, <2>2
  <2>4. ToSet(ids) = Ids(chain)
    BY <1>1 DEF ToSet, Ids
  <2>5. QED
    BY <2>3, <2>4
<1> HIDE DEF ids
<1>3. IsFiniteSet(Ids(chain)) /\ Cardinality(Ids(chain)) <= Len(chain)
  BY <1>2, ElementsAreFinite
<1>4. IsFiniteSet(1 .. MaxNodes) /\ Cardinality(1 .. MaxNodes) = MaxNodes
  BY <1>1, FS_Interval
<1>5. left # {}
  <2>1. SUFFICES ASSUME 1 .. MaxNodes \subseteq Ids(chain) PROVE FALSE
    OBVIOUS
  <2>2. Cardinality(1 .. MaxNodes) <= Cardinality(Ids(chain))
    BY <1>3, <2>1, FS_Subset
  <2>3. Cardinality(Ids(chain)) \in Nat
    BY <1>3, FS_CardinalityType
  <2>4. QED
    BY <1>1, <1>3, <1>4, <2>2, <2>3
<1>6. Min(left) \in left
  <2>1. left \in SUBSET Nat
    BY <1>1
  <2> HIDE DEF left
  <2>2. QED
    BY <1>5, <2>1, MinProperty
<1>7. QED
  BY <1>6 DEF Fresh, ListNodes

\* What the parts of the invariant say of a list that changes.
LEMMA ListChanges ==
  ASSUME chain' \in Seq(ListNodes), num' \in Nat, num' <= Len(chain'),
         \A i, j \in DOMAIN chain' : chain'[i].id = chain'[j].id => i = j,
         tailFreed' => chain' = <<>>,
         phase' \in {"fill", "remove", "add"} => ~beside',
         ~beside' => num' = Len(chain') /\ ~leaked',
         current' \in Ids(chain)' \cup {NoNode} \/ (current' = Freed /\ chain' = <<>>)
  PROVE  ListInv'
BY DEF ListInv, ListIsSound

\* A node is put into a list that counts as one: it is counted, or it is put
\* beside the current element.
LEMMA LongerKeeps ==
  ASSUME ListInv, NEW d \in Data, ListRoom, num # 0, NEW c, NEW p, Longer(c),
         c \in Seq(ListNodes), IsInserted(c, chain, p, Fresh(d)),
         phase' \in {"fill", "remove", "add"} => ~beside',
         (num' = num + 1 /\ beside' = beside) \/ (num' = num /\ beside')
  PROVE  ListInv'
<1>1. chain \in Seq(ListNodes) /\ num \in Nat /\ Len(chain) \in Nat /\ DOMAIN chain = 1 .. Len(chain)
  BY DEF ListInv
<1>2. chain' = c /\ UNCHANGED <<current, tailFreed, leaked>>
  BY DEF Longer
<1>3. chain # <<>> /\ ~tailFreed /\ num <= Len(chain)
  <2>1. num <= Len(chain) /\ (tailFreed => chain = <<>>)
    BY DEF ListInv, ListIsSound
  <2>2. Len(chain) # 0
    BY <1>1, <2>1
  <2>3. QED
    BY <2>1, <2>2
<1>4. p \in 1 .. (Len(chain) + 1) /\ Len(c) = Len(chain) + 1 /\ c[p] = Fresh(d)
      /\ (\A k \in 1 .. (p - 1) : c[k] = chain[k]) /\ \A k \in p .. Len(chain) : c[k + 1] = chain[k]
  BY DEF IsInserted
<1>5. DOMAIN c = 1 .. (Len(chain) + 1)
  BY <1>4
<1>6. Fresh(d).id \notin Ids(chain)
  BY <1>1, FreshNode
<1> DEFINE from(k) == IF k < p THEN k ELSE k - 1
<1>7. \A k \in DOMAIN c : k # p => from(k) \in DOMAIN chain /\ c[k] = chain[from(k)]
  <2>1. ASSUME NEW k \in DOMAIN c, k # p PROVE from(k) \in DOMAIN chain /\ c[k] = chain[from(k)]
    <3>1. CASE k < p
      BY <1>1, <1>4, <1>5, <2>1, <3>1
    <3>2. CASE k > p
      <4>1. k - 1 \in p .. Len(chain) /\ (k - 1) + 1 = k
        BY <1>1, <1>4, <1>5, <2>1, <3>2
      <4>2. c[k] = chain[k - 1]
        BY <1>4, <4>1
      <4>3. QED
        BY <1>1, <1>4, <1>5, <2>1, <3>2, <4>1, <4>2
    <3>3. QED
      BY <1>4, <1>5, <2>1, <3>1, <3>2
  <2>2. QED
    BY <2>1
<1>8. ASSUME NEW k \in DOMAIN c, NEW l \in DOMAIN c, c[k].id = c[l].id PROVE k = l
  <2>1. \A m \in DOMAIN c : m # p => c[m].id # Fresh(d).id
    BY <1>6, <1>7 DEF Ids
  <2>2. CASE k = p \/ l = p
    BY <1>4, <1>8, <2>1, <2>2
  <2>3. CASE k # p /\ l # p
    <3>1. from(k) \in DOMAIN chain /\ from(l) \in DOMAIN chain /\ c[k] = chain[from(k)] /\ c[l] = chain[from(l)]
      BY <1>7, <2>3
    <3>2. from(k) = from(l)
      <4> HIDE DEF from
      <4>1. QED
        BY <1>8, <3>1 DEF ListInv
    <3>3. QED
      BY <1>1, <1>4, <1>5, <2>3, <3>2
  <2>4. QED
    BY <2>2, <2>3
<1>9. Ids(chain) \subseteq Ids(c)
  <2>1. ASSUME NEW k \in DOMAIN chain PROVE chain[k].id \in Ids(c)
    <3>1. CASE k < p
      BY <1>1, <1>4, <1>5, <3>1 DEF Ids
    <3>2. CASE k >= p
      <4>1. c[k + 1] = chain[k] /\ k + 1 \in DOMAIN c
        BY <1>1, <1>4, <1>5, <3>2
      <4>2. QED
        BY <4>1 DEF Ids
    <3>3. QED
      BY <1>1, <1>4, <3>1, <3>2
  <2>2. QED
    BY <2>1 DEF Ids
<1>10. current' \in Ids(chain)' \cup {NoNode}
  BY <1>2, <1>3, <1>9 DEF ListInv, ListIsSound
<1>11. ~beside' => num' = Len(chain') /\ ~leaked'
  BY <1>1, <1>2, <1>4 DEF ListInv, ListIsSound
<1>12. num' \in Nat /\ num' <= Len(chain')
  <2>1. num' \in {num, num + 1} /\ Len(chain') = Len(chain) + 1
    BY <1>2, <1>4
  <2>2. QED
    BY <1>1, <1>3, <2>1
<1>13. QED
  BY <1>2, <1>3, <1>8, <1>10, <1>11, <1>12, ListChanges

\* A node that is the whole list.
LEMMA AloneKeeps ==
  ASSUME ListInv, NEW d \in Data, ListRoom, num = 0, Alone(Fresh(d)),
         phase' \in {"fill", "remove", "add"} => ~beside',
         (num' = num + 1 /\ beside' = beside) \/ (num' = num /\ beside')
  PROVE  ListInv'
<1>1. chain \in Seq(ListNodes) /\ Len(chain) \in Nat
  BY DEF ListInv
<1>2. Fresh(d) \in ListNodes
  BY <1>1, FreshNode
<1>3. /\ chain' = <<Fresh(d)>> /\ current' = Fresh(d).id /\ ~tailFreed'
      /\ leaked' = (leaked \/ chain # <<>>)
  BY DEF Alone
<1>4. chain' \in Seq(ListNodes) /\ Len(chain') = 1 /\ DOMAIN chain' = {1} /\ chain'[1] = Fresh(d)
  BY <1>2, <1>3
<1>5. current' \in Ids(chain)'
  BY <1>3, <1>4 DEF Ids
<1>6. ~beside' => num' = Len(chain') /\ ~leaked'
  <2>1. ~beside => Len(chain) = 0 /\ ~leaked
    BY DEF ListInv, ListIsSound
  <2>2. Len(chain) = 0 => chain = <<>>
    BY <1>1
  <2>3. ~beside' => beside' = beside /\ num' = Len(chain')
    BY <1>4
  <2>4. ~beside' => chain = <<>> /\ ~leaked
    <3>1. ~beside' => ~beside
      OBVIOUS
    <3>2. QED
      BY <2>1, <2>2, <3>1
  <2>5. QED
    BY <1>3, <2>3, <2>4, Zenon
<1>7. \A i, j \in DOMAIN chain' : chain'[i].id = chain'[j].id => i = j
  BY <1>4
<1>8. num' \in Nat /\ num' <= Len(chain')
  BY <1>4
<1>9. QED
  BY <1>3, <1>4, <1>5, <1>6, <1>7, <1>8, ListChanges

\* Insertion at either end is counted.
LEMMA InsertEndKeeps ==
  ASSUME ListInv, NEW d \in Data, ListRoom, InsertHead(d) \/ InsertTail(d), UNCHANGED beside,
         phase' \in {"fill", "remove", "add"} => ~beside'
  PROVE  ListInv'
<1>1. num' = num + 1 /\ beside' = beside /\ chain \in Seq(ListNodes)
  BY DEF InsertHead, InsertTail, ListInv
<1>2. Fresh(d) \in ListNodes
  BY <1>1, FreshNode
<1>3. CASE num = 0
  <2>1. Alone(Fresh(d))
    BY <1>3 DEF InsertHead, InsertTail
  <2>2. QED
    BY <1>1, <1>3, <2>1, AloneKeeps
<1>4. CASE num # 0
  <2>1. CASE InsertHead(d)
    <3>1. Longer(<<Fresh(d)>> \o chain)
      BY <1>4, <2>1 DEF InsertHead
    <3>2. <<Fresh(d)>> \o chain \in Seq(ListNodes) /\ IsInserted(<<Fresh(d)>> \o chain, chain, 1, Fresh(d))
      BY <1>1, <1>2, PrependPlaces
    <3>3. QED
      BY <1>1, <1>4, <3>1, <3>2, LongerKeeps
  <2>2. CASE InsertTail(d)
    <3>1. Longer(Append(chain, Fresh(d)))
      BY <1>4, <2>2 DEF InsertTail
    <3>2. /\ Append(chain, Fresh(d)) \in Seq(ListNodes)
          /\ IsInserted(Append(chain, Fresh(d)), chain, Len(chain) + 1, Fresh(d))
      BY <1>1, <1>2, AppendPlaces
    <3>3. QED
      BY <1>1, <1>4, <3>1, <3>2, LongerKeeps
  <2>3. QED
    BY <2>1, <2>2
<1>5. QED
  BY <1>3, <1>4

\* Insertion beside the current element is not, and needs one.
LEMMA InsertBesideKeeps ==
  ASSUME ListInv, NEW d \in Data, ListRoom, NEW where \in {0, 1}, InsertBeside(d, where),
         phase' \notin {"fill", "remove", "add"}
  PROVE  ListInv'
<1>1. num' = num /\ beside' /\ chain \in Seq(ListNodes)
  BY DEF InsertBeside, ListInv
<1>2. Fresh(d) \in ListNodes
  BY <1>1, FreshNode
<1>3. CASE num = 0
  <2>1. Alone(Fresh(d))
    BY <1>3 DEF InsertBeside
  <2>2. QED
    BY <1>1, <1>3, <2>1, AloneKeeps
<1>4. CASE num # 0 /\ current = NoNode
  <2>1. UNCHANGED <<chain, current, tailFreed, leaked>>
    BY <1>4 DEF InsertBeside, Longer
  <2>2. QED
    BY <1>1, <2>1 DEF ListInv, ListIsSound, Ids
<1>5. CASE num # 0 /\ current # NoNode
  <2> DEFINE p == At(current) + where
             c == InsertAt(chain, p, Fresh(d))
  <2>1. Longer(c)
    BY <1>5 DEF InsertBeside
  <2>2. current \in Ids(chain)
    BY <1>1, <1>5 DEF ListInv, ListIsSound
  <2>3. At(current) \in DOMAIN chain
    BY <1>1, <2>2, AtFinds
  <2>4. p \in 1 .. (Len(chain) + 1)
    BY <1>1, <2>3
  <2>5. c \in Seq(ListNodes) /\ IsInserted(c, chain, p, Fresh(d))
    <3> HIDE DEF p
    <3>1. QED
      BY <1>1, <1>2, <2>4, InsertAtPlaces
  <2> HIDE DEF c, p
  <2>6. QED
    BY <1>1, <1>5, <2>1, <2>5, LongerKeeps
<1>6. QED
  BY <1>3, <1>4, <1>5

\* A node that goes is not the current element any more, and was counted.
LEMMA UnlinkKeeps ==
  ASSUME ListInv, NEW i \in DOMAIN chain, num # 0, Unlink(i), UNCHANGED beside,
         phase' \in {"fill", "remove", "add"} => ~beside'
  PROVE  ListInv'
<1>1. chain \in Seq(ListNodes) /\ num \in Nat /\ Len(chain) \in Nat /\ DOMAIN chain = 1 .. Len(chain)
  BY DEF ListInv
<1>2. /\ chain' = RemoveAt(chain, i) /\ num' = num - 1 /\ UNCHANGED <<tailFreed, leaked>>
      /\ current' = IF chain[i].id = current THEN NextId(i) ELSE current
  BY DEF Unlink
<1>3. i \in 1 .. Len(chain)
  BY <1>1
<1>4. /\ chain' \in Seq(ListNodes) /\ Len(chain') = Len(chain) - 1
      /\ \A j \in 1 .. (Len(chain) - 1) : chain'[j] = IF j < i THEN chain[j] ELSE chain[j + 1]
  BY <1>1, <1>2, <1>3, RemoveAtPlaces
<1>5. DOMAIN chain' = 1 .. (Len(chain) - 1)
  BY <1>4
<1> DEFINE from(k) == IF k < i THEN k ELSE k + 1
<1>6. \A k \in DOMAIN chain' : from(k) \in DOMAIN chain /\ chain'[k] = chain[from(k)]
  BY <1>1, <1>3, <1>4, <1>5
<1>7. ASSUME NEW k \in DOMAIN chain', NEW l \in DOMAIN chain', chain'[k].id = chain'[l].id PROVE k = l
  <2>1. from(k) = from(l)
    <3> HIDE DEF from
    <3>1. QED
      BY <1>6, <1>7 DEF ListInv
  <2>2. QED
    BY <1>3, <1>5, <2>1
<1>8. \A k \in DOMAIN chain : k # i => chain[k].id \in Ids(chain)'
  <2>1. ASSUME NEW k \in DOMAIN chain, k # i PROVE chain[k].id \in Ids(chain)'
    <3>1. CASE k < i
      <4>1. k \in DOMAIN chain' /\ chain'[k] = chain[k]
        BY <1>1, <1>3, <1>4, <1>5, <3>1
      <4>2. QED
        BY <4>1 DEF Ids
    <3>2. CASE k > i
      <4>1. k - 1 \in DOMAIN chain' /\ ~(k - 1 < i) /\ (k - 1) + 1 = k
        BY <1>1, <1>3, <1>5, <3>2
      <4>2. chain'[k - 1] = chain[k]
        BY <1>4, <1>5, <4>1
      <4>3. QED
        BY <4>1, <4>2 DEF Ids
    <3>3. QED
      BY <1>1, <1>3, <2>1, <3>1, <3>2
  <2>2. QED
    BY <2>1
<1>9. current' \in Ids(chain)' \cup {NoNode}
  <2>1. CASE chain[i].id = current
    <3>1. CASE i < Len(chain)
      <4>1. i + 1 \in DOMAIN chain /\ i + 1 # i
        BY <1>1, <1>3, <3>1
      <4>2. QED
        BY <1>2, <1>8, <2>1, <3>1, <4>1 DEF NextId
    <3>2. CASE ~(i < Len(chain))
      BY <1>2, <2>1, <3>2 DEF NextId
    <3>3. QED
      BY <3>1, <3>2
  <2>2. CASE chain[i].id # current
    <3>1. current \in Ids(chain) \cup {NoNode}
      <4>1. chain # <<>>
        BY <1>1, <1>3
      <4>2. QED
        BY <4>1 DEF ListInv, ListIsSound
    <3>2. QED
      BY <1>2, <1>8, <2>2, <3>1 DEF Ids
  <2>3. QED
    BY <2>1, <2>2
<1>10. ~tailFreed
  BY <1>1, <1>3 DEF ListInv
<1>11. num' \in Nat /\ num' <= Len(chain') /\ (~beside' => num' = Len(chain') /\ ~leaked')
  <2>1. num <= Len(chain) /\ (~beside => num = Len(chain) /\ ~leaked)
    BY DEF ListInv, ListIsSound
  <2>2. num' = num - 1 /\ num - 1 \in Nat /\ num - 1 <= Len(chain) - 1 /\ Len(chain') = Len(chain) - 1
    <3>1. num' = num - 1 /\ Len(chain') = Len(chain) - 1
      BY <1>2, <1>4, Zenon
    <3>2. num \in Nat /\ num # 0 /\ Len(chain) \in Nat /\ num <= Len(chain)
      BY <1>1, <2>1, Zenon
    <3>3. num - 1 \in Nat /\ num - 1 <= Len(chain) - 1
      BY <3>2
    <3>4. QED
      BY <3>1, <3>3, Zenon
  <2>3. ~beside' => num = Len(chain) /\ ~leaked'
    BY <1>2, <2>1, Zenon
  <2>4. QED
    BY <2>2, <2>3, Zenon
<1>12. QED
  BY <1>2, <1>4, <1>7, <1>9, <1>10, <1>11, ListChanges

\* Destroying the list forgets it, counted or not.
LEMMA DestroyKeeps ==
  ASSUME ListInv, ListDestroy, UNCHANGED beside, phase' \notin {"fill", "remove", "add"}
  PROVE  ListInv'
<1>1. /\ chain' = IF num = 0 THEN chain ELSE <<>>
      /\ tailFreed' = (tailFreed \/ num # 0)
      /\ num' = 0 /\ current' = NoNode /\ leaked' = leaked
  BY DEF ListDestroy
<1>2. chain' \in Seq(ListNodes) /\ (tailFreed' => chain' = <<>>) /\ Len(chain') \in Nat
  <2>1. chain \in Seq(ListNodes) /\ <<>> \in Seq(ListNodes) /\ (tailFreed => chain = <<>>)
    BY DEF ListInv
  <2>2. chain' \in Seq(ListNodes)
    BY <1>1, <2>1
  <2>3. tailFreed' => chain' = <<>>
    <3>1. CASE num = 0
      BY <1>1, <2>1, <3>1
    <3>2. CASE num # 0
      BY <1>1, <3>2
    <3>3. QED
      BY <3>1, <3>2
  <2>4. QED
    BY <2>2, <2>3
<1>3. \A i, j \in DOMAIN chain' : chain'[i].id = chain'[j].id => i = j
  BY <1>1 DEF ListInv
<1>4. ~beside' => num' = Len(chain') /\ ~leaked'
  BY <1>1 DEF ListInv, ListIsSound
<1>5. QED
  BY <1>1, <1>2, <1>3, <1>4, ListChanges

-----------------------------------------------------------------------------
(* Sorting.                                                                  *)

\* Where a node is put it stops at the first one that it comes before.
Passes(m, n, ascending) == IF ascending THEN m.data > n.data ELSE m.data < n.data

\* Put leaves a node in front of the first one that it comes before, or at the end.
LEMMA PutPlaces ==
  ASSUME NEW s \in Seq(ListNodes), NEW n \in ListNodes, NEW ascending \in BOOLEAN
  PROVE  /\ Put(s, n, ascending) \in Seq(ListNodes)
         /\ \E p \in 1 .. (Len(s) + 1) :
              /\ IsInserted(Put(s, n, ascending), s, p, n)
              /\ \A k \in 1 .. (p - 1) : ~Passes(s[k], n, ascending)
              /\ p <= Len(s) => Passes(s[p], n, ascending)
<1> DEFINE I == {i \in 1 .. Len(s) : Passes(s[i], n, ascending)}
           q == IF I # {} THEN Min(I) ELSE 0
<1>1. Put(s, n, ascending) = IF q = 0 THEN Append(s, n) ELSE InsertAt(s, q, n)
  BY DEF Put, SelectInSeq, Passes
<1>2. Len(s) \in Nat
  OBVIOUS
<1>3. CASE I = {}
  <2>1. Put(s, n, ascending) = Append(s, n)
    BY <1>1, <1>3
  <2>2. Append(s, n) \in Seq(ListNodes) /\ IsInserted(Append(s, n), s, Len(s) + 1, n)
    BY AppendPlaces
  <2>3. /\ Len(s) + 1 \in 1 .. (Len(s) + 1) /\ ~(Len(s) + 1 <= Len(s))
        /\ \A k \in 1 .. ((Len(s) + 1) - 1) : ~Passes(s[k], n, ascending)
    BY <1>2, <1>3
  <2>4. QED
    BY <2>1, <2>2, <2>3
<1>4. CASE I # {}
  <2>1. I \in SUBSET Nat
    BY <1>2
  <2>2. Min(I) \in I /\ \A k \in I : Min(I) <= k
    <3> HIDE DEF I
    <3>1. QED
      BY <1>4, <2>1, MinProperty
  <2>3. /\ q = Min(I) /\ q \in 1 .. Len(s) /\ Passes(s[q], n, ascending)
        /\ \A k \in 1 .. (q - 1) : ~Passes(s[k], n, ascending)
    <3>1. q = Min(I) /\ q \in I
      BY <1>4, <2>2
    <3>2. q \in 1 .. Len(s) /\ Passes(s[q], n, ascending)
      BY <3>1
    <3>3. ASSUME NEW k \in 1 .. (q - 1) PROVE ~Passes(s[k], n, ascending)
      <4>1. k \in 1 .. Len(s) /\ ~(q <= k)
        BY <1>2, <3>2
      <4>2. k \notin I
        BY <2>2, <3>1, <4>1
      <4>3. QED
        BY <4>1, <4>2
    <3>4. QED
      BY <3>1, <3>2, <3>3
  <2> HIDE DEF q, I
  <2>4. q \in 1 .. (Len(s) + 1) /\ q # 0
    BY <1>2, <2>3
  <2>5. Put(s, n, ascending) = InsertAt(s, q, n)
    BY <1>1, <2>4
  <2>6. InsertAt(s, q, n) \in Seq(ListNodes) /\ IsInserted(InsertAt(s, q, n), s, q, n)
    BY <2>4, InsertAtPlaces
  <2>7. QED
    BY <2>3, <2>4, <2>5, <2>6
<1>5. QED
  BY <1>3, <1>4

\* What the fold of list_sort computes, for the nodes at any set of places: the
\* last one is put into the others.
SortStep(ascending, it) ==
  [T \in SUBSET (DOMAIN chain) |->
     IF T = {} THEN <<>> ELSE Put(it[T \ {Max(T)}], chain[Max(T)], ascending)]

\* One place less.
LEMMA OnePlaceLess ==
  ASSUME chain \in Seq(ListNodes), NEW T \in SUBSET (DOMAIN chain), T # {}
  PROVE  /\ Max(T) \in T /\ \A x \in T : x <= Max(T)
         /\ T \ {Max(T)} \in SUBSET (DOMAIN chain)
         /\ Cardinality(T) \in Nat \ {0} /\ Cardinality(T \ {Max(T)}) = Cardinality(T) - 1
<1>1. DOMAIN chain = 1 .. Len(chain) /\ Len(chain) \in Nat
  OBVIOUS
<1>2. Max(T) \in T /\ \A x \in T : x <= Max(T)
  BY <1>1, MaxProperty
<1>3. IsFiniteSet(T)
  <2>1. IsFiniteSet(1 .. Len(chain))
    BY <1>1, FS_Interval
  <2>2. QED
    BY <1>1, <2>1, FS_Subset
<1>4. Cardinality(T) \in Nat /\ Cardinality(T) # 0
  BY <1>3, FS_CardinalityType, FS_EmptySet
<1>5. Cardinality(T \ {Max(T)}) = Cardinality(T) - 1
  BY <1>2, <1>3, FS_RemoveElement
<1>6. QED
  BY <1>2, <1>4, <1>5

\* Such a function exists, from the smaller sets of places to the greater.
LEMMA SortExists ==
  ASSUME chain \in Seq(ListNodes), NEW ascending \in BOOLEAN
  PROVE  \E it : it = SortStep(ascending, it)
<1> DEFINE D == DOMAIN chain
           Good(n, it) ==
             /\ it = [T \in SUBSET D |-> it[T]]
             /\ \A T \in SUBSET D : Cardinality(T) <= n => it[T] = SortStep(ascending, it)[T]
           G == {n \in Nat : \E it : Good(n, it)}
<1>1. D = 1 .. Len(chain) /\ Len(chain) \in Nat
  OBVIOUS
<1>2. IsFiniteSet(D) /\ Cardinality(D) \in Nat /\ Cardinality({}) = 0
  <2>1. IsFiniteSet(1 .. Len(chain))
    BY <1>1, FS_Interval
  <2> HIDE DEF D
  <2>2. QED
    BY <1>1, <2>1, FS_CardinalityType, FS_EmptySet
<1>3. \A T \in SUBSET D : /\ Cardinality(T) \in Nat /\ Cardinality(T) <= Cardinality(D)
                          /\ Cardinality(T) = 0 => T = {}
  BY <1>2, FS_Subset, FS_CardinalityType, FS_EmptySet
<1>4. \A it : \A T \in SUBSET D :
        SortStep(ascending, it)[T] = IF T = {} THEN <<>> ELSE Put(it[T \ {Max(T)}], chain[Max(T)], ascending)
  BY DEF SortStep
<1>5. 0 \in G
  <2> DEFINE none == [T \in SUBSET D |-> <<>>]
  <2>1. none = [T \in SUBSET D |-> none[T]]
    OBVIOUS
  <2>2. ASSUME NEW T \in SUBSET D, Cardinality(T) <= 0 PROVE none[T] = SortStep(ascending, none)[T]
    <3>1. T = {}
      BY <1>3, <2>2
    <3>2. none[T] = <<>>
      OBVIOUS
    <3> HIDE DEF none
    <3>3. QED
      BY <1>4, <3>1, <3>2
  <2>3. Good(0, none)
    BY <2>1, <2>2
  <2> HIDE DEF Good, none
  <2>4. QED
    BY <2>3
<1>6. ASSUME NEW n \in Nat, n \in G PROVE n + 1 \in G
  <2>1. PICK it : Good(n, it)
    BY <1>6
  <2> DEFINE more == SortStep(ascending, it)
  <2>2. more = [T \in SUBSET D |-> more[T]]
    BY DEF SortStep
  <2>3. \A T \in SUBSET D : Cardinality(T) <= n => more[T] = it[T]
    BY <2>1
  <2>4. ASSUME NEW T \in SUBSET D, Cardinality(T) <= n + 1
        PROVE  more[T] = SortStep(ascending, more)[T]
    <3>1. more[T] = IF T = {} THEN <<>> ELSE Put(it[T \ {Max(T)}], chain[Max(T)], ascending)
      BY <1>4
    <3>2. SortStep(ascending, more)[T] = IF T = {} THEN <<>> ELSE Put(more[T \ {Max(T)}], chain[Max(T)], ascending)
      BY <1>4
    <3> HIDE DEF more
    <3>3. CASE T = {}
      BY <3>1, <3>2, <3>3
    <3>4. CASE T # {}
      <4>1. T \ {Max(T)} \in SUBSET D /\ Cardinality(T \ {Max(T)}) <= n
        BY <2>4, <3>4, OnePlaceLess
      <4>2. more[T \ {Max(T)}] = it[T \ {Max(T)}]
        BY <2>3, <4>1
      <4>3. QED
        BY <3>1, <3>2, <4>2
    <3>5. QED
      BY <3>3, <3>4
  <2>5. Good(n + 1, more)
    <3> HIDE DEF more
    <3>1. QED
      BY <2>2, <2>4
  <2> HIDE DEF Good, more
  <2>6. QED
    BY <2>5
<1>7. Nat \subseteq G
  <2> HIDE DEF G
  <2>1. QED
    BY <1>5, <1>6, NumberInduction
<1>8. PICK it : Good(Cardinality(D), it)
  BY <1>2, <1>7
<1>9. it = SortStep(ascending, it)
  <2>1. it = [T \in SUBSET D |-> it[T]] /\ \A T \in SUBSET D : it[T] = SortStep(ascending, it)[T]
    BY <1>3, <1>8
  <2> DEFINE step == SortStep(ascending, it)
  <2>2. step = [T \in SUBSET D |-> step[T]]
    BY DEF SortStep
  <2> HIDE DEF step, D
  <2>3. \A T \in SUBSET D : it[T] = step[T]
    BY <2>1 DEF step
  <2>4. it = step
    BY <2>1, <2>2, <2>3
  <2>5. QED
    BY <2>4 DEF step
<1>10. QED
  BY <1>9

\* It is what list_sort makes of the whole list.
LEMMA SortIsFold ==
  ASSUME chain \in Seq(ListNodes), NEW ascending \in BOOLEAN
  PROVE  \E it : it = SortStep(ascending, it) /\ SortedChain(ascending) = it[DOMAIN chain]
<1> DEFINE iter == CHOOSE it : it = SortStep(ascending, it)
<1>1. iter = SortStep(ascending, iter)
  BY SortExists
<1>2. SortedChain(ascending) = iter[DOMAIN chain]
  BY DEF SortedChain, FoldLeft, MapThenFoldSet, SortStep
<1> HIDE DEF iter
<1>3. QED
  BY <1>1, <1>2

\* s has the nodes at the places of T, in order, equal ones as they were.
Sorted(T, s, ascending) ==
  /\ s \in Seq(ListNodes) /\ Len(s) = Cardinality(T)
  /\ \A k \in DOMAIN s : \E i \in T : s[k] = chain[i]
  /\ \A i \in T : \E k \in DOMAIN s : s[k] = chain[i]
  /\ \A k, l \in DOMAIN s : k < l => Before(s[k], s[l], ascending)

\* The place of a node is where its id is found.
LEMMA AtPlace ==
  ASSUME ListInv, NEW i \in DOMAIN chain
  PROVE  At(chain[i].id) = i
<1>1. chain[i].id \in Ids(chain) /\ chain \in Seq(ListNodes)
  BY DEF Ids, ListInv
<1>2. At(chain[i].id) \in DOMAIN chain /\ chain[At(chain[i].id)].id = chain[i].id
  BY <1>1, AtFinds
<1>3. QED
  BY <1>2 DEF ListInv

\* Putting the last node into the others that are in order keeps the order: it
\* goes behind those that are equal to it.
LEMMA PutSorts ==
  ASSUME ListInv, NEW ascending \in BOOLEAN, NEW T \in SUBSET (DOMAIN chain), T # {},
         NEW s, Sorted(T \ {Max(T)}, s, ascending)
  PROVE  Sorted(T, Put(s, chain[Max(T)], ascending), ascending)
<1> DEFINE m == Max(T)
           n == chain[m]
           t == Put(s, n, ascending)
<1>1. chain \in Seq(ListNodes)
  BY DEF ListInv
<1>2. m \in T /\ (\A x \in T : x <= m) /\ Cardinality(T) \in Nat \ {0} /\ Cardinality(T \ {m}) = Cardinality(T) - 1
  BY <1>1, OnePlaceLess
<1> HIDE DEF m
<1>3. n \in ListNodes /\ s \in Seq(ListNodes) /\ Len(s) = Cardinality(T) - 1
  <2>1. m \in DOMAIN chain
    BY <1>2
  <2>2. n \in ListNodes
    BY <1>1, <2>1
  <2>3. QED
    BY <1>2, <2>2 DEF Sorted, m
<1>4. PICK p \in 1 .. (Len(s) + 1) :
        /\ t \in Seq(ListNodes) /\ IsInserted(t, s, p, n)
        /\ \A k \in 1 .. (p - 1) : ~Passes(s[k], n, ascending)
        /\ p <= Len(s) => Passes(s[p], n, ascending)
  <2> HIDE DEF n
  <2>1. QED
    BY <1>3, PutPlaces
<1> HIDE DEF t
<1>5. /\ Len(t) = Len(s) + 1 /\ t[p] = n /\ p \in 1 .. (Len(s) + 1)
      /\ (\A k \in 1 .. (p - 1) : t[k] = s[k]) /\ \A k \in p .. Len(s) : t[k + 1] = s[k]
  BY <1>4 DEF IsInserted
<1>6. DOMAIN t = 1 .. (Len(s) + 1) /\ DOMAIN s = 1 .. Len(s) /\ Len(s) \in Nat
  BY <1>3, <1>4, <1>5
<1> DEFINE from(k) == IF k < p THEN k ELSE k - 1
<1>7. ASSUME NEW k \in DOMAIN t, k # p
      PROVE  from(k) \in DOMAIN s /\ t[k] = s[from(k)]
  <2>1. CASE k < p
    BY <1>5, <1>6, <1>7, <2>1
  <2>2. CASE k > p
    <3>1. k - 1 \in p .. Len(s) /\ (k - 1) + 1 = k
      BY <1>5, <1>6, <2>2
    <3>2. t[k] = s[k - 1]
      BY <1>5, <3>1
    <3>3. QED
      BY <1>5, <1>6, <2>2, <3>1, <3>2
  <2>3. QED
    BY <1>5, <1>6, <1>7, <2>1, <2>2
<1>8. ASSUME NEW k \in DOMAIN s PROVE \E l \in DOMAIN t : t[l] = s[k]
  <2>1. CASE k < p
    BY <1>5, <1>6, <2>1
  <2>2. CASE k >= p
    <3>1. k + 1 \in DOMAIN t /\ t[k + 1] = s[k]
      BY <1>5, <1>6, <2>2
    <3>2. QED
      BY <3>1
  <2>3. QED
    BY <1>5, <1>6, <2>1, <2>2
<1>9. \A k \in DOMAIN t : \E i \in T : t[k] = chain[i]
  <2>1. ASSUME NEW k \in DOMAIN t PROVE \E i \in T : t[k] = chain[i]
    <3>1. CASE k = p
      BY <1>2, <1>5, <3>1
    <3>2. CASE k # p
      <4>1. PICK l \in DOMAIN s : t[k] = s[l]
        BY <1>7, <3>2
      <4>2. \E i \in T \ {m} : s[l] = chain[i]
        BY DEF Sorted, m
      <4>3. QED
        BY <4>1, <4>2
    <3>3. QED
      BY <3>1, <3>2
  <2>2. QED
    BY <2>1
<1>10. \A i \in T : \E k \in DOMAIN t : t[k] = chain[i]
  <2>1. ASSUME NEW i \in T PROVE \E k \in DOMAIN t : t[k] = chain[i]
    <3>1. CASE i = m
      BY <1>5, <1>6, <3>1
    <3>2. CASE i # m
      <4>1. PICK k \in DOMAIN s : s[k] = chain[i]
        BY <3>2 DEF Sorted, m
      <4>2. QED
        BY <1>8, <4>1
    <3>3. QED
      BY <3>1, <3>2
  <2>2. QED
    BY <2>1
<1>11. ASSUME NEW k \in DOMAIN s
       PROVE  /\ s[k].data \in Int /\ n.data \in Int
              /\ At(s[k].id) < At(n.id)
  <2>1. PICK i \in T \ {m} : s[k] = chain[i]
    BY DEF Sorted, m
  <2>2. At(s[k].id) = i /\ At(n.id) = m
    BY <1>2, <2>1, AtPlace
  <2>3. i \in Nat /\ m \in Nat
    BY <1>1, <1>2
  <2>4. i < m
    BY <1>2, <2>1, <2>3
  <2>5. s[k] \in ListNodes
    BY <1>3
  <2>6. QED
    BY <1>3, <2>2, <2>4, <2>5, ListAssumption DEF ListNodes
<1>12. ASSUME NEW k \in DOMAIN t, NEW l \in DOMAIN t, k < l
       PROVE  Before(t[k], t[l], ascending)
  <2>1. CASE k # p /\ l # p
    <3>1. from(k) \in DOMAIN s /\ from(l) \in DOMAIN s /\ t[k] = s[from(k)] /\ t[l] = s[from(l)]
      BY <1>7, <2>1
    <3>2. from(k) < from(l)
      BY <1>6, <1>12, <2>1
    <3> HIDE DEF from
    <3>3. QED
      BY <3>1, <3>2 DEF Sorted
  <2>2. CASE l = p
    <3>1. k \in 1 .. (p - 1) /\ t[k] = s[k] /\ k \in DOMAIN s /\ t[l] = n
      BY <1>5, <1>6, <1>12, <2>2
    <3>2. ~Passes(s[k], n, ascending)
      BY <1>4, <3>1
    <3> HIDE DEF n
    <3>3. QED
      BY <1>11, <3>1, <3>2 DEF Passes, Before
  <2>3. CASE k = p
    <3>1. l - 1 \in p .. Len(s) /\ (l - 1) + 1 = l /\ p \in 1 .. Len(s)
      BY <1>5, <1>6, <1>12, <2>3
    <3>2. t[l] = s[l - 1] /\ t[k] = n /\ l - 1 \in DOMAIN s /\ p \in DOMAIN s
      BY <1>5, <1>6, <2>3, <3>1
    <3>3. Passes(s[p], n, ascending)
      BY <1>4, <3>1
    <3>4. p = l - 1 \/ Before(s[p], s[l - 1], ascending)
      <4>1. p = l - 1 \/ p < l - 1
        BY <3>1
      <4>2. QED
        BY <3>2, <4>1 DEF Sorted
    <3>5. s[p].data \in Int /\ s[l - 1].data \in Int /\ n.data \in Int
      BY <1>11, <3>2
    <3> HIDE DEF n
    <3>6. IF ascending THEN n.data < s[l - 1].data ELSE n.data > s[l - 1].data
      BY <3>3, <3>4, <3>5 DEF Passes, Before
    <3>7. QED
      BY <3>2, <3>6 DEF Before
  <2>4. QED
    BY <2>1, <2>2, <2>3
<1>13. Sorted(T, t, ascending)
  <2>1. Len(t) = Cardinality(T)
    BY <1>2, <1>3, <1>5
  <2>2. QED
    BY <1>4, <1>9, <1>10, <1>12, <2>1 DEF Sorted
<1>14. QED
  BY <1>13 DEF t, n, m

\* So the whole list is, in the end.
LEMMA ListIsSorted ==
  ASSUME ListInv, NEW ascending \in BOOLEAN
  PROVE  Sorted(DOMAIN chain, SortedChain(ascending), ascending)
<1>1. chain \in Seq(ListNodes)
  BY DEF ListInv
<1>2. PICK it : it = SortStep(ascending, it) /\ SortedChain(ascending) = it[DOMAIN chain]
  BY <1>1, SortIsFold
<1> DEFINE D == DOMAIN chain
           G == {T \in SUBSET D : Sorted(T, it[T], ascending)}
<1>3. \A T \in SUBSET D : it[T] = IF T = {} THEN <<>> ELSE Put(it[T \ {Max(T)}], chain[Max(T)], ascending)
  BY <1>2 DEF SortStep
<1>4. ASSUME NEW T \in SUBSET D, \A x \in T : T \ {x} \in G
      PROVE  T \in G
  <2>1. CASE T = {}
    <3>1. it[T] = <<>> /\ Cardinality(T) = 0
      BY <1>3, <2>1, FS_EmptySet
    <3>2. Sorted(T, <<>>, ascending)
      BY <2>1, <3>1 DEF Sorted
    <3>3. QED
      BY <3>1, <3>2
  <2>2. CASE T # {}
    <3>1. Max(T) \in T
      BY <1>1, <2>2, OnePlaceLess
    <3>2. Sorted(T \ {Max(T)}, it[T \ {Max(T)}], ascending)
      BY <1>4, <3>1
    <3>3. Sorted(T, Put(it[T \ {Max(T)}], chain[Max(T)], ascending), ascending)
      BY <2>2, <3>2, PutSorts
    <3>4. QED
      BY <1>3, <2>2, <3>3
  <2>3. QED
    BY <2>1, <2>2
<1>5. IsFiniteSet(D)
  <2>1. D = 1 .. Len(chain) /\ Len(chain) \in Nat
    BY <1>1
  <2>2. IsFiniteSet(1 .. Len(chain))
    BY <2>1, FS_Interval
  <2>3. QED
    BY <2>1, <2>2
<1>6. D \in G
  <2> HIDE DEF G, D
  <2>1. SUBSET D \subseteq G
    BY <1>4, <1>5, SubsetInduction
  <2>2. QED
    BY <2>1
<1>7. QED
  BY <1>2, <1>6

\* A sort keeps the nodes, all of them, and orders them.
LEMMA SortOrders ==
  ASSUME ListInv, NEW ascending \in BOOLEAN
  PROVE  /\ SortedChain(ascending) \in Seq(ListNodes)
         /\ Len(SortedChain(ascending)) = Len(chain)
         /\ Ids(SortedChain(ascending)) = Ids(chain)
         /\ \A k, l \in DOMAIN SortedChain(ascending) :
              k < l => Before(SortedChain(ascending)[k], SortedChain(ascending)[l], ascending)
         /\ \A k \in DOMAIN SortedChain(ascending) : \E i \in DOMAIN chain : SortedChain(ascending)[k] = chain[i]
<1> DEFINE s == SortedChain(ascending)
<1>1. Sorted(DOMAIN chain, s, ascending)
  BY ListIsSorted
<1> HIDE DEF s
<1>2. s \in Seq(ListNodes) /\ Len(s) = Cardinality(DOMAIN chain)
  BY <1>1 DEF Sorted
<1>3. Cardinality(DOMAIN chain) = Len(chain)
  <2>1. DOMAIN chain = 1 .. Len(chain) /\ Len(chain) \in Nat
    BY DEF ListInv
  <2>2. PICK n \in Nat : n = Len(chain)
    BY <2>1
  <2>3. Cardinality(1 .. n) = n
    BY FS_Interval
  <2>4. QED
    BY <2>1, <2>2, <2>3
<1>4. Ids(s) = Ids(chain)
  <2>1. \A k \in DOMAIN s : s[k].id \in Ids(chain)
    BY <1>1 DEF Sorted, Ids
  <2>2. \A i \in DOMAIN chain : chain[i].id \in Ids(s)
    <3>1. ASSUME NEW i \in DOMAIN chain PROVE chain[i].id \in Ids(s)
      <4>1. PICK k \in DOMAIN s : s[k] = chain[i]
        BY <1>1 DEF Sorted
      <4>2. QED
        BY <4>1 DEF Ids
    <3>2. QED
      BY <3>1
  <2>3. QED
    BY <2>1, <2>2 DEF Ids
<1>5. /\ \A k, l \in DOMAIN s : k < l => Before(s[k], s[l], ascending)
      /\ \A k \in DOMAIN s : \E i \in DOMAIN chain : s[k] = chain[i]
  BY <1>1 DEF Sorted
<1>6. QED
  BY <1>2, <1>3, <1>4, <1>5 DEF s

\* So it keeps the invariant: two nodes of one id would not be in order.
LEMMA SortKeeps ==
  ASSUME ListInv, NEW ascending \in BOOLEAN, ListSort(ascending), UNCHANGED beside,
         phase' \in {"fill", "remove", "add"} => ~beside'
  PROVE  ListInv'
<1>1. UNCHANGED <<current, num, tailFreed, leaked>> /\ chain' = IF num = 0 THEN chain ELSE SortedChain(ascending)
  BY DEF ListSort
<1>2. CASE num = 0
  BY <1>1, <1>2 DEF ListInv, ListIsSound, Ids
<1>3. CASE num # 0
  <2>1. chain' = SortedChain(ascending)
    BY <1>1, <1>3
  <2>2. chain' \in Seq(ListNodes) /\ Len(chain') = Len(chain) /\ Ids(chain') = Ids(chain)
    BY <2>1, SortOrders
  <2>3. \A k, l \in DOMAIN chain' : k < l => Before(chain'[k], chain'[l], ascending)
    BY <2>1, SortOrders
  <2>4. \A k \in DOMAIN chain' : chain'[k].data \in Int /\ At(chain'[k].id) \in Nat /\ k \in Nat
    <3>1. ASSUME NEW k \in DOMAIN chain' PROVE chain'[k].data \in Int /\ At(chain'[k].id) \in Nat /\ k \in Nat
      <4>1. chain'[k] \in ListNodes /\ k \in Nat
        BY <2>2
      <4>2. chain'[k].id \in Ids(chain)
        BY <2>2 DEF Ids
      <4>3. At(chain'[k].id) \in DOMAIN chain
        BY <4>2, AtFinds DEF ListInv
      <4>4. At(chain'[k].id) \in Nat
        BY <4>3 DEF ListInv
      <4>5. QED
        BY <4>1, <4>4, ListAssumption DEF ListNodes
    <3>2. QED
      BY <3>1
  <2>5. ASSUME NEW k \in DOMAIN chain', NEW l \in DOMAIN chain', chain'[k].id = chain'[l].id PROVE k = l
    <3>1. chain'[k] = chain'[l]
      <4>1. PICK i \in DOMAIN chain, j \in DOMAIN chain : chain'[k] = chain[i] /\ chain'[l] = chain[j]
        BY <2>1, SortOrders
      <4>2. i = j
        BY <2>5, <4>1 DEF ListInv
      <4>3. QED
        BY <4>1, <4>2
    <3>2. k < l \/ l < k \/ k = l
      BY <2>4
    <3>3. ~Before(chain'[k], chain'[l], ascending) /\ ~Before(chain'[l], chain'[k], ascending)
      BY <2>4, <3>1 DEF Before
    <3>4. QED
      BY <2>3, <3>2, <3>3
  <2>6. num \in Nat /\ num <= Len(chain) /\ chain \in Seq(ListNodes)
    BY DEF ListInv, ListIsSound
  <2>7. chain # <<>> /\ ~tailFreed
    <3>1. chain # <<>>
      <4>1. Len(chain) # 0
        BY <1>3, <2>6
      <4>2. QED
        BY <4>1
    <3>2. QED
      BY <3>1 DEF ListInv
  <2>8. QED
    BY <1>1, <2>2, <2>5, <2>6, <2>7, ListChanges DEF ListInv, ListIsSound
<1>4. QED
  BY <1>2, <1>3

-----------------------------------------------------------------------------
(* The demo program.                                                         *)

\* An empty list is in order.
LEMMA ListStarts == ListInit => ListInv
<1> SUFFICES ASSUME ListInit PROVE ListInv
  OBVIOUS
<1>1. chain = <<>> /\ current = NoNode /\ num = 0 /\ ~tailFreed /\ ~beside /\ ~leaked
  BY DEF ListInit
<1>2. <<>> \in Seq(ListNodes) /\ Len(<<>>) = 0 /\ DOMAIN <<>> = {}
  OBVIOUS
<1>3. QED
  BY <1>1, <1>2 DEF ListInv, ListIsSound

\* Every turn of the demo's loops keeps the invariant.
LEMMA ListStep == ListInv /\ [ListNext]_listVars => ListInv'
<1> SUFFICES ASSUME ListInv, [ListNext]_listVars PROVE ListInv'
  OBVIOUS
<1> DEFINE early == {"fill", "remove", "add"}
<1>1. chain \in Seq(ListNodes) /\ (phase \in early => ~beside)
  BY DEF ListInv
<1>2. CASE Fill \/ Add
  <2>1. PICK d \in Data : InsertTail(d)
    BY <1>2 DEF Fill, Add
  <2>2. ListRoom /\ UNCHANGED beside /\ (phase' \in early => ~beside')
    BY <1>1, <1>2 DEF Fill, Add
  <2>3. QED
    BY <2>1, <2>2, InsertEndKeeps
<1>3. CASE RemoveData
  <2>1. PICK d \in Data : DataRemove(d)
    BY <1>3 DEF RemoveData
  <2>2. ~beside /\ ~beside' /\ UNCHANGED beside
    BY <1>1, <1>3 DEF RemoveData
  <2> DEFINE I == {i \in 1 .. Len(chain) : chain[i].data = d}
             i == SelectInSeq(chain, LAMBDA n : n.data = d)
  <2>3. i = IF I # {} THEN Min(I) ELSE 0
    BY DEF SelectInSeq
  <2>4. CASE I = {}
    <3>1. UNCHANGED <<chain, current, num, tailFreed, leaked>>
      BY <2>1, <2>3, <2>4 DEF DataRemove
    <3>2. QED
      BY <2>2, <3>1 DEF ListInv, ListIsSound, Ids
  <2>5. CASE I # {}
    <3>1. I \in SUBSET Nat
      BY <1>1
    <3>2. Min(I) \in I
      <4> HIDE DEF I
      <4>1. QED
        BY <2>5, <3>1, MinProperty
    <3>3. i \in I
      BY <2>3, <2>5, <3>2
    <3>4. i \in 1 .. Len(chain) /\ i \in DOMAIN chain
      BY <1>1, <3>3
    <3>5. Unlink(i)
      BY <2>1, <3>4 DEF DataRemove
    <3>6. num # 0
      <4>1. num = Len(chain)
        BY <2>2 DEF ListInv, ListIsSound
      <4>2. QED
        BY <1>1, <3>4, <4>1
    <3> HIDE DEF i
    <3>7. QED
      BY <2>2, <3>4, <3>5, <3>6, UnlinkKeeps
  <2>6. QED
    BY <2>4, <2>5
<1>4. CASE SortThenPlay
  <2>1. ListSort(FALSE) /\ UNCHANGED beside /\ phase' \notin early
    BY <1>4 DEF SortThenPlay
  <2>2. QED
    BY <2>1, SortKeeps
<1>5. CASE Move
  <2>1. UNCHANGED <<chain, num, tailFreed, phase, beside, leaked>>
    BY <1>5 DEF Move
  <2>2. current' \in Ids(chain) \cup {NoNode} \/ (current' = Freed /\ chain = <<>>)
    <3>1. CASE current' = IF chain = <<>> THEN NoNode ELSE chain[1].id
      <4>1. chain # <<>> => 1 \in DOMAIN chain
        BY <1>1
      <4>2. QED
        BY <3>1, <4>1 DEF Ids
    <3>2. CASE current' = IF tailFreed THEN Freed ELSE IF chain = <<>> THEN NoNode ELSE Last(chain).id
      <4>1. tailFreed => chain = <<>>
        BY DEF ListInv
      <4>2. chain # <<>> => Len(chain) \in DOMAIN chain /\ Last(chain) = chain[Len(chain)]
        BY <1>1 DEF Last
      <4>3. QED
        BY <3>2, <4>1, <4>2 DEF Ids
    <3>3. CASE \E i \in DOMAIN chain : current' = chain[i].id
      BY <3>3 DEF Ids
    <3>4. QED
      BY <1>5, <3>1, <3>2, <3>3 DEF Move
  <2>3. QED
    BY <2>1, <2>2 DEF ListInv, ListIsSound, Ids
<1>6. CASE ReadFreed
  BY <1>6 DEF ReadFreed, ListInv, ListIsSound, Ids
<1>7. CASE RemoveAround
  <2>1. PICK i \in DOMAIN chain : RemoveElem(i)
    BY <1>7 DEF RemoveAround
  <2>2. UNCHANGED <<phase, beside>> /\ phase = "play"
    BY <1>7 DEF RemoveAround
  <2>3. CASE num = 0
    BY <2>1, <2>2, <2>3 DEF RemoveElem, ListInv, ListIsSound, Ids
  <2>4. CASE num # 0
    BY <2>1, <2>2, <2>4, UnlinkKeeps DEF RemoveElem
  <2>5. QED
    BY <2>3, <2>4
<1>8. CASE RemoveAll \/ Quit
  <2>1. ListDestroy /\ UNCHANGED beside /\ phase' \notin early
    BY <1>8 DEF RemoveAll, Quit
  <2>2. QED
    BY <2>1, DestroyKeeps
<1>9. CASE AddAtEnds
  <2>1. PICK d \in Data : InsertHead(d) \/ InsertTail(d)
    BY <1>9 DEF AddAtEnds
  <2>2. ListRoom /\ UNCHANGED beside /\ phase' \notin early
    BY <1>9 DEF AddAtEnds
  <2>3. QED
    BY <2>1, <2>2, InsertEndKeeps
<1>10. CASE AddBeside
  <2>1. PICK d \in Data : InsertBeside(d, 0) \/ InsertBeside(d, 1)
    BY <1>10 DEF AddBeside, InsertNext, InsertPrev
  <2>2. ListRoom /\ phase' \notin early
    BY <1>10 DEF AddBeside
  <2>3. QED
    BY <2>1, <2>2, InsertBesideKeeps
<1>11. CASE Sort
  <2>1. PICK ascending \in BOOLEAN : ListSort(ascending)
    BY <1>11 DEF Sort
  <2>2. UNCHANGED beside /\ phase' \notin early
    BY <1>11 DEF Sort
  <2>3. QED
    BY <2>1, <2>2, SortKeeps
<1>12. CASE UNCHANGED listVars
  BY <1>12 DEF listVars, ListInv, ListIsSound, Ids
<1>13. QED
  BY <1>2, <1>3, <1>4, <1>5, <1>6, <1>7, <1>8, <1>9, <1>10, <1>11, <1>12 DEF ListNext

\* The inductive invariant of the list holds, whatever the demo is told to do.
THEOREM ListInvariant == ListSpec => []ListInv
BY ListStarts, ListStep, PTL DEF ListSpec

\* ListIsSound, of linkit's list: num_nodes is right until a node is put beside
\* the current one and never too high after that, and the current element is a
\* node of the list unless an emptied list's old tail was taken.
THEOREM ListStaysSound == ListSpec => []ListIsSound
<1>1. ListInv => ListIsSound
  BY DEF ListInv
<1>2. QED
  BY <1>1, ListInvariant, PTL

\* SortKeepsNodes, of list_sort: every sort of a list that counts as one, whatever
\* was done to it before, keeps its nodes and orders them, equal ones as they were.
THEOREM ListSortIsStable == ListSpec => SortKeepsNodes
<1> DEFINE Kept ==
      \A ascending \in BOOLEAN :
        ListSort(ascending) /\ num > 0 =>
          /\ Len(chain') = Len(chain) /\ Ids(chain') = Ids(chain)
          /\ \A i, j \in DOMAIN chain' :
               i < j => Before(chain'[i], chain'[j], ascending)
<1>1. ListInv => Kept
  <2> SUFFICES ASSUME ListInv, NEW ascending \in BOOLEAN, ListSort(ascending), num > 0
               PROVE  /\ Len(chain') = Len(chain) /\ Ids(chain') = Ids(chain)
                      /\ \A i, j \in DOMAIN chain' :
                           i < j => Before(chain'[i], chain'[j], ascending)
    OBVIOUS
  <2>1. num # 0
    BY DEF ListInv
  <2>2. chain' = SortedChain(ascending)
    BY <2>1 DEF ListSort
  <2>3. QED
    BY <2>2, SortOrders
<1>2. ListInv /\ [ListNext]_listVars => [Kept]_listVars
  BY <1>1
<1>3. QED
  BY <1>2, ListInvariant, PTL DEF ListSpec, SortKeepsNodes

-----------------------------------------------------------------------------
(* The hash table: what was inserted is found, and num_data, where it        *)
(* started within the buckets, is never below the entries there are.         *)

Vacated == [Empty EXCEPT !.vacated = TRUE]
Entries == {Empty, Vacated} \cup [key : HtKeys, data : HtData, vacated : {FALSE}]

HtTyped ==
  /\ ht \in [Buckets -> Entries] /\ numData \in 0 .. (NumWrap - 1)
  /\ DOMAIN stored = Classes
  /\ \A c \in Classes :
       \/ stored[c] = <<>>
       \/ \E k \in HtKeys, d \in HtData : stored[c] = <<k, d>> /\ FourBytes[k] = c

\* The first n buckets of the walk of k are used, and not by k.
PassedOver(k, n) ==
  \A m \in 0 .. (n - 1) : ht[Walk[k][m]] # Empty /\ ~Matches(Walk[k][m], k)

\* What was stored last for a class is met on the walk of its key.
Kept ==
  \A k \in HtKeys, d \in HtData : stored[FourBytes[k]] = <<k, d>> =>
    \E n \in 0 .. Limit :
      PassedOver(k, n) /\ Matches(Walk[k][n], k) /\ ht[Walk[k][n]].data = d

\* A key that compares equal to no other is in one bucket at most, and in none
\* when it was removed.
Single ==
  \A k \in HtKeys : OnlyOfClass(k) =>
    /\ \A i, j \in Buckets : Matches(i, k) /\ Matches(j, k) => i = j
    /\ stored[FourBytes[k]] = <<>> => \A i \in Buckets : ~Matches(i, k)

CountCovers == counted => numData \in Quantify(Buckets, LAMBDA i : Taken(i)) .. NumBuckets

HtInv == HtTyped /\ Kept /\ Single /\ CountCovers

\* What the three forms of a bucket are.
LEMMA EntryForms ==
  /\ Empty.data = NoData /\ ~Empty.vacated
  /\ Vacated.data = NoData /\ Vacated.vacated /\ Vacated # Empty
  /\ \A e \in Entries : e = Empty \/ e = Vacated
       \/ (e.key \in HtKeys /\ e.data \in HtData /\ e.data # NoData /\ ~e.vacated)
<1>1. Empty.data = NoData /\ ~Empty.vacated
  BY DEF Empty
<1>2. Vacated.data = NoData /\ Vacated.vacated = TRUE
  BY DEF Vacated, Empty
<1>3. QED
  BY <1>1, <1>2, HashAssumption DEF Entries

-----------------------------------------------------------------------------
(* The walks.                                                                *)

\* Every walk stays in the table.
LEMMA WalkType == Walk \in [HtKeys -> [0 .. Limit -> Buckets]]
<1>1. SUFFICES ASSUME NEW k \in HtKeys PROVE Walk[k] \in [0 .. Limit -> Buckets]
  BY DEF Walk
<1> DEFINE Next(w) == [n \in 0 .. Limit |->
                         IF n = 0 THEN Hash[k] ELSE (w[n - 1] + Step[n - 1]) % NumBuckets]
           F == [n \in Nat |-> [b \in Nat |->
                   IF n \in 1 .. Limit THEN (b + Step[n - 1]) % NumBuckets ELSE b]]
<1>2. Hash[k] \in Buckets /\ Hash[k] \in Nat /\ Limit \in Nat
  BY HashAssumption DEF Buckets
<1>3. \A b \in Nat, n \in 0 .. Limit : (b + Step[n]) % NumBuckets \in Buckets
  BY HashAssumption DEF Buckets
<1>4. F \in [Nat -> [Nat -> Nat]]
  <2>1. ASSUME NEW n \in Nat, NEW b \in Nat
        PROVE  (IF n \in 1 .. Limit THEN (b + Step[n - 1]) % NumBuckets ELSE b) \in Nat
    <3>1. n \in 1 .. Limit => n - 1 \in 0 .. Limit
      BY <1>2
    <3>2. QED
      BY <1>3, <3>1 DEF Buckets
  <2>2. QED
    BY <2>1
<1>5. \E w : w \in [0 .. Limit -> Nat] /\ w = Next(w)
  <2> HIDE DEF F, Next
  <2>1. PICK w \in [0 .. Limit -> Nat] :
          w[0] = Hash[k] /\ \A n \in 1 .. Limit : w[n] = F[n][w[n - 1]]
    BY <1>2, <1>4, RecursionExists, ZenonT(30)
  <2>2. \A n \in 1 .. Limit : F[n][w[n - 1]] = (w[n - 1] + Step[n - 1]) % NumBuckets
    <3>1. \A n \in 1 .. Limit : n \in Nat /\ w[n - 1] \in Nat
      BY <1>2, <2>1
    <3>2. QED
      BY <3>1 DEF F
  <2>3. w = Next(w)
    <3>1. \A n \in 0 .. Limit : n = 0 \/ n \in 1 .. Limit
      BY <1>2
    <3>2. QED
      BY <2>1, <2>2, <3>1 DEF Next
  <2>4. QED
    BY <2>3
<1> DEFINE W == CHOOSE w : w = Next(w)
           G == {n \in Nat : n <= Limit => W[n] \in Buckets}
<1>6. Walk[k] = [n \in 0 .. Limit |-> W[n]]
  BY DEF Walk
<1>7. W = Next(W)
  <2> HIDE DEF Next
  <2>1. QED
    BY <1>5
<1> HIDE DEF W
<1>8. W[0] = Hash[k] /\ \A n \in 1 .. Limit : W[n] = (W[n - 1] + Step[n - 1]) % NumBuckets
  BY <1>2, <1>7
<1>9. Nat \subseteq G
  <2>1. 0 \in G
    BY <1>2, <1>8
  <2>2. ASSUME NEW n \in Nat, n \in G PROVE n + 1 \in G
    <3>1. CASE n + 1 <= Limit
      <4>1. W[n + 1] = (W[(n + 1) - 1] + Step[(n + 1) - 1]) % NumBuckets /\ (n + 1) - 1 = n
        BY <1>2, <1>8, <3>1
      <4>2. W[n] \in Buckets /\ n \in 0 .. Limit
        BY <1>2, <2>2, <3>1
      <4>3. QED
        BY <1>3, <4>1, <4>2 DEF Buckets
    <3>2. CASE ~(n + 1 <= Limit)
      BY <3>2
    <3>3. QED
      BY <3>1, <3>2
  <2> HIDE DEF G
  <2>3. QED
    BY <2>1, <2>2, NumberInduction
<1>10. \A n \in 0 .. Limit : W[n] \in Buckets
  BY <1>2, <1>9
<1>11. QED
  BY <1>6, <1>10

\* Where a look up ends: nowhere, or at the key, a vacated bucket or the end of
\* the entries, with nothing of the key before.
LEMMA FindPlaces ==
  ASSUME HtTyped, NEW k \in HtKeys
  PROVE  LET i == HtFind(k) IN
         \/ Ends(k) = {} /\ i = NoBucket /\ Probes(k) = Limit
         \/ /\ Ends(k) # {} /\ i \in Buckets
            /\ Matches(i, k) \/ ~Taken(i)
            /\ \E n \in 0 .. Limit : /\ i = Walk[k][n] /\ PassedOver(k, n)
                                     /\ \A m \in 0 .. (n - 1) : Walk[k][m] # i
            /\ ~Matches(i, k) => \A n \in 0 .. Limit : PassedOver(k, n) => ~Matches(Walk[k][n], k)
<1> DEFINE E == Ends(k)
           p == Min(E)
           last == Walk[k][p]
           seen == {n \in 0 .. (p - 1) : ht[Walk[k][n]].vacated}
<1>1. \A n \in 0 .. Limit : Walk[k][n] \in Buckets
  BY WalkType
<1>2. E \in SUBSET (0 .. Limit) /\ Limit \in Nat
  BY HashAssumption DEF Ends
<1>3. CASE E = {}
  BY <1>3 DEF HtFind, Probes
<1>4. CASE E # {}
  <2>1. Probes(k) = p
    BY <1>4 DEF Probes
  <2>2. p \in E /\ \A n \in E : p <= n
    <3>1. E \in SUBSET Nat
      BY <1>2
    <3> HIDE DEF E
    <3>2. QED
      BY <1>4, <3>1, MinProperty
  <2>3. p \in 0 .. Limit /\ last \in Buckets /\ (Matches(last, k) \/ ht[last] = Empty)
    BY <1>1, <1>2, <2>2 DEF Ends
  <2>4. HtFind(k) = IF seen # {} /\ ~Matches(last, k) THEN Walk[k][Min(seen)] ELSE last
    BY <1>4, <2>1 DEF HtFind
  <2> HIDE DEF p
  <2>5. \A n \in 0 .. (p - 1) : ht[Walk[k][n]] # Empty /\ ~Matches(Walk[k][n], k)
    <3>1. ASSUME NEW n \in 0 .. (p - 1) PROVE n \in 0 .. Limit /\ ~(p <= n)
      BY <1>2, <2>3
    <3>2. QED
      BY <2>2, <3>1 DEF Ends
  <2>6. Empty.data = NoData
    BY DEF Empty
  <2>7. ASSUME ~Matches(last, k), NEW n \in 0 .. Limit, PassedOver(k, n) PROVE ~Matches(Walk[k][n], k)
    <3>1. ht[last] = Empty
      BY <2>3, <2>7
    <3>2. CASE n < p
      BY <2>3, <2>5, <3>2
    <3>3. CASE n = p
      BY <2>7, <3>3
    <3>4. CASE p < n
      <4>1. p \in 0 .. (n - 1)
        BY <2>3, <3>4
      <4>2. QED
        BY <2>7, <3>1, <4>1 DEF PassedOver
    <3>5. QED
      BY <2>3, <3>2, <3>3, <3>4
  <2>8. CASE seen # {} /\ ~Matches(last, k)
    <3> DEFINE q == Min(seen)
    <3>1. q \in seen /\ \A n \in seen : q <= n
      <4>1. seen \in SUBSET Nat
        BY <2>3
      <4> HIDE DEF seen
      <4>2. QED
        BY <2>8, <4>1, MinProperty
    <3>2. HtFind(k) = Walk[k][q]
      BY <2>4, <2>8
    <3> HIDE DEF q
    <3>3. q \in 0 .. Limit /\ q \in 0 .. (p - 1) /\ ht[Walk[k][q]].vacated
      BY <1>2, <2>3, <3>1
    <3>4. Walk[k][q] \in Buckets /\ ~Taken(Walk[k][q])
      <4>1. Walk[k][q] \in Buckets /\ ht[Walk[k][q]] \in Entries
        BY <1>1, <3>3 DEF HtTyped
      <4>2. ht[Walk[k][q]].data = NoData
        BY <3>3, <4>1, EntryForms
      <4>3. QED
        BY <4>1, <4>2 DEF Taken
    <3>5. PassedOver(k, q) /\ \A m \in 0 .. (q - 1) : Walk[k][m] # Walk[k][q]
      <4>1. ASSUME NEW m \in 0 .. (q - 1)
            PROVE  m \in 0 .. (p - 1) /\ Walk[k][m] # Walk[k][q]
        <5>1. m \in 0 .. (p - 1) /\ ~(q <= m)
          BY <2>3, <3>3
        <5>2. ~ht[Walk[k][m]].vacated
          BY <3>1, <5>1
        <5>3. QED
          BY <3>3, <5>1, <5>2
      <4>2. QED
        BY <2>5, <4>1 DEF PassedOver
    <3>6. ~Matches(Walk[k][q], k)
      BY <3>4 DEF Matches
    <3> HIDE DEF last, seen
    <3>7. QED
      BY <1>4, <2>7, <2>8, <3>2, <3>3, <3>4, <3>5, <3>6
  <2>9. CASE ~(seen # {} /\ ~Matches(last, k))
    <3>1. HtFind(k) = last
      BY <2>4, <2>9
    <3>2. Matches(last, k) \/ ~Taken(last)
      BY <2>3, <2>6 DEF Taken
    <3>3. PassedOver(k, p)
      BY <2>5 DEF PassedOver
    <3>4. \A m \in 0 .. (p - 1) : Walk[k][m] # last
      BY <2>3, <2>5
    <3>5. QED
      BY <1>4, <2>3, <2>7, <3>1, <3>2, <3>3, <3>4
  <2>10. QED
    BY <2>8, <2>9
<1>5. QED
  BY <1>3, <1>4

\* A key that is met on its walk is found there.
LEMMA MetIsFound ==
  ASSUME HtTyped, NEW k \in HtKeys, NEW n \in 0 .. Limit, PassedOver(k, n), Matches(Walk[k][n], k)
  PROVE  /\ HtFind(k) \in Buckets /\ HtFind(k) = Walk[k][n]
         /\ Matches(HtFind(k), k) /\ Found(HtFind(k))
<1>1. Ends(k) # {}
  BY DEF Ends
<1>2. HtFind(k) \in Buckets /\ Matches(HtFind(k), k)
  BY <1>1, FindPlaces
<1>3. PICK m \in 0 .. Limit : HtFind(k) = Walk[k][m] /\ PassedOver(k, m)
  BY <1>1, FindPlaces
<1>4. m = n
  <2>1. CASE m < n
    <3>1. m \in 0 .. (n - 1)
      BY <2>1
    <3>2. QED
      BY <1>2, <1>3, <3>1 DEF PassedOver
  <2>2. CASE n < m
    <3>1. n \in 0 .. (m - 1)
      BY <2>2
    <3>2. QED
      BY <1>3, <3>1 DEF PassedOver
  <2>3. QED
    BY <2>1, <2>2
<1>5. HtFind(k) # NoBucket
  BY <1>2, HashAssumption DEF Buckets, NoBucket
<1>6. QED
  BY <1>2, <1>3, <1>4, <1>5 DEF Found, Matches

\* What the invariant says of the look ups.
LEMMA InvFinds == HtInv => FindsStored
<1> SUFFICES ASSUME HtInv, NEW k \in HtKeys
             PROVE  LET last == stored[FourBytes[k]] IN
                    /\ (last # <<>> /\ last[1] = k) => Found(HtFind(k)) /\ ht[HtFind(k)].data = last[2]
                    /\ (last = <<>> /\ OnlyOfClass(k)) => ~Found(HtFind(k))
  BY DEF FindsStored
<1> DEFINE last == stored[FourBytes[k]]
<1>1. FourBytes[k] \in Classes /\ HtTyped
  BY DEF Classes, HtInv
<1>2. ASSUME last # <<>>, last[1] = k PROVE Found(HtFind(k)) /\ ht[HtFind(k)].data = last[2]
  <2>1. PICK l \in HtKeys, d \in HtData : last = <<l, d>>
    BY <1>1, <1>2 DEF HtTyped
  <2>2. last = <<k, d>> /\ last[2] = d
    BY <1>2, <2>1
  <2>3. PICK n \in 0 .. Limit : PassedOver(k, n) /\ Matches(Walk[k][n], k) /\ ht[Walk[k][n]].data = d
    BY <2>2 DEF HtInv, Kept
  <2>4. QED
    BY <1>1, <2>2, <2>3, MetIsFound
<1>3. ASSUME last = <<>>, OnlyOfClass(k) PROVE ~Found(HtFind(k))
  <2>1. \A i \in Buckets : ~Matches(i, k)
    BY <1>3 DEF HtInv, Single
  <2>2. HtFind(k) = NoBucket \/ (HtFind(k) \in Buckets /\ ~Taken(HtFind(k)))
    BY <1>1, <2>1, FindPlaces
  <2>3. QED
    BY <2>2 DEF Found
<1>4. QED
  BY <1>2, <1>3

-----------------------------------------------------------------------------
(* The operations.                                                           *)

TakenSet == {i \in Buckets : Taken(i)}

\* Quantify counts a finite set, before a step and after it.
LEMMA TakenCount ==
  /\ IsFiniteSet(TakenSet) /\ Cardinality(TakenSet) \in Nat
  /\ CountCovers <=> (counted => numData \in Cardinality(TakenSet) .. NumBuckets)
  /\ CountCovers' <=> (counted' => numData' \in Cardinality(TakenSet') .. NumBuckets)
<1>1. IsFiniteSet(Buckets) /\ TakenSet \in SUBSET Buckets
  BY FS_Interval, HashAssumption DEF Buckets, TakenSet
<1>2. IsFiniteSet(TakenSet) /\ Cardinality(TakenSet) \in Nat
  BY <1>1, FS_Subset, FS_CardinalityType
<1>3. CountCovers <=> (counted => numData \in Cardinality(TakenSet) .. NumBuckets)
  BY DEF CountCovers, Quantify, TakenSet
<1>4. CountCovers' <=> (counted' => numData' \in Cardinality(TakenSet') .. NumBuckets)
  BY DEF CountCovers, Quantify, TakenSet
<1>5. QED
  BY <1>2, <1>3, <1>4

\* A bucket of k, or one that holds nothing, is given k or vacated: the keys
\* that do not compare equal to k do not notice.
LEMMA OthersStay ==
  ASSUME HtTyped, NEW k \in HtKeys, NEW i \in Buckets, NEW e \in Entries,
         e # Empty, e = Vacated \/ e.key = k,
         Matches(i, k) \/ ~Taken(i), ht' = [ht EXCEPT ![i] = e],
         NEW l \in HtKeys, FourBytes[l] # FourBytes[k]
  PROVE  /\ \A j \in Buckets : (Matches(j, l)' <=> Matches(j, l))
                            /\ (Matches(j, l) => ht'[j] = ht[j])
         /\ \A n \in 0 .. Limit : PassedOver(l, n) => PassedOver(l, n)'
<1>1. ht'[i] = e /\ \A j \in Buckets : j # i => ht'[j] = ht[j]
  BY DEF HtTyped
<1>2. ~Matches(i, l) /\ ~Matches(i, l)'
  BY <1>1, EntryForms DEF Matches, Taken
<1>3. \A j \in Buckets : (Matches(j, l)' <=> Matches(j, l)) /\ (Matches(j, l) => ht'[j] = ht[j])
  <2>1. ASSUME NEW j \in Buckets
        PROVE  (Matches(j, l)' <=> Matches(j, l)) /\ (Matches(j, l) => ht'[j] = ht[j])
    <3>1. CASE j = i
      BY <1>2, <3>1
    <3>2. CASE j # i
      <4>1. ht'[j] = ht[j]
        BY <1>1, <3>2
      <4>2. QED
        BY <4>1 DEF Matches, Taken
    <3>3. QED
      BY <3>1, <3>2
  <2>2. QED
    BY <2>1
<1>4. \A j \in Buckets : ht[j] # Empty => ht'[j] # Empty
  BY <1>1
<1>5. ASSUME NEW n \in 0 .. Limit, PassedOver(l, n) PROVE PassedOver(l, n)'
  <2>1. \A m \in 0 .. (n - 1) : Walk[l][m] \in Buckets
    <3>1. \A m \in 0 .. (n - 1) : m \in 0 .. Limit
      BY HashAssumption
    <3>2. QED
      BY <3>1, WalkType
  <2>2. QED
    BY <1>3, <1>4, <1>5, <2>1 DEF PassedOver
<1>6. QED
  BY <1>3, <1>5

\* num_data++ and num_data-- stay within the type, and wrap at its ends only.
LEMMA CountSteps ==
  ASSUME numData \in 0 .. (NumWrap - 1)
  PROVE  /\ OneUp \in 0 .. (NumWrap - 1) /\ OneDown \in 0 .. (NumWrap - 1)
         /\ numData < NumBuckets => OneUp = numData + 1
         /\ numData > 0 => OneDown = numData - 1
<1>1. NumWrap \in Nat \ {0} /\ NumBuckets \in Nat /\ NumBuckets < NumWrap /\ numData \in Nat /\ numData < NumWrap
  BY HashAssumption
<1>2. OneUp \in 0 .. (NumWrap - 1) /\ (numData < NumBuckets => OneUp = numData + 1)
  BY <1>1 DEF OneUp
<1>3. OneDown \in 0 .. (NumWrap - 1) /\ (numData > 0 => OneDown = numData - 1)
  BY <1>1 DEF OneDown
<1>4. QED
  BY <1>2, <1>3

\* A new table is empty.
LEMMA EmptyTable ==
  ASSUME ht' = [i \in Buckets |-> Empty], numData' \in 0 .. (NumWrap - 1),
         stored' = [c \in Classes |-> <<>>], counted' = (numData' <= NumBuckets)
  PROVE  HtInv'
<1>1. HtTyped'
  BY HashAssumption DEF HtTyped, Entries
<1>2. \A k \in HtKeys : FourBytes[k] \in Classes
  BY DEF Classes
<1>3. Kept'
  BY <1>2 DEF Kept
<1>4. \A i \in Buckets : ~Taken(i)'
  BY EntryForms DEF Taken
<1>5. Single'
  BY <1>4 DEF Single, Matches
<1>6. CountCovers'
  <2>1. TakenSet' = {}
    BY <1>4 DEF TakenSet
  <2>2. counted' => numData' \in 0 .. NumBuckets
    <3>1. numData' <= NumBuckets => numData' \in 0 .. NumBuckets
      BY HashAssumption, SMT
    <3>2. QED
      BY <3>1, Zenon
  <2>3. QED
    BY <2>1, <2>2, TakenCount, FS_EmptySet
<1>7. QED
  BY <1>1, <1>3, <1>5, <1>6 DEF HtInv

\* The entry goes where the look up ended: at the key's own bucket, or before
\* the first that was never used, so that the next look up meets it.
LEMMA InsertKeeps ==
  ASSUME HtInv, NEW k \in HtKeys, NEW d \in HtData, HtInsert(k, d)
  PROVE  HtInv'
<1> DEFINE e == [key |-> k, data |-> d, vacated |-> FALSE]
<1> PICK i : i = HtFind(k)
  OBVIOUS
<1>1. HtTyped
  BY DEF HtInv
<1> counted' = counted
  BY DEF HtInsert
<1>2. CASE UNCHANGED <<ht, numData, stored>>
  BY <1>2 DEF HtInv, HtTyped, Kept, Single, PassedOver, Matches, Taken, CountCovers, Quantify
<1>3. CASE ~UNCHANGED <<ht, numData, stored>>
  <2>1. /\ Probes(k) # Limit /\ numData # NumBuckets /\ numData' = OneUp
        /\ ht' = [ht EXCEPT ![i] = e]
        /\ stored' = [stored EXCEPT ![FourBytes[k]] = <<k, d>>]
    BY <1>3 DEF HtInsert
  <2>2. i \in Buckets /\ (Matches(i, k) \/ ~Taken(i))
    BY <1>1, <2>1, FindPlaces
  <2>3. PICK n \in 0 .. Limit : i = Walk[k][n] /\ PassedOver(k, n) /\ \A m \in 0 .. (n - 1) : Walk[k][m] # i
    BY <1>1, <2>1, FindPlaces
  <2>4. ~Matches(i, k) => \A m \in 0 .. Limit : PassedOver(k, m) => ~Matches(Walk[k][m], k)
    BY <1>1, <2>1, FindPlaces
  <2>5. e \in Entries /\ e # Empty /\ e.key = k /\ e.data = d /\ ~e.vacated /\ e.data # NoData
    BY HashAssumption DEF Entries, Empty
  <2> HIDE DEF e
  <2>6. ht'[i] = e /\ \A j \in Buckets : j # i => ht'[j] = ht[j]
    BY <1>1, <2>1, <2>2 DEF HtTyped
  <2>7. /\ \A l \in HtKeys : FourBytes[l] \in Classes
        /\ DOMAIN stored = Classes /\ stored'[FourBytes[k]] = <<k, d>>
        /\ \A c \in Classes : c # FourBytes[k] => stored'[c] = stored[c]
    BY <1>1, <2>1 DEF Classes, HtTyped
  <2>8. HtTyped'
    <3>1. ht' \in [Buckets -> Entries] /\ numData' \in 0 .. (NumWrap - 1)
      <4>1. ht \in [Buckets -> Entries] /\ numData \in 0 .. (NumWrap - 1)
        BY <1>1 DEF HtTyped
      <4>2. numData' \in 0 .. (NumWrap - 1)
        BY <2>1, <4>1, CountSteps
      <4>3. QED
        BY <2>1, <2>5, <4>1, <4>2
    <3>2. ASSUME NEW c \in Classes
          PROVE  \/ stored'[c] = <<>>
                 \/ \E l \in HtKeys, f \in HtData : stored'[c] = <<l, f>> /\ FourBytes[l] = c
      <4>1. CASE c = FourBytes[k]
        BY <2>7, <4>1
      <4>2. CASE c # FourBytes[k]
        BY <1>1, <2>7, <4>2 DEF HtTyped
      <4>3. QED
        BY <4>1, <4>2
    <3>3. QED
      BY <2>1, <2>7, <3>1, <3>2 DEF HtTyped
  <2>9. PassedOver(k, n)' /\ Matches(i, k)'
    <3>1. \A m \in 0 .. (n - 1) : m \in 0 .. Limit
      BY HashAssumption
    <3>2. \A m \in 0 .. (n - 1) : Walk[k][m] \in Buckets
      BY <3>1, WalkType
    <3>3. \A m \in 0 .. (n - 1) : ht'[Walk[k][m]] = ht[Walk[k][m]]
      BY <2>3, <2>6, <3>2
    <3>4. PassedOver(k, n)'
      BY <2>3, <3>3 DEF PassedOver, Matches, Taken
    <3>5. Matches(i, k)'
      BY <2>5, <2>6 DEF Matches, Taken
    <3>6. QED
      BY <3>4, <3>5
  <2>10. ASSUME NEW l \in HtKeys, FourBytes[l] # FourBytes[k]
         PROVE  /\ \A j \in Buckets : (Matches(j, l)' <=> Matches(j, l))
                                   /\ (Matches(j, l) => ht'[j] = ht[j])
                /\ \A m \in 0 .. Limit : PassedOver(l, m) => PassedOver(l, m)'
    BY <1>1, <2>1, <2>2, <2>5, <2>10, OthersStay
  <2>11. Kept'
    <3>1. SUFFICES ASSUME NEW l \in HtKeys, NEW f \in HtData, stored'[FourBytes[l]] = <<l, f>>
                   PROVE  \E m \in 0 .. Limit :
                            PassedOver(l, m)' /\ Matches(Walk[l][m], l)' /\ ht'[Walk[l][m]].data = f
      BY DEF Kept
    <3>2. CASE FourBytes[l] = FourBytes[k]
      <4>1. l = k /\ f = d
        BY <2>7, <3>1, <3>2
      <4>2. PassedOver(k, n)' /\ Matches(Walk[k][n], k)' /\ ht'[Walk[k][n]].data = d
        BY <2>3, <2>5, <2>6, <2>9
      <4>3. QED
        BY <4>1, <4>2
    <3>3. CASE FourBytes[l] # FourBytes[k]
      <4>1. stored[FourBytes[l]] = <<l, f>>
        BY <2>7, <3>1, <3>3
      <4>2. PICK m \in 0 .. Limit : PassedOver(l, m) /\ Matches(Walk[l][m], l) /\ ht[Walk[l][m]].data = f
        BY <4>1 DEF HtInv, Kept
      <4>3. Walk[l][m] \in Buckets
        BY WalkType
      <4>4. QED
        BY <2>10, <3>3, <4>2, <4>3
    <3>4. QED
      BY <3>2, <3>3
  <2>12. Single'
    <3>1. ASSUME NEW l \in HtKeys, OnlyOfClass(l)
          PROVE  /\ \A x, y \in Buckets : Matches(x, l)' /\ Matches(y, l)' => x = y
                 /\ stored'[FourBytes[l]] = <<>> => \A x \in Buckets : ~Matches(x, l)'
      <4>1. CASE l = k
        <5>1. \A x \in Buckets : x # i => ~Matches(x, k)
          <6>1. CASE Matches(i, k)
            BY <2>2, <3>1, <4>1, <6>1 DEF HtInv, Single
          <6>2. CASE ~Matches(i, k)
            <7>1. stored[FourBytes[k]] = <<>>
              <8>1. SUFFICES ASSUME stored[FourBytes[k]] # <<>> PROVE FALSE
                OBVIOUS
              <8>2. PICK h \in HtKeys, f \in HtData :
                      stored[FourBytes[k]] = <<h, f>> /\ FourBytes[h] = FourBytes[k]
                BY <1>1, <2>7, <8>1 DEF HtTyped
              <8>3. h = k
                BY <3>1, <4>1, <8>2 DEF OnlyOfClass
              <8>4. QED
                BY <2>4, <6>2, <8>2, <8>3 DEF HtInv, Kept
            <7>2. QED
              BY <3>1, <4>1, <7>1 DEF HtInv, Single
          <6>3. QED
            BY <6>1, <6>2
        <5>2. \A x \in Buckets : x # i => ~Matches(x, k)'
          BY <2>6, <5>1 DEF Matches, Taken
        <5>3. stored'[FourBytes[k]] # <<>>
          BY <2>7
        <5>4. QED
          BY <4>1, <5>2, <5>3
      <4>2. CASE l # k
        <5>1. FourBytes[l] # FourBytes[k]
          BY <3>1, <4>2 DEF OnlyOfClass
        <5>2. /\ \A x, y \in Buckets : Matches(x, l) /\ Matches(y, l) => x = y
              /\ stored[FourBytes[l]] = <<>> => \A x \in Buckets : ~Matches(x, l)
          BY <3>1 DEF HtInv, Single
        <5>3. stored'[FourBytes[l]] = stored[FourBytes[l]]
          BY <2>7, <5>1
        <5>4. QED
          BY <2>10, <5>1, <5>2, <5>3
      <4>3. QED
        BY <4>1, <4>2
    <3>2. QED
      BY <3>1 DEF Single, OnlyOfClass
  <2>13. CountCovers'
    <3>1. TakenSet' = TakenSet \cup {i}
      BY <2>2, <2>5, <2>6 DEF TakenSet, Taken
    <3>2. Cardinality(TakenSet \cup {i}) <= Cardinality(TakenSet) + 1
      <4>1. IsFiniteSet(TakenSet) /\ Cardinality(TakenSet) \in Nat
        BY TakenCount
      <4>2. i \in TakenSet => TakenSet \cup {i} = TakenSet
        OBVIOUS
      <4>3. i \notin TakenSet => Cardinality(TakenSet \cup {i}) = Cardinality(TakenSet) + 1
        BY <4>1, FS_AddElement
      <4> DEFINE c == Cardinality(TakenSet)
                 f == Cardinality(TakenSet \cup {i})
      <4>4. f = c \/ f = c + 1
        BY <4>2, <4>3
      <4>5. c \in Nat
        BY <4>1
      <4> HIDE DEF c, f
      <4>6. f <= c + 1
        BY <4>4, <4>5
      <4>7. QED
        BY <4>6 DEF c, f
    <3>3. SUFFICES ASSUME counted
                   PROVE  numData' \in Cardinality(TakenSet \cup {i}) .. NumBuckets
      BY <3>1, TakenCount
    <3>4. /\ numData \in 0 .. (NumWrap - 1) /\ numData \in Cardinality(TakenSet) .. NumBuckets
          /\ Cardinality(TakenSet) \in Nat /\ NumBuckets \in Nat
      BY <1>1, <3>3, TakenCount, HashAssumption DEF HtInv, HtTyped
    <3>5. numData' = numData + 1 /\ numData < NumBuckets
      BY <2>1, <3>4, CountSteps
    <3>6. Cardinality(TakenSet \cup {i}) \in Nat
      BY TakenCount, FS_AddElement, FS_CardinalityType
    <3>7. QED
      BY <3>2, <3>4, <3>5, <3>6
  <2>14. QED
    BY <2>8, <2>11, <2>12, <2>13 DEF HtInv
<1>4. QED
  BY <1>2, <1>3

\* The bucket is vacated, not emptied: the walks over it go on.
LEMMA RemoveKeeps ==
  ASSUME HtInv, NEW k \in HtKeys, HtRemove(k)
  PROVE  HtInv'
<1> PICK i : i = HtFind(k)
  OBVIOUS
<1>1. HtTyped
  BY DEF HtInv
<1> counted' = counted
  BY DEF HtRemove
<1>2. CASE ~Found(i)
  <2>1. UNCHANGED <<ht, numData, stored>>
    BY <1>2 DEF HtRemove
  <2>2. QED
    BY <2>1 DEF HtInv, HtTyped, Kept, Single, PassedOver, Matches, Taken, CountCovers, Quantify
<1>3. CASE Found(i)
  <2>1. /\ ht' = [ht EXCEPT ![i] = Vacated]
        /\ numData' = OneDown
        /\ stored' = [stored EXCEPT ![FourBytes[k]] = <<>>]
    BY <1>3 DEF HtRemove, Vacated
  <2>2. i \in Buckets /\ Matches(i, k) /\ Taken(i)
    BY <1>1, <1>3, FindPlaces DEF Found
  <2>3. Vacated \in Entries /\ Vacated # Empty /\ Vacated.vacated /\ Vacated.data = NoData
    BY EntryForms DEF Entries
  <2>4. ht'[i] = Vacated /\ \A j \in Buckets : j # i => ht'[j] = ht[j]
    BY <1>1, <2>1, <2>2 DEF HtTyped
  <2>5. /\ \A l \in HtKeys : FourBytes[l] \in Classes
        /\ DOMAIN stored = Classes /\ stored'[FourBytes[k]] = <<>>
        /\ \A c \in Classes : c # FourBytes[k] => stored'[c] = stored[c]
    BY <1>1, <2>1 DEF Classes, HtTyped
  <2>6. HtTyped'
    <3>1. ht \in [Buckets -> Entries] /\ numData \in 0 .. (NumWrap - 1)
      BY <1>1 DEF HtTyped
    <3>2. numData' \in 0 .. (NumWrap - 1)
      BY <2>1, <3>1, CountSteps
    <3>3. ht' \in [Buckets -> Entries]
      BY <2>1, <2>3, <3>1
    <3>4. ASSUME NEW c \in Classes
          PROVE  \/ stored'[c] = <<>>
                 \/ \E l \in HtKeys, f \in HtData : stored'[c] = <<l, f>> /\ FourBytes[l] = c
      <4>1. CASE c = FourBytes[k]
        BY <2>5, <4>1
      <4>2. CASE c # FourBytes[k]
        BY <1>1, <2>5, <4>2 DEF HtTyped
      <4>3. QED
        BY <4>1, <4>2
    <3>5. QED
      BY <2>1, <2>5, <3>2, <3>3, <3>4 DEF HtTyped
  <2>7. ASSUME NEW l \in HtKeys, FourBytes[l] # FourBytes[k]
        PROVE  /\ \A j \in Buckets : (Matches(j, l)' <=> Matches(j, l))
                                  /\ (Matches(j, l) => ht'[j] = ht[j])
               /\ \A m \in 0 .. Limit : PassedOver(l, m) => PassedOver(l, m)'
    BY <1>1, <2>1, <2>2, <2>3, <2>7, OthersStay
  <2>8. Kept'
    <3>1. SUFFICES ASSUME NEW l \in HtKeys, NEW f \in HtData, stored'[FourBytes[l]] = <<l, f>>
                   PROVE  \E m \in 0 .. Limit :
                            PassedOver(l, m)' /\ Matches(Walk[l][m], l)' /\ ht'[Walk[l][m]].data = f
      BY DEF Kept
    <3>2. FourBytes[l] # FourBytes[k]
      <4>1. <<l, f>> # <<>>
        OBVIOUS
      <4>2. QED
        BY <2>5, <3>1, <4>1
    <3>3. stored[FourBytes[l]] = <<l, f>>
      BY <2>5, <3>1, <3>2
    <3>4. PICK m \in 0 .. Limit : PassedOver(l, m) /\ Matches(Walk[l][m], l) /\ ht[Walk[l][m]].data = f
      BY <3>3 DEF HtInv, Kept
    <3>5. Walk[l][m] \in Buckets
      BY WalkType
    <3>6. QED
      BY <2>7, <3>2, <3>4, <3>5
  <2>9. Single'
    <3>1. ASSUME NEW l \in HtKeys, OnlyOfClass(l)
          PROVE  /\ \A x, y \in Buckets : Matches(x, l)' /\ Matches(y, l)' => x = y
                 /\ stored'[FourBytes[l]] = <<>> => \A x \in Buckets : ~Matches(x, l)'
      <4>1. CASE l = k
        <5>1. \A x \in Buckets : ~Matches(x, k)'
          <6>1. \A x \in Buckets : x # i => ~Matches(x, k)
            BY <2>2, <3>1, <4>1 DEF HtInv, Single
          <6>2. \A x \in Buckets : x # i => ~Matches(x, k)'
            BY <2>4, <6>1 DEF Matches, Taken
          <6>3. ~Matches(i, k)'
            BY <2>3, <2>4 DEF Matches, Taken
          <6>4. QED
            BY <6>2, <6>3
        <5>2. QED
          BY <4>1, <5>1
      <4>2. CASE l # k
        <5>1. FourBytes[l] # FourBytes[k]
          BY <3>1, <4>2 DEF OnlyOfClass
        <5>2. /\ \A x, y \in Buckets : Matches(x, l) /\ Matches(y, l) => x = y
              /\ stored[FourBytes[l]] = <<>> => \A x \in Buckets : ~Matches(x, l)
          BY <3>1 DEF HtInv, Single
        <5>3. stored'[FourBytes[l]] = stored[FourBytes[l]]
          BY <2>5, <5>1
        <5>4. QED
          BY <2>7, <5>1, <5>2, <5>3
      <4>3. QED
        BY <4>1, <4>2
    <3>2. QED
      BY <3>1 DEF Single, OnlyOfClass
  <2>10. CountCovers'
    <3>1. TakenSet' = TakenSet \ {i} /\ i \in TakenSet
      BY <2>2, <2>3, <2>4 DEF TakenSet, Taken
    <3>2. IsFiniteSet(TakenSet) /\ Cardinality(TakenSet) \in Nat
      BY TakenCount
    <3>3. Cardinality(TakenSet') = Cardinality(TakenSet) - 1
      BY <3>1, <3>2, FS_RemoveElement
    <3>4. SUFFICES ASSUME counted
                   PROVE  numData' \in Cardinality(TakenSet') .. NumBuckets
      BY TakenCount
    <3>5. /\ numData \in 0 .. (NumWrap - 1) /\ numData \in Cardinality(TakenSet) .. NumBuckets
          /\ NumBuckets \in Nat /\ Cardinality(TakenSet') \in Nat
      BY <1>1, <3>1, <3>2, <3>4, TakenCount, FS_RemoveElement, FS_CardinalityType, HashAssumption DEF HtInv, HtTyped
    <3>6. numData > 0
      BY <3>2, <3>3, <3>5
    <3>7. numData' = numData - 1
      BY <2>1, <3>5, <3>6, CountSteps
    <3>8. QED
      BY <3>2, <3>3, <3>5, <3>7
  <2>11. QED
    BY <2>6, <2>8, <2>9, <2>10 DEF HtInv
<1>4. QED
  BY <1>2, <1>3

\* Every operation keeps the invariant.
LEMMA HtStep == HtInv /\ [HtNext]_htVars => HtInv'
<1> SUFFICES ASSUME HtInv, [HtNext]_htVars PROVE HtInv'
  OBVIOUS
<1>1. CASE UNCHANGED <<ht, numData, stored, counted>>
  BY <1>1 DEF HtInv, HtTyped, Kept, Single, PassedOver, Matches, Taken, CountCovers, Quantify
<1>2. CASE HtCreate
  BY <1>2, EmptyTable DEF HtCreate
<1>3. ASSUME NEW k \in HtKeys, HtLookup(k) \/ HtRemove(k) PROVE HtInv'
  BY <1>1, <1>3, RemoveKeeps DEF HtLookup
<1>4. ASSUME NEW k \in HtKeys, NEW d \in HtData, HtInsert(k, d) PROVE HtInv'
  BY <1>4, InsertKeeps
<1>5. QED
  BY <1>1, <1>2, <1>3, <1>4 DEF HtNext, htVars

\* At first the table is empty.
LEMMA HtStart == HtInit => HtInv
<1> SUFFICES ASSUME HtInit PROVE HtInv
  OBVIOUS
<1>1. HtTyped
  BY HashAssumption DEF HtInit, HtTyped, Entries
<1>2. \A k \in HtKeys : FourBytes[k] \in Classes
  BY DEF Classes
<1>3. \A i \in Buckets : ~Taken(i)
  BY EntryForms DEF HtInit, Taken
<1>4. Kept /\ Single
  BY <1>2, <1>3 DEF HtInit, Kept, Single, Matches
<1>5. CountCovers
  <2>1. TakenSet = {}
    BY <1>3 DEF TakenSet
  <2>2. counted => numData \in 0 .. NumBuckets
    <3>1. numData \in 0 .. (NumWrap - 1) /\ counted = (numData <= NumBuckets)
      BY DEF HtInit
    <3>2. numData <= NumBuckets => numData \in 0 .. NumBuckets
      BY <3>1, HashAssumption, SMT
    <3>3. QED
      BY <3>1, <3>2, Zenon
  <2>3. QED
    BY <2>1, <2>2, TakenCount, FS_EmptySet
<1>6. QED
  BY <1>1, <1>4, <1>5 DEF HtInv

-----------------------------------------------------------------------------
(* What holds of every run.                                                  *)

\* The invariant of the table.
THEOREM HtInvariant == HtSpec => []HtInv
<1>1. QED
  BY HtStart, HtStep, PTL DEF HtSpec

\* ht_lookup finds what was inserted last for a key, with its data, whatever was
\* inserted and removed on its walk since, and does not find what was removed.
THEOREM TableFindsStored == HtSpec => []FindsStored
<1>1. QED
  BY HtInvariant, InvFinds, PTL

\* Where num_data started at most at NUM_BUCKETS it stays there and is never
\* below the entries.
THEOREM NumDataCovers == HtSpec => []CountCovers
<1>1. HtInv => CountCovers
  BY DEF HtInv
<1>2. QED
  BY <1>1, HtInvariant, PTL

\* Once a NULL bucket was read, no bucket is left that never held an entry.
NullWhenUsedUp == ~htRuns => \A i \in Buckets : ht[i] # Empty

\* A look up that ends nowhere has been everywhere.
LEMMA NullStep ==
  ASSUME WalksEverywhere, HtInv, NullWhenUsedUp, [HtNext]_htVars
  PROVE  NullWhenUsedUp'
<1>1. ASSUME NEW k \in HtKeys, HtFind(k) = NoBucket PROVE \A i \in Buckets : ht[i] # Empty
  <2>1. Ends(k) = {}
    BY <1>1, FindPlaces, HashAssumption DEF Buckets, NoBucket, HtInv
  <2>2. QED
    BY <2>1 DEF Ends, WalksEverywhere
<1>2. CASE UNCHANGED <<ht, htRuns>>
  BY <1>2 DEF NullWhenUsedUp
<1>3. CASE htRuns' = TRUE
  BY <1>3 DEF NullWhenUsedUp
<1>4. ASSUME NEW k \in HtKeys, HtLookup(k) \/ HtRemove(k), ~htRuns' PROVE NullWhenUsedUp'
  <2>1. HtFind(k) = NoBucket
    BY <1>4 DEF HtLookup, HtRemove
  <2>2. UNCHANGED ht
    BY <1>4, <2>1 DEF HtLookup, HtRemove, Found
  <2>3. QED
    BY <1>1, <2>1, <2>2 DEF NullWhenUsedUp
<1>5. CASE UNCHANGED htVars
  BY <1>2, <1>5 DEF htVars
<1>6. CASE HtCreate \/ \E k \in HtKeys, d \in HtData : HtInsert(k, d)
  BY <1>3, <1>6 DEF HtCreate, HtInsert, NullWhenUsedUp
<1>7. CASE \E k \in HtKeys : HtLookup(k) \/ HtRemove(k)
  BY <1>4, <1>7 DEF NullWhenUsedUp
<1>8. QED
  BY <1>5, <1>6, <1>7 DEF HtNext

\* Where the walks come to every bucket, a look up finds NULL only when no bucket
\* is left that never held an entry.  num_data, an unsigned number that wraps and
\* starts as anything, is between the entries and NUM_BUCKETS wherever it started
\* at most at NUM_BUCKETS.
THEOREM TableCountsAndIsUsedUp == WalksEverywhere /\ HtSpec => []CountCoversEntries
<1>1. HtInit => NullWhenUsedUp
  BY DEF HtInit, NullWhenUsedUp
<1>2. HtInv /\ NullWhenUsedUp => CountCoversEntries
  BY DEF HtInv, CountCovers, NullWhenUsedUp, CountCoversEntries
<1>3. WalksEverywhere /\ HtSpec => []NullWhenUsedUp
  <2> SUFFICES ASSUME WalksEverywhere PROVE HtSpec => []NullWhenUsedUp
    OBVIOUS
  <2>1. HtInv /\ NullWhenUsedUp /\ [HtNext]_htVars => NullWhenUsedUp'
    BY NullStep
  <2>2. QED
    BY <1>1, <2>1, HtInvariant, PTL DEF HtSpec
<1>4. QED
  BY <1>2, <1>3, HtInvariant, PTL
=============================================================================
