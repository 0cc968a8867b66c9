------------------------------- MODULE MemPool -------------------------------
(***************************************************************************)
(* memman_pool: banks of equal pieces, the i-th for pieces of i bytes.  The *)
(* first byte of a piece tells its size while it is out; free puts it back  *)
(* on the bank of that byte.  Bytes and pointers are those of a build whose *)
(* pointers have four bytes, the one the comments assume.                   *)
(***************************************************************************)
EXTENDS Integers, SequencesExt, FiniteSetsExt

CONSTANTS
  MaxSize,    \* MAX_MEM_ALLOCATABLE_SIZE, 128 in the code
  MinUnit,    \* the smallest bank used, 4 in the code
  PerBank,    \* NUM_MEM_NODES_PER_BANK, 10 in the code
  MaxPieces,  \* bound: pieces ever made
  MayFail     \* whether malloc may fail

ASSUME PoolAssumption ==
  /\ {MaxSize, MinUnit, PerBank} \subseteq Nat \ {0} /\ MinUnit < MaxSize
  /\ MayFail \in BOOLEAN

VARIABLES
  available,  \* available[i]: the free pieces of bank i, the next one first
  chunks,     \* chunks[i]: "none", "ok", or "half": a chunk without memory
  out,        \* the pieces handed out, with the size they were asked with
  made,       \* history: pieces made so far
  poolRuns    \* "yes", or the pointer that ended it

poolVars == <<available, chunks, out, made, poolRuns>>

Banks == 0..(MaxSize - 1)

\* A piece that malloc made for the caller alone belongs to no bank.
Piece(unit, n) == [unit |-> unit, id |-> n]
NoBank == MaxSize

PoolInit ==
  /\ available = [i \in Banks |-> <<>>]
  /\ chunks = [i \in Banks |-> "none"]
  /\ out = {}
  /\ made = 0
  /\ poolRuns = "yes"

\* mem_pool_init: the banks are forgotten, not freed.
MemPoolInit ==
  /\ poolRuns = "yes"
  /\ available' = [i \in Banks |-> <<>>]
  /\ chunks' = [i \in Banks |-> "none"]
  /\ UNCHANGED <<out, made, poolRuns>>

\* Only banks with a chunk are emptied; the pointers of a chunk without memory
\* were never set, and are followed.  Big pieces stay with their owners.
MemPoolDestroy ==
  /\ poolRuns = "yes"
  /\ poolRuns' \in IF \E i \in Banks : chunks[i] = "half" THEN {"yes", "fault"} ELSE {"yes"}
  /\ available' = [i \in Banks |-> IF chunks[i] = "none" THEN available[i] ELSE <<>>]
  /\ chunks' = [i \in Banks |-> "none"]
  /\ out' = {p \in out : p.piece.unit = NoBank}
  /\ UNCHANGED made

NewPieces(i) == [n \in 1..PerBank |-> Piece(i, made + n)]

\* Fault: the byte tells what was asked for.
TakeAsked(i, pieces, size) ==
  /\ available' = [available EXCEPT ![i] = Tail(pieces)]
  /\ out' = out \cup {[piece |-> Head(pieces), size |-> size - 1]}
Take(i, pieces, size) ==
  /\ available' = [available EXCEPT ![i] = Tail(pieces)]
  /\ out' = out \cup {[piece |-> Head(pieces), size |-> size]}

\* A new chunk for bank i, the first or a further one, and its first piece.
Grow(i, size) ==
  /\ made + PerBank <= MaxPieces
  /\ Take(i, NewPieces(i), size)
  /\ made' = made + PerBank
  /\ chunks' = [chunks EXCEPT ![i] = IF @ = "none" THEN "ok" ELSE @]
  /\ UNCHANGED poolRuns

\* The first chunk of a bank: either malloc fails, and NULL is returned; the
\* second failure leaves the chunk in the list.  A further chunk is used
\* unseen.
GrowFails(i) ==
  /\ MayFail
  /\ IF chunks[i] = "none"
     THEN chunks' \in {chunks, [chunks EXCEPT ![i] = "half"]} /\ UNCHANGED poolRuns
     ELSE UNCHANGED chunks /\ poolRuns' = "fault"
  /\ UNCHANGED <<available, out, made>>

Big(size) ==
  /\ made < MaxPieces
  /\ out' = out \cup {[piece |-> Piece(NoBank, made + 1), size |-> 0]}
  /\ made' = made + 1
  /\ UNCHANGED <<available, chunks, poolRuns>>

BankOf(size) == IF size > MinUnit THEN size ELSE MinUnit

\* One byte more is taken than was asked for.  The bank of the greatest size
\* is past the end of the banks.
MemAlloc(asked) ==
  LET size == asked + 1  i == BankOf(size) IN
  /\ poolRuns = "yes"
  /\ IF size > MaxSize THEN Big(size)
     ELSE IF i \notin Banks
     THEN poolRuns' = "outside" /\ UNCHANGED <<available, chunks, out, made>>
     ELSE IF available[i] # <<>>
     THEN Take(i, available[i], size) /\ UNCHANGED <<chunks, made, poolRuns>>
     ELSE Grow(i, size) \/ GrowFails(i)

\* The bank is told by the byte alone: small pieces do not go back to the bank
\* they came from.  The byte before a big piece is the last one of malloc's
\* own size word, 0 (size 0 here).
MemFree(p) ==
  /\ poolRuns = "yes"
  /\ out' = out \ {p}
  /\ available' = [available EXCEPT ![p.size] = <<p.piece>> \o @]
  /\ UNCHANGED <<chunks, made, poolRuns>>

PoolNext ==
  \/ MemPoolInit \/ MemPoolDestroy
  \/ \E asked \in 1..MaxSize : MemAlloc(asked)
  \/ \E p \in out : MemFree(p)

PoolSpec == PoolInit /\ [][PoolNext]_poolVars

-----------------------------------------------------------------------------
(* Properties                                                               *)

Free(i) == ToSet(available[i])
AllFree == UNION {Free(i) : i \in Banks}
InUse == {p.piece : p \in out}

\* No piece is handed out twice, nor free and in use, nor free twice, and a
\* piece in use is as long as its bank says and as was asked: what small and
\* big pieces do to the other banks is never handed out again.
PiecesAreSound ==
  /\ \A p, q \in out : p.piece = q.piece => p = q
  /\ \A i \in Banks : IsInjective(available[i])
  /\ \A i, j \in Banks : i # j => Free(i) \cap Free(j) = {}
  /\ AllFree \cap InUse = {}
  /\ \A i \in Banks : i >= MinUnit => \A piece \in Free(i) : piece.unit = i
  /\ \A p \in out : p.piece.unit >= p.size

=============================================================================
