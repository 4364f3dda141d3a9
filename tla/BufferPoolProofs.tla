-------------------------- MODULE BufferPoolProofs --------------------------
(***************************************************************************)
(* Theorems about the pool for every number of buffers, map word width,    *)
(* buffer size, prefix and set of holders that PoolAssumption admits.      *)
(*                                                                         *)
(* The argument: the counts, the free map, the bounds of the data and the  *)
(* high-water mark are inductive together (PoolInv): set_len needs InBounds *)
(* to stay in its type, buffer_unref needs RefsExact to know that the count *)
(* it drops is positive, FreeExact follows from both.  A call moves one     *)
(* reference of one buffer, so the set of its holders gains or loses one   *)
(* element and every other set is as it was: GainHolder and LoseHolder say *)
(* so of any map from holders to handles.                                  *)
(***************************************************************************)
EXTENDS BufferPool, FiniteSetTheorems, WellFoundedInduction, TLAPS

In(f, h) == {c \in Holders : f[c] = h}

(* One place starts to keep h. *)
LEMMA GainHolder ==
  ASSUME NEW f \in [Holders -> Handles \union {BUFFER_NONE}],
         NEW c \in Holders, NEW h, f[c] # h
  PROVE  LET g == [f EXCEPT ![c] = h]
         IN  Cardinality(In(g, h)) = Cardinality(In(f, h)) + 1
<1> DEFINE g == [f EXCEPT ![c] = h]
<1>1. IsFiniteSet(In(f, h))
  BY FS_Subset, PoolAssumption DEF In
<1>2. In(g, h) = In(f, h) \cup {c} /\ c \notin In(f, h)
  BY DEF In
<1>3. QED
  BY <1>1, <1>2, FS_AddElement

(* One place stops keeping h. *)
LEMMA LoseHolder ==
  ASSUME NEW f \in [Holders -> Handles \union {BUFFER_NONE}],
         NEW c \in Holders, NEW k, f[c] # k
  PROVE  LET g == [f EXCEPT ![c] = k]
         IN  Cardinality(In(g, f[c])) = Cardinality(In(f, f[c])) - 1
<1> DEFINE g == [f EXCEPT ![c] = k]
<1>1. IsFiniteSet(In(f, f[c]))
  BY FS_Subset, PoolAssumption DEF In
<1>2. In(g, f[c]) = In(f, f[c]) \ {c} /\ c \in In(f, f[c])
  BY DEF In
<1>3. QED
  BY <1>1, <1>2, FS_RemoveElement

(* Cardinalities of holder sets are naturals, none above RefMax, and zero   *)
(* exactly when nobody holds the buffer.                                    *)
LEMMA HolderCount ==
  ASSUME NEW f, NEW h
  PROVE  /\ Cardinality(In(f, h)) \in 0 .. RefMax
         /\ Cardinality(In(f, h)) = 0 <=> In(f, h) = {}
<1>1. IsFiniteSet(In(f, h)) /\ Cardinality(In(f, h)) <= Cardinality(Holders)
  BY FS_Subset, PoolAssumption DEF In
<1>2. Cardinality(In(f, h)) \in Nat /\ Cardinality(Holders) \in Nat
  BY <1>1, FS_CardinalityType, PoolAssumption
<1>3. Cardinality(In(f, h)) = 0 <=> In(f, h) = {}
  BY <1>1, FS_EmptySet
<1>4. QED
  BY <1>1, <1>2, <1>3, PoolAssumption

(* The used counter follows the free map, one buffer at a time. *)
LEMMA UsedCounts ==
  ASSUME NEW F \in SUBSET Handles, NEW h \in Handles
  PROVE  /\ Cardinality(Handles \ F) \in 0 .. Count
         /\ h \in F => Cardinality(Handles \ (F \ {h}))
                         = Cardinality(Handles \ F) + 1
         /\ h \notin F => Cardinality(Handles \ (F \union {h}))
                            = Cardinality(Handles \ F) - 1
<1>1. IsFiniteSet(Handles) /\ Cardinality(Handles) = Count
  BY FS_Interval, PoolAssumption DEF Handles
<1>2. IsFiniteSet(Handles \ F) /\ Cardinality(Handles \ F) <= Count
  BY <1>1, FS_Subset
<1>3. Cardinality(Handles \ F) \in Nat
  BY <1>2, FS_CardinalityType
<1>4. ASSUME h \in F
      PROVE  Cardinality(Handles \ (F \ {h})) = Cardinality(Handles \ F) + 1
  <2>1. Handles \ (F \ {h}) = (Handles \ F) \cup {h} /\ h \notin Handles \ F
    BY <1>4
  <2>2. QED
    BY <2>1, <1>2, FS_AddElement
<1>5. ASSUME h \notin F
      PROVE  Cardinality(Handles \ (F \union {h})) = Cardinality(Handles \ F) - 1
  <2>1. Handles \ (F \union {h}) = (Handles \ F) \ {h} /\ h \in Handles \ F
    BY <1>5
  <2>2. QED
    BY <2>1, <1>2, FS_RemoveElement
<1>6. QED
  BY <1>2, <1>3, <1>4, <1>5, PoolAssumption

(* The literal stays hidden elsewhere: the provers only need its sign. *)
LEMMA U16Positive == U16 \in Nat \ {0}
BY DEF U16

(* What fits a uint16_t is not changed by storing it. *)
LEMMA U16Identity == ASSUME NEW x \in 0 .. U16 - 1 PROVE x % U16 = x
BY U16Positive

(* There is at least one word, and words are numbered by integers. *)
LEMMA WordsPositive == Words \in Nat \ {0}
BY PoolAssumption DEF Words

(* The scan only yields a free buffer, from a word of the map. *)
LEMMA ScanSound ==
  ASSUME TypeOK, NEW h, ScanYields(h)
  PROVE  h \in free /\ h \in Handles /\ h \div WordBits \in 0 .. Words - 1
<1>1. PICK n \in 0 .. Words - 1 : h \in FreeIn(WordAt(n))
  BY DEF ScanYields
<1>2. WordAt(n) \in 0 .. Words - 1
  BY <1>1, WordsPositive DEF WordAt, TypeOK
<1>3. QED
  BY <1>1, <1>2 DEF FreeIn, TypeOK

-----------------------------------------------------------------------------
PoolInv == TypeOK /\ RefsExact /\ FreeExact /\ InBounds /\ HighWaterCovers

(* The counts in terms of In, the form the lemmas above speak of. *)
LEMMA RefsAreHolders ==
  /\ RefsExact  <=> \A h \in Handles : refs[h] = Cardinality(In(held, h))
  /\ RefsExact' <=> \A h \in Handles : refs'[h] = Cardinality(In(held', h))
BY DEF RefsExact, HoldersOf, In

(* The ceiling of BUFFER_POOL_DECLARE, with its literal hidden. *)
LEMMA COUNT_MAXIsInt == COUNT_MAX \in Nat
BY DEF COUNT_MAX, BUFFER_NONE

(* BUFFER_NONE is not a handle: the ceiling leaves it free. *)
LEMMA NoneIsNoHandle == BUFFER_NONE \notin Handles
BY PoolAssumption DEF BUFFER_NONE, Handles, COUNT_MAX

(* buffer_pool_init establishes the invariant. *)
LEMMA InitCounts == Init => PoolInv
<1> SUFFICES ASSUME Init PROVE PoolInv
  OBVIOUS
<1>1. TypeOK
  <2>1. 0 \in 0 .. U16 - 1
    BY U16Positive
  <2>2. QED
    BY <2>1, WordsPositive DEF Init, TypeOK
<1>2. RefsExact
  <2>1. \A h \in Handles : In(held, h) = {}
    BY NoneIsNoHandle DEF Init, In
  <2>2. QED
    BY <2>1, HolderCount, RefsAreHolders DEF Init
<1>3. FreeExact
  <2>1. Handles \ free = {}
    BY DEF Init
  <2>2. QED
    BY <2>1, FS_EmptySet DEF Init, FreeExact
<1>4. InBounds /\ HighWaterCovers
  BY PoolAssumption, U16Positive, COUNT_MAXIsInt DEF Init, InBounds, HighWaterCovers
<1>5. QED
  BY <1>1, <1>2, <1>3, <1>4 DEF PoolInv

(* buffer_acquire preserves it. *)
LEMMA AcquireCounts ==
  ASSUME PoolInv, NEW c \in Holders, Acquire(c)
  PROVE  PoolInv'
<1>1. PICK h \in free : Allot(h) /\ held' = [held EXCEPT ![c] = h]
  BY DEF Acquire
<1>2. h \in Handles /\ h \div WordBits \in 0 .. Words - 1
  BY <1>1, ScanSound DEF Allot, PoolInv
<1>3. held \in [Holders -> Handles \union {BUFFER_NONE}] /\ held[c] = BUFFER_NONE
  BY DEF PoolInv, TypeOK, Acquire
<1>4. TypeOK'
  <2>1. Offset \in 0 .. U16 - 1 /\ 0 \in 0 .. U16 - 1
    BY PoolAssumption, U16Positive
  <2>2. QED
    BY <1>1, <1>2, <2>1 DEF Allot, PoolInv, TypeOK
<1>5. RefsExact'
  <2>1. refs[h] = 0
    BY <1>1 DEF PoolInv, FreeExact
  <2>2. Cardinality(In(held', h)) = Cardinality(In(held, h)) + 1
    BY <1>1, <1>2, <1>3, NoneIsNoHandle, GainHolder
  <2>3. \A k \in Handles \ {h} : In(held', k) = In(held, k)
    BY <1>1, <1>3, NoneIsNoHandle DEF In
  <2>4. refs' = [refs EXCEPT ![h] = 1]
    BY <1>1 DEF Allot
  <2>5. QED
    BY <1>2, <2>1, <2>2, <2>3, <2>4, RefsAreHolders DEF PoolInv, TypeOK
<1>6. FreeExact'
  <2>1. used' = Cardinality(Handles \ free')
    BY <1>1, <1>2, UsedCounts DEF Allot, PoolInv, FreeExact, TypeOK
  <2>2. free' = {k \in Handles : refs'[k] = 0}
    BY <1>1, <1>2 DEF Allot, PoolInv, FreeExact, TypeOK
  <2>3. QED
    BY <2>1, <2>2 DEF FreeExact
<1>7. InBounds' /\ HighWaterCovers'
  <2>1. used' \in 0 .. Count
    BY <1>4, <1>6, UsedCounts, <1>2 DEF FreeExact, TypeOK
  <2>2. HighWaterCovers'
    BY <1>1, <2>1 DEF Allot, PoolInv, TypeOK, HighWaterCovers
  <2>3. InBounds'
    BY <1>1, <1>2, PoolAssumption, U16Positive DEF Allot, PoolInv, TypeOK, InBounds
  <2>4. QED
    BY <2>2, <2>3
<1>8. QED
  BY <1>4, <1>5, <1>6, <1>7 DEF PoolInv

(* A place that keeps nothing bounds the holders of every buffer away from  *)
(* RefMax, which is why buffer_ref never saturates.                         *)
LEMMA RoomForOneMore ==
  ASSUME TypeOK, NEW d \in Holders, held[d] = BUFFER_NONE, NEW h \in Handles
  PROVE  Cardinality(In(held, h)) < RefMax
<1>1. IsFiniteSet(Holders)
  BY PoolAssumption
<1>2. In(held, h) \subseteq Holders \ {d}
  BY NoneIsNoHandle DEF In
<1>3. /\ IsFiniteSet(Holders \ {d})
      /\ Cardinality(Holders \ {d}) = Cardinality(Holders) - 1
  BY <1>1, FS_RemoveElement
<1>4. Cardinality(In(held, h)) <= Cardinality(Holders \ {d})
  BY <1>2, <1>3, FS_Subset
<1>5. Cardinality(Holders) \in Nat /\ Cardinality(In(held, h)) \in Nat
  BY <1>1, FS_CardinalityType, HolderCount
<1>6. QED
  BY <1>3, <1>4, <1>5, PoolAssumption

(* buffer_ref preserves it. *)
LEMMA RefCounts ==
  ASSUME PoolInv, NEW c \in Holders, NEW d \in Holders, Ref(c, d)
  PROVE  PoolInv'
<1>1. PICK h \in Handles : /\ Keeps(c, h)
                           /\ held[d] = BUFFER_NONE
                           /\ AddRef(h)
                           /\ held' = [held EXCEPT ![d] = h]
  BY DEF Ref
<1>2. held \in [Holders -> Handles \union {BUFFER_NONE}]
  BY DEF PoolInv, TypeOK
<1>3. Cardinality(In(held, h)) > 0
  <2>1. In(held, h) # {}
    BY <1>1 DEF Keeps, In
  <2>2. QED
    BY <2>1, HolderCount, PoolAssumption
<1>4. refs' = [refs EXCEPT ![h] = @ + 1] /\ refs[h] > 0
  <2>1. refs[h] = Cardinality(In(held, h))
    BY RefsAreHolders DEF PoolInv
  <2>2. QED
    BY <1>1, <1>3, <2>1, RoomForOneMore DEF AddRef, Valid, PoolInv
<1>5. TypeOK'
  BY <1>1, <1>4 DEF AddRef, PoolInv, TypeOK
<1>6. RefsExact'
  <2>1. Cardinality(In(held', h)) = Cardinality(In(held, h)) + 1
    BY <1>1, <1>2, NoneIsNoHandle, GainHolder
  <2>2. \A k \in Handles \ {h} : In(held', k) = In(held, k)
    BY <1>1, <1>2, NoneIsNoHandle DEF In
  <2>3. QED
    BY <1>4, <2>1, <2>2, RefsAreHolders DEF PoolInv, TypeOK
<1>7. FreeExact'
  BY <1>1, <1>4 DEF AddRef, PoolInv, FreeExact, TypeOK
<1>8. InBounds' /\ HighWaterCovers'
  BY <1>1 DEF AddRef, PoolInv, InBounds, HighWaterCovers
<1>9. QED
  BY <1>5, <1>6, <1>7, <1>8 DEF PoolInv

(* buffer_unref preserves it. *)
LEMMA UnrefCounts ==
  ASSUME PoolInv, NEW c \in Holders, Unref(c)
  PROVE  PoolInv'
<1>1. PICK h \in Handles : /\ Keeps(c, h)
                           /\ DropRef(h)
                           /\ held' = [held EXCEPT ![c] = BUFFER_NONE]
  BY DEF Unref
<1>2. held \in [Holders -> Handles \union {BUFFER_NONE}] /\ held[c] = h
  BY <1>1 DEF PoolInv, TypeOK, Keeps
<1>3. refs[h] = Cardinality(In(held, h)) /\ refs[h] \in Nat \ {0}
  <2>1. In(held, h) # {}
    BY <1>2 DEF In
  <2>2. QED
    BY <2>1, HolderCount, RefsAreHolders, PoolAssumption DEF PoolInv
<1>4. refs' = [refs EXCEPT ![h] = @ - 1]
  BY <1>1, <1>3 DEF DropRef, Valid
<1>5. /\ free' = IF refs[h] = 1 THEN free \union {h} ELSE free
      /\ used' = IF refs[h] = 1 THEN used - 1 ELSE used
      /\ UNCHANGED <<at, len, hintWord, highWater>>
  BY <1>1, <1>3 DEF DropRef, Valid
<1>6. TypeOK'
  BY <1>1, <1>3, <1>4, <1>5 DEF PoolInv, TypeOK
<1>7. RefsExact'
  <2>1. Cardinality(In(held', h)) = Cardinality(In(held, h)) - 1
    BY <1>1, <1>2, NoneIsNoHandle, LoseHolder
  <2>2. \A k \in Handles \ {h} : In(held', k) = In(held, k)
    BY <1>1, <1>2, NoneIsNoHandle DEF In
  <2>3. QED
    BY <1>3, <1>4, <2>1, <2>2, RefsAreHolders DEF PoolInv, TypeOK
<1>8. FreeExact'
  <2>1. free' = {k \in Handles : refs'[k] = 0}
    BY <1>3, <1>4, <1>5 DEF PoolInv, FreeExact, TypeOK
  <2>2. h \notin free
    BY <1>3 DEF PoolInv, FreeExact
  <2>3. used' = Cardinality(Handles \ free')
    BY <1>5, <2>2, UsedCounts DEF PoolInv, FreeExact, TypeOK
  <2>4. QED
    BY <2>1, <2>3 DEF FreeExact
<1>9. InBounds' /\ HighWaterCovers'
  BY <1>5 DEF PoolInv, TypeOK, InBounds, HighWaterCovers
<1>10. QED
  BY <1>6, <1>7, <1>8, <1>9 DEF PoolInv

(* Passing a handle on preserves it. *)
LEMMA HandOverCounts ==
  ASSUME PoolInv, NEW c \in Holders, NEW d \in Holders, HandOver(c, d)
  PROVE  PoolInv'
<1>1. PICK h \in Handles :
        /\ Keeps(c, h)
        /\ held[d] = BUFFER_NONE
        /\ held' = [held EXCEPT ![c] = BUFFER_NONE, ![d] = h]
  BY DEF HandOver
<1> DEFINE without == [held EXCEPT ![c] = BUFFER_NONE]
<1>2. /\ held \in [Holders -> Handles \union {BUFFER_NONE}]
      /\ without \in [Holders -> Handles \union {BUFFER_NONE}]
      /\ held[c] = h /\ c # d /\ without[d] = BUFFER_NONE
      /\ held' = [without EXCEPT ![d] = h]
  BY <1>1 DEF PoolInv, TypeOK, Keeps
<1>3. \A k \in Handles : Cardinality(In(held', k)) = Cardinality(In(held, k))
  <2>1. Cardinality(In(without, h)) = Cardinality(In(held, h)) - 1
    BY <1>1, <1>2, NoneIsNoHandle, LoseHolder
  <2>2. Cardinality(In(held', h)) = Cardinality(In(without, h)) + 1
    BY <1>2, NoneIsNoHandle, GainHolder
  <2>3. \A k \in Handles \ {h} : In(held', k) = In(held, k)
    BY <1>1, <1>2, NoneIsNoHandle DEF In
  <2>4. Cardinality(In(held, h)) \in Nat
    BY HolderCount
  <2>5. QED
    BY <2>1, <2>2, <2>3, <2>4
<1>4. TypeOK' /\ FreeExact'
  BY <1>1, <1>2 DEF HandOver, PoolInv, TypeOK, FreeExact
<1>5. RefsExact'
  BY <1>1, <1>3, RefsAreHolders DEF HandOver, PoolInv
<1>6. InBounds' /\ HighWaterCovers'
  BY DEF HandOver, PoolInv, InBounds, HighWaterCovers
<1>7. QED
  BY <1>4, <1>5, <1>6 DEF PoolInv

(* A call on the content touches no count; if the new start and length of   *)
(* the one buffer it changes fit, the invariant is kept.                    *)
LEMMA FittingKeeps ==
  ASSUME PoolInv, UNCHANGED bookkeeping,
         NEW h \in Handles, NEW a \in 0 .. Offset, NEW l \in Nat, a + l <= Stride,
         at'  = [at EXCEPT ![h] = a],
         len' = [len EXCEPT ![h] = l]
  PROVE  PoolInv'
<1>1. a \in 0 .. U16 - 1 /\ l \in 0 .. U16 - 1
  BY PoolAssumption, U16Positive
<1>2. TypeOK'
  BY <1>1 DEF bookkeeping, PoolInv, TypeOK
<1>3. InBounds'
  BY DEF PoolInv, TypeOK, InBounds
<1>4. QED
  BY <1>2, <1>3
     DEF bookkeeping, PoolInv, RefsExact, HoldersOf, FreeExact, HighWaterCovers

(* Where the data of a buffer may start and how long it may be. *)
LEMMA Extent ==
  ASSUME PoolInv, NEW h \in Handles
  PROVE  /\ at[h] \in 0 .. Offset /\ len[h] \in Nat /\ at[h] + len[h] <= Stride
         /\ Room(h) \in Nat /\ at[h] + Room(h) = Stride
         /\ at = [at EXCEPT ![h] = at[h]]
         /\ Offset \in 0 .. Stride /\ Stride \in 0 .. U16 - 1
BY PoolAssumption, U16Positive DEF PoolInv, TypeOK, InBounds, Room

(* A prepend that passes its guard moves the start back and the length on. *)
LEMMA PrependExact ==
  ASSUME PoolInv, NEW h \in Handles, NEW n \in Lengths, n <= at[h]
  PROVE  /\ n \in Nat
         /\ at[h] - n \in 0 .. Offset
         /\ (at[h] - n) % U16 = at[h] - n
         /\ (len[h] + n) % U16 = len[h] + n
         /\ at[h] - n + len[h] + n <= Stride
<1>1. n \in Nat /\ at[h] - n \in 0 .. Offset
  BY Extent DEF Lengths
<1>2. at[h] - n \in 0 .. U16 - 1 /\ len[h] + n \in 0 .. U16 - 1
  BY <1>1, Extent, U16Positive
<1>3. QED
  BY <1>1, <1>2, Extent, U16Identity

(* The calls on the content keep the data inside the buffer, so that the    *)
(* arithmetic of uint16_t is that of the integers.                          *)
LEMMA ContentCounts ==
  ASSUME PoolInv, NEW c \in Holders, Content(c)
  PROVE  PoolInv'
<1>1. UNCHANGED bookkeeping
  BY DEF Content, Reset, Prepend, Write, SetLen
<1>2. CASE Reset(c)
  <2>1. PICK h \in Handles : /\ at'  = [at EXCEPT ![h] = Offset]
                             /\ len' = [len EXCEPT ![h] = 0]
    BY <1>2 DEF Reset
  <2>2. Offset \in 0 .. Offset /\ Offset + 0 <= Stride
    BY Extent
  <2>3. QED
    BY <1>1, <2>1, <2>2, FittingKeeps
<1>3. ASSUME NEW n \in Lengths, Prepend(c, n) PROVE PoolInv'
  <2>1. PICK h \in Handles :
          /\ n <= at[h]
          /\ at'  = [at EXCEPT ![h] = (at[h] - n) % U16]
          /\ len' = [len EXCEPT ![h] = (len[h] + n) % U16]
    BY <1>3 DEF Prepend
  <2>2. /\ at[h] - n \in 0 .. Offset
        /\ len[h] + n \in Nat
        /\ (at[h] - n) + (len[h] + n) <= Stride
    BY <2>1, Extent, PrependExact
  <2>3. /\ at'  = [at EXCEPT ![h] = at[h] - n]
        /\ len' = [len EXCEPT ![h] = len[h] + n]
    BY <2>1, PrependExact
  <2>4. QED
    BY <1>1, <2>2, <2>3, FittingKeeps
<1>4. ASSUME NEW n \in Lengths, Write(c, n) PROVE PoolInv'
  <2>1. PICK h \in Handles : /\ n <= Room(h)
                             /\ len' = [len EXCEPT ![h] = n]
                             /\ at' = at
    BY <1>4 DEF Write
  <2>2. n \in Nat /\ at[h] + n <= Stride
    BY <2>1, Extent DEF Lengths
  <2>3. at[h] \in 0 .. Offset /\ at' = [at EXCEPT ![h] = at[h]]
    BY <2>1, Extent
  <2>4. QED
    BY <1>1, <2>1, <2>2, <2>3, FittingKeeps
<1>5. ASSUME NEW n \in Lengths, SetLen(c, n) PROVE PoolInv'
  <2>1. PICK h \in Handles :
          /\ len' = [len EXCEPT ![h] = IF n > Room(h) THEN Room(h) ELSE n]
          /\ at' = at
    BY <1>5 DEF SetLen
  <2>2. PICK l \in Nat : /\ l = IF n > Room(h) THEN Room(h) ELSE n
                         /\ at[h] + l <= Stride
    BY Extent DEF Lengths
  <2>3. at[h] \in 0 .. Offset /\ at' = [at EXCEPT ![h] = at[h]]
    BY <2>1, Extent
  <2>4. QED
    BY <1>1, <2>1, <2>2, <2>3, FittingKeeps
<1>6. QED
  BY <1>2, <1>3, <1>4, <1>5 DEF Content

(* The invariant is inductive. *)
LEMMA NextCounts == PoolInv /\ [Next]_vars => PoolInv'
<1> SUFFICES ASSUME PoolInv, [Next]_vars PROVE PoolInv'
  OBVIOUS
<1>1. CASE UNCHANGED vars
  BY <1>1 DEF vars, PoolInv, TypeOK, RefsExact, HoldersOf, FreeExact, InBounds,
              HighWaterCovers
<1>2. ASSUME NEW c \in Holders,
             \/ Acquire(c) \/ Unref(c) \/ Content(c)
             \/ \E d \in Holders : Ref(c, d) \/ HandOver(c, d)
      PROVE  PoolInv'
  BY <1>2, AcquireCounts, UnrefCounts, RefCounts, HandOverCounts, ContentCounts
<1>3. QED
  BY <1>1, <1>2 DEF Next

-----------------------------------------------------------------------------
(* Every reference count is the number of places that keep the handle, the *)
(* free map and the used counter agree with the counts, the data stays in  *)
(* its buffer and the high-water mark covers the use: in every state of    *)
(* every program that keeps to the holders' discipline.                    *)
THEOREM PoolCorrect == Spec => []PoolInv
BY InitCounts, NextCounts, PTL DEF Spec

(* buffer_meta_t and the counters keep their types. *)
THEOREM PoolTypeOK == Spec => []TypeOK
<1>1. PoolInv => TypeOK
  BY DEF PoolInv
<1>2. QED
  BY <1>1, PoolCorrect, PTL

(* The count of references is exact (buffer_ref, buffer_unref). *)
THEOREM PoolRefsExact == Spec => []RefsExact
<1>1. PoolInv => RefsExact
  BY DEF PoolInv
<1>2. QED
  BY <1>1, PoolCorrect, PTL

(* No holder keeps a handle that buffer_acquire could hand out again. *)
THEOREM PoolNoDangling == Spec => []NoDangling
<1>1. PoolInv => NoDangling
  <2> SUFFICES ASSUME PoolInv, NEW c \in Holders, held[c] # BUFFER_NONE
               PROVE  held[c] \notin free
    BY DEF NoDangling
  <2>1. In(held, held[c]) # {} /\ held[c] \in Handles
    BY DEF In, PoolInv, TypeOK
  <2>2. refs[held[c]] # 0
    BY <2>1, HolderCount, RefsAreHolders DEF PoolInv
  <2>3. QED
    BY <2>1, <2>2 DEF PoolInv, FreeExact
<1>2. QED
  BY <1>1, PoolCorrect, PTL

(* Prepend, write, set_len and reset keep the data in the buffer. *)
THEOREM PoolInBounds == Spec => []InBounds
<1>1. PoolInv => InBounds
  BY DEF PoolInv
<1>2. QED
  BY <1>1, PoolCorrect, PTL

(* Only a sole holder moves the start of a payload forward (buffer_reset). *)
THEOREM PoolRewindsAlone == Spec => RewindsAlone
<1> DEFINE Alone == \A h \in Handles :
      (refs[h] > 0 /\ at'[h] > at[h]) => Cardinality(HoldersOf(h)) = 1
<1>1. PoolInv /\ [Next]_vars => [Alone]_vars
  <2> SUFFICES ASSUME PoolInv, Next, NEW h \in Handles,
                      refs[h] > 0, at'[h] > at[h]
               PROVE  Cardinality(HoldersOf(h)) = 1
    OBVIOUS
  <2>1. refs[h] = Cardinality(HoldersOf(h))
    BY DEF PoolInv, RefsExact
  <2>2. PICK c \in Holders :
          \/ Acquire(c) \/ Unref(c) \/ Content(c)
          \/ \E d \in Holders : Ref(c, d) \/ HandOver(c, d)
    BY DEF Next
  <2>3. at[h] \in Int /\ ~(at[h] > at[h])
    BY DEF PoolInv, TypeOK
  <2>4. CASE Acquire(c)
    <3>1. PICK g \in free : at' = [at EXCEPT ![g] = Offset]
      BY <2>4 DEF Acquire, Allot
    <3>2. h # g
      BY <3>1 DEF PoolInv, FreeExact
    <3>3. QED
      BY <2>3, <3>1, <3>2 DEF PoolInv, TypeOK
  <2>5. CASE Unref(c) \/ \E d \in Holders : Ref(c, d) \/ HandOver(c, d)
    BY <2>3, <2>5 DEF Unref, DropRef, Ref, AddRef, HandOver
  <2>6. CASE Reset(c)
    <3>1. PICK g \in Handles : refs[g] = 1 /\ at' = [at EXCEPT ![g] = Offset]
      BY <2>6 DEF Reset
    <3>2. QED
      BY <2>1, <2>3, <3>1 DEF PoolInv, TypeOK
  <2>7. ASSUME NEW n \in Lengths, Prepend(c, n)
        PROVE  FALSE
    <3>1. PICK g \in Handles : /\ n <= at[g]
                               /\ at' = [at EXCEPT ![g] = (at[g] - n) % U16]
      BY <2>7 DEF Prepend
    <3>2. QED
      BY <2>3, <3>1, PrependExact DEF PoolInv, TypeOK
  <2>8. ASSUME NEW n \in Lengths, Write(c, n) \/ SetLen(c, n)
        PROVE  FALSE
    BY <2>3, <2>8 DEF Write, SetLen
  <2>9. QED
    BY <2>2, <2>4, <2>5, <2>6, <2>7, <2>8 DEF Content
<1>2. QED
  BY <1>1, PoolCorrect, PTL DEF Spec, RewindsAlone

(* The free map, the counts and the used counter agree. *)
THEOREM PoolFreeExact == Spec => []FreeExact
<1>1. PoolInv => FreeExact
  BY DEF PoolInv
<1>2. QED
  BY <1>1, PoolCorrect, PTL

(* high_water covers the present use and never exceeds the pool. *)
THEOREM PoolHighWaterCovers == Spec => []HighWaterCovers
<1>1. PoolInv => HighWaterCovers
  BY DEF PoolInv
<1>2. QED
  BY <1>1, PoolCorrect, PTL

-----------------------------------------------------------------------------
(* A set of naturals that is not empty has a least element. *)
LEMMA LeastNatural ==
  ASSUME NEW T, T \subseteq Nat, T # {}
  PROVE  \E x \in T : \A y \in T : x <= y
<1>1. PICK x \in T : \A y \in T : <<y, x>> \notin OpToRel(<, Nat)
  BY NatLessThanWellFounded, WFMin, Zenon
<1>2. ASSUME NEW y \in T
      PROVE  x <= y
  <2>1. x \in Nat /\ y \in Nat
    OBVIOUS
  <2>2. y < x => <<y, x>> \in OpToRel(<, Nat)
    BY <2>1 DEF OpToRel
  <2>3. ~(y < x)
    BY <1>1, <2>2, Zenon
  <2>4. QED
    BY <2>1, <2>3
<1>3. QED
  BY <1>2, Zenon

(* The walk from hint_word passes every word of the map. *)
LEMMA WalkReaches ==
  ASSUME TypeOK, NEW w \in 0 .. Words - 1
  PROVE  \E n \in 0 .. Words - 1 : WordAt(n) = w
<1>1. hintWord \in 0 .. Words - 1 /\ Words \in Nat \ {0}
  BY WordsPositive DEF TypeOK
<1>2. CASE w >= hintWord
  <2>1. w - hintWord \in 0 .. Words - 1 /\ WordAt(w - hintWord) = w
    BY <1>1, <1>2 DEF WordAt
  <2>2. QED
    BY <2>1
<1>3. CASE w < hintWord
  <2>1. /\ w - hintWord + Words \in 0 .. Words - 1
        /\ WordAt(w - hintWord + Words) = w
    BY <1>1, <1>3 DEF WordAt
  <2>2. QED
    BY <2>1
<1>4. QED
  BY <1>1, <1>2, <1>3

(* Every buffer has its bit in some word of the map. *)
LEMMA BitInMap ==
  ASSUME NEW h \in Handles
  PROVE  h \div WordBits \in 0 .. Words - 1
<1>1. /\ Count \in Nat \ {0} /\ WordBits \in Nat \ {0} /\ h \in Nat /\ h < Count
  BY PoolAssumption, COUNT_MAXIsInt DEF Handles
<1> DEFINE q == h \div WordBits
<1>2. q \in Nat /\ q * WordBits <= h
  BY <1>1
<1>3. (q + 1) * WordBits <= Count + WordBits - 1
  BY <1>1, <1>2
<1>4. q + 1 <= (Count + WordBits - 1) \div WordBits
  BY <1>1, <1>2, <1>3
<1>5. QED
  BY <1>1, <1>2, <1>4, WordsPositive DEF Words

(* While a buffer is free the scan of buffer_acquire yields one. *)
THEOREM PoolNothingStranded == Spec => []NothingStranded
<1>1. PoolInv => NothingStranded
  <2> SUFFICES ASSUME PoolInv, NEW g \in free
               PROVE  \E h \in free : ScanYields(h)
    BY DEF NothingStranded
  <2> DEFINE T == {n \in 0 .. Words - 1 : FreeIn(WordAt(n)) # {}}
  <2>1. g \in Handles /\ TypeOK /\ free \subseteq Nat
    BY DEF PoolInv, TypeOK, Handles
  <2>2. PICK m \in 0 .. Words - 1 : WordAt(m) = g \div WordBits
    BY <2>1, BitInMap, WalkReaches
  <2>3. g \in FreeIn(WordAt(m))
    BY <2>2 DEF FreeIn
  <2>4. T # {} /\ T \subseteq Nat
    BY <2>2, <2>3
  <2>5. PICK n \in T : \A y \in T : n <= y
    BY <2>4, LeastNatural
  <2>6. FreeIn(WordAt(n)) # {} /\ FreeIn(WordAt(n)) \subseteq Nat
    BY <2>1, <2>5 DEF FreeIn
  <2>7. PICK h \in FreeIn(WordAt(n)) : \A y \in FreeIn(WordAt(n)) : h <= y
    BY <2>6, LeastNatural
  <2>8. \A k \in 0 .. n - 1 : FreeIn(WordAt(k)) = {}
    BY <2>5, WordsPositive
  <2>9. h \in free
    BY <2>7 DEF FreeIn
  <2>10. QED
    BY <2>5, <2>7, <2>8, <2>9 DEF ScanYields
<1>2. QED
  BY <1>1, PoolCorrect, PTL

=============================================================================
