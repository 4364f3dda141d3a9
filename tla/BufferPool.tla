----------------------------- MODULE BufferPool -----------------------------
(***************************************************************************)
(* The reference-counted frame pool of device/d_module_buffers.h.          *)
(*                                                                         *)
(* A buffer has several holders at once: a receive path, a transmit queue, *)
(* a retransmit tracker, the staging table.  A HOLDER here is one place a  *)
(* counted reference can be kept - a local variable of some caller, a slot *)
(* of a queue or of a table - and held[c] is the handle kept there.  The   *)
(* code has no such variable: it is what its callers owe the pool (acquire *)
(* and ref give one reference, unref returns one), and the pool is correct *)
(* when its counts and its free map agree with it.  The modules that hold  *)
(* references (BufferQueue, DownTable) are shown to implement this one     *)
(* with their own slots as the holders.                                    *)
(*                                                                         *)
(* Every locked function is one action: BUFFER_LOCK covers its whole body. *)
(* The payload bytes are abstracted to where they start and end.           *)
(***************************************************************************)
EXTENDS Integers, FiniteSets

CONSTANTS
  Count,     \* buffers in the pool
  WordBits,  \* bits in one word of the free map (32)
  Stride,    \* bytes in one buffer
  Offset,    \* the reserved prefix: where a receive starts
  RefMax,    \* the largest value of the reference count (0xFF)
  Holders    \* the places that can keep a counted reference

BUFFER_NONE == 255
COUNT_MAX   == BUFFER_NONE - 1   \* BUFFER_POOL_COUNT_MAX
U16         == 65536             \* offsets and lengths are uint16_t
Handles     == 0 .. Count - 1
Words       == (Count + WordBits - 1) \div WordBits

(* BUFFER_POOL_DECLARE refuses more than 254 buffers at build time.  That   *)
(* the places holding one buffer never outnumber RefMax is the user's      *)
(* dimensioning: beyond it buffer_ref saturates in silence.                *)
ASSUME PoolAssumption ==
  /\ Count \in 1 .. COUNT_MAX
  /\ WordBits \in Nat \ {0}
  /\ Stride \in 0 .. U16 - 1
  /\ Offset \in 0 .. Stride
  /\ RefMax \in Nat
  /\ IsFiniteSet(Holders)
  /\ Cardinality(Holders) <= RefMax

VARIABLES
  free,       \* free_map, as the set of handles whose bit is set
  refs,       \* meta[].refs
  at,         \* meta[].at
  len,        \* meta[].len
  hintWord,   \* hint_word
  used,
  highWater,
  held        \* which handle each holder keeps a reference to

meta == <<free, refs, used>>
vars == <<free, refs, at, len, hintWord, used, highWater, held>>

Init ==
  /\ free = Handles
  /\ refs = [h \in Handles |-> 0]
  /\ at   = [h \in Handles |-> 0]
  /\ len  = [h \in Handles |-> 0]
  /\ hintWord  = 0
  /\ used      = 0
  /\ highWater = 0
  /\ held = [c \in Holders |-> BUFFER_NONE]

-----------------------------------------------------------------------------
(* What the calls do to the bookkeeping, whoever makes them.               *)

Valid(h) == h \in Handles /\ refs[h] > 0

(* The scan of buffer_acquire: from the word that last yielded a buffer,   *)
(* around to the one before it, and the lowest free bit of the first word  *)
(* that has one.                                                           *)
WordAtUnwrapped(n) == hintWord + n   \* a slip: the scan runs off the map

WordAt(n) == IF hintWord + n >= Words THEN hintWord + n - Words
                                      ELSE hintWord + n

FreeIn(w) == {h \in free : h \div WordBits = w}

ScanYields(h) ==
  \E n \in 0 .. Words - 1 :
    /\ h \in FreeIn(WordAt(n))
    /\ \A g \in FreeIn(WordAt(n)) : h <= g
    /\ \A m \in 0 .. n - 1 : FreeIn(WordAt(m)) = {}

Allot(h) ==
  /\ ScanYields(h)
  /\ free' = free \ {h}
  /\ hintWord' = h \div WordBits
  /\ refs' = [refs EXCEPT ![h] = 1]
  /\ at'   = [at EXCEPT ![h] = Offset]
  /\ len'  = [len EXCEPT ![h] = 0]
  /\ used' = used + 1
  /\ highWater' = IF used + 1 > highWater THEN used + 1 ELSE highWater

(* A slip: the count stops one short of its limit. *)
AddRefStopsShort(h) ==
  /\ refs' = IF Valid(h) /\ refs[h] < RefMax - 1 THEN [refs EXCEPT ![h] = @ + 1]
                                                 ELSE refs
  /\ UNCHANGED <<free, at, len, hintWord, used, highWater>>

AddRef(h) ==
  /\ refs' = IF Valid(h) /\ refs[h] < RefMax THEN [refs EXCEPT ![h] = @ + 1]
                                             ELSE refs
  /\ UNCHANGED <<free, at, len, hintWord, used, highWater>>

(* A slip: the buffer goes back on the map and stays counted. *)
DropRefUncounted(h) ==
  /\ refs' = IF Valid(h) THEN [refs EXCEPT ![h] = @ - 1] ELSE refs
  /\ free' = IF Valid(h) /\ refs[h] = 1 THEN free \union {h} ELSE free
  /\ UNCHANGED <<at, len, hintWord, used, highWater>>

DropRef(h) ==
  /\ IF Valid(h)
       THEN /\ refs' = [refs EXCEPT ![h] = @ - 1]
            /\ free' = IF refs[h] = 1 THEN free \union {h} ELSE free
            /\ used' = IF refs[h] = 1 THEN used - 1 ELSE used
       ELSE UNCHANGED meta
  /\ UNCHANGED <<at, len, hintWord, highWater>>

Room(h) == Stride - at[h]

-----------------------------------------------------------------------------
(* The calls of a holder.  A caller acts through a reference it keeps and  *)
(* never overwrites one it still owes; a refused call changes nothing.     *)

Keeps(c, h) == held[c] = h /\ h # BUFFER_NONE

Acquire(c) ==
  /\ held[c] = BUFFER_NONE
  /\ \E h \in free : Allot(h) /\ held' = [held EXCEPT ![c] = h]

Ref(c, d) ==
  \E h \in Handles :
    /\ Keeps(c, h)
    /\ held[d] = BUFFER_NONE
    /\ AddRef(h)
    /\ held' = [held EXCEPT ![d] = h]

Unref(c) ==
  \E h \in Handles :
    /\ Keeps(c, h)
    /\ DropRef(h)
    /\ held' = [held EXCEPT ![c] = BUFFER_NONE]

(* One side passes the handle and forgets it: no call to the pool. *)
HandOver(c, d) ==
  \E h \in Handles :
    /\ Keeps(c, h)
    /\ held[d] = BUFFER_NONE
    /\ held' = [held EXCEPT ![c] = BUFFER_NONE, ![d] = h]
    /\ UNCHANGED <<free, refs, at, len, hintWord, used, highWater>>

bookkeeping == <<free, refs, hintWord, used, highWater, held>>

(* A slip: reset asks only that the handle is valid. *)
ResetShared(c) ==
  \E h \in Handles :
    /\ Keeps(c, h)
    /\ Valid(h)
    /\ at'  = [at EXCEPT ![h] = Offset]
    /\ len' = [len EXCEPT ![h] = 0]
    /\ UNCHANGED bookkeeping

Reset(c) ==
  \E h \in Handles :
    /\ Keeps(c, h)
    /\ Valid(h) /\ refs[h] = 1
    /\ at'  = [at EXCEPT ![h] = Offset]
    /\ len' = [len EXCEPT ![h] = 0]
    /\ UNCHANGED bookkeeping

Prepend(c, n) ==
  \E h \in Handles :
    /\ Keeps(c, h)
    /\ Valid(h) /\ n <= at[h]
    /\ at'  = [at EXCEPT ![h] = (@ - n) % U16]
    /\ len' = [len EXCEPT ![h] = (@ + n) % U16]
    /\ UNCHANGED bookkeeping

Write(c, n) ==
  \E h \in Handles :
    /\ Keeps(c, h)
    /\ Valid(h) /\ n <= Room(h)
    /\ len' = [len EXCEPT ![h] = n]
    /\ UNCHANGED <<at, bookkeeping>>

SetLen(c, n) ==
  \E h \in Handles :
    /\ Keeps(c, h)
    /\ Valid(h)
    /\ len' = [len EXCEPT ![h] = IF n > Room(h) THEN Room(h) ELSE n]
    /\ UNCHANGED <<at, bookkeeping>>

(* The lengths a caller may ask for: any, up to one more than fits. *)
Lengths == 0 .. Stride + 1

Content(c) ==
  \/ Reset(c)
  \/ \E n \in Lengths : Prepend(c, n) \/ Write(c, n) \/ SetLen(c, n)

Next ==
  \E c \in Holders :
    \/ Acquire(c)
    \/ Unref(c)
    \/ \E d \in Holders : Ref(c, d) \/ HandOver(c, d)
    \/ Content(c)

Spec == Init /\ [][Next]_vars

-----------------------------------------------------------------------------
HoldersOf(h) == {c \in Holders : held[c] = h}

TypeOK ==
  /\ free \in SUBSET Handles
  /\ refs \in [Handles -> Nat]
  /\ at   \in [Handles -> 0 .. U16 - 1]
  /\ len  \in [Handles -> 0 .. U16 - 1]
  /\ hintWord \in 0 .. Words - 1
  /\ used \in Int
  /\ highWater \in Int
  /\ held \in [Holders -> Handles \union {BUFFER_NONE}]

(* A reference count is exactly the number of places that keep the handle: *)
(* no acquire, ref, unref or hand-over, in any order by any holders, leaves *)
(* a count that would free a frame still held or strand one nobody holds.  *)
RefsExact == \A h \in Handles : refs[h] = Cardinality(HoldersOf(h))

(* The free map, the counts and the used counter are three records of one  *)
(* fact: a buffer is free exactly when no one refers to it, and used is    *)
(* the number of those that are not.                                       *)
FreeExact ==
  /\ free = {h \in Handles : refs[h] = 0}
  /\ used = Cardinality(Handles \ free)

(* What follows for a holder: the handle it keeps is never on the free map, *)
(* so buffer_acquire cannot hand the same bytes to somebody else.          *)
NoDangling == \A c \in Holders : held[c] # BUFFER_NONE => held[c] \notin free

(* The data of a held buffer lies inside the buffer and never starts past  *)
(* the reserved prefix, whatever lengths were asked of prepend, write and  *)
(* set_len: the unsigned arithmetic never wraps.                           *)
InBounds == \A h \in Handles : /\ at[h] <= Offset
                               /\ at[h] + len[h] <= Stride

(* A wrong hint costs a wasted word and never a buffer: while one is free, *)
(* in whichever word, the scan of buffer_acquire yields one.               *)
NothingStranded == free # {} => \E h \in free : ScanYields(h)

(* highWater is a record: it covers the present use and stays in the pool. *)
HighWaterCovers == used <= highWater /\ highWater <= Count

(* The start of a held payload moves forward (only buffer_reset does that) *)
(* under no holder but the one who asked: it is the sole holder then.      *)
RewindsAlone ==
  [][\A h \in Handles :
       (refs[h] > 0 /\ at'[h] > at[h]) => Cardinality(HoldersOf(h)) = 1]_vars

=============================================================================
