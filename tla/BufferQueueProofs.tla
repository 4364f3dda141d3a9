-------------------------- MODULE BufferQueueProofs --------------------------
(***************************************************************************)
(* Theorems about the queue for every number of threads, slots and frames, *)
(* and every clock, delay and time to live that QueueAssumption admits.    *)
(*                                                                         *)
(* The argument: what a thread knows when it comes back to a call it has   *)
(* entered must still be true by then, whatever the others did meanwhile,  *)
(* and that is the inductive invariant QueueInv.  An add still has its     *)
(* handle and a frame nobody else is adding (CallsHold); a walk has the    *)
(* lock to itself (LockIsOne) and used never falls below the entries, or   *)
(* is exact unless the walk is a clear (CountHolds); an entry in a slot is *)
(* of a queued frame and the only one (EntriesHold); and the moments in    *)
(* calls and slots are close enough to now for the casts to int32_t to     *)
(* tell past from future (ClocksHold).  What the queue promises follows.   *)
(***************************************************************************)
EXTENDS BufferQueue, FiniteSetTheorems

Handles == Pool!Handles

QueueTypes ==
  /\ free \subseteq Handles
  /\ slot \in [Slots -> Entry]
  /\ qUsed \in 0 .. Size /\ qHighWater \in 0 .. Size
  /\ lock \in SUBSET Threads
  /\ local \in [Threads -> Handles \union {BUFFER_NONE}]
  /\ call \in [Threads -> [op : {"idle", "add", "take"} \union Sweeps,
                           now : Moments, e : Entry]]
  /\ now \in Moments
  /\ fate \in [Frames -> {"new", "queued", "rejected", "taken", "expired", "removed"}]

Adding(t) == call[t].op = "add"

CallsHold ==
  /\ \A t \in Threads : Adding(t) =>
       /\ call[t].e.valid
       /\ call[t].e.buf = local[t] /\ local[t] \in Handles
       /\ call[t].e.frame \in Frames /\ fate[call[t].e.frame] = "new"
       /\ \E d \in Delays : call[t].e.due = call[t].now + d
       /\ call[t].e.expiry = 0 \/ \E l \in Ttls : call[t].e.expiry = call[t].now + l
  /\ \A t \in Threads : call[t].op = "take" => local[t] = BUFFER_NONE
  /\ \A t, u \in Threads :
       Adding(t) /\ Adding(u) /\ call[t].e.frame = call[u].e.frame => t = u

LockIsOne ==
  /\ \A t \in lock : call[t].op \in Sweeps
  /\ \A t, u \in lock : t = u

CountHolds ==
  /\ Cardinality(Occupied) <= qUsed /\ qUsed <= qHighWater
  /\ (\A t \in lock : call[t].op # "clear") => qUsed = Cardinality(Occupied)

EntriesHold ==
  /\ \A i \in Occupied : /\ slot[i].buf \in Handles
                         /\ slot[i].frame \in Frames
                         /\ fate[slot[i].frame] = "queued"
  /\ \A i, j \in Occupied : slot[i].frame = slot[j].frame => i = j
  /\ \A f \in Frames : fate[f] = "queued" => \E i \in Occupied : slot[i].frame = f

InACall(t) == call[t].op # "idle"

ClocksHold ==
  /\ \A t \in Threads : InACall(t) =>
       /\ call[t].now <= now /\ now - call[t].now < Half
       /\ \A d \in Delays \union Ttls : now + d - call[t].now <= Half
  /\ \A i \in Occupied :
       /\ now - slot[i].due < Half
       /\ slot[i].due - now <= Half /\ slot[i].expiry - now <= Half
  /\ \A t \in Threads, i \in Occupied : InACall(t) =>
       /\ slot[i].due - call[t].now <= Half
       /\ slot[i].expiry - call[t].now <= Half

QueueInv ==
  QueueTypes /\ CallsHold /\ LockIsOne /\ CountHolds /\ EntriesHold /\ ClocksHold

-----------------------------------------------------------------------------
(* Facts about the constants. *)
LEMMA HalfWrap == Half \in Nat \ {0} /\ Wrap \in Nat \ {0} /\ Wrap = 2 * Half
BY QueueAssumption DEF Half

LEMMA NoneIsNoHandle == BUFFER_NONE \notin Handles /\ Handles \subseteq Nat
BY QueueAssumption
   DEF BUFFER_NONE, Handles, Pool!Handles, Pool!COUNT_MAX, Pool!BUFFER_NONE

LEMMA Asked ==
  /\ Delays \subseteq 0 .. Half /\ Ttls \subseteq 0 .. Half
  /\ Tags \subseteq Nat /\ Keys \subseteq Nat /\ Frames \subseteq Nat \ {0}
  /\ Horizon \in Nat /\ Start \in 1 .. Horizon /\ Size \in Nat \ {0}
BY QueueAssumption

LEMMA VacantIsEntry == Vacant \in Entry /\ ~Vacant.valid
BY Asked
   DEF Vacant, Entry, Moments, BUFFER_NONE, Pool!BUFFER_NONE

(* The casts to int32_t never take for past a moment that is at most half a  *)
(* wrap ahead, and when it is less than half a wrap behind either they tell  *)
(* it as if the clock had no end.                                            *)
LEMMA SinceIsNotAhead ==
  ASSUME NEW a \in Int, NEW b \in Int, b - a <= Half, Since(a, b)
  PROVE  b <= a
<1>1. SUFFICES ASSUME a < b PROVE FALSE
  OBVIOUS
<1>2. a - b + Wrap \in 0 .. Wrap - 1 /\ a - b + Wrap >= Half
  BY <1>1, HalfWrap
<1>3. (a - b) % Wrap = a - b + Wrap
  BY <1>2, HalfWrap
<1>4. QED
  BY <1>2, <1>3, HalfWrap DEF Since

LEMMA SinceIsLater ==
  ASSUME NEW a \in Int, NEW b \in Int, a - b < Half, b - a <= Half
  PROVE  Since(a, b) <=> b <= a
<1>1. ASSUME b <= a PROVE Since(a, b)
  <2>1. a - b \in 0 .. Wrap - 1 /\ a - b < Half
    BY <1>1, HalfWrap
  <2>2. (a - b) % Wrap = a - b
    BY <2>1, HalfWrap
  <2>3. QED
    BY <2>1, <2>2 DEF Since
<1>2. QED
  BY <1>1, SinceIsNotAhead

(* How many slots a set of slots has, and one slot more or less. *)
LEMMA SlotsCount ==
  ASSUME NEW S \in SUBSET Slots
  PROVE  /\ Cardinality(S) \in 0 .. Size
         /\ Cardinality(S) = 0 <=> S = {}
         /\ \A i \in Slots \ S : Cardinality(S \union {i}) = Cardinality(S) + 1
         /\ \A i \in S : Cardinality(S \ {i}) = Cardinality(S) - 1
<1>1. IsFiniteSet(Slots) /\ Cardinality(Slots) = Size
  BY FS_Interval, Asked DEF Slots
<1>2. IsFiniteSet(S) /\ Cardinality(S) <= Size /\ Cardinality(S) \in Nat
  BY <1>1, FS_Subset, FS_CardinalityType
<1>3. Cardinality(S) = 0 <=> S = {}
  BY <1>2, FS_EmptySet
<1>4. QED
  BY <1>2, <1>3, FS_AddElement, FS_RemoveElement

(* The parts of the invariant that only look at slots and fates. *)
slots == <<slot, qUsed, qHighWater, fate>>

-----------------------------------------------------------------------------
(* The queue starts empty, with nobody in a call. *)
LEMMA InitHolds == Init => QueueInv
<1> SUFFICES ASSUME Init PROVE QueueInv
  OBVIOUS
<1>1. Occupied = {}
  BY VacantIsEntry DEF Init, Occupied
<1>2. QueueTypes
  <2>1. Idle \in [op : {"idle", "add", "take"} \union Sweeps, now : Moments, e : Entry]
    BY VacantIsEntry, Asked DEF Idle, Moments
  <2>2. free \subseteq Handles
    BY DEF Init, Pool!Init, Handles
  <2>3. Start \in Moments /\ 0 \in 0 .. Size
    BY Asked DEF Moments
  <2>4. QED
    BY <2>1, <2>2, <2>3, VacantIsEntry DEF Init, QueueTypes
<1>3. Cardinality(Occupied) = 0
  BY <1>1, FS_EmptySet
<1>4. CallsHold /\ LockIsOne /\ ClocksHold
  BY <1>1 DEF Init, Idle, CallsHold, Adding, LockIsOne, ClocksHold, InACall
<1>5. CountHolds /\ EntriesHold
  BY <1>1, <1>3 DEF Init, CountHolds, EntriesHold
<1>6. QED
  BY <1>2, <1>4, <1>5 DEF QueueInv

(* A release can only put a handle on the free map. *)
LEMMA DropKeepsFree ==
  ASSUME free \subseteq Handles, NEW h, Pool!DropRef(h)
  PROVE  free' \subseteq Handles
BY DEF Pool!DropRef, Pool!Valid, Pool!meta, Handles

(* What a thread does with its own reference. *)
LEMMA OwnerKeeps ==
  ASSUME QueueInv, NEW t \in Threads, Acquire(t) \/ Unref(t)
  PROVE  QueueInv'
<1>1. /\ call[t].op = "idle" /\ UNCHANGED <<slots, lock, call, now>>
      /\ \E h \in Handles \union {BUFFER_NONE} : local' = [local EXCEPT ![t] = h]
      /\ free' \subseteq Handles
  <2>1. CASE Acquire(t)
    BY <2>1 DEF Acquire, Pool!Allot, QueueInv, QueueTypes, queue, slots
  <2>2. CASE Unref(t)
    BY <2>2, DropKeepsFree DEF Unref, QueueInv, QueueTypes, queue, slots
  <2>3. QED
    BY <2>1, <2>2
<1>2. QueueTypes'
  BY <1>1 DEF QueueInv, QueueTypes, slots
<1>3. CallsHold'
  BY <1>1 DEF QueueInv, QueueTypes, CallsHold, Adding, slots
<1>4. LockIsOne' /\ CountHolds' /\ EntriesHold' /\ ClocksHold'
  BY <1>1 DEF QueueInv, LockIsOne, CountHolds, EntriesHold, ClocksHold, InACall,
              Occupied, slots
<1>5. QED
  BY <1>2, <1>3, <1>4 DEF QueueInv

(* A call is entered: its thread is not in a walk, and now is its moment. *)
LEMMA EnterKeepsClocks ==
  ASSUME QueueInv, NEW t \in Threads, NEW op, NEW e, Enter(t, op, e),
         UNCHANGED <<slots, lock, now>>
  PROVE  LockIsOne' /\ CountHolds' /\ EntriesHold' /\ ClocksHold'
<1>1. /\ t \notin lock
      /\ call' = [call EXCEPT ![t] = [op |-> op, now |-> now, e |-> e]]
      /\ call[t].op = "idle"
  BY DEF Enter, QueueInv, LockIsOne, Sweeps
<1>2. LockIsOne' /\ CountHolds' /\ EntriesHold'
  BY <1>1 DEF QueueInv, QueueTypes, LockIsOne, CountHolds, EntriesHold, Occupied, slots
<1>3. ClocksHold'
  <2>1. /\ now \in Nat /\ \A d \in Delays \union Ttls : d \in 0 .. Half
        /\ now <= now /\ now - now < Half
        /\ \A d \in Delays \union Ttls : now + d - now <= Half
    BY HalfWrap, Asked DEF QueueInv, QueueTypes, Moments
  <2>2. Occupied' = Occupied /\ slot' = slot /\ now' = now
    BY DEF Occupied, slots
  <2>3. \A u \in Threads \ {t} : call'[u] = call[u]
    BY <1>1 DEF QueueInv, QueueTypes
  <2>4. call'[t].now = now
    BY <1>1 DEF QueueInv, QueueTypes
  <2>5. QED
    BY <2>1, <2>2, <2>3, <2>4 DEF QueueInv, ClocksHold, InACall
<1>4. QED
  BY <1>2, <1>3

(* buffer_queue_take and the walks, before they take the lock. *)
LEMMA TestKeeps ==
  ASSUME QueueInv, NEW t \in Threads,
         TakeTest(t) \/ \E op \in Sweeps : SweepTest(t, op)
  PROVE  QueueInv'
<1>1. PICK op \in {"take"} \union Sweeps, e \in Entry :
        /\ Enter(t, op, e)
        /\ op = "take" => local[t] = BUFFER_NONE
        /\ UNCHANGED <<pool, queue, lock, local, now, fate>>
  <2>1. CASE TakeTest(t)
    BY <2>1, VacantIsEntry DEF TakeTest
  <2>2. ASSUME NEW op \in Sweeps, SweepTest(t, op)
        PROVE  \E e \in Entry : /\ Enter(t, op, e)
                                /\ UNCHANGED <<pool, queue, lock, local, now, fate>>
    <3>1. PICK g \in Tags, k \in Keys :
            Enter(t, op, [Vacant EXCEPT
                       !.tag = IF op \in {"remove_tag", "remove_key"} THEN g ELSE 0,
                       !.key = IF op = "remove_key" THEN k ELSE 0])
      BY <2>2 DEF SweepTest
    <3>2. [Vacant EXCEPT
             !.tag = IF op \in {"remove_tag", "remove_key"} THEN g ELSE 0,
             !.key = IF op = "remove_key" THEN k ELSE 0] \in Entry
      BY VacantIsEntry, Asked DEF Entry
    <3>3. QED
      BY <2>2, <3>1, <3>2 DEF SweepTest
  <2>3. \A op \in Sweeps : op # "take"
    BY DEF Sweeps
  <2>4. QED
    BY <2>1, <2>2, <2>3
<1>2. UNCHANGED <<slots, free, lock, local, now>>
  BY <1>1 DEF pool, queue, slots
<1>3. QueueTypes'
  BY <1>1, <1>2 DEF Enter, QueueInv, QueueTypes, slots
<1>4. CallsHold'
  <2>1. op # "add"
    BY DEF Sweeps
  <2>2. QED
    BY <1>1, <1>2, <2>1 DEF Enter, QueueInv, QueueTypes, CallsHold, Adding, slots
<1>5. QED
  BY <1>1, <1>2, <1>3, <1>4, EnterKeepsClocks DEF QueueInv

(* buffer_queue_add, before it takes the lock. *)
LEMMA AddTestKeeps ==
  ASSUME QueueInv, NEW t \in Threads, AddTest(t)
  PROVE  QueueInv'
<1>1. PICK f \in Unnamed, g \in Tags, k \in Keys, d \in Delays, l \in Ttls :
        /\ now + d <= Horizon /\ now + l <= Horizon
        /\ Enter(t, "add",
                [valid |-> TRUE, buf |-> local[t], frame |-> f, tag |-> g,
                 key |-> k, due |-> now + d,
                 expiry |-> IF l = 0 THEN 0 ELSE now + l])
  BY DEF AddTest
<1> DEFINE e == [valid |-> TRUE, buf |-> local[t], frame |-> f, tag |-> g,
                 key |-> k, due |-> now + d,
                 expiry |-> IF l = 0 THEN 0 ELSE now + l]
<1>2. local[t] \in Handles /\ UNCHANGED <<slots, free, lock, local, now>>
  BY DEF AddTest, Pool!Valid, Handles, pool, queue, slots
<1>3. e \in Entry
  <2>1. now + d \in Moments /\ (IF l = 0 THEN 0 ELSE now + l) \in Moments
    BY <1>1, Asked DEF QueueInv, QueueTypes, Moments
  <2>2. QED
    BY <1>2, <2>1, Asked DEF Entry, Unnamed, Handles
<1>4. /\ call' = [call EXCEPT ![t] = [op |-> "add", now |-> now, e |-> e]]
      /\ call[t].op = "idle"
  BY <1>1 DEF Enter
<1>5. QueueTypes'
  BY <1>2, <1>3, <1>4 DEF QueueInv, QueueTypes, slots
<1>6. CallsHold'
  <2>1. \A u \in Threads \ {t} : call'[u] = call[u]
    BY <1>4 DEF QueueInv, QueueTypes
  <2>2. call'[t] = [op |-> "add", now |-> now, e |-> e]
    BY <1>4 DEF QueueInv, QueueTypes
  <2>3. fate[f] = "new" /\ f \in Frames /\ \A u \in Threads : call[u].e.frame # f
    BY DEF Unnamed
  <2>4. QED
    BY <1>2, <2>1, <2>2, <2>3 DEF QueueInv, CallsHold, Adding, slots
<1>7. QED
  BY <1>1, <1>2, <1>5, <1>6, EnterKeepsClocks DEF QueueInv

(* When a thread leaves its call, the other calls hold if their frames keep  *)
(* their fate and their threads what they have at hand.                      *)
LEMMA LeaveKeepsCalls ==
  ASSUME QueueInv, NEW t \in Threads, Leave(t),
         \A u \in Threads \ {t} : local'[u] = local[u],
         \A u \in Threads \ {t} : Adding(u) =>
            fate'[call[u].e.frame] = fate[call[u].e.frame]
  PROVE  CallsHold'
<1>1. /\ \A u \in Threads \ {t} : call'[u] = call[u]
      /\ call'[t].op = "idle"
  BY DEF Leave, Idle, QueueInv, QueueTypes
<1>2. QED
  BY <1>1 DEF QueueInv, CallsHold, Adding

LEMMA LeaveTypes ==
  ASSUME QueueInv, NEW t \in Threads, Leave(t)
  PROVE  /\ call' \in [Threads -> [op : {"idle", "add", "take"} \union Sweeps,
                                   now : Moments, e : Entry]]
         /\ \A u \in Threads \ {t} : call'[u] = call[u]
         /\ call'[t].op = "idle"
<1>1. Idle \in [op : {"idle", "add", "take"} \union Sweeps, now : Moments, e : Entry]
  BY VacantIsEntry, Asked DEF Idle, Moments
<1>2. QED
  BY <1>1 DEF Leave, Idle, QueueInv, QueueTypes

(* buffer_queue_add, with the lock. *)
LEMMA AddKeeps ==
  ASSUME QueueInv, NEW t \in Threads, Add(t)
  PROVE  QueueInv'
<1> DEFINE e == call[t].e
           c == call[t].now
<1>1. PICK i \in Slots \ Occupied : slot' = [slot EXCEPT ![i] = e]
  BY DEF Add
<1>2. /\ Adding(t) /\ lock = {} /\ lock' = {}
      /\ qUsed' = qUsed + 1
      /\ qHighWater' = IF qUsed + 1 > qHighWater THEN qUsed + 1 ELSE qHighWater
      /\ fate' = [fate EXCEPT ![e.frame] = "queued"]
      /\ Leave(t)
      /\ free' = free /\ local' = local /\ now' = now
  BY DEF Add, Adding, Pool!AddRef
<1>3. /\ e \in Entry /\ e.valid /\ e.buf \in Handles
      /\ e.frame \in Frames /\ fate[e.frame] = "new"
      /\ \E d \in Delays : e.due = c + d
      /\ e.expiry = 0 \/ \E l \in Ttls : e.expiry = c + l
      /\ c \in Nat /\ c <= now /\ now - c < Half /\ now \in Nat
  BY <1>2 DEF QueueInv, QueueTypes, CallsHold, ClocksHold, InACall, Adding, Moments
<1> HIDE DEF e, c
<1>4. Occupied' = Occupied \union {i}
  BY <1>1, <1>3 DEF QueueInv, QueueTypes, Occupied
<1>5. /\ Cardinality(Occupied) \in 0 .. Size /\ Cardinality(Occupied') \in 0 .. Size
      /\ Cardinality(Occupied') = Cardinality(Occupied) + 1
  <2>1. Occupied \in SUBSET Slots /\ Occupied' \in SUBSET Slots
    BY <1>4 DEF Occupied
  <2>2. QED
    BY <1>1, <1>4, <2>1, SlotsCount
<1>6. qUsed = Cardinality(Occupied)
  BY <1>2 DEF QueueInv, CountHolds
<1>7. QueueTypes'
  BY <1>1, <1>2, <1>3, <1>5, <1>6, LeaveTypes, Asked DEF QueueInv, QueueTypes
<1>8. CallsHold'
  <2>1. \A u \in Threads \ {t} : Adding(u) => call[u].e.frame # e.frame
    BY <1>2 DEF QueueInv, CallsHold, e
  <2>2. QED
    BY <1>2, <2>1, LeaveKeepsCalls DEF QueueInv, QueueTypes, CallsHold
<1>9. LockIsOne'
  BY <1>2 DEF LockIsOne
<1>10. CountHolds'
  BY <1>2, <1>5, <1>6 DEF QueueInv, QueueTypes, CountHolds
<1>11. EntriesHold'
  <2>1. \A j \in Occupied : slot'[j] = slot[j] /\ slot[j].frame # e.frame
    BY <1>1, <1>3 DEF QueueInv, QueueTypes, EntriesHold, Occupied
  <2>2. slot'[i] = e
    BY <1>1 DEF QueueInv, QueueTypes
  <2>3. fate'[e.frame] = "queued" /\ \A f \in Frames \ {e.frame} : fate'[f] = fate[f]
    BY <1>2, <1>3 DEF QueueInv, QueueTypes
  <2>4. QED
    BY <1>3, <1>4, <2>1, <2>2, <2>3 DEF QueueInv, EntriesHold
<1>12. ClocksHold'
  <2>1. \A j \in Occupied : slot'[j] = slot[j]
    BY <1>1 DEF QueueInv, QueueTypes, Occupied
  <2>2. slot'[i] = e /\ now' = now
    BY <1>1, <1>2 DEF QueueInv, QueueTypes
  <2>3. e.due \in Nat /\ e.expiry \in Nat
    BY <1>3 DEF Entry, Moments
  <2>4. /\ now - e.due < Half /\ e.due - now <= Half /\ e.expiry - now <= Half
    BY <1>3, <2>3, Asked, HalfWrap
  <2>5. ASSUME NEW u \in Threads \ {t}, InACall(u)
        PROVE  e.due - call[u].now <= Half /\ e.expiry - call[u].now <= Half
    <3>1. /\ call[u].now \in Nat
          /\ \A d \in Delays \union Ttls : now + d - call[u].now <= Half
      BY <2>5 DEF QueueInv, QueueTypes, ClocksHold, InACall, Moments
    <3>2. /\ \E d \in Delays : d \in Nat /\ e.due <= now + d
          /\ e.expiry = 0 \/ \E l \in Ttls : l \in Nat /\ e.expiry <= now + l
      BY <1>3, Asked, HalfWrap
    <3>3. QED
      BY <1>3, <2>3, <3>1, <3>2, Asked, HalfWrap
  <2>6. \A u \in Threads : InACall(u)' => u # t /\ InACall(u) /\ call'[u] = call[u]
    BY <1>2, LeaveTypes DEF InACall
  <2>7. QED
    BY <1>4, <2>1, <2>2, <2>4, <2>5, <2>6 DEF QueueInv, ClocksHold
<1>13. QED
  BY <1>7, <1>8, <1>9, <1>10, <1>11, <1>12 DEF QueueInv

LEMMA RejectedKeeps ==
  ASSUME QueueInv, NEW t \in Threads, AddRejected(t)
  PROVE  QueueInv'
<1> DEFINE e == call[t].e
<1>1. /\ Adding(t) /\ lock' = lock
      /\ fate' = [fate EXCEPT ![e.frame] = "rejected"]
      /\ Leave(t)
      /\ UNCHANGED <<free, slot, qUsed, qHighWater, local, now>>
  BY DEF AddRejected, Adding, pool, queue
<1>2. e.frame \in Frames /\ fate[e.frame] = "new"
  BY <1>1 DEF QueueInv, CallsHold
<1>3. \A u \in Threads \ {t} : Adding(u) => call[u].e.frame # e.frame
  BY <1>1 DEF QueueInv, CallsHold
<1> HIDE DEF e
<1>4. \A f \in Frames : fate'[f] = IF f = e.frame THEN "rejected" ELSE fate[f]
  BY <1>1, <1>2 DEF QueueInv, QueueTypes
<1>5. QueueTypes'
  BY <1>1, <1>2, LeaveTypes DEF QueueInv, QueueTypes
<1>6. CallsHold'
  BY <1>1, <1>3, <1>4, LeaveKeepsCalls DEF QueueInv, CallsHold
<1>7. LockIsOne' /\ CountHolds'
  <2>1. t \notin lock
    BY <1>1 DEF QueueInv, LockIsOne, Adding, Sweeps
  <2>2. Occupied' = Occupied
    BY <1>1 DEF Occupied
  <2>3. QED
    BY <1>1, <2>1, <2>2, LeaveTypes DEF QueueInv, QueueTypes, LockIsOne, CountHolds
<1>8. EntriesHold'
  BY <1>1, <1>2, <1>4 DEF QueueInv, EntriesHold, Occupied
<1>9. ClocksHold'
  <2>1. \A u \in Threads : InACall(u)' => u # t /\ InACall(u) /\ call'[u] = call[u]
    BY <1>1, LeaveTypes DEF InACall
  <2>2. QED
    BY <1>1, <2>1 DEF QueueInv, ClocksHold, Occupied
<1>10. QED
  BY <1>5, <1>6, <1>7, <1>8, <1>9 DEF QueueInv

(* An entry leaves its slot: its frame is queued no more, and the others are *)
(* where they were.                                                          *)
LEMMA EntryLeaves ==
  ASSUME QueueInv, NEW i \in Occupied, NEW end, end \notin {"new", "queued"},
         slot' = [slot EXCEPT ![i] = Vacant],
         fate' = [fate EXCEPT ![slot[i].frame] = end]
  PROVE  /\ Occupied' = Occupied \ {i}
         /\ Cardinality(Occupied) \in 0 .. Size
         /\ Cardinality(Occupied') = Cardinality(Occupied) - 1
         /\ Cardinality(Occupied') \in 0 .. Size
         /\ slot' \in [Slots -> Entry]
         /\ \A j \in Occupied' : slot'[j] = slot[j]
         /\ \A f \in Frames : fate'[f] = IF f = slot[i].frame THEN end ELSE fate[f]
         /\ \A u \in Threads : Adding(u) =>
              fate'[call[u].e.frame] = fate[call[u].e.frame]
         /\ EntriesHold'
<1>1. i \in Slots /\ slot[i].frame \in Frames /\ fate[slot[i].frame] = "queued"
  BY DEF QueueInv, EntriesHold, Occupied
<1>2. /\ slot' \in [Slots -> Entry] /\ ~slot'[i].valid
      /\ \A j \in Slots \ {i} : slot'[j] = slot[j]
  BY <1>1, VacantIsEntry DEF QueueInv, QueueTypes
<1>3. Occupied' = Occupied \ {i}
  BY <1>1, <1>2 DEF Occupied
<1>4. /\ Cardinality(Occupied) \in 0 .. Size
      /\ Cardinality(Occupied') = Cardinality(Occupied) - 1
      /\ Cardinality(Occupied') \in 0 .. Size
  <2>1. Occupied \in SUBSET Slots /\ Occupied' \in SUBSET Slots
    BY <1>3 DEF Occupied
  <2>2. QED
    BY <1>3, <2>1, SlotsCount
<1>5. \A j \in Occupied' : slot'[j] = slot[j]
  BY <1>2, <1>3 DEF Occupied
<1>6. \A f \in Frames : fate'[f] = IF f = slot[i].frame THEN end ELSE fate[f]
  BY <1>1 DEF QueueInv, QueueTypes
<1>7. \A u \in Threads : Adding(u) =>
        fate'[call[u].e.frame] = fate[call[u].e.frame]
  BY <1>1, <1>6 DEF QueueInv, CallsHold
<1>8. EntriesHold'
  <2>1. \A j \in Occupied' : j \in Occupied /\ slot[j].frame # slot[i].frame
    BY <1>3 DEF QueueInv, EntriesHold
  <2>2. QED
    BY <1>1, <1>3, <1>5, <1>6, <2>1 DEF QueueInv, EntriesHold
<1>9. QED
  BY <1>2, <1>3, <1>4, <1>5, <1>6, <1>7, <1>8

(* Fewer calls and fewer entries at the same moment: still close to it. *)
LEMMA FewerKeepClocks ==
  ASSUME QueueInv, now' = now, Occupied' \subseteq Occupied,
         \A j \in Occupied' : slot'[j] = slot[j],
         \A u \in Threads : InACall(u)' => InACall(u) /\ call'[u] = call[u]
  PROVE  ClocksHold'
BY DEF QueueInv, ClocksHold

(* The slot take chooses is occupied and due. *)
LEMMA BestIsDue ==
  ASSUME NEW t
  PROVE  LET b == Best(t)
         IN  /\ b # 0 => b \in Occupied /\ Since(t, slot[b].due)
             /\ b = 0 <=> \A i \in Occupied : ~Since(t, slot[i].due)
<1> DEFINE P == {i \in Occupied : Since(t, slot[i].due)}
           B == {p \in Slots \X Slots : ~Since(slot[p[1]].due, slot[p[2]].due)}
<1>1. P \in SUBSET (1 .. Size) /\ Size \in Nat
  BY Asked DEF Occupied, Slots
<1>2. Best(t) = FirstBest(Size, P, B)
  BY DEF Best
<1> HIDE DEF P, B
<1>3. /\ FirstBest(Size, P, B) \in P \union {0}
      /\ FirstBest(Size, P, B) = 0 <=> P = {}
  BY <1>1, FirstBestPicks
<1>4. QED
  BY <1>2, <1>3 DEF P

(* buffer_queue_take, with the lock. *)
LEMMA TakeKeeps ==
  ASSUME QueueInv, NEW t \in Threads, Take(t)
  PROVE  QueueInv'
<1> DEFINE b == Best(call[t].now)
<1>1. /\ call[t].op = "take" /\ lock = {} /\ lock' = {}
      /\ Leave(t) /\ free' = free /\ qHighWater' = qHighWater /\ now' = now
  BY DEF Take, pool
<1>2. \A u \in Threads : InACall(u)' => u # t /\ InACall(u) /\ call'[u] = call[u]
  BY <1>1, LeaveTypes DEF InACall
<1>3. LockIsOne'
  BY <1>1 DEF LockIsOne
<1>4. CASE b = 0
  <2>1. UNCHANGED <<slot, qUsed, local, fate>>
    BY <1>4 DEF Take
  <2>2. QueueTypes' /\ CallsHold'
    BY <1>1, <2>1, LeaveTypes, LeaveKeepsCalls DEF QueueInv, QueueTypes
  <2>3. CountHolds' /\ EntriesHold' /\ ClocksHold'
    BY <1>1, <1>2, <2>1 DEF QueueInv, CountHolds, EntriesHold, ClocksHold, Occupied
  <2>4. QED
    BY <1>3, <2>2, <2>3 DEF QueueInv
<1>5. CASE b # 0
  <2>1. /\ local' = [local EXCEPT ![t] = slot[b].buf]
        /\ slot'  = [slot EXCEPT ![b] = Vacant]
        /\ qUsed' = qUsed - 1
        /\ fate'  = [fate EXCEPT ![slot[b].frame] = "taken"]
        /\ b \in Occupied
    BY <1>5, BestIsDue DEF Take
  <2> HIDE DEF b
  <2> DEFINE end == "taken"
  <2>0. end \notin {"new", "queued"} /\ fate' = [fate EXCEPT ![slot[b].frame] = end]
    BY <2>1
  <2> HIDE DEF end
  <2>2. /\ Occupied' = Occupied \ {b}
        /\ Cardinality(Occupied) \in 0 .. Size
        /\ Cardinality(Occupied') = Cardinality(Occupied) - 1
        /\ Cardinality(Occupied') \in 0 .. Size
        /\ slot' \in [Slots -> Entry]
        /\ \A j \in Occupied' : slot'[j] = slot[j]
        /\ \A u \in Threads : Adding(u) =>
             fate'[call[u].e.frame] = fate[call[u].e.frame]
        /\ EntriesHold'
    BY <2>0, <2>1, EntryLeaves
  <2>3. qUsed = Cardinality(Occupied)
    BY <1>1 DEF QueueInv, CountHolds
  <2>4. QueueTypes'
    <3>1. slot[b].buf \in Handles /\ slot[b].frame \in Frames
      BY <2>1 DEF QueueInv, EntriesHold
    <3>2. QED
      BY <1>1, <2>1, <2>2, <2>3, <3>1, LeaveTypes DEF QueueInv, QueueTypes
  <2>5. CallsHold'
    BY <1>1, <2>1, <2>2, LeaveKeepsCalls DEF QueueInv, QueueTypes
  <2>6. CountHolds'
    BY <1>1, <2>1, <2>2, <2>3 DEF QueueInv, QueueTypes, CountHolds
  <2>7. ClocksHold'
    BY <1>1, <1>2, <2>2, FewerKeepClocks
  <2>8. QED
    BY <1>3, <2>2, <2>4, <2>5, <2>6, <2>7 DEF QueueInv
<1>6. QED
  BY <1>4, <1>5

(* A walk takes the lock, which nobody has. *)
LEMMA LockKeeps ==
  ASSUME QueueInv, NEW t \in Threads, Lock(t)
  PROVE  QueueInv'
<1>1. /\ call[t].op \in Sweeps /\ lock = {} /\ lock' = {t}
      /\ UNCHANGED <<free, slots, local, call, now>>
  BY DEF Lock, pool, queue, slots
<1>2. QueueTypes' /\ CallsHold' /\ EntriesHold' /\ ClocksHold'
  BY <1>1 DEF QueueInv, QueueTypes, CallsHold, EntriesHold, ClocksHold, Adding, InACall,
              Occupied, slots
<1>3. LockIsOne' /\ CountHolds'
  BY <1>1 DEF QueueInv, LockIsOne, CountHolds, Occupied, slots
<1>4. QED
  BY <1>2, <1>3 DEF QueueInv

(* One entry of a walk. *)
LEMMA DropKeeps ==
  ASSUME QueueInv, NEW t \in Threads, Drop(t)
  PROVE  QueueInv'
<1> DEFINE end == IF call[t].op = "expire" THEN "expired" ELSE "removed"
<1>1. PICK i \in Matching(t) :
        /\ Pool!DropRef(slot[i].buf)
        /\ slot' = [slot EXCEPT ![i] = Vacant]
        /\ fate' = [fate EXCEPT ![slot[i].frame] = end]
  BY DEF Drop
<1>2. /\ t \in lock
      /\ qUsed' = IF call[t].op = "clear" THEN qUsed ELSE qUsed - 1
      /\ IF call[t].op = "remove_key" THEN lock' = {} /\ Leave(t)
                                      ELSE UNCHANGED <<lock, call>>
      /\ qHighWater' = qHighWater /\ local' = local /\ now' = now
  BY DEF Drop
<1>3. free' \subseteq Handles
  BY <1>1, DropKeepsFree DEF QueueInv, QueueTypes
<1>4. i \in Occupied /\ end \notin {"new", "queued"} /\ end \in {"expired", "removed"}
  BY DEF Matching
<1> HIDE DEF end
<1>5. /\ Occupied' = Occupied \ {i}
      /\ Cardinality(Occupied) \in 0 .. Size
      /\ Cardinality(Occupied') = Cardinality(Occupied) - 1
      /\ Cardinality(Occupied') \in 0 .. Size
      /\ slot' \in [Slots -> Entry]
      /\ \A j \in Occupied' : slot'[j] = slot[j]
      /\ \A u \in Threads : Adding(u) =>
           fate'[call[u].e.frame] = fate[call[u].e.frame]
      /\ EntriesHold'
  BY <1>1, <1>4, EntryLeaves
<1>6. lock = {t} /\ call[t].op \in Sweeps
  BY <1>2 DEF QueueInv, LockIsOne
<1>7. CountHolds' /\ qUsed' \in 0 .. Size
  BY <1>2, <1>5, <1>6 DEF QueueInv, QueueTypes, CountHolds
<1>8. fate' \in [Frames -> {"new", "queued", "rejected", "taken", "expired", "removed"}]
  BY <1>1, <1>4 DEF QueueInv, QueueTypes
<1>9. CASE call[t].op = "remove_key"
  <2>1. lock' = {} /\ Leave(t)
    BY <1>2, <1>9
  <2>2. QueueTypes'
    BY <1>2, <1>3, <1>5, <1>7, <1>8, <2>1, LeaveTypes DEF QueueInv, QueueTypes
  <2>3. CallsHold'
    BY <1>2, <1>5, <2>1, LeaveKeepsCalls
  <2>4. ClocksHold'
    BY <1>2, <1>5, <2>1, LeaveTypes, FewerKeepClocks DEF InACall
  <2>5. LockIsOne'
    BY <2>1 DEF LockIsOne
  <2>6. QED
    BY <1>5, <1>7, <2>2, <2>3, <2>4, <2>5 DEF QueueInv
<1>10. CASE call[t].op # "remove_key"
  <2>1. UNCHANGED <<lock, call>>
    BY <1>2, <1>10
  <2>2. QueueTypes'
    BY <1>2, <1>3, <1>5, <1>7, <1>8, <2>1 DEF QueueInv, QueueTypes
  <2>3. CallsHold'
    BY <1>2, <1>5, <2>1 DEF QueueInv, CallsHold, Adding
  <2>4. ClocksHold'
    BY <1>2, <1>5, <2>1, FewerKeepClocks DEF InACall
  <2>5. LockIsOne'
    BY <2>1 DEF QueueInv, LockIsOne
  <2>6. QED
    BY <1>5, <1>7, <2>2, <2>3, <2>4, <2>5 DEF QueueInv
<1>11. QED
  BY <1>9, <1>10

(* A walk ends: clear has emptied the queue before it sets used to 0. *)
LEMMA UnlockKeeps ==
  ASSUME QueueInv, NEW t \in Threads, Unlock(t)
  PROVE  QueueInv'
<1>1. /\ t \in lock /\ Matching(t) = {} /\ lock' = {} /\ Leave(t)
      /\ qUsed' = IF call[t].op = "clear" THEN 0 ELSE qUsed
      /\ UNCHANGED <<free, slot, qHighWater, local, now, fate>>
  BY DEF Unlock, pool
<1>2. lock = {t} /\ Occupied' = Occupied
  BY <1>1 DEF QueueInv, LockIsOne, Occupied
<1>3. Cardinality(Occupied) \in 0 .. Size /\ (Occupied = {} => Cardinality(Occupied) = 0)
  BY SlotsCount DEF Occupied
<1>4. call[t].op = "clear" => Occupied = {}
  BY <1>1 DEF Matching
<1>5. QueueTypes' /\ CallsHold'
  <2>1. qUsed' \in 0 .. Size
    BY <1>1, Asked DEF QueueInv, QueueTypes
  <2>2. QED
    BY <1>1, <2>1, LeaveTypes, LeaveKeepsCalls DEF QueueInv, QueueTypes
<1>6. LockIsOne' /\ EntriesHold'
  BY <1>1, <1>2 DEF QueueInv, LockIsOne, EntriesHold
<1>7. CountHolds'
  BY <1>1, <1>2, <1>3, <1>4 DEF QueueInv, QueueTypes, CountHolds
<1>8. ClocksHold'
  BY <1>1, <1>2, LeaveTypes, FewerKeepClocks DEF InACall
<1>9. QED
  BY <1>5, <1>6, <1>7, <1>8 DEF QueueInv

(* The clock moves where the queue is attended. *)
LEMMA TickKeeps ==
  ASSUME QueueInv, Tick
  PROVE  QueueInv'
<1>1. /\ now < Horizon /\ now' = now + 1 /\ now \in Nat
      /\ UNCHANGED <<free, slots, lock, local, call>>
  BY DEF Tick, pool, queue, slots, QueueInv, QueueTypes, Moments
<1>2. QueueTypes'
  BY <1>1, Asked DEF QueueInv, QueueTypes, Moments, slots
<1>3. CallsHold' /\ LockIsOne' /\ CountHolds' /\ EntriesHold'
  BY <1>1 DEF QueueInv, CallsHold, LockIsOne, CountHolds, EntriesHold, Adding, Occupied,
              slots
<1>4. ClocksHold'
  <2>1. \A i \in Occupied : /\ slot[i].due \in Nat /\ slot[i].expiry \in Nat
                            /\ now + 1 - slot[i].due < Half
    BY DEF Tick, QueueInv, QueueTypes, Occupied, Entry, Moments
  <2>2. \A t \in Threads : InACall(t) =>
          /\ call[t].now \in Nat
          /\ now + 1 - call[t].now < Half
          /\ \A d \in Delays \union Ttls : now + 1 + d - call[t].now <= Half
    BY DEF Tick, InACall, QueueInv, QueueTypes, Moments
  <2>3. Occupied' = Occupied /\ slot' = slot /\ \A t \in Threads : InACall(t)' <=> InACall(t)
    BY <1>1 DEF Occupied, InACall, slots
  <2>4. QED
    BY <1>1, <2>1, <2>2, <2>3, HalfWrap DEF QueueInv, ClocksHold
<1>5. QED
  BY <1>2, <1>3, <1>4 DEF QueueInv

LEMMA NextHolds ==
  ASSUME QueueInv, [Next]_vars
  PROVE  QueueInv'
<1>1. ASSUME NEW t \in Threads, InCall(t)
      PROVE  QueueInv'
  BY <1>1, AddKeeps, RejectedKeeps, TakeKeeps, LockKeeps, DropKeeps, UnlockKeeps
     DEF InCall
<1>2. CASE UNCHANGED vars
  BY <1>2 DEF vars, pool, queue, QueueInv, QueueTypes, CallsHold, LockIsOne, CountHolds,
              EntriesHold, ClocksHold, Adding, InACall, Occupied
<1>3. QED
  BY <1>1, <1>2, OwnerKeeps, AddTestKeeps, TestKeeps, TickKeeps DEF Next

(* What every call of the queue can rely on, whatever the other threads do:  *)
(* the invariant that the theorems below are drawn from.                     *)
THEOREM QueueIsSound == Spec => []QueueInv
<1>1. Init => QueueInv
  BY InitHolds
<1>2. QueueInv /\ [Next]_vars => QueueInv'
  BY NextHolds
<1>3. QED
  BY <1>1, <1>2, PTL DEF Spec

-----------------------------------------------------------------------------
(* The queue implements the pool: its slots and its threads' locals are the  *)
(* holders.                                                                  *)
held == [p \in Places |-> Reference(p)]

(* What a place keeps, now and after a step. *)
LEMMA PlacesKeep ==
  /\ \A t \in Threads : /\ <<"local", t>> \in Places
                        /\ held[<<"local", t>>] = local[t]
                        /\ held'[<<"local", t>>] = local'[t]
  /\ \A i \in Slots :
       /\ <<"slot", i>> \in Places
       /\ held[<<"slot", i>>] = IF slot[i].valid THEN slot[i].buf ELSE BUFFER_NONE
       /\ held'[<<"slot", i>>] = IF slot'[i].valid THEN slot'[i].buf ELSE BUFFER_NONE
<1>1. "local" # "slot"
  OBVIOUS
<1>2. \A t \in Threads : <<"local", t>> \in Places
  BY DEF Places
<1>3. \A i \in Slots : <<"slot", i>> \in Places
  BY DEF Places
<1>4. \A p \in Places : held[p] = Reference(p) /\ held'[p] = Reference(p)'
  BY DEF held
<1>5. QED
  BY <1>1, <1>2, <1>3, <1>4 DEF Reference

(* Two maps of the places are one when they agree on every local and slot. *)
LEMMA SamePlaces ==
  ASSUME NEW f, NEW g, f = [p \in Places |-> f[p]], g = [p \in Places |-> g[p]],
         \A t \in Threads : f[<<"local", t>>] = g[<<"local", t>>],
         \A i \in Slots : f[<<"slot", i>>] = g[<<"slot", i>>]
  PROVE  f = g
<1>1. \A p \in Places : f[p] = g[p]
  BY DEF Places
<1>2. QED
  BY <1>1

LEMMA SameNone == Pool!BUFFER_NONE = BUFFER_NONE
BY DEF BUFFER_NONE, Pool!BUFFER_NONE

(* A slot or a local that changes changes what its place keeps, and no other *)
(* place; PoolSame: nothing the pool can see has changed.                    *)
LEMMA LocalMoves ==
  ASSUME NEW t \in Threads, NEW h, local \in [Threads -> Handles \union {BUFFER_NONE}],
         local' = [local EXCEPT ![t] = h], slot' = slot
  PROVE  held' = [held EXCEPT ![<<"local", t>>] = h]
<1> DEFINE g == [held EXCEPT ![<<"local", t>>] = h]
<1>1. held' = [p \in Places |-> held'[p]] /\ g = [p \in Places |-> g[p]]
  BY DEF held
<1>2. held = [p \in Places |-> held[p]]
  BY DEF held
<1>3. \A u \in Threads : g[<<"local", u>>] = IF u = t THEN h ELSE held[<<"local", u>>]
  BY <1>2, PlacesKeep
<1>4. \A i \in Slots : g[<<"slot", i>>] = held[<<"slot", i>>]
  <2>1. \A i \in Slots : <<"slot", i>> # <<"local", t>>
    OBVIOUS
  <2>2. QED
    BY <1>2, <2>1, PlacesKeep
<1>5. \A u \in Threads : held'[<<"local", u>>] = g[<<"local", u>>]
  BY <1>3, PlacesKeep
<1>6. \A i \in Slots : held'[<<"slot", i>>] = g[<<"slot", i>>]
  BY <1>4, PlacesKeep
<1> HIDE DEF g
<1>7. held' = g
  BY <1>1, <1>5, <1>6, SamePlaces
<1>8. QED
  BY <1>7 DEF g

LEMMA SlotMoves ==
  ASSUME NEW i \in Slots, NEW e, slot \in [Slots -> Entry],
         slot' = [slot EXCEPT ![i] = e], local' = local,
         NEW h, h = IF e.valid THEN e.buf ELSE BUFFER_NONE
  PROVE  held' = [held EXCEPT ![<<"slot", i>>] = h]
<1> DEFINE g == [held EXCEPT ![<<"slot", i>>] = h]
<1>1. held' = [p \in Places |-> held'[p]] /\ g = [p \in Places |-> g[p]]
  BY DEF held
<1>2. held = [p \in Places |-> held[p]]
  BY DEF held
<1>3. \A t \in Threads : g[<<"local", t>>] = held[<<"local", t>>]
  <2>1. \A t \in Threads : <<"local", t>> # <<"slot", i>>
    OBVIOUS
  <2>2. QED
    BY <1>2, <2>1, PlacesKeep
<1>4. \A j \in Slots : g[<<"slot", j>>] = IF j = i THEN h ELSE held[<<"slot", j>>]
  BY <1>2, PlacesKeep
<1>5. \A t \in Threads : held'[<<"local", t>>] = g[<<"local", t>>]
  BY <1>3, PlacesKeep
<1>6. \A j \in Slots : held'[<<"slot", j>>] = g[<<"slot", j>>]
  <2> SUFFICES ASSUME NEW j \in Slots
               PROVE  held'[<<"slot", j>>] = g[<<"slot", j>>]
    OBVIOUS
  <2>1. CASE j = i
    <3>1. slot'[j] = e
      BY <2>1
    <3>2. held'[<<"slot", j>>] = h
      BY <3>1, PlacesKeep
    <3>3. QED
      BY <1>4, <2>1, <3>2
  <2>2. CASE j # i
    <3>1. slot'[j] = slot[j]
      BY <2>2
    <3>2. held'[<<"slot", j>>] = held[<<"slot", j>>]
      BY <3>1, PlacesKeep
    <3>3. QED
      BY <1>4, <2>2, <3>2
  <2>3. QED
    BY <2>1, <2>2
<1> HIDE DEF g
<1>7. held' = g
  BY <1>1, <1>5, <1>6, SamePlaces
<1>8. QED
  BY <1>7 DEF g

LEMMA AcquireMaps ==
  ASSUME QueueInv, NEW t \in Threads, Acquire(t)
  PROVE  Pool!Acquire(<<"local", t>>)
<1>1. PICK h \in free : Pool!Allot(h) /\ local' = [local EXCEPT ![t] = h]
  BY DEF Acquire
<1>2. held' = [held EXCEPT ![<<"local", t>>] = h]
  BY <1>1, LocalMoves DEF Acquire, QueueInv, QueueTypes, queue
<1>3. held[<<"local", t>>] = Pool!BUFFER_NONE
  BY PlacesKeep, SameNone DEF Acquire
<1>4. QED
  BY <1>1, <1>2, <1>3 DEF Pool!Acquire, held

LEMMA UnrefMaps ==
  ASSUME QueueInv, NEW t \in Threads, Unref(t)
  PROVE  Pool!Unref(<<"local", t>>)
<1>1. /\ local[t] # BUFFER_NONE /\ Pool!DropRef(local[t]) /\ local[t] \in Handles
      /\ local' = [local EXCEPT ![t] = BUFFER_NONE] /\ slot' = slot
  BY DEF Unref, QueueInv, QueueTypes, queue
<1>2. held' = [held EXCEPT ![<<"local", t>>] = Pool!BUFFER_NONE]
  BY <1>1, LocalMoves, SameNone DEF QueueInv, QueueTypes
<1>3. held[<<"local", t>>] = local[t] /\ local[t] # Pool!BUFFER_NONE
  BY <1>1, PlacesKeep, SameNone
<1>4. QED
  BY <1>1, <1>2, <1>3 DEF Pool!Unref, Pool!Keeps, held, Handles

LEMMA AddMaps ==
  ASSUME QueueInv, NEW t \in Threads, Add(t)
  PROVE  \E i \in Slots : Pool!Ref(<<"local", t>>, <<"slot", i>>)
<1>1. PICK i \in Slots \ Occupied : /\ Pool!AddRef(call[t].e.buf)
                                    /\ slot' = [slot EXCEPT ![i] = call[t].e]
  BY DEF Add
<1>2. /\ local' = local /\ call[t].e.valid /\ call[t].e.buf = local[t]
      /\ local[t] \in Handles
  BY DEF Add, QueueInv, CallsHold, Adding
<1>3. held' = [held EXCEPT ![<<"slot", i>>] = local[t]]
  BY <1>1, <1>2, SlotMoves DEF QueueInv, QueueTypes
<1>4. held[<<"slot", i>>] = Pool!BUFFER_NONE
  BY <1>1, PlacesKeep, SameNone DEF Occupied
<1>5. held[<<"local", t>>] = local[t] /\ local[t] # Pool!BUFFER_NONE
  BY <1>2, PlacesKeep, SameNone, NoneIsNoHandle
<1>6. QED
  BY <1>1, <1>2, <1>3, <1>4, <1>5 DEF Pool!Ref, Pool!Keeps, held, Handles

LEMMA DropMaps ==
  ASSUME QueueInv, NEW t \in Threads, Drop(t)
  PROVE  \E i \in Slots : Pool!Unref(<<"slot", i>>)
<1>1. PICK i \in Matching(t) : /\ Pool!DropRef(slot[i].buf)
                               /\ slot' = [slot EXCEPT ![i] = Vacant]
  BY DEF Drop
<1>2. /\ i \in Slots /\ slot[i].valid /\ slot[i].buf \in Handles /\ local' = local
  BY DEF Drop, Matching, Occupied, QueueInv, EntriesHold
<1>3. held' = [held EXCEPT ![<<"slot", i>>] = Pool!BUFFER_NONE]
  BY <1>1, <1>2, SlotMoves, SameNone, VacantIsEntry DEF QueueInv, QueueTypes
<1>4. held[<<"slot", i>>] = slot[i].buf /\ slot[i].buf # Pool!BUFFER_NONE
  BY <1>2, PlacesKeep, SameNone, NoneIsNoHandle
<1>5. QED
  BY <1>1, <1>2, <1>3, <1>4 DEF Pool!Unref, Pool!Keeps, held, Handles

(* A take hands the slot's reference over, or finds nothing due. *)
LEMMA TakeMaps ==
  ASSUME QueueInv, NEW t \in Threads, Take(t)
  PROVE  \/ \E i \in Slots : Pool!HandOver(<<"slot", i>>, <<"local", t>>)
         \/ UNCHANGED <<pool, slot, local>>
<1> DEFINE b == Best(call[t].now)
<1>1. CASE b = 0
  BY <1>1 DEF Take
<1>2. CASE b # 0
  <2>1. /\ local' = [local EXCEPT ![t] = slot[b].buf]
        /\ slot'  = [slot EXCEPT ![b] = Vacant]
        /\ b \in Occupied /\ pool' = pool /\ local[t] = BUFFER_NONE
    BY <1>2, BestIsDue DEF Take, QueueInv, CallsHold
  <2> HIDE DEF b
  <2>2. b \in Slots /\ slot[b].valid /\ slot[b].buf \in Handles
    BY <2>1 DEF Occupied, QueueInv, EntriesHold
  <2> DEFINE g == [held EXCEPT ![<<"slot", b>>] = BUFFER_NONE, ![<<"local", t>>] = slot[b].buf]
  <2>3. held' = [p \in Places |-> held'[p]] /\ g = [p \in Places |-> g[p]]
        /\ held = [p \in Places |-> held[p]]
    BY DEF held
  <2>4. \A u \in Threads : held'[<<"local", u>>] = g[<<"local", u>>]
    <3>1. \A u \in Threads : /\ <<"local", u>> # <<"slot", b>>
                             /\ u # t => <<"local", u>> # <<"local", t>>
      OBVIOUS
    <3>2. \A u \in Threads : local'[u] = IF u = t THEN slot[b].buf ELSE local[u]
      BY <2>1 DEF QueueInv, QueueTypes
    <3>3. \A u \in Threads : g[<<"local", u>>] = IF u = t THEN slot[b].buf
                                                        ELSE held[<<"local", u>>]
      BY <2>3, <3>1, PlacesKeep
    <3>4. QED
      BY <3>2, <3>3, PlacesKeep
  <2>5. \A i \in Slots : held'[<<"slot", i>>] = g[<<"slot", i>>]
    <3>1. \A i \in Slots : /\ <<"slot", i>> # <<"local", t>>
                           /\ i # b => <<"slot", i>> # <<"slot", b>>
      OBVIOUS
    <3>2. \A i \in Slots : slot'[i] = IF i = b THEN Vacant ELSE slot[i]
      BY <2>1 DEF QueueInv, QueueTypes
    <3>3. \A i \in Slots : g[<<"slot", i>>] = IF i = b THEN BUFFER_NONE
                                                      ELSE held[<<"slot", i>>]
      BY <2>3, <3>1, PlacesKeep
    <3>4. held'[<<"slot", b>>] = BUFFER_NONE
      BY <2>2, <3>2, PlacesKeep, VacantIsEntry
    <3>5. \A i \in Slots : i # b => held'[<<"slot", i>>] = held[<<"slot", i>>]
      BY <3>2, PlacesKeep
    <3>6. QED
      BY <3>3, <3>4, <3>5
  <2>6. held' = g
    <3> HIDE DEF g
    <3>1. QED
      BY <2>3, <2>4, <2>5, SamePlaces
  <2>7. /\ held[<<"slot", b>>] = slot[b].buf /\ slot[b].buf # Pool!BUFFER_NONE
        /\ held[<<"local", t>>] = Pool!BUFFER_NONE
    BY <2>1, <2>2, PlacesKeep, SameNone, NoneIsNoHandle
  <2>8. QED
    BY <2>1, <2>2, <2>6, <2>7, SameNone
       DEF Pool!HandOver, Pool!Keeps, held, Handles, pool
<1>3. QED
  BY <1>1, <1>2

LEMMA NothingMoves ==
  ASSUME UNCHANGED <<pool, slot, local>>
  PROVE  UNCHANGED Pool!vars
<1>1. held' = held
  BY DEF held, Reference
<1>2. QED
  BY <1>1 DEF Pool!vars, pool, held

LEMMA StepMaps ==
  ASSUME QueueInv, [Next]_vars
  PROVE  [Pool!Next]_(Pool!vars)
<1>1. ASSUME NEW t \in Threads,
             Acquire(t) \/ Unref(t) \/ Add(t) \/ Take(t) \/ Drop(t)
      PROVE  Pool!Next \/ UNCHANGED <<pool, slot, local>>
  <2>1. <<"local", t>> \in Places /\ \A i \in Slots : <<"slot", i>> \in Places
    BY PlacesKeep
  <2>2. CASE Acquire(t)
    BY <2>1, <2>2, AcquireMaps DEF Pool!Next
  <2>3. CASE Unref(t)
    BY <2>1, <2>3, UnrefMaps DEF Pool!Next
  <2>4. CASE Add(t)
    BY <2>1, <2>4, AddMaps DEF Pool!Next
  <2>5. CASE Take(t)
    BY <2>1, <2>5, TakeMaps DEF Pool!Next
  <2>6. CASE Drop(t)
    BY <2>1, <2>6, DropMaps DEF Pool!Next
  <2>7. QED
    BY <1>1, <2>2, <2>3, <2>4, <2>5, <2>6
<1>2. ASSUME NEW t \in Threads,
             \/ AddTest(t) \/ TakeTest(t) \/ \E op \in Sweeps : SweepTest(t, op)
             \/ AddRejected(t) \/ Lock(t) \/ Unlock(t)
      PROVE  UNCHANGED <<pool, slot, local>>
  BY <1>2 DEF AddTest, TakeTest, SweepTest, AddRejected, Lock, Unlock, queue
<1>3. Tick \/ UNCHANGED vars => UNCHANGED <<pool, slot, local>>
  BY DEF Tick, vars, queue
<1>4. Pool!Next \/ UNCHANGED <<pool, slot, local>>
  BY <1>1, <1>2, <1>3 DEF Next, InCall
<1>5. QED
  BY <1>4, NothingMoves

LEMMA InitMaps == Init => Pool!Init
BY DEF Init

(* Every step of the queue is a step of the pool's discipline, with the      *)
(* slots and the threads' locals as the holders: add takes one reference,    *)
(* take hands the slot's over, a drop returns it, and nothing else touches   *)
(* one.                                                                      *)
THEOREM QueueImplementsPool == Spec => ImplementsPool
<1>1. QueueInv /\ [Next]_vars => [Pool!Next]_(Pool!vars)
  BY StepMaps
<1>2. QED
  BY <1>1, InitMaps, QueueIsSound, PTL DEF Spec, ImplementsPool, Pool!Spec

PoolProofs == INSTANCE BufferPoolProofs
                WITH Holders <- Places, held <- [p \in Places |-> Reference(p)]

(* It is the same pool, by the same definitions. *)
LEMMA SameCount ==
  /\ \A S : PoolProofs!IsFiniteSet(S) <=> IsFiniteSet(S)
  /\ \A S : PoolProofs!Cardinality(S) = Cardinality(S)
  /\ \A S : Pool!Cardinality(S) = Cardinality(S)
<1>1. \A S : PoolProofs!IsFiniteSet(S) <=> IsFiniteSet(S)
  BY DEF PoolProofs!IsFiniteSet, IsFiniteSet
<1>2. \A S : PoolProofs!Cardinality(S) = Cardinality(S)
  BY DEF PoolProofs!Cardinality, Cardinality
<1>3. \A S : Pool!Cardinality(S) = Cardinality(S)
  BY DEF Pool!Cardinality, Cardinality
<1>4. QED
  BY <1>1, <1>2, <1>3

LEMMA SameInit == Pool!Init => PoolProofs!Init
BY DEF Pool!Init, PoolProofs!Init, Pool!Handles, PoolProofs!Handles,
       Pool!BUFFER_NONE, PoolProofs!BUFFER_NONE

LEMMA SameVars == Pool!vars = PoolProofs!vars
BY DEF Pool!vars, PoolProofs!vars

LEMMA SameNext == Pool!Next => PoolProofs!Next
BY DEF Pool!Next, PoolProofs!Next, Pool!Handles, PoolProofs!Handles,
       Pool!BUFFER_NONE, PoolProofs!BUFFER_NONE, Pool!U16, PoolProofs!U16,
       Pool!Words, PoolProofs!Words, Pool!Valid, PoolProofs!Valid,
       Pool!Acquire, PoolProofs!Acquire, Pool!Ref, PoolProofs!Ref,
       Pool!Unref, PoolProofs!Unref, Pool!HandOver, PoolProofs!HandOver,
       Pool!Content, PoolProofs!Content, Pool!Lengths, PoolProofs!Lengths,
       Pool!Reset, PoolProofs!Reset, Pool!Prepend, PoolProofs!Prepend,
       Pool!Write, PoolProofs!Write, Pool!SetLen, PoolProofs!SetLen,
       Pool!Room, PoolProofs!Room, Pool!Keeps, PoolProofs!Keeps,
       Pool!Allot, PoolProofs!Allot, Pool!AddRef, PoolProofs!AddRef,
       Pool!DropRef, PoolProofs!DropRef, Pool!meta, PoolProofs!meta,
       Pool!bookkeeping, PoolProofs!bookkeeping,
       Pool!ScanYields, PoolProofs!ScanYields, Pool!WordAt, PoolProofs!WordAt,
       Pool!FreeIn, PoolProofs!FreeIn

LEMMA SameNumbers ==
  /\ PoolProofs!COUNT_MAX = Pool!COUNT_MAX /\ PoolProofs!U16 = Pool!U16
  /\ PoolProofs!BUFFER_NONE = Pool!BUFFER_NONE
  /\ PoolProofs!Handles = Pool!Handles /\ PoolProofs!Words = Pool!Words
BY DEF PoolProofs!COUNT_MAX, Pool!COUNT_MAX, PoolProofs!U16, Pool!U16,
       PoolProofs!BUFFER_NONE, Pool!BUFFER_NONE, Pool!Handles, PoolProofs!Handles,
       Pool!Words, PoolProofs!Words

LEMMA SamePromises ==
  /\ PoolProofs!TypeOK => Pool!TypeOK
  /\ PoolProofs!RefsExact => Pool!RefsExact
  /\ PoolProofs!FreeExact => Pool!FreeExact
  /\ PoolProofs!NoDangling => Pool!NoDangling
<1>1. PoolProofs!TypeOK => Pool!TypeOK
  BY SameNumbers DEF Pool!TypeOK, PoolProofs!TypeOK
<1>2. PoolProofs!RefsExact => Pool!RefsExact
  BY SameCount
     DEF Pool!RefsExact, PoolProofs!RefsExact, Pool!Handles, PoolProofs!Handles,
         Pool!HoldersOf, PoolProofs!HoldersOf
<1>3. PoolProofs!FreeExact => Pool!FreeExact
  BY SameCount
     DEF Pool!FreeExact, PoolProofs!FreeExact, Pool!Handles, PoolProofs!Handles
<1>4. PoolProofs!NoDangling => Pool!NoDangling
  BY DEF Pool!NoDangling, PoolProofs!NoDangling,
         Pool!BUFFER_NONE, PoolProofs!BUFFER_NONE
<1>5. QED
  BY <1>1, <1>2, <1>3, <1>4

(* What the pool assumes of its user, the queue grants. *)
LEMMA PoolIsAsked ==
  /\ Count \in 1 .. PoolProofs!COUNT_MAX
  /\ WordBits \in Nat \ {0}
  /\ Stride \in 0 .. PoolProofs!U16 - 1
  /\ Offset \in 0 .. Stride
  /\ RefMax \in Nat
  /\ PoolProofs!IsFiniteSet(Places)
  /\ PoolProofs!Cardinality(Places) <= RefMax
BY SameNumbers, SameCount, QueueAssumption

(* So the pool's theorems hold of the queue's references: the counts are     *)
(* exactly the slots and locals that keep a handle, and what one of them     *)
(* keeps is never on the free map.                                           *)
PoolPromises == Pool!TypeOK /\ Pool!RefsExact /\ Pool!FreeExact /\ Pool!NoDangling

THEOREM QueueKeepsPool == Spec => []PoolPromises
<1>1. PoolProofs!Spec => [](PoolProofs!TypeOK)
  BY PoolIsAsked, PoolProofs!PoolTypeOK
<1>2. PoolProofs!Spec => [](PoolProofs!RefsExact)
  BY PoolIsAsked, PoolProofs!PoolRefsExact
<1>3. PoolProofs!Spec => [](PoolProofs!FreeExact)
  BY PoolIsAsked, PoolProofs!PoolFreeExact
<1>4. PoolProofs!Spec => [](PoolProofs!NoDangling)
  BY PoolIsAsked, PoolProofs!PoolNoDangling
<1>5. Pool!Spec => PoolProofs!Spec
  <2>1. Pool!Init => PoolProofs!Init
    BY SameInit
  <2>2. [Pool!Next]_(Pool!vars) => [PoolProofs!Next]_(PoolProofs!vars)
    BY SameNext, SameVars DEF Pool!vars, PoolProofs!vars
  <2>3. QED
    BY <2>1, <2>2, PTL DEF Pool!Spec, PoolProofs!Spec
<1>6. /\ PoolProofs!TypeOK /\ PoolProofs!RefsExact
      /\ PoolProofs!FreeExact /\ PoolProofs!NoDangling
      => PoolPromises
  BY SamePromises DEF PoolPromises
<1>7. QED
  BY <1>1, <1>2, <1>3, <1>4, <1>5, <1>6, QueueImplementsPool, PTL DEF ImplementsPool

-----------------------------------------------------------------------------
(* What the queue promises.                                                *)

(* used moves with the entries, and a frame is queued exactly when one slot, *)
(* and only one, carries it, whatever the threads do in whichever order.     *)
THEOREM QueueIsExact == Spec => []QueueExact
<1>1. QueueInv /\ PoolPromises => TypeOK
  BY DEF QueueInv, QueueTypes, PoolPromises, TypeOK, Handles
<1>2. QueueInv => UsedExact
  BY DEF QueueInv, CountHolds, UsedExact
<1>3. QueueInv => OneEntryEach
  <2> SUFFICES ASSUME QueueInv, NEW f \in Frames
               PROVE  Cardinality({i \in Occupied : slot[i].frame = f})
                        = IF fate[f] = "queued" THEN 1 ELSE 0
    BY DEF OneEntryEach
  <2>1. CASE fate[f] = "queued"
    <3>1. PICK i \in Occupied : slot[i].frame = f
      BY <2>1 DEF QueueInv, EntriesHold
    <3>2. {j \in Occupied : slot[j].frame = f} = {i}
      BY <3>1 DEF QueueInv, EntriesHold
    <3>3. QED
      BY <2>1, <3>2, FS_Singleton
  <2>2. CASE fate[f] # "queued"
    <3>1. {j \in Occupied : slot[j].frame = f} = {}
      BY <2>2 DEF QueueInv, EntriesHold
    <3>2. QED
      BY <2>2, <3>1, FS_EmptySet
  <2>3. QED
    BY <2>1, <2>2
<1>4. QueueInv /\ PoolPromises => QueueExact
  BY <1>1, <1>2, <1>3 DEF QueueExact
<1>5. QED
  BY <1>4, QueueIsSound, QueueKeepsPool, PTL

(* A step that changes what became of a frame is the adding of a new one, or *)
(* the leaving of one that was queued.                                       *)
LEMMA FatesMove ==
  ASSUME QueueInv, [Next]_vars, fate' # fate
  PROVE  \/ \E t \in Threads, end \in {"queued", "rejected"} :
              /\ call[t].e.frame \in Frames /\ fate[call[t].e.frame] = "new"
              /\ fate' = [fate EXCEPT ![call[t].e.frame] = end]
         \/ \E t \in Threads, i \in Occupied :
              \/ /\ Take(t) /\ i = Best(call[t].now) /\ call[t].op = "take"
                 /\ fate' = [fate EXCEPT ![slot[i].frame] = "taken"]
              \/ /\ i \in Matching(t) /\ call[t].op \in Sweeps
                 /\ fate' = [fate EXCEPT ![slot[i].frame] =
                               IF call[t].op = "expire" THEN "expired" ELSE "removed"]
<1>1. PICK t \in Threads : Add(t) \/ AddRejected(t) \/ Take(t) \/ Drop(t)
  BY DEF Next, InCall, Acquire, Unref, AddTest, TakeTest, SweepTest, Lock, Unlock, Tick,
         vars
<1>2. CASE Add(t) \/ AddRejected(t)
  BY <1>2 DEF Add, AddRejected, QueueInv, CallsHold, Adding
<1>3. CASE Take(t)
  <2>1. Best(call[t].now) # 0 /\ Best(call[t].now) \in Occupied
    BY <1>3, BestIsDue DEF Take
  <2>2. QED
    BY <1>3, <2>1 DEF Take
<1>4. CASE Drop(t)
  <2>1. call[t].op \in Sweeps
    BY <1>4 DEF Drop, QueueInv, LockIsOne
  <2>2. PICK i \in Matching(t) :
          fate' = [fate EXCEPT ![slot[i].frame] =
                     IF call[t].op = "expire" THEN "expired" ELSE "removed"]
    BY <1>4 DEF Drop
  <2>3. i \in Occupied
    BY DEF Matching
  <2>4. QED
    BY <2>1, <2>2, <2>3
<1>5. QED
  BY <1>1, <1>2, <1>3, <1>4

(* A frame that was handed over, expired, removed or rejected stays so: no   *)
(* call that began before can do anything to it afterwards.                  *)
THEOREM QueueFateIsFinal == Spec => FateIsFinal
<1> DEFINE Final == \A f \in Frames : fate[f] \notin {"new", "queued"} => fate'[f] = fate[f]
<1>1. QueueInv /\ [Next]_vars => [Final]_vars
  <2> SUFFICES ASSUME QueueInv, [Next]_vars, fate' # fate, NEW f \in Frames,
                      fate[f] \notin {"new", "queued"}
               PROVE  fate'[f] = fate[f]
    OBVIOUS
  <2>1. \A i \in Occupied : slot[i].frame \in Frames /\ fate[slot[i].frame] = "queued"
    BY DEF QueueInv, EntriesHold
  <2>2. PICK g \in Frames :
          /\ fate[g] \in {"new", "queued"}
          /\ \E end : fate' = [fate EXCEPT ![g] = end]
    BY <2>1, FatesMove
  <2>3. QED
    BY <2>2 DEF QueueInv, QueueTypes
<1>2. QED
  BY <1>1, QueueIsSound, PTL DEF Spec, FateIsFinal

(* What take hands over was due, and nothing waiting was due before it. *)
LEMMA TakeIsFirstDue ==
  ASSUME QueueInv, NEW t \in Threads, InACall(t), NEW b \in Occupied,
         b = Best(call[t].now)
  PROVE  slot[b].due <= now /\ \A j \in Occupied : slot[b].due <= slot[j].due
<1> DEFINE c == call[t].now
           P == {i \in Occupied : Since(c, slot[i].due)}
           B == {p \in Slots \X Slots : ~Since(slot[p[1]].due, slot[p[2]].due)}
           due == [i \in P |-> slot[i].due]
<1>1. c \in Nat /\ now \in Nat /\ c <= now
  BY DEF QueueInv, QueueTypes, ClocksHold, Moments
<1>2. \A i \in Occupied : /\ slot[i].due \in Nat /\ i \in Slots
                          /\ c - slot[i].due < Half /\ slot[i].due - c <= Half
                          /\ now - slot[i].due < Half /\ slot[i].due - now <= Half
  BY <1>1, HalfWrap DEF QueueInv, QueueTypes, ClocksHold, Occupied, Entry, Moments
<1> HIDE DEF c
<1>3. \A i \in Occupied : i \in P <=> slot[i].due <= c
  BY <1>1, <1>2, SinceIsLater
<1>4. b \in P
  BY BestIsDue, 0 \notin Occupied DEF c, Occupied, Slots
<1>5. P \in SUBSET (1 .. Size) /\ Size \in Nat
  BY Asked DEF Occupied, Slots
<1>6. due \in [P -> Int]
  BY <1>2
<1>7. \A i, j \in P : <<i, j>> \in B <=> due[i] < due[j]
  <2> SUFFICES ASSUME NEW i \in P, NEW j \in P
               PROVE  <<i, j>> \in B <=> slot[i].due < slot[j].due
    OBVIOUS
  <2>1. /\ slot[i].due \in Int /\ slot[j].due \in Int
        /\ slot[i].due - slot[j].due < Half /\ slot[j].due - slot[i].due <= Half
    BY <1>1, <1>2, <1>3, HalfWrap
  <2>2. Since(slot[i].due, slot[j].due) <=> slot[j].due <= slot[i].due
    BY <2>1, SinceIsLater
  <2>3. QED
    BY <1>2, <2>1, <2>2
<1>8. b = FirstBest(Size, P, B)
  BY DEF Best, c
<1>9. \A j \in P : due[FirstBest(Size, P, B)] <= due[j]
  <2> HIDE DEF P, B, due
  <2>1. QED
    BY <1>5, <1>6, <1>7, FirstBestIsBest
<1>10. \A j \in P : slot[b].due <= slot[j].due
  BY <1>4, <1>8, <1>9
<1>11. QED
  BY <1>1, <1>2, <1>3, <1>4, <1>10

(* The wrapping comparisons honour the true moments. *)
THEOREM QueueTimesHonoured == Spec => TimesHonoured
<1> DEFINE Became(e, end) == fate[e.frame] = "queued" /\ fate'[e.frame] = end
           Honoured ==
             \A i \in Occupied :
               /\ Became(slot[i], "taken") =>
                    slot[i].due <= now /\ \A j \in Occupied : slot[i].due <= slot[j].due
               /\ Became(slot[i], "expired") =>
                    slot[i].expiry # 0 /\ slot[i].expiry <= now
<1>1. QueueInv /\ [Next]_vars => [Honoured]_vars
  <2> SUFFICES ASSUME QueueInv, [Next]_vars, NEW i \in Occupied,
                      Became(slot[i], "taken") \/ Became(slot[i], "expired")
               PROVE  /\ Became(slot[i], "taken") =>
                           /\ slot[i].due <= now
                           /\ \A j \in Occupied : slot[i].due <= slot[j].due
                      /\ Became(slot[i], "expired") =>
                           slot[i].expiry # 0 /\ slot[i].expiry <= now
    OBVIOUS
  <2>1. fate' # fate /\ slot[i].frame \in Frames /\ fate[slot[i].frame] = "queued"
    BY DEF QueueInv, EntriesHold
  <2>2. \A g \in Frames : \A end : fate' = [fate EXCEPT ![g] = end] =>
          slot[i].frame = g /\ fate'[slot[i].frame] = end
    BY <2>1 DEF QueueInv, QueueTypes
  <2>3. PICK t \in Threads, b \in Occupied :
          \/ /\ b = Best(call[t].now) /\ call[t].op = "take"
             /\ fate' = [fate EXCEPT ![slot[b].frame] = "taken"]
          \/ /\ b \in Matching(t) /\ call[t].op \in Sweeps
             /\ fate' = [fate EXCEPT ![slot[b].frame] =
                           IF call[t].op = "expire" THEN "expired" ELSE "removed"]
    BY <2>1, <2>2, FatesMove
  <2>4. slot[b].frame \in Frames /\ (slot[b].frame = slot[i].frame => b = i)
    BY DEF QueueInv, EntriesHold
  <2>5. b = i
    BY <2>2, <2>3, <2>4
  <2>6. CASE /\ b = Best(call[t].now) /\ call[t].op = "take"
             /\ fate' = [fate EXCEPT ![slot[b].frame] = "taken"]
    <3>1. slot[i].due <= now /\ \A j \in Occupied : slot[i].due <= slot[j].due
      BY <2>5, <2>6, TakeIsFirstDue DEF InACall
    <3>2. fate'[slot[i].frame] = "taken"
      BY <2>2, <2>4, <2>6
    <3>3. QED
      BY <3>1, <3>2
  <2>7. CASE /\ b \in Matching(t) /\ call[t].op \in Sweeps
             /\ fate' = [fate EXCEPT ![slot[b].frame] =
                           IF call[t].op = "expire" THEN "expired" ELSE "removed"]
    <3>1. fate'[slot[i].frame] = IF call[t].op = "expire" THEN "expired" ELSE "removed"
      BY <2>2, <2>4, <2>7
    <3>2. call[t].op = "expire"
      BY <3>1
    <3>3. Expired(slot[i], call[t].now)
      BY <2>5, <2>7, <3>2 DEF Matching
    <3>4. /\ slot[i].expiry \in Nat /\ call[t].now \in Nat /\ now \in Nat
          /\ call[t].now <= now /\ slot[i].expiry - call[t].now <= Half
      BY <3>2 DEF QueueInv, QueueTypes, ClocksHold, InACall, Occupied, Entry, Moments
    <3>5. slot[i].expiry # 0
      BY <3>3, HalfWrap DEF Expired
    <3>6. slot[i].expiry <= call[t].now
      BY <3>3, <3>4, SinceIsNotAhead DEF Expired
    <3>7. QED
      BY <3>1, <3>2, <3>4, <3>5, <3>6
  <2>8. QED
    BY <2>3, <2>6, <2>7
<1>2. QED
  BY <1>1, QueueIsSound, PTL DEF Spec, TimesHonoured

=============================================================================
