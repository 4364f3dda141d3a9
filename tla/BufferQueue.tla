----------------------------- MODULE BufferQueue -----------------------------
(***************************************************************************)
(* The timed queue of device/d_module_buffers.h, over the pool, with the   *)
(* lock macros defined and several threads calling it.                     *)
(*                                                                         *)
(* A call is split where another thread can come in between: the test made *)
(* before the lock is taken (buffer_valid in add, used == 0 in the others) *)
(* is a step of its own, and so is each entry that expire, remove_tag and  *)
(* clear release, since every release is a critical section of the pool    *)
(* and only the queue's lock is held across the walk.  A call that is      *)
(* answered without changing anything is no step; buffer_queue_peek is     *)
(* always one of those.                                                    *)
(*                                                                         *)
(* An entry is either vacant or holds one reference to its buffer: the     *)
(* slots and the threads' locals are the holders of BufferPool, which this *)
(* module implements.  The moments in an entry are kept unwrapped; every   *)
(* comparison sees them modulo Wrap, as the uint32_t milliseconds of the   *)
(* code, so the properties can speak of the true moment.                   *)
(***************************************************************************)
EXTENDS Integers, FiniteSets, Scans

CONSTANTS
  Count, WordBits, Stride, Offset, RefMax,  \* of the pool
  Threads,
  Poller,   \* the thread of the polling loop
  Size,     \* capacity of the queue
  Wrap,     \* the clock's modulus (2^32)
  Frames,   \* the add calls the model lets happen, numbered in order
  Tags, Keys,
  Delays,   \* how long after the call a frame becomes due
  Ttls,     \* how long it stays worth sending; 0: for ever
  Start,    \* the first moment
  Horizon   \* the last moment, and the last deadline given

Slots == 1 .. Size

(* Where a reference can be kept, and half the clock's range. *)
Places == {<<"slot", i>> : i \in Slots} \union {<<"local", t>> : t \in Threads}
Half   == Wrap \div 2

VARIABLES
  free, refs, at, len, hintWord, used, highWater,  \* the pool
  slot,       \* slot[]
  qUsed,      \* buffer_queue_t.used
  qHighWater, \* buffer_queue_t.high_water
  lock,       \* the threads inside a walk that holds the queue's lock
  local,      \* the one reference each thread keeps in a local variable
  call,       \* the call each thread is in
  now,        \* the clock the callers read
  fate        \* history: what became of each frame

pool  == <<free, refs, at, len, hintWord, used, highWater>>
queue == <<slot, qUsed, qHighWater>>
vars  == <<pool, queue, lock, local, call, now, fate>>

BUFFER_NONE == 255

Reference(p) ==
  IF p[1] = "local" THEN local[p[2]]
                    ELSE IF slot[p[2]].valid THEN slot[p[2]].buf ELSE BUFFER_NONE

Pool == INSTANCE BufferPool
          WITH Holders <- Places, held <- [p \in Places |-> Reference(p)]

(* The pool's, with these places for its holders, and the queue's own.  What *)
(* is asked of the queue lies in the half of the clock its casts to int32_t  *)
(* can tell from the past.                                                   *)
ASSUME QueueAssumption ==
  /\ Count \in 1 .. Pool!COUNT_MAX /\ WordBits \in Nat \ {0}
  /\ Stride \in 0 .. Pool!U16 - 1 /\ Offset \in 0 .. Stride
  /\ RefMax \in Nat /\ IsFiniteSet(Places) /\ Cardinality(Places) <= RefMax
  /\ Poller \in Threads
  /\ Size \in Nat \ {0}
  /\ Wrap \in Nat \ {0} /\ Wrap % 2 = 0
  /\ Frames \subseteq Nat \ {0}
  /\ Tags \subseteq Nat /\ Keys \subseteq Nat
  /\ Delays \subseteq 0 .. Half /\ Ttls \subseteq 0 .. Half
  /\ Horizon \in Nat /\ Start \in 1 .. Horizon

-----------------------------------------------------------------------------
Vacant == [valid |-> FALSE, buf |-> BUFFER_NONE, frame |-> 0, tag |-> 0,
           key |-> 0, due |-> 0, expiry |-> 0]

Occupied == {i \in Slots : slot[i].valid}

SinceUnwrapped(a, b) == a % Wrap >= b % Wrap   \* a slip

(* (int32_t)(a - b) >= 0 *)
Since(a, b) == (a - b) % Wrap < Half

Expired(e, t) == e.expiry % Wrap # 0 /\ Since(t, e.expiry)

(* The walk of take and peek: the earliest due so far, the first of equals;  *)
(* 0 when nothing is due.                                                    *)
Best(t) ==
  FirstBest(Size, {i \in Occupied : Since(t, slot[i].due)},
            {p \in Slots \X Slots : ~Since(slot[p[1]].due, slot[p[2]].due)})

Idle == [op |-> "idle", now |-> 0, e |-> Vacant]

Enter(t, op, e) ==
  /\ call[t].op = "idle"
  /\ call' = [call EXCEPT ![t] = [op |-> op, now |-> now, e |-> e]]

Leave(t) == call' = [call EXCEPT ![t] = Idle]

Init ==
  /\ slot = [i \in Slots |-> Vacant]
  /\ qUsed = 0 /\ qHighWater = 0
  /\ lock = {}
  /\ local = [t \in Threads |-> BUFFER_NONE]
  /\ call  = [t \in Threads |-> Idle]
  /\ now   = Start
  /\ fate  = [f \in Frames |-> "new"]
  /\ Pool!Init

-----------------------------------------------------------------------------
(* What a thread does between its calls of the queue.                      *)

Acquire(t) ==
  /\ call[t].op = "idle" /\ local[t] = BUFFER_NONE
  /\ \E h \in free : Pool!Allot(h) /\ local' = [local EXCEPT ![t] = h]
  /\ UNCHANGED <<queue, lock, call, now, fate>>

Unref(t) ==
  /\ call[t].op = "idle" /\ local[t] # BUFFER_NONE
  /\ Pool!DropRef(local[t])
  /\ local' = [local EXCEPT ![t] = BUFFER_NONE]
  /\ UNCHANGED <<queue, lock, call, now, fate>>

-----------------------------------------------------------------------------
(* buffer_queue_add: the handle is checked before the lock is taken.       *)

Unnamed == {f \in Frames : fate[f] = "new" /\ \A u \in Threads : call[u].e.frame # f}

AddTest(t) ==
  /\ Pool!Valid(local[t])
  /\ \E f \in Unnamed, g \in Tags, k \in Keys, d \in Delays, l \in Ttls :
       /\ \A other \in Unnamed : f <= other
       /\ now + d <= Horizon /\ now + l <= Horizon
       /\ l # 0 => (now + l) % Wrap # 0
       /\ Enter(t, "add",
                [valid |-> TRUE, buf |-> local[t], frame |-> f, tag |-> g,
                 key |-> k, due |-> now + d,
                 expiry |-> IF l = 0 THEN 0 ELSE now + l])
  /\ UNCHANGED <<pool, queue, lock, local, now, fate>>

(* A slip: the entry is made without taking its reference. *)
AddUnreferenced(t) ==
  /\ call[t].op = "add" /\ lock = {}
  /\ \E i \in Slots \ Occupied :
       /\ \A j \in Slots \ Occupied : i <= j
       /\ slot' = [slot EXCEPT ![i] = call[t].e]
  /\ qUsed' = qUsed + 1
  /\ qHighWater' = IF qUsed + 1 > qHighWater THEN qUsed + 1 ELSE qHighWater
  /\ fate' = [fate EXCEPT ![call[t].e.frame] = "queued"]
  /\ Leave(t)
  /\ UNCHANGED <<pool, lock, local, now>>

Add(t) ==
  /\ call[t].op = "add" /\ lock = {}
  /\ \E i \in Slots \ Occupied :
       /\ \A j \in Slots \ Occupied : i <= j
       /\ Pool!AddRef(call[t].e.buf)
       /\ slot' = [slot EXCEPT ![i] = call[t].e]
  /\ qUsed' = qUsed + 1
  /\ qHighWater' = IF qUsed + 1 > qHighWater THEN qUsed + 1 ELSE qHighWater
  /\ fate' = [fate EXCEPT ![call[t].e.frame] = "queued"]
  /\ Leave(t)
  /\ UNCHANGED <<lock, local, now>>

AddRejected(t) ==
  /\ call[t].op = "add" /\ lock = {} /\ Occupied = Slots
  /\ fate' = [fate EXCEPT ![call[t].e.frame] = "rejected"]
  /\ Leave(t)
  /\ UNCHANGED <<pool, queue, lock, local, now>>

-----------------------------------------------------------------------------
(* The calls that first look at used without the lock.                     *)

TakeTest(t) ==
  /\ qUsed # 0 /\ local[t] = BUFFER_NONE
  /\ Enter(t, "take", Vacant)
  /\ UNCHANGED <<pool, queue, lock, local, now, fate>>

(* A slip: the entry handed over stays in its slot. *)
TakeLeaves(t) ==
  /\ call[t].op = "take" /\ lock = {}
  /\ LET b == Best(call[t].now) IN
       IF b = 0 THEN UNCHANGED <<local, fate>>
                ELSE /\ local' = [local EXCEPT ![t] = slot[b].buf]
                     /\ fate'  = [fate EXCEPT ![slot[b].frame] = "taken"]
  /\ Leave(t)
  /\ UNCHANGED <<pool, queue, lock, now>>

Take(t) ==
  /\ call[t].op = "take" /\ lock = {}
  /\ LET b == Best(call[t].now) IN
       IF b = 0
         THEN UNCHANGED <<slot, qUsed, local, fate>>
         ELSE /\ local' = [local EXCEPT ![t] = slot[b].buf]
              /\ slot'  = [slot EXCEPT ![b] = Vacant]
              /\ qUsed' = qUsed - 1
              /\ fate'  = [fate EXCEPT ![slot[b].frame] = "taken"]
  /\ Leave(t)
  /\ UNCHANGED <<pool, qHighWater, lock, now>>

(* What a walk that drops entries is after: all of them (clear), those of a  *)
(* tag, the first with a tag and key, those past their expiry.               *)
Sweeps == {"clear", "remove_tag", "remove_key", "expire"}

Matching(t) ==
  {i \in Occupied :
     \/ call[t].op = "clear"
     \/ call[t].op = "remove_tag" /\ slot[i].tag = call[t].e.tag
     \/ /\ call[t].op = "remove_key"
        /\ slot[i].tag = call[t].e.tag /\ slot[i].key = call[t].e.key
     \/ call[t].op = "expire" /\ Expired(slot[i], call[t].now)}

SweepTest(t, op) ==
  /\ qUsed # 0
  /\ \E g \in Tags, k \in Keys :
       Enter(t, op, [Vacant EXCEPT
                       !.tag = IF op \in {"remove_tag", "remove_key"} THEN g ELSE 0,
                       !.key = IF op = "remove_key" THEN k ELSE 0])
  /\ UNCHANGED <<pool, queue, lock, local, now, fate>>

Lock(t) ==
  /\ call[t].op \in Sweeps /\ lock = {}
  /\ lock' = {t}
  /\ UNCHANGED <<pool, queue, local, call, now, fate>>

(* A slip: remove_key drops its entry and does not count it. *)
DropUncounted(t) ==
  /\ t \in lock
  /\ \E i \in Matching(t) :
       /\ \A j \in Matching(t) : i <= j
       /\ Pool!DropRef(slot[i].buf)
       /\ slot' = [slot EXCEPT ![i] = Vacant]
       /\ fate' = [fate EXCEPT ![slot[i].frame] = "removed"]
  /\ qUsed' = IF call[t].op \in {"clear", "remove_key"} THEN qUsed ELSE qUsed - 1
  /\ IF call[t].op = "remove_key" THEN lock' = {} /\ Leave(t)
                                  ELSE UNCHANGED <<lock, call>>
  /\ UNCHANGED <<qHighWater, local, now>>

Drop(t) ==
  /\ t \in lock
  /\ \E i \in Matching(t) :
       /\ \A j \in Matching(t) : i <= j
       /\ Pool!DropRef(slot[i].buf)
       /\ slot' = [slot EXCEPT ![i] = Vacant]
       /\ fate' = [fate EXCEPT ![slot[i].frame] =
                     IF call[t].op = "expire" THEN "expired" ELSE "removed"]
  /\ qUsed' = IF call[t].op = "clear" THEN qUsed ELSE qUsed - 1
  /\ IF call[t].op = "remove_key" THEN lock' = {} /\ Leave(t)
                                  ELSE UNCHANGED <<lock, call>>
  /\ UNCHANGED <<qHighWater, local, now>>

(* A slip: the lock is not released. *)
UnlockForgotten(t) ==
  /\ t \in lock /\ Matching(t) = {}
  /\ qUsed' = IF call[t].op = "clear" THEN 0 ELSE qUsed
  /\ Leave(t)
  /\ UNCHANGED <<pool, slot, qHighWater, lock, local, now, fate>>

Unlock(t) ==
  /\ t \in lock /\ Matching(t) = {}
  /\ qUsed' = IF call[t].op = "clear" THEN 0 ELSE qUsed
  /\ lock' = {}
  /\ Leave(t)
  /\ UNCHANGED <<pool, slot, qHighWater, local, now, fate>>

-----------------------------------------------------------------------------
(* The clock.  A queue is attended: no moment in it, and no call, is left    *)
(* half a wrap (24.8 days) behind, and no call so far that what is added     *)
(* during it could lie half a wrap ahead of it.                              *)
Tick ==
  /\ now < Horizon
  /\ \A i \in Occupied : now + 1 - slot[i].due < Half
  /\ \A t \in Threads :
       call[t].op # "idle" =>
         /\ now + 1 - call[t].now < Half
         /\ \A d \in Delays \union Ttls : now + 1 + d - call[t].now <= Half
  /\ now' = now + 1
  /\ UNCHANGED <<pool, queue, lock, local, call, fate>>

InCall(t) == Add(t) \/ AddRejected(t) \/ Take(t) \/ Lock(t) \/ Drop(t) \/ Unlock(t)

Next ==
  \/ \E t \in Threads :
       \/ Acquire(t) \/ Unref(t)
       \/ AddTest(t) \/ TakeTest(t) \/ \E op \in Sweeps : SweepTest(t, op)
       \/ InCall(t)
  \/ Tick

Spec == Init /\ [][Next]_vars

(* A call that was entered gets the lock and goes on; the clock runs; and   *)
(* the polling loop comes back to expire on every pass ("called every pass, *)
(* whether or not anything can be transmitted").                            *)
Fairness ==
  /\ \A t \in Threads : SF_vars(InCall(t))
  /\ SF_vars(SweepTest(Poller, "expire"))
  /\ WF_vars(Tick)

FairSpec == Spec /\ Fairness

-----------------------------------------------------------------------------
Moments == 0 .. Horizon

Entry == [valid : BOOLEAN, buf : Pool!Handles \union {BUFFER_NONE},
          frame : Frames \union {0}, tag : Nat, key : Nat,
          due : Moments, expiry : Moments]

TypeOK ==
  /\ Pool!TypeOK
  /\ slot \in [Slots -> Entry]
  /\ qUsed \in 0 .. Size /\ qHighWater \in 0 .. Size
  /\ lock \in SUBSET Threads
  /\ local \in [Threads -> Pool!Handles \union {BUFFER_NONE}]
  /\ call \in [Threads -> [op : {"idle", "add", "take"} \union Sweeps,
                           now : Moments, e : Entry]]
  /\ now \in Moments
  /\ fate \in [Frames -> {"new", "queued", "rejected", "taken", "expired", "removed"}]

(* "used is exact -- it moves with valid under the lock": outside a walk it  *)
(* counts the entries, inside one it never falls below them, so a caller     *)
(* that reads 0 without the lock skips no entry that is there.               *)
UsedExact ==
  /\ lock = {} => qUsed = Cardinality(Occupied)
  /\ Cardinality(Occupied) <= qUsed /\ qUsed <= qHighWater

(* A frame is waiting exactly when one slot, and only one, carries it: no    *)
(* interleaving of add, take, expire and remove loses a frame that was       *)
(* accepted or leaves a second entry of one that was handed over.            *)
OneEntryEach ==
  \A f \in Frames :
    Cardinality({i \in Occupied : slot[i].frame = f})
      = IF fate[f] = "queued" THEN 1 ELSE 0

(* Types, the count and the entries together: no slot is missed, none is doubled.  *)
QueueExact == TypeOK /\ UsedExact /\ OneEntryEach

(* The references: every step of the queue is a step, or several holders'    *)
(* steps, of the pool's discipline - add takes one reference, take hands     *)
(* over the one the slot kept, a drop returns it, a rejected add takes none. *)
ImplementsPool == Pool!Spec

(* Nothing happens to a frame twice: once handed over, expired, removed or   *)
(* rejected it stays so.                                                     *)
FateIsFinal ==
  [][\A f \in Frames : fate[f] \notin {"new", "queued"} => fate'[f] = fate[f]]_vars

(* The wrapping comparisons honour the true moments: a frame handed over was *)
(* due and no frame waiting was due before it; a frame that expired had an   *)
(* expiry, and it was past.                                                  *)
TimesHonoured ==
  [][\A i \in Occupied :
       LET e == slot[i]
           became(end) == fate[e.frame] = "queued" /\ fate'[e.frame] = end IN
       /\ became("taken") =>
            e.due <= now /\ \A j \in Occupied : e.due <= slot[j].due
       /\ became("expired") => e.expiry # 0 /\ e.expiry <= now]_vars

(* Back-pressure is survivable: a frame with an expiry does not stay queued  *)
(* for ever, whatever the other threads keep doing to the queue.             *)
LeavesInTheEnd ==
  \A f \in Frames :
    (\E i \in Slots : slot[i].valid /\ slot[i].frame = f /\ slot[i].expiry # 0)
      ~> fate[f] # "queued"

=============================================================================
