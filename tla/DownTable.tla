----------------------------- MODULE DownTable -----------------------------
(***************************************************************************)
(* The table of device downs of iotdata_node_down.h: what a node remembers *)
(* of the flood, what it holds for a station that sleeps, and what it puts *)
(* on the air when that station announces a window.                        *)
(*                                                                         *)
(* The code is single-threaded, so a call is a step.  A call that changes  *)
(* nothing but a statistic (an offer answered DUP, a tick inside the scan  *)
(* interval) is no step.  A frame stands for its own hash: the model has   *)
(* no two frames of one hash.  The pool is reduced to its reference counts *)
(* and the bytes in each buffer; that a buffer is free exactly when its    *)
(* count is 0 is BufferPool's FreeExact.                                   *)
(*                                                                         *)
(* As in BufferQueue the moments kept are the true ones and every          *)
(* comparison sees them modulo Wrap.                                       *)
(***************************************************************************)
EXTENDS Integers, FiniteSets, Scans

CONSTANTS
  Handles,    \* the buffers of the pool
  BUFFER_NONE,
  Locals,     \* the references the caller can keep at one time
  LastEntry,  \* IOTDATA_NODE_DOWN_STATIONS - 1
  Depth,      \* IOTDATA_NODE_DOWN_SLOTS
  SentDepth,  \* IOTDATA_NODE_DOWN_SENT_SLOTS
  Stations,   \* the station numbers in the air
  Broadcast,  \* IOTDATA_STATION_BROADCAST
  Frames,     \* the down frames in the air: [to, size, n]
  Adverts,    \* the RECEIVE advertisements: [window, delay, accepts]
  Ttl, TtlBcast, Repeat, Scan,  \* the configured intervals
  Wrap,       \* the clock's modulus (2^32)
  Start,      \* the first moment
  LastArrival, \* the last moment a frame comes in
  Horizon     \* the last moment

NoFrame  == [to |-> 0, size |-> 0, n |-> 0]
Entries  == 0 .. LastEntry
Slots    == 1 .. Depth
Moments  == 0 .. Horizon

(* What the constants are to be; who instantiates the table assumes it.      *)
DownAssumption ==
  /\ IsFiniteSet(Handles) /\ BUFFER_NONE \notin Handles /\ IsFiniteSet(Locals)
  /\ Depth \in Nat \ {0} /\ SentDepth \in Nat \ {0}
  /\ LastEntry \in Nat \ {0}
  /\ 0 \notin Stations /\ Broadcast \notin Stations \union {0}
  /\ Frames \subseteq [to : Stations \union {Broadcast}, size : Nat \ {0}, n : Nat]
  /\ Adverts \subseteq [window : Nat, delay : Nat, accepts : BOOLEAN]
  /\ Wrap \in {2 * k : k \in 1 .. Wrap}
  /\ {Ttl, TtlBcast, Repeat} \subseteq 0 .. Wrap \div 2 - 1   \* TTL_MS_MAX
  /\ Scan \in Nat /\ LastArrival \in Nat /\ Horizon \in Nat /\ Start \in 0 .. Horizon

VARIABLES
  refs,      \* the pool: reference counts
  bytes,     \* the pool: the frame received into each buffer
  local,     \* the handles the caller keeps
  station,   \* station[].station, 0 = unused
  downLast,  \* .down_last_ms
  window,    \* .window_seen, .window_ms, .window_at_ms
  slot,      \* .slot[]
  sent,      \* .sent[]
  count,
  scanLast,  \* scan_last_ms
  now,
  heard,     \* history: the stations that have announced a window
  given      \* history: when each station was last given each broadcast

pool  == <<refs, bytes>>
table == <<station, downLast, window, slot, sent, count>>
vars  == <<pool, local, table, scanLast, now, heard, given>>

Cleared  == [hash |-> NoFrame, arrived |-> 0, frame |-> BUFFER_NONE]
NoRecord == [hash |-> NoFrame, at |-> 0]
Unheard  == [seen |-> FALSE, ms |-> 0, at |-> 0]
Never    == [f \in Frames |-> -1]

Init ==
  /\ refs  = [h \in Handles |-> 0]
  /\ bytes = [h \in Handles |-> NoFrame]
  /\ local = [c \in Locals |-> BUFFER_NONE]
  /\ station  = [e \in Entries |-> IF e = 0 THEN Broadcast ELSE 0]
  /\ downLast = [e \in Entries |-> 0]
  /\ window   = [e \in Entries |-> Unheard]
  /\ slot = [e \in Entries |-> [j \in Slots |-> Cleared]]
  /\ sent = [e \in Entries |-> [k \in 1 .. SentDepth |-> NoRecord]]
  /\ count = 1
  /\ scanLast = 0
  /\ now = Start
  /\ heard = {}
  /\ given = [s \in Stations |-> Never]

-----------------------------------------------------------------------------
Least(S) == CHOOSE x \in S : \A y \in S : x <= y

(* (int32_t)(a - b) < 0 *)
Before(a, b) == (a - b) % Wrap >= Wrap \div 2

Older(then, ttl) == ttl # 0 /\ (now - then) % Wrap >= ttl

(* A window w has this much left: nothing before it opens or after it shut. *)
Remaining(w) ==
  LET elapsed == (now - w.at) % Wrap IN
  IF w.seen /\ elapsed < w.ms THEN w.ms - elapsed ELSE 0

(* iotdata_node_receive_fits_ms: the time on the air against what is left. *)
Fits(f, left) == f.size <= left

-----------------------------------------------------------------------------
(* Finding a station, and making room for one.                             *)

Found(s) == IF s = Broadcast THEN {0} ELSE {e \in 1 .. LastEntry : station[e] = s}
Unused   == {e \in 1 .. LastEntry : station[e] = 0}

Movable == 1 .. LastEntry   \* the broadcast entry stays

IdleEntry(e) == \A j \in Slots : slot[e][j].frame = BUFFER_NONE

(* A slip: the oldest goes, whatever it still holds. *)
VictimOldest ==
  FirstBest(LastEntry, Movable,
            {p \in Movable \X Movable : Before(downLast[p[1]], downLast[p[2]])})

(* An idle entry before a busy one, and of two alike the one longest without *)
(* a down.                                                                  *)
LosesLess(e, b) ==
  \/ IdleEntry(e) /\ ~IdleEntry(b)
  \/ IdleEntry(e) = IdleEntry(b) /\ Before(downLast[e], downLast[b])

Victim ==
  FirstBest(LastEntry, Movable, {p \in Movable \X Movable : LosesLess(p[1], p[2])})

Evicts(s) == Found(s) = {} /\ Unused = {}

EntryOf(s) == IF Found(s) # {} THEN Least(Found(s))
              ELSE IF Unused # {} THEN Least(Unused) ELSE Victim

(* The pool under buffer_ref, buffer_unref and the release of some slots.   *)
PlusNothing(r, h) == r   \* a slip: a handle kept without a reference

Plus(r, h)  == [g \in Handles |-> r[g] + (IF g = h THEN 1 ELSE 0)]
Minus(r, h) == [g \in Handles |-> r[g] - (IF g = h THEN 1 ELSE 0)]

Released(P) ==
  [h \in Handles |-> refs[h] - Cardinality({p \in P : slot[p[1]][p[2]].frame = h})]

(* What obtaining the station leaves: its slots, the counts once an evicted  *)
(* station's frames are released.  An evicted entry keeps all the rest.      *)
RowOf(s) == IF Evicts(s) THEN [j \in Slots |-> Cleared] ELSE slot[EntryOf(s)]

RefsOf(s) == IF Evicts(s) THEN Released({EntryOf(s)} \X Slots) ELSE refs

Obtain(s) ==
  /\ station' = [station EXCEPT ![EntryOf(s)] = s]
  /\ count' = IF Found(s) = {} /\ ~Evicts(s) THEN count + 1 ELSE count

Forgotten(s) == IF Evicts(s) THEN [given EXCEPT ![station[EntryOf(s)]] = Never] ELSE given

-----------------------------------------------------------------------------
(* What the caller does with its own references.                           *)

Receive(c, f) ==
  /\ local[c] = BUFFER_NONE
  /\ \E h \in Handles :
       /\ refs[h] = 0
       /\ refs'  = [refs EXCEPT ![h] = 1]
       /\ bytes' = [bytes EXCEPT ![h] = f]
       /\ local' = [local EXCEPT ![c] = h]
  /\ UNCHANGED <<table, scanLast, now, heard, given>>

Unref(c) ==
  /\ local[c] # BUFFER_NONE
  /\ refs'  = [refs EXCEPT ![local[c]] = @ - 1]
  /\ local' = [local EXCEPT ![c] = BUFFER_NONE]
  /\ UNCHANGED <<bytes, table, scanLast, now, heard, given>>

-----------------------------------------------------------------------------
Known(f) == \E e \in Found(f.to) : \E j \in Slots : slot[e][j].hash = f

(* The slot a new frame takes: the first empty one, or else the oldest.    *)
SlotIn(row) ==
  LET empty == {j \in Slots : row[j].hash = NoFrame}
      older == {p \in Slots \X Slots : Before(row[p[1]].arrived, row[p[2]].arrived)}
  IN IF empty # {} THEN Least(empty) ELSE FirstBest(Depth, Slots, older)

(* Whether holding the frame can help: the station has announced a window,  *)
(* and is not listening to the rebroadcast right now.                       *)
Worth(f, w) ==
  \/ f.to = Broadcast
  \/ w.seen /\ ~(Remaining(w) > 0 /\ Fits(f, Remaining(w)))

(* iotdata_node_down_offer, for a frame that is new: the caller's handle h, *)
(* or none when it had no buffer for it.                                    *)
Offer(f, h) ==
  /\ ~Known(f)
  /\ LET e    == EntryOf(f.to)
         row  == RowOf(f.to)
         j    == SlotIn(row)
         kept == IF h # BUFFER_NONE /\ Worth(f, window[e]) THEN h ELSE BUFFER_NONE
     IN /\ slot' = [slot EXCEPT ![e] =
                      [row EXCEPT ![j] = [hash |-> f, arrived |-> now, frame |-> kept]]]
        /\ refs' = Plus(Minus(RefsOf(f.to), row[j].frame), kept)
        /\ downLast' = [downLast EXCEPT ![e] = now]
  /\ Obtain(f.to)
  /\ given' = Forgotten(f.to)
  /\ UNCHANGED <<bytes, local, window, sent, scanLast, now, heard>>

(* The caller has the frame in a buffer, or received it without one.        *)
Arrive(f) ==
  /\ now <= LastArrival
  /\ \/ Offer(f, BUFFER_NONE)
     \/ \E c \in Locals :
          local[c] # BUFFER_NONE /\ bytes[local[c]] = f /\ Offer(f, local[c])

-----------------------------------------------------------------------------
(* iotdata_node_down_window: a station announces a window and gets a frame. *)

(* The first record of the hash decides. *)
SentRecently(e, f) ==
  LET records == {k \in 1 .. SentDepth : sent[e][k].hash = f} IN
  records # {} /\ ~Older(sent[e][Least(records)].at, Repeat)

(* The record to write: the first that is empty or of this hash, or else    *)
(* the oldest.                                                              *)
RecordFor(e, f) ==
  LET free == {k \in 1 .. SentDepth : sent[e][k].hash \in {f, NoFrame}}
      older == {p \in (1 .. SentDepth) \X (1 .. SentDepth) :
                  Before(sent[e][p[1]].at, sent[e][p[2]].at)}
  IN IF free # {} THEN Least(free) ELSE FirstBest(SentDepth, 1 .. SentDepth, older)

(* The candidates of a window: the slots of the station, then those of the  *)
(* broadcast entry, numbered on.                                            *)
Candidate(row, n) == IF n <= Depth THEN row[n] ELSE slot[0][n - Depth]

Eligible(e, row, n) ==
  /\ Candidate(row, n).frame # BUFFER_NONE
  /\ n > Depth => ~SentRecently(e, Candidate(row, n).hash)

FitsIn(row, n, left) == Fits(bytes[Candidate(row, n).frame], left)

Offers(e, row) == {n \in 1 .. 2 * Depth : Eligible(e, row, n)}

Earlier(row) == {p \in (1 .. 2 * Depth) \X (1 .. 2 * Depth) :
                   Before(Candidate(row, p[1]).arrived, Candidate(row, p[2]).arrived)}

(* A slip: a frame that does not fit ends the search. *)
ChosenFirst(e, row, left) ==
  LET n == FirstBest(2 * Depth, Offers(e, row), Earlier(row))
  IN IF n # 0 /\ FitsIn(row, n, left) THEN n ELSE 0

(* The oldest that fits: the loop sets aside, for this call, the oldest that *)
(* does not, and looks again.                                                *)
Chosen(e, row, left) ==
  FirstBest(2 * Depth, {n \in Offers(e, row) : FitsIn(row, n, left)}, Earlier(row))

(* The unicast is released and its hash stays; the broadcast is kept and    *)
(* recorded as given.                                                       *)
Deliver(s, e, row, n, c) ==
  LET h == Candidate(row, n).frame
      f == Candidate(row, n).hash IN
  /\ local' = [local EXCEPT ![c] = h]
  /\ IF n > Depth
       THEN /\ sent' = [sent EXCEPT ![e][RecordFor(e, f)] = [hash |-> f, at |-> now]]
            /\ slot' = [slot EXCEPT ![e] = row]
            /\ refs' = Plus(RefsOf(s), h)
            /\ given' = [Forgotten(s) EXCEPT ![s][f] = now]
       ELSE /\ slot' = [slot EXCEPT ![e] = [row EXCEPT ![n].frame = BUFFER_NONE]]
            /\ refs' = Minus(Plus(RefsOf(s), h), h)
            /\ given' = Forgotten(s)
            /\ UNCHANGED sent

Window(s, rx, c) ==
  /\ local[c] = BUFFER_NONE
  /\ UNCHANGED <<bytes, downLast, scanLast, now>>
  /\ LET e   == EntryOf(s)
         row == RowOf(s)
         w   == [seen |-> TRUE, ms |-> rx.window, at |-> now + rx.delay]
         n   == IF rx.accepts THEN Chosen(e, row, Remaining(w)) ELSE 0
     IN /\ window' = [window EXCEPT ![e] = w]
        /\ IF n # 0
             THEN Deliver(s, e, row, n, c)
             ELSE /\ slot' = [slot EXCEPT ![e] = row]
                  /\ refs' = RefsOf(s)
                  /\ given' = Forgotten(s)
                  /\ UNCHANGED <<local, sent>>
  /\ Obtain(s)
  /\ heard' = heard \union {s}

-----------------------------------------------------------------------------
TtlOf(e) == IF e = 0 THEN TtlBcast ELSE Ttl

Expired(e, j) == slot[e][j].hash # NoFrame /\ Older(slot[e][j].arrived, TtlOf(e))

Used(e) == station[e] # 0

(* Nothing remembered for the station, and no window ever announced.        *)
Freed(e) ==
  /\ e # 0 /\ Used(e) /\ ~window[e].seen
  /\ \A j \in Slots : slot[e][j].hash = NoFrame \/ Expired(e, j)

Tick ==
  /\ ~(Scan # 0 /\ scanLast # 0 /\ (now - scanLast) % Wrap < Scan)
  /\ scanLast' = IF now % Wrap = 0 THEN 1 ELSE now % Wrap
  /\ LET gone == {p \in Entries \X Slots : Used(p[1]) /\ Expired(p[1], p[2])} IN
       /\ slot' = [e \in Entries |-> [j \in Slots |->
                     IF <<e, j>> \in gone THEN Cleared ELSE slot[e][j]]]
       /\ refs' = Released(gone)
  /\ sent' = [e \in Entries |-> [k \in 1 .. SentDepth |->
                IF Used(e) /\ Older(sent[e][k].at, Repeat)
                  THEN [sent[e][k] EXCEPT !.hash = NoFrame] ELSE sent[e][k]]]
  /\ station' = [e \in Entries |-> IF Freed(e) THEN 0 ELSE station[e]]
  /\ count' = count - Cardinality({e \in Entries : Freed(e)})
  /\ UNCHANGED <<bytes, local, downLast, window, now, heard, given>>

Clear ==
  /\ slot' = [e \in Entries |-> [j \in Slots |-> Cleared]]
  /\ refs' = Released(Entries \X Slots)
  /\ sent' = [e \in Entries |-> [k \in 1 .. SentDepth |->
                [sent[e][k] EXCEPT !.hash = NoFrame]]]
  /\ station' = [e \in Entries |-> IF e = 0 THEN Broadcast ELSE 0]
  /\ count' = 1
  /\ given' = [s \in Stations |-> Never]
  /\ UNCHANGED <<bytes, local, downLast, window, scanLast, now, heard>>

Clock ==
  /\ now < Horizon
  /\ now' = now + 1
  /\ UNCHANGED <<pool, local, table, scanLast, heard, given>>

Next ==
  \/ \E c \in Locals : Unref(c) \/ \E f \in Frames : Receive(c, f)
  \/ \E f \in Frames : Arrive(f)
  \/ \E s \in Stations, rx \in Adverts, c \in Locals : Window(s, rx, c)
  \/ Tick
  \/ Clear
  \/ Clock

Spec == Init /\ [][Next]_vars

-----------------------------------------------------------------------------
FrameOrNone == Frames \union {NoFrame}
WindowState == [seen : BOOLEAN, ms : Nat, at : Nat]

TypeOK ==
  /\ refs \in [Handles -> Nat] /\ bytes \in [Handles -> FrameOrNone]
  /\ local \in [Locals -> Handles \union {BUFFER_NONE}]
  /\ station \in [Entries -> Stations \union {0, Broadcast}]
  /\ downLast \in [Entries -> Moments]
  /\ window \in [Entries -> WindowState]
  /\ slot \in [Entries -> [Slots -> [hash : FrameOrNone, arrived : Moments,
                                    frame : Handles \union {BUFFER_NONE}]]]
  /\ sent \in [Entries -> [1 .. SentDepth -> [hash : FrameOrNone, at : Moments]]]
  /\ count \in 1 .. LastEntry + 1
  /\ scanLast \in 0 .. Wrap - 1 /\ now \in Moments
  /\ heard \in SUBSET Stations
  /\ given \in [Stations -> [Frames -> Moments \union {-1}]]

(* The table as a holder: through arrivals, evictions, deliveries, expiry    *)
(* and clear, a buffer's count is the slots that hold it and the caller's    *)
(* own references, so none is freed under a slot and none is lost to it.     *)
RefsExact ==
  \A h \in Handles :
    refs[h] = Cardinality({c \in Locals : local[c] = h})
            + Cardinality({p \in Entries \X Slots : slot[p[1]][p[2]].frame = h})

(* What a slot remembers is a frame for the station of its entry, and the    *)
(* buffer it holds still has that frame's bytes, however late it is sent.    *)
SlotsCarryTheirFrame ==
  \A e \in Entries, j \in Slots :
    /\ slot[e][j].hash # NoFrame => slot[e][j].hash.to = station[e]
    /\ slot[e][j].frame # BUFFER_NONE => bytes[slot[e][j].frame] = slot[e][j].hash

(* The dup memory is a memory of one: a station has one entry, a frame one   *)
(* slot in it, and count is the entries in use.                              *)
MemoryExact ==
  /\ \A d, e \in Entries : Used(e) /\ station[d] = station[e] => d = e
  /\ \A e \in Entries, i, j \in Slots :
       slot[e][i].hash # NoFrame /\ slot[e][i].hash = slot[e][j].hash => i = j
  /\ count = Cardinality({e \in Entries : Used(e)})

(* "THERE IS NO UNILATERAL RESEND" and nothing goes unsent unnoticed: a      *)
(* frame leaves the buffer it is held in for one of five reasons - handed to *)
(* the caller, truly as old as its time to live, the oldest of a full entry, *)
(* the entry of the station longest without a down when every one of a full  *)
(* table holds something, or the whole table cleared.                        *)
FrameHeldUntil ==
  \A e \in Entries, j \in Slots :
    LET held == slot[e][j].frame IN
    (held # BUFFER_NONE /\ slot'[e][j].frame # held) =>
      \/ \E c \in Locals : local[c] = BUFFER_NONE /\ local'[c] = held
      \/ TtlOf(e) # 0 /\ now - slot[e][j].arrived >= TtlOf(e)
      \/ /\ station'[e] = station[e]
         /\ \A i \in Slots : /\ slot[e][i].hash # NoFrame
                            /\ slot[e][j].arrived <= slot[e][i].arrived
      \/ /\ station'[e] # station[e] /\ Unused = {}
         /\ \A d \in 1 .. LastEntry : ~IdleEntry(d) /\ downLast[e] <= downLast[d]
      \/ count' = 1 /\ \A d \in Entries, i \in Slots : slot'[d][i] = Cleared

HeldUntil == [][FrameHeldUntil]_vars

(* What is on offer to a station that announces rx, by the true moments and  *)
(* the true history: its own frames and the broadcasts it was not given      *)
(* within Repeat, those that fit a window that opens at once.                *)
OnOffer(s, rx) ==
  {p \in Entries \X Slots :
     LET f == slot[p[1]][p[2]].hash IN
     /\ slot[p[1]][p[2]].frame # BUFFER_NONE
     /\ f.to \in {s, Broadcast}
     /\ f.to = Broadcast =>
          given[s][f] = -1 \/ (Repeat # 0 /\ now - given[s][f] >= Repeat)
     /\ rx.accepts /\ rx.delay = 0 /\ f.size <= rx.window}

(* A window is answered with the oldest frame on offer, or with none only    *)
(* when there is none; a unicast handed over is held no longer.              *)
WindowAnswered ==
  \A s \in Stations, rx \in Adverts, c \in Locals :
    Window(s, rx, c) =>
      IF OnOffer(s, rx) = {} THEN local'[c] = BUFFER_NONE
      ELSE \E p \in OnOffer(s, rx) :
             LET sl == slot[p[1]][p[2]] IN
             /\ local'[c] = sl.frame
             /\ \A q \in OnOffer(s, rx) : sl.arrived <= slot[q[1]][q[2]].arrived
             /\ (slot'[p[1]][p[2]].frame = BUFFER_NONE) = (sl.hash.to = s)

WindowServes == [][WindowAnswered]_vars

(* An entry's window is that of its station: "have we ever snooped a RECEIVE *)
(* from it: whether we can deliver at all".                                  *)
WindowIsItsOwn ==
  \A e \in 1 .. LastEntry :
    station[e] \in Stations /\ window[e].seen => station[e] \in heard

=============================================================================
