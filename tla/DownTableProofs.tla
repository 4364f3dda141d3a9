-------------------------- MODULE DownTableProofs --------------------------
(***************************************************************************)
(* What the down table keeps for every pool, table, set of frames and      *)
(* clock: no handle of a slot is lost or freed, a slot has the bytes of the *)
(* frame it remembers, and a frame is remembered once; what it holds leaves *)
(* for one of five reasons; and a window is answered with the oldest frame *)
(* on offer.                                                               *)
(*                                                                         *)
(* The inductive invariant of the first is TableInv, what the run checks   *)
(* of the table with the broadcast's entry in its place.  A step shows of  *)
(* itself what TableNext asks for: that the counts are Exact of the        *)
(* references after it (by LocalMoves and SlotMoves, one reference at a    *)
(* time, or by ReleasedIsExact for many slots at once), that every row is  *)
(* of the station it is under (RowIsOf), and that the entries in use are   *)
(* counted (Memory).  None of that rests on the comparisons of time.       *)
(*                                                                         *)
(* The second needs them: TimesInv, that what is compared are moments      *)
(* since the start, and WithinHalf, that less than half the clock's period *)
(* has gone.  The third adds SentInv, that the records of an entry tell    *)
(* what its station was given, and Roomy, that none of them is lost.       *)
(***************************************************************************)
EXTENDS DownTable, FiniteSetTheorems

-----------------------------------------------------------------------------
(* What the constants are. *)
LEMMA Given ==
  ASSUME DownAssumption
  PROVE  /\ Depth \in Nat /\ Depth >= 1 /\ SentDepth \in Nat /\ SentDepth >= 1
         /\ LastEntry \in Nat /\ LastEntry >= 1 /\ 0 \in Entries
         /\ (\A e \in Entries : e \in Nat /\ (e # 0 => e \in Movable))
         /\ Movable = 1 .. LastEntry /\ Movable \subseteq Entries
         /\ BUFFER_NONE \notin Handles /\ IsFiniteSet(Locals)
         /\ 0 \notin Stations /\ Broadcast \notin Stations /\ Broadcast # 0
         /\ (\A f \in Frames : f # NoFrame /\ f.to \in Stations \union {Broadcast})
         /\ NoFrame \in FrameOrNone /\ NoFrame.to = 0
         /\ (\A rx \in Adverts : rx.window \in Nat /\ rx.delay \in Nat)
         /\ Wrap \in Nat /\ Wrap >= 2
         /\ Horizon \in Nat /\ Start \in Moments /\ 0 \in Moments
<1>1. /\ Depth \in Nat /\ Depth >= 1 /\ SentDepth \in Nat /\ SentDepth >= 1
      /\ LastEntry \in Nat /\ LastEntry >= 1
      /\ BUFFER_NONE \notin Handles /\ IsFiniteSet(Locals)
      /\ 0 \notin Stations /\ Broadcast \notin Stations /\ Broadcast # 0
      /\ Horizon \in Nat /\ Start \in Moments /\ 0 \in Moments
  BY DEF DownAssumption, Moments
<1>2. \A f \in Frames : f.to \in Stations \union {Broadcast}
  BY DEF DownAssumption
<1>3. NoFrame.to = 0 /\ NoFrame \in FrameOrNone
  BY DEF NoFrame, FrameOrNone
<1>4. \A rx \in Adverts : rx.window \in Nat /\ rx.delay \in Nat
  BY DEF DownAssumption
<1>5. PICK k \in 1 .. Wrap : Wrap = 2 * k
  BY DEF DownAssumption
<1>6. Wrap \in Nat /\ Wrap >= 2
  BY <1>5
<1>7. /\ 0 \in Entries /\ Movable = 1 .. LastEntry /\ Movable \subseteq Entries
      /\ \A e \in Entries : e \in Nat /\ (e # 0 => e \in Movable)
  BY <1>1 DEF Entries, Movable
<1>8. QED
  BY <1>1, <1>2, <1>3, <1>4, <1>6, <1>7

(* The least of some numbers is one of them. *)
LEMMA LeastIsOne ==
  ASSUME NEW S, S # {}, S \subseteq Nat
  PROVE  Least(S) \in S
BY LeastNatural DEF Least

(* Two finite sets that differ at most in x. *)
LEMMA OneMoves ==
  ASSUME NEW A, NEW B, NEW x, IsFiniteSet(A), IsFiniteSet(B), A \ {x} = B \ {x}
  PROVE  /\ Cardinality(A) \in Nat /\ Cardinality(B) \in Nat
         /\ Cardinality(B) = Cardinality(A) + (IF x \in B THEN 1 ELSE 0)
                                            - (IF x \in A THEN 1 ELSE 0)
<1>1. Cardinality(A) \in Nat /\ Cardinality(B) \in Nat
  BY FS_CardinalityType
<1> DEFINE n == Cardinality(A \ {x})
<1>2. n = Cardinality(B \ {x})
  OBVIOUS
<1>3. n \in Nat
  BY FS_RemoveElement, FS_CardinalityType
<1>4. x \in A => n = Cardinality(A) - 1
  BY FS_RemoveElement
<1>5. x \in B => n = Cardinality(B) - 1
  BY <1>2, FS_RemoveElement
<1>6. x \notin A => n = Cardinality(A)
  <2>1. x \notin A => A \ {x} = A
    OBVIOUS
  <2>2. QED
    BY <2>1, Zenon
<1>7. x \notin B => n = Cardinality(B)
  <2>1. x \notin B => B \ {x} = B
    OBVIOUS
  <2>2. QED
    BY <1>2, <2>1, Zenon
<1> HIDE DEF n
<1>8. QED
  BY <1>1, <1>3, <1>4, <1>5, <1>6, <1>7

(* What is taken out of a finite set. *)
LEMMA SomeGo ==
  ASSUME NEW A, NEW B, IsFiniteSet(A), B \subseteq A
  PROVE  /\ Cardinality(A) \in Nat /\ Cardinality(B) \in Nat /\ IsFiniteSet(B)
         /\ Cardinality(A \ B) = Cardinality(A) - Cardinality(B)
<1>1. IsFiniteSet(B) /\ A \cap B = B
  BY FS_Subset
<1>2. QED
  BY <1>1, FS_CardinalityType, FS_Difference

-----------------------------------------------------------------------------
(* The references: those the callers keep and those the slots hold. *)
Places == Entries \X Slots

Keepers(l, h) == {c \in Locals : l[c] = h}
Holders(s, h) == {p \in Places : s[p[1]][p[2]].frame = h}

Exact(r, l, s) ==
  \A h \in Handles : r[h] = Cardinality(Keepers(l, h)) + Cardinality(Holders(s, h))

(* Nothing differs but the reference that c keeps, or the slot j of entry e. *)
OnlyKeeper(l, m, c) == \A d \in Locals : d # c => m[d] = l[d]
OnlyHolder(s, t, e, j) ==
  \A d \in Entries, i \in Slots : <<d, i>> # <<e, j>> => t[d][i].frame = s[d][i].frame

(* There are so many places, and their holders are counted.                  *)
LEMMA FinitePlaces ==
  ASSUME DownAssumption
  PROVE  /\ IsFiniteSet(Places)
         /\ \A l, h : IsFiniteSet(Keepers(l, h)) /\ Cardinality(Keepers(l, h)) \in Nat
         /\ \A s, h : IsFiniteSet(Holders(s, h)) /\ Cardinality(Holders(s, h)) \in Nat
<1>1. IsFiniteSet(Entries) /\ IsFiniteSet(Slots)
  BY Given, FS_Interval DEF Entries, Slots
<1>2. IsFiniteSet(Places)
  BY <1>1, FS_Product DEF Places
<1>3. \A l, h : Keepers(l, h) \subseteq Locals
  BY DEF Keepers
<1>4. \A s, h : Holders(s, h) \subseteq Places
  BY DEF Holders
<1>5. QED
  BY <1>2, <1>3, <1>4, Given, FS_Subset, FS_CardinalityType

(* A caller's reference changes, or a slot's. *)
LEMMA KeepersChange ==
  ASSUME DownAssumption, NEW l, NEW m, NEW c \in Locals, NEW h,
         OnlyKeeper(l, m, c)
  PROVE  Cardinality(Keepers(m, h)) = Cardinality(Keepers(l, h))
            + (IF m[c] = h THEN 1 ELSE 0) - (IF l[c] = h THEN 1 ELSE 0)
<1>1. Keepers(l, h) \ {c} = Keepers(m, h) \ {c}
  BY DEF Keepers, OnlyKeeper
<1>2. (c \in Keepers(m, h) <=> m[c] = h) /\ (c \in Keepers(l, h) <=> l[c] = h)
  BY DEF Keepers
<1>3. IsFiniteSet(Keepers(l, h)) /\ IsFiniteSet(Keepers(m, h))
  BY FinitePlaces
<1> DEFINE A == Keepers(l, h)
           B == Keepers(m, h)
<1> HIDE DEF A, B
<1>4. Cardinality(B) = Cardinality(A) + (IF c \in B THEN 1 ELSE 0)
                                      - (IF c \in A THEN 1 ELSE 0)
  BY <1>1, <1>3, OneMoves DEF A, B
<1>5. QED
  BY <1>2, <1>4 DEF A, B

(* The same of the slots.                                                    *)
LEMMA HoldersChange ==
  ASSUME DownAssumption, NEW s, NEW t, NEW e \in Entries, NEW j \in Slots, NEW h,
         OnlyHolder(s, t, e, j)
  PROVE  Cardinality(Holders(t, h)) = Cardinality(Holders(s, h))
            + (IF t[e][j].frame = h THEN 1 ELSE 0) - (IF s[e][j].frame = h THEN 1 ELSE 0)
<1> DEFINE p == <<e, j>>
           A == Holders(s, h)
           B == Holders(t, h)
<1>1. \A q \in Places : q # p => t[q[1]][q[2]].frame = s[q[1]][q[2]].frame
  BY DEF Places, OnlyHolder
<1>2. A \ {p} = B \ {p}
  BY <1>1 DEF Holders
<1>3. (p \in B <=> t[e][j].frame = h) /\ (p \in A <=> s[e][j].frame = h)
  BY DEF Holders, Places
<1>4. IsFiniteSet(A) /\ IsFiniteSet(B)
  BY FinitePlaces
<1> HIDE DEF A, B, p
<1>5. Cardinality(B) = Cardinality(A) + (IF p \in B THEN 1 ELSE 0)
                                      - (IF p \in A THEN 1 ELSE 0)
  BY <1>2, <1>4, OneMoves
<1>6. QED
  BY <1>3, <1>5 DEF A, B

(* The counts follow: a caller's reference that changes, ... *)
LEMMA LocalMoves ==
  ASSUME DownAssumption, NEW r, NEW l, NEW s, Exact(r, l, s), NEW m, NEW c \in Locals, NEW q,
         OnlyKeeper(l, m, c),
         \A h \in Handles : q[h] = r[h] + (IF m[c] = h THEN 1 ELSE 0)
                                       - (IF l[c] = h THEN 1 ELSE 0)
  PROVE  Exact(q, m, s)
<1> SUFFICES ASSUME NEW h \in Handles
             PROVE  q[h] = Cardinality(Keepers(m, h)) + Cardinality(Holders(s, h))
  BY DEF Exact
<1>1. Cardinality(Keepers(m, h)) = Cardinality(Keepers(l, h))
          + (IF m[c] = h THEN 1 ELSE 0) - (IF l[c] = h THEN 1 ELSE 0)
  BY KeepersChange
<1>2. r[h] = Cardinality(Keepers(l, h)) + Cardinality(Holders(s, h))
  BY DEF Exact
<1>3. Cardinality(Keepers(l, h)) \in Nat /\ Cardinality(Holders(s, h)) \in Nat
  BY FinitePlaces
<1>4. QED
  BY <1>1, <1>2, <1>3

(* ... or a slot's. *)
LEMMA SlotMoves ==
  ASSUME DownAssumption, NEW r, NEW l, NEW s, Exact(r, l, s), NEW t,
         NEW e \in Entries, NEW j \in Slots, NEW q,
         OnlyHolder(s, t, e, j),
         \A h \in Handles : q[h] = r[h] + (IF t[e][j].frame = h THEN 1 ELSE 0)
                                       - (IF s[e][j].frame = h THEN 1 ELSE 0)
  PROVE  Exact(q, l, t)
<1> SUFFICES ASSUME NEW h \in Handles
             PROVE  q[h] = Cardinality(Keepers(l, h)) + Cardinality(Holders(t, h))
  BY DEF Exact
<1>1. Cardinality(Holders(t, h)) = Cardinality(Holders(s, h))
          + (IF t[e][j].frame = h THEN 1 ELSE 0) - (IF s[e][j].frame = h THEN 1 ELSE 0)
  BY HoldersChange
<1>2. r[h] = Cardinality(Keepers(l, h)) + Cardinality(Holders(s, h))
  BY DEF Exact
<1>3. Cardinality(Keepers(l, h)) \in Nat /\ Cardinality(Holders(s, h)) \in Nat
  BY FinitePlaces
<1>4. QED
  BY <1>1, <1>2, <1>3

(* Some slots are released. *)
LEMMA ReleasedIsExact ==
  ASSUME DownAssumption, Exact(refs, local, slot), NEW P \in SUBSET Places, NEW t,
         \A p \in Places : t[p[1]][p[2]].frame =
                             IF p \in P THEN BUFFER_NONE ELSE slot[p[1]][p[2]].frame
  PROVE  Exact(Released(P), local, t)
<1> SUFFICES ASSUME NEW h \in Handles
             PROVE  Released(P)[h] = Cardinality(Keepers(local, h)) + Cardinality(Holders(t, h))
  BY DEF Exact
<1> DEFINE gone == {p \in P : slot[p[1]][p[2]].frame = h}
           A == Holders(slot, h)
<1>1. Released(P)[h] = refs[h] - Cardinality(gone)
  BY DEF Released
<1>2. gone \subseteq A /\ Holders(t, h) = A \ gone
  BY Given DEF Holders
<1>3. IsFiniteSet(A)
  BY FinitePlaces
<1> HIDE DEF gone, A
<1>4. /\ Cardinality(A) \in Nat /\ Cardinality(gone) \in Nat
      /\ Cardinality(A \ gone) = Cardinality(A) - Cardinality(gone)
  BY <1>2, <1>3, SomeGo
<1>5. refs[h] = Cardinality(Keepers(local, h)) + Cardinality(A)
  BY DEF Exact, A
<1>6. Cardinality(Keepers(local, h)) \in Nat
  BY FinitePlaces
<1>7. QED
  BY <1>1, <1>2, <1>4, <1>5, <1>6

-----------------------------------------------------------------------------
(* The inductive invariant: what the runs check of the table, and that its   *)
(* first entry is the broadcast's.                                           *)
TableInv ==
  TypeOK /\ RefsExact /\ SlotsCarryTheirFrame /\ MemoryExact /\ station[0] = Broadcast

SlotState == [hash : FrameOrNone, arrived : Moments, frame : Handles \union {BUFFER_NONE}]
Rows == [Slots -> SlotState]

UsedEntries == {e \in Entries : station[e] # 0}

(* A row is of station s: its hashes are of frames for s, none of them twice, *)
(* and what it holds are those frames.                                       *)
RowIsOf(row, s) ==
  /\ row \in Rows
  /\ \A j \in Slots : /\ row[j].hash # NoFrame => row[j].hash.to = s
                      /\ row[j].frame # BUFFER_NONE => bytes[row[j].frame] = row[j].hash
  /\ \A i, j \in Slots : row[i].hash # NoFrame /\ row[i].hash = row[j].hash => i = j

(* The property of the run in these terms.                                   *)
LEMMA RefsAreExact == RefsExact <=> Exact(refs, local, slot)
BY DEF RefsExact, Exact, Keepers, Holders, Places

(* An empty row may be given to any station.                                 *)
LEMMA ClearedRow ==
  ASSUME DownAssumption, NEW s, NEW row, row = [j \in Slots |-> Cleared]
  PROVE  RowIsOf(row, s)
<1>1. Cleared \in SlotState /\ Cleared.hash = NoFrame /\ Cleared.frame = BUFFER_NONE
  BY Given DEF Cleared, SlotState
<1>2. row \in Rows /\ \A j \in Slots : row[j] = Cleared
  BY <1>1 DEF Rows
<1>3. QED
  BY <1>1, <1>2 DEF RowIsOf

(* The rows of the table, each of its station. *)
LEMMA TheRows ==
  ASSUME DownAssumption, TableInv, NEW e \in Entries
  PROVE  RowIsOf(slot[e], station[e])
BY DEF TableInv, TypeOK, SlotsCarryTheirFrame, MemoryExact, RowIsOf, Rows, SlotState

(* An entry that is not in use remembers nothing ...                         *)
LEMMA UnusedForgets ==
  ASSUME DownAssumption, TableInv, NEW e \in Entries, station[e] = 0, NEW j \in Slots
  PROVE  slot[e][j].hash = NoFrame
<1>1. RowIsOf(slot[e], 0)
  BY TheRows
<1>2. slot[e][j].hash # NoFrame => slot[e][j].hash \in Frames /\ slot[e][j].hash.to = 0
  BY <1>1 DEF RowIsOf, Rows, SlotState, FrameOrNone
<1>3. QED
  BY <1>2, Given

(* ... so its row may be given to any station.                                   *)
LEMMA UnusedRow ==
  ASSUME DownAssumption, TableInv, NEW e \in Entries, station[e] = 0, NEW s
  PROVE  RowIsOf(slot[e], s)
<1>1. RowIsOf(slot[e], 0)
  BY TheRows
<1>2. \A j \in Slots : slot[e][j].hash = NoFrame
  BY UnusedForgets
<1>3. QED
  BY <1>1, <1>2 DEF RowIsOf

(* The entry a call works on: the station's own, or an unused one, or one    *)
(* whose frames are released.                                                *)
LEMMA EntryIs ==
  ASSUME DownAssumption, TableInv, NEW s \in Stations \union {Broadcast}
  PROVE  /\ EntryOf(s) \in Entries /\ (EntryOf(s) = 0 <=> s = Broadcast)
         /\ RowIsOf(RowOf(s), s)
         /\ \A d \in Entries : d # EntryOf(s) => station[d] # s
         /\ Found(s) # {} => station[EntryOf(s)] = s
         /\ Found(s) = {} => station[EntryOf(s)] # s
         /\ Found(s) = {} /\ ~Evicts(s) => station[EntryOf(s)] = 0
         /\ Evicts(s) => station[EntryOf(s)] # 0 /\ s # Broadcast
         /\ ~Evicts(s) => RowOf(s) = slot[EntryOf(s)]
<1> DEFINE e == EntryOf(s)
<1>0. /\ station \in [Entries -> Stations \union {0, Broadcast}] /\ station[0] = Broadcast
      /\ \A d, c \in Entries : station[d] # 0 /\ station[d] = station[c] => d = c
  BY DEF TableInv, TypeOK, MemoryExact, Used
<1>1. CASE Found(s) # {}
  <2>1. Found(s) \subseteq Nat /\ Found(s) \subseteq Entries
        /\ \A d \in Found(s) : station[d] = s /\ (d = 0 <=> s = Broadcast)
    BY <1>0, Given DEF Found, Movable
  <2>2. e \in Found(s)
    BY <1>1, <2>1, LeastIsOne DEF EntryOf
  <2>3. e \in Entries /\ station[e] = s /\ (e = 0 <=> s = Broadcast)
    BY <2>1, <2>2
  <2>4. ~Evicts(s) /\ RowOf(s) = slot[e]
    BY <1>1 DEF Evicts, RowOf
  <2>5. RowIsOf(slot[e], s)
    BY <2>3, TheRows
  <2>6. \A d \in Entries : d # e => station[d] # s
    BY <1>0, <2>3, Given
  <2>7. QED
    BY <1>1, <2>3, <2>4, <2>5, <2>6
<1>2. CASE Found(s) = {}
  <2>1. s # Broadcast /\ \A d \in Movable : station[d] # s
    BY <1>2 DEF Found, Movable
  <2>2. \A d \in Entries : station[d] # s
    BY <1>0, <2>1, Given
  <2>3. CASE Unused # {}
    <3>1. Unused \subseteq Nat /\ Unused \subseteq Movable
          /\ \A d \in Unused : station[d] = 0 /\ d # 0
      BY Given DEF Unused, Movable
    <3>2. e \in Unused
      BY <1>2, <2>3, <3>1, LeastIsOne DEF EntryOf
    <3>3. e \in Entries /\ e # 0 /\ station[e] = 0
      BY <3>1, <3>2, Given
    <3>4. ~Evicts(s) /\ RowOf(s) = slot[e]
      BY <2>3 DEF Evicts, RowOf
    <3>5. RowIsOf(slot[e], s)
      BY <3>3, UnusedRow
    <3>6. QED
      BY <1>2, <2>1, <2>2, <3>3, <3>4, <3>5
  <2>4. CASE Unused = {}
    <3> DEFINE B == {p \in Movable \X Movable : LosesLess(p[1], p[2])}
    <3>1. e = FirstBest(LastEntry, Movable, B)
      BY <1>2, <2>4 DEF EntryOf, Victim
    <3>2. Movable \in SUBSET (1 .. LastEntry) /\ Movable # {} /\ LastEntry \in Nat
      BY Given
    <3> HIDE DEF B, e
    <3>3. /\ e \in Movable \union {0}
          /\ e = 0 <=> Movable = {}
      BY <3>1, <3>2, FirstBestPicks
    <3>4. e \in Movable /\ e # 0
      BY <3>2, <3>3
    <3>5. e \in Entries /\ station[e] # 0
      BY <2>4, <3>4, Given DEF Unused
    <3>6. Evicts(s) /\ RowOf(s) = [j \in Slots |-> Cleared]
      BY <1>2, <2>4 DEF Evicts, RowOf
    <3>7. RowIsOf(RowOf(s), s)
      BY <3>6, ClearedRow
    <3>8. QED
      BY <1>2, <2>1, <2>2, <3>4, <3>5, <3>6, <3>7 DEF e
  <2>5. QED
    BY <2>3, <2>4
<1>3. QED
  BY <1>1, <1>2

(* Obtaining a station's entry leaves the counts exact of the slots then. *)
LEMMA EvictedIsExact ==
  ASSUME DownAssumption, TableInv, NEW s \in Stations \union {Broadcast},
         NEW t, t = [slot EXCEPT ![EntryOf(s)] = RowOf(s)]
  PROVE  Exact(RefsOf(s), local, t) /\ t \in [Entries -> Rows]
<1> DEFINE e == EntryOf(s)
<1>1. /\ e \in Entries /\ RowIsOf(RowOf(s), s)
      /\ ~Evicts(s) => RowOf(s) = slot[e]
  BY EntryIs
<1>2. slot \in [Entries -> Rows] /\ Exact(refs, local, slot)
  BY RefsAreExact DEF TableInv, TypeOK, Rows, SlotState
<1>3. t \in [Entries -> Rows] /\ \A d \in Entries : t[d] = IF d = e THEN RowOf(s) ELSE slot[d]
  BY <1>1, <1>2 DEF RowIsOf
<1>4. CASE ~Evicts(s)
  <2>1. t = slot /\ RefsOf(s) = refs
    BY <1>1, <1>2, <1>4 DEF RefsOf
  <2>2. QED
    BY <1>2, <2>1
<1>5. CASE Evicts(s)
  <2> DEFINE P == {e} \X Slots
  <2>1. RefsOf(s) = Released(P)
    BY <1>5 DEF RefsOf
  <2>2. \A j \in Slots : RowOf(s)[j].frame = BUFFER_NONE
    BY <1>5 DEF RowOf, Cleared
  <2> HIDE DEF e
  <2>3. \A p \in Places : t[p[1]][p[2]].frame =
          IF p \in P THEN BUFFER_NONE ELSE slot[p[1]][p[2]].frame
    BY <1>1, <1>3, <2>2 DEF Places
  <2>4. P \in SUBSET Places
    BY <1>1 DEF Places
  <2> HIDE DEF P
  <2>5. Exact(Released(P), local, t)
    BY <1>2, <2>3, <2>4, ReleasedIsExact
  <2>6. QED
    BY <1>3, <2>1, <2>5
<1>6. QED
  BY <1>4, <1>5

(* The entries in use: the stations in them, and how many they are. *)
Memory ==
  /\ station \in [Entries -> Stations \union {0, Broadcast}] /\ station[0] = Broadcast
  /\ \A d, e \in Entries : station[d] # 0 /\ station[d] = station[e] => d = e
  /\ count = Cardinality(UsedEntries)

(* The invariant says so of the table.                                       *)
LEMMA MemoryIs == TableInv => Memory
BY DEF TableInv, TypeOK, MemoryExact, Memory, UsedEntries, Used

(* How many entries there are.                                               *)
LEMMA EntriesAre ==
  ASSUME DownAssumption
  PROVE  IsFiniteSet(Entries) /\ Cardinality(Entries) = LastEntry + 1
<1>1. LastEntry \in Nat /\ Entries = 0 .. LastEntry
  BY Given DEF Entries
<1>2. IsFiniteSet(0 .. LastEntry) /\ Cardinality(0 .. LastEntry) = LastEntry - 0 + 1
  BY <1>1, FS_Interval
<1>3. QED
  BY <1>1, <1>2

(* Some entries, the broadcast's with them, are as many as there may be. *)
LEMMA SomeEntries ==
  ASSUME DownAssumption, NEW U, U \subseteq Entries, 0 \in U
  PROVE  IsFiniteSet(U) /\ Cardinality(U) \in 1 .. LastEntry + 1
<1>1. IsFiniteSet(U) /\ Cardinality(U) <= LastEntry + 1
  BY EntriesAre, FS_Subset
<1>2. {0} \subseteq U
  OBVIOUS
<1>3. Cardinality({0}) <= Cardinality(U) /\ Cardinality({0}) = 1
  BY <1>1, <1>2, FS_Subset, FS_Singleton
<1>4. Cardinality(U) \in Nat
  BY <1>1, FS_CardinalityType
<1>5. QED
  BY <1>1, <1>3, <1>4, Given

(* What a step has to show of the table to keep the invariant. *)
LEMMA TableNext ==
  ASSUME DownAssumption, Memory', Exact(refs', local', slot'), slot' \in [Entries -> Rows],
         \A e \in Entries : RowIsOf(slot[e], station[e])',
         refs' = [h \in Handles |-> refs'[h]],
         bytes' \in [Handles -> FrameOrNone],
         local' \in [Locals -> Handles \union {BUFFER_NONE}],
         downLast' \in [Entries -> Moments],
         window' \in [Entries -> WindowState],
         sent' \in [Entries -> [1 .. SentDepth -> [hash : FrameOrNone, at : Moments]]],
         scanLast' \in 0 .. Wrap - 1, now' \in Moments, heard' \in SUBSET Stations,
         given' \in [Stations -> [Frames -> Moments \union {-1}]]
  PROVE  TableInv'
<1>1. RefsExact'
  BY DEF RefsExact, Exact, Keepers, Holders, Places
<1>2. refs' \in [Handles -> Nat]
  <2>1. \A h \in Handles : refs'[h] \in Nat
    BY FinitePlaces DEF Exact
  <2>2. QED
    BY <2>1
<1>3. count' \in 1 .. LastEntry + 1
  <2> DEFINE U == UsedEntries'
  <2>1. U \subseteq Entries /\ 0 \in U /\ count' = Cardinality(U)
    BY Given DEF UsedEntries, Memory
  <2> HIDE DEF U
  <2>2. Cardinality(U) \in 1 .. LastEntry + 1
    BY <2>1, SomeEntries
  <2>3. QED
    BY <2>1, <2>2
<1>4. SlotsCarryTheirFrame' /\ MemoryExact'
  BY DEF SlotsCarryTheirFrame, MemoryExact, RowIsOf, Memory, UsedEntries, Used
<1>5. TypeOK'
  BY <1>2, <1>3 DEF TypeOK, Memory, Rows, SlotState
<1>6. QED
  BY <1>1, <1>4, <1>5 DEF TableInv, Memory

(* A station obtains its entry. *)
LEMMA ObtainKeeps ==
  ASSUME DownAssumption, TableInv, NEW s \in Stations \union {Broadcast}, Obtain(s)
  PROVE  Memory' /\ station' = [station EXCEPT ![EntryOf(s)] = s]
<1> DEFINE e == EntryOf(s)
<1>1. /\ e \in Entries /\ (e = 0 <=> s = Broadcast)
      /\ \A d \in Entries : d # e => station[d] # s
      /\ Found(s) # {} => station[e] = s
      /\ Found(s) = {} /\ ~Evicts(s) => station[e] = 0
      /\ Evicts(s) => station[e] # 0
  BY EntryIs
<1>2. Memory
  BY MemoryIs
<1>3. /\ station' = [station EXCEPT ![e] = s]
      /\ count' = IF Found(s) = {} /\ ~Evicts(s) THEN count + 1 ELSE count
  BY DEF Obtain
<1> HIDE DEF e
<1>4. \A d \in Entries : station'[d] = IF d = e THEN s ELSE station[d]
  BY <1>1, <1>2, <1>3 DEF Memory
<1>5. s # 0
  BY Given
<1>6. UsedEntries' = UsedEntries \union {e}
  BY <1>1, <1>4, <1>5 DEF UsedEntries
<1>7. count' = Cardinality(UsedEntries')
  <2> DEFINE U == UsedEntries
  <2>1. IsFiniteSet(U) /\ count = Cardinality(U)
    <3>1. U \subseteq Entries /\ 0 \in U
      BY <1>2, Given DEF UsedEntries, Memory
    <3>2. IsFiniteSet(U)
      BY <3>1, SomeEntries
    <3>3. QED
      BY <1>2, <3>2 DEF Memory
  <2>2. CASE Found(s) = {} /\ ~Evicts(s)
    <3>1. e \notin U
      BY <1>1, <2>2 DEF UsedEntries
    <3>2. count' = count + 1
      BY <1>3, <2>2
    <3> HIDE DEF U
    <3>3. Cardinality(U \union {e}) = Cardinality(U) + 1
      BY <2>1, <3>1, FS_AddElement
    <3>4. QED
      BY <1>6, <2>1, <3>2, <3>3 DEF U
  <2>3. CASE ~(Found(s) = {} /\ ~Evicts(s))
    <3>1. station[e] # 0
      BY <1>1, <1>5, <2>3
    <3>2. U \union {e} = U
      BY <1>1, <3>1 DEF UsedEntries
    <3>3. count' = count
      BY <1>3, <2>3
    <3>4. QED
      BY <1>6, <2>1, <3>2, <3>3, Zenon
  <2>4. QED
    BY <2>2, <2>3
<1>8. station' \in [Entries -> Stations \union {0, Broadcast}] /\ station'[0] = Broadcast
  BY <1>1, <1>2, <1>3, <1>4, Given DEF Memory
<1>9. \A d, c \in Entries : station'[d] # 0 /\ station'[d] = station'[c] => d = c
  BY <1>1, <1>2, <1>4 DEF Memory
<1>10. QED
  BY <1>3, <1>7, <1>8, <1>9 DEF Memory, e

-----------------------------------------------------------------------------
(* The start: an empty table over a pool of free buffers. *)
LEMMA TableInit ==
  ASSUME DownAssumption, Init
  PROVE  TableInv
<1>1. \A e \in Entries : RowIsOf(slot[e], station[e]) /\ slot[e] = [j \in Slots |-> Cleared]
  BY ClearedRow DEF Init
<1>2. slot \in [Entries -> Rows]
  <2>1. \A e \in Entries : slot[e] \in Rows
    BY <1>1 DEF RowIsOf
  <2>2. QED
    BY <2>1 DEF Init
<1>3. Memory
  <2>1. \A e \in Entries : station[e] = IF e = 0 THEN Broadcast ELSE 0
    BY DEF Init
  <2>2. UsedEntries = {0}
    BY <2>1, Given DEF UsedEntries
  <2>3. count = Cardinality(UsedEntries)
    BY <2>2, FS_Singleton DEF Init
  <2>4. QED
    BY <2>1, <2>3, Given DEF Init, Memory
<1>4. RefsExact
  <2> SUFFICES ASSUME NEW h \in Handles
               PROVE  refs[h] = Cardinality(Keepers(local, h)) + Cardinality(Holders(slot, h))
    BY DEF RefsExact, Keepers, Holders, Places
  <2>1. Keepers(local, h) = {}
    BY Given DEF Init, Keepers
  <2>2. Holders(slot, h) = {}
    BY <1>1, Given DEF Holders, Places, Cleared
  <2>3. Cardinality({}) = 0
    BY FS_EmptySet
  <2>4. Cardinality(Keepers(local, h)) = 0 /\ Cardinality(Holders(slot, h)) = 0
    BY <2>1, <2>2, <2>3, Zenon
  <2>5. refs[h] = 0
    BY DEF Init
  <2>6. QED
    BY <2>4, <2>5
<1>5. TypeOK
  <2>1. 0 \in 0 .. Wrap - 1 /\ Start \in Moments /\ 0 \in Moments /\ NoFrame \in FrameOrNone
    BY Given
  <2>2. count \in 1 .. LastEntry + 1
    BY Given DEF Init
  <2>3. Unheard \in WindowState /\ NoRecord \in [hash : FrameOrNone, at : Moments]
    BY <2>1 DEF Unheard, WindowState, NoRecord
  <2>4. refs \in [Handles -> Nat] /\ bytes \in [Handles -> FrameOrNone]
        /\ local \in [Locals -> Handles \union {BUFFER_NONE}]
    BY <2>1 DEF Init
  <2>5. /\ downLast \in [Entries -> Moments] /\ window \in [Entries -> WindowState]
        /\ sent \in [Entries -> [1 .. SentDepth -> [hash : FrameOrNone, at : Moments]]]
    BY <2>1, <2>3 DEF Init
  <2>6. /\ scanLast \in 0 .. Wrap - 1 /\ now \in Moments /\ heard \in SUBSET Stations
        /\ given \in [Stations -> [Frames -> Moments \union {-1}]]
    BY <2>1 DEF Init, Never
  <2>7. QED
    BY <1>2, <1>3, <2>2, <2>4, <2>5, <2>6 DEF TypeOK, Memory, Rows, SlotState
<1>6. QED
  BY <1>1, <1>3, <1>4, <1>5
     DEF TableInv, Memory, SlotsCarryTheirFrame, MemoryExact, RowIsOf, UsedEntries, Used

(* What every step starts from. *)
LEMMA FromInv ==
  ASSUME DownAssumption, TableInv
  PROVE  /\ Memory /\ Exact(refs, local, slot) /\ slot \in [Entries -> Rows]
         /\ \A e \in Entries : RowIsOf(slot[e], station[e])
         /\ refs \in [Handles -> Nat] /\ bytes \in [Handles -> FrameOrNone]
         /\ local \in [Locals -> Handles \union {BUFFER_NONE}]
         /\ downLast \in [Entries -> Moments] /\ window \in [Entries -> WindowState]
         /\ sent \in [Entries -> [1 .. SentDepth -> [hash : FrameOrNone, at : Moments]]]
         /\ scanLast \in 0 .. Wrap - 1 /\ now \in Moments /\ heard \in SUBSET Stations
         /\ given \in [Stations -> [Frames -> Moments \union {-1}]]
         /\ refs = [h \in Handles |-> refs[h]]
BY MemoryIs, RefsAreExact, TheRows DEF TableInv, TypeOK, Rows, SlotState

(* Nothing of the table changes: what is left to show of the pool. *)
LEMMA PoolSteps ==
  ASSUME DownAssumption, TableInv, UNCHANGED table, UNCHANGED <<scanLast, heard, given>>,
         now' \in Moments, Exact(refs', local', slot), refs' = [h \in Handles |-> refs'[h]],
         bytes' \in [Handles -> FrameOrNone],
         local' \in [Locals -> Handles \union {BUFFER_NONE}],
         \A p \in Places : slot[p[1]][p[2]].frame # BUFFER_NONE =>
                             bytes'[slot[p[1]][p[2]].frame] = bytes[slot[p[1]][p[2]].frame]
  PROVE  TableInv'
<1>1. /\ station' = station /\ downLast' = downLast /\ window' = window /\ slot' = slot
      /\ sent' = sent /\ count' = count /\ scanLast' = scanLast /\ heard' = heard
      /\ given' = given
  BY DEF table
<1>2. Memory'
  BY <1>1, FromInv DEF Memory, UsedEntries
<1>3. \A e \in Entries : RowIsOf(slot[e], station[e])'
  <2> SUFFICES ASSUME NEW e \in Entries PROVE RowIsOf(slot[e], station[e])'
    OBVIOUS
  <2>1. RowIsOf(slot[e], station[e])
    BY FromInv
  <2>2. \A j \in Slots : slot[e][j].frame # BUFFER_NONE =>
                           bytes'[slot[e][j].frame] = bytes[slot[e][j].frame]
    <3> SUFFICES ASSUME NEW j \in Slots, slot[e][j].frame # BUFFER_NONE
                 PROVE  bytes'[slot[e][j].frame] = bytes[slot[e][j].frame]
      OBVIOUS
    <3>1. <<e, j>> \in Places
      BY DEF Places
    <3>2. QED
      BY <3>1
  <2>3. QED
    BY <1>1, <2>1, <2>2 DEF RowIsOf
<1>4. Exact(refs', local', slot') /\ slot' \in [Entries -> Rows]
  BY <1>1, FromInv
<1>5. /\ downLast' \in [Entries -> Moments] /\ window' \in [Entries -> WindowState]
      /\ sent' \in [Entries -> [1 .. SentDepth -> [hash : FrameOrNone, at : Moments]]]
      /\ scanLast' \in 0 .. Wrap - 1 /\ heard' \in SUBSET Stations
      /\ given' \in [Stations -> [Frames -> Moments \union {-1}]]
  BY <1>1, FromInv
<1>6. QED
  BY <1>2, <1>3, <1>4, <1>5, TableNext

(* A buffer nobody refers to is in no slot. *)
LEMMA FreeIsNowhere ==
  ASSUME DownAssumption, TableInv, NEW h \in Handles, refs[h] = 0
  PROVE  \A p \in Places : slot[p[1]][p[2]].frame # h
<1>1. refs[h] = Cardinality(Keepers(local, h)) + Cardinality(Holders(slot, h))
  BY FromInv DEF Exact
<1>2. Cardinality(Keepers(local, h)) \in Nat /\ Cardinality(Holders(slot, h)) \in Nat
      /\ IsFiniteSet(Holders(slot, h))
  BY FinitePlaces
<1>3. Cardinality(Holders(slot, h)) = 0
  BY <1>1, <1>2
<1>4. Holders(slot, h) = {}
  BY <1>2, <1>3, FS_EmptySet
<1>5. QED
  BY <1>4 DEF Holders

(* A frame comes in: its buffer was in no slot.                              *)
LEMMA ReceiveKeeps ==
  ASSUME DownAssumption, TableInv, NEW c \in Locals, NEW f \in Frames, Receive(c, f)
  PROVE  TableInv'
<1>1. PICK h \in Handles : /\ refs[h] = 0 /\ refs' = [refs EXCEPT ![h] = 1]
                           /\ bytes' = [bytes EXCEPT ![h] = f]
                           /\ local' = [local EXCEPT ![c] = h]
  BY DEF Receive
<1>2. local[c] = BUFFER_NONE /\ UNCHANGED table /\ UNCHANGED <<scanLast, now, heard, given>>
  BY DEF Receive
<1>3. /\ bytes' \in [Handles -> FrameOrNone]
      /\ local' \in [Locals -> Handles \union {BUFFER_NONE}]
      /\ refs' \in [Handles -> Nat] /\ now' \in Moments
      /\ \A g \in Handles : /\ refs'[g] = IF g = h THEN 1 ELSE refs[g]
                            /\ g # h => bytes'[g] = bytes[g]
      /\ \A d \in Locals : local'[d] = IF d = c THEN h ELSE local[d]
  BY <1>1, <1>2, FromInv DEF FrameOrNone
<1>4. Exact(refs', local', slot)
  <2> DEFINE m == local'
             q == refs'
  <2>1. /\ OnlyKeeper(local, m, c)
        /\ \A g \in Handles : q[g] = refs[g] + (IF m[c] = g THEN 1 ELSE 0)
                                            - (IF local[c] = g THEN 1 ELSE 0)
    BY <1>1, <1>2, <1>3, FromInv, Given DEF OnlyKeeper
  <2>2. Exact(refs, local, slot)
    BY FromInv
  <2> HIDE DEF m, q
  <2>3. Exact(q, m, slot)
    BY <2>1, <2>2, LocalMoves
  <2>4. QED
    BY <2>3 DEF m, q
<1>5. \A p \in Places : slot[p[1]][p[2]].frame # BUFFER_NONE =>
                          bytes'[slot[p[1]][p[2]].frame] = bytes[slot[p[1]][p[2]].frame]
  <2>1. \A p \in Places : slot[p[1]][p[2]].frame # h
    BY <1>1, FreeIsNowhere
  <2>2. \A p \in Places : slot[p[1]][p[2]].frame \in Handles \union {BUFFER_NONE}
    BY FromInv DEF Places, Rows, SlotState
  <2>3. QED
    BY <1>3, <2>1, <2>2
<1>6. refs' = [g \in Handles |-> refs'[g]] /\ UNCHANGED <<scanLast, heard, given>>
  BY <1>2, <1>3
<1>7. QED
  BY <1>2, <1>3, <1>4, <1>5, <1>6, PoolSteps

(* The caller gives a reference back.                                        *)
LEMMA UnrefKeeps ==
  ASSUME DownAssumption, TableInv, NEW c \in Locals, Unref(c)
  PROVE  TableInv'
<1> DEFINE h == local[c]
<1>1. /\ h # BUFFER_NONE /\ refs' = [refs EXCEPT ![h] = @ - 1]
      /\ local' = [local EXCEPT ![c] = BUFFER_NONE] /\ bytes' = bytes
      /\ UNCHANGED table /\ UNCHANGED <<scanLast, now, heard, given>>
  BY DEF Unref
<1>2. h \in Handles
  BY <1>1, FromInv
<1> HIDE DEF h
<1>3. /\ local' \in [Locals -> Handles \union {BUFFER_NONE}] /\ now' \in Moments
      /\ refs' = [g \in Handles |-> refs'[g]]
      /\ \A g \in Handles : refs'[g] = IF g = h THEN refs[g] - 1 ELSE refs[g]
      /\ \A d \in Locals : local'[d] = IF d = c THEN BUFFER_NONE ELSE local[d]
  BY <1>1, <1>2, FromInv
<1>4. Exact(refs', local', slot)
  <2> DEFINE m == local'
             q == refs'
  <2>1. /\ OnlyKeeper(local, m, c)
        /\ \A g \in Handles : q[g] = refs[g] + (IF m[c] = g THEN 1 ELSE 0)
                                            - (IF local[c] = g THEN 1 ELSE 0)
    BY <1>3, FromInv, Given DEF h, OnlyKeeper
  <2>2. Exact(refs, local, slot)
    BY FromInv
  <2> HIDE DEF m, q
  <2>3. Exact(q, m, slot)
    BY <2>1, <2>2, LocalMoves
  <2>4. QED
    BY <2>3 DEF m, q
<1>5. UNCHANGED <<scanLast, heard, given>> /\ bytes' \in [Handles -> FrameOrNone]
  BY <1>1, FromInv
<1>6. QED
  BY <1>1, <1>3, <1>4, <1>5, PoolSteps

(* The slot for a new frame is one of the row's, and the row has no other of *)
(* that frame.                                                               *)
LEMMA SlotInIs ==
  ASSUME DownAssumption, NEW row
  PROVE  SlotIn(row) \in Slots
<1> DEFINE empty == {j \in Slots : row[j].hash = NoFrame}
           older == {p \in Slots \X Slots : Before(row[p[1]].arrived, row[p[2]].arrived)}
<1>1. SlotIn(row) = IF empty # {} THEN Least(empty) ELSE FirstBest(Depth, Slots, older)
  BY DEF SlotIn
<1>2. empty \subseteq Nat /\ empty \subseteq Slots
  BY DEF Slots
<1>3. Slots \in SUBSET (1 .. Depth) /\ Slots # {} /\ Depth \in Nat
  BY Given DEF Slots
<1> HIDE DEF empty, older
<1>4. empty # {} => Least(empty) \in empty
  BY <1>2, LeastIsOne
<1>5. FirstBest(Depth, Slots, older) \in Slots
  BY <1>3, FirstBestPicks
<1>6. QED
  BY <1>1, <1>2, <1>4, <1>5

(* A frame that is not known is in no slot of the entry it will get.         *)
LEMMA NewToItsRow ==
  ASSUME DownAssumption, TableInv, NEW f \in Frames, ~Known(f), NEW i \in Slots
  PROVE  RowOf(f.to)[i].hash # f
<1> DEFINE s == f.to
           e == EntryOf(s)
<1>0. s \in Stations \union {Broadcast} /\ f # NoFrame
  BY Given
<1>1. /\ e \in Entries
      /\ Found(s) # {} => station[e] = s
      /\ Found(s) = {} /\ ~Evicts(s) => station[e] = 0
      /\ ~Evicts(s) => RowOf(s) = slot[e]
      /\ e = 0 <=> s = Broadcast
  BY <1>0, EntryIs
<1>2. CASE Evicts(s)
  BY <1>0, <1>2 DEF RowOf, Cleared
<1>3. CASE ~Evicts(s) /\ Found(s) = {}
  BY <1>0, <1>1, <1>3, UnusedForgets
<1>4. CASE Found(s) # {}
  <2>1. e \in Found(s)
    BY <1>1, <1>4, Given DEF Found, Movable
  <2>2. RowOf(s) = slot[e]
    BY <1>1, <1>4 DEF Evicts
  <2>3. QED
    BY <2>1, <2>2 DEF Known
<1>5. QED
  BY <1>2, <1>3, <1>4

(* The history after an eviction is one.                                     *)
LEMMA ForgottenType ==
  ASSUME DownAssumption, TableInv, NEW s
  PROVE  Forgotten(s) \in [Stations -> [Frames -> Moments \union {-1}]]
<1>1. given \in [Stations -> [Frames -> Moments \union {-1}]]
  BY FromInv
<1>2. Never \in [Frames -> Moments \union {-1}]
  BY DEF Never
<1>3. QED
  BY <1>1, <1>2 DEF Forgotten

(* The counts are numbers. *)
LEMMA CountsAreNat ==
  ASSUME DownAssumption, NEW r, NEW l, NEW s, Exact(r, l, s), NEW h \in Handles
  PROVE  r[h] \in Nat
BY FinitePlaces DEF Exact

(* A station obtains its entry, and the entry's row becomes one of its own.  *)
LEMMA RowReplaced ==
  ASSUME DownAssumption, TableInv, NEW s \in Stations \union {Broadcast}, Obtain(s),
         NEW row, RowIsOf(row, s), bytes' = bytes,
         slot' = [slot EXCEPT ![EntryOf(s)] = row]
  PROVE  /\ Memory' /\ slot' \in [Entries -> Rows]
         /\ \A e \in Entries : RowIsOf(slot[e], station[e])'
<1> DEFINE e == EntryOf(s)
<1>1. e \in Entries
  BY EntryIs
<1>2. Memory' /\ station' = [station EXCEPT ![e] = s]
  BY ObtainKeeps
<1>3. slot \in [Entries -> Rows] /\ station \in [Entries -> Stations \union {0, Broadcast}]
      /\ \A d \in Entries : RowIsOf(slot[d], station[d])
  BY FromInv DEF Memory
<1> HIDE DEF e
<1>4. \A d \in Entries : /\ slot'[d] = IF d = e THEN row ELSE slot[d]
                         /\ station'[d] = IF d = e THEN s ELSE station[d]
  BY <1>1, <1>2, <1>3 DEF e
<1>5. \A d \in Entries : RowIsOf(slot'[d], station'[d])
  BY <1>3, <1>4
<1>6. \A d \in Entries : RowIsOf(slot[d], station[d])'
  BY <1>5 DEF RowIsOf
<1>7. slot' \in [Entries -> Rows]
  BY <1>1, <1>3 DEF RowIsOf, e
<1>8. QED
  BY <1>2, <1>6, <1>7

(* A frame is offered: its slot loses what it held and keeps the new one.    *)
LEMMA OfferKeeps ==
  ASSUME DownAssumption, TableInv, NEW f \in Frames, NEW h \in Handles \union {BUFFER_NONE},
         h # BUFFER_NONE => bytes[h] = f, Offer(f, h)
  PROVE  TableInv'
<1> DEFINE s    == f.to
           e    == EntryOf(s)
           row  == RowOf(s)
           j    == SlotIn(row)
           kept == IF h # BUFFER_NONE /\ Worth(f, window[e]) THEN h ELSE BUFFER_NONE
           new  == [hash |-> f, arrived |-> now, frame |-> kept]
           row1 == [row EXCEPT ![j] = new]
           r    == RefsOf(s)
           t    == [slot EXCEPT ![e] = row]
           u    == [slot EXCEPT ![e] = row1]
           q    == Plus(Minus(r, row[j].frame), kept)
<1>1. /\ ~Known(f) /\ Obtain(s) /\ slot' = u /\ refs' = q
      /\ downLast' = [downLast EXCEPT ![e] = now] /\ given' = Forgotten(s)
      /\ UNCHANGED <<bytes, local, window, sent, scanLast, now, heard>>
  BY DEF Offer
<1>2. s \in Stations \union {Broadcast} /\ f # NoFrame
  BY Given
<1>3. e \in Entries /\ RowIsOf(row, s)
  BY <1>2, EntryIs
<1>4. j \in Slots
  BY SlotInIs
<1>5. \A i \in Slots : row[i].hash # f
  BY <1>1, NewToItsRow
<1>6. /\ kept \in Handles \union {BUFFER_NONE}
      /\ kept # BUFFER_NONE => bytes[kept] = f
  OBVIOUS
<1>7. now \in Moments /\ slot \in [Entries -> Rows]
  BY FromInv
<1>8. new \in SlotState /\ new.hash = f /\ new.frame = kept
  BY <1>6, <1>7 DEF SlotState, FrameOrNone
<1>9. Exact(r, local, t)
  BY <1>2, EvictedIsExact
<1> HIDE DEF e, row, j, kept, r, new
<1>10. row \in Rows /\ row1 \in Rows /\ \A i \in Slots : row1[i] = IF i = j THEN new ELSE row[i]
  BY <1>3, <1>4, <1>8 DEF RowIsOf, Rows
<1>11. RowIsOf(row1, s)
  <2> HIDE DEF row1, s
  <2>1. \A i \in Slots : /\ row[i].hash # NoFrame => row[i].hash.to = s
                         /\ row[i].frame # BUFFER_NONE => bytes[row[i].frame] = row[i].hash
    BY <1>3 DEF RowIsOf
  <2>2. \A i \in Slots : /\ row1[i].hash # NoFrame => row1[i].hash.to = s
                         /\ row1[i].frame # BUFFER_NONE => bytes[row1[i].frame] = row1[i].hash
    BY <2>1, <1>6, <1>8, <1>10 DEF s
  <2>3. \A i, k \in Slots : row1[i].hash # NoFrame /\ row1[i].hash = row1[k].hash => i = k
    BY <1>3, <1>5, <1>8, <1>10 DEF RowIsOf
  <2>4. QED
    BY <1>10, <2>2, <2>3 DEF RowIsOf
<1>12. Exact(q, local, u)
  <2>1. \A d \in Entries : t[d] = (IF d = e THEN row ELSE slot[d])
                            /\ u[d] = (IF d = e THEN row1 ELSE slot[d])
    BY <1>3, <1>7
  <2>2. \A g \in Handles : r[g] \in Nat
    <3> HIDE DEF t
    <3>1. QED
      BY <1>9, CountsAreNat
  <2>3. OnlyHolder(t, u, e, j)
    BY <1>10, <2>1 DEF OnlyHolder
  <2>4. u[e][j].frame = kept /\ t[e][j].frame = row[j].frame
    BY <1>3, <1>4, <1>8, <1>10, <2>1
  <2>5. \A g \in Handles : q[g] = r[g] + (IF u[e][j].frame = g THEN 1 ELSE 0)
                                      - (IF t[e][j].frame = g THEN 1 ELSE 0)
    BY <2>2, <2>4 DEF Plus, Minus
  <2> HIDE DEF t, u, q
  <2>6. QED
    BY <1>3, <1>4, <1>9, <2>3, <2>5, SlotMoves
<1>13. Memory' /\ slot' \in [Entries -> Rows] /\ \A d \in Entries : RowIsOf(slot[d], station[d])'
  <2> HIDE DEF row1, s
  <2>1. slot' = [slot EXCEPT ![EntryOf(s)] = row1] /\ bytes' = bytes
    BY <1>1 DEF e
  <2>2. QED
    BY <1>1, <1>2, <1>11, <2>1, RowReplaced
<1>14. refs' = [g \in Handles |-> refs'[g]]
  BY <1>1 DEF Plus
<1>15. Exact(refs', local', slot')
  BY <1>1, <1>12, Zenon
<1>16. given' \in [Stations -> [Frames -> Moments \union {-1}]]
  BY <1>1, ForgottenType
<1>17. /\ bytes' \in [Handles -> FrameOrNone]
       /\ local' \in [Locals -> Handles \union {BUFFER_NONE}]
       /\ downLast' \in [Entries -> Moments] /\ window' \in [Entries -> WindowState]
       /\ sent' \in [Entries -> [1 .. SentDepth -> [hash : FrameOrNone, at : Moments]]]
       /\ scanLast' \in 0 .. Wrap - 1 /\ now' \in Moments /\ heard' \in SUBSET Stations
  <2> HIDE DEF s, u, q
  <2>1. QED
    BY <1>1, <1>7, FromInv
<1>18. QED
  BY <1>13, <1>14, <1>15, <1>16, <1>17, TableNext

(* With a buffer for it or without.                                          *)
LEMMA ArriveKeeps ==
  ASSUME DownAssumption, TableInv, NEW f \in Frames, Arrive(f)
  PROVE  TableInv'
<1>1. CASE Offer(f, BUFFER_NONE)
  BY <1>1, OfferKeeps
<1>2. CASE \E c \in Locals : local[c] # BUFFER_NONE /\ bytes[local[c]] = f /\ Offer(f, local[c])
  <2>1. PICK c \in Locals : local[c] # BUFFER_NONE /\ bytes[local[c]] = f /\ Offer(f, local[c])
    BY <1>2
  <2>2. local[c] \in Handles \union {BUFFER_NONE}
    BY FromInv
  <2>3. QED
    BY <2>1, <2>2, OfferKeeps
<1>3. QED
  BY <1>1, <1>2 DEF Arrive

(* What a window is answered with is a frame some slot holds. *)
LEMMA ChosenIs ==
  ASSUME DownAssumption, NEW e, NEW row, NEW left, Chosen(e, row, left) # 0
  PROVE  /\ Chosen(e, row, left) \in 1 .. 2 * Depth
         /\ Eligible(e, row, Chosen(e, row, left))
<1> DEFINE P == {n \in Offers(e, row) : FitsIn(row, n, left)}
           B == Earlier(row)
           n == Chosen(e, row, left)
<1>1. n = FirstBest(2 * Depth, P, B)
  BY DEF Chosen
<1>2. 2 * Depth \in Nat /\ P \in SUBSET (1 .. 2 * Depth)
      /\ \A k \in P : k \in 1 .. 2 * Depth /\ Eligible(e, row, k)
  BY Given DEF Offers
<1> HIDE DEF P, B, n
<1>3. n \in P \union {0}
  BY <1>1, <1>2, FirstBestPicks
<1>4. n \in P
  BY <1>3 DEF n
<1>5. QED
  BY <1>2, <1>4 DEF n

(* The frame handed over, and where it was. *)
LEMMA CandidateIs ==
  ASSUME DownAssumption, TableInv, NEW row \in Rows, NEW n \in 1 .. 2 * Depth
  PROVE  /\ Candidate(row, n) \in SlotState
         /\ n <= Depth => n \in Slots /\ Candidate(row, n) = row[n]
<1>1. n <= Depth => n \in Slots
  BY Given DEF Slots
<1>2. ~(n <= Depth) => n - Depth \in Slots
  BY Given DEF Slots
<1>3. slot[0] \in Rows
  BY FromInv, Given
<1>4. QED
  BY <1>1, <1>2, <1>3 DEF Candidate, Rows

(* A frame is handed to the caller: a unicast's reference moves, a broadcast's *)
(* is one more.                                                              *)
LEMMA DeliverKeeps ==
  ASSUME DownAssumption, TableInv, NEW s \in Stations, NEW c \in Locals,
         NEW n \in 1 .. 2 * Depth, local[c] = BUFFER_NONE,
         Candidate(RowOf(s), n).frame # BUFFER_NONE,
         Deliver(s, EntryOf(s), RowOf(s), n, c), Obtain(s), bytes' = bytes
  PROVE  /\ Memory' /\ Exact(refs', local', slot') /\ slot' \in [Entries -> Rows]
         /\ \A d \in Entries : RowIsOf(slot[d], station[d])'
         /\ refs' = [g \in Handles |-> refs'[g]]
         /\ local' \in [Locals -> Handles \union {BUFFER_NONE}]
         /\ sent' \in [Entries -> [1 .. SentDepth -> [hash : FrameOrNone, at : Moments]]]
         /\ given' \in [Stations -> [Frames -> Moments \union {-1}]]
<1> DEFINE e    == EntryOf(s)
           row  == RowOf(s)
           h    == Candidate(row, n).frame
           f    == Candidate(row, n).hash
           r    == RefsOf(s)
           k    == RecordFor(e, f)
           rec  == [hash |-> f, at |-> now]
           m    == local'
           q    == Plus(r, h)
           t    == [slot EXCEPT ![e] = row]
<1>0. s \in Stations \union {Broadcast}
  OBVIOUS
<1>1. e \in Entries /\ RowIsOf(row, s)
  BY <1>0, EntryIs
<1>2. row \in Rows
  BY <1>1 DEF RowIsOf
<1>3. /\ h \in Handles /\ f \in FrameOrNone
      /\ n <= Depth => n \in Slots /\ h = row[n].frame
  BY <1>2, CandidateIs DEF SlotState
<1>4. Exact(r, local, t)
  BY <1>0, EvictedIsExact
<1>5. /\ slot \in [Entries -> Rows] /\ now \in Moments
      /\ local \in [Locals -> Handles \union {BUFFER_NONE}]
      /\ sent \in [Entries -> [1 .. SentDepth -> [hash : FrameOrNone, at : Moments]]]
      /\ given \in [Stations -> [Frames -> Moments \union {-1}]]
  BY FromInv
<1>6. Forgotten(s) \in [Stations -> [Frames -> Moments \union {-1}]]
  BY ForgottenType
<1>7. /\ local' = [local EXCEPT ![c] = h]
      /\ n > Depth =>
           /\ sent' = [sent EXCEPT ![e][k] = rec] /\ slot' = t /\ refs' = q
           /\ given' = [Forgotten(s) EXCEPT ![s][f] = now]
      /\ ~(n > Depth) =>
           /\ slot' = [slot EXCEPT ![e] = [row EXCEPT ![n].frame = BUFFER_NONE]]
           /\ refs' = Minus(q, h) /\ given' = Forgotten(s) /\ sent' = sent
  BY DEF Deliver
<1>8. rec \in [hash : FrameOrNone, at : Moments]
  BY <1>3, <1>5
<1> HIDE DEF e, row, h, f, r, k, rec
<1>9. /\ local' \in [Locals -> Handles \union {BUFFER_NONE}]
      /\ \A d \in Locals : local'[d] = IF d = c THEN h ELSE local[d]
  BY <1>3, <1>5, <1>7
<1>10. Exact(q, m, t)
  <2>1. OnlyKeeper(local, m, c)
    BY <1>9 DEF OnlyKeeper
  <2>2. \A g \in Handles : r[g] \in Nat
    <3> HIDE DEF t
    <3>1. QED
      BY <1>4, CountsAreNat
  <2>3. \A g \in Handles : q[g] = r[g] + (IF m[c] = g THEN 1 ELSE 0)
                                      - (IF local[c] = g THEN 1 ELSE 0)
    BY <1>9, <2>2, Given DEF Plus
  <2> HIDE DEF m, t, q
  <2>4. QED
    BY <1>4, <2>1, <2>3, LocalMoves
<1>11. sent' \in [Entries -> [1 .. SentDepth -> [hash : FrameOrNone, at : Moments]]]
  <2>1. CASE n > Depth
    <3> DEFINE R == [hash : FrameOrNone, at : Moments]
               x == [sent[e] EXCEPT ![k] = rec]
    <3> HIDE DEF R
    <3>1. sent \in [Entries -> [1 .. SentDepth -> R]] /\ rec \in R
      BY <1>5, <1>8 DEF R
    <3>2. x \in [1 .. SentDepth -> R]
      BY <1>1, <3>1
    <3>3. sent' = [sent EXCEPT ![e] = x]
      BY <1>7, <2>1
    <3> HIDE DEF x
    <3>4. sent' \in [Entries -> [1 .. SentDepth -> R]]
      BY <1>1, <3>1, <3>2, <3>3
    <3>5. QED
      BY <3>4 DEF R
  <2>2. CASE ~(n > Depth)
    BY <1>5, <1>7, <2>2
  <2>3. QED
    BY <2>1, <2>2
<1>12. given' \in [Stations -> [Frames -> Moments \union {-1}]]
  <2> DEFINE G == Forgotten(s)
  <2> HIDE DEF G
  <2>1. CASE n > Depth
    <3>1. G \in [Stations -> [Frames -> Moments \union {-1}]]
          /\ given' = [G EXCEPT ![s][f] = now]
      BY <1>6, <1>7, <2>1 DEF G
    <3>2. QED
      BY <1>5, <3>1
  <2>2. CASE ~(n > Depth)
    BY <1>6, <1>7, <2>2
  <2>3. QED
    BY <2>1, <2>2
<1>13. CASE n > Depth
  <2>1. slot' = [slot EXCEPT ![EntryOf(s)] = row] /\ refs' = q /\ slot' = t
    BY <1>7, <1>13 DEF e
  <2>2. /\ Memory' /\ slot' \in [Entries -> Rows]
        /\ \A d \in Entries : RowIsOf(slot[d], station[d])'
    <3> HIDE DEF t, q
    <3>1. QED
      BY <1>0, <1>1, <2>1, RowReplaced
  <2>3. Exact(refs', local', slot')
    BY <1>10, <2>1, Zenon
  <2>4. refs' = [g \in Handles |-> refs'[g]]
    BY <2>1 DEF Plus
  <2>5. QED
    BY <1>9, <1>11, <1>12, <2>2, <2>3, <2>4
<1>14. CASE ~(n > Depth)
  <2> DEFINE row1 == [row EXCEPT ![n].frame = BUFFER_NONE]
             u    == [slot EXCEPT ![e] = row1]
             q1   == Minus(q, h)
  <2>1. /\ slot' = [slot EXCEPT ![EntryOf(s)] = row1] /\ refs' = q1 /\ slot' = u
    BY <1>7, <1>14 DEF e
  <2>2. n \in Slots /\ row[n].frame = h
    BY <1>3, <1>14, Given
  <2>3. /\ row1 \in Rows
        /\ \A i \in Slots : /\ row1[i].hash = row[i].hash
                            /\ row1[i].frame = IF i = n THEN BUFFER_NONE ELSE row[i].frame
    BY <1>2, <2>2 DEF Rows, SlotState
  <2>4. RowIsOf(row1, s)
    <3> HIDE DEF row1
    <3>1. QED
      BY <1>1, <2>3 DEF RowIsOf
  <2>5. /\ Memory' /\ slot' \in [Entries -> Rows]
        /\ \A d \in Entries : RowIsOf(slot[d], station[d])'
    <3> HIDE DEF row1, u, q1
    <3>1. QED
      BY <1>0, <2>1, <2>4, RowReplaced
  <2>6. Exact(q1, m, u)
    <3>1. \A d \in Entries : t[d] = (IF d = e THEN row ELSE slot[d])
                              /\ u[d] = (IF d = e THEN row1 ELSE slot[d])
      BY <1>1, <1>5
    <3>2. \A g \in Handles : q[g] \in Nat
      <4> HIDE DEF t, q, m
      <4>1. QED
        BY <1>10, CountsAreNat
    <3> HIDE DEF row1, t, u, q
    <3>3. OnlyHolder(t, u, e, n)
      BY <2>3, <3>1 DEF OnlyHolder
    <3>4. u[e][n].frame = BUFFER_NONE /\ t[e][n].frame = h
      BY <1>1, <2>2, <2>3, <3>1
    <3>5. \A g \in Handles : q1[g] = q[g] + (IF u[e][n].frame = g THEN 1 ELSE 0)
                                         - (IF t[e][n].frame = g THEN 1 ELSE 0)
      BY <3>2, <3>4, Given DEF Minus
    <3> HIDE DEF m, q1
    <3>6. QED
      BY <1>1, <1>10, <2>2, <3>3, <3>5, SlotMoves
  <2>7. Exact(refs', local', slot')
    BY <2>1, <2>6, Zenon
  <2>8. refs' = [g \in Handles |-> refs'[g]]
    BY <2>1 DEF Minus
  <2>9. QED
    BY <1>9, <1>11, <1>12, <2>5, <2>7, <2>8
<1>15. QED
  BY <1>13, <1>14

(* A station announces a window and gets a frame or none.                    *)
LEMMA WindowKeeps ==
  ASSUME DownAssumption, TableInv, NEW s \in Stations, NEW rx \in Adverts, NEW c \in Locals,
         Window(s, rx, c)
  PROVE  TableInv'
<1> DEFINE e   == EntryOf(s)
           row == RowOf(s)
           w   == [seen |-> TRUE, ms |-> rx.window, at |-> now + rx.delay]
           n   == IF rx.accepts THEN Chosen(e, row, Remaining(w)) ELSE 0
           r   == RefsOf(s)
           t   == [slot EXCEPT ![e] = row]
<1>1. /\ local[c] = BUFFER_NONE /\ UNCHANGED <<bytes, downLast, scanLast, now>>
      /\ window' = [window EXCEPT ![e] = w] /\ Obtain(s) /\ heard' = heard \union {s}
      /\ n # 0 => Deliver(s, e, row, n, c)
      /\ n = 0 => /\ slot' = t /\ refs' = r /\ given' = Forgotten(s)
                  /\ UNCHANGED <<local, sent>>
  BY DEF Window
<1>2. s \in Stations \union {Broadcast}
  OBVIOUS
<1>3. e \in Entries /\ RowIsOf(row, s)
  BY <1>2, EntryIs
<1>4. w \in WindowState
  <2>1. rx.window \in Nat /\ rx.delay \in Nat /\ now \in Nat
    BY FromInv, Given DEF Moments
  <2>2. QED
    BY <2>1 DEF WindowState
<1>5. n # 0 => n \in 1 .. 2 * Depth /\ Eligible(e, row, n)
  <2> DEFINE left == Remaining(w)
  <2> HIDE DEF e, row, left
  <2>1. QED
    BY ChosenIs
<1> HIDE DEF w, n
<1>6. /\ bytes' \in [Handles -> FrameOrNone] /\ downLast' \in [Entries -> Moments]
      /\ window' \in [Entries -> WindowState]
      /\ scanLast' \in 0 .. Wrap - 1 /\ now' \in Moments /\ heard' \in SUBSET Stations
  <2> HIDE DEF e, row, r, t
  <2>1. QED
    BY <1>1, <1>4, FromInv
<1>7. /\ Memory' /\ Exact(refs', local', slot') /\ slot' \in [Entries -> Rows]
      /\ \A d \in Entries : RowIsOf(slot[d], station[d])'
      /\ refs' = [g \in Handles |-> refs'[g]]
      /\ local' \in [Locals -> Handles \union {BUFFER_NONE}]
      /\ sent' \in [Entries -> [1 .. SentDepth -> [hash : FrameOrNone, at : Moments]]]
      /\ given' \in [Stations -> [Frames -> Moments \union {-1}]]
  <2>1. CASE n # 0
    <3>1. n \in 1 .. 2 * Depth /\ Candidate(row, n).frame # BUFFER_NONE
      BY <1>5, <2>1 DEF Eligible
    <3>2. Deliver(s, e, row, n, c) /\ local[c] = BUFFER_NONE /\ Obtain(s) /\ bytes' = bytes
      BY <1>1, <2>1
    <3>3. QED
      BY <3>1, <3>2, DeliverKeeps
  <2>2. CASE n = 0
    <3>1. slot' = t /\ refs' = r /\ given' = Forgotten(s) /\ local' = local /\ sent' = sent
          /\ Obtain(s) /\ bytes' = bytes
      BY <1>1, <2>2
    <3>2. Exact(r, local, t)
      BY <1>2, EvictedIsExact
    <3>3. Exact(refs', local', slot')
      BY <3>1, <3>2, Zenon
    <3>4. /\ Memory' /\ slot' \in [Entries -> Rows]
          /\ \A d \in Entries : RowIsOf(slot[d], station[d])'
      <4> HIDE DEF row
      <4>1. slot' = [slot EXCEPT ![EntryOf(s)] = row]
        BY <3>1
      <4>2. QED
        BY <1>2, <1>3, <3>1, <4>1, RowReplaced
    <3>5. refs' = [g \in Handles |-> refs'[g]]
      <4>1. refs = [g \in Handles |-> refs[g]]
        BY FromInv
      <4>2. r = [g \in Handles |-> r[g]]
        BY <4>1 DEF RefsOf, Released
      <4>3. QED
        BY <3>1, <4>2, Zenon
    <3>6. given' \in [Stations -> [Frames -> Moments \union {-1}]]
      BY <3>1, ForgottenType
    <3>7. QED
      BY <3>1, <3>3, <3>4, <3>5, <3>6, FromInv
  <2>3. QED
    BY <2>1, <2>2
<1>8. QED
  BY <1>6, <1>7, TableNext

(* A record of what was sent, blanked. *)
LEMMA BlankedRecord ==
  ASSUME DownAssumption, NEW x \in [hash : FrameOrNone, at : Moments]
  PROVE  [x EXCEPT !.hash = NoFrame] \in [hash : FrameOrNone, at : Moments]
BY Given

(* What expired is released, and a station with nothing left is forgotten.   *)
LEMMA TickKeeps ==
  ASSUME DownAssumption, TableInv, Tick
  PROVE  TableInv'
<1> DEFINE gone  == {p \in Entries \X Slots : Used(p[1]) /\ Expired(p[1], p[2])}
           freed == {e \in Entries : Freed(e)}
<1>1. /\ scanLast' = (IF now % Wrap = 0 THEN 1 ELSE now % Wrap)
      /\ slot' = [e \in Entries |-> [j \in Slots |->
                    IF <<e, j>> \in gone THEN Cleared ELSE slot[e][j]]]
      /\ refs' = Released(gone)
      /\ sent' = [e \in Entries |-> [k \in 1 .. SentDepth |->
                    IF Used(e) /\ Older(sent[e][k].at, Repeat)
                      THEN [sent[e][k] EXCEPT !.hash = NoFrame] ELSE sent[e][k]]]
      /\ station' = [e \in Entries |-> IF Freed(e) THEN 0 ELSE station[e]]
      /\ count' = count - Cardinality(freed)
      /\ UNCHANGED <<bytes, local, downLast, window, now, heard, given>>
  BY DEF Tick
<1>2. /\ Memory /\ Exact(refs, local, slot) /\ slot \in [Entries -> Rows]
      /\ \A e \in Entries : RowIsOf(slot[e], station[e])
  BY FromInv
<1>3. gone \in SUBSET Places
      /\ \A e \in Entries : Freed(e) =>
           /\ e # 0 /\ station[e] # 0
           /\ \A j \in Slots : slot[e][j].hash = NoFrame \/ <<e, j>> \in gone
  BY DEF Places, Freed, Used
<1>4. Cleared \in SlotState /\ Cleared.hash = NoFrame /\ Cleared.frame = BUFFER_NONE
  BY Given DEF Cleared, SlotState
<1> HIDE DEF gone
<1>5. \A e \in Entries : slot'[e] \in Rows /\ \A j \in Slots :
        slot'[e][j] = IF <<e, j>> \in gone THEN Cleared ELSE slot[e][j]
  BY <1>1, <1>2, <1>4 DEF Rows
<1>6. slot' \in [Entries -> Rows]
  BY <1>1, <1>5
<1>7. \A e \in Entries : RowIsOf(slot[e], station[e])'
  <2> SUFFICES ASSUME NEW e \in Entries PROVE RowIsOf(slot[e], station[e])'
    OBVIOUS
  <2>1. RowIsOf(slot[e], station[e])
    BY <1>2
  <2>2. station'[e] = IF Freed(e) THEN 0 ELSE station[e]
    BY <1>1
  <2>3. Freed(e) => \A j \in Slots : slot'[e][j].hash = NoFrame
    BY <1>3, <1>4, <1>5
  <2>4. \A j \in Slots : /\ slot'[e][j].hash # NoFrame => slot'[e][j].hash.to = station'[e]
                         /\ slot'[e][j].frame # BUFFER_NONE =>
                              bytes'[slot'[e][j].frame] = slot'[e][j].hash
    BY <1>1, <1>4, <1>5, <2>1, <2>2, <2>3 DEF RowIsOf
  <2>5. \A i, j \in Slots :
          slot'[e][i].hash # NoFrame /\ slot'[e][i].hash = slot'[e][j].hash => i = j
    <3>1. \A i \in Slots : slot'[e][i].hash = NoFrame \/ slot'[e][i].hash = slot[e][i].hash
      BY <1>4, <1>5
    <3>2. \A i, j \in Slots :
            slot[e][i].hash # NoFrame /\ slot[e][i].hash = slot[e][j].hash => i = j
      BY <2>1 DEF RowIsOf
    <3> SUFFICES ASSUME NEW i \in Slots, NEW j \in Slots,
                        slot'[e][i].hash # NoFrame, slot'[e][i].hash = slot'[e][j].hash
                 PROVE  i = j
      OBVIOUS
    <3>3. slot'[e][i].hash = slot[e][i].hash /\ slot'[e][j].hash = slot[e][j].hash
      BY <3>1
    <3>4. QED
      BY <3>2, <3>3
  <2>6. QED
    BY <1>5, <2>4, <2>5 DEF RowIsOf
<1>8. Exact(refs', local', slot')
  <2> DEFINE t == slot'
  <2>1. \A p \in Places : t[p[1]][p[2]].frame =
                             IF p \in gone THEN BUFFER_NONE ELSE slot[p[1]][p[2]].frame
    <3> SUFFICES ASSUME NEW e \in Entries, NEW j \in Slots
                 PROVE  t[e][j].frame =
                          IF <<e, j>> \in gone THEN BUFFER_NONE ELSE slot[e][j].frame
      BY DEF Places
    <3>1. QED
      BY <1>4, <1>5
  <2> HIDE DEF t
  <2>2. Exact(Released(gone), local, t)
    BY <1>2, <1>3, <2>1, ReleasedIsExact
  <2>3. local' = local /\ slot' = t
    BY <1>1 DEF t
  <2>4. QED
    BY <1>1, <2>2, <2>3, Zenon
<1>9. Memory'
  <2> DEFINE U == UsedEntries
  <2>1. U \subseteq Entries /\ 0 \in U /\ count = Cardinality(U)
    BY <1>2, Given DEF Memory, UsedEntries
  <2>2. /\ \A e \in Entries : station'[e] = IF e \in freed THEN 0 ELSE station[e]
        /\ station' \in [Entries -> Stations \union {0, Broadcast}]
    BY <1>1, <1>2 DEF Memory
  <2>3. freed \subseteq U /\ 0 \notin freed
    BY <1>3 DEF UsedEntries
  <2> HIDE DEF freed
  <2>4. UsedEntries' = U \ freed
    BY <2>2 DEF UsedEntries
  <2> HIDE DEF U
  <2>5. IsFiniteSet(U)
    BY <2>1, SomeEntries
  <2>6. Cardinality(U \ freed) = Cardinality(U) - Cardinality(freed)
    BY <2>3, <2>5, SomeGo
  <2>7. count' = Cardinality(UsedEntries')
    BY <1>1, <2>1, <2>4, <2>6, Zenon
  <2>8. QED
    BY <1>2, <2>2, <2>3, <2>7, Given DEF Memory
<1>10. scanLast' \in 0 .. Wrap - 1
  <2>1. now \in Nat /\ Wrap \in Nat /\ Wrap >= 2
    BY FromInv, Given DEF Moments
  <2>2. QED
    BY <1>1, <2>1
<1>11. sent' \in [Entries -> [1 .. SentDepth -> [hash : FrameOrNone, at : Moments]]]
  <2>1. sent \in [Entries -> [1 .. SentDepth -> [hash : FrameOrNone, at : Moments]]]
    BY FromInv
  <2>2. ASSUME NEW e \in Entries, NEW k \in 1 .. SentDepth
        PROVE  /\ sent[e][k] \in [hash : FrameOrNone, at : Moments]
               /\ [sent[e][k] EXCEPT !.hash = NoFrame] \in [hash : FrameOrNone, at : Moments]
    <3>1. sent[e][k] \in [hash : FrameOrNone, at : Moments]
      BY <2>1
    <3>2. QED
      BY <3>1, BlankedRecord
  <2> DEFINE R == [hash : FrameOrNone, at : Moments]
  <2> HIDE DEF R
  <2>3. \A e \in Entries, k \in 1 .. SentDepth :
          sent[e][k] \in R /\ [sent[e][k] EXCEPT !.hash = NoFrame] \in R
    BY <2>2 DEF R
  <2>4. sent' \in [Entries -> [1 .. SentDepth -> R]]
    BY <1>1, <2>3
  <2>5. QED
    BY <2>4 DEF R
<1>12. refs' = [h \in Handles |-> refs'[h]]
  BY <1>1 DEF Released
<1>13. /\ bytes' \in [Handles -> FrameOrNone]
       /\ local' \in [Locals -> Handles \union {BUFFER_NONE}]
       /\ downLast' \in [Entries -> Moments] /\ window' \in [Entries -> WindowState]
       /\ now' \in Moments /\ heard' \in SUBSET Stations
       /\ given' \in [Stations -> [Frames -> Moments \union {-1}]]
  BY <1>1, FromInv
<1>14. QED
  BY <1>6, <1>7, <1>8, <1>9, <1>10, <1>11, <1>12, <1>13, TableNext

(* Everything is released.                                                   *)
LEMMA ClearKeeps ==
  ASSUME DownAssumption, TableInv, Clear
  PROVE  TableInv'
<1> DEFINE P == Entries \X Slots
<1>1. /\ slot' = [e \in Entries |-> [j \in Slots |-> Cleared]]
      /\ refs' = Released(P)
      /\ sent' = [e \in Entries |-> [k \in 1 .. SentDepth |->
                    [sent[e][k] EXCEPT !.hash = NoFrame]]]
      /\ station' = [e \in Entries |-> IF e = 0 THEN Broadcast ELSE 0]
      /\ count' = 1
      /\ given' = [s \in Stations |-> Never]
      /\ UNCHANGED <<bytes, local, downLast, window, scanLast, now, heard>>
  BY DEF Clear
<1>2. Cleared \in SlotState /\ Cleared.hash = NoFrame /\ Cleared.frame = BUFFER_NONE
  BY Given DEF Cleared, SlotState
<1>3. \A e \in Entries : slot'[e] \in Rows /\ \A j \in Slots : slot'[e][j] = Cleared
  BY <1>1, <1>2 DEF Rows
<1>4. slot' \in [Entries -> Rows] /\ \A e \in Entries : RowIsOf(slot[e], station[e])'
  BY <1>1, <1>2, <1>3 DEF RowIsOf
<1>5. Exact(refs', local', slot')
  <2> DEFINE t == slot'
  <2>1. P \in SUBSET Places
        /\ \A p \in Places : t[p[1]][p[2]].frame =
                              IF p \in P THEN BUFFER_NONE ELSE slot[p[1]][p[2]].frame
    BY <1>2, <1>3 DEF Places
  <2>2. Exact(refs, local, slot)
    BY FromInv
  <2> HIDE DEF t, P
  <2>3. Exact(Released(P), local, t)
    BY <2>1, <2>2, ReleasedIsExact
  <2>4. local' = local /\ slot' = t
    BY <1>1 DEF t
  <2>5. QED
    BY <1>1, <2>3, <2>4, Zenon
<1>6. Memory'
  <2>1. \A e \in Entries : station'[e] = IF e = 0 THEN Broadcast ELSE 0
    BY <1>1
  <2>2. UsedEntries' = {0}
    BY <2>1, Given DEF UsedEntries
  <2>3. count' = Cardinality(UsedEntries')
    BY <1>1, <2>2, FS_Singleton
  <2>4. QED
    BY <1>1, <2>1, <2>3, Given DEF Memory
<1>7. sent' \in [Entries -> [1 .. SentDepth -> [hash : FrameOrNone, at : Moments]]]
  <2>1. sent \in [Entries -> [1 .. SentDepth -> [hash : FrameOrNone, at : Moments]]]
    BY FromInv
  <2>2. ASSUME NEW e \in Entries, NEW k \in 1 .. SentDepth
        PROVE  /\ sent[e][k] \in [hash : FrameOrNone, at : Moments]
               /\ [sent[e][k] EXCEPT !.hash = NoFrame] \in [hash : FrameOrNone, at : Moments]
    <3>1. sent[e][k] \in [hash : FrameOrNone, at : Moments]
      BY <2>1
    <3>2. QED
      BY <3>1, BlankedRecord
  <2> DEFINE R == [hash : FrameOrNone, at : Moments]
  <2> HIDE DEF R
  <2>3. \A e \in Entries, k \in 1 .. SentDepth :
          sent[e][k] \in R /\ [sent[e][k] EXCEPT !.hash = NoFrame] \in R
    BY <2>2 DEF R
  <2>4. sent' \in [Entries -> [1 .. SentDepth -> R]]
    BY <1>1, <2>3
  <2>5. QED
    BY <2>4 DEF R
<1>8. refs' = [h \in Handles |-> refs'[h]]
  BY <1>1 DEF Released
<1>9. /\ bytes' \in [Handles -> FrameOrNone]
      /\ local' \in [Locals -> Handles \union {BUFFER_NONE}]
      /\ downLast' \in [Entries -> Moments] /\ window' \in [Entries -> WindowState]
      /\ scanLast' \in 0 .. Wrap - 1 /\ now' \in Moments /\ heard' \in SUBSET Stations
      /\ given' \in [Stations -> [Frames -> Moments \union {-1}]]
  BY <1>1, FromInv DEF Never
<1>10. QED
  BY <1>4, <1>5, <1>6, <1>7, <1>8, <1>9, TableNext

(* Time passes.                                                              *)
LEMMA ClockKeeps ==
  ASSUME DownAssumption, TableInv, Clock
  PROVE  TableInv'
<1>1. /\ now < Horizon /\ now' = now + 1 /\ UNCHANGED pool /\ local' = local
      /\ UNCHANGED table /\ UNCHANGED <<scanLast, heard, given>>
  BY DEF Clock
<1>2. refs' = refs /\ bytes' = bytes
  BY <1>1 DEF pool
<1>3. now' \in Moments
  BY <1>1, FromInv, Given DEF Moments
<1>4. /\ Exact(refs', local', slot) /\ refs' = [h \in Handles |-> refs'[h]]
      /\ bytes' \in [Handles -> FrameOrNone]
      /\ local' \in [Locals -> Handles \union {BUFFER_NONE}]
  BY <1>1, <1>2, FromInv
<1>5. QED
  BY <1>1, <1>2, <1>3, <1>4, PoolSteps

(* Nothing happens. *)
LEMMA StutterKeeps ==
  ASSUME DownAssumption, TableInv, UNCHANGED vars
  PROVE  TableInv'
<1>1. /\ refs' = refs /\ bytes' = bytes /\ local' = local /\ now' = now
      /\ UNCHANGED table /\ UNCHANGED <<scanLast, heard, given>>
  BY DEF vars, pool
<1>2. QED
  BY <1>1, FromInv, PoolSteps

(* Whatever happens.                                                         *)
LEMMA NextKeeps ==
  ASSUME DownAssumption, TableInv, [Next]_vars
  PROVE  TableInv'
<1>1. CASE \E c \in Locals : Unref(c) \/ \E f \in Frames : Receive(c, f)
  BY <1>1, UnrefKeeps, ReceiveKeeps
<1>2. CASE \E f \in Frames : Arrive(f)
  BY <1>2, ArriveKeeps
<1>3. CASE \E s \in Stations, rx \in Adverts, c \in Locals : Window(s, rx, c)
  BY <1>3, WindowKeeps
<1>4. CASE Tick
  BY <1>4, TickKeeps
<1>5. CASE Clear
  BY <1>5, ClearKeeps
<1>6. CASE Clock
  BY <1>6, ClockKeeps
<1>7. CASE UNCHANGED vars
  BY <1>7, StutterKeeps
<1>8. QED
  BY <1>1, <1>2, <1>3, <1>4, <1>5, <1>6, <1>7 DEF Next

(* The table is sound through arrivals, evictions, deliveries, expiry and    *)
(* clear: for any number of buffers, entries and slots, any frames and       *)
(* advertisements, intervals below half the clock's period.                  *)
THEOREM TableIsSound == ASSUME DownAssumption PROVE Spec => []TableInv
<1>1. Init => TableInv
  BY TableInit
<1>2. TableInv /\ [Next]_vars => TableInv'
  BY NextKeeps
<1>3. QED
  BY <1>1, <1>2, PTL DEF Spec

(* In particular no buffer is freed while a slot holds it or lost when none  *)
(* does, what a slot hands over is the frame it remembers, and a frame that  *)
(* is remembered is remembered once, under its own station.                  *)
COROLLARY NothingIsLostOrTwice ==
  ASSUME DownAssumption
  PROVE  Spec => [](RefsExact /\ SlotsCarryTheirFrame /\ MemoryExact)
<1>1. TableInv => RefsExact /\ SlotsCarryTheirFrame /\ MemoryExact
  BY DEF TableInv
<1>2. QED
  BY <1>1, TableIsSound, PTL

-----------------------------------------------------------------------------
(* Until less than half the clock's period has gone, the comparisons of its  *)
(* values are those of the moments.                                          *)
WithinHalf == Horizon - Start < Wrap \div 2

(* The sign test on the clock is the order of the moments.                   *)
LEMMA BeforeIs ==
  ASSUME DownAssumption, WithinHalf, NEW a \in Start .. Horizon, NEW b \in Start .. Horizon
  PROVE  Before(a, b) <=> a < b
<1>1. PICK k \in 1 .. Wrap : Wrap = 2 * k
  BY DEF DownAssumption
<1>2. /\ Wrap \in Nat /\ k \in Nat /\ k >= 1 /\ Wrap \div 2 = k
      /\ Start \in Nat /\ Horizon \in Nat
  BY <1>1, Given DEF Moments
<1>3. a \in Int /\ b \in Int /\ a - b < k /\ b - a < k
  BY <1>2 DEF WithinHalf
<1>4. CASE a < b
  <2>1. a - b + Wrap \in 0 .. Wrap - 1 /\ a - b + Wrap >= k
    BY <1>1, <1>2, <1>3, <1>4
  <2>2. (a - b) % Wrap = a - b + Wrap
    BY <1>2, <1>3, <2>1
  <2>3. QED
    BY <1>2, <1>4, <2>1, <2>2 DEF Before
<1>5. CASE ~(a < b)
  <2>1. a - b \in 0 .. Wrap - 1
    BY <1>1, <1>2, <1>3, <1>5
  <2>2. (a - b) % Wrap = a - b
    BY <1>2, <2>1
  <2>3. QED
    BY <1>2, <1>3, <1>5, <2>2 DEF Before
<1>6. QED
  BY <1>4, <1>5

(* What the comparisons are made of: a frame that is remembered came since   *)
(* the start, and the station of one that is held had its last down then.    *)
TimesInv ==
  /\ Start <= now
  /\ \A e \in Entries, j \in Slots :
       /\ slot[e][j].hash # NoFrame => slot[e][j].arrived \in Start .. now
       /\ slot[e][j].frame # BUFFER_NONE =>
            slot[e][j].hash # NoFrame /\ downLast[e] \in Start .. now

(* A slot after a step: emptied, filled now, or as it was but perhaps for    *)
(* the frame it held.                                                        *)
Emptied(sl) == sl.hash = NoFrame /\ sl.frame = BUFFER_NONE
Stayed(new, old) ==
  new.hash = old.hash /\ new.arrived = old.arrived /\ new.frame \in {old.frame, BUFFER_NONE}

(* What a step has to show of every slot to keep the times.                  *)
LEMMA TimesNext ==
  ASSUME DownAssumption, TableInv, TimesInv, now' \in Nat, now <= now',
         \A e \in Entries, j \in Slots :
           \/ Emptied(slot'[e][j])
           \/ /\ slot'[e][j].hash # NoFrame /\ slot'[e][j].arrived = now
              /\ downLast'[e] = now
           \/ Stayed(slot'[e][j], slot[e][j]) /\ downLast'[e] \in {downLast[e], now}
  PROVE  TimesInv'
<1>1. Start \in Nat /\ now \in Nat /\ Start <= now
  BY FromInv, Given DEF Moments, TimesInv
<1>2. now \in Start .. now' /\ \A x \in Start .. now : x \in Start .. now'
  BY <1>1
<1>3. ASSUME NEW e \in Entries, NEW j \in Slots
      PROVE  /\ slot'[e][j].hash # NoFrame => slot'[e][j].arrived \in Start .. now'
             /\ slot'[e][j].frame # BUFFER_NONE =>
                  slot'[e][j].hash # NoFrame /\ downLast'[e] \in Start .. now'
  <2>1. /\ slot[e][j].hash # NoFrame => slot[e][j].arrived \in Start .. now
        /\ slot[e][j].frame # BUFFER_NONE =>
             slot[e][j].hash # NoFrame /\ downLast[e] \in Start .. now
    BY DEF TimesInv
  <2>2. CASE Emptied(slot'[e][j])
    BY <2>2 DEF Emptied
  <2>3. CASE /\ slot'[e][j].hash # NoFrame /\ slot'[e][j].arrived = now
             /\ downLast'[e] = now
    BY <1>2, <2>3
  <2>4. CASE Stayed(slot'[e][j], slot[e][j]) /\ downLast'[e] \in {downLast[e], now}
    BY <1>2, <2>1, <2>4 DEF Stayed
  <2>5. QED
    BY <2>2, <2>3, <2>4
<1>4. Start <= now'
  BY <1>1
<1>5. QED
  BY <1>3, <1>4 DEF TimesInv

(* The row of the entry a call works on is its own, or empty. *)
LEMMA ObtainedRow ==
  ASSUME DownAssumption, TableInv, NEW s \in Stations \union {Broadcast}, NEW j \in Slots
  PROVE  /\ Emptied(RowOf(s)[j]) \/ RowOf(s)[j] = slot[EntryOf(s)][j]
         /\ ~Evicts(s) => RowOf(s) = slot[EntryOf(s)]
         /\ Evicts(s) => \A i \in Slots : RowOf(s)[i] = Cleared
<1>1. Evicts(s) => \A i \in Slots : RowOf(s)[i] = Cleared
  BY DEF RowOf
<1>2. ~Evicts(s) => RowOf(s) = slot[EntryOf(s)]
  BY EntryIs
<1>3. Emptied(Cleared)
  BY DEF Emptied, Cleared
<1>4. QED
  BY <1>1, <1>2, <1>3

(* A new frame is put in one slot of the row its station has then. *)
LEMMA OfferedSlots ==
  ASSUME DownAssumption, TableInv, NEW f \in Frames, NEW h \in Handles \union {BUFFER_NONE},
         Offer(f, h)
  PROVE  \A e \in Entries, j \in Slots :
           IF e = EntryOf(f.to)
             THEN /\ downLast'[e] = now
                  /\ IF j = SlotIn(RowOf(f.to))
                       THEN slot'[e][j].hash = f /\ slot'[e][j].arrived = now
                       ELSE slot'[e][j] = RowOf(f.to)[j]
             ELSE downLast'[e] = downLast[e] /\ slot'[e][j] = slot[e][j]
<1> DEFINE s    == f.to
           e    == EntryOf(s)
           row  == RowOf(s)
           i    == SlotIn(row)
           kept == IF h # BUFFER_NONE /\ Worth(f, window[e]) THEN h ELSE BUFFER_NONE
           new  == [hash |-> f, arrived |-> now, frame |-> kept]
           row1 == [row EXCEPT ![i] = new]
<1>1. slot' = [slot EXCEPT ![e] = row1] /\ downLast' = [downLast EXCEPT ![e] = now]
  BY DEF Offer
<1>2. s \in Stations \union {Broadcast}
  BY Given
<1>3. e \in Entries /\ row \in Rows
  BY <1>2, EntryIs DEF RowIsOf
<1>4. i \in Slots
  BY SlotInIs
<1>5. new.hash = f /\ new.arrived = now
  OBVIOUS
<1>6. slot \in [Entries -> Rows] /\ downLast \in [Entries -> Moments]
  BY FromInv
<1> HIDE DEF e, row, i, new
<1>7. \A j \in Slots : row1[j] = IF j = i THEN new ELSE row[j]
  BY <1>3, <1>4 DEF Rows
<1>8. \A d \in Entries : slot'[d] = IF d = e THEN row1 ELSE slot[d]
  BY <1>1, <1>3, <1>6
<1>9. \A d \in Entries : downLast'[d] = IF d = e THEN now ELSE downLast[d]
  BY <1>1, <1>3, <1>6
<1> HIDE DEF row1
<1>10. QED
  BY <1>5, <1>7, <1>8, <1>9 DEF e, row, i

(* A window takes at most one unicast out of the row its station has then,   *)
(* and hands it to the caller.                                               *)
LEMMA WindowSlots ==
  ASSUME DownAssumption, TableInv, NEW s \in Stations, NEW rx \in Adverts, NEW c \in Locals,
         Window(s, rx, c)
  PROVE  /\ downLast' = downLast /\ now' = now /\ local[c] = BUFFER_NONE
         /\ \A e \in Entries, j \in Slots :
              IF e = EntryOf(s)
                THEN \/ slot'[e][j] = RowOf(s)[j]
                     \/ /\ Stayed(slot'[e][j], RowOf(s)[j])
                        /\ local'[c] = RowOf(s)[j].frame
                ELSE slot'[e][j] = slot[e][j]
<1> DEFINE e   == EntryOf(s)
           row == RowOf(s)
           w   == [seen |-> TRUE, ms |-> rx.window, at |-> now + rx.delay]
           n   == IF rx.accepts THEN Chosen(e, row, Remaining(w)) ELSE 0
           h   == Candidate(row, n).frame
           row1 == [row EXCEPT ![n].frame = BUFFER_NONE]
<1>1. /\ local[c] = BUFFER_NONE /\ UNCHANGED <<bytes, downLast, scanLast, now>>
      /\ n # 0 => Deliver(s, e, row, n, c)
      /\ n = 0 => slot' = [slot EXCEPT ![e] = row]
  BY DEF Window
<1>2. s \in Stations \union {Broadcast}
  OBVIOUS
<1>3. e \in Entries /\ row \in Rows
  BY <1>2, EntryIs DEF RowIsOf
<1>4. n # 0 => n \in 1 .. 2 * Depth
  <2> DEFINE left == Remaining(w)
  <2> HIDE DEF e, row, left
  <2>1. QED
    BY ChosenIs
<1>5. /\ slot \in [Entries -> Rows]
      /\ local \in [Locals -> Handles \union {BUFFER_NONE}]
  BY FromInv
<1> HIDE DEF w, n
<1>6. CASE n = 0 \/ n > Depth
  <2>1. slot' = [slot EXCEPT ![e] = row]
    <3>1. n # 0 /\ n > Depth => slot' = [slot EXCEPT ![e] = row]
      BY <1>1 DEF Deliver
    <3>2. QED
      BY <1>1, <1>6, <3>1
  <2> HIDE DEF e, row
  <2>2. \A d \in Entries : slot'[d] = IF d = e THEN row ELSE slot[d]
    BY <1>3, <1>5, <2>1
  <2>3. QED
    BY <1>1, <2>2 DEF e, row
<1>7. CASE n # 0 /\ ~(n > Depth)
  <2>1. /\ slot' = [slot EXCEPT ![e] = row1] /\ local' = [local EXCEPT ![c] = h]
    BY <1>1, <1>7 DEF Deliver
  <2>2. n \in Slots /\ h = row[n].frame
    BY <1>3, <1>4, <1>7, CandidateIs, Given
  <2> HIDE DEF e, row, h
  <2>3. \A j \in Slots : row1[j] = (IF j = n THEN [row[n] EXCEPT !.frame = BUFFER_NONE] ELSE row[j])
    BY <1>3, <2>2 DEF Rows
  <2>4. Stayed(row1[n], row[n])
    <3>1. row[n] \in SlotState
      BY <1>3, <2>2 DEF Rows
    <3>2. QED
      BY <2>2, <2>3, <3>1 DEF Stayed, SlotState
  <2> HIDE DEF row1
  <2>5. \A d \in Entries : slot'[d] = IF d = e THEN row1 ELSE slot[d]
    BY <1>3, <1>5, <2>1
  <2>6. local'[c] = row[n].frame
    BY <1>5, <2>1, <2>2
  <2>7. \A j \in Slots : j # n => row1[j] = row[j]
    BY <2>3
  <2>8. QED
    BY <1>1, <2>4, <2>5, <2>6, <2>7 DEF e, row
<1>8. QED
  BY <1>6, <1>7

(* The times are kept, whatever happens. *)
LEMMA OfferTimes ==
  ASSUME DownAssumption, TableInv, TimesInv, NEW f \in Frames,
         NEW h \in Handles \union {BUFFER_NONE}, Offer(f, h)
  PROVE  TimesInv'
<1>1. now' = now /\ now \in Nat
  BY FromInv, Given DEF Moments, Offer
<1>2. f # NoFrame /\ f.to \in Stations \union {Broadcast}
  BY Given
<1>3. ASSUME NEW e \in Entries, NEW j \in Slots
      PROVE  \/ Emptied(slot'[e][j])
             \/ /\ slot'[e][j].hash # NoFrame /\ slot'[e][j].arrived = now
                /\ downLast'[e] = now
             \/ Stayed(slot'[e][j], slot[e][j]) /\ downLast'[e] \in {downLast[e], now}
  <2>1. Emptied(RowOf(f.to)[j]) \/ RowOf(f.to)[j] = slot[EntryOf(f.to)][j]
    BY <1>2, ObtainedRow
  <2>2. IF e = EntryOf(f.to)
          THEN /\ downLast'[e] = now
               /\ IF j = SlotIn(RowOf(f.to))
                    THEN slot'[e][j].hash = f /\ slot'[e][j].arrived = now
                    ELSE slot'[e][j] = RowOf(f.to)[j]
          ELSE downLast'[e] = downLast[e] /\ slot'[e][j] = slot[e][j]
    BY OfferedSlots
  <2>3. slot'[e][j] = slot[e][j] => Stayed(slot'[e][j], slot[e][j])
    BY DEF Stayed
  <2>4. QED
    BY <1>2, <2>1, <2>2, <2>3
<1>4. QED
  BY <1>1, <1>3, TimesNext

(* A window leaves slots as they were, or without the frame it handed over.  *)
LEMMA WindowTimes ==
  ASSUME DownAssumption, TableInv, TimesInv, NEW s \in Stations, NEW rx \in Adverts,
         NEW c \in Locals, Window(s, rx, c)
  PROVE  TimesInv'
<1>1. now' = now /\ now \in Nat /\ downLast' = downLast
  BY FromInv, WindowSlots, Given DEF Moments
<1>2. s \in Stations \union {Broadcast}
  OBVIOUS
<1>3. ASSUME NEW e \in Entries, NEW j \in Slots
      PROVE  Emptied(slot'[e][j]) \/ Stayed(slot'[e][j], slot[e][j])
  <2>1. Emptied(RowOf(s)[j]) \/ RowOf(s)[j] = slot[EntryOf(s)][j]
    BY <1>2, ObtainedRow
  <2>2. IF e = EntryOf(s)
          THEN slot'[e][j] = RowOf(s)[j] \/ Stayed(slot'[e][j], RowOf(s)[j])
          ELSE slot'[e][j] = slot[e][j]
    BY WindowSlots
  <2>3. QED
    BY <2>1, <2>2 DEF Stayed, Emptied
<1>4. QED
  BY <1>1, <1>3, TimesNext

(* Whatever happens.                                                         *)
LEMMA TimesKept ==
  ASSUME DownAssumption, TableInv, TimesInv, [Next]_vars
  PROVE  TimesInv'
<1>1. now \in Nat
  BY FromInv, Given DEF Moments
<1>2. \A e \in Entries, j \in Slots :
        slot'[e][j] = slot[e][j] => Stayed(slot'[e][j], slot[e][j])
  BY DEF Stayed
<1>3. Emptied(Cleared)
  BY DEF Emptied, Cleared
<1>4. CASE slot' = slot /\ downLast' = downLast /\ now' \in {now, now + 1}
  <2>1. \A e \in Entries, j \in Slots :
          Stayed(slot'[e][j], slot[e][j]) /\ downLast'[e] \in {downLast[e], now}
    BY <1>2, <1>4
  <2>2. now' \in Nat /\ now <= now'
    BY <1>1, <1>4
  <2>3. QED
    BY <2>1, <2>2, TimesNext
<1>5. CASE \E c \in Locals : Unref(c) \/ \E f \in Frames : Receive(c, f)
  BY <1>4, <1>5 DEF Unref, Receive, table
<1>6. CASE \E f \in Frames : Arrive(f)
  <2>1. PICK f \in Frames : Arrive(f)
    BY <1>6
  <2>2. \E h \in Handles \union {BUFFER_NONE} : Offer(f, h)
    BY <2>1, FromInv DEF Arrive
  <2>3. QED
    BY <2>2, OfferTimes
<1>7. CASE \E s \in Stations, rx \in Adverts, c \in Locals : Window(s, rx, c)
  BY <1>7, WindowTimes
<1>8. CASE Tick \/ Clear
  <2>1. now' = now /\ downLast' = downLast
    BY <1>8 DEF Tick, Clear
  <2>2. ASSUME NEW e \in Entries, NEW j \in Slots
        PROVE  Emptied(slot'[e][j]) \/ Stayed(slot'[e][j], slot[e][j])
    <3>1. CASE Tick
      <4>1. slot' = [d \in Entries |-> [i \in Slots |->
                      IF <<d, i>> \in {p \in Entries \X Slots : Used(p[1]) /\ Expired(p[1], p[2])}
                        THEN Cleared ELSE slot[d][i]]]
        BY <3>1 DEF Tick
      <4>2. slot'[e][j] = Cleared \/ slot'[e][j] = slot[e][j]
        BY <4>1
      <4>3. QED
        BY <1>2, <1>3, <4>2
    <3>2. CASE Clear
      BY <1>3, <3>2 DEF Clear
    <3>3. QED
      BY <1>8, <3>1, <3>2
  <2>3. QED
    BY <1>1, <2>1, <2>2, TimesNext
<1>9. CASE Clock
  BY <1>4, <1>9 DEF Clock, table
<1>10. CASE UNCHANGED vars
  BY <1>4, <1>10 DEF vars, table
<1>11. QED
  BY <1>5, <1>6, <1>7, <1>8, <1>9, <1>10 DEF Next

(* At the start nothing is remembered.                                       *)
LEMMA TimesStart ==
  ASSUME DownAssumption, Init
  PROVE  TimesInv
<1>1. \A e \in Entries, j \in Slots : slot[e][j] = Cleared
  BY DEF Init
<1>2. now = Start /\ Start <= now
  BY Given DEF Init, Moments
<1>3. QED
  BY <1>1, <1>2 DEF TimesInv, Cleared

-----------------------------------------------------------------------------
(* The station that loses its entry: when it still holds something so do all *)
(* the others, and none has been longer without a down.                      *)
LEMMA VictimIsLeast ==
  ASSUME DownAssumption, WithinHalf, TableInv, TimesInv, ~IdleEntry(Victim)
  PROVE  \A d \in 1 .. LastEntry : ~IdleEntry(d) /\ downLast[Victim] <= downLast[d]
<1> DEFINE B == {p \in Movable \X Movable : LosesLess(p[1], p[2])}
           key == [d \in Movable |-> IF IdleEntry(d) THEN -1 ELSE downLast[d]]
           e == Victim
<1>1. e = FirstBest(LastEntry, Movable, B)
  BY DEF Victim
<1>2. /\ Movable \in SUBSET (1 .. LastEntry) /\ Movable # {} /\ LastEntry \in Nat
      /\ Movable = 1 .. LastEntry /\ Movable \subseteq Entries
  BY Given
<1>3. /\ downLast \in [Entries -> Moments] /\ now \in Start .. Horizon
      /\ Start \in Nat /\ Horizon \in Nat
  BY FromInv, Given DEF Moments, TimesInv
<1>4. ASSUME NEW d \in Movable
      PROVE  /\ key[d] = IF IdleEntry(d) THEN -1 ELSE downLast[d]
             /\ ~IdleEntry(d) => downLast[d] \in Start .. Horizon /\ downLast[d] \in Nat
             /\ key[d] \in Int
  <2>1. ~IdleEntry(d) => downLast[d] \in Start .. now
    BY <1>2 DEF IdleEntry, TimesInv
  <2>2. downLast[d] \in Nat
    BY <1>2, <1>3 DEF Moments
  <2>3. QED
    BY <1>3, <2>1, <2>2
<1>5. key \in [Movable -> Int]
  <2>1. \A d \in Movable : key[d] \in Int
    BY <1>4
  <2>2. QED
    BY <2>1
<1> HIDE DEF key
<1>6. ASSUME NEW i \in Movable, NEW j \in Movable
      PROVE  /\ key[i] < key[j] => LosesLess(i, j)
             /\ LosesLess(i, j) => key[i] <= key[j]
  <2>1. ~IdleEntry(i) /\ ~IdleEntry(j) =>
          (Before(downLast[i], downLast[j]) <=> downLast[i] < downLast[j])
    BY <1>4, BeforeIs
  <2> DEFINE iIdle == IdleEntry(i)
             jIdle == IdleEntry(j)
  <2>2. LosesLess(i, j) <=> \/ iIdle /\ ~jIdle
                            \/ (iIdle <=> jIdle) /\ Before(downLast[i], downLast[j])
    BY DEF LosesLess, IdleEntry
  <2>3. /\ key[i] = (IF iIdle THEN -1 ELSE downLast[i]) /\ key[j] = (IF jIdle THEN -1 ELSE downLast[j])
        /\ ~iIdle => downLast[i] \in Nat
        /\ ~jIdle => downLast[j] \in Nat
    BY <1>4
  <2> HIDE DEF iIdle, jIdle
  <2>4. ~iIdle /\ ~jIdle => (Before(downLast[i], downLast[j]) <=> downLast[i] < downLast[j])
    BY <2>1 DEF iIdle, jIdle
  <2>5. QED
    BY <2>2, <2>3, <2>4
<1>7. \A i, j \in Movable : /\ key[i] < key[j] => <<i, j>> \in B
                            /\ <<i, j>> \in B => key[i] <= key[j]
  BY <1>6
<1> HIDE DEF B
<1>8. \A j \in Movable : key[e] <= key[j]
  <2> HIDE DEF e
  <2>1. \A j \in Movable : key[FirstBest(LastEntry, Movable, B)] <= key[j]
    BY <1>2, <1>5, <1>7, FirstBestIsBest
  <2>2. QED
    BY <1>1, <2>1, Zenon
<1>9. e \in Movable
  <2> HIDE DEF e
  <2>1. QED
    BY <1>1, <1>2, FirstBestPicks
<1>10. ASSUME NEW d \in Movable
       PROVE  ~IdleEntry(d) /\ downLast[e] <= downLast[d]
  <2>1. key[e] = downLast[e] /\ downLast[e] \in Nat /\ key[e] <= key[d]
    BY <1>4, <1>8, <1>9
  <2>2. key[d] = IF IdleEntry(d) THEN -1 ELSE downLast[d]
    BY <1>4
  <2>3. QED
    BY <2>1, <2>2
<1>11. QED
  BY <1>2, <1>10

(* The slot a new frame takes from another: the entry is full and the other  *)
(* is the oldest in it.                                                      *)
LEMMA SlotInIsOldest ==
  ASSUME DownAssumption, WithinHalf, TableInv, TimesInv, NEW e \in Entries,
         slot[e][SlotIn(slot[e])].hash # NoFrame
  PROVE  \A i \in Slots : /\ slot[e][i].hash # NoFrame
                          /\ slot[e][SlotIn(slot[e])].arrived <= slot[e][i].arrived
<1> DEFINE row == slot[e]
           empty == {j \in Slots : row[j].hash = NoFrame}
           B == {p \in Slots \X Slots : Before(row[p[1]].arrived, row[p[2]].arrived)}
           key == [j \in Slots |-> row[j].arrived]
           k == SlotIn(row)
<1>1. k = IF empty # {} THEN Least(empty) ELSE FirstBest(Depth, Slots, B)
  BY DEF SlotIn
<1>2. empty = {}
  <2>1. empty \subseteq Nat /\ \A j \in empty : row[j].hash = NoFrame
    BY DEF Slots
  <2> HIDE DEF empty
  <2>2. empty # {} => k \in empty
    BY <1>1, <2>1, LeastIsOne
  <2>3. QED
    BY <2>1, <2>2
<1>3. \A j \in Slots : row[j].hash # NoFrame
  BY <1>2
<1>4. Slots \in SUBSET (1 .. Depth) /\ Slots # {} /\ Depth \in Nat
  BY Given DEF Slots
<1>5. \A j \in Slots : row[j].arrived \in Start .. Horizon
  <2>1. now <= Horizon /\ now \in Nat /\ Horizon \in Nat /\ Start \in Nat
    BY FromInv, Given DEF Moments
  <2>2. \A j \in Slots : row[j].arrived \in Start .. now
    BY <1>3 DEF TimesInv
  <2>3. QED
    BY <2>1, <2>2
<1>6. key \in [Slots -> Int] /\ \A j \in Slots : key[j] = row[j].arrived
  BY <1>5
<1>7. ASSUME NEW i \in Slots, NEW j \in Slots
      PROVE  <<i, j>> \in B <=> key[i] < key[j]
  <2>1. Before(row[i].arrived, row[j].arrived) <=> row[i].arrived < row[j].arrived
    BY <1>5, BeforeIs
  <2>2. QED
    BY <1>6, <2>1
<1>8. \A i, j \in Slots : /\ key[i] < key[j] => <<i, j>> \in B
                          /\ <<i, j>> \in B => key[i] <= key[j]
  <2> SUFFICES ASSUME NEW i \in Slots, NEW j \in Slots
               PROVE  /\ key[i] < key[j] => <<i, j>> \in B
                      /\ <<i, j>> \in B => key[i] <= key[j]
    OBVIOUS
  <2>1. <<i, j>> \in B <=> key[i] < key[j]
    BY <1>7
  <2>2. key[i] \in Int /\ key[j] \in Int
    BY <1>6
  <2> HIDE DEF B, key
  <2>3. QED
    BY <2>1, <2>2
<1> HIDE DEF empty, B, key, k, row
<1>9. k = FirstBest(Depth, Slots, B)
  BY <1>1, <1>2
<1>10. \A j \in Slots : key[k] <= key[j]
  <2>1. \A j \in Slots : key[FirstBest(Depth, Slots, B)] <= key[j]
    BY <1>4, <1>6, <1>8, FirstBestIsBest
  <2>2. QED
    BY <1>9, <2>1, Zenon
<1>11. k \in Slots
  BY SlotInIs DEF k
<1>12. QED
  BY <1>3, <1>6, <1>10, <1>11 DEF row, k

(* The five reasons for which a frame leaves the slot j of entry e. *)
GoodReason(e, j) ==
  \/ \E c \in Locals : local[c] = BUFFER_NONE /\ local'[c] = slot[e][j].frame
  \/ TtlOf(e) # 0 /\ now - slot[e][j].arrived >= TtlOf(e)
  \/ /\ station'[e] = station[e]
     /\ \A i \in Slots : /\ slot[e][i].hash # NoFrame
                        /\ slot[e][j].arrived <= slot[e][i].arrived
  \/ /\ station'[e] # station[e] /\ Unused = {}
     /\ \A d \in 1 .. LastEntry : ~IdleEntry(d) /\ downLast[e] <= downLast[d]
  \/ count' = 1 /\ \A d \in Entries, i \in Slots : slot'[d][i] = Cleared

Leaves(e, j) == slot[e][j].frame # BUFFER_NONE /\ slot'[e][j].frame # slot[e][j].frame

(* The property, slot by slot.                                               *)
LEMMA ReasonsAreAll ==
  (\A e \in Entries, j \in Slots : Leaves(e, j) => GoodReason(e, j)) => FrameHeldUntil
BY DEF Leaves, GoodReason, FrameHeldUntil

(* A frame whose entry is given to another station. *)
LEMMA EvictedForGood ==
  ASSUME DownAssumption, WithinHalf, TableInv, TimesInv, NEW s \in Stations \union {Broadcast},
         Evicts(s), Obtain(s), NEW j \in Slots, slot[EntryOf(s)][j].frame # BUFFER_NONE
  PROVE  GoodReason(EntryOf(s), j)
<1> DEFINE e == EntryOf(s)
<1>1. e \in Entries /\ station[e] # s /\ Unused = {} /\ e = Victim
  BY EntryIs DEF Evicts, EntryOf
<1>2. station'[e] = s
  <2>1. station' = [station EXCEPT ![e] = s] /\ station \in [Entries -> Stations \union {0, Broadcast}]
    BY ObtainKeeps, FromInv DEF Memory
  <2>2. QED
    BY <1>1, <2>1
<1>3. ~IdleEntry(Victim)
  BY <1>1 DEF IdleEntry
<1>4. \A d \in 1 .. LastEntry : ~IdleEntry(d) /\ downLast[e] <= downLast[d]
  BY <1>1, <1>3, VictimIsLeast
<1>5. QED
  BY <1>1, <1>2, <1>4 DEF GoodReason

(* A new frame pushes out the oldest of a full entry, or a station.          *)
LEMMA OfferForGood ==
  ASSUME DownAssumption, WithinHalf, TableInv, TimesInv, NEW f \in Frames,
         NEW h \in Handles \union {BUFFER_NONE}, Offer(f, h),
         NEW e \in Entries, NEW j \in Slots, Leaves(e, j)
  PROVE  GoodReason(e, j)
<1> DEFINE s == f.to
<1>1. s \in Stations \union {Broadcast} /\ Obtain(s)
  BY Given DEF Offer
<1>2. e = EntryOf(s)
  BY OfferedSlots DEF Leaves
<1>3. CASE Evicts(s)
  BY <1>1, <1>2, <1>3, EvictedForGood DEF Leaves
<1>4. CASE ~Evicts(s)
  <2>1. RowOf(s) = slot[e]
    BY <1>1, <1>2, <1>4, ObtainedRow
  <2>2. j = SlotIn(slot[e])
    BY <1>2, <2>1, OfferedSlots DEF Leaves
  <2>3. slot[e][j].hash # NoFrame
    BY DEF Leaves, TimesInv
  <2>4. \A i \in Slots : /\ slot[e][i].hash # NoFrame
                        /\ slot[e][j].arrived <= slot[e][i].arrived
    BY <2>2, <2>3, SlotInIsOldest
  <2>5. station[e] = s
    <3>1. station[e] # 0
      BY <2>3, UnusedForgets
    <3>2. QED
      BY <1>1, <1>2, <1>4, <3>1, EntryIs
  <2>6. station'[e] = s
    <3>1. station' = [station EXCEPT ![e] = s] /\ station \in [Entries -> Stations \union {0, Broadcast}]
      BY <1>1, <1>2, ObtainKeeps, FromInv DEF Memory
    <3>2. QED
      BY <3>1
  <2>7. QED
    BY <2>4, <2>5, <2>6 DEF GoodReason
<1>5. QED
  BY <1>3, <1>4

(* A window takes the frame it hands over, or pushes out a station.          *)
LEMMA WindowForGood ==
  ASSUME DownAssumption, WithinHalf, TableInv, TimesInv, NEW s \in Stations,
         NEW rx \in Adverts, NEW c \in Locals, Window(s, rx, c),
         NEW e \in Entries, NEW j \in Slots, Leaves(e, j)
  PROVE  GoodReason(e, j)
<1>1. s \in Stations \union {Broadcast} /\ Obtain(s)
  BY DEF Window
<1>2. e = EntryOf(s)
  BY WindowSlots DEF Leaves
<1>3. CASE Evicts(s)
  BY <1>1, <1>2, <1>3, EvictedForGood DEF Leaves
<1>4. CASE ~Evicts(s)
  <2>1. RowOf(s) = slot[e]
    BY <1>1, <1>2, <1>4, ObtainedRow
  <2>2. local[c] = BUFFER_NONE /\ local'[c] = slot[e][j].frame
    BY <1>2, <2>1, WindowSlots DEF Leaves
  <2>3. QED
    BY <2>2 DEF GoodReason
<1>5. QED
  BY <1>3, <1>4

(* The tick releases what is truly that old: the clock shows no more time    *)
(* than has gone.                                                            *)
LEMMA TickForGood ==
  ASSUME DownAssumption, TableInv, TimesInv, Tick,
         NEW e \in Entries, NEW j \in Slots, Leaves(e, j)
  PROVE  GoodReason(e, j)
<1>1. slot' = [d \in Entries |-> [i \in Slots |->
                IF <<d, i>> \in {p \in Entries \X Slots : Used(p[1]) /\ Expired(p[1], p[2])}
                  THEN Cleared ELSE slot[d][i]]]
  BY DEF Tick
<1>2. Expired(e, j)
  BY <1>1 DEF Leaves
<1> DEFINE ttl == TtlOf(e)
           age == now - slot[e][j].arrived
<1>3. slot[e][j].hash # NoFrame /\ ttl # 0 /\ age % Wrap >= ttl
  BY <1>2 DEF Expired, Older
<1>4. age \in Nat /\ Wrap \in Nat /\ Wrap >= 2
  <2>1. slot[e][j].arrived \in Start .. now /\ now \in Nat /\ Start \in Nat
    BY <1>3, FromInv, Given DEF TimesInv, Moments
  <2>2. QED
    BY <2>1, Given
<1>5. ttl \in Nat
  <2>1. PICK k \in 1 .. Wrap : Wrap = 2 * k
    BY DEF DownAssumption
  <2>2. Ttl \in Nat /\ TtlBcast \in Nat
    BY <2>1 DEF DownAssumption
  <2>3. QED
    BY <2>2 DEF TtlOf
<1> HIDE DEF ttl, age
<1>6. age % Wrap <= age
  BY <1>4
<1>7. age >= ttl
  <2>1. age % Wrap \in Nat
    BY <1>4
  <2>2. QED
    BY <1>3, <1>4, <1>5, <1>6, <2>1
<1>8. QED
  BY <1>3, <1>7 DEF GoodReason, ttl, age

(* Clearing clears all.                                                      *)
LEMMA ClearForGood ==
  ASSUME Clear, NEW e \in Entries, NEW j \in Slots
  PROVE  GoodReason(e, j)
BY DEF Clear, GoodReason

(* Whatever happens, a frame that leaves has its reason.                     *)
LEMMA NextForGood ==
  ASSUME DownAssumption, WithinHalf, TableInv, TimesInv, [Next]_vars
  PROVE  FrameHeldUntil
<1> SUFFICES ASSUME NEW e \in Entries, NEW j \in Slots, Leaves(e, j)
             PROVE  GoodReason(e, j)
  BY ReasonsAreAll
<1>1. slot' # slot
  BY DEF Leaves
<1>2. CASE \E f \in Frames : Arrive(f)
  <2>1. PICK f \in Frames : Arrive(f)
    BY <1>2
  <2>2. \E h \in Handles \union {BUFFER_NONE} : Offer(f, h)
    BY <2>1, FromInv DEF Arrive
  <2>3. QED
    BY <2>2, OfferForGood
<1>3. CASE \E s \in Stations, rx \in Adverts, c \in Locals : Window(s, rx, c)
  BY <1>3, WindowForGood
<1>4. CASE Tick
  BY <1>4, TickForGood
<1>5. CASE Clear
  BY <1>5, ClearForGood
<1>6. ~(\E c \in Locals : Unref(c) \/ \E f \in Frames : Receive(c, f)) /\ ~Clock
      /\ ~UNCHANGED vars
  BY <1>1 DEF Unref, Receive, Clock, table, vars
<1>7. QED
  BY <1>2, <1>3, <1>4, <1>5, <1>6 DEF Next

(* A frame leaves the slot it is held in only because it was handed over, is *)
(* truly as old as its time to live, was the oldest of a full entry, was of  *)
(* the station longest without a down in a full table of busy entries, or    *)
(* the whole table was cleared: wherever the clock stands at the start, and  *)
(* until half its period has gone.                                           *)
THEOREM FramesAreHeld ==
  ASSUME DownAssumption, WithinHalf
  PROVE  Spec => HeldUntil
<1>1. Init => TableInv /\ TimesInv
  BY TableInit, TimesStart
<1>2. TableInv /\ TimesInv /\ [Next]_vars => (TableInv /\ TimesInv)'
  BY NextKeeps, TimesKept
<1>3. TableInv /\ TimesInv /\ [Next]_vars => [FrameHeldUntil]_vars
  BY NextForGood
<1>4. QED
  BY <1>1, <1>2, <1>3, PTL DEF Spec, HeldUntil

-----------------------------------------------------------------------------
(* Which frame a window is answered with.  The record of what a station was  *)
(* given is kept with its entry and is a ring, so an evicted station's, or a *)
(* record written over, would be forgotten: that the answers are right rests *)
(* on an entry for every station and a record for every broadcast.  Windows  *)
(* are announced within one period of the clock.                             *)
Bcast == {f \in Frames : f.to = Broadcast}

Roomy ==
  /\ IsFiniteSet(Stations) /\ Cardinality(Stations) <= LastEntry
  /\ IsFiniteSet(Bcast) /\ Cardinality(Bcast) <= SentDepth
  /\ \A rx \in Adverts : rx.delay < Wrap /\ rx.window + rx.delay <= Wrap

(* Long enough ago, at t, to be given again; and so given, or never.         *)
Due(t, at)  == Repeat # 0 /\ t - at >= Repeat
Again(t, g) == g = -1 \/ Due(t, g)

Marks(r, f) == {k \in 1 .. SentDepth : r[k].hash = f}

(* The first record of a frame tells when it was given, or has been written  *)
(* over or blanked when that was long enough ago; the others are leftovers.  *)
Tells(t, r, f, g) ==
  /\ \A k \in Marks(r, f) :
       IF \A i \in Marks(r, f) : k <= i
         THEN r[k].at = g \/ (Due(t, r[k].at) /\ Again(t, g))
         ELSE Due(t, r[k].at)
  /\ Marks(r, f) = {} => Again(t, g)

(* The records r of a station that was given what gv says. *)
RowTells(t, r, gv) ==
  /\ \A k \in 1 .. SentDepth :
       r[k].hash # NoFrame => r[k].hash \in Bcast /\ r[k].at \in Start .. t
  /\ \A f \in Bcast : Tells(t, r, f, gv[f])

Blank(r) == \A k \in 1 .. SentDepth : r[k].hash = NoFrame

(* What the records say at a moment t, of the stations st with windows win,   *)
(* when the history is gv: nothing of an entry not in use, of another what   *)
(* its station was given; and a station without an entry, or whose window    *)
(* was never seen, was given nothing.                                        *)
Remembers(t, st, r, win, gv) ==
  /\ \A e \in Movable : st[e] = 0 => Blank(r[e])
  /\ \A e \in Movable : st[e] # 0 => RowTells(t, r[e], gv[st[e]])
  /\ \A e \in Movable : st[e] # 0 /\ ~win[e].seen => gv[st[e]] = Never
  /\ \A s \in Stations : (\A e \in Movable : st[e] # s) => gv[s] = Never
  /\ \A s \in Stations, f \in Frames : gv[s][f] \in {-1} \union (Start .. t)

SentInv == Remembers(now, station, sent, window, given)

(* What a roomy table adds to the constants. *)
LEMMA Roominess ==
  ASSUME DownAssumption, Roomy
  PROVE  /\ Repeat \in Nat /\ Wrap \div 2 < Wrap /\ Start \in Nat /\ Horizon \in Nat
         /\ \A f \in Bcast : f \in Frames /\ f # NoFrame /\ f.to = Broadcast
<1>1. PICK k \in 1 .. Wrap : Wrap = 2 * k
  BY DEF DownAssumption
<1>2. Wrap \div 2 < Wrap
  BY <1>1, Given
<1>3. Repeat \in Nat
  BY <1>1 DEF DownAssumption
<1>4. QED
  BY <1>2, <1>3, Given DEF Bcast, Moments

(* One station and no broadcast have room, ...                               *)
LEMMA RoomForOne ==
  ASSUME DownAssumption, NEW s, Stations = {s}, Bcast = {},
         \A rx \in Adverts : rx.delay < Wrap /\ rx.window + rx.delay <= Wrap
  PROVE  Roomy
<1>1. IsFiniteSet({s}) /\ Cardinality({s}) = 1 /\ IsFiniteSet({}) /\ Cardinality({}) = 0
  BY FS_Singleton, FS_EmptySet
<1>2. /\ IsFiniteSet(Stations) /\ Cardinality(Stations) = 1
      /\ IsFiniteSet(Bcast) /\ Cardinality(Bcast) = 0
  BY <1>1, Zenon
<1>3. QED
  BY <1>2, Given DEF Roomy

(* ... and so have two broadcasts when there are two records.                *)
LEMMA RoomForTwo ==
  ASSUME DownAssumption, NEW s, Stations = {s}, NEW a, NEW b, Bcast \subseteq {a, b},
         SentDepth >= 2,
         \A rx \in Adverts : rx.delay < Wrap /\ rx.window + rx.delay <= Wrap
  PROVE  Roomy
<1>1. /\ IsFiniteSet({s}) /\ Cardinality({s}) = 1
      /\ IsFiniteSet({a}) /\ Cardinality({a}) = 1
  BY FS_Singleton
<1> DEFINE T == {a} \union {b}
<1>2. IsFiniteSet(T) /\ Cardinality(T) = IF b \in {a} THEN 1 ELSE 1 + 1
  <2>1. /\ IsFiniteSet(T)
        /\ Cardinality(T) = IF b \in {a} THEN Cardinality({a}) ELSE Cardinality({a}) + 1
    BY <1>1, FS_AddElement
  <2> HIDE DEF T
  <2>2. QED
    BY <1>1, <2>1
<1>3. Bcast \subseteq T
  OBVIOUS
<1> HIDE DEF T
<1>4. IsFiniteSet(Bcast) /\ Cardinality(Bcast) <= Cardinality(T) /\ Cardinality(Bcast) \in Nat
  BY <1>2, <1>3, FS_Subset, FS_CardinalityType
<1>5. IsFiniteSet(Stations) /\ Cardinality(Stations) = 1
  BY <1>1, Zenon
<1>6. QED
  BY <1>2, <1>4, <1>5, Given DEF Roomy

(* The age the clock shows is the true one. *)
LEMMA OlderIs ==
  ASSUME DownAssumption, Roomy, WithinHalf, TableInv, NEW at \in Start .. now
  PROVE  Older(at, Repeat) <=> Due(now, at)
<1>1. now \in 0 .. Horizon /\ Start \in Nat /\ Horizon \in Nat /\ Wrap \in Nat
      /\ Wrap \div 2 < Wrap /\ Wrap \div 2 \in Nat
  BY FromInv, Given, Roominess DEF Moments
<1>2. now - at \in 0 .. Wrap - 1
  BY <1>1 DEF WithinHalf
<1>3. (now - at) % Wrap = now - at
  BY <1>1, <1>2
<1>4. QED
  BY <1>3 DEF Older, Due

(* What is due stays due. *)
LEMMA DueLater ==
  ASSUME DownAssumption, Roomy, NEW t \in Nat, NEW u \in Nat, t <= u, NEW at \in Int, Due(t, at)
  PROVE  Due(u, at)
BY Roominess DEF Due

(* So records that tell at one moment do at a later. *)
LEMMA RowTellsLater ==
  ASSUME DownAssumption, Roomy, NEW t \in Nat, NEW u \in Nat, t <= u, NEW r, NEW gv,
         RowTells(t, r, gv), \A f \in Frames : gv[f] \in {-1} \union (Start .. t)
  PROVE  RowTells(u, r, gv)
<1>1. ASSUME NEW k \in 1 .. SentDepth, r[k].hash # NoFrame
      PROVE  r[k].hash \in Bcast /\ r[k].at \in Start .. u /\ r[k].at \in Int
  <2>1. r[k].hash \in Bcast /\ r[k].at \in Start .. t
    BY <1>1 DEF RowTells
  <2>2. QED
    BY <2>1, Roominess
<1>2. ASSUME NEW f \in Bcast
      PROVE  Tells(u, r, f, gv[f])
  <2>1. Tells(t, r, f, gv[f])
    BY <1>2 DEF RowTells
  <2>2. gv[f] \in Int
    BY Roominess DEF Bcast
  <2>3. Again(t, gv[f]) => Again(u, gv[f])
    BY <2>2, DueLater DEF Again
  <2>4. \A k \in Marks(r, f) : Due(t, r[k].at) => Due(u, r[k].at)
    <3> SUFFICES ASSUME NEW k \in Marks(r, f), Due(t, r[k].at) PROVE Due(u, r[k].at)
      OBVIOUS
    <3>1. r[k].at \in Int
      BY <1>1, Roominess DEF Marks
    <3>2. QED
      BY <3>1, DueLater
  <2>5. QED
    BY <2>1, <2>3, <2>4 DEF Tells
<1>3. QED
  BY <1>1, <1>2 DEF RowTells

(* A table with an entry for every station evicts none. *)
LEMMA NoEviction ==
  ASSUME DownAssumption, Roomy, TableInv, NEW s \in Stations \union {Broadcast}
  PROVE  ~Evicts(s)
<1> SUFFICES ASSUME Evicts(s) PROVE FALSE
  OBVIOUS
<1>1. s # Broadcast /\ \A e \in Movable : station[e] # s /\ station[e] # 0
  BY Given DEF Evicts, Found, Unused, Movable
<1>2. /\ station \in [Entries -> Stations \union {0, Broadcast}] /\ station[0] = Broadcast
      /\ \A d, e \in Entries : station[d] # 0 /\ station[d] = station[e] => d = e
  BY FromInv DEF Memory
<1>3. Movable \subseteq Entries /\ 0 \in Entries /\ 0 \notin Movable
  BY Given
<1> DEFINE T == Stations \ {s}
           g == [e \in Movable |-> station[e]]
<1>4. g \in [Movable -> T]
  <2>1. \A e \in Movable : station[e] \in Stations \union {0, Broadcast} /\ station[e] # Broadcast
    BY <1>2, <1>3, Given
  <2>2. QED
    BY <1>1, <2>1
<1>5. IsFiniteSet(Movable) /\ Cardinality(Movable) = LastEntry
  <2>1. LastEntry \in Nat /\ Movable = 1 .. LastEntry /\ LastEntry >= 1
    BY Given
  <2>2. IsFiniteSet(1 .. LastEntry) /\ Cardinality(1 .. LastEntry) = LastEntry - 1 + 1
    BY <2>1, FS_Interval
  <2>3. QED
    BY <2>1, <2>2
<1>6. IsFiniteSet(T) /\ Cardinality(T) < Cardinality(Movable)
  <2>1. s \in Stations /\ IsFiniteSet(Stations) /\ Cardinality(Stations) <= LastEntry
    BY <1>1 DEF Roomy
  <2>2. IsFiniteSet(T) /\ Cardinality(T) = Cardinality(Stations) - 1
    BY <2>1, FS_RemoveElement
  <2>3. Cardinality(Stations) \in Nat
    BY <2>1, FS_CardinalityType
  <2>4. QED
    BY <1>5, <2>1, <2>2, <2>3, Given
<1>7. \A d, e \in Movable : g[d] = g[e] => d = e
  BY <1>1, <1>2, <1>3
<1> HIDE DEF T, g
<1>8. \E d, e \in Movable : d # e /\ g[d] = g[e]
  BY <1>4, <1>5, <1>6, FS_PigeonHole
<1>9. QED
  BY <1>7, <1>8

(* Whether a frame was sent lately, by its first record, is what the history *)
(* says of it; when it was not, every record of it is due.                   *)
LEMMA SentRecentlyIs ==
  ASSUME DownAssumption, Roomy, WithinHalf, TableInv, NEW e, NEW gv,
         RowTells(now, sent[e], gv), NEW f \in Bcast, gv[f] \in {-1} \union (Start .. now)
  PROVE  /\ SentRecently(e, f) <=> ~Again(now, gv[f])
         /\ ~SentRecently(e, f) => \A k \in Marks(sent[e], f) : Due(now, sent[e][k].at)
<1> DEFINE r == sent[e]
           K == Marks(r, f)
<1>1. SentRecently(e, f) <=> K # {} /\ ~Older(r[Least(K)].at, Repeat)
  BY DEF SentRecently, Marks
<1>2. Tells(now, r, f, gv[f])
  BY DEF RowTells
<1>3. K \subseteq Nat /\ \A k \in K : k \in 1 .. SentDepth /\ r[k].hash = f /\ f # NoFrame
  BY Roominess DEF Marks
<1>4. \A k \in K : r[k].at \in Start .. now
  BY <1>3 DEF RowTells
<1>5. CASE K = {}
  BY <1>1, <1>2, <1>5 DEF Tells
<1>6. CASE K # {}
  <2> DEFINE k == Least(K)
  <2>1. k \in K /\ \A i \in K : k <= i
    <3> HIDE DEF K
    <3>1. QED
      BY <1>3, <1>6, LeastNatural DEF Least
  <2>2. Older(r[k].at, Repeat) <=> Due(now, r[k].at)
    BY <1>4, <2>1, OlderIs
  <2>3. r[k].at = gv[f] \/ (Due(now, r[k].at) /\ Again(now, gv[f]))
    BY <1>2, <2>1 DEF Tells
  <2>4. \A i \in K : i # k => Due(now, r[i].at)
    <3> SUFFICES ASSUME NEW i \in K, i # k PROVE Due(now, r[i].at)
      OBVIOUS
    <3>1. ~(\A j \in K : i <= j)
      BY <1>3, <2>1
    <3>2. QED
      BY <1>2, <3>1 DEF Tells
  <2>5. r[k].at # -1
    BY <1>4, <2>1, Roominess
  <2>6. SentRecently(e, f) <=> ~Due(now, r[k].at)
    BY <1>1, <1>6, <2>2
  <2> HIDE DEF K, k, r
  <2>7. Due(now, r[k].at) <=> Again(now, gv[f])
    BY <2>3, <2>5 DEF Again
  <2>8. ~SentRecently(e, f) => \A i \in K : Due(now, r[i].at)
    BY <2>4, <2>6
  <2>9. QED
    BY <2>6, <2>7, <2>8 DEF K, r
<1>7. QED
  BY <1>5, <1>6

(* The records lose some that are due: the others still tell. *)
LEMMA TellsLess ==
  ASSUME NEW t, NEW r, NEW u, NEW f, NEW g, Tells(t, r, f, g),
         \A k \in Marks(u, f) : k \in Marks(r, f) /\ u[k].at = r[k].at,
         \A k \in Marks(r, f) : k \in Marks(u, f) \/ Due(t, r[k].at)
  PROVE  Tells(t, u, f, g)
<1> DEFINE K == Marks(r, f)
           M == Marks(u, f)
<1>1. CASE K = {}
  BY <1>1 DEF Tells
<1>2. CASE K # {}
  <2>1. K \subseteq Nat
    BY DEF Marks
  <2> HIDE DEF K, M
  <2>2. PICK k \in K : \A i \in K : k <= i
    BY <1>2, <2>1, LeastNatural
  <2>3. \A i \in K : i # k => Due(t, r[i].at)
    <3> SUFFICES ASSUME NEW i \in K, i # k PROVE Due(t, r[i].at)
      OBVIOUS
    <3>1. ~(i <= k)
      BY <2>1, <2>2
    <3>2. ~(\A j \in K : i <= j)
      BY <2>2, <3>1
    <3>3. QED
      BY <3>2 DEF Tells, K
  <2>4. r[k].at = g \/ (Due(t, r[k].at) /\ Again(t, g))
    BY <2>2 DEF Tells, K
  <2>5. M \subseteq K /\ (\A i \in M : u[i].at = r[i].at) /\ (\A i \in K : i \in M \/ Due(t, r[i].at))
    BY DEF K, M
  <2>6. CASE k \in M
    <3>1. \A i \in M : (\A j \in M : i <= j) <=> i = k
      BY <2>1, <2>2, <2>5, <2>6
    <3>2. \A i \in M : IF \A j \in M : i <= j
                         THEN u[i].at = g \/ (Due(t, u[i].at) /\ Again(t, g))
                         ELSE Due(t, u[i].at)
      BY <2>3, <2>4, <2>5, <3>1
    <3>3. QED
      BY <2>6, <3>2 DEF Tells, M
  <2>7. CASE k \notin M
    <3>1. Due(t, r[k].at)
      BY <2>2, <2>5, <2>7
    <3>2. Again(t, g)
      BY <2>4, <3>1 DEF Again
    <3>3. \A i \in M : Due(t, u[i].at)
      BY <2>3, <2>5, <2>7
    <3>4. QED
      BY <3>2, <3>3 DEF Tells, M
  <2>8. QED
    BY <2>6, <2>7
<1>3. QED
  BY <1>1, <1>2

(* The record for a frame that was not sent lately: one before all others of *)
(* that frame, empty or of it; or, when there is none of either, one that is *)
(* due, for the records are more than the other frames.                      *)
LEMMA RecordIs ==
  ASSUME DownAssumption, Roomy, WithinHalf, TableInv, TimesInv, NEW e, NEW gv,
         RowTells(now, sent[e], gv), NEW f \in Bcast
  PROVE  /\ RecordFor(e, f) \in 1 .. SentDepth
         /\ \/ /\ sent[e][RecordFor(e, f)].hash \in {f, NoFrame}
               /\ \A i \in Marks(sent[e], f) : RecordFor(e, f) <= i
            \/ Marks(sent[e], f) = {} /\ Due(now, sent[e][RecordFor(e, f)].at)
<1> DEFINE r == sent[e]
           K == 1 .. SentDepth
           k == RecordFor(e, f)
           free == {i \in K : r[i].hash \in {f, NoFrame}}
           B == {p \in K \X K : Before(r[p[1]].at, r[p[2]].at)}
           key == [i \in K |-> r[i].at]
<1>1. k = IF free # {} THEN Least(free) ELSE FirstBest(SentDepth, K, B)
  BY DEF RecordFor
<1>2. /\ SentDepth \in Nat /\ SentDepth >= 1 /\ now \in Start .. Horizon
      /\ Start \in Nat /\ Horizon \in Nat
  BY FromInv, Given DEF Moments, TimesInv
<1>3. free \subseteq K /\ K \subseteq Nat /\ Marks(r, f) \subseteq free
      /\ \A i \in free : r[i].hash \in {f, NoFrame}
  BY DEF Marks
<1>4. CASE free # {}
  <2> HIDE DEF free, k, r
  <2>1. k \in free /\ \A i \in free : k <= i
    BY <1>1, <1>3, <1>4, LeastNatural DEF Least
  <2>2. QED
    BY <1>3, <2>1 DEF k, r
<1>5. CASE free = {}
  <2>1. Marks(r, f) = {}
    BY <1>3, <1>5
  <2>2. \A i \in K : /\ r[i].hash \in Bcast \ {f} /\ r[i].at \in Start .. Horizon
                     /\ r[i].at \in Int
    <3> SUFFICES ASSUME NEW i \in K
                 PROVE  /\ r[i].hash \in Bcast \ {f} /\ r[i].at \in Start .. Horizon
                        /\ r[i].at \in Int
      OBVIOUS
    <3>1. r[i].hash # f /\ r[i].hash # NoFrame
      BY <1>5
    <3>2. r[i].hash \in Bcast /\ r[i].at \in Start .. now
      BY <3>1 DEF RowTells
    <3>3. QED
      BY <1>2, <3>1, <3>2
  <2>3. PICK i \in K, j \in K : i # j /\ r[i].hash = r[j].hash
    <3> DEFINE T == Bcast \ {f}
               g == [i \in K |-> r[i].hash]
    <3>1. g \in [K -> T]
      BY <2>2
    <3>2. IsFiniteSet(K) /\ Cardinality(K) = SentDepth
      <4>1. IsFiniteSet(1 .. SentDepth) /\ Cardinality(1 .. SentDepth) = SentDepth - 1 + 1
        BY <1>2, FS_Interval
      <4>2. QED
        BY <1>2, <4>1
    <3>3. IsFiniteSet(T) /\ Cardinality(T) < Cardinality(K)
      <4>1. IsFiniteSet(Bcast) /\ Cardinality(Bcast) <= SentDepth /\ Cardinality(Bcast) \in Nat
        BY FS_CardinalityType DEF Roomy
      <4>2. IsFiniteSet(T) /\ Cardinality(T) = Cardinality(Bcast) - 1
        BY <4>1, FS_RemoveElement
      <4> HIDE DEF T, K
      <4>3. QED
        BY <1>2, <3>2, <4>1, <4>2
    <3>4. \A i \in K : g[i] = r[i].hash
      OBVIOUS
    <3> HIDE DEF T, K, g
    <3>5. \E i, j \in K : i # j /\ g[i] = g[j]
      BY <3>1, <3>2, <3>3, FS_PigeonHole
    <3>6. QED
      BY <3>4, <3>5
  <2>4. \E m \in K : Due(now, r[m].at)
    <3> DEFINE h == r[i].hash
    <3>1. h \in Bcast /\ i \in Marks(r, h) /\ j \in Marks(r, h) /\ (~(i <= j) \/ ~(j <= i))
      BY <1>2, <2>2, <2>3 DEF Marks
    <3>2. Tells(now, r, h, gv[h])
      BY <3>1 DEF RowTells
    <3> HIDE DEF h
    <3>3. Due(now, r[i].at) \/ Due(now, r[j].at)
      BY <3>1, <3>2 DEF Tells
    <3>4. QED
      BY <3>3
  <2>5. PICK m \in K : Due(now, r[m].at)
    BY <2>4
  <2>6. K \in SUBSET (1 .. SentDepth) /\ K # {} /\ key \in [K -> Int]
        /\ \A a \in K : key[a] = r[a].at
    BY <1>2, <2>2
  <2>7. \A a, b \in K : /\ key[a] < key[b] => <<a, b>> \in B
                        /\ <<a, b>> \in B => key[a] <= key[b]
    <3> SUFFICES ASSUME NEW a \in K, NEW b \in K
                 PROVE  /\ key[a] < key[b] => <<a, b>> \in B
                        /\ <<a, b>> \in B => key[a] <= key[b]
      OBVIOUS
    <3>1. Before(r[a].at, r[b].at) <=> r[a].at < r[b].at
      BY <2>2, BeforeIs
    <3>2. <<a, b>> \in B <=> key[a] < key[b]
      BY <2>6, <3>1
    <3>3. key[a] \in Int /\ key[b] \in Int
      BY <2>6
    <3> HIDE DEF B, key
    <3>4. QED
      BY <3>2, <3>3
  <2>8. k = FirstBest(SentDepth, K, B)
    BY <1>1, <1>5
  <2> HIDE DEF B, key, k, r, free
  <2>9. k \in K
    BY <1>2, <2>6, <2>8, FirstBestPicks
  <2>10. key[k] <= key[m]
    <3>1. \A a \in K : key[FirstBest(SentDepth, K, B)] <= key[a]
      BY <1>2, <2>6, <2>7, FirstBestIsBest
    <3>2. QED
      BY <2>5, <2>8, <3>1, Zenon
  <2>11. r[k].at <= r[m].at /\ r[k].at \in Int /\ r[m].at \in Int
    BY <2>2, <2>5, <2>6, <2>9, <2>10
  <2>12. Due(now, r[k].at)
    BY <1>2, <2>5, <2>11, Roominess DEF Due
  <2>13. QED
    BY <2>1, <2>9, <2>12 DEF k, r
<1>6. QED
  BY <1>4, <1>5

(* A frame not given lately is given: its record says so, and no other's     *)
(* telling is lost.                                                          *)
LEMMA DeliverTells ==
  ASSUME DownAssumption, Roomy, WithinHalf, TableInv, TimesInv, NEW e \in Entries, NEW gv,
         gv \in [Frames -> {-1} \union (Start .. now)],
         RowTells(now, sent[e], gv), NEW f \in Bcast, ~SentRecently(e, f)
  PROVE  RowTells(now, [sent[e] EXCEPT ![RecordFor(e, f)] = [hash |-> f, at |-> now]],
                       [gv EXCEPT ![f] = now])
<1> DEFINE r == sent[e]
           k == RecordFor(e, f)
           rec == [hash |-> f, at |-> now]
           u == [r EXCEPT ![k] = rec]
           gw == [gv EXCEPT ![f] = now]
<1>1. /\ k \in 1 .. SentDepth
      /\ \/ r[k].hash \in {f, NoFrame} /\ \A i \in Marks(r, f) : k <= i
         \/ Marks(r, f) = {} /\ Due(now, r[k].at)
  BY RecordIs
<1>2. \A i \in Marks(r, f) : Due(now, r[i].at)
  <2>1. gv[f] \in {-1} \union (Start .. now)
    BY Roominess
  <2>2. QED
    BY <2>1, SentRecentlyIs
<1>3. r \in [1 .. SentDepth -> [hash : FrameOrNone, at : Moments]]
  BY FromInv
<1>4. now \in Start .. now
  BY FromInv, Given DEF TimesInv, Moments
<1>5. f \in Frames /\ f # NoFrame
  BY Roominess
<1>6. gw[f] = now /\ \A g \in Frames : g # f => gw[g] = gv[g]
  BY <1>5
<1>7. RowTells(now, r, gv)
  OBVIOUS
<1>8. rec.hash = f /\ rec.at = now
  OBVIOUS
<1> HIDE DEF r, k, rec
<1>9. \A i \in 1 .. SentDepth : u[i] = IF i = k THEN rec ELSE r[i]
  BY <1>1, <1>3
<1> HIDE DEF u, gw
<1>10. \A i \in 1 .. SentDepth :
         u[i].hash # NoFrame => u[i].hash \in Bcast /\ u[i].at \in Start .. now
  BY <1>4, <1>7, <1>8, <1>9 DEF RowTells
<1>11. Tells(now, u, f, gw[f])
  <2>1. Marks(u, f) = Marks(r, f) \union {k} /\ u[k].at = now
    BY <1>1, <1>8, <1>9 DEF Marks
  <2>2. \A i \in Marks(r, f) : k <= i /\ (i # k => Due(now, u[i].at))
    BY <1>1, <1>2, <1>9 DEF Marks
  <2>3. \A i \in Marks(u, f) : i # k => Due(now, u[i].at) /\ ~(i <= k)
    BY <1>1, <2>1, <2>2 DEF Marks
  <2>4. k \in Marks(u, f)
    BY <2>1
  <2>5. \A i \in Marks(u, f) : IF \A j \in Marks(u, f) : i <= j
                              THEN u[i].at = now ELSE Due(now, u[i].at)
    <3>1. \A i \in Marks(u, f) : k <= i
      BY <1>1, <2>1, <2>3 DEF Marks
    <3>2. QED
      BY <2>1, <2>3, <2>4, <3>1
  <2>6. QED
    BY <1>6, <2>4, <2>5 DEF Tells
<1>12. ASSUME NEW g \in Bcast, g # f
       PROVE  Tells(now, u, g, gw[g])
  <2>1. gw[g] = gv[g] /\ g # NoFrame
    BY <1>6, <1>12, Roominess
  <2>2. \A i \in Marks(u, g) : i \in Marks(r, g) /\ u[i].at = r[i].at
    BY <1>8, <1>9, <1>12 DEF Marks
  <2>3. \A i \in Marks(r, g) : i \in Marks(u, g) \/ Due(now, r[i].at)
    BY <1>1, <1>9, <1>12, <2>1 DEF Marks
  <2>4. Tells(now, r, g, gv[g])
    BY <1>7 DEF RowTells
  <2>5. QED
    BY <2>1, <2>2, <2>3, <2>4, TellsLess
<1>13. RowTells(now, u, gw)
  BY <1>10, <1>11, <1>12 DEF RowTells
<1>14. QED
  BY <1>13 DEF u, gw, r, k, rec

(* Blank records tell of a station that was given nothing, ... *)
LEMMA BlankTells ==
  ASSUME DownAssumption, Roomy, NEW t, NEW r, Blank(r)
  PROVE  RowTells(t, r, Never)
<1>1. \A f \in Bcast : Marks(r, f) = {} /\ Never[f] = -1
  BY Roominess DEF Marks, Blank, Never
<1>2. \A f \in Bcast : Tells(t, r, f, Never[f])
  BY <1>1 DEF Tells, Again
<1>3. QED
  BY <1>2 DEF RowTells, Blank

(* ... and all the records of such a station are due. *)
LEMMA NeverIsDue ==
  ASSUME DownAssumption, Roomy, NEW t, NEW r, RowTells(t, r, Never),
         NEW k \in 1 .. SentDepth, r[k].hash # NoFrame
  PROVE  Due(t, r[k].at)
<1> DEFINE f == r[k].hash
<1>1. f \in Bcast /\ r[k].at \in Start .. t /\ k \in Marks(r, f)
  BY DEF RowTells, Marks
<1>2. Never[f] = -1 /\ r[k].at # -1
  BY <1>1, Roominess DEF Never
<1>3. Tells(t, r, f, -1)
  BY <1>1, <1>2 DEF RowTells
<1> HIDE DEF f
<1>4. QED
  BY <1>1, <1>2, <1>3 DEF Tells

(* Time passes, and nothing else changes that the records are of. *)
LEMMA RemembersLater ==
  ASSUME DownAssumption, Roomy, NEW t \in Nat, NEW v \in Nat, t <= v, NEW st, NEW r,
         NEW win, NEW gv, st \in [Entries -> Stations \union {0, Broadcast}],
         st[0] = Broadcast, \A d, e \in Entries : st[d] # 0 /\ st[d] = st[e] => d = e,
         Remembers(t, st, r, win, gv)
  PROVE  Remembers(v, st, r, win, gv)
<1>1. \A s \in Stations, f \in Frames : gv[s][f] \in {-1} \union (Start .. t)
  BY DEF Remembers
<1>2. \A s \in Stations, f \in Frames : gv[s][f] \in {-1} \union (Start .. v)
  BY <1>1, Roominess
<1>3. ASSUME NEW e \in Movable, st[e] # 0
      PROVE  RowTells(v, r[e], gv[st[e]])
  <2>1. st[e] \in Stations
    BY <1>3, Given
  <2>2. RowTells(t, r[e], gv[st[e]])
    BY <1>3 DEF Remembers
  <2>3. \A f \in Frames : gv[st[e]][f] \in {-1} \union (Start .. t)
    BY <1>1, <2>1
  <2>4. QED
    BY <2>2, <2>3, RowTellsLater
<1>4. QED
  BY <1>2, <1>3 DEF Remembers

(* A station obtains its entry: an entry it had, or a blank one. *)
LEMMA ObtainTells ==
  ASSUME DownAssumption, Roomy, TableInv, SentInv, NEW s \in Stations \union {Broadcast},
         Obtain(s)
  PROVE  /\ Remembers(now, station', sent, window, given)
         /\ station' = [station EXCEPT ![EntryOf(s)] = s]
         /\ s \in Stations => RowTells(now, sent[EntryOf(s)], given[s])
         /\ RowOf(s) = slot[EntryOf(s)] /\ Forgotten(s) = given
<1> DEFINE e == EntryOf(s)
           st == station'
<1>0. ~Evicts(s)
  BY NoEviction
<1>1. /\ e \in Entries /\ (e = 0 <=> s = Broadcast)
      /\ \A d \in Entries : d # e => station[d] # s
      /\ station[e] \in {0, s} /\ RowOf(s) = slot[e]
  BY <1>0, EntryIs
<1>2. Memory /\ Memory' /\ st = [station EXCEPT ![e] = s]
  BY FromInv, ObtainKeeps
<1>3. Forgotten(s) = given
  BY <1>0 DEF Forgotten
<1> HIDE DEF e, st
<1>4. \A d \in Entries : st[d] = IF d = e THEN s ELSE station[d]
  BY <1>1, <1>2 DEF Memory
<1>5. Movable \subseteq Entries /\ 0 \notin Movable /\ 0 \notin Stations /\ s # 0
  BY Given
<1>6. Remembers(now, station, sent, window, given)
  BY DEF SentInv
<1>7. CASE station[e] = s
  <2>1. st = station
    BY <1>1, <1>2, <1>7 DEF Memory
  <2>2. s \in Stations => e \in Movable
    BY <1>1, Given
  <2>3. s \in Stations => RowTells(now, sent[e], given[s])
    BY <1>5, <1>6, <1>7, <2>2 DEF Remembers
  <2>4. QED
    BY <1>1, <1>2, <1>3, <1>6, <2>1, <2>3 DEF e, st
<1>8. CASE station[e] # s
  <2>1. station[e] = 0 /\ e \in Movable /\ s \in Stations
    BY <1>1, <1>2, <1>8, Given DEF Memory
  <2>2. given[s] = Never
    BY <1>1, <1>5, <1>6, <1>8, <2>1 DEF Remembers
  <2>3. Blank(sent[e])
    BY <1>6, <2>1 DEF Remembers
  <2>4. RowTells(now, sent[e], given[s])
    BY <2>2, <2>3, BlankTells
  <2>5. \A d \in Movable : st[d] = IF d = e THEN s ELSE station[d]
    BY <1>4, <1>5
  <2>6. \A z \in Stations : (\A d \in Movable : st[d] # z) => \A d \in Movable : station[d] # z
    BY <1>5, <2>1, <2>5
  <2>7. Remembers(now, st, sent, window, given)
    <3>1. \A d \in Movable : st[d] = 0 => Blank(sent[d])
      BY <1>5, <1>6, <2>5 DEF Remembers
    <3>2. \A d \in Movable : st[d] # 0 => RowTells(now, sent[d], given[st[d]])
      BY <1>6, <2>4, <2>5 DEF Remembers
    <3>3. \A d \in Movable : st[d] # 0 /\ ~window[d].seen => given[st[d]] = Never
      BY <1>6, <2>2, <2>5 DEF Remembers
    <3>4. \A z \in Stations : (\A d \in Movable : st[d] # z) => given[z] = Never
      BY <1>6, <2>6 DEF Remembers
    <3>5. QED
      BY <1>6, <3>1, <3>2, <3>3, <3>4 DEF Remembers
  <2>8. QED
    BY <1>1, <1>2, <1>3, <2>4, <2>7 DEF e, st
<1>9. QED
  BY <1>7, <1>8

(* The start, and the table cleared: nothing recorded, nothing given. *)
LEMMA NothingGiven ==
  ASSUME DownAssumption, Roomy, NEW t, NEW st, NEW r, NEW win, NEW gv,
         \A e \in Movable : st[e] = 0 /\ Blank(r[e]), \A s \in Stations : gv[s] = Never
  PROVE  Remembers(t, st, r, win, gv)
<1>1. \A s \in Stations, f \in Frames : gv[s][f] = -1
  BY DEF Never
<1>2. QED
  BY <1>1 DEF Remembers

(* At the start nothing was given.                                           *)
LEMMA SentStart ==
  ASSUME DownAssumption, Roomy, Init
  PROVE  SentInv
<1>1. \A e \in Movable : e \in Entries /\ e # 0
  BY Given
<1>2. \A e \in Movable : station[e] = 0 /\ Blank(sent[e])
  BY <1>1 DEF Init, Blank, NoRecord
<1>3. \A s \in Stations : given[s] = Never
  BY DEF Init
<1>4. QED
  BY <1>2, <1>3, NothingGiven DEF SentInv

(* Clearing forgets what was given, and nothing counts as given.             *)
LEMMA ClearTells ==
  ASSUME DownAssumption, Roomy, TableInv, Clear
  PROVE  SentInv'
<1>1. \A e \in Movable : e \in Entries /\ e # 0
  BY Given
<1>2. /\ sent' = [e \in Entries |-> [k \in 1 .. SentDepth |->
                    [sent[e][k] EXCEPT !.hash = NoFrame]]]
      /\ station' = [e \in Entries |-> IF e = 0 THEN Broadcast ELSE 0]
      /\ given' = [s \in Stations |-> Never]
  BY DEF Clear
<1>3. sent \in [Entries -> [1 .. SentDepth -> [hash : FrameOrNone, at : Moments]]]
  BY FromInv
<1>4. \A e \in Movable : Blank(sent'[e])
  <2> SUFFICES ASSUME NEW e \in Movable, NEW k \in 1 .. SentDepth
               PROVE  sent'[e][k].hash = NoFrame
    BY DEF Blank
  <2>1. sent'[e][k] = [sent[e][k] EXCEPT !.hash = NoFrame]
        /\ sent[e][k] \in [hash : FrameOrNone, at : Moments]
    BY <1>1, <1>2, <1>3
  <2>2. QED
    BY <2>1
<1>5. \A e \in Movable : station'[e] = 0
  BY <1>1, <1>2
<1>6. \A s \in Stations : given'[s] = Never
  BY <1>2
<1> DEFINE st == station'
           r == sent'
           gv == given'
           win == window'
           t == now'
<1> HIDE DEF st, r, gv, win, t
<1>7. Remembers(t, st, r, win, gv)
  BY <1>4, <1>5, <1>6, NothingGiven DEF st, r, gv
<1>8. QED
  BY <1>7 DEF SentInv, st, r, gv, win, t

(* Steps that touch neither the entries nor what they record. *)
LEMMA QuietTells ==
  ASSUME DownAssumption, Roomy, TableInv, SentInv, UNCHANGED <<station, sent, window, given>>,
         now' \in Nat, now <= now'
  PROVE  SentInv'
<1>1. Memory /\ now \in Nat
  BY FromInv DEF Moments
<1>2. Remembers(now, station, sent, window, given)
  BY DEF SentInv
<1> DEFINE t == now'
<1>3. t \in Nat /\ now <= t
  OBVIOUS
<1> HIDE DEF t
<1>4. Remembers(t, station, sent, window, given)
  BY <1>1, <1>2, <1>3, RemembersLater DEF Memory
<1>5. station' = station /\ sent' = sent /\ window' = window /\ given' = given /\ now' = t
  BY DEF t
<1>6. QED
  BY <1>4, <1>5, Zenon DEF SentInv

(* A frame comes in for a station.                                           *)
LEMMA OfferTells ==
  ASSUME DownAssumption, Roomy, TableInv, SentInv, NEW f \in Frames,
         NEW h \in Handles \union {BUFFER_NONE}, Offer(f, h)
  PROVE  SentInv'
<1>1. f.to \in Stations \union {Broadcast} /\ Obtain(f.to)
  BY Given DEF Offer
<1> DEFINE s == f.to
           st == station'
<1> HIDE DEF s
<1>2. s \in Stations \union {Broadcast} /\ Obtain(s)
  BY <1>1 DEF s
<1>3. Remembers(now, st, sent, window, given) /\ Forgotten(s) = given
  BY <1>2, ObtainTells
<1>4. given' = Forgotten(s) /\ sent' = sent /\ window' = window /\ now' = now
  BY DEF Offer, s
<1>5. station' = st /\ given' = given
  BY <1>3, <1>4
<1> HIDE DEF st
<1>6. QED
  BY <1>3, <1>4, <1>5, Zenon DEF SentInv

(* What the window of s is answered with, seen from the table: the candidate *)
(* n is the slot of the station's entry or, after those, of the broadcast's. *)
Place(s, n) == IF n <= Depth THEN <<EntryOf(s), n>> ELSE <<0, n - Depth>>

(* A candidate that holds a frame has one for the station, or a broadcast.   *)
LEMMA PlaceIs ==
  ASSUME DownAssumption, Roomy, TableInv, TimesInv, SentInv, NEW s \in Stations, Obtain(s),
         NEW n \in 1 .. 2 * Depth
  PROVE  /\ Place(s, n) \in Places
         /\ Candidate(RowOf(s), n) = slot[Place(s, n)[1]][Place(s, n)[2]]
         /\ Candidate(RowOf(s), n).frame # BUFFER_NONE =>
              /\ Candidate(RowOf(s), n).hash \in Frames
              /\ Candidate(RowOf(s), n).hash.to = IF n <= Depth THEN s ELSE Broadcast
              /\ bytes[Candidate(RowOf(s), n).frame] = Candidate(RowOf(s), n).hash
<1> DEFINE e == EntryOf(s)
           p == Place(s, n)
           sl == slot[p[1]][p[2]]
<1>0. s \in Stations \union {Broadcast} /\ s # 0 /\ s # Broadcast
  BY Given
<1>1. e \in Entries /\ station[e] \in {0, s} /\ RowOf(s) = slot[e]
  <2>1. ~Evicts(s)
    BY <1>0, NoEviction
  <2>2. QED
    BY <1>0, <2>1, EntryIs
<1>2. p = (IF n <= Depth THEN <<e, n>> ELSE <<0, n - Depth>>)
  BY DEF Place
<1>3. (n <= Depth => n \in Slots) /\ (~(n <= Depth) => n - Depth \in Slots) /\ 0 \in Entries
  BY Given DEF Slots
<1>4. p \in Places /\ p[1] \in Entries /\ p[2] \in Slots
      /\ p[1] = (IF n <= Depth THEN e ELSE 0)
  BY <1>1, <1>2, <1>3 DEF Places
<1>5. Candidate(RowOf(s), n) = sl
  BY <1>1, <1>2 DEF Candidate
<1>6. station[0] = Broadcast /\ RowIsOf(slot[p[1]], station[p[1]])
  BY <1>4, FromInv DEF Memory
<1>7. ASSUME sl.frame # BUFFER_NONE
      PROVE  /\ sl.hash \in Frames /\ sl.hash.to = (IF n <= Depth THEN s ELSE Broadcast)
             /\ bytes[sl.frame] = sl.hash
  <2>1. sl.hash # NoFrame
    BY <1>4, <1>7 DEF TimesInv
  <2>2. sl.hash \in Frames /\ sl.hash.to = station[p[1]] /\ bytes[sl.frame] = sl.hash
    BY <1>4, <1>6, <1>7, <2>1 DEF RowIsOf, Rows, SlotState, FrameOrNone
  <2>3. station[p[1]] # 0
    BY <2>2, Given
  <2>4. QED
    BY <1>1, <1>4, <1>6, <2>2, <2>3
<1>8. QED
  BY <1>4, <1>5, <1>7

(* A station announces a window.                                             *)
LEMMA WindowTells ==
  ASSUME DownAssumption, Roomy, WithinHalf, TableInv, TimesInv, SentInv,
         NEW s \in Stations, NEW rx \in Adverts, NEW c \in Locals, Window(s, rx, c)
  PROVE  SentInv'
<1> DEFINE e   == EntryOf(s)
           row == RowOf(s)
           w   == [seen |-> TRUE, ms |-> rx.window, at |-> now + rx.delay]
           n   == IF rx.accepts THEN Chosen(e, row, Remaining(w)) ELSE 0
           f   == Candidate(row, n).hash
           k   == RecordFor(e, f)
           rec == [hash |-> f, at |-> now]
           st  == station'
<1>1. /\ window' = [window EXCEPT ![e] = w] /\ Obtain(s) /\ now' = now
      /\ n # 0 => Deliver(s, e, row, n, c)
      /\ n = 0 => given' = Forgotten(s) /\ sent' = sent
  BY DEF Window
<1>2. s \in Stations \union {Broadcast} /\ s # 0
  BY Given
<1>3. /\ Remembers(now, st, sent, window, given)
      /\ st = [station EXCEPT ![e] = s]
      /\ RowTells(now, sent[e], given[s]) /\ Forgotten(s) = given
  BY <1>1, <1>2, ObtainTells
<1>4. e \in Entries /\ e # 0
  BY <1>2, EntryIs, Given
<1>5. n # 0 => n \in 1 .. 2 * Depth /\ Eligible(e, row, n)
  <2> DEFINE left == Remaining(w)
  <2> HIDE DEF e, row, left
  <2>1. QED
    BY ChosenIs
<1>6. n # 0 => Candidate(row, n).frame # BUFFER_NONE /\ (n > Depth => ~SentRecently(e, f))
  BY <1>5 DEF Eligible
<1>7. n # 0 => f \in Frames /\ f.to = IF n <= Depth THEN s ELSE Broadcast
  <2> HIDE DEF e, n
  <2>1. QED
    BY <1>1, <1>5, <1>6, PlaceIs
<1> DEFINE given1 == [given EXCEPT ![s][f] = now]
           sent1  == [sent EXCEPT ![e][k] = rec]
<1>8. n # 0 => IF n > Depth THEN sent' = sent1 /\ given' = given1
                            ELSE sent' = sent /\ given' = given
  <2> HIDE DEF n
  <2>1. n # 0 /\ n > Depth => sent' = sent1 /\ given' = [Forgotten(s) EXCEPT ![s][f] = now]
    BY <1>1 DEF Deliver
  <2>2. n # 0 /\ ~(n > Depth) => sent' = sent /\ given' = Forgotten(s)
    BY <1>1 DEF Deliver
  <2>3. QED
    BY <1>3, <2>1, <2>2
<1>9. w.seen
  OBVIOUS
<1>10. /\ window \in [Entries -> WindowState] /\ now \in Moments /\ Memory /\ Start <= now
       /\ sent \in [Entries -> [1 .. SentDepth -> [hash : FrameOrNone, at : Moments]]]
       /\ given \in [Stations -> [Frames -> Moments \union {-1}]]
  BY FromInv DEF TimesInv
<1> HIDE DEF e, row, w, n, f, k, rec
<1>11. /\ \A d \in Entries : window'[d] = IF d = e THEN w ELSE window[d]
       /\ \A d \in Entries : st[d] = IF d = e THEN s ELSE station[d]
  BY <1>1, <1>3, <1>4, <1>10 DEF Memory
<1>12. \A d \in Movable : d \in Entries /\ (d # e => st[d] # s)
  <2>1. \A d \in Entries : d # e => station[d] # s
    BY <1>2, EntryIs DEF e
  <2>2. QED
    BY <1>11, <2>1, Given
<1>13. e \in Movable /\ st[e] = s
  BY <1>4, <1>11, Given
<1> DEFINE rows == sent'
           gv   == given'
           win  == window'
<1>14. /\ \A d \in Movable : d # e => rows[d] = sent[d]
       /\ \A z \in Stations : z # s => gv[z] = given[z]
       /\ RowTells(now, rows[e], gv[s])
       /\ \A g \in Frames : gv[s][g] \in {-1} \union (Start .. now)
  <2>1. \A g \in Frames : given[s][g] \in {-1} \union (Start .. now)
    BY <1>3 DEF Remembers
  <2>2. CASE n # 0 /\ n > Depth
    <3> DEFINE r1 == [sent[e] EXCEPT ![k] = rec]
               g1 == [given[s] EXCEPT ![f] = now]
    <3>1. rows = sent1 /\ gv = given1
      BY <1>8, <2>2
    <3>2. f \in Bcast /\ ~SentRecently(e, f)
      BY <1>5, <1>6, <1>7, <2>2, Given DEF Bcast
    <3>3. given[s] \in [Frames -> {-1} \union (Start .. now)]
      <4>1. given[s] \in [Frames -> Moments \union {-1}]
        BY <1>10
      <4>2. QED
        BY <2>1, <4>1
    <3>4. RowTells(now, r1, g1)
      BY <1>3, <1>4, <3>2, <3>3, DeliverTells DEF k, rec
    <3>5. rows[e] = r1 /\ (\A d \in Entries : d # e => rows[d] = sent[d])
      BY <1>4, <1>10, <3>1
    <3>6. gv[s] = g1 /\ (\A z \in Stations : z # s => gv[z] = given[z])
      BY <1>10, <3>1
    <3>7. \A g \in Frames : g1[g] \in {-1} \union (Start .. now)
      <4>1. now \in Start .. now
        BY <1>10, Given DEF Moments
      <4>2. \A g \in Frames : g1[g] = IF g = f THEN now ELSE given[s][g]
        BY <3>3
      <4>3. QED
        BY <2>1, <4>1, <4>2
    <3> HIDE DEF r1, g1, rows, gv
    <3>8. QED
      BY <1>12, <3>4, <3>5, <3>6, <3>7
  <2>3. CASE ~(n # 0 /\ n > Depth)
    <3>1. rows = sent /\ gv = given
      BY <1>1, <1>3, <1>8, <2>3
    <3> HIDE DEF rows, gv
    <3>2. QED
      BY <1>3, <2>1, <3>1
  <2>4. QED
    BY <2>2, <2>3
<1> HIDE DEF st, rows, gv
<1>15. Remembers(now, st, rows, win, gv)
  <2>1. \A d \in Movable : st[d] = 0 => Blank(rows[d])
    BY <1>2, <1>3, <1>13, <1>14 DEF Remembers
  <2>2. \A d \in Movable : st[d] # 0 => RowTells(now, rows[d], gv[st[d]])
    <3> SUFFICES ASSUME NEW d \in Movable, st[d] # 0 PROVE RowTells(now, rows[d], gv[st[d]])
      OBVIOUS
    <3>1. d # e => st[d] \in Stations
      BY <1>10, <1>11, <1>12, <1>13, Given DEF Memory
    <3>2. QED
      BY <1>3, <1>12, <1>13, <1>14, <3>1 DEF Remembers
  <2>3. \A d \in Movable : st[d] # 0 /\ ~win[d].seen => gv[st[d]] = Never
    <3> SUFFICES ASSUME NEW d \in Movable, st[d] # 0, ~win[d].seen PROVE gv[st[d]] = Never
      OBVIOUS
    <3>1. d # e /\ win[d] = window[d]
      BY <1>9, <1>11, <1>12
    <3>2. st[d] \in Stations /\ st[d] # s
      BY <1>10, <1>11, <1>12, <3>1, Given DEF Memory
    <3>3. QED
      BY <1>3, <1>14, <3>1, <3>2 DEF Remembers
  <2>4. \A z \in Stations : (\A d \in Movable : st[d] # z) => gv[z] = Never
    BY <1>3, <1>13, <1>14 DEF Remembers
  <2>5. \A z \in Stations, g \in Frames : gv[z][g] \in {-1} \union (Start .. now)
    BY <1>3, <1>14 DEF Remembers
  <2>6. QED
    BY <2>1, <2>2, <2>3, <2>4, <2>5 DEF Remembers
<1>16. now' = now /\ station' = st /\ sent' = rows /\ window' = win /\ given' = gv
  BY <1>1 DEF st, rows, gv
<1> HIDE DEF win
<1>17. QED
  BY <1>15, <1>16, Zenon DEF SentInv

(* The tick blanks what is due, and forgets a station that was given nothing. *)
LEMMA TickTells ==
  ASSUME DownAssumption, Roomy, WithinHalf, TableInv, TimesInv, SentInv, Tick
  PROVE  SentInv'
<1> DEFINE st == station'
           r  == sent'
<1>1. /\ r = [e \in Entries |-> [k \in 1 .. SentDepth |->
                IF Used(e) /\ Older(sent[e][k].at, Repeat)
                  THEN [sent[e][k] EXCEPT !.hash = NoFrame] ELSE sent[e][k]]]
      /\ st = [e \in Entries |-> IF Freed(e) THEN 0 ELSE station[e]]
      /\ window' = window /\ now' = now /\ given' = given
  BY DEF Tick
<1>2. /\ sent \in [Entries -> [1 .. SentDepth -> [hash : FrameOrNone, at : Moments]]]
      /\ Memory
  BY FromInv
<1>3. Remembers(now, station, sent, window, given)
  BY DEF SentInv
<1> HIDE DEF st, r
<1>4. \A e \in Movable : e \in Entries /\ e # 0
  BY Given
<1>5. ASSUME NEW e \in Movable, NEW k \in 1 .. SentDepth
      PROVE  /\ r[e][k].at = sent[e][k].at
             /\ r[e][k].hash = IF station[e] # 0 /\ Older(sent[e][k].at, Repeat)
                                 THEN NoFrame ELSE sent[e][k].hash
  <2>1. r[e][k] = IF Used(e) /\ Older(sent[e][k].at, Repeat)
                    THEN [sent[e][k] EXCEPT !.hash = NoFrame] ELSE sent[e][k]
    BY <1>1, <1>4
  <2>2. sent[e][k] \in [hash : FrameOrNone, at : Moments]
    BY <1>2, <1>4
  <2> DEFINE x == sent[e][k]
             y == r[e][k]
             used == Used(e) /\ Older(sent[e][k].at, Repeat)
  <2>3. used <=> station[e] # 0 /\ Older(sent[e][k].at, Repeat)
    BY DEF Used
  <2> HIDE DEF x, y, used
  <2>4. y = (IF used THEN [x EXCEPT !.hash = NoFrame] ELSE x)
        /\ x \in [hash : FrameOrNone, at : Moments]
    BY <2>1, <2>2 DEF x, y, used
  <2>5. y.at = x.at /\ y.hash = (IF used THEN NoFrame ELSE x.hash)
    BY <2>4
  <2>6. QED
    BY <2>3, <2>5 DEF x, y
<1>6. \A e \in Movable : st[e] = IF Freed(e) THEN 0 ELSE station[e]
  BY <1>1, <1>4
<1>7. \A e \in Movable : station[e] # 0 => station[e] \in Stations
  BY <1>2, <1>4, Given DEF Memory
<1>8. \A e \in Movable : Freed(e) => station[e] # 0 /\ given[station[e]] = Never
  BY <1>3 DEF Freed, Used, Remembers
<1>9. ASSUME NEW e \in Movable, station[e] # 0, NEW k \in 1 .. SentDepth,
             sent[e][k].hash # NoFrame
      PROVE  Older(sent[e][k].at, Repeat) <=> Due(now, sent[e][k].at)
  <2>1. sent[e][k].at \in Start .. now
    BY <1>3, <1>9 DEF Remembers, RowTells
  <2>2. QED
    BY <2>1, OlderIs
<1>10. \A e \in Movable : st[e] = 0 => Blank(r[e])
  <2> SUFFICES ASSUME NEW e \in Movable, st[e] = 0, NEW k \in 1 .. SentDepth
               PROVE  r[e][k].hash = NoFrame
    BY DEF Blank
  <2>1. CASE station[e] = 0
    <3>1. Blank(sent[e])
      BY <1>3, <2>1 DEF Remembers
    <3>2. QED
      BY <1>5, <2>1, <3>1 DEF Blank
  <2>2. CASE station[e] # 0 /\ sent[e][k].hash # NoFrame
    <3>1. given[station[e]] = Never
      BY <1>6, <1>8, <2>2
    <3>2. RowTells(now, sent[e], Never)
      <4>1. RowTells(now, sent[e], given[station[e]])
        BY <1>3, <2>2 DEF Remembers
      <4>2. QED
        BY <3>1, <4>1
    <3>3. Due(now, sent[e][k].at)
      BY <2>2, <3>2, NeverIsDue
    <3>4. QED
      BY <1>5, <1>9, <2>2, <3>3
  <2>3. CASE station[e] # 0 /\ sent[e][k].hash = NoFrame
    BY <1>5, <2>3
  <2>4. QED
    BY <2>1, <2>2, <2>3
<1>11. \A e \in Movable : st[e] # 0 => RowTells(now, r[e], given[st[e]])
  <2> SUFFICES ASSUME NEW e \in Movable, st[e] # 0
               PROVE  RowTells(now, r[e], given[st[e]])
    OBVIOUS
  <2>1. st[e] = station[e] /\ station[e] # 0
    BY <1>6
  <2> DEFINE x == sent[e]
             y == r[e]
             gv == given[st[e]]
  <2>2. RowTells(now, x, gv)
    BY <1>3, <2>1 DEF Remembers
  <2>3. \A k \in 1 .. SentDepth :
          /\ y[k].at = x[k].at
          /\ y[k].hash = x[k].hash \/ (y[k].hash = NoFrame /\ (x[k].hash # NoFrame => Due(now, x[k].at)))
    BY <1>5, <1>9, <2>1
  <2> HIDE DEF x, y, gv
  <2>4. \A k \in 1 .. SentDepth :
          y[k].hash # NoFrame => y[k].hash \in Bcast /\ y[k].at \in Start .. now
    BY <2>2, <2>3 DEF RowTells
  <2>5. ASSUME NEW f \in Bcast PROVE Tells(now, y, f, gv[f])
    <3>1. f # NoFrame /\ Tells(now, x, f, gv[f])
      BY <2>2, Roominess DEF RowTells
    <3>2. \A k \in Marks(y, f) : k \in Marks(x, f) /\ y[k].at = x[k].at
      BY <2>3, <3>1 DEF Marks
    <3>3. \A k \in Marks(x, f) : k \in Marks(y, f) \/ Due(now, x[k].at)
      BY <2>3, <3>1 DEF Marks
    <3>4. QED
      BY <3>1, <3>2, <3>3, TellsLess
  <2>6. RowTells(now, y, gv)
    BY <2>4, <2>5 DEF RowTells
  <2>7. QED
    BY <2>6 DEF y, gv
<1>12. \A e \in Movable : st[e] # 0 /\ ~window[e].seen => given[st[e]] = Never
  BY <1>3, <1>6 DEF Remembers
<1>13. \A z \in Stations : (\A e \in Movable : st[e] # z) => given[z] = Never
  <2> SUFFICES ASSUME NEW z \in Stations, \A e \in Movable : st[e] # z
               PROVE  given[z] = Never
    OBVIOUS
  <2>1. CASE \A e \in Movable : station[e] # z
    BY <1>3, <2>1 DEF Remembers
  <2>2. CASE \E e \in Movable : station[e] = z
    BY <1>6, <1>8, <2>2
  <2>3. QED
    BY <2>1, <2>2
<1>14. Remembers(now, st, r, window, given)
  BY <1>3, <1>10, <1>11, <1>12, <1>13 DEF Remembers
<1>15. station' = st /\ sent' = r /\ window' = window /\ given' = given /\ now' = now
  BY <1>1 DEF st, r
<1>16. QED
  BY <1>14, <1>15, Zenon DEF SentInv

(* Whatever happens, the records tell.                                       *)
LEMMA SentKept ==
  ASSUME DownAssumption, Roomy, WithinHalf, TableInv, TimesInv, SentInv, [Next]_vars
  PROVE  SentInv'
<1>1. now \in Nat
  BY FromInv DEF Moments
<1>2. CASE UNCHANGED <<station, sent, window, given>> /\ now' \in {now, now + 1}
  <2>1. now' \in Nat /\ now <= now'
    BY <1>1, <1>2
  <2>2. QED
    BY <1>2, <2>1, QuietTells
<1>3. CASE \E c \in Locals : Unref(c) \/ \E f \in Frames : Receive(c, f)
  BY <1>2, <1>3 DEF Unref, Receive, table
<1>4. CASE \E f \in Frames : Arrive(f)
  <2>1. PICK f \in Frames : Arrive(f)
    BY <1>4
  <2>2. \E h \in Handles \union {BUFFER_NONE} : Offer(f, h)
    BY <2>1, FromInv DEF Arrive
  <2>3. QED
    BY <2>2, OfferTells
<1>5. CASE \E s \in Stations, rx \in Adverts, c \in Locals : Window(s, rx, c)
  BY <1>5, WindowTells
<1>6. CASE Tick
  BY <1>6, TickTells
<1>7. CASE Clear
  BY <1>7, ClearTells
<1>8. CASE Clock
  BY <1>2, <1>8 DEF Clock, table
<1>9. CASE UNCHANGED vars
  BY <1>2, <1>9 DEF vars, table
<1>10. QED
  BY <1>3, <1>4, <1>5, <1>6, <1>7, <1>8, <1>9 DEF Next

(* What is left of a window that was just announced: all of it when it opens *)
(* at once, else nothing yet.                                                *)
LEMMA LeftIs ==
  ASSUME DownAssumption, Roomy, TableInv, NEW rx \in Adverts
  PROVE  Remaining([seen |-> TRUE, ms |-> rx.window, at |-> now + rx.delay])
           = IF rx.delay = 0 THEN rx.window ELSE 0
<1> DEFINE w == [seen |-> TRUE, ms |-> rx.window, at |-> now + rx.delay]
           elapsed == (now - w.at) % Wrap
<1>1. /\ rx.window \in Nat /\ rx.delay \in Nat /\ Wrap \in Nat /\ Wrap >= 2 /\ now \in Nat
      /\ rx.delay < Wrap /\ rx.window + rx.delay <= Wrap
  BY FromInv, Given DEF Moments, Roomy
<1>2. now - w.at = 0 - rx.delay
  BY <1>1
<1>3. rx.delay = 0 => elapsed = 0
  BY <1>1, <1>2
<1>4. rx.delay # 0 => elapsed = Wrap - rx.delay
  <2>1. rx.delay # 0 => Wrap - rx.delay \in 0 .. Wrap - 1 /\ 0 - rx.delay = Wrap - rx.delay - Wrap
    BY <1>1
  <2>2. QED
    BY <1>1, <1>2, <2>1
<1>5. w.seen /\ w.ms = rx.window
  OBVIOUS
<1>6. Remaining(w) = IF w.seen /\ elapsed < w.ms THEN w.ms - elapsed ELSE 0
  BY DEF Remaining
<1> HIDE DEF w, elapsed
<1>7. QED
  BY <1>1, <1>3, <1>4, <1>5, <1>6 DEF w

(* The candidates of the window that s announces are the frames on offer.    *)
LEMMA CandidatesAreOnOffer ==
  ASSUME DownAssumption, Roomy, WithinHalf, TableInv, TimesInv, SentInv,
         NEW s \in Stations, NEW rx \in Adverts, Obtain(s), rx.accepts,
         NEW left, left = IF rx.delay = 0 THEN rx.window ELSE 0
  PROVE  /\ \A n \in 1 .. 2 * Depth :
              n \in Offers(EntryOf(s), RowOf(s)) /\ FitsIn(RowOf(s), n, left)
                <=> Place(s, n) \in OnOffer(s, rx)
         /\ \A p \in OnOffer(s, rx) : \E n \in 1 .. 2 * Depth : p = Place(s, n)
<1> DEFINE e == EntryOf(s)
           row == RowOf(s)
<1>0. s \in Stations \union {Broadcast} /\ s # 0 /\ s # Broadcast /\ rx.window \in Nat
      /\ Depth \in Nat
  BY Given
<1>1. RowTells(now, sent[e], given[s])
  BY <1>0, ObtainTells
<1>2. \A f \in Frames : given[s][f] \in {-1} \union (Start .. now)
  BY DEF SentInv, Remembers
<1>3. \A f \in Frames : f.size \in Nat /\ f.size >= 1 /\ (f.to = Broadcast => f \in Bcast)
  BY DEF DownAssumption, Bcast
<1>4. ASSUME NEW n \in 1 .. 2 * Depth
      PROVE  n \in Offers(e, row) /\ FitsIn(row, n, left) <=> Place(s, n) \in OnOffer(s, rx)
  <2> DEFINE p  == Place(s, n)
             sl == Candidate(row, n)
  <2>1. /\ p \in Places /\ sl = slot[p[1]][p[2]]
        /\ sl.frame # BUFFER_NONE =>
             /\ sl.hash \in Frames
             /\ sl.hash.to = (IF n <= Depth THEN s ELSE Broadcast)
             /\ bytes[sl.frame] = sl.hash
    BY PlaceIs
  <2>2. n \in Offers(e, row) /\ FitsIn(row, n, left) <=>
          /\ sl.frame # BUFFER_NONE
          /\ n > Depth => ~SentRecently(e, sl.hash)
          /\ bytes[sl.frame].size <= left
    BY DEF Offers, Eligible, FitsIn, Fits
  <2>3. p \in OnOffer(s, rx) <=>
          /\ sl.frame # BUFFER_NONE
          /\ sl.hash.to \in {s, Broadcast}
          /\ sl.hash.to = Broadcast => Again(now, given[s][sl.hash])
          /\ rx.delay = 0 /\ sl.hash.size <= rx.window
    BY <2>1 DEF OnOffer, Places, Again, Due
  <2>4. CASE sl.frame = BUFFER_NONE
    BY <2>2, <2>3, <2>4
  <2>5. CASE sl.frame # BUFFER_NONE
    <3> DEFINE f == sl.hash
    <3>1. f \in Frames /\ f.to = (IF n <= Depth THEN s ELSE Broadcast) /\ bytes[sl.frame] = f
      BY <2>1, <2>5
    <3>2. f.size <= left <=> rx.delay = 0 /\ f.size <= rx.window
      BY <1>0, <1>3, <3>1
    <3> HIDE DEF f
    <3>3. f.to = Broadcast => (SentRecently(e, f) <=> ~Again(now, given[s][f]))
      <4>1. f.to = Broadcast => f \in Bcast /\ given[s][f] \in {-1} \union (Start .. now)
        BY <1>2, <1>3, <3>1
      <4>2. QED
        BY <1>1, <4>1, SentRecentlyIs
    <3>4. f.to = Broadcast <=> n > Depth
      BY <1>0, <3>1
    <3>5. f.to \in {s, Broadcast}
      BY <3>1
    <3>6. n \in Offers(e, row) /\ FitsIn(row, n, left) <=>
            (n > Depth => ~SentRecently(e, f)) /\ f.size <= left
      BY <2>2, <2>5, <3>1 DEF f
    <3>7. p \in OnOffer(s, rx) <=>
            /\ f.to = Broadcast => Again(now, given[s][f])
            /\ rx.delay = 0 /\ f.size <= rx.window
      BY <2>3, <2>5, <3>5 DEF f
    <3> HIDE DEF e, row, p, sl
    <3>8. QED
      BY <3>2, <3>3, <3>4, <3>6, <3>7 DEF p
  <2>6. QED
    BY <2>4, <2>5
<1>5. ASSUME NEW p \in OnOffer(s, rx)
      PROVE  \E n \in 1 .. 2 * Depth : p = Place(s, n)
  <2>1. PICK d \in Entries, j \in Slots : p = <<d, j>>
    BY DEF OnOffer
  <2>2. slot[d][j].frame # BUFFER_NONE /\ slot[d][j].hash.to \in {s, Broadcast}
    BY <2>1 DEF OnOffer
  <2>3. slot[d][j].hash.to = station[d]
    BY <2>2, FromInv DEF TimesInv, RowIsOf
  <2>4. CASE station[d] = Broadcast
    <3>1. d = 0
      BY <2>4, FromInv, Given DEF Memory
    <3>2. j + Depth \in 1 .. 2 * Depth /\ ~(j + Depth <= Depth) /\ (j + Depth) - Depth = j
      BY <1>0 DEF Slots
    <3>3. p = Place(s, j + Depth)
      BY <2>1, <3>1, <3>2 DEF Place
    <3>4. QED
      BY <3>2, <3>3
  <2>5. CASE station[d] = s
    <3>1. d = EntryOf(s)
      BY <1>0, <2>5, EntryIs
    <3>2. j \in 1 .. 2 * Depth /\ j <= Depth
      BY <1>0 DEF Slots
    <3>3. p = Place(s, j)
      BY <2>1, <3>1, <3>2 DEF Place
    <3>4. QED
      BY <3>2, <3>3
  <2>6. QED
    BY <2>2, <2>3, <2>4, <2>5
<1>6. QED
  BY <1>4, <1>5

(* What is chosen among them: none when there is none, else the oldest.      *)
LEMMA ChosenIsOldest ==
  ASSUME DownAssumption, Roomy, WithinHalf, TableInv, TimesInv, SentInv,
         NEW s \in Stations, NEW rx \in Adverts, Obtain(s), rx.accepts,
         NEW left, left = IF rx.delay = 0 THEN rx.window ELSE 0
  PROVE  LET n == Chosen(EntryOf(s), RowOf(s), left)
             p == Place(s, n)
         IN IF n = 0 THEN OnOffer(s, rx) = {}
            ELSE /\ n \in 1 .. 2 * Depth /\ p \in OnOffer(s, rx)
                 /\ \A q \in OnOffer(s, rx) : slot[p[1]][p[2]].arrived <= slot[q[1]][q[2]].arrived
<1> DEFINE e == EntryOf(s)
           row == RowOf(s)
           P == {n \in Offers(e, row) : FitsIn(row, n, left)}
           B == Earlier(row)
           key == [n \in P |-> Candidate(row, n).arrived]
           n == Chosen(e, row, left)
           N == 2 * Depth
<1>1. n = FirstBest(N, P, B) /\ N \in Nat /\ P \in SUBSET (1 .. N)
  BY Given DEF Chosen, Offers
<1>2. /\ \A i \in 1 .. N : i \in P <=> Place(s, i) \in OnOffer(s, rx)
      /\ \A p \in OnOffer(s, rx) : \E i \in 1 .. N : p = Place(s, i)
  BY CandidatesAreOnOffer
<1>3. now \in Start .. Horizon /\ Start \in Nat /\ Horizon \in Nat /\ now \in Nat
  BY FromInv, Given DEF Moments, TimesInv
<1>4. ASSUME NEW i \in P
      PROVE  LET p == Place(s, i) IN
             /\ Candidate(row, i).arrived \in Start .. Horizon
             /\ Candidate(row, i).arrived = slot[p[1]][p[2]].arrived
  <2> DEFINE p == Place(s, i)
  <2>1. Candidate(row, i).frame # BUFFER_NONE
    BY DEF Offers, Eligible
  <2>2. i \in 1 .. N
    BY <1>1
  <2>3. p \in Places /\ Candidate(row, i) = slot[p[1]][p[2]]
    BY <2>2, PlaceIs
  <2> HIDE DEF p, row
  <2>4. p[1] \in Entries /\ p[2] \in Slots
    BY <2>3 DEF Places
  <2>5. slot[p[1]][p[2]].arrived \in Start .. now
    BY <2>1, <2>3, <2>4 DEF TimesInv
  <2>6. QED
    BY <1>3, <2>3, <2>5 DEF p
<1>5. /\ \A i \in P : key[i] = Candidate(row, i).arrived /\ key[i] \in Int
      /\ key \in [P -> Int]
  <2> HIDE DEF P, row
  <2>1. \A i \in P : Candidate(row, i).arrived \in Int
    BY <1>3, <1>4
  <2>2. QED
    BY <2>1
<1>6. ASSUME NEW i \in P, NEW j \in P
      PROVE  <<i, j>> \in B <=> key[i] < key[j]
  <2>1. <<i, j>> \in B <=> Before(Candidate(row, i).arrived, Candidate(row, j).arrived)
    <3> HIDE DEF row
    <3>1. i \in 1 .. N /\ j \in 1 .. N
      BY <1>1
    <3>2. QED
      BY <3>1 DEF Earlier
  <2>2. Candidate(row, i).arrived \in Start .. Horizon /\ Candidate(row, j).arrived \in Start .. Horizon
    BY <1>4
  <2>3. key[i] = Candidate(row, i).arrived /\ key[j] = Candidate(row, j).arrived
    BY <1>5
  <2> HIDE DEF B, key, row, P
  <2>4. QED
    BY <2>1, <2>2, <2>3, BeforeIs
<1> HIDE DEF P, B, key, n, N, e, row
<1>7. \A i, j \in P : /\ key[i] < key[j] => <<i, j>> \in B
                      /\ <<i, j>> \in B => key[i] <= key[j]
  <2> SUFFICES ASSUME NEW i \in P, NEW j \in P
               PROVE  /\ key[i] < key[j] => <<i, j>> \in B
                      /\ <<i, j>> \in B => key[i] <= key[j]
    OBVIOUS
  <2>1. <<i, j>> \in B <=> key[i] < key[j]
    BY <1>6
  <2>2. key[i] \in Int /\ key[j] \in Int
    BY <1>5
  <2>3. QED
    BY <2>1, <2>2
<1>8. n \in P \union {0} /\ (n = 0 <=> P = {})
  BY <1>1, FirstBestPicks
<1>9. \A j \in P : key[n] <= key[j]
  <2>1. \A j \in P : key[FirstBest(N, P, B)] <= key[j]
    BY <1>1, <1>5, <1>7, FirstBestIsBest
  <2>2. QED
    BY <1>1, <2>1, Zenon
<1>10. CASE n = 0
  <2>1. OnOffer(s, rx) = {}
    BY <1>2, <1>8, <1>10
  <2>2. QED
    BY <1>10, <2>1 DEF n, e, row
<1>11. CASE n # 0
  <2> DEFINE p == Place(s, n)
  <2>1. n \in P /\ n \in 1 .. N /\ p \in OnOffer(s, rx)
    BY <1>1, <1>2, <1>8, <1>11
  <2>2. ASSUME NEW q \in OnOffer(s, rx)
        PROVE  slot[p[1]][p[2]].arrived <= slot[q[1]][q[2]].arrived
    <3>1. PICK j \in 1 .. N : q = Place(s, j)
      BY <1>2
    <3>2. j \in P
      BY <1>2, <3>1
    <3>3. key[n] <= key[j]
      BY <1>9, <3>2
    <3>4. key[n] = slot[p[1]][p[2]].arrived
      BY <1>4, <1>5, <2>1
    <3>5. key[j] = slot[q[1]][q[2]].arrived
      BY <1>4, <1>5, <3>1, <3>2
    <3> HIDE DEF p
    <3>6. QED
      BY <3>3, <3>4, <3>5
  <2>3. QED
    BY <1>11, <2>1, <2>2 DEF n, e, row, N
<1>12. QED
  BY <1>10, <1>11

(* A window is answered with the oldest frame on offer, or with none when    *)
(* there is none.                                                            *)
LEMMA WindowIsAnswered ==
  ASSUME DownAssumption, Roomy, WithinHalf, TableInv, TimesInv, SentInv,
         NEW s \in Stations, NEW rx \in Adverts, NEW c \in Locals, Window(s, rx, c)
  PROVE  IF OnOffer(s, rx) = {} THEN local'[c] = BUFFER_NONE
         ELSE \E p \in OnOffer(s, rx) :
                LET sl == slot[p[1]][p[2]] IN
                /\ local'[c] = sl.frame
                /\ \A q \in OnOffer(s, rx) : sl.arrived <= slot[q[1]][q[2]].arrived
                /\ (slot'[p[1]][p[2]].frame = BUFFER_NONE) = (sl.hash.to = s)
<1> DEFINE e    == EntryOf(s)
           row  == RowOf(s)
           w    == [seen |-> TRUE, ms |-> rx.window, at |-> now + rx.delay]
           left == Remaining(w)
           n    == IF rx.accepts THEN Chosen(e, row, left) ELSE 0
           p    == Place(s, n)
           sl   == slot[p[1]][p[2]]
<1>1. /\ local[c] = BUFFER_NONE /\ Obtain(s)
      /\ n # 0 => Deliver(s, e, row, n, c)
      /\ n = 0 => local' = local
  BY DEF Window
<1>2. left = IF rx.delay = 0 THEN rx.window ELSE 0
  BY LeftIs
<1>3. s \in Stations \union {Broadcast} /\ s # 0 /\ s # Broadcast
  BY Given
<1>4. e \in Entries /\ e # 0 /\ row = slot[e]
  BY <1>1, <1>3, EntryIs, ObtainTells
<1>5. /\ slot \in [Entries -> Rows] /\ local \in [Locals -> Handles \union {BUFFER_NONE}]
  BY FromInv
<1> HIDE DEF left
<1>6. rx.accepts => IF n = 0 THEN OnOffer(s, rx) = {}
         ELSE /\ n \in 1 .. 2 * Depth /\ p \in OnOffer(s, rx)
              /\ \A q \in OnOffer(s, rx) : sl.arrived <= slot[q[1]][q[2]].arrived
  BY <1>1, <1>2, ChosenIsOldest
<1>7. ~rx.accepts => n = 0 /\ OnOffer(s, rx) = {}
  BY DEF OnOffer
<1> HIDE DEF n, e, row
<1>8. CASE n = 0
  BY <1>1, <1>6, <1>7, <1>8
<1>9. CASE n # 0
  <2>1. /\ n \in 1 .. 2 * Depth /\ p \in OnOffer(s, rx)
        /\ \A q \in OnOffer(s, rx) : sl.arrived <= slot[q[1]][q[2]].arrived
    BY <1>6, <1>7, <1>9
  <2>2. sl.frame # BUFFER_NONE
    BY <2>1 DEF OnOffer
  <2>3. Candidate(row, n) = sl /\ sl.hash.to = (IF n <= Depth THEN s ELSE Broadcast)
    BY <1>1, <2>1, <2>2, PlaceIs DEF row
  <2>4. Deliver(s, e, row, n, c)
    BY <1>1, <1>9
  <2>5. local' = [local EXCEPT ![c] = sl.frame]
    BY <2>3, <2>4 DEF Deliver
  <2>6. local'[c] = sl.frame
    BY <1>5, <2>5
  <2>7. slot'[p[1]][p[2]].frame = BUFFER_NONE <=> sl.hash.to = s
    <3>1. CASE n <= Depth
      <4>1. n \in Slots /\ p = <<e, n>>
        BY <2>1, <3>1, Given DEF Slots, Place, e
      <4>2. slot' = [slot EXCEPT ![e] = [row EXCEPT ![n].frame = BUFFER_NONE]]
        <5>1. ~(n > Depth)
          BY <2>1, <3>1, Given
        <5>2. QED
          BY <2>4, <5>1 DEF Deliver
      <4> DEFINE row1 == [row EXCEPT ![n].frame = BUFFER_NONE]
      <4>3. row1[n].frame = BUFFER_NONE
        BY <1>4, <1>5, <4>1 DEF Rows, SlotState
      <4>4. slot'[e] = row1
        BY <1>4, <1>5, <4>2
      <4> HIDE DEF row1, sl
      <4>5. slot'[p[1]][p[2]].frame = BUFFER_NONE
        BY <4>1, <4>3, <4>4
      <4>6. QED
        BY <2>3, <3>1, <4>5
    <3>2. CASE ~(n <= Depth)
      <4>1. slot' = [slot EXCEPT ![e] = row]
        <5>1. n > Depth
          BY <2>1, <3>2, Given
        <5>2. QED
          BY <2>4, <5>1 DEF Deliver
      <4>2. slot' = slot
        BY <1>4, <1>5, <4>1
      <4>3. slot'[p[1]][p[2]].frame # BUFFER_NONE
        BY <2>2, <4>2
      <4>4. QED
        BY <1>3, <2>3, <3>2, <4>3
    <3>3. QED
      BY <3>1, <3>2
  <2>8. OnOffer(s, rx) # {}
    BY <2>1
  <2> DEFINE a == slot'[p[1]][p[2]].frame = BUFFER_NONE
             b == sl.hash.to = s
  <2>9. a = b
    <3>1. a \in BOOLEAN /\ b \in BOOLEAN /\ (a <=> b)
      BY <2>7
    <3> HIDE DEF a, b
    <3>2. QED
      BY <3>1
  <2>10. QED
    BY <2>1, <2>6, <2>8, <2>9, Zenon
<1>10. QED
  BY <1>8, <1>9

(* Whatever window is announced.                                             *)
LEMMA WindowAnsweredAlways ==
  ASSUME DownAssumption, Roomy, WithinHalf, TableInv, TimesInv, SentInv
  PROVE  WindowAnswered
BY WindowIsAnswered DEF WindowAnswered

(* A station that announces a window is given the oldest frame held for it   *)
(* that fits, of its own and of the broadcasts it was not given lately, and  *)
(* none only when there is none: with an entry for every station and a       *)
(* record for every broadcast, and until half the clock's period has gone.   *)
THEOREM WindowsAreServed ==
  ASSUME DownAssumption, WithinHalf, Roomy
  PROVE  Spec => WindowServes
<1> DEFINE I == TableInv /\ TimesInv /\ SentInv
<1>1. Init => I
  BY TableInit, TimesStart, SentStart
<1>2. I /\ [Next]_vars => I'
  BY NextKeeps, TimesKept, SentKept
<1>3. I /\ [Next]_vars => [WindowAnswered]_vars
  BY WindowAnsweredAlways
<1>4. QED
  BY <1>1, <1>2, <1>3, PTL DEF Spec, WindowServes

=============================================================================
