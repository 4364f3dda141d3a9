-------------------------- MODULE OtaUpdateProofs --------------------------
(***************************************************************************)
(* Theorems about the update for every set of ids and bundles, every way   *)
(* of failing, any length of an image and any limit of attempts.           *)
(*                                                                         *)
(* The argument: that there is a way back (FlashInv) needs the slot that   *)
(* runs to be the one selected, except while the node is about to leave    *)
(* it, and needs the slot to refuse to be opened from an image on          *)
(* probation, whose spare is the way back.  That attempts are counted      *)
(* (CountInv) needs what is worked on to be the bundle that was claimed    *)
(* last and not spent yet (WorkInv), so that the count stays in its type.  *)
(***************************************************************************)
EXTENDS OtaUpdate, TLAPS

(* The slot that runs is the one selected and is not overwritten, but while *)
(* the node is about to leave it.                                           *)
FlashInv ==
  /\ AlwaysAWayBack
  /\ mark[boot] \in {"valid", "new", "pending"}
  /\ c.node = "leaving" => boot = Spare /\ mark[boot] = "new"
  /\ c.node # "leaving" => boot = run /\ mark[boot] # "new"
  /\ c.node # "starting" => slot[run].sound
  /\ c.phase = "writing" => mark[run] # "pending"
  /\ c.node = "starting" => c.phase = "idle"

(* What is worked on is there, and has attempts left. *)
WorkInv ==
  /\ \A id \in Ids : owner[id] = "work" => Held(id)
  /\ \A id \in Ids : id = c.id /\ owner[id] = "work" => c.phase # "failed" /\ ~Spent(id)

(* A bundle that was tried while no other got as far as the record is the   *)
(* one of the record, and has as many attempts on it.                       *)
CountInv ==
  \A id \in Ids :
    /\ tried[id] > 0 /\ entered \subseteq {id} =>
         /\ disk.id = id /\ tried[id] <= disk.attempts
         /\ ram.id = id /\ tried[id] <= ram.attempts

IInv == TypeOK /\ FlashInv /\ WorkInv /\ CountInv

-----------------------------------------------------------------------------
LEMMA SlotFacts ==
  ASSUME NEW s \in Slots
  PROVE  /\ Other(s) \in Slots /\ Other(s) # s /\ Other(Other(s)) = s
         /\ \A t \in Slots : t # s => t = Other(s)
BY DEF Slots, Other

LEMMA InitInv == Init => IInv
<1> SUFFICES ASSUME Init PROVE IInv
  OBVIOUS
<1> USE OtaAssumption DEF Init, Starting, NoRecord, Erased, Untried
<1>1. TypeOK
  BY DEF TypeOK, Consumers, Phases, Records, Images, Slots
<1>2. FlashInv
  BY DEF FlashInv, AlwaysAWayBack, Slots
<1>3. WorkInv
  BY DEF WorkInv
<1>4. CountInv
  BY DEF CountInv
<1>5. QED
  BY <1>1, <1>2, <1>3, <1>4 DEF IInv

-----------------------------------------------------------------------------
(* The types of what the steps are made of.                                 *)

(* A consumer that starts, claims or gives up is a consumer. *)
LEMMA ConsumerTypes ==
  /\ Starting \in Consumers
  /\ \A x \in Consumers, id \in Ids : Claiming(x, id) \in Consumers
  /\ \A x \in Consumers : GivenUp(x) \in Consumers
<1>1. 0 \in 0 .. Chunks
  BY OtaAssumption
<1>2. Starting \in Consumers
  BY <1>1 DEF Starting, Consumers, Phases
<1>3. ASSUME NEW x \in Consumers, NEW id \in Ids
      PROVE  Claiming(x, id) \in Consumers
  BY <1>1 DEF Claiming, Consumers, Phases
<1>4. ASSUME NEW x \in Consumers
      PROVE  GivenUp(x) \in Consumers
  <2>1. x.id \in Ids \cup {NoId}
    BY DEF Consumers
  <2>2. QED
    BY <1>1, <2>1 DEF GivenUp, Consumers, Phases
<1>5. QED
  BY <1>2, <1>3, <1>4

(* Being offered a bundle leaves the claim or the old consumer. *)
LEMMA OfferedType ==
  ASSUME TypeOK, NEW id \in Ids, NEW b \in Bundles, Offered(id, b)
  PROVE  /\ c' \in Consumers
         /\ owner' \in [Ids -> {"none", "mine", "work"}]
         /\ c'.node = c.node
         /\ c' = c \/ c'.phase = "idle"
<1>1. CASE Takeable(c, id, b)
  <2>1. c' = Claiming(c, id) /\ owner' = [owner EXCEPT ![id] = "work"]
    BY <1>1 DEF Offered
  <2>2. c' \in Consumers
    BY <2>1, ConsumerTypes DEF TypeOK
  <2>3. owner' \in [Ids -> {"none", "mine", "work"}]
    BY <2>1 DEF TypeOK
  <2>4. c'.node = c.node /\ c'.phase = "idle"
    BY <2>1 DEF TypeOK, Consumers, Claiming
  <2>5. QED
    BY <2>2, <2>3, <2>4
<1>2. CASE ~Takeable(c, id, b)
  BY <1>2 DEF Offered, TypeOK
<1>3. QED
  BY <1>1, <1>2

(* Nobody else works: a bundle taken from idle hands is the only work, is   *)
(* the one claimed, and has attempts left.                                  *)
LEMMA OfferedWork ==
  ASSUME TypeOK, ~Busy, NEW id \in Ids, NEW b \in Bundles, Offered(id, b), ram' = ram
  PROVE  \A j \in Ids : owner'[j] = "work" =>
            j = id /\ c'.phase = "idle" /\ ~Spent(id)'
<1>1. CASE Takeable(c, id, b)
  <2>1. c' = Claiming(c, id) /\ owner' = [owner EXCEPT ![id] = "work"]
    BY <1>1 DEF Offered
  <2>2. c'.phase = "idle" /\ \A j \in Ids \ {id} : owner'[j] # "work"
    BY <2>1 DEF TypeOK, Consumers, Claiming, Busy
  <2>3. ~Spent(id)'
    BY <1>1 DEF Takeable, Spent
  <2>4. QED
    BY <2>2, <2>3
<1>2. CASE ~Takeable(c, id, b)
  BY <1>2 DEF Offered, TypeOK, Busy
<1>3. QED
  BY <1>1, <1>2

(* Giving up, whether the file stays or goes. *)
LEMMA GiveUpType ==
  ASSUME TypeOK, NEW id \in Ids, GiveUp(id) \/ GiveUpAndDelete(id)
  PROVE  /\ held' \in [Ids -> Bundles \cup {Absent}]
         /\ owner' \in [Ids -> {"none", "mine", "work"}]
         /\ c' \in Consumers
         /\ c'.phase = "failed" /\ c'.node = c.node /\ c'.id = c.id
         /\ owner'[id] # "work"
         /\ \A j \in Ids \ {id} : owner'[j] = owner[j] /\ held'[j] = held[j]
<1>1. c' = GivenUp(c)
  BY DEF GiveUp, GiveUpAndDelete
<1>2. c' \in Consumers
  BY <1>1, ConsumerTypes DEF TypeOK
<1>3. c'.phase = "failed" /\ c'.node = c.node /\ c'.id = c.id
  BY <1>1 DEF GivenUp, TypeOK, Consumers
<1>4. QED
  BY <1>2, <1>3 DEF GiveUp, GiveUpAndDelete, TypeOK

(* What is worked on has a header. *)
LEMMA HeadType ==
  ASSUME TypeOK, WorkInv, NEW id \in Ids, Working(id)
  PROVE  Head \in Bundles /\ Head.stamp \in Nat
<1>1. Head \in Bundles
  BY DEF Head, Working, WorkInv, Held, TypeOK
<1>2. QED
  BY <1>1, OtaAssumption DEF BundleRecords

(* The record of the attempt is one: there was an attempt left. *)
LEMMA AttemptType ==
  ASSUME TypeOK, WorkInv, NEW id \in Ids, Working(id)
  PROVE  /\ Attempt \in Records /\ Attempt.id = id /\ Attempt.attempts >= 1
         /\ ram.id = id => Attempt.attempts = ram.attempts + 1
<1>1. c.id = id /\ ~Spent(id)
  BY DEF Working, WorkInv
<1>2. ram.attempts \in 0 .. AttemptsMax /\ AttemptsMax \in 1 .. 254
  BY OtaAssumption DEF TypeOK, Records
<1>3. ram.id = id => ram.attempts + 1 \in 1 .. AttemptsMax
  BY <1>1, <1>2 DEF Spent
<1>4. 1 \in 0 .. AttemptsMax
  BY <1>2
<1>5. Head.stamp \in Nat
  BY HeadType
<1>6. QED
  BY <1>1, <1>2, <1>3, <1>4, <1>5 DEF Attempt, Records

(* The spare slot, erased or written. *)
LEMMA ErasingType ==
  ASSUME TypeOK, Erasing
  PROVE  slot' \in [Slots -> Images] /\ slot'[run] = slot[run]
BY SlotFacts DEF TypeOK, Erasing, Spare, Erased, Images

LEMMA LandedType ==
  ASSUME TypeOK, WorkInv, NEW id \in Ids, Working(id),
         NEW torn \in Torn, slot' = Landed(torn)
  PROVE  slot' \in [Slots -> Images] /\ slot'[run] = slot[run]
<1>1. Head.stamp \in Nat
  BY HeadType
<1>2. torn \in BOOLEAN
  <2>1. c.torn \in BOOLEAN
    BY DEF TypeOK, Consumers
  <2>2. CASE Difference
    <3>1. torn = FALSE \/ torn = ("flash" \in Faults)
      BY <2>2, Zenon DEF Torn
    <3>2. ("flash" \in Faults) \in BOOLEAN
      OBVIOUS
    <3>3. CASE torn = FALSE
      BY <3>3
    <3>4. CASE torn = ("flash" \in Faults)
      BY <3>2, <3>4, Zenon
    <3>5. QED
      BY <3>1, <3>3, <3>4
  <2>3. CASE ~Difference
    BY <2>1, <2>3 DEF Torn
  <2>4. QED
    BY <2>2, <2>3
<1>3. [stamp |-> Head.stamp, sound |-> ~torn] \in Images
  BY <1>1, <1>2 DEF Images
<1>4. QED
  BY <1>3, SlotFacts DEF Landed, Spare, TypeOK

(* The history counts as far as it needs to. *)
LEMMA TryType ==
  ASSUME TypeOK, NEW id \in Ids, Try(id)
  PROVE  tried' \in [Ids -> 0 .. AttemptsMax + 1] /\ entered' \subseteq Ids
BY OtaAssumption DEF TypeOK, Try, Enter, UpTo

(* The record counts the attempt with the history. *)
LEMMA TryCounts ==
  ASSUME TypeOK, WorkInv, CountInv, NEW id \in Ids, Working(id), Try(id),
         ram' = Attempt, disk' = Attempt
  PROVE  CountInv'
<1>1. /\ Attempt.id = id /\ Attempt.attempts >= 1 /\ Attempt.attempts \in Nat
      /\ ram.id = id => Attempt.attempts = ram.attempts + 1
  BY AttemptType DEF Records
<1>2. /\ tried[id] \in Nat /\ ram.attempts \in Nat
      /\ tried'[id] \in Nat /\ tried'[id] <= tried[id] + 1
  BY OtaAssumption DEF TypeOK, Records, Try, UpTo
<1>3. entered' = entered \cup {id}
  BY DEF Try, Enter
<1>4. SUFFICES ASSUME entered' \subseteq {id}
               PROVE  tried'[id] <= Attempt.attempts
  BY <1>1, <1>3 DEF CountInv
<1>5. CASE tried[id] = 0
  BY <1>1, <1>2, <1>5
<1>6. CASE tried[id] > 0
  <2>1. ram.id = id /\ tried[id] <= ram.attempts
    BY <1>3, <1>4, <1>6 DEF CountInv
  <2>2. QED
    BY <1>1, <1>2, <2>1
<1>7. QED
  BY <1>2, <1>5, <1>6

-----------------------------------------------------------------------------
(* Every step keeps the invariant.                                          *)

LEMMA BeginKeeps == IInv /\ Begin => IInv'
<1> SUFFICES ASSUME IInv, Begin PROVE IInv'
  OBVIOUS
<1> USE DEF IInv
<1>1. PICK on \in BOOLEAN :
        LET fresh == [Starting EXCEPT !.node = "up", !.enabled = on,
                                      !.probation = mark[run] = "pending"]
            taken == {id \in Ids : Held(id) /\ Takeable(fresh, id, held[id])}
        IN /\ owner' = [id \in Ids |-> IF id \in taken THEN "work"
                                       ELSE IF Held(id) THEN "mine" ELSE "none"]
           /\ IF taken = {} THEN c' = fresh
              ELSE \E last \in taken : c' = Claiming(fresh, last)
  BY DEF Begin
<1> DEFINE fresh == [Starting EXCEPT !.node = "up", !.enabled = on,
                                     !.probation = mark[run] = "pending"]
           taken == {id \in Ids : Held(id) /\ Takeable(fresh, id, held[id])}
<1>2. /\ UNCHANGED <<held, ram, disk, slot, mark, boot, run, tried, entered>>
      /\ c.node = "starting" /\ slot[run].sound
  BY DEF Begin, flash, history
<1>3. fresh \in Consumers /\ fresh.node = "up" /\ fresh.phase = "idle"
  <2>1. (mark[run] = "pending") \in BOOLEAN
    OBVIOUS
  <2>2. fresh \in Consumers
    BY <2>1, ConsumerTypes DEF Consumers
  <2>3. QED
    BY <2>2 DEF Starting, Consumers
<1>4. c' \in Consumers /\ c'.node = "up" /\ c'.phase = "idle"
  <2>1. CASE taken = {}
    BY <1>1, <1>3, <2>1
  <2>2. CASE taken # {}
    <3>1. PICK last \in taken : c' = Claiming(fresh, last)
      BY <1>1, <2>2
    <3>2. c' \in Consumers
      BY <3>1, <1>3, ConsumerTypes
    <3>3. c'.node = "up" /\ c'.phase = "idle"
      BY <3>1, <1>3 DEF Claiming, Consumers
    <3>4. QED
      BY <3>2, <3>3
  <2>3. QED
    BY <2>1, <2>2
<1>5. \A id \in Ids : owner'[id] = "work" => Held(id) /\ ~Spent(id)
  BY <1>1 DEF Takeable
<1>6. TypeOK'
  BY <1>1, <1>2, <1>4 DEF TypeOK
<1>7. FlashInv'
  BY <1>2, <1>4 DEF FlashInv, AlwaysAWayBack, Spare
<1>8. WorkInv'
  BY <1>2, <1>4, <1>5 DEF WorkInv, Held, Spent
<1>9. CountInv'
  BY <1>2, <1>4 DEF CountInv, FlashInv
<1>10. QED
  BY <1>6, <1>7, <1>8, <1>9

LEMMA UploadKeeps == IInv /\ Upload => IInv'
<1> SUFFICES ASSUME IInv, Upload PROVE IInv'
  OBVIOUS
<1> USE DEF IInv
<1>1. PICK id \in Ids, b \in Bundles :
        held' = [held EXCEPT ![id] = b] /\ Offered(id, b)
  BY DEF Upload
<1>2. /\ UNCHANGED <<ram, disk, slot, mark, boot, run>>
      /\ tried' = Untried /\ entered' = {} /\ Up /\ ~Busy
  BY DEF Upload, Intervention, flash
<1>3. TypeOK'
  <2>1. tried' \in [Ids -> 0 .. AttemptsMax + 1]
    BY <1>2, OtaAssumption DEF Untried
  <2>2. QED
    BY <1>1, <1>2, <2>1, OfferedType DEF TypeOK
<1>4. FlashInv'
  <2>1. c'.node = c.node /\ (c' = c \/ c'.phase = "idle")
    BY <1>1, OfferedType
  <2>2. QED
    BY <1>2, <2>1 DEF FlashInv, AlwaysAWayBack, Spare
<1>5. WorkInv'
  <2>1. \A j \in Ids : owner'[j] = "work" =>
          j = id /\ c'.phase = "idle" /\ ~Spent(id)'
    BY <1>1, <1>2, OfferedWork
  <2>2. held'[id] # Absent
    BY <1>1, OtaAssumption DEF TypeOK
  <2>3. QED
    BY <2>1, <2>2 DEF WorkInv, Held
<1>6. CountInv'
  BY <1>2 DEF CountInv, Untried
<1>7. QED
  BY <1>3, <1>4, <1>5, <1>6

LEMMA ReofferKeeps == IInv /\ Reoffer => IInv'
<1> SUFFICES ASSUME IInv, Reoffer PROVE IInv'
  OBVIOUS
<1> USE DEF IInv
<1>1. PICK id \in Ids : Held(id) /\ Offered(id, held[id])
  BY DEF Reoffer
<1>2. /\ UNCHANGED <<held, ram, disk, slot, mark, boot, run, tried, entered>>
      /\ Up /\ ~Busy
  BY DEF Reoffer, flash, history
<1>3. held[id] \in Bundles
  BY <1>1 DEF Held, TypeOK
<1>4. c'.node = c.node /\ (c' = c \/ c'.phase = "idle")
  BY <1>1, <1>3, OfferedType
<1>5. TypeOK'
  BY <1>1, <1>2, <1>3, OfferedType DEF TypeOK
<1>6. FlashInv'
  BY <1>2, <1>4 DEF FlashInv, AlwaysAWayBack, Spare
<1>7. WorkInv'
  <2>1. \A j \in Ids : owner'[j] = "work" =>
          j = id /\ c'.phase = "idle" /\ ~Spent(id)'
    BY <1>1, <1>2, <1>3, OfferedWork
  <2>2. QED
    BY <1>1, <1>2, <2>1 DEF WorkInv, Held
<1>8. CountInv'
  <2>1. CASE c' = c
    BY <1>2, <2>1 DEF CountInv
  <2>2. CASE c' # c
    <3>1. Takeable(c, id, held[id])
      BY <1>1, <2>2 DEF Offered
    <3>2. c.phase # "failed"
      BY <3>1 DEF Takeable
    <3>3. QED
      BY <1>2, <3>2 DEF CountInv
  <2>3. QED
    BY <2>1, <2>2
<1>9. QED
  BY <1>5, <1>6, <1>7, <1>8

LEMMA DeleteKeeps == IInv /\ Delete => IInv'
<1> SUFFICES ASSUME IInv, Delete PROVE IInv'
  OBVIOUS
<1>1. TypeOK'
  BY DEF IInv, TypeOK, Delete, flash, history
<1> USE OtaAssumption, SlotFacts DEF IInv, Delete, Up, Held, flash, history
<1>2. FlashInv'
  BY DEF FlashInv, AlwaysAWayBack, TypeOK, Consumers, Phases, Images
<1>3. WorkInv'
  BY DEF WorkInv, Held, Spent, TypeOK, Consumers
<1>4. CountInv'
  BY DEF CountInv, WorkInv, TypeOK, Consumers, Records
<1>5. QED
  BY <1>1, <1>2, <1>3, <1>4

LEMMA WorkIdlesKeeps == IInv /\ WorkIdles => IInv'
<1> SUFFICES ASSUME IInv, WorkIdles PROVE IInv'
  OBVIOUS
<1>1. TypeOK'
  BY DEF IInv, TypeOK, WorkIdles, flash, history
<1> USE OtaAssumption, SlotFacts DEF IInv, WorkIdles, Up, flash, history
<1>2. FlashInv'
  BY DEF FlashInv, AlwaysAWayBack, TypeOK, Consumers, Phases, Images
<1>3. WorkInv'
  BY DEF WorkInv, Held, Spent, TypeOK, Consumers
<1>4. CountInv'
  BY DEF CountInv, WorkInv, TypeOK, Consumers, Records
<1>5. QED
  BY <1>1, <1>2, <1>3, <1>4

LEMMA WorkOpenFailsKeeps == IInv /\ WorkOpenFails => IInv'
<1> SUFFICES ASSUME IInv, WorkOpenFails PROVE IInv'
  OBVIOUS
<1>1. TypeOK'
  <2>1. PICK id \in Ids : GiveUp(id)
    BY DEF WorkOpenFails
  <2>2. slot' \in [Slots -> Images]
    BY ErasingType DEF WorkOpenFails, IInv, TypeOK
  <2>3. QED
    BY <2>1, <2>2, GiveUpType DEF IInv, TypeOK, WorkOpenFails, history
<1> USE OtaAssumption, SlotFacts DEF IInv, WorkOpenFails, Working, GiveUp,
        Openable, Erasing, history, Up, GivenUp, Spare, Erased
<1>2. FlashInv'
  BY DEF FlashInv, AlwaysAWayBack, TypeOK, Consumers, Phases, Images
<1>3. WorkInv'
  BY DEF WorkInv, Held, Spent, TypeOK, Consumers
<1>4. CountInv'
  BY DEF CountInv, WorkInv, TypeOK, Consumers, Records
<1>5. QED
  BY <1>1, <1>2, <1>3, <1>4

LEMMA WorkStreamsKeeps == IInv /\ WorkStreams => IInv'
<1> SUFFICES ASSUME IInv, WorkStreams PROVE IInv'
  OBVIOUS
<1>1. TypeOK'
  <2>1. c.off + 1 \in 0 .. Chunks
    BY OtaAssumption DEF WorkStreams, Streaming, IInv, TypeOK, Consumers
  <2>2. PICK torn \in BOOLEAN :
          c' = [c EXCEPT !.phase = "writing", !.off = @ + 1,
                         !.torn = (c.phase = "writing" /\ @) \/ torn]
    BY DEF WorkStreams
  <2>3. c' \in Consumers
    BY <2>1, <2>2 DEF IInv, TypeOK, Consumers, Phases
  <2>4. slot' \in [Slots -> Images]
    BY ErasingType DEF WorkStreams, IInv
  <2>5. QED
    BY <2>3, <2>4 DEF IInv, TypeOK, WorkStreams, history
<1> USE OtaAssumption, SlotFacts DEF IInv, WorkStreams, Working, Streaming,
        flash, Erasing, history, Up, Openable, Difference, Spare, Erased, Head
<1>2. FlashInv'
  BY DEF FlashInv, AlwaysAWayBack, TypeOK, Consumers, Phases, Images
<1>3. WorkInv'
  BY DEF WorkInv, Held, Spent, TypeOK, Consumers
<1>4. CountInv'
  BY DEF CountInv, WorkInv, TypeOK, Consumers, Records
<1>5. QED
  BY <1>1, <1>2, <1>3, <1>4

LEMMA WorkStreamFailsKeeps == IInv /\ WorkStreamFails => IInv'
<1> SUFFICES ASSUME IInv, WorkStreamFails PROVE IInv'
  OBVIOUS
<1>1. TypeOK'
  <2>1. PICK id \in Ids : GiveUp(id) \/ GiveUpAndDelete(id)
    BY DEF WorkStreamFails
  <2>2. slot' \in [Slots -> Images]
    BY ErasingType DEF WorkStreamFails, IInv
  <2>3. QED
    BY <2>1, <2>2, GiveUpType DEF IInv, TypeOK, WorkStreamFails, history
<1>2. FlashInv'
  <2>1. PICK id \in Ids : GiveUp(id) \/ GiveUpAndDelete(id)
    BY DEF WorkStreamFails
  <2>2. c'.phase = "failed" /\ c'.node = c.node
    BY <2>1, GiveUpType DEF IInv
  <2>3. slot'[run] = slot[run]
    BY ErasingType DEF WorkStreamFails, IInv
  <2>4. mark[run] # "pending" /\ Up
    BY DEF WorkStreamFails, Streaming, Openable, Working, IInv, FlashInv
  <2>5. QED
    BY <2>2, <2>3, <2>4 DEF WorkStreamFails, IInv, FlashInv, AlwaysAWayBack, Up
<1>3. WorkInv'
  <2>1. PICK id \in Ids : Working(id) /\ (GiveUp(id) \/ GiveUpAndDelete(id))
    BY DEF WorkStreamFails
  <2>2. /\ owner'[id] # "work" /\ c'.id = c.id
        /\ \A j \in Ids \ {id} : owner'[j] = owner[j] /\ held'[j] = held[j]
    BY <2>1, GiveUpType DEF IInv
  <2>3. id = c.id
    BY <2>1 DEF Working
  <2>4. QED
    BY <2>2, <2>3 DEF WorkStreamFails, IInv, WorkInv, Held, Spent
<1> USE OtaAssumption, SlotFacts DEF IInv, WorkStreamFails, Working,
        Streaming, GiveUp, Head, GiveUpAndDelete, Erasing, history, Up,
        Openable, Difference, GivenUp, Spare, Erased
<1>4. CountInv'
  BY DEF CountInv, WorkInv, TypeOK, Consumers, Records
<1>5. QED
  BY <1>1, <1>2, <1>3, <1>4

LEMMA WorkDisprovedKeeps == IInv /\ WorkDisproved => IInv'
<1> SUFFICES ASSUME IInv, WorkDisproved PROVE IInv'
  OBVIOUS
<1>1. TypeOK'
  <2>1. PICK id \in Ids : GiveUp(id) \/ GiveUpAndDelete(id)
    BY DEF WorkDisproved
  <2>2. slot' \in [Slots -> Images]
    BY ErasingType DEF WorkDisproved, IInv
  <2>3. QED
    BY <2>1, <2>2, GiveUpType DEF IInv, TypeOK, WorkDisproved, history
<1> USE OtaAssumption, SlotFacts DEF IInv, WorkDisproved, Working, Finishing,
        Head, Difference, GiveUpAndDelete, Erasing, history, Up, Openable,
        GivenUp, Spare, Erased
<1>2. FlashInv'
  BY DEF FlashInv, AlwaysAWayBack, TypeOK, Consumers, Phases, Images
<1>3. WorkInv'
  BY DEF WorkInv, Held, Spent, TypeOK, Consumers
<1>4. CountInv'
  BY DEF CountInv, WorkInv, TypeOK, Consumers, Records
<1>5. QED
  BY <1>1, <1>2, <1>3, <1>4

LEMMA WorkUnverifiedKeeps == IInv /\ WorkUnverified => IInv'
<1> SUFFICES ASSUME IInv, WorkUnverified PROVE IInv'
  OBVIOUS
<1>1. TypeOK'
  <2>1. PICK id \in Ids, torn \in Torn :
          Working(id) /\ GiveUp(id) /\ slot' = Landed(torn)
    BY DEF WorkUnverified
  <2>2. slot' \in [Slots -> Images]
    BY <2>1, LandedType DEF IInv
  <2>3. QED
    BY <2>1, <2>2, GiveUpType DEF IInv, TypeOK, WorkUnverified, history
<1> USE OtaAssumption, SlotFacts DEF IInv, WorkUnverified, Working,
        Finishing, Head, Torn, GiveUp, Landed, history, Up, Openable,
        Difference, flash, GivenUp, Spare
<1>2. FlashInv'
  BY DEF FlashInv, AlwaysAWayBack, TypeOK, Consumers, Phases, Images
<1>3. WorkInv'
  BY DEF WorkInv, Held, Spent, TypeOK, Consumers
<1>4. CountInv'
  BY DEF CountInv, WorkInv, TypeOK, Consumers, Records
<1>5. QED
  BY <1>1, <1>2, <1>3, <1>4

LEMMA WorkUnrecordedKeeps == IInv /\ WorkUnrecorded => IInv'
<1> SUFFICES ASSUME IInv, WorkUnrecorded PROVE IInv'
  OBVIOUS
<1>1. TypeOK'
  <2>1. PICK id \in Ids, torn \in Torn :
          /\ Working(id) /\ GiveUp(id) /\ slot' = Landed(torn)
          /\ entered' = entered \cup {id}
    BY DEF WorkUnrecorded, Enter
  <2>2. slot' \in [Slots -> Images] /\ Attempt \in Records
    BY <2>1, LandedType, AttemptType DEF IInv
  <2>3. QED
    BY <2>1, <2>2, GiveUpType DEF IInv, TypeOK, WorkUnrecorded
<1> USE OtaAssumption, SlotFacts DEF IInv, WorkUnrecorded, Working, Torn,
        Verified, GiveUp, Landed, Enter, Attempt, Up, Difference, flash,
        Finishing, Head, Matches, GivenUp, Spare, Openable
<1>2. FlashInv'
  BY DEF FlashInv, AlwaysAWayBack, TypeOK, Consumers, Phases, Images
<1>3. WorkInv'
  BY DEF WorkInv, Held, Spent, TypeOK, Consumers
<1>4. CountInv'
  BY DEF CountInv, WorkInv, TypeOK, Consumers, Records
<1>5. QED
  BY <1>1, <1>2, <1>3, <1>4

LEMMA WorkInactiveKeeps == IInv /\ WorkInactive => IInv'
<1> SUFFICES ASSUME IInv, WorkInactive PROVE IInv'
  OBVIOUS
<1>1. TypeOK'
  <2>1. PICK id \in Ids, torn \in Torn :
          Working(id) /\ GiveUp(id) /\ slot' = Landed(torn) /\ Try(id)
    BY DEF WorkInactive
  <2>2. slot' \in [Slots -> Images] /\ Attempt \in Records
    BY <2>1, LandedType, AttemptType DEF IInv
  <2>3. tried' \in [Ids -> 0 .. AttemptsMax + 1] /\ entered' \subseteq Ids
    BY <2>1, TryType DEF IInv
  <2>4. QED
    BY <2>1, <2>2, <2>3, GiveUpType DEF IInv, TypeOK, WorkInactive
<1> USE OtaAssumption, SlotFacts DEF IInv, WorkInactive, Working, Torn,
        Verified, GiveUp, Landed, Try, Attempt, Up, Difference, flash,
        Finishing, Head, Matches, GivenUp, Spare, Enter, UpTo, Openable
<1>2. FlashInv'
  BY DEF FlashInv, AlwaysAWayBack, TypeOK, Consumers, Phases, Images
<1>3. WorkInv'
  BY DEF WorkInv, Held, Spent, TypeOK, Consumers
<1>4. CountInv'
  BY TryCounts
<1>5. QED
  BY <1>1, <1>2, <1>3, <1>4

LEMMA WorkAppliesKeeps == IInv /\ WorkApplies => IInv'
<1> SUFFICES ASSUME IInv, WorkApplies PROVE IInv'
  OBVIOUS
<1>1. TypeOK'
  <2>1. PICK id \in Ids, torn \in Torn :
          /\ Working(id) /\ slot' = Landed(torn) /\ Try(id)
          /\ owner' = [owner EXCEPT ![id] = "mine"]
    BY DEF WorkApplies
  <2>2. slot' \in [Slots -> Images] /\ Attempt \in Records
    BY <2>1, LandedType, AttemptType DEF IInv
  <2>3. tried' \in [Ids -> 0 .. AttemptsMax + 1] /\ entered' \subseteq Ids
    BY <2>1, TryType DEF IInv
  <2>4. c' \in Consumers
    <3>1. 0 \in 0 .. Chunks
      BY OtaAssumption
    <3>2. QED
      BY <3>1 DEF WorkApplies, IInv, TypeOK, Consumers, Phases
  <2>5. /\ mark' \in [Slots -> {"valid", "new", "pending", "aborted", "invalid"}]
        /\ boot' \in Slots
    BY SlotFacts DEF WorkApplies, Activated, Spare, IInv, TypeOK
  <2>6. QED
    BY <2>1, <2>2, <2>3, <2>4, <2>5 DEF IInv, TypeOK, WorkApplies
<1> USE OtaAssumption, SlotFacts DEF IInv, WorkApplies, Working, Torn,
        Verified, Landed, Try, Attempt, Activated, Up, Difference, flash,
        Finishing, Head, Matches, Spare, Enter, UpTo, Openable
<1>2. FlashInv'
  BY DEF FlashInv, AlwaysAWayBack, TypeOK, Consumers, Phases, Images
<1>3. WorkInv'
  BY DEF WorkInv, Held, Spent, TypeOK, Consumers
<1>4. CountInv'
  BY TryCounts
<1>5. QED
  BY <1>1, <1>2, <1>3, <1>4

LEMMA RestartKeeps == IInv /\ Restart => IInv'
<1> SUFFICES ASSUME IInv, Restart PROVE IInv'
  OBVIOUS
<1>1. TypeOK'
  <2>1. /\ mark' \in [Slots -> {"valid", "new", "pending", "aborted", "invalid"}]
        /\ boot' \in Slots
    BY SlotFacts DEF Restart, IInv, TypeOK
  <2>2. QED
    BY <2>1, ConsumerTypes DEF Restart, Forgotten, history, IInv, TypeOK
<1> USE OtaAssumption, SlotFacts DEF IInv, Restart, Forgotten, history,
        Starting
<1>2. FlashInv'
  BY DEF FlashInv, AlwaysAWayBack, TypeOK, Consumers, Phases, Images
<1>3. WorkInv'
  BY DEF WorkInv, Held, Spent, TypeOK, Consumers
<1>4. CountInv'
  BY DEF CountInv, WorkInv, TypeOK, Consumers, Records
<1>5. QED
  BY <1>1, <1>2, <1>3, <1>4

LEMMA CrashApplyingKeeps == IInv /\ CrashApplying => IInv'
<1> SUFFICES ASSUME IInv, CrashApplying PROVE IInv'
  OBVIOUS
<1>1. TypeOK'
  <2>1. PICK id \in Ids, torn \in Torn :
          Working(id) /\ slot' = Landed(torn) /\ Try(id)
    BY DEF CrashApplying
  <2>2. slot' \in [Slots -> Images] /\ Attempt \in Records
    BY <2>1, LandedType, AttemptType DEF IInv
  <2>3. tried' \in [Ids -> 0 .. AttemptsMax + 1] /\ entered' \subseteq Ids
    BY <2>1, TryType DEF IInv
  <2>4. QED
    BY <2>2, <2>3, ConsumerTypes DEF CrashApplying, Cut, Forgotten, IInv, TypeOK
<1> USE OtaAssumption, SlotFacts DEF IInv, CrashApplying, Working, Torn,
        Verified, Landed, Try, Cut, Forgotten, Up, Difference, flash,
        Finishing, Head, Matches, Spare, Enter, UpTo, Attempt, Starting,
        Openable
<1>2. FlashInv'
  BY DEF FlashInv, AlwaysAWayBack, TypeOK, Consumers, Phases, Images
<1>3. WorkInv'
  BY DEF WorkInv, Held, Spent, TypeOK, Consumers
<1>4. CountInv'
  BY TryCounts
<1>5. QED
  BY <1>1, <1>2, <1>3, <1>4

LEMMA FlushKeeps == IInv /\ Flush => IInv'
<1> SUFFICES ASSUME IInv, Flush PROVE IInv'
  OBVIOUS
<1>1. TypeOK'
  BY DEF IInv, TypeOK, Flush, flash, history
<1> USE OtaAssumption, SlotFacts DEF IInv, Flush, Up, flash, history
<1>2. FlashInv'
  BY DEF FlashInv, AlwaysAWayBack, TypeOK, Consumers, Phases, Images
<1>3. WorkInv'
  BY DEF WorkInv, Held, Spent, TypeOK, Consumers
<1>4. CountInv'
  BY DEF CountInv, WorkInv, TypeOK, Consumers, Records
<1>5. QED
  BY <1>1, <1>2, <1>3, <1>4

LEMMA ConfirmKeeps == IInv /\ Confirm => IInv'
<1> SUFFICES ASSUME IInv, Confirm PROVE IInv'
  OBVIOUS
<1>1. TypeOK'
  <2>1. c' \in Consumers
    BY DEF Confirm, IInv, TypeOK, Consumers
  <2>2. ram' \in Records /\ disk' \in Records
    BY OtaAssumption DEF Confirm, Saved, IInv, TypeOK, Records
  <2>3. tried' \in [Ids -> 0 .. AttemptsMax + 1] /\ entered' \subseteq Ids
    BY OtaAssumption DEF Confirm, Intervention, Untried, history, IInv, TypeOK
  <2>4. mark' \in [Slots -> {"valid", "new", "pending", "aborted", "invalid"}]
    BY DEF Confirm, IInv, TypeOK
  <2>5. QED
    BY <2>1, <2>2, <2>3, <2>4 DEF Confirm, IInv, TypeOK
<1> USE OtaAssumption, SlotFacts DEF IInv, Confirm, Up, MyStamp, Saved,
        Intervention, history, Untried
<1>2. FlashInv'
  BY DEF FlashInv, AlwaysAWayBack, TypeOK, Consumers, Phases, Images
<1>3. WorkInv'
  <2>1. c'.id = c.id /\ c'.phase = c.phase
    BY DEF Confirm, IInv, TypeOK, Consumers
  <2>2. \A id \in Ids : Spent(id)' => Spent(id)
    BY OtaAssumption DEF Confirm, Spent, IInv, TypeOK, Records
  <2>3. QED
    BY <2>1, <2>2 DEF Confirm, IInv, WorkInv, Held
<1>4. CountInv'
  BY DEF CountInv, WorkInv, TypeOK, Consumers, Records
<1>5. QED
  BY <1>1, <1>2, <1>3, <1>4

LEMMA AbandonAndRollBackKeeps == IInv /\ AbandonAndRollBack => IInv'
<1> SUFFICES ASSUME IInv, AbandonAndRollBack PROVE IInv'
  OBVIOUS
<1>1. TypeOK'
  <2>1. /\ mark' \in [Slots -> {"valid", "new", "pending", "aborted", "invalid"}]
        /\ boot' \in Slots /\ run' \in Slots
    BY SlotFacts DEF AbandonAndRollBack, RollBack, Spare, IInv, TypeOK
  <2>2. disk' \in Records
    BY OtaAssumption DEF AbandonAndRollBack, IInv, TypeOK, Records
  <2>3. tried' \in [Ids -> 0 .. AttemptsMax + 1]
    BY OtaAssumption DEF AbandonAndRollBack, IInv, TypeOK
  <2>4. QED
    BY <2>1, <2>2, <2>3, ConsumerTypes DEF AbandonAndRollBack, Forgotten, IInv, TypeOK
<1> USE OtaAssumption, SlotFacts DEF IInv, AbandonAndRollBack, Up, RollBack,
        Forgotten, RollbackPossible, Spare, Starting
<1>2. FlashInv'
  BY DEF FlashInv, AlwaysAWayBack, TypeOK, Consumers, Phases, Images
<1>3. WorkInv'
  BY DEF WorkInv, Held, Spent, TypeOK, Consumers
<1>4. CountInv'
  BY DEF CountInv, WorkInv, TypeOK, Consumers, Records
<1>5. QED
  BY <1>1, <1>2, <1>3, <1>4

LEMMA CommandedRollBackKeeps == IInv /\ CommandedRollBack => IInv'
<1> SUFFICES ASSUME IInv, CommandedRollBack PROVE IInv'
  OBVIOUS
<1>1. TypeOK'
  <2>1. /\ mark' \in [Slots -> {"valid", "new", "pending", "aborted", "invalid"}]
        /\ boot' \in Slots /\ run' \in Slots
    BY SlotFacts DEF CommandedRollBack, RollBack, Spare, IInv, TypeOK
  <2>2. QED
    BY <2>1, ConsumerTypes DEF CommandedRollBack, Forgotten, history, IInv, TypeOK
<1> USE OtaAssumption, SlotFacts DEF IInv, CommandedRollBack, Up, RollBack,
        Forgotten, history, RollbackPossible, Spare, Starting
<1>2. FlashInv'
  BY DEF FlashInv, AlwaysAWayBack, TypeOK, Consumers, Phases, Images
<1>3. WorkInv'
  BY DEF WorkInv, Held, Spent, TypeOK, Consumers
<1>4. CountInv'
  BY DEF CountInv, WorkInv, TypeOK, Consumers, Records
<1>5. QED
  BY <1>1, <1>2, <1>3, <1>4

LEMMA RetryKeeps == IInv /\ Retry => IInv'
<1> SUFFICES ASSUME IInv, Retry PROVE IInv'
  OBVIOUS
<1>1. TypeOK'
  <2>1. c' \in Consumers
    BY DEF Retry, IInv, TypeOK, Consumers, Phases
  <2>2. NoRecord \in Records
    BY OtaAssumption DEF NoRecord, Records
  <2>3. ram' \in Records /\ disk' \in Records
    BY <2>2 DEF Retry, Saved, IInv, TypeOK
  <2>4. tried' \in [Ids -> 0 .. AttemptsMax + 1] /\ entered' \subseteq Ids
    BY OtaAssumption DEF Retry, Intervention, Untried
  <2>5. QED
    BY <2>1, <2>3, <2>4 DEF Retry, IInv, TypeOK, flash
<1> USE OtaAssumption, SlotFacts DEF IInv, Retry, Up, NoRecord, Saved,
        Intervention, flash, Untried
<1>2. FlashInv'
  BY DEF FlashInv, AlwaysAWayBack, TypeOK, Consumers, Phases, Images
<1>3. WorkInv'
  BY DEF WorkInv, Held, Spent, TypeOK, Consumers
<1>4. CountInv'
  BY DEF CountInv, WorkInv, TypeOK, Consumers, Records
<1>5. QED
  BY <1>1, <1>2, <1>3, <1>4

LEMMA EnableKeeps == IInv /\ Enable => IInv'
<1> SUFFICES ASSUME IInv, Enable PROVE IInv'
  OBVIOUS
<1>1. TypeOK'
  <2>1. c' \in Consumers
    BY DEF IInv, TypeOK, Enable, Consumers
  <2>2. QED
    BY <2>1 DEF IInv, TypeOK, Enable, flash, history
<1> USE OtaAssumption, SlotFacts DEF IInv, Enable, Up, flash, history
<1>2. FlashInv'
  BY DEF FlashInv, AlwaysAWayBack, TypeOK, Consumers, Phases, Images
<1>3. WorkInv'
  BY DEF WorkInv, Held, Spent, TypeOK, Consumers
<1>4. CountInv'
  BY DEF CountInv, WorkInv, TypeOK, Consumers, Records
<1>5. QED
  BY <1>1, <1>2, <1>3, <1>4

LEMMA UnchangedKeeps == IInv /\ UNCHANGED vars => IInv'
BY DEF vars, flash, history, IInv, TypeOK, FlashInv, AlwaysAWayBack, WorkInv, CountInv,
       Held, Spent, Spare

LEMMA NextKeeps == IInv /\ [Next]_vars => IInv'
BY UnchangedKeeps,
   BeginKeeps, UploadKeeps, ReofferKeeps, DeleteKeeps, WorkIdlesKeeps,
   WorkOpenFailsKeeps, WorkStreamsKeeps, WorkStreamFailsKeeps,
   WorkDisprovedKeeps, WorkUnverifiedKeeps, WorkUnrecordedKeeps,
   WorkInactiveKeeps, WorkAppliesKeeps, RestartKeeps, CrashApplyingKeeps,
   FlushKeeps, ConfirmKeeps, AbandonAndRollBackKeeps, CommandedRollBackKeeps,
   RetryKeeps, EnableKeeps
DEF Next

-----------------------------------------------------------------------------
(* What is promised.                                                        *)

(* The strengthened invariant holds in every reachable state of the update. *)
THEOREM InvariantHolds == Spec => []IInv
<1>1. Init => IInv
  BY InitInv
<1>2. IInv /\ [Next]_vars => IInv'
  BY NextKeeps
<1>3. QED
  BY <1>1, <1>2, PTL DEF Spec

(* The consumer, its records, the slots and the marks keep their types: in  *)
(* particular no attempt is written down beyond the limit.                  *)
THEOREM TypeCorrect == Spec => []TypeOK
<1>1. IInv => TypeOK
  BY DEF IInv
<1>2. QED
  BY <1>1, InvariantHolds, PTL

(* An image that has not confirmed itself always has a sound and confirmed  *)
(* one in the other slot to fall back to.                                   *)
THEOREM WayBackKept == Spec => []AlwaysAWayBack
<1>1. IInv => AlwaysAWayBack
  BY DEF IInv, FlashInv
<1>2. QED
  BY <1>1, InvariantHolds, PTL

(* A bundle that alone is tried is tried no more often than the limit,      *)
(* whatever fails, restarts and rolls back between its attempts.            *)
THEOREM AttemptsBounded == Spec => []OneBundleIsLimited
<1>1. IInv => OneBundleIsLimited
  <2>1. SUFFICES ASSUME IInv, NEW id \in Ids,
                        entered \ {id} = {}
                 PROVE  tried[id] <= AttemptsMax
    BY DEF OneBundleIsLimited
  <2> AttemptsMax \in Nat
    BY OtaAssumption
  <2> TypeOK
    BY <2>1 DEF IInv
  <2>2. \A j \in Ids : tried[j] \in Nat
    BY DEF TypeOK
  <2>3. disk.attempts \in 0 .. AttemptsMax /\ AttemptsMax \in Nat
    BY DEF TypeOK, Records
  <2>4. CASE tried[id] = 0
    BY <2>3, <2>4
  <2>5. CASE tried[id] > 0
    <3>1. tried[id] <= disk.attempts
      BY <2>1, <2>5 DEF IInv, CountInv
    <3>2. QED
      BY <3>1, <2>2, <2>3
  <2>6. QED
    BY <2>2, <2>4, <2>5
<1>2. QED
  BY <1>1, InvariantHolds, PTL

(* Only the end of the work selects a new image for the next start. *)
LEMMA OnlyApplyingActivates ==
  ASSUME IInv, [Next]_vars, mark'[boot'] = "new", mark[boot'] # "new"
  PROVE  WorkApplies
<1>1. boot \in Slots /\ run \in Slots
  BY DEF IInv, TypeOK
<1>2. mark' # mark
  OBVIOUS
<1>3. ~Restart
  <2>1. SUFFICES ASSUME Restart PROVE FALSE
    OBVIOUS
  <2>2. CASE mark[boot] = "new"
    BY <2>1, <2>2, <1>1 DEF Restart, IInv, TypeOK
  <2>3. CASE mark[boot] = "pending"
    BY <2>1, <2>3, <1>1, SlotFacts DEF Restart, IInv, TypeOK
  <2>4. CASE mark[boot] \notin {"new", "pending"}
    BY <2>1, <2>4, <1>2 DEF Restart
  <2>5. QED
    BY <2>2, <2>3, <2>4
<1>4. ~Confirm
  BY <1>1 DEF Confirm, IInv, TypeOK
<1>5. ~AbandonAndRollBack /\ ~CommandedRollBack
  BY <1>1, SlotFacts
  DEF AbandonAndRollBack, CommandedRollBack, RollBack, RollbackPossible, Spare,
      IInv, TypeOK
<1>6. QED
  BY <1>2, <1>3, <1>4, <1>5
  DEF Next, vars, flash, history, Flush, Begin, Upload, Reoffer, Delete, WorkIdles,
      WorkOpenFails, WorkStreams, WorkStreamFails, WorkDisproved,
      WorkUnverified, WorkUnrecorded, WorkInactive, CrashApplying, Cut,
      Retry, Enable

(* What the end of the work leaves behind, in the slot and in the record. *)
LEMMA Applying ==
  ASSUME IInv, WorkApplies
  PROVE  /\ Head.whole
         /\ slot'[boot'].stamp = Head.stamp
         /\ Head.vouched => slot'[boot'].sound
         /\ disk' = Attempt /\ disk'.id = c.id /\ disk'.stamp = Head.stamp
         /\ disk'.attempts >= 1
         /\ ram.id = c.id => disk'.attempts = ram.attempts + 1
<1>1. PICK id \in Ids, torn \in Torn :
        Working(id) /\ Verified(torn) /\ slot' = Landed(torn)
  BY DEF WorkApplies
<1>2. boot' = Spare /\ Spare \in Slots
  BY SlotFacts DEF WorkApplies, Activated, Spare, IInv, TypeOK
<1>3. slot'[boot'] = [stamp |-> Head.stamp, sound |-> ~torn]
  BY <1>1, <1>2 DEF Landed, IInv, TypeOK
<1>4. Head.whole /\ (Head.vouched => ~torn)
  BY <1>1 DEF Verified, Matches
<1>5. disk' = Attempt /\ Attempt.stamp = Head.stamp
  BY DEF WorkApplies, Attempt
<1>6. c.id = id
  BY <1>1 DEF Working
<1>7. /\ Attempt.id = id /\ Attempt.attempts >= 1
      /\ ram.id = id => Attempt.attempts = ram.attempts + 1
  BY <1>1, AttemptType DEF IInv
<1>8. slot'[boot'].stamp = Head.stamp /\ (Head.vouched => slot'[boot'].sound)
  <2>1. slot'[boot'].stamp = Head.stamp
    BY <1>3
  <2>2. slot'[boot'].sound = ~torn
    BY <1>3
  <2>3. Head.vouched => slot'[boot'].sound
    BY <1>4, <2>2, Zenon
  <2>4. QED
    BY <2>1, <2>3
<1>9. QED
  BY <1>4, <1>5, <1>6, <1>7, <1>8

(* What is selected for the next start is what a bundle's header says it    *)
(* is, and is whole if the header vouches for the image.                    *)
THEOREM OnlyTheProvenIsActivated == Spec => ActivatedIsProven
<1>1. IInv /\ [Next]_vars =>
        [mark'[boot'] = "new" /\ mark[boot'] # "new"
           => /\ Head.whole
              /\ slot'[boot'].stamp = Head.stamp
              /\ Head.vouched => slot'[boot'].sound]_vars
  BY OnlyApplyingActivates, Applying
<1>2. QED
  BY <1>1, InvariantHolds, PTL DEF Spec, ActivatedIsProven

(* What is selected for the next start is in the saved record, with one     *)
(* attempt more than there were.                                            *)
THEOREM OnlyTheRecordedIsActivated == Spec => NothingUnrecordedRuns
<1>1. IInv /\ [Next]_vars =>
        [mark'[boot'] = "new" /\ mark[boot'] # "new"
           => /\ disk'.id = c.id /\ disk'.stamp = slot'[boot'].stamp
              /\ disk'.attempts >= 1
              /\ ram.id = c.id => disk'.attempts = ram.attempts + 1]_vars
  BY OnlyApplyingActivates, Applying
<1>2. QED
  BY <1>1, InvariantHolds, PTL DEF Spec, NothingUnrecordedRuns
=============================================================================
