------------------------- MODULE ContentStoreProofs -------------------------
(***************************************************************************)
(* What the content store promises, for every directory, every table size, *)
(* every number of consumers and every answer they give: the inductive     *)
(* invariant StoreInv, and from it that the store and the table of owners  *)
(* agree (StoreAgrees), what an upload may cost                            *)
(* (UploadCostsOnlyWhatItReplaces), and, of a directory whose flush does   *)
(* not fail, that a file at a real id was proven (RealIsProven).           *)
(*                                                                         *)
(* And, in the second half, what the backends under it promise, for every  *)
(* number of ids, slots, values and bytes: each call of the RAM backend    *)
(* and of the two that keep a file is a call of the seam ByteStore or      *)
(* shows nothing there, and what they say of a file is so (BackendsServe). *)
(* Both rest on an inductive invariant of the handles: RamInv, that a file *)
(* keeps exactly the chunks its map tells of, and VolumeInv, that what a   *)
(* reader holds is a beginning of the file, that a writer and what was     *)
(* said agree with the volume, and that the directory is listed once.      *)
(***************************************************************************)
EXTENDS MCUploads, Scans, FiniteSetTheorems, SequenceTheorems

(* Tables of owners in which nobody claims an id twice, and a store beside   *)
(* one: what begin() and the landing hand from one announcement to the next. *)
Unique(o) == \A i, j \in DOMAIN o : o[i].id = o[j].id => i = j

Tables == {o \in Seq(Owners) : Len(o) <= OwnedMax /\ Unique(o)}

Pairs == [store : Stores, owned : Tables]

(* What may be at a real id: proven bytes, and what was flushed of them when *)
(* a flush may fail, of which the result is not looked at.                   *)
Kept == IF "flush" \in Faults THEN Seq(Blocks) ELSE Payloads

(* What the store keeps of an owner's record. *)
Holds(s, r) ==
  /\ r.working => Stat(s.store, r.id)
  /\ Stat(s.store, r.id) => s.store.file[r.id] = r.bytes
  /\ r.id \in ScratchIds => Stat(s.store, r.id)

(* The store and the table agree, and the files at real ids are kept whole.  *)
Agreed(s) ==
  /\ s \in Pairs
  /\ \A r \in ToSet(s.owned) : Holds(s, r)
  /\ \A id \in RealIds : Stat(s.store, id) => s.store.file[id] \in Kept

-----------------------------------------------------------------------------
(* Facts about the constants. *)
LEMMA Given ==
  /\ Ids \subseteq Nat /\ IsFiniteSet(Ids) /\ RealIds \subseteq Ids
  /\ ScratchIds \subseteq Ids /\ (\A id \in RealIds : id \notin ScratchIds)
  /\ Bent \in Blocks /\ Payloads \subseteq Seq(Blocks) \ {<< >>}
  /\ Absent \notin Seq(Blocks) /\ Absent \notin Payloads
  /\ Payloads \subseteq Kept /\ Absent \notin Kept
  /\ Idle \subseteq Consumers
  /\ OwnedMax \in Nat \ {0} /\ ScanMax \in Nat \ {0}
  /\ Timeout \in Nat \ {0} /\ Reoffer \in Nat \ {0}
<1>1. Payloads \subseteq Seq(Blocks) \ {<< >>}
  BY ContentAssumption
<1>2. QED
  BY <1>1, ContentAssumption, FileStoreAssumption DEF ScratchIds, Kept

(* The three calls of the directory. *)
LEMMA DestroyDoes ==
  ASSUME NEW fs \in Stores, NEW id \in Ids
  PROVE  LET d == Destroy(fs, id)
         IN  /\ d \in Stores /\ ~Stat(d, id)
             /\ d.wr = IF fs.wr.id = id THEN Closed ELSE fs.wr
             /\ \A x \in Ids : x # id => d.file[x] = fs.file[x]
             /\ d.file = [fs.file EXCEPT ![id] = Absent]
BY DEF Destroy, Release, Stores, Stat

(* The same of what was assigned the outcome of a destroy.                   *)
LEMMA Destroyed ==
  ASSUME NEW fs \in Stores, NEW id \in Ids, NEW d, d = Destroy(fs, id)
  PROVE  /\ d \in Stores /\ d.file[id] = Absent
         /\ d.wr = IF fs.wr.id = id THEN Closed ELSE fs.wr
         /\ \A x \in Ids : x # id => d.file[x] = fs.file[x]
<1> DEFINE D == Destroy(fs, id)
<1>1. /\ D \in Stores /\ D.file[id] = Absent
      /\ D.wr = IF fs.wr.id = id THEN Closed ELSE fs.wr
      /\ \A x \in Ids : x # id => D.file[x] = fs.file[x]
  BY DEF Destroy, Release, Stores
<1> HIDE DEF D
<1>2. d = D
  BY DEF D
<1>3. QED
  BY <1>1, <1>2

(* An empty file, open for writing.                                          *)
LEMMA CreateDoes ==
  ASSUME NEW fs \in Stores, NEW id \in Ids, NEW total \in Nat \ {0}
  PROVE  LET d == Create(fs, id, total)
         IN  /\ d \in Stores /\ d.file[id] = << >>
             /\ d.wr = [id |-> id, total |-> total]
             /\ \A x \in Ids : x # id => d.file[x] = fs.file[x]
BY DEF Create, Stores

(* One block more in a file that is there.                                   *)
LEMMA WriteDoes ==
  ASSUME NEW fs \in Stores, NEW id \in Ids, Stat(fs, id), NEW b \in Blocks
  PROVE  LET d == Write(fs, id, b)
         IN  /\ d \in Stores /\ d.file[id] = Append(fs.file[id], b)
             /\ d.wr = fs.wr
             /\ \A x \in Ids : x # id => d.file[x] = fs.file[x]
<1>1. fs.file[id] \in Seq(Blocks)
  BY DEF Stores, Stat
<1>2. Append(fs.file[id], b) \in Seq(Blocks)
  BY <1>1
<1>3. QED
  BY <1>2 DEF Write, Stores

(* The bytes under the other id, and no writer on either.                    *)
LEMMA RenameDoes ==
  ASSUME NEW fs \in Stores, NEW from \in Ids, NEW to \in Ids, from # to,
         NEW bytes \in Seq(Blocks)
  PROVE  LET d == Rename(fs, from, to, bytes)
         IN  /\ d \in Stores /\ d.file[to] = bytes /\ d.file[from] = Absent
             /\ d.wr = IF fs.wr.id \in {from, to} THEN Closed ELSE fs.wr
             /\ \A x \in Ids : x # to /\ x # from => d.file[x] = fs.file[x]
BY DEF Rename, Release, Stores, Closed

(* A writer closed or not: no file changes.                                  *)
LEMMA CompleteDoes ==
  ASSUME NEW fs \in Stores, NEW id \in Ids
  PROVE  LET d == Complete(fs, id)
         IN  d \in Stores /\ d.file = fs.file /\ d.wr \in {fs.wr, Closed}
BY DEF Complete, Release, Stores

-----------------------------------------------------------------------------
(* The table of owners, by the set of its records. *)
LEMMA OwnedSet ==
  ASSUME NEW o, NEW id
  PROVE  Owned(o, id) <=> \E r \in ToSet(o) : r.id = id
BY DEF Owned, ToSet

(* Every record of a table is an owner of a content id.                      *)
LEMMA RecordsAreOwners ==
  ASSUME NEW o \in Tables
  PROVE  \A r \in ToSet(o) : r \in Owners /\ r.id \in Ids
<1>1. o \in Seq(Owners) /\ DOMAIN o = 1 .. Len(o) /\ \A j \in 1 .. Len(o) : o[j] \in Owners
  BY DEF Tables
<1>2. \A r \in ToSet(o) : r \in Owners
  BY <1>1 DEF ToSet
<1>3. QED
  BY <1>2 DEF Owners

(* Moving the last entry down removes the one record, and no other.          *)
LEMMA DisownDoes ==
  ASSUME NEW o \in Tables, NEW id
  PROVE  LET d == Disown(o, id)
         IN  /\ d \in Tables
             /\ ToSet(d) = {r \in ToSet(o) : r.id # id}
             /\ Len(d) <= Len(o)
<1>1. CASE ~Owned(o, id)
  BY <1>1, OwnedSet DEF Disown
<1>2. CASE Owned(o, id)
  <2> DEFINE i == CHOOSE j \in DOMAIN o : o[j].id = id
             n == Len(o)
             d == Disown(o, id)
  <2>1. i \in DOMAIN o /\ o[i].id = id
    BY <1>2 DEF Owned
  <2>2. /\ o \in Seq(Owners) /\ n \in Nat /\ n <= OwnedMax /\ DOMAIN o = 1 .. n
        /\ \A j \in 1 .. n : o[j] \in Owners
        /\ Unique(o)
    BY DEF Tables
  <2> HIDE DEF i
  <2>3. i \in 1 .. n /\ n # 0
    BY <2>1, <2>2
  <2> DEFINE w == [o EXCEPT ![i] = o[n]]
  <2>4. d = SubSeq(w, 1, Len(w) - 1)
    BY <1>2 DEF Disown, Front, Last, i
  <2>5. w \in Seq(Owners) /\ Len(w) = n /\ \A j \in 1 .. n : w[j] = IF j = i THEN o[n] ELSE o[j]
    BY <2>2, <2>3
  <2> HIDE DEF d, w
  <2>6. /\ d \in Seq(Owners) /\ Len(d) = n - 1 /\ DOMAIN d = 1 .. n - 1
        /\ \A j \in 1 .. n - 1 : d[j] = IF j = i THEN o[n] ELSE o[j]
    BY <2>2, <2>3, <2>4, <2>5
  <2>7. Unique(d)
    BY <2>2, <2>3, <2>6 DEF Unique
  <2>8. d \in Tables
    BY <2>2, <2>6, <2>7, Given DEF Tables
  <2>9. ASSUME NEW r \in ToSet(d) PROVE r \in ToSet(o) /\ r.id # id
    <3>1. PICK j \in 1 .. n - 1 : r = IF j = i THEN o[n] ELSE o[j]
      BY <2>6 DEF ToSet
    <3>2. PICK k \in 1 .. n : k # i /\ r = o[k]
      BY <2>2, <2>3, <3>1
    <3>3. QED
      BY <2>1, <2>2, <2>3, <3>2 DEF Unique, ToSet
  <2>10. ASSUME NEW r \in ToSet(o), r.id # id PROVE r \in ToSet(d)
    <3>1. PICK k \in 1 .. n : r = o[k]
      BY <2>2 DEF ToSet
    <3>2. k # i
      BY <2>1, <2>10, <3>1
    <3>3. \E j \in 1 .. n - 1 : d[j] = r
      BY <2>2, <2>3, <2>6, <3>1, <3>2
    <3>4. QED
      BY <2>6, <3>3 DEF ToSet
  <2>11. ToSet(d) = {r \in ToSet(o) : r.id # id}
    BY <2>9, <2>10
  <2>12. QED
    BY <2>2, <2>6, <2>8, <2>11 DEF d
<1>3. QED
  BY <1>1, <1>2

(* A new owner adds its record to a table that is not full.                  *)
LEMMA AppendDoes ==
  ASSUME NEW o \in Tables, Len(o) < OwnedMax, NEW r \in Owners, ~Owned(o, r.id)
  PROVE  Append(o, r) \in Tables /\ ToSet(Append(o, r)) = ToSet(o) \union {r}
<1> DEFINE a == Append(o, r)
           n == Len(o)
<1>1. /\ o \in Seq(Owners) /\ n \in Nat /\ n + 1 <= OwnedMax /\ DOMAIN o = 1 .. n
      /\ Unique(o)
  BY Given DEF Tables
<1>2. /\ a \in Seq(Owners) /\ Len(a) = n + 1 /\ DOMAIN a = 1 .. n + 1
      /\ \A j \in 1 .. n + 1 : a[j] = IF j = n + 1 THEN r ELSE o[j]
  BY <1>1
<1> HIDE DEF a
<1>3. Unique(a)
  BY <1>1, <1>2 DEF Unique, Owned
<1>4. ToSet(a) = ToSet(o) \union {r}
  BY <1>1, <1>2 DEF ToSet
<1>5. QED
  BY <1>1, <1>2, <1>3, <1>4 DEF Tables, a

(* Records change, their ids do not. *)
LEMMA RecordsChange ==
  ASSUME NEW o \in Tables, NEW p, DOMAIN p = DOMAIN o, p = [i \in DOMAIN o |-> p[i]],
         \A i \in DOMAIN o : p[i] \in Owners /\ p[i].id = o[i].id
  PROVE  p \in Tables /\ \A id : Owned(p, id) <=> Owned(o, id)
<1>1. o \in Seq(Owners) /\ Len(o) \in Nat /\ Len(o) <= OwnedMax /\ DOMAIN o = 1 .. Len(o)
  BY DEF Tables
<1>2. p \in Seq(Owners) /\ Len(p) = Len(o)
  BY <1>1
<1>3. Unique(p)
  BY DEF Unique, Tables
<1>4. QED
  BY <1>1, <1>2, <1>3 DEF Tables, Owned

-----------------------------------------------------------------------------
(* A file goes or stays, and the writer with it. *)
Shrunk(s, t) ==
  /\ \A x \in Ids : t.store.file[x] \in {s.store.file[x], Absent}
  /\ t.store.wr \in {s.store.wr, Closed}

(* An announcement that finds the file may find a stale claim on it: it goes *)
(* first.                                                                    *)
LEMMA AnnouncedDoes ==
  ASSUME NEW s \in Pairs, NEW id \in Ids, NEW v \in Verdicts(id),
         \A r \in ToSet(s.owned) : Holds(s, r) \/ (r.id = id /\ Stat(s.store, id)),
         \A x \in RealIds : Stat(s.store, x) => s.store.file[x] \in Kept
  PROVE  LET t == Announced(s, id, v)
         IN  /\ Agreed(t) /\ Shrunk(s, t)
             /\ \A x \in Ids : x # id => /\ Owned(t.owned, x) <=> Owned(s.owned, x)
                                         /\ t.store.file[x] = s.store.file[x]
<1> DEFINE t == Announced(s, id, v)
           others == Disown(s.owned, id)
           record == [id |-> id, owner |-> v.by, working |-> v.says = "work",
                      age |-> 0, bytes |-> s.store.file[id]]
           Done == /\ Agreed(t) /\ Shrunk(s, t)
                   /\ \A x \in Ids : x # id =>
                        /\ Owned(t.owned, x) <=> Owned(s.owned, x)
                        /\ t.store.file[x] = s.store.file[x]
<1> SUFFICES Done
  OBVIOUS
<1> HIDE DEF Done
<1>1. s.store \in Stores /\ s.owned \in Tables /\ s = [store |-> s.store, owned |-> s.owned]
  BY DEF Pairs
<1>2. /\ others \in Tables /\ ToSet(others) = {r \in ToSet(s.owned) : r.id # id}
      /\ \A x : Owned(others, x) <=> Owned(s.owned, x) /\ x # id
  BY <1>1, DisownDoes, OwnedSet
<1>3. CASE ~Stat(s.store, id)
  <2>1. t = s
    BY <1>3 DEF Announced
  <2> HIDE DEF t
  <2>2. QED
    BY <1>3, <2>1 DEF Agreed, Shrunk, Done
<1>4. CASE Stat(s.store, id)
  <2>1. \A r \in ToSet(others) : Holds(s, r)
    BY <1>2
  <2>2. CASE t = [s EXCEPT !.owned = others]
    <3>1. t.store = s.store /\ t.owned = others /\ t \in Pairs
      BY <1>1, <1>2, <2>2 DEF Pairs
    <3> HIDE DEF t, others
    <3>2. QED
      BY <1>2, <2>1, <3>1 DEF Agreed, Shrunk, Holds, Done
  <2>3. CASE t = [store |-> Destroy(s.store, id), owned |-> others]
    <3>1. t.store = Destroy(s.store, id) /\ t.owned = others
      BY <2>3
    <3> HIDE DEF t, others
    <3>2. /\ t.store \in Stores /\ ~Stat(t.store, id)
          /\ t.store.wr = IF s.store.wr.id = id THEN Closed ELSE s.store.wr
          /\ \A x \in Ids : x # id => t.store.file[x] = s.store.file[x]
      <4> DEFINE d == Destroy(s.store, id)
      <4>1. /\ d \in Stores /\ ~Stat(d, id)
            /\ d.wr = IF s.store.wr.id = id THEN Closed ELSE s.store.wr
            /\ \A x \in Ids : x # id => d.file[x] = s.store.file[x]
        BY <1>1, DestroyDoes
      <4> HIDE DEF d
      <4>2. QED
        BY <3>1, <4>1 DEF d
    <3>3. t \in Pairs
      BY <1>2, <2>3, <3>1, <3>2 DEF Pairs
    <3>4. \A r \in ToSet(s.owned) : r.id \in Ids
      BY <1>1, RecordsAreOwners
    <3>5. \A r \in ToSet(others) : Holds(t, r)
      BY <1>2, <2>1, <3>1, <3>2, <3>4 DEF Holds, Stat
    <3>6. Shrunk(s, t) /\ \A x \in RealIds : Stat(t.store, x) => t.store.file[x] \in Kept
      BY <3>2, Given DEF Shrunk, Stat
    <3>7. QED
      BY <1>2, <3>1, <3>2, <3>3, <3>5, <3>6 DEF Agreed, Done
  <2>4. CASE v.says \in {"mine", "work"} /\ ~Full(others)
    <3>1. t = [s EXCEPT !.owned = Append(others, record)]
      BY <1>4, <2>4 DEF Announced, Superseded
    <3>2. record \in Owners /\ record.id = id /\ Len(others) < OwnedMax
      <4>1. s.store.file[id] \in Seq(Blocks)
        BY <1>1, <1>4 DEF Stores, Stat
      <4>2. v.by \in Consumers
        BY <2>4 DEF Verdicts, Declined
      <4>3. Len(others) \in Nat
        BY <1>2 DEF Tables
      <4>4. QED
        BY <2>4, <4>1, <4>2, <4>3, Given DEF Owners, Full
    <3>3. /\ Append(others, record) \in Tables
          /\ ToSet(Append(others, record)) = ToSet(others) \union {record}
      BY <1>2, <3>2, AppendDoes
    <3>4. t.store = s.store /\ t.owned = Append(others, record) /\ t \in Pairs
      BY <1>1, <3>1, <3>3 DEF Pairs
    <3> HIDE DEF t, others
    <3>5. Holds(t, record)
      BY <1>4, <3>4 DEF Holds
    <3>6. \A x \in Ids : x # id => (Owned(t.owned, x) <=> Owned(s.owned, x))
      BY <1>2, <3>2, <3>3, <3>4, OwnedSet
    <3> HIDE DEF record
    <3>7. \A r \in ToSet(t.owned) : Holds(t, r)
      BY <2>1, <3>3, <3>4, <3>5 DEF Holds
    <3>8. QED
      BY <3>4, <3>6, <3>7 DEF Agreed, Shrunk, Done
  <2>5. v.says \in {"none", "mine", "work", "delete"}
    BY DEF Verdicts, Declined, Answers
  <2>6. QED
    BY <1>4, <2>2, <2>3, <2>4, <2>5 DEF Announced, Superseded
<1>5. QED
  BY <1>3, <1>4 DEF Done

(* The passes of begin(): what every announcement, or every reaping, of an id *)
(* of the snapshot preserves, the whole pass does.                           *)
LEMMA OfferAllReaches ==
  ASSUME NEW ids \in Seq(Ids), NEW kind, NEW verdict, NEW T, NEW s, s \in T,
         \A t \in T : \A i \in 1 .. Len(ids) :
           ids[i] \in kind => Announced(t, ids[i], verdict[ids[i]]) \in T
  PROVE  OfferAll(s, ids, kind, verdict) \in T
<1> DEFINE n == Len(ids)
           Pass(f, i) == IF ids[i] \in kind THEN Announced(f[i - 1], ids[i], verdict[ids[i]])
                                            ELSE f[i - 1]
           Is(f) == f = [i \in 0 .. n |-> IF i = 0 THEN s ELSE Pass(f, i)]
           step == [p \in (1 .. n) \X T |->
                      IF ids[p[1]] \in kind
                        THEN Announced(p[2], ids[p[1]], verdict[ids[p[1]]]) ELSE p[2]]
           TT == [i \in 0 .. n |-> T]
<1>0. n \in Nat
  OBVIOUS
<1>1. \A i \in 1 .. n, t \in T :
        /\ step[<<i, t>>] = IF ids[i] \in kind THEN Announced(t, ids[i], verdict[ids[i]])
                                               ELSE t
        /\ step[<<i, t>>] \in T
  OBVIOUS
<1>2. \A i \in 0 .. n : TT[i] = T
  OBVIOUS
<1> HIDE DEF n, step, TT
<1>3. s \in TT[0] /\ Leads(n, TT, step)
  BY <1>0, <1>1, <1>2 DEF Leads
<1>4. PICK f : /\ f = [i \in 0 .. n |-> f[i]]
               /\ Walks(f, n, s, step)
               /\ \A i \in 0 .. n : f[i] \in TT[i]
  BY <1>0, <1>3, WalkReaches, Zenon
<1>5. f[0] = s /\ \A i \in 1 .. n : f[i] = step[<<i, f[i - 1]>>] /\ f[i - 1] \in T
  <2>1. \A i \in 1 .. n : i - 1 \in 0 .. n
    BY <1>0
  <2>2. QED
    BY <1>2, <1>4, <2>1 DEF Walks
<1>6. \A i \in 0 .. n : f[i] = IF i = 0 THEN s ELSE Pass(f, i)
  <2>1. \A i \in 0 .. n : i # 0 => i \in 1 .. n
    BY <1>0
  <2>2. QED
    BY <1>1, <1>5, <2>1, Zenon
<1>7. Is(f)
  BY <1>4, <1>6
<1> DEFINE g == CHOOSE h : Is(h)
<1>8. Is(g) /\ OfferAll(s, ids, kind, verdict) = g[n]
  BY <1>7 DEF OfferAll, n
<1> HIDE DEF g
<1>9. g[0] = s /\ \A i \in 1 .. n : g[i] = Pass(g, i)
  <2>1. 0 \in 0 .. n /\ \A i \in 1 .. n : i \in 0 .. n /\ i # 0
    BY <1>0
  <2>2. \A i \in 0 .. n : g[i] = IF i = 0 THEN s ELSE Pass(g, i)
    BY <1>8, Zenon
  <2>3. QED
    BY <2>1, <2>2, Zenon
<1>10. n \in {i \in 0 .. n : g[i] \in T}
  <2> DEFINE Q == {i \in 0 .. n : g[i] \in T}
  <2>1. 0 \in Q
    BY <1>0, <1>9
  <2>2. ASSUME NEW i \in 1 .. n, i - 1 \in Q
        PROVE  i \in Q
    <3>1. g[i] = Pass(g, i) /\ g[i - 1] \in T
      BY <1>9, <2>2
    <3>2. g[i] \in T
      BY <3>1 DEF n
    <3>3. QED
      BY <3>2
  <2> HIDE DEF Q
  <2>3. \A i \in 0 .. n : i \in Q
    BY <1>0, <2>1, <2>2, CountingUp
  <2>4. QED
    BY <1>0, <2>3 DEF Q
<1>11. QED
  BY <1>8, <1>10

(* The same of the reaping, where what is reached may depend on how far it   *)
(* got: T[i] after the first i ids.                                          *)
LEMMA ReapedReaches ==
  ASSUME NEW ids \in Seq(Ids), NEW T, NEW s, s \in T[0],
         \A i \in 1 .. Len(ids) : \A t \in T[i - 1] :
           IF ids[i] \in ScratchIds /\ ~Owned(t.owned, ids[i])
             THEN [t EXCEPT !.store = Destroy(@, ids[i])] \in T[i] ELSE t \in T[i]
  PROVE  Reaped(s, ids) \in T[Len(ids)]
<1> DEFINE n == Len(ids)
           Pass(f, i) == IF ids[i] \in ScratchIds /\ ~Owned(f[i - 1].owned, ids[i])
                           THEN [f[i - 1] EXCEPT !.store = Destroy(@, ids[i])]
                           ELSE f[i - 1]
           Is(f) == f = [i \in 0 .. n |-> IF i = 0 THEN s ELSE Pass(f, i)]
           All == UNION {T[i] : i \in 0 .. n}
           step == [p \in (1 .. n) \X All |->
                      IF ids[p[1]] \in ScratchIds /\ ~Owned(p[2].owned, ids[p[1]])
                        THEN [p[2] EXCEPT !.store = Destroy(@, ids[p[1]])] ELSE p[2]]
<1>0. n \in Nat
  OBVIOUS
<1>1. \A i \in 1 .. n, t \in All :
        step[<<i, t>>] = IF ids[i] \in ScratchIds /\ ~Owned(t.owned, ids[i])
                           THEN [t EXCEPT !.store = Destroy(@, ids[i])] ELSE t
  OBVIOUS
<1>2. \A i \in 0 .. n : T[i] \subseteq All
  OBVIOUS
<1> HIDE DEF n, step, All
<1>3. Leads(n, T, step)
  <2> SUFFICES ASSUME NEW i \in 1 .. n, NEW t \in T[i - 1] PROVE step[<<i, t>>] \in T[i]
    BY DEF Leads
  <2>1. i - 1 \in 0 .. n
    BY <1>0
  <2>2. step[<<i, t>>] = IF ids[i] \in ScratchIds /\ ~Owned(t.owned, ids[i])
                           THEN [t EXCEPT !.store = Destroy(@, ids[i])] ELSE t
    BY <1>1, <1>2, <2>1
  <2>3. QED
    BY <2>2 DEF n
<1>4. PICK f : /\ f = [i \in 0 .. n |-> f[i]]
               /\ Walks(f, n, s, step)
               /\ \A i \in 0 .. n : f[i] \in T[i]
  BY <1>0, <1>3, WalkReaches, Zenon
<1>5. f[0] = s /\ \A i \in 1 .. n : f[i] = step[<<i, f[i - 1]>>] /\ f[i - 1] \in All
  <2>1. \A i \in 1 .. n : i - 1 \in 0 .. n
    BY <1>0
  <2>2. QED
    BY <1>2, <1>4, <2>1 DEF Walks
<1>6. \A i \in 0 .. n : f[i] = IF i = 0 THEN s ELSE Pass(f, i)
  <2>1. \A i \in 0 .. n : i # 0 => i \in 1 .. n
    BY <1>0
  <2>2. QED
    BY <1>1, <1>5, <2>1, Zenon
<1>7. Is(f)
  BY <1>4, <1>6, Zenon
<1> DEFINE g == CHOOSE h : Is(h)
<1>8. Is(g) /\ Reaped(s, ids) = g[n]
  BY <1>7, Zenon DEF Reaped, n
<1> HIDE DEF g
<1>9. g[0] = s /\ \A i \in 1 .. n : g[i] = Pass(g, i)
  <2>1. 0 \in 0 .. n /\ \A i \in 1 .. n : i \in 0 .. n /\ i # 0
    BY <1>0
  <2>2. \A i \in 0 .. n : g[i] = IF i = 0 THEN s ELSE Pass(g, i)
    BY <1>8, Zenon
  <2>3. QED
    BY <2>1, <2>2, Zenon
<1>10. n \in {i \in 0 .. n : g[i] \in T[i]}
  <2> DEFINE Q == {i \in 0 .. n : g[i] \in T[i]}
  <2>1. 0 \in Q
    BY <1>0, <1>9
  <2>2. ASSUME NEW i \in 1 .. n, i - 1 \in Q
        PROVE  i \in Q
    <3>1. g[i] = Pass(g, i) /\ g[i - 1] \in T[i - 1]
      BY <1>9, <2>2
    <3>2. g[i] \in T[i]
      BY <3>1 DEF n
    <3>3. QED
      BY <3>2
  <2> HIDE DEF Q
  <2>3. \A i \in 0 .. n : i \in Q
    BY <1>0, <2>1, <2>2, CountingUp
  <2>4. QED
    BY <1>0, <2>3 DEF Q
<1>11. QED
  BY <1>8, <1>10 DEF n

-----------------------------------------------------------------------------
(* The inductive invariant.                                                *)
Pair == [store |-> store, owned |-> owned]

(* The insert in flight: nobody works beside it or owns its scratch, no more *)
(* is fed than is wanted, and the scratch, while it is there, holds it.      *)
InsertHolds ==
  rx.active => /\ begun /\ ~Busy /\ ~Owned(owned, rx.scratch)
               /\ Len(rx.fed) <= Len(rx.want)
               /\ Stat(store, rx.scratch) => store.file[rx.scratch] = rx.fed

(* The types of what is neither in the store nor in the table.               *)
RestTypes ==
  /\ rx \in Inserts /\ begun \in BOOLEAN
  /\ event \in {"none", "failed"} /\ strays \subseteq ScratchIds

(* The file being written is there: a file that goes closes its writer. *)
WriterHasItsFile == store.wr # Closed => Stat(store, store.wr.id)

(* The inductive invariant.                                                 *)
StoreInv ==
  /\ Agreed(Pair) /\ RestTypes /\ InsertHolds
  /\ WriterIsTheInserts /\ WriterHasItsFile /\ NoStrayScratch

(* What the store keeps whatever a flush does.                               *)
RealIsKept == \A id \in RealIds : Stat(store, id) => store.file[id] \in Kept

(* The files at real ids are as they were. *)
Stays == \A id \in RealIds : store'.file[id] = store.file[id]

(* A consumer is at work when a record says so.                              *)
LEMMA BusySet == Busy <=> \E r \in ToSet(owned) : r.working
BY DEF Busy, ToSet

(* The two variables as one pair, now and after a step.                      *)
LEMMA PairIs ==
  /\ Pair.store = store /\ Pair.owned = owned
  /\ Pair' = [store |-> store', owned |-> owned']
  /\ \A t \in Pairs : store' = t.store /\ owned' = t.owned => Pair' = t
  /\ \A fs \in Stores, o \in Tables : [store |-> fs, owned |-> o] \in Pairs
<1>1. Pair.store = store /\ Pair.owned = owned /\ Pair' = [store |-> store', owned |-> owned']
  BY DEF Pair
<1>2. \A t \in Pairs : t = [store |-> t.store, owned |-> t.owned]
  BY DEF Pairs
<1>3. \A t \in Pairs : store' = t.store /\ owned' = t.owned => Pair' = t
  BY <1>1, <1>2
<1>4. QED
  BY <1>1, <1>3 DEF Pairs

(* What the invariant says of the parts. *)
LEMMA Parts ==
  ASSUME Agreed(Pair)
  PROVE  /\ store \in Stores /\ owned \in Tables /\ Pair \in Pairs
         /\ \A r \in ToSet(owned) : Holds(Pair, r) /\ r \in Owners /\ r.id \in Ids
         /\ \A r \in ToSet(owned) :
              /\ r.working => Stat(store, r.id)
              /\ Stat(store, r.id) => store.file[r.id] = r.bytes
              /\ r.id \in ScratchIds => Stat(store, r.id)
         /\ RealIsKept
<1>1. store \in Stores /\ owned \in Tables /\ Pair \in Pairs
  BY PairIs DEF Agreed, Pairs
<1>2. \A r \in ToSet(owned) : r \in Owners /\ r.id \in Ids
  BY <1>1, RecordsAreOwners
<1>3. QED
  BY <1>1, <1>2, PairIs DEF Agreed, Holds, RealIsKept

(* What a step has to show of the two to keep them agreed.                   *)
LEMMA AgreedNext ==
  ASSUME store' \in Stores, owned' \in Tables,
         \A r \in ToSet(owned') :
           /\ r.working => Stat(store', r.id)
           /\ Stat(store', r.id) => store'.file[r.id] = r.bytes
           /\ r.id \in ScratchIds => Stat(store', r.id),
         \A id \in RealIds : Stat(store', id) => store'.file[id] \in Kept
  PROVE  Agreed(Pair)'
<1>1. Pair'.store = store' /\ Pair'.owned = owned' /\ Pair' \in Pairs
  BY PairIs
<1>2. QED
  BY <1>1 DEF Agreed, Holds

(* An insert in flight is for a real id, by way of a scratch id.             *)
LEMMA InsertFacts ==
  ASSUME rx \in Inserts
  PROVE  /\ ~rx.active => rx = NoInsert
         /\ rx.active => /\ rx.id \in RealIds /\ rx.scratch \in ScratchIds
                         /\ rx.want \in Payloads /\ rx.want \in Seq(Blocks) /\ rx.want # << >>
                         /\ rx.fed \in Seq(Blocks) /\ rx.idle \in 0 .. Timeout
                         /\ rx.id \in Ids /\ rx.scratch \in Ids /\ rx.id # rx.scratch
                         /\ rx.failed \in BOOLEAN
<1>1. CASE rx = NoInsert
  BY <1>1 DEF NoInsert
<1>2. CASE rx \in [active : {TRUE}, failed : BOOLEAN, id : RealIds, scratch : ScratchIds,
                   want : Payloads, fed : Seq(Blocks), idle : 0 .. Timeout]
  <2>1. /\ rx.active = TRUE /\ rx.failed \in BOOLEAN
        /\ rx.id \in RealIds /\ rx.scratch \in ScratchIds
        /\ rx.want \in Payloads /\ rx.fed \in Seq(Blocks) /\ rx.idle \in 0 .. Timeout
    BY <1>2
  <2>2. QED
    BY <2>1, Given
<1>3. QED
  BY <1>1, <1>2 DEF Inserts

(* No insert is a value of rx, and it is not active.                         *)
LEMMA NoInsertIs == NoInsert \in Inserts /\ ~NoInsert.active
BY DEF Inserts, NoInsert

(* An empty table agrees with any directory of proven files. *)
LEMMA EmptyTable == << >> \in Tables /\ ToSet(<< >>) = {} /\ ~Owned(<< >>, 0)
<1>1. << >> \in Seq(Owners) /\ Len(<< >>) = 0 /\ DOMAIN << >> = {}
  OBVIOUS
<1>2. QED
  BY <1>1, Given DEF Tables, Unique, ToSet, Owned

(* The node starts with proven files, no owners and nothing open.            *)
LEMMA StoreInit == Init => StoreInv
<1> SUFFICES ASSUME Init PROVE StoreInv
  OBVIOUS
<1>1. store \in Stores /\ store.wr = Closed
  <2>1. PICK f \in [Ids -> {Absent} \cup Payloads] : store = [file |-> f, wr |-> Closed]
    BY DEF Init
  <2>2. f \in [Ids -> Seq(Blocks) \cup {Absent}]
    BY Given
  <2>3. QED
    BY <2>1, <2>2 DEF Stores
<1>2. \A id \in RealIds : Stat(store, id) => store.file[id] \in Kept
  BY Given DEF Init, Stat
<1>3. Agreed(Pair)
  <2>1. owned = << >>
    BY DEF Init
  <2>2. owned \in Tables /\ ToSet(owned) = {}
    BY <2>1, EmptyTable
  <2>3. Pair \in Pairs /\ Pair.store = store /\ Pair.owned = owned
    BY <1>1, <2>2, PairIs DEF Pair
  <2>4. QED
    BY <1>2, <2>2, <2>3 DEF Agreed
<1>4. QED
  BY <1>1, <1>3, NoInsertIs
     DEF Init, StoreInv, RestTypes, InsertHolds, WriterIsTheInserts, WriterHasItsFile,
         NoStrayScratch

(* The node restarts: what survives is the directory, but for the file that  *)
(* was being written, which is scratch.                                      *)
LEMMA PowerCycleKeeps ==
  ASSUME NEW fs \in Stores,
         fs.wr # Closed => fs.wr.id \in ScratchIds /\ Stat(fs, fs.wr.id),
         \A id \in RealIds : Stat(fs, id) => fs.file[id] \in Kept,
         PowerCycle(fs)
  PROVE  StoreInv' /\ \A id \in RealIds : store'.file[id] = fs.file[id]
<1>1. /\ store' \in Survivors(fs) /\ owned' = << >> /\ rx' = NoInsert /\ begun' = FALSE
      /\ event' = "none" /\ strays' = {}
  BY DEF PowerCycle
<1>2. /\ store' \in Stores /\ store'.wr = Closed
      /\ \A id \in RealIds : Stat(store', id) => store'.file[id] \in Kept
      /\ \A id \in RealIds : store'.file[id] = fs.file[id]
  <2>1. CASE fs.wr = Closed
    BY <1>1, <2>1 DEF Survivors
  <2>2. CASE fs.wr # Closed
    <3> DEFINE w == fs.wr.id
    <3>1. w \in ScratchIds /\ w \in Ids
      BY <2>2, Given
    <3>2. PICK bytes \in {Absent} \cup {SubSeq(fs.file[w], 1, n) : n \in 0 .. Len(fs.file[w])} :
            store' = [file |-> [fs.file EXCEPT ![w] = bytes], wr |-> Closed]
      BY <1>1, <2>2 DEF Survivors
    <3>3. bytes \in Seq(Blocks) \cup {Absent}
      <4>1. fs.file[w] \in Seq(Blocks)
        BY <2>2, <3>1 DEF Stores, Stat
      <4>2. QED
        BY <3>2, <4>1
    <3> HIDE DEF w
    <3>4. store' \in Stores /\ store'.wr = Closed
      BY <3>1, <3>2, <3>3 DEF Stores
    <3>5. \A id \in RealIds : store'.file[id] = fs.file[id]
      BY <3>1, <3>2, Given DEF Stores
    <3>6. QED
      BY <3>4, <3>5 DEF Stat
  <2>3. QED
    BY <2>1, <2>2
<1>3. Agreed(Pair)'
  BY <1>1, <1>2, EmptyTable, AgreedNext
<1>4. QED
  BY <1>1, <1>2, <1>3, NoInsertIs
     DEF StoreInv, RestTypes, InsertHolds, WriterIsTheInserts, WriterHasItsFile,
         NoStrayScratch

-----------------------------------------------------------------------------
(* What every step starts from. *)
LEMMA FromInv ==
  ASSUME StoreInv
  PROVE  /\ store \in Stores /\ owned \in Tables /\ Pair \in Pairs /\ Agreed(Pair)
         /\ rx \in Inserts /\ begun \in BOOLEAN /\ event \in {"none", "failed"}
         /\ strays \subseteq ScratchIds
         /\ ~rx.active => rx = NoInsert /\ store.wr = Closed
         /\ rx.active => begun /\ ~Busy /\ ~Owned(owned, rx.scratch)
         /\ store.wr # Closed => /\ rx.active /\ store.wr.id = rx.scratch
                                 /\ rx.scratch \in ScratchIds /\ Stat(store, store.wr.id)
BY Parts, InsertFacts DEF StoreInv, RestTypes, InsertHolds, WriterIsTheInserts,
     WriterHasItsFile

(* A walk of the directory looks at some of its ids. *)
LEMMA ScansAreIds == \A ids \in Scans : ids \in Seq(Ids)
<1> SUFFICES ASSUME NEW ids \in Scans PROVE ids \in Seq(Ids)
  OBVIOUS
<1> DEFINE here == {id \in Ids : Stat(store, id)}
<1>1. PICK part \in SUBSET here : ids \in SetToSeqs(part)
  BY Zenon DEF Scans
<1>2. part \subseteq Ids /\ IsFiniteSet(part)
  BY Given, FS_Subset
<1>3. Cardinality(part) \in Nat
  BY <1>2, FS_CardinalityType
<1>4. ids \in [1 .. Cardinality(part) -> part]
  BY <1>1 DEF SetToSeqs
<1>5. QED
  BY <1>2, <1>3, <1>4

(* begin(): the scratch is offered, what nobody took of it is reaped, then   *)
(* the real files are offered; files go, and none changes.                   *)
LEMMA BeginKeeps ==
  StoreInv /\ Begin => /\ StoreInv'
                       /\ \A x \in Ids : store'.file[x] \in {store.file[x], Absent}
<1> SUFFICES ASSUME StoreInv, Begin
             PROVE  StoreInv' /\ \A x \in Ids : store'.file[x] \in {store.file[x], Absent}
  OBVIOUS
<1>1. /\ store \in Stores /\ owned \in Tables /\ Pair \in Pairs /\ Agreed(Pair)
      /\ rx = NoInsert /\ ~rx.active /\ store.wr = Closed
      /\ begun' = TRUE /\ event' = "none" /\ rx' = rx
  BY FromInv, Zenon DEF Begin
<1>2. PICK ids \in Scans : \E verdict \in [ToSet(ids) -> UNION {Verdicts(id) : id \in Ids}] :
       /\ \A id \in ToSet(ids) : verdict[id] \in Verdicts(id)
       /\ LET found   == [store |-> store, owned |-> owned]
              offered == OfferAll(found, ids, ScratchIds, verdict)
              s       == OfferAll(Reaped(offered, ids), ids, RealIds, verdict)
          IN store' = s.store /\ owned' = s.owned
       /\ strays' = {id \in ScratchIds : Stat(store, id) /\ id \notin ToSet(ids)}
  BY DEF Begin
<1>3. PICK verdict :
       /\ \A id \in ToSet(ids) : verdict[id] \in Verdicts(id)
       /\ LET found   == [store |-> store, owned |-> owned]
              offered == OfferAll(found, ids, ScratchIds, verdict)
              s       == OfferAll(Reaped(offered, ids), ids, RealIds, verdict)
          IN store' = s.store /\ owned' = s.owned
       /\ strays' = {id \in ScratchIds : Stat(store, id) /\ id \notin ToSet(ids)}
  BY <1>2
<1> DEFINE n == Len(ids)
           offered == OfferAll(Pair, ids, ScratchIds, verdict)
           reaped == Reaped(offered, ids)
           s == OfferAll(reaped, ids, RealIds, verdict)
           T1 == {t \in Pairs : Agreed(t) /\ Shrunk(Pair, t)}
           Rest(i) == {t \in T1 : \A j \in 1 .. i :
                         ids[j] \in ScratchIds /\ Stat(t.store, ids[j])
                           => Owned(t.owned, ids[j])}
           T2 == [i \in 0 .. n |-> Rest(i)]
<1>4. store' = s.store /\ owned' = s.owned
  BY <1>3 DEF Pair
<1>5. ids \in Seq(Ids) /\ n \in Nat /\ ToSet(ids) = {ids[j] : j \in 1 .. n}
      /\ \A j \in 1 .. n : ids[j] \in Ids
  BY ScansAreIds DEF ToSet
<1>6. \A j \in 1 .. n : verdict[ids[j]] \in Verdicts(ids[j])
  BY <1>3, <1>5
<1>7. ASSUME NEW t \in T1, NEW j \in 1 .. n
      PROVE  LET u == Announced(t, ids[j], verdict[ids[j]])
             IN  /\ u \in T1
                 /\ \A x \in Ids : x # ids[j] => /\ Owned(u.owned, x) <=> Owned(t.owned, x)
                                                 /\ u.store.file[x] = t.store.file[x]
  <2> DEFINE u == Announced(t, ids[j], verdict[ids[j]])
             Same == \A x \in Ids : x # ids[j] => /\ Owned(u.owned, x) <=> Owned(t.owned, x)
                                                  /\ u.store.file[x] = t.store.file[x]
  <2>1. t \in Pairs /\ Agreed(t) /\ Shrunk(Pair, t)
    OBVIOUS
  <2>2. /\ \A r \in ToSet(t.owned) : Holds(t, r)
        /\ \A x \in RealIds : Stat(t.store, x) => t.store.file[x] \in Kept
    BY <2>1 DEF Agreed
  <2>3. Agreed(u) /\ Shrunk(t, u) /\ Same
    BY <1>5, <1>6, <2>1, <2>2, AnnouncedDoes
  <2> HIDE DEF u, Same
  <2>4. u \in Pairs /\ Shrunk(Pair, u)
    BY <2>1, <2>3 DEF Agreed, Shrunk
  <2>5. u \in T1 /\ Same
    BY <2>3, <2>4
  <2>6. QED
    BY <2>5 DEF u, Same
<1>8. Pair \in T1
  BY <1>1 DEF Shrunk
<1> HIDE DEF T1
<1>9. offered \in T1
  BY <1>5, <1>7, <1>8, OfferAllReaches
<1> HIDE DEF offered
<1>10. \A i \in 0 .. n : T2[i] = Rest(i)
  OBVIOUS
<1> HIDE DEF T2
<1>11. ASSUME NEW j \in 1 .. n, NEW t \in T2[j - 1]
       PROVE  IF ids[j] \in ScratchIds /\ ~Owned(t.owned, ids[j])
                THEN [t EXCEPT !.store = Destroy(@, ids[j])] \in T2[j] ELSE t \in T2[j]
  <2>1. j - 1 \in 0 .. n /\ j \in 0 .. n /\ \A k \in 1 .. j : k = j \/ k \in 1 .. j - 1
    BY <1>5
  <2>2. t \in Rest(j - 1) /\ T2[j] = Rest(j)
    BY <1>10, <2>1
  <2>3. CASE ~(ids[j] \in ScratchIds /\ ~Owned(t.owned, ids[j]))
    <3>1. t \in Rest(j)
      BY <2>1, <2>2, <2>3
    <3>2. QED
      BY <2>2, <2>3, <3>1
  <2>4. CASE ids[j] \in ScratchIds /\ ~Owned(t.owned, ids[j])
    <3> DEFINE d == Destroy(t.store, ids[j])
               u == [t EXCEPT !.store = d]
    <3>1. /\ t \in Pairs /\ Agreed(t) /\ Shrunk(Pair, t) /\ t.store \in Stores
          /\ t.owned \in Tables /\ t = [store |-> t.store, owned |-> t.owned]
      BY <2>2 DEF T1, Pairs
    <3>2. u = [store |-> d, owned |-> t.owned]
      BY <3>1
    <3>3. /\ d \in Stores /\ ~Stat(d, ids[j])
          /\ d.wr \in {t.store.wr, Closed}
          /\ \A x \in Ids : x # ids[j] => d.file[x] = t.store.file[x]
      BY <1>5, <3>1, DestroyDoes
    <3> HIDE DEF d, u
    <3>4. u.store = d /\ u.owned = t.owned /\ u \in Pairs
      BY <3>1, <3>2, <3>3 DEF Pairs
    <3>5. \A r \in ToSet(t.owned) : r.id # ids[j] /\ r.id \in Ids
      BY <2>4, <3>1, OwnedSet, RecordsAreOwners
    <3>6. Agreed(u)
      <4>1. \A r \in ToSet(u.owned) : Holds(u, r)
        BY <3>1, <3>3, <3>4, <3>5 DEF Agreed, Holds, Stat
      <4>2. \A x \in RealIds : x \in Ids /\ x # ids[j]
        BY <2>4, Given
      <4>3. QED
        BY <3>1, <3>3, <3>4, <4>1, <4>2 DEF Agreed, Stat
    <3>7. Shrunk(Pair, u)
      BY <3>1, <3>3, <3>4 DEF Shrunk, Stat
    <3>8. u \in T1
      BY <3>4, <3>6, <3>7 DEF T1
    <3>9. u \in Rest(j)
      <4> SUFFICES ASSUME NEW k \in 1 .. j, ids[k] \in ScratchIds, Stat(u.store, ids[k])
                   PROVE  Owned(u.owned, ids[k])
        BY <3>8
      <4>1. ids[k] # ids[j] /\ k \in 1 .. j - 1 /\ ids[k] \in Ids
        BY <1>5, <2>1, <3>3, <3>4
      <4>2. Stat(t.store, ids[k])
        BY <3>3, <3>4, <4>1 DEF Stat
      <4>3. QED
        BY <2>2, <3>4, <4>1, <4>2
    <3>10. QED
      BY <2>2, <2>4, <3>9 DEF u, d
  <2>5. QED
    BY <2>3, <2>4
<1>12. offered \in T2[0]
  <2>1. T2[0] = Rest(0) /\ 1 .. 0 = {}
    BY <1>5, <1>10
  <2>2. QED
    BY <1>9, <2>1
<1>13. reaped \in Rest(n)
  <2>1. reaped \in T2[n]
    BY <1>5, <1>11, <1>12, ReapedReaches
  <2>2. QED
    BY <1>5, <1>10, <2>1
<1> HIDE DEF reaped
<1>14. \A t \in Rest(n) : \A j \in 1 .. n :
         ids[j] \in RealIds => Announced(t, ids[j], verdict[ids[j]]) \in Rest(n)
  <2> SUFFICES ASSUME NEW t \in Rest(n), NEW j \in 1 .. n, ids[j] \in RealIds
               PROVE  Announced(t, ids[j], verdict[ids[j]]) \in Rest(n)
    OBVIOUS
  <2> DEFINE u == Announced(t, ids[j], verdict[ids[j]])
  <2>1. /\ u \in T1
        /\ \A x \in Ids : x # ids[j] => /\ Owned(u.owned, x) <=> Owned(t.owned, x)
                                        /\ u.store.file[x] = t.store.file[x]
    BY <1>7
  <2>2. \A k \in 1 .. n : ids[k] \in ScratchIds => ids[k] \in Ids /\ ids[k] # ids[j]
    BY <1>5, Given
  <2> HIDE DEF u
  <2>3. u \in Rest(n)
    BY <2>1, <2>2 DEF Stat
  <2>4. QED
    BY <2>3 DEF u
<1> DEFINE TR == Rest(n)
<1>15. s \in TR
  <2>1. reaped \in TR /\ \A t \in TR : \A j \in 1 .. Len(ids) :
          ids[j] \in RealIds => Announced(t, ids[j], verdict[ids[j]]) \in TR
    BY <1>13, <1>14
  <2> HIDE DEF TR
  <2>2. QED
    BY <1>5, <2>1, OfferAllReaches
<1> HIDE DEF s
<1>16. s \in Pairs /\ Agreed(s) /\ Shrunk(Pair, s)
       /\ \A j \in 1 .. n : ids[j] \in ScratchIds /\ Stat(s.store, ids[j])
                              => Owned(s.owned, ids[j])
  BY <1>15 DEF T1
<1>17. Pair' = s
  BY <1>4, <1>16, PairIs
<1>18. /\ store'.wr = Closed /\ \A x \in Ids : Stat(store', x) => Stat(store, x)
       /\ \A x \in Ids : store'.file[x] \in {store.file[x], Absent}
  BY <1>1, <1>4, <1>16, PairIs DEF Shrunk, Stat
<1>19. NoStrayScratch'
  BY <1>3, <1>4, <1>5, <1>16, <1>18, Given DEF NoStrayScratch
<1>20. Agreed(Pair)'
  BY <1>16, <1>17
<1>21. QED
  BY <1>1, <1>3, <1>18, <1>19, <1>20, NoInsertIs
     DEF StoreInv, RestTypes, InsertHolds, WriterIsTheInserts, WriterHasItsFile

-----------------------------------------------------------------------------
(* Stopping, and the loss of the power. *)
LEMMA EndKeeps == StoreInv /\ End => StoreInv' /\ Stays
<1> SUFFICES ASSUME StoreInv, End PROVE StoreInv' /\ Stays
  OBVIOUS
<1>1. /\ owned' = << >> /\ rx' = NoInsert /\ begun' = FALSE /\ event' = "none" /\ strays' = {}
      /\ store' = IF rx.active THEN Destroy(store, rx.scratch) ELSE store
  BY DEF End
<1>2. store' \in Stores /\ store'.wr = Closed
      /\ \A id \in RealIds : store'.file[id] = store.file[id]
  <2>1. CASE ~rx.active
    BY <1>1, <2>1, FromInv
  <2>2. CASE rx.active
    <3>1. rx.scratch \in Ids /\ \A id \in RealIds : id \in Ids /\ id # rx.scratch
      BY <2>2, FromInv, InsertFacts, Given
    <3>2. store' = Destroy(store, rx.scratch)
      BY <1>1, <2>2
    <3>3. /\ store' \in Stores
          /\ store'.wr = IF store.wr.id = rx.scratch THEN Closed ELSE store.wr
          /\ \A x \in Ids : x # rx.scratch => store'.file[x] = store.file[x]
      <4>1. store \in Stores /\ rx.scratch \in Ids
        BY <3>1, FromInv
      <4>2. QED
        BY <3>2, <4>1, Destroyed
    <3>4. QED
      BY <3>1, <3>3, FromInv
  <2>3. QED
    BY <2>1, <2>2
<1>3. owned' \in Tables /\ ToSet(owned') = {}
  BY <1>1, EmptyTable
<1>4. \A id \in RealIds : Stat(store', id) => store'.file[id] \in Kept
  BY <1>2, FromInv, Parts DEF Stat, RealIsKept
<1>5. Agreed(Pair)'
  BY <1>2, <1>3, <1>4, AgreedNext
<1>6. QED
  BY <1>1, <1>2, <1>5, NoInsertIs
     DEF StoreInv, RestTypes, InsertHolds, WriterIsTheInserts, WriterHasItsFile,
         NoStrayScratch, Stays

(* The power goes at any time.                                               *)
LEMMA CrashKeeps == StoreInv /\ Crash => StoreInv' /\ Stays
<1> SUFFICES ASSUME StoreInv, Crash PROVE StoreInv' /\ Stays
  OBVIOUS
<1>1. /\ store \in Stores /\ PowerCycle(store)
      /\ store.wr # Closed => store.wr.id \in ScratchIds /\ Stat(store, store.wr.id)
      /\ \A id \in RealIds : Stat(store, id) => store.file[id] \in Kept
  BY FromInv, Parts DEF RealIsKept, Crash
<1>2. QED
  BY <1>1, PowerCycleKeeps DEF Stays

(* What was under the id before goes: the scratch and its writer do not. *)
LEMMA ClearedDoes ==
  ASSUME StoreInv, rx.active
  PROVE  /\ Cleared \in Stores /\ Cleared.wr = store.wr
         /\ Cleared.file[rx.id] = Absent
         /\ \A x \in Ids : x # rx.id => Cleared.file[x] = store.file[x]
<1>1. rx.id \in Ids /\ rx.id # rx.scratch
  BY FromInv, InsertFacts
<1>2. CASE ~Stat(store, rx.id)
  BY <1>1, <1>2, FromInv DEF Cleared, Stat
<1>3. CASE Stat(store, rx.id)
  <2>1. Cleared = Destroy(store, rx.id)
    BY <1>3 DEF Cleared
  <2> HIDE DEF Cleared
  <2>2. /\ Cleared \in Stores /\ Cleared.file[rx.id] = Absent
        /\ Cleared.wr = IF store.wr.id = rx.id THEN Closed ELSE store.wr
        /\ \A x \in Ids : x # rx.id => Cleared.file[x] = store.file[x]
    <3>1. store \in Stores
      BY FromInv
    <3>2. QED
      BY <1>1, <2>1, <3>1, Destroyed
  <2>3. Cleared.wr = store.wr
    BY <1>1, <2>2, FromInv
  <2>4. QED
    BY <2>2, <2>3
<1>4. QED
  BY <1>2, <1>3

(* The power goes between the destroy and the rename.                        *)
LEMMA CrashLandingKeeps ==
  StoreInv /\ CrashLanding =>
    StoreInv' /\ \A id \in RealIds : id # rx.id => store'.file[id] = store.file[id]
<1> SUFFICES ASSUME StoreInv, CrashLanding
             PROVE  /\ StoreInv'
                    /\ \A id \in RealIds : id # rx.id => store'.file[id] = store.file[id]
  OBVIOUS
<1>1. rx.active /\ PowerCycle(Cleared)
  BY DEF CrashLanding
<1>2. /\ Cleared \in Stores /\ Cleared.wr = store.wr
      /\ Cleared.file[rx.id] = Absent
      /\ \A x \in Ids : x # rx.id => Cleared.file[x] = store.file[x]
  BY <1>1, ClearedDoes
<1> HIDE DEF Cleared
<1>3. Cleared.wr # Closed => Cleared.wr.id \in ScratchIds /\ Stat(Cleared, Cleared.wr.id)
  BY <1>1, <1>2, FromInv, InsertFacts, Given DEF Stat
<1>4. \A id \in RealIds : Stat(Cleared, id) => Cleared.file[id] \in Kept
  BY <1>2, FromInv, Parts, Given DEF Stat, RealIsKept
<1>5. QED
  BY <1>1, <1>2, <1>3, <1>4, Given, PowerCycleKeeps

-----------------------------------------------------------------------------
(* The insert. *)
LEMMA InsertBeginKeeps == StoreInv /\ InsertBegin => StoreInv' /\ Stays
<1> SUFFICES ASSUME StoreInv, InsertBegin PROVE StoreInv' /\ Stays
  OBVIOUS
<1> DEFINE scratch == CHOOSE n \in Free : \A m \in Free : n <= m
<1>1. /\ begun /\ ~rx.active /\ ~Busy /\ Free # {}
      /\ event' = "none" /\ owned' = owned /\ begun' = begun /\ strays' = strays
  BY DEF InsertBegin, Admits
<1>2. PICK id \in RealIds, p \in Payloads :
        /\ store' = Create(store, scratch, Len(p))
        /\ rx' = [active |-> TRUE, failed |-> FALSE, id |-> id, scratch |-> scratch,
                  want |-> p, fed |-> << >>, idle |-> 0]
  BY DEF InsertBegin
<1>3. scratch \in ScratchIds /\ ~Stat(store, scratch) /\ scratch \in Ids
  <2>1. Free \subseteq Nat
    BY Given DEF Free
  <2>2. \E n \in Free : \A m \in Free : n <= m
    BY <1>1, <2>1, LeastNatural
  <2>3. scratch \in Free
    BY <2>2
  <2>4. QED
    BY <2>3, Given DEF Free
<1> HIDE DEF scratch
<1>4. p \in Seq(Blocks) /\ Len(p) \in Nat \ {0} /\ << >> \in Seq(Blocks) /\ Len(<< >>) = 0
  BY Given
<1>5. /\ store' \in Stores /\ store'.file[scratch] = << >>
      /\ store'.wr = [id |-> scratch, total |-> Len(p)]
      /\ \A x \in Ids : x # scratch => store'.file[x] = store.file[x]
  BY <1>2, <1>3, <1>4, FromInv, CreateDoes
<1>6. \A r \in ToSet(owned) : r.id # scratch /\ r.id \in Ids
  BY <1>3, FromInv, Parts
<1>7. Agreed(Pair)'
  <2>1. \A r \in ToSet(owned) :
           /\ r.working => Stat(store', r.id)
           /\ Stat(store', r.id) => store'.file[r.id] = r.bytes
           /\ r.id \in ScratchIds => Stat(store', r.id)
    BY <1>5, <1>6, FromInv, Parts DEF Stat
  <2>2. \A x \in RealIds : Stat(store', x) => store'.file[x] \in Kept
    BY <1>3, <1>5, FromInv, Parts, Given DEF Stat, RealIsKept
  <2>3. QED
    BY <1>1, <1>5, <2>1, <2>2, FromInv, AgreedNext
<1>8. rx' \in Inserts /\ rx'.active /\ rx'.scratch = scratch /\ rx'.fed = << >> /\ rx'.want = p
  <2>1. 0 \in 0 .. Timeout
    BY Given
  <2>2. QED
    BY <1>2, <1>3, <1>4, <2>1 DEF Inserts
<1>9. InsertHolds'
  <2>1. ~Busy' /\ ~Owned(owned', scratch)
    BY <1>1, <1>6, OwnedSet DEF Busy
  <2>2. QED
    BY <1>1, <1>4, <1>5, <1>8, <2>1 DEF InsertHolds
<1>10. WriterIsTheInserts' /\ WriterHasItsFile'
  <2>1. Stat(store', scratch)
    BY <1>4, <1>5, Given DEF Stat
  <2>2. QED
    BY <1>5, <1>8, <2>1 DEF WriterIsTheInserts, WriterHasItsFile
<1>11. NoStrayScratch'
  BY <1>1, <1>3, <1>5, <1>8, Given DEF NoStrayScratch, StoreInv, Stat
<1>12. Stays
  BY <1>3, <1>5, Given DEF Stays
<1>13. QED
  BY <1>1, <1>7, <1>8, <1>9, <1>10, <1>11, <1>12, FromInv DEF StoreInv, RestTypes

(* A step of the insert that leaves everything else alone. *)
LEMMA InsertGoesOn ==
  ASSUME StoreInv, store' = store, owned' = owned, begun' = begun, strays' = strays,
         event' \in {"none", "failed"}, rx' \in Inserts, rx.active => rx'.active,
         rx'.active => /\ rx.active /\ rx'.scratch = rx.scratch /\ rx'.fed = rx.fed
                       /\ rx'.want = rx.want
  PROVE  StoreInv'
<1>1. Agreed(Pair)'
  <2>1. Pair' = Pair
    BY DEF Pair
  <2>2. QED
    BY <2>1 DEF StoreInv
<1>2. InsertHolds'
  BY DEF StoreInv, InsertHolds, Busy
<1>3. WriterIsTheInserts' /\ WriterHasItsFile' /\ NoStrayScratch'
  BY DEF StoreInv, WriterIsTheInserts, WriterHasItsFile, NoStrayScratch
<1>4. QED
  BY <1>1, <1>2, <1>3, FromInv DEF StoreInv, RestTypes

(* A refused, misplaced or aborted write only marks the insert failed.       *)
LEMMA RefusedKeeps ==
  StoreInv /\ (InsertWriteRefused \/ InsertMisplaced \/ InsertAbort) => StoreInv' /\ Stays
<1> SUFFICES ASSUME StoreInv, InsertWriteRefused \/ InsertMisplaced \/ InsertAbort
             PROVE  StoreInv' /\ Stays
  OBVIOUS
<1>1. /\ rx.active /\ store' = store /\ owned' = owned /\ begun' = begun /\ strays' = strays
      /\ event' = "none"
      /\ rx' \in {[rx EXCEPT !.failed = TRUE, !.idle = 0], [rx EXCEPT !.failed = TRUE]}
  BY DEF InsertWriteRefused, InsertMisplaced, InsertAbort, Open
<1>2. rx \in [active : {TRUE}, failed : BOOLEAN, id : RealIds, scratch : ScratchIds,
              want : Payloads, fed : Seq(Blocks), idle : 0 .. Timeout]
  <2>1. rx \in Inserts
    BY FromInv
  <2>2. rx # NoInsert
    BY <1>1, NoInsertIs
  <2>3. QED
    BY <2>1, <2>2 DEF Inserts
<1>3. 0 \in 0 .. Timeout
  BY Given
<1>4. /\ rx' \in Inserts /\ rx'.active
      /\ rx'.scratch = rx.scratch /\ rx'.fed = rx.fed /\ rx'.want = rx.want
  BY <1>1, <1>2, <1>3 DEF Inserts
<1>5. QED
  BY <1>1, <1>4, InsertGoesOn DEF Stays

(* A block is in the scratch and in what was fed, or the insert has failed.  *)
LEMMA InsertWriteKeeps == StoreInv /\ InsertWrite => StoreInv' /\ Stays
<1> SUFFICES ASSUME StoreInv, InsertWrite PROVE StoreInv' /\ Stays
  OBVIOUS
<1>1. /\ rx.active /\ ~Ready /\ event' = "none"
      /\ owned' = owned /\ begun' = begun /\ strays' = strays
  BY DEF InsertWrite, Open
<1>2. /\ rx.scratch \in ScratchIds /\ rx.scratch \in Ids /\ rx.fed \in Seq(Blocks)
      /\ rx.want \in Seq(Blocks) /\ Len(rx.fed) \in Nat /\ Len(rx.want) \in Nat
      /\ Len(rx.fed) < Len(rx.want)
  <2>1. /\ rx.scratch \in ScratchIds /\ rx.scratch \in Ids /\ rx.fed \in Seq(Blocks)
        /\ rx.want \in Seq(Blocks)
    BY <1>1, FromInv, InsertFacts
  <2>2. Len(rx.fed) # Len(rx.want) /\ Len(rx.fed) <= Len(rx.want)
    BY <1>1 DEF Ready, StoreInv, InsertHolds
  <2>3. QED
    BY <2>1, <2>2
<1>3. rx \in [active : {TRUE}, failed : BOOLEAN, id : RealIds, scratch : ScratchIds,
              want : Payloads, fed : Seq(Blocks), idle : 0 .. Timeout]
  <2>1. rx \in Inserts /\ rx # NoInsert
    BY <1>1, FromInv, NoInsertIs
  <2>2. QED
    BY <2>1 DEF Inserts
<1>4. 0 \in 0 .. Timeout
  BY Given
<1>5. PICK b \in {rx.want[Len(rx.fed) + 1], Bent} :
       IF Writable(store, rx.scratch, Len(rx.fed))
       THEN /\ store' = Write(store, rx.scratch, b)
            /\ rx' = [rx EXCEPT !.fed = Append(@, b), !.idle = 0]
       ELSE /\ rx' = [rx EXCEPT !.failed = TRUE, !.idle = 0]
            /\ UNCHANGED store
  BY DEF InsertWrite
<1>6. CASE ~Writable(store, rx.scratch, Len(rx.fed))
  <2>1. store' = store /\ rx' = [rx EXCEPT !.failed = TRUE, !.idle = 0]
    BY <1>5, <1>6
  <2>2. /\ rx' \in Inserts /\ rx'.active
        /\ rx'.scratch = rx.scratch /\ rx'.fed = rx.fed /\ rx'.want = rx.want
    BY <1>3, <1>4, <2>1 DEF Inserts
  <2>3. QED
    BY <1>1, <2>1, <2>2, InsertGoesOn DEF Stays
<1>7. CASE Writable(store, rx.scratch, Len(rx.fed))
  <2>1. store' = Write(store, rx.scratch, b) /\ rx' = [rx EXCEPT !.fed = Append(@, b), !.idle = 0]
    BY <1>5, <1>7
  <2>2. b \in Blocks
    BY <1>2, <1>5, Given
  <2>3. store.wr # Closed /\ store.wr.id = rx.scratch /\ Stat(store, rx.scratch)
    <3>1. store.wr.id = rx.scratch /\ Len(rx.fed) < store.wr.total
      BY <1>7 DEF Writable
    <3>2. store.wr # Closed
      BY <1>2, <3>1 DEF Closed
    <3>3. QED
      BY <3>1, <3>2, FromInv
  <2>4. store.file[rx.scratch] = rx.fed
    BY <1>1, <2>3 DEF StoreInv, InsertHolds
  <2>5. /\ store' \in Stores /\ store'.file[rx.scratch] = Append(rx.fed, b)
        /\ store'.wr = store.wr
        /\ \A x \in Ids : x # rx.scratch => store'.file[x] = store.file[x]
    <3> DEFINE d == Write(store, rx.scratch, b)
    <3>1. /\ d \in Stores /\ d.file[rx.scratch] = Append(store.file[rx.scratch], b)
          /\ d.wr = store.wr
          /\ \A x \in Ids : x # rx.scratch => d.file[x] = store.file[x]
      <4>1. store \in Stores
        BY FromInv
      <4>2. QED
        BY <1>2, <2>2, <2>3, <4>1, WriteDoes
    <3> HIDE DEF d
    <3>2. store' = d
      BY <2>1 DEF d
    <3>3. QED
      BY <2>4, <3>1, <3>2
  <2>6. /\ Append(rx.fed, b) \in Seq(Blocks) /\ Len(Append(rx.fed, b)) = Len(rx.fed) + 1
    BY <1>2, <2>2
  <2>7. /\ rx' \in Inserts /\ rx'.active /\ rx'.scratch = rx.scratch
        /\ rx'.fed = Append(rx.fed, b) /\ rx'.want = rx.want
    BY <1>3, <1>4, <2>1, <2>6 DEF Inserts
  <2>8. ~Owned(owned, rx.scratch) /\ ~Busy /\ begun
    BY <1>1, FromInv
  <2>9. \A r \in ToSet(owned) : r.id # rx.scratch /\ r.id \in Ids
    BY <2>8, FromInv, Parts, OwnedSet
  <2>10. Agreed(Pair)'
    <3>1. \A r \in ToSet(owned) :
             /\ r.working => Stat(store', r.id)
             /\ Stat(store', r.id) => store'.file[r.id] = r.bytes
             /\ r.id \in ScratchIds => Stat(store', r.id)
      BY <2>5, <2>9, FromInv, Parts DEF Stat
    <3>2. \A x \in RealIds : Stat(store', x) => store'.file[x] \in Kept
      BY <1>2, <2>5, FromInv, Parts, Given DEF Stat, RealIsKept
    <3>3. QED
      BY <1>1, <2>5, <3>1, <3>2, FromInv, AgreedNext
  <2>11. InsertHolds'
    <3>1. Len(rx'.fed) <= Len(rx'.want)
      BY <1>2, <2>6, <2>7
    <3>2. begun' /\ ~Busy' /\ ~Owned(owned', rx'.scratch)
      BY <1>1, <2>7, <2>8 DEF Busy
    <3>3. store'.file[rx'.scratch] = rx'.fed
      BY <2>5, <2>7
    <3>4. QED
      BY <3>1, <3>2, <3>3 DEF InsertHolds
  <2>12. WriterIsTheInserts' /\ WriterHasItsFile'
    <3>1. Stat(store', rx.scratch)
      BY <2>5, <2>6, Given DEF Stat
    <3>2. QED
      BY <2>3, <2>5, <2>7, <3>1 DEF WriterIsTheInserts, WriterHasItsFile
  <2>13. NoStrayScratch'
    BY <1>1, <2>5, <2>7, Given DEF NoStrayScratch, StoreInv, Stat
  <2>14. Stays
    BY <1>2, <2>5, Given DEF Stays
  <2>15. QED
    BY <1>1, <2>7, <2>10, <2>11, <2>12, <2>13, <2>14, FromInv DEF StoreInv, RestTypes
<1>8. QED
  BY <1>6, <1>7

-----------------------------------------------------------------------------
(* The end of the insert: its scratch goes, and whatever else goes is what   *)
(* was at the id it was for.                                                 *)
LEMMA InsertEnds ==
  ASSUME StoreInv, rx.active, store' \in Stores, store'.wr = Closed,
         store'.file[rx.scratch] = Absent,
         store'.file[rx.id] \in {store.file[rx.id], Absent},
         \A x \in Ids : x # rx.scratch /\ x # rx.id => store'.file[x] = store.file[x],
         owned' = owned, rx' = NoInsert, begun' = begun, strays' = strays,
         event' \in {"none", "failed"}
  PROVE  StoreInv'
<1>1. ~Busy /\ ~Owned(owned, rx.scratch) /\ rx.id \in Ids /\ rx.id \in RealIds
  BY FromInv, InsertFacts
<1>2. \A r \in ToSet(owned) : r.id # rx.scratch /\ r.id \in Ids /\ ~r.working
  BY <1>1, FromInv, Parts, OwnedSet, BusySet
<1>3. \A x \in Ids : Stat(store', x) => store'.file[x] = store.file[x] /\ Stat(store, x)
  BY DEF Stat
<1>4. Agreed(Pair)'
  <2>1. \A r \in ToSet(owned) :
           /\ r.working => Stat(store', r.id)
           /\ Stat(store', r.id) => store'.file[r.id] = r.bytes
           /\ r.id \in ScratchIds => Stat(store', r.id)
    <3> SUFFICES ASSUME NEW r \in ToSet(owned)
                 PROVE  /\ r.working => Stat(store', r.id)
                        /\ Stat(store', r.id) => store'.file[r.id] = r.bytes
                        /\ r.id \in ScratchIds => Stat(store', r.id)
      OBVIOUS
    <3>1. /\ r.id \in Ids /\ ~r.working /\ r.id # rx.scratch
          /\ Stat(store, r.id) => store.file[r.id] = r.bytes
          /\ r.id \in ScratchIds => Stat(store, r.id)
      BY <1>2, FromInv, Parts
    <3>2. r.id \in ScratchIds => r.id # rx.id
      BY <1>1, Given
    <3>3. QED
      BY <1>3, <3>1, <3>2 DEF Stat
  <2>2. \A x \in RealIds : Stat(store', x) => store'.file[x] \in Kept
    BY <1>3, FromInv, Parts, Given DEF RealIsKept
  <2>3. QED
    BY <2>1, <2>2, FromInv, AgreedNext
<1>5. NoStrayScratch'
  <2>1. \A id \in ScratchIds : Stat(store', id) =>
          Stat(store, id) /\ id # rx.scratch
    BY <1>3, Given DEF Stat
  <2>2. QED
    BY <2>1 DEF NoStrayScratch, StoreInv
<1>6. QED
  BY <1>4, <1>5, NoInsertIs, FromInv
     DEF StoreInv, RestTypes, InsertHolds, WriterIsTheInserts, WriterHasItsFile

(* A failed insert takes its scratch with it and nothing else.               *)
LEMMA TickInsertFailsKeeps ==
  StoreInv /\ rx.active /\ TickInsertFails => StoreInv' /\ Stays
<1> SUFFICES ASSUME StoreInv, rx.active, TickInsertFails PROVE StoreInv' /\ Stays
  OBVIOUS
<1>1. /\ store' = Destroy(store, rx.scratch) /\ rx' = NoInsert /\ event' = "failed"
      /\ owned' = owned /\ begun' = begun /\ strays' = strays
  BY DEF TickInsertFails, Discarded
<1>2. store \in Stores /\ rx.scratch \in Ids /\ rx.id \in Ids /\ rx.id # rx.scratch
  BY FromInv, InsertFacts
<1>3. /\ store' \in Stores /\ store'.file[rx.scratch] = Absent
      /\ store'.wr = IF store.wr.id = rx.scratch THEN Closed ELSE store.wr
      /\ \A x \in Ids : x # rx.scratch => store'.file[x] = store.file[x]
  <2>1. store' = Destroy(store, rx.scratch) /\ store \in Stores /\ rx.scratch \in Ids
    BY <1>1, <1>2
  <2>2. store' \in Stores
    BY <2>1, Destroyed
  <2>3. store'.file[rx.scratch] = Absent
    BY <2>1, Destroyed
  <2>4. store'.wr = IF store.wr.id = rx.scratch THEN Closed ELSE store.wr
    BY <2>1, Destroyed
  <2>5. \A x \in Ids : x # rx.scratch => store'.file[x] = store.file[x]
    BY <2>1, Destroyed
  <2>6. QED
    BY <2>2, <2>3, <2>4, <2>5
<1>4. store'.wr = Closed
  BY <1>3, FromInv
<1>5. Stays
  BY <1>3, FromInv, InsertFacts, Given DEF Stays
<1>6. QED
  BY <1>1, <1>2, <1>3, <1>4, <1>5, InsertEnds

(* A refused rename costs what was under the id, and the scratch.            *)
LEMMA RenameFailsKeeps ==
  StoreInv /\ rx.active /\ RenameFails =>
    StoreInv' /\ \A id \in RealIds : id # rx.id => store'.file[id] = store.file[id]
<1> SUFFICES ASSUME StoreInv, rx.active, RenameFails
             PROVE  /\ StoreInv'
                    /\ \A id \in RealIds : id # rx.id => store'.file[id] = store.file[id]
  OBVIOUS
<1>1. /\ store' = Destroy(Cleared, rx.scratch) /\ rx' = NoInsert /\ event' = "failed"
      /\ owned' = owned /\ begun' = begun /\ strays' = strays
  BY DEF RenameFails
<1>2. /\ Cleared \in Stores /\ Cleared.wr = store.wr /\ Cleared.file[rx.id] = Absent
      /\ \A x \in Ids : x # rx.id => Cleared.file[x] = store.file[x]
  BY ClearedDoes
<1> HIDE DEF Cleared
<1>3. rx.scratch \in Ids /\ rx.id \in Ids /\ rx.id # rx.scratch
  BY FromInv, InsertFacts
<1>4. /\ store' \in Stores /\ store'.file[rx.scratch] = Absent
      /\ store'.wr = IF Cleared.wr.id = rx.scratch THEN Closed ELSE Cleared.wr
      /\ \A x \in Ids : x # rx.scratch => store'.file[x] = Cleared.file[x]
  BY <1>1, <1>2, <1>3, Destroyed
<1>5. store'.wr = Closed
  BY <1>2, <1>4, FromInv
<1>6. \A id \in RealIds : id # rx.id => store'.file[id] = store.file[id]
  BY <1>2, <1>4, FromInv, InsertFacts, Given
<1>7. QED
  BY <1>1, <1>2, <1>3, <1>4, <1>5, <1>6, InsertEnds

(* A store that writes down what it was given gives the whole file to the    *)
(* rename, another one some of it.                                           *)
LEMMA FlushedIsKept ==
  ASSUME NEW fs \in Stores, NEW id \in Ids, Stat(fs, id), fs.file[id] \in Payloads
  PROVE  Flushed(fs, id) \subseteq Kept \cap Seq(Blocks)
<1>1. fs.file[id] \in Seq(Blocks)
  BY DEF Stores, Stat
<1>2. SubSeq(fs.file[id], 1, Len(fs.file[id])) = fs.file[id]
  BY <1>1
<1>3. \A n \in 0 .. Len(fs.file[id]) : SubSeq(fs.file[id], 1, n) \in Seq(Blocks)
  BY <1>1
<1>4. QED
  BY <1>1, <1>2, <1>3 DEF Flushed, Kept

(* The landing: what was fed is under the id, and a claim on what was there  *)
(* before it is superseded by the offer.                                     *)
LEMMA LandsKeeps ==
  StoreInv /\ rx.active /\ Lands =>
    StoreInv' /\ \A id \in RealIds : id # rx.id => store'.file[id] = store.file[id]
<1> SUFFICES ASSUME StoreInv, rx.active, Lands
             PROVE  /\ StoreInv'
                    /\ \A id \in RealIds : id # rx.id => store'.file[id] = store.file[id]
  OBVIOUS
<1>1. /\ Stat(store, rx.scratch) /\ rx.fed = rx.want
      /\ rx' = NoInsert /\ event' = "none" /\ begun' = begun /\ strays' = strays
  BY DEF Lands, Landing, Proven
<1>2. /\ rx.scratch \in Ids /\ rx.scratch \in ScratchIds /\ rx.id \in Ids /\ rx.id \in RealIds
      /\ rx.id # rx.scratch /\ rx.want \in Payloads /\ rx.want \in Seq(Blocks)
  BY FromInv, InsertFacts
<1>3. store.file[rx.scratch] = rx.want /\ ~Busy /\ ~Owned(owned, rx.scratch) /\ begun
  BY <1>1 DEF StoreInv, InsertHolds
<1>4. PICK bytes \in Flushed(store, rx.scratch), v \in Verdicts(rx.id) :
       LET here == Complete(Rename(Cleared, rx.scratch, rx.id, bytes), rx.id)
           s == Announced([store |-> here, owned |-> owned], rx.id, v)
       IN store' = s.store /\ owned' = s.owned
  BY DEF Lands
<1>4b. bytes \in Kept /\ bytes \in Seq(Blocks)
  <2>1. store \in Stores
    BY FromInv
  <2>2. QED
    BY <1>1, <1>2, <1>3, <2>1, FlushedIsKept
<1> DEFINE renamed == Rename(Cleared, rx.scratch, rx.id, bytes)
           here == Complete(renamed, rx.id)
           q == [store |-> here, owned |-> owned]
           s == Announced(q, rx.id, v)
<1>5. store' = s.store /\ owned' = s.owned
  BY <1>4
<1>6. /\ Cleared \in Stores /\ Cleared.wr = store.wr
      /\ \A x \in Ids : x # rx.id => Cleared.file[x] = store.file[x]
  BY ClearedDoes
<1> HIDE DEF Cleared
<1>7. /\ renamed \in Stores /\ renamed.file[rx.id] = bytes
      /\ renamed.file[rx.scratch] = Absent
      /\ renamed.wr = IF Cleared.wr.id \in {rx.scratch, rx.id} THEN Closed ELSE Cleared.wr
      /\ \A x \in Ids : x # rx.id /\ x # rx.scratch => renamed.file[x] = Cleared.file[x]
  BY <1>4b, <1>2, <1>6, RenameDoes
<1> HIDE DEF renamed
<1>8. /\ here \in Stores /\ here.file = renamed.file
      /\ here.wr \in {renamed.wr, Closed}
  BY <1>2, <1>7, CompleteDoes
<1> HIDE DEF here
<1>9. /\ here \in Stores /\ here.wr = Closed
      /\ here.file[rx.id] = bytes /\ here.file[rx.scratch] = Absent
      /\ \A x \in Ids : x # rx.id /\ x # rx.scratch => here.file[x] = store.file[x]
  BY <1>6, <1>7, <1>8, FromInv
<1>10. \A r \in ToSet(owned) : r.id # rx.scratch /\ r.id \in Ids /\ ~r.working
  BY <1>3, FromInv, Parts, OwnedSet, BusySet
<1>11. q \in Pairs /\ q.store = here /\ q.owned = owned
  BY <1>9, FromInv, PairIs
<1> HIDE DEF q
<1>12. \A r \in ToSet(q.owned) : Holds(q, r) \/ (r.id = rx.id /\ Stat(q.store, rx.id))
  <2> SUFFICES ASSUME NEW r \in ToSet(owned), r.id # rx.id
               PROVE  Holds(q, r)
    <3>1. Stat(here, rx.id)
      BY <1>4b, <1>9, Given DEF Stat
    <3>2. QED
      BY <1>11, <3>1
  <2>1. /\ r.id \in Ids /\ ~r.working /\ r.id # rx.scratch
        /\ Stat(store, r.id) => store.file[r.id] = r.bytes
        /\ r.id \in ScratchIds => Stat(store, r.id)
    BY <1>10, FromInv, Parts
  <2>2. QED
    BY <1>9, <1>11, <2>1 DEF Holds, Stat
<1>13. \A x \in RealIds : Stat(q.store, x) => q.store.file[x] \in Kept
  BY <1>4b, <1>2, <1>9, <1>11, FromInv, Parts, Given DEF Stat, RealIsKept
<1>14. /\ Agreed(s) /\ Shrunk(q, s)
       /\ \A x \in Ids : x # rx.id => /\ Owned(s.owned, x) <=> Owned(q.owned, x)
                                      /\ s.store.file[x] = q.store.file[x]
  BY <1>2, <1>11, <1>12, <1>13, AnnouncedDoes
<1> HIDE DEF s
<1>15. Pair' = s /\ s \in Pairs
  BY <1>5, <1>14, PairIs DEF Agreed
<1>16. Agreed(Pair)'
  BY <1>14, <1>15
<1>17. store'.wr = Closed
  BY <1>5, <1>9, <1>11, <1>14 DEF Shrunk
<1>18. NoStrayScratch'
  <2>1. \A id \in ScratchIds : id \in Ids /\ id # rx.id
    BY <1>2, Given
  <2>2. \A id \in ScratchIds : Stat(store', id) => Stat(store, id) /\ id # rx.scratch
    BY <1>5, <1>9, <1>11, <1>14, <2>1 DEF Stat
  <2>3. \A id \in ScratchIds : Owned(owned, id) => Owned(owned', id)
    BY <1>5, <1>11, <1>14, <2>1
  <2>4. QED
    BY <1>1, <2>2, <2>3 DEF NoStrayScratch, StoreInv
<1>19. \A id \in RealIds : id # rx.id => store'.file[id] = store.file[id]
  BY <1>2, <1>5, <1>9, <1>11, <1>14, Given
<1>20. QED
  BY <1>1, <1>16, <1>17, <1>18, <1>19, FromInv, NoInsertIs
     DEF StoreInv, RestTypes, InsertHolds, WriterIsTheInserts, WriterHasItsFile

-----------------------------------------------------------------------------
(* The table changes beside the store. *)

(* A record is changed, its id is not. *)
LEMMA RecordsKept ==
  ASSUME StoreInv, store' = store, owned' = [i \in DOMAIN owned |-> owned'[i]],
         \A i \in DOMAIN owned :
           /\ owned'[i] \in Owners /\ owned'[i].id = owned[i].id
           /\ owned'[i].working => Stat(store, owned[i].id)
           /\ Stat(store, owned[i].id) => owned'[i].bytes = store.file[owned[i].id]
  PROVE  Agreed(Pair)' /\ \A id : Owned(owned', id) <=> Owned(owned, id)
<1>1. owned \in Tables
  BY FromInv
<1> DEFINE p == owned'
<1>2. p \in Tables /\ \A id : Owned(p, id) <=> Owned(owned, id)
  <2>1. DOMAIN p = DOMAIN owned /\ p = [i \in DOMAIN owned |-> p[i]]
        /\ \A i \in DOMAIN owned : p[i] \in Owners /\ p[i].id = owned[i].id
    OBVIOUS
  <2> HIDE DEF p
  <2>2. QED
    BY <1>1, <2>1, RecordsChange
<1>3. \A r \in ToSet(owned') : \E i \in DOMAIN owned : r = owned'[i] /\ owned[i] \in ToSet(owned)
  BY DEF ToSet
<1>4. \A r \in ToSet(owned') :
           /\ r.working => Stat(store', r.id)
           /\ Stat(store', r.id) => store'.file[r.id] = r.bytes
           /\ r.id \in ScratchIds => Stat(store', r.id)
  <2> SUFFICES ASSUME NEW r \in ToSet(owned')
               PROVE  /\ r.working => Stat(store, r.id)
                      /\ Stat(store, r.id) => store.file[r.id] = r.bytes
                      /\ r.id \in ScratchIds => Stat(store, r.id)
    OBVIOUS
  <2>1. PICK i \in DOMAIN owned : r = owned'[i] /\ owned[i] \in ToSet(owned)
    BY <1>3
  <2>2. owned[i].id \in ScratchIds => Stat(store, owned[i].id)
    BY <2>1, FromInv, Parts
  <2>3. QED
    BY <2>1, <2>2
<1>5. QED
  BY <1>2, <1>4, FromInv, Parts, AgreedNext DEF RealIsKept

(* A record goes, and its file with it or not. *)
LEMMA RecordGoes ==
  ASSUME StoreInv, NEW id \in Ids, owned' = Disown(owned, id),
         store' = store \/ store' = Destroy(store, id)
  PROVE  /\ Agreed(Pair)' /\ store' \in Stores
         /\ \A x : Owned(owned', x) <=> Owned(owned, x) /\ x # id
         /\ \A x \in Ids : x # id => store'.file[x] = store.file[x]
         /\ store'.file[id] \in {store.file[id], Absent}
         /\ \/ store' = store
            \/ /\ store'.file[id] = Absent
               /\ store'.wr = IF store.wr.id = id THEN Closed ELSE store.wr
         /\ Busy' => Busy
<1>1. store \in Stores /\ owned \in Tables
  BY FromInv
<1>2. /\ owned' \in Tables /\ ToSet(owned') = {r \in ToSet(owned) : r.id # id}
  BY <1>1, DisownDoes
<1>3. \A x : Owned(owned', x) <=> Owned(owned, x) /\ x # id
  BY <1>2, OwnedSet
<1>4. Busy' => Busy
  <2>1. Busy' => \E r \in ToSet(owned') : r.working
    BY DEF Busy, ToSet
  <2>2. QED
    BY <1>2, <2>1, BusySet
<1>5. /\ store' \in Stores
      /\ \A x \in Ids : x # id => store'.file[x] = store.file[x]
      /\ store'.file[id] \in {store.file[id], Absent}
      /\ \/ store' = store
         \/ /\ store'.file[id] = Absent
            /\ store'.wr = IF store.wr.id = id THEN Closed ELSE store.wr
  <2>1. CASE store' = store
    BY <1>1, <2>1
  <2>2. CASE store' = Destroy(store, id)
    <3>1. /\ store' \in Stores /\ store'.file[id] = Absent
          /\ store'.wr = IF store.wr.id = id THEN Closed ELSE store.wr
          /\ \A x \in Ids : x # id => store'.file[x] = store.file[x]
      BY <1>1, <2>2, Destroyed
    <3>2. QED
      BY <3>1
  <2>3. QED
    BY <2>1, <2>2
<1>6. \A x \in Ids : Stat(store', x) => Stat(store, x) /\ store'.file[x] = store.file[x]
  BY <1>5 DEF Stat
<1>7. \A r \in ToSet(owned') :
           /\ r.working => Stat(store', r.id)
           /\ Stat(store', r.id) => store'.file[r.id] = r.bytes
           /\ r.id \in ScratchIds => Stat(store', r.id)
  BY <1>2, <1>5, <1>6, FromInv, Parts DEF Stat
<1>8. \A x \in RealIds : Stat(store', x) => store'.file[x] \in Kept
  BY <1>6, FromInv, Parts, Given DEF RealIsKept
<1>9. Agreed(Pair)'
  BY <1>2, <1>5, <1>7, <1>8, AgreedNext
<1>10. QED
  BY <1>3, <1>4, <1>5, <1>9

(* A delete command takes the record of the file with the file.              *)
LEMMA DeleteKeeps == StoreInv /\ Delete => StoreInv'
<1> SUFFICES ASSUME StoreInv, Delete PROVE StoreInv'
  OBVIOUS
<1>1. begun /\ event' = "none" /\ rx' = rx /\ begun' = begun
  BY DEF Delete
<1>2. PICK id \in Ids : /\ store' = Destroy(store, id) /\ owned' = Disown(owned, id)
                        /\ strays' = strays \ {id}
  BY DEF Delete
<1>3. /\ Agreed(Pair)' /\ store' \in Stores
      /\ \A x : Owned(owned', x) <=> Owned(owned, x) /\ x # id
      /\ \A x \in Ids : x # id => store'.file[x] = store.file[x]
      /\ Busy' => Busy
  BY <1>2, RecordGoes
<1>4. /\ store'.file[id] = Absent
      /\ store'.wr = IF store.wr.id = id THEN Closed ELSE store.wr
  <2>1. store \in Stores
    BY FromInv
  <2>2. QED
    BY <1>2, <2>1, Destroyed
<1>5. InsertHolds'
  <2>1. rx.active => rx.scratch \in Ids
    BY FromInv, InsertFacts
  <2>2. QED
    BY <1>1, <1>3, <1>4, <2>1 DEF StoreInv, InsertHolds, Stat
<1>6. WriterIsTheInserts' /\ WriterHasItsFile'
  <2>1. store'.wr # Closed => store'.wr = store.wr /\ store.wr.id # id
    BY <1>4
  <2>2. QED
    BY <1>1, <1>3, <2>1, FromInv, Given DEF WriterIsTheInserts, WriterHasItsFile, Stat
<1>7. NoStrayScratch'
  <2>1. \A x \in ScratchIds : Stat(store', x) => Stat(store, x) /\ x # id
    BY <1>3, <1>4, Given DEF Stat
  <2>2. QED
    BY <1>1, <1>2, <1>3, <2>1 DEF NoStrayScratch, StoreInv
<1>8. QED
  BY <1>1, <1>2, <1>3, <1>5, <1>6, <1>7, FromInv DEF StoreInv, RestTypes

(* Asking an owner again changes when, not who.                              *)
LEMMA AskAgainKeeps == StoreInv /\ AskAgain => StoreInv'
<1> SUFFICES ASSUME StoreInv, AskAgain PROVE StoreInv'
  OBVIOUS
<1>1. PICK k \in DOMAIN owned : ~owned[k].working /\ owned' = [owned EXCEPT ![k].age = Reoffer]
  BY DEF AskAgain
<1>2. /\ store' = store /\ rx' = rx /\ begun' = begun /\ strays' = strays /\ event' = "none"
  BY DEF AskAgain
<1>3. \A i \in DOMAIN owned : owned[i] \in Owners /\ owned[i] \in ToSet(owned)
  BY FromInv, Parts DEF ToSet
<1>4. /\ owned' = [i \in DOMAIN owned |-> owned'[i]]
      /\ \A i \in DOMAIN owned :
           owned'[i] = IF i = k THEN [owned[i] EXCEPT !.age = Reoffer] ELSE owned[i]
  BY <1>1, FromInv DEF Tables
<1>5. \A i \in DOMAIN owned :
        /\ owned'[i] \in Owners /\ owned'[i].id = owned[i].id
        /\ owned'[i].working = owned[i].working /\ owned'[i].bytes = owned[i].bytes
  <2>1. Reoffer \in 0 .. Reoffer
    BY Given
  <2>2. QED
    BY <1>3, <1>4, <2>1 DEF Owners
<1>6. \A i \in DOMAIN owned :
        /\ owned[i].working => Stat(store, owned[i].id)
        /\ Stat(store, owned[i].id) => owned[i].bytes = store.file[owned[i].id]
  BY <1>3, FromInv, Parts
<1>7. Agreed(Pair)' /\ \A id : Owned(owned', id) <=> Owned(owned, id)
  BY <1>2, <1>4, <1>5, <1>6, RecordsKept
<1>8. Busy' => Busy
  BY <1>4, <1>5 DEF Busy
<1>9. InsertHolds' /\ WriterIsTheInserts' /\ WriterHasItsFile' /\ NoStrayScratch'
  BY <1>2, <1>7, <1>8
     DEF StoreInv, InsertHolds, WriterIsTheInserts, WriterHasItsFile, NoStrayScratch
<1>10. QED
  BY <1>2, <1>7, <1>9, FromInv DEF StoreInv, RestTypes

(* Time passes for the insert and for the owners.                            *)
LEMMA ElapseKeeps == StoreInv /\ Elapse => StoreInv'
<1> SUFFICES ASSUME StoreInv, Elapse PROVE StoreInv'
  OBVIOUS
<1>1. /\ store' = store /\ begun' = begun /\ strays' = strays /\ event' = "none"
      /\ rx' = IF rx.active THEN [rx EXCEPT !.idle = UpTo(@, Timeout)] ELSE rx
      /\ owned' = [i \in DOMAIN owned |-> [owned[i] EXCEPT !.age = UpTo(@, Reoffer)]]
  BY DEF Elapse
<1>2. \A i \in DOMAIN owned : owned[i] \in Owners /\ owned[i] \in ToSet(owned)
  BY FromInv, Parts DEF ToSet
<1>3. \A n \in 0 .. Timeout : UpTo(n, Timeout) \in 0 .. Timeout
  BY Given DEF UpTo
<1>4. \A n \in 0 .. Reoffer : UpTo(n, Reoffer) \in 0 .. Reoffer
  BY Given DEF UpTo
<1>5. \A i \in DOMAIN owned :
        /\ owned'[i] \in Owners /\ owned'[i].id = owned[i].id
        /\ owned'[i].working = owned[i].working /\ owned'[i].bytes = owned[i].bytes
  <2> SUFFICES ASSUME NEW i \in DOMAIN owned
               PROVE  /\ owned'[i] \in Owners /\ owned'[i].id = owned[i].id
                      /\ owned'[i].working = owned[i].working
                      /\ owned'[i].bytes = owned[i].bytes
    OBVIOUS
  <2>1. owned'[i] = [owned[i] EXCEPT !.age = UpTo(@, Reoffer)]
    BY <1>1
  <2>2. owned[i] \in Owners
    BY <1>2
  <2>3. UpTo(owned[i].age, Reoffer) \in 0 .. Reoffer
    BY <1>4, <2>2 DEF Owners
  <2>4. QED
    BY <2>1, <2>2, <2>3 DEF Owners
<1>6. owned' = [i \in DOMAIN owned |-> owned'[i]]
  BY <1>1
<1>7. \A i \in DOMAIN owned :
        /\ owned[i].working => Stat(store, owned[i].id)
        /\ Stat(store, owned[i].id) => owned[i].bytes = store.file[owned[i].id]
  BY <1>2, FromInv, Parts
<1>8. Agreed(Pair)' /\ \A id : Owned(owned', id) <=> Owned(owned, id)
  BY <1>1, <1>5, <1>6, <1>7, RecordsKept
<1>9. Busy' => Busy
  BY <1>5, <1>6 DEF Busy
<1>10. /\ rx' \in Inserts /\ rx'.active <=> rx.active
       /\ rx.active => /\ rx'.scratch = rx.scratch /\ rx'.fed = rx.fed /\ rx'.want = rx.want
  <2>1. CASE ~rx.active
    BY <1>1, <2>1, FromInv
  <2>2. CASE rx.active
    <3>1. rx \in [active : {TRUE}, failed : BOOLEAN, id : RealIds, scratch : ScratchIds,
                  want : Payloads, fed : Seq(Blocks), idle : 0 .. Timeout]
      <4>1. rx \in Inserts /\ rx # NoInsert
        BY <2>2, FromInv, NoInsertIs
      <4>2. QED
        BY <4>1 DEF Inserts
    <3>2. rx' = [rx EXCEPT !.idle = UpTo(rx.idle, Timeout)]
      BY <1>1, <2>2
    <3>3. UpTo(rx.idle, Timeout) \in 0 .. Timeout
      BY <1>3, <3>1
    <3>4. QED
      BY <3>1, <3>2, <3>3 DEF Inserts
  <2>3. QED
    BY <2>1, <2>2
<1>11. InsertHolds' /\ WriterIsTheInserts' /\ WriterHasItsFile' /\ NoStrayScratch'
  BY <1>1, <1>8, <1>9, <1>10
     DEF StoreInv, InsertHolds, WriterIsTheInserts, WriterHasItsFile, NoStrayScratch
<1>12. QED
  BY <1>1, <1>8, <1>10, <1>11, FromInv DEF StoreInv, RestTypes

(* What the owner asked says, its file being there. *)
LEMMA AnsweredKeeps ==
  ASSUME StoreInv, ~rx.active, begun, NEW i \in DOMAIN owned, NEW says \in Answers,
         Stat(store, owned[i].id), NEW bytes, bytes = store.file[owned[i].id],
         Answered(i, says, bytes),
         event' = "none", rx' = rx, begun' = begun
  PROVE  StoreInv' /\ \A x \in Ids : store'.file[x] \in {store.file[x], Absent}
<1> DEFINE id == owned[i].id
<1>1. id \in Ids /\ owned[i] \in Owners /\ store \in Stores /\ store.wr = Closed
      /\ \A k \in DOMAIN owned : owned[k] \in Owners /\ owned[k] \in ToSet(owned)
  BY FromInv, Parts DEF ToSet
<1>2. store' = IF says = "delete" THEN Destroy(store, id) ELSE store
  BY DEF Answered
<1>3. strays' = IF says = "none" THEN strays \cup ({id} \cap ScratchIds) ELSE strays
  BY DEF Answered
<1>4. CASE says \in {"delete", "none"}
  <2>1. owned' = Disown(owned, id)
    BY <1>4 DEF Answered
  <2> HIDE DEF id
  <2>2. /\ Agreed(Pair)' /\ store' \in Stores
        /\ \A x : Owned(owned', x) <=> Owned(owned, x) /\ x # id
        /\ \A x \in Ids : x # id => store'.file[x] = store.file[x]
        /\ store'.file[id] \in {store.file[id], Absent}
        /\ \/ store' = store
           \/ /\ store'.file[id] = Absent
              /\ store'.wr = IF store.wr.id = id THEN Closed ELSE store.wr
    BY <1>1, <1>2, <2>1, RecordGoes
  <2>3. store'.wr = Closed /\ \A x \in Ids : store'.file[x] \in {store.file[x], Absent}
    BY <1>1, <2>2
  <2>4. NoStrayScratch'
    <3>1. \A x \in ScratchIds : Stat(store', x) => Stat(store, x)
      BY <2>3, Given DEF Stat
    <3>2. Stat(store', id) => says = "none"
      <4>1. says = "delete" => ~Stat(store', id)
        BY <1>1, <1>2, Destroyed DEF Stat
      <4>2. QED
        BY <1>4, <4>1
    <3>3. \A x \in ScratchIds : Stat(store', x) => Owned(owned', x) \/ x \in strays'
      BY <1>3, <2>2, <3>1, <3>2 DEF NoStrayScratch, StoreInv
    <3>4. QED
      BY <3>3 DEF NoStrayScratch
  <2>5. QED
    BY <1>3, <2>2, <2>3, <2>4, FromInv
       DEF StoreInv, RestTypes, InsertHolds, WriterIsTheInserts, WriterHasItsFile
<1>5. CASE says \in {"mine", "work"}
  <2>1. /\ store' = store /\ strays' = strays
        /\ owned' = [owned EXCEPT ![i].working = says = "work", ![i].age = 0,
                                  ![i].bytes = bytes]
    BY <1>2, <1>3, <1>5 DEF Answered
  <2>2. bytes \in Seq(Blocks) /\ 0 \in 0 .. Reoffer
    <3>1. store.file[id] \in Seq(Blocks) \cup {Absent} /\ store.file[id] # Absent
      BY <1>1 DEF Stores, Stat
    <3>2. bytes \in Seq(Blocks)
      BY <3>1
    <3>3. QED
      BY <3>2, Given
  <2>3. /\ owned' = [k \in DOMAIN owned |-> owned'[k]]
        /\ \A k \in DOMAIN owned : k # i => owned'[k] = owned[k]
        /\ owned'[i] \in Owners /\ owned'[i].id = id /\ owned'[i].bytes = bytes
    <3>1. owned = [k \in DOMAIN owned |-> owned[k]]
      BY FromInv DEF Tables
    <3> DEFINE r == [owned[i] EXCEPT !.working = (says = "work"), !.age = 0, !.bytes = bytes]
    <3>2. owned' = [owned EXCEPT ![i] = r]
      BY <2>1, <3>1
    <3>3. r \in Owners /\ r.id = id /\ r.bytes = bytes
      BY <1>1, <2>2 DEF Owners
    <3> HIDE DEF r
    <3>4. QED
      BY <3>1, <3>2, <3>3
  <2> HIDE DEF id
  <2>4. \A k \in DOMAIN owned :
          /\ owned'[k] \in Owners /\ owned'[k].id = owned[k].id
          /\ owned'[k].working => Stat(store, owned[k].id)
          /\ Stat(store, owned[k].id) => owned'[k].bytes = store.file[owned[k].id]
    <3>1. \A k \in DOMAIN owned :
            /\ owned[k].working => Stat(store, owned[k].id)
            /\ Stat(store, owned[k].id) => owned[k].bytes = store.file[owned[k].id]
      BY <1>1, FromInv, Parts
    <3>2. QED
      BY <1>1, <2>3, <3>1 DEF id
  <2>5. Agreed(Pair)' /\ \A x : Owned(owned', x) <=> Owned(owned, x)
    BY <2>1, <2>3, <2>4, RecordsKept
  <2>6. QED
    BY <2>1, <2>5, FromInv
       DEF StoreInv, RestTypes, InsertHolds, WriterIsTheInserts, WriterHasItsFile,
           NoStrayScratch
<1>6. QED
  BY <1>4, <1>5 DEF Answers

(* One slice of the first owner at work, whatever it answers.                *)
LEMMA TickWorksKeeps ==
  StoreInv /\ TickWorks => /\ StoreInv'
                           /\ \A x \in Ids : store'.file[x] \in {store.file[x], Absent}
<1> SUFFICES ASSUME StoreInv, TickWorks
             PROVE  StoreInv' /\ \A x \in Ids : store'.file[x] \in {store.file[x], Absent}
  OBVIOUS
<1> DEFINE First(j) == owned[j].working /\ \A k \in 1 .. j - 1 : ~owned[k].working
           i == CHOOSE j \in DOMAIN owned : First(j)
<1>1. begun /\ ~rx.active /\ Busy /\ event' = "none" /\ rx' = rx /\ begun' = begun
  BY DEF TickWorks
<1>2. \/ /\ owned' = [owned EXCEPT ![i].working = FALSE]
         /\ store' = store /\ strays' = strays
      \/ \E says \in Answers : Answered(i, says, owned[i].bytes)
  BY DEF TickWorks
<1>3. /\ DOMAIN owned = 1 .. Len(owned) /\ Len(owned) \in Nat
      /\ \A k \in DOMAIN owned : owned[k] \in Owners /\ owned[k] \in ToSet(owned)
      /\ owned = [k \in DOMAIN owned |-> owned[k]]
  BY FromInv, Parts DEF ToSet, Tables
<1>4. i \in DOMAIN owned /\ owned[i].working
  <2> DEFINE W == {j \in DOMAIN owned : owned[j].working}
  <2>1. W # {} /\ W \subseteq Nat
    BY <1>1, <1>3 DEF Busy
  <2>2. PICK j \in W : \A k \in W : j <= k
    BY <2>1, LeastNatural
  <2>3. \A k \in 1 .. j - 1 : k \in DOMAIN owned /\ ~(j <= k)
    BY <1>3
  <2>4. First(j)
    BY <2>2, <2>3
  <2>5. QED
    BY <2>4
<1> HIDE DEF i
<1>5. \A k \in DOMAIN owned :
        /\ owned[k].working => Stat(store, owned[k].id)
        /\ Stat(store, owned[k].id) => owned[k].bytes = store.file[owned[k].id]
  BY <1>3, FromInv, Parts
<1>6. CASE /\ owned' = [owned EXCEPT ![i].working = FALSE]
           /\ store' = store /\ strays' = strays
  <2>1. /\ owned' = [k \in DOMAIN owned |-> owned'[k]]
        /\ \A k \in DOMAIN owned : k # i => owned'[k] = owned[k]
        /\ owned'[i] = [owned[i] EXCEPT !.working = FALSE]
    BY <1>3, <1>4, <1>6
  <2>2. owned'[i] \in Owners /\ owned'[i].id = owned[i].id
        /\ owned'[i].bytes = owned[i].bytes /\ ~owned'[i].working
    <3>1. \A r \in Owners : LET q == [r EXCEPT !.working = FALSE]
                           IN  /\ q \in Owners /\ q.id = r.id
                               /\ q.bytes = r.bytes /\ ~q.working
      BY DEF Owners
    <3>2. QED
      BY <1>3, <1>4, <2>1, <3>1
  <2>3. \A k \in DOMAIN owned :
          /\ owned'[k] \in Owners /\ owned'[k].id = owned[k].id
          /\ owned'[k].working => Stat(store, owned[k].id)
          /\ Stat(store, owned[k].id) => owned'[k].bytes = store.file[owned[k].id]
    <3>1. \A k \in DOMAIN owned : owned[k] \in Owners
      BY <1>3
    <3>2. QED
      BY <1>5, <2>1, <2>2, <3>1, Zenon
  <2>4. Agreed(Pair)' /\ \A x : Owned(owned', x) <=> Owned(owned, x)
    BY <1>6, <2>1, <2>3, RecordsKept
  <2>5. QED
    BY <1>1, <1>6, <2>4, FromInv
       DEF StoreInv, RestTypes, InsertHolds, WriterIsTheInserts, WriterHasItsFile,
           NoStrayScratch
<1>7. CASE \E says \in Answers : Answered(i, says, owned[i].bytes)
  BY <1>1, <1>4, <1>5, <1>7, AnsweredKeeps
<1>8. QED
  BY <1>2, <1>6, <1>7

(* The first owner that is due is asked again, or forgotten with its file.   *)
LEMMA TickReoffersKeeps ==
  StoreInv /\ TickReoffers => /\ StoreInv'
                              /\ \A x \in Ids : store'.file[x] \in {store.file[x], Absent}
<1> SUFFICES ASSUME StoreInv, TickReoffers
             PROVE  StoreInv' /\ \A x \in Ids : store'.file[x] \in {store.file[x], Absent}
  OBVIOUS
<1>1. begun /\ ~rx.active /\ event' = "none" /\ rx' = rx /\ begun' = begun
  BY DEF TickReoffers
<1>2. PICK i \in DOMAIN owned :
         IF Stat(store, owned[i].id)
          THEN \E says \in Answers : Answered(i, says, store.file[owned[i].id])
          ELSE /\ owned' = Disown(owned, owned[i].id)
               /\ UNCHANGED <<store, strays>>
  BY DEF TickReoffers
<1>3. CASE Stat(store, owned[i].id)
  BY <1>1, <1>2, <1>3, AnsweredKeeps
<1>4. CASE ~Stat(store, owned[i].id)
  <2> DEFINE id == owned[i].id
  <2>1. owned' = Disown(owned, id) /\ store' = store /\ strays' = strays
    BY <1>2, <1>4
  <2>2. id \in Ids
    BY FromInv, Parts DEF ToSet
  <2>3. ~Stat(store, id)
    BY <1>4
  <2> HIDE DEF id
  <2>4. Agreed(Pair)' /\ \A x : Owned(owned', x) <=> Owned(owned, x) /\ x # id
    BY <2>1, <2>2, RecordGoes
  <2>5. NoStrayScratch'
    BY <1>1, <2>1, <2>3, <2>4 DEF NoStrayScratch, StoreInv
  <2>6. QED
    BY <1>1, <2>1, <2>4, <2>5, FromInv
       DEF StoreInv, RestTypes, InsertHolds, WriterIsTheInserts, WriterHasItsFile
<1>5. QED
  BY <1>3, <1>4

-----------------------------------------------------------------------------
(* Every step keeps the invariant, and costs what it may. *)
Costs(id) ==
  Stat(store, id) /\ store'.file[id] # store.file[id]
    => \/ UNCHANGED rx /\ store'.file[id] = Absent
       \/ rx.active /\ ~rx.failed /\ rx.id = id /\ rx.fed = rx.want

(* One step of each kind.                                                    *)
LEMMA NextKeeps == StoreInv /\ [Next]_vars => StoreInv' /\ \A id \in RealIds : Costs(id)
<1> SUFFICES ASSUME StoreInv, [Next]_vars
             PROVE  StoreInv' /\ \A id \in RealIds : Costs(id)
  OBVIOUS
<1> DEFINE Shrinks == \A x \in Ids : store'.file[x] \in {store.file[x], Absent}
           Replaces == \A id \in RealIds : id # rx.id => store'.file[id] = store.file[id]
<1>1. Stays => \A id \in RealIds : Costs(id)
  BY DEF Stays, Costs
<1>2. Shrinks /\ rx' = rx => \A id \in RealIds : Costs(id)
  BY Given DEF Costs
<1>3. Replaces /\ rx.active /\ Landing => \A id \in RealIds : Costs(id)
  BY DEF Costs, Landing, Proven
<1>4. CASE Begin
  BY <1>2, <1>4, BeginKeeps DEF Begin
<1>5. CASE End \/ Crash \/ InsertBegin \/ InsertWrite
  BY <1>1, <1>5, EndKeeps, CrashKeeps, InsertBeginKeeps, InsertWriteKeeps
<1>6. CASE CrashLanding
  BY <1>3, <1>6, CrashLandingKeeps DEF CrashLanding
<1>7. CASE InsertWriteRefused \/ InsertMisplaced \/ InsertAbort
  BY <1>1, <1>7, RefusedKeeps
<1>8. CASE TickInsert
  <2>1. rx.active /\ (TickInsertFails \/ Lands \/ RenameFails)
    BY <1>8 DEF TickInsert
  <2>2. CASE TickInsertFails
    BY <1>1, <2>1, <2>2, TickInsertFailsKeeps
  <2>3. CASE Lands
    BY <1>3, <2>1, <2>3, LandsKeeps DEF Lands
  <2>4. CASE RenameFails
    BY <1>3, <2>1, <2>4, RenameFailsKeeps DEF RenameFails
  <2>5. QED
    BY <2>1, <2>2, <2>3, <2>4
<1>9. CASE TickWorks
  BY <1>2, <1>9, TickWorksKeeps DEF TickWorks
<1>10. CASE TickReoffers
  BY <1>2, <1>10, TickReoffersKeeps DEF TickReoffers
<1>11. CASE AskAgain \/ Elapse
  <2>1. store' = store
    BY <1>11 DEF AskAgain, Elapse
  <2>2. QED
    BY <1>1, <1>11, <2>1, AskAgainKeeps, ElapseKeeps DEF Stays
<1>12. CASE Delete
  <2>1. PICK id \in Ids : store' = Destroy(store, id) /\ rx' = rx
    BY <1>12 DEF Delete
  <2>2. store \in Stores
    BY FromInv
  <2>3. Shrinks
    BY <2>1, <2>2, Destroyed
  <2>4. QED
    BY <1>2, <1>12, <2>1, <2>3, DeleteKeeps
<1>13. CASE UNCHANGED vars
  <2>1. /\ store' = store /\ owned' = owned /\ rx' = rx /\ begun' = begun
        /\ event' = event /\ strays' = strays
    BY <1>13 DEF vars
  <2>2. event' \in {"none", "failed"} /\ rx' \in Inserts
    BY <2>1, FromInv
  <2>3. StoreInv'
    BY <2>1, <2>2, InsertGoesOn
  <2>4. QED
    BY <1>1, <2>1, <2>3 DEF Stays
<1>14. QED
  BY <1>4, <1>5, <1>6, <1>7, <1>8, <1>9, <1>10, <1>11, <1>12, <1>13 DEF Next

(* The store, its table and its insert keep agreeing (StoreInv), through     *)
(* uploads, landings, refusals, deletes, restarts and loss of power.         *)
THEOREM StoreIsSound == Spec => []StoreInv
<1>1. Init => StoreInv
  BY StoreInit
<1>2. StoreInv /\ [Next]_vars => StoreInv'
  BY NextKeeps
<1>3. QED
  BY <1>1, <1>2, PTL DEF Spec

(* "A file at a real id is one that passed its checksum" (the header of      *)
(* iotdata_node_content.h), of a directory that flushes what it was given:   *)
(* without that assumption the run content_lost refutes it.                  *)
THEOREM RealFilesAreProven ==
  ASSUME "flush" \notin Faults
  PROVE  Spec => []RealIsProven
<1>1. StoreInv => RealIsProven
  BY Parts DEF StoreInv, RealIsKept, RealIsProven, Kept
<1>2. QED
  BY <1>1, StoreIsSound, PTL

(* Who works has its file, who claims claims these bytes, no scratch is left *)
(* behind, and the writer is the insert's: flush or no flush.                *)
THEOREM TheStoreAgrees == Spec => []StoreAgrees
<1>1. StoreInv => StoreAgrees
  <2> SUFFICES ASSUME StoreInv PROVE StoreAgrees
    OBVIOUS
  <2>1. TypeOK
    BY FromInv DEF TypeOK, Tables
  <2>2. \A i \in DOMAIN owned : owned[i] \in ToSet(owned)
    BY DEF ToSet
  <2>3. WorkersHaveTheirFile
    BY <2>2, FromInv, Parts DEF WorkersHaveTheirFile
  <2>4. ClaimsAreOfTheseBytes
    BY <2>2, FromInv, Parts DEF ClaimsAreOfTheseBytes, Tables, Unique
  <2>5. QED
    BY <2>1, <2>3, <2>4 DEF StoreAgrees, StoreInv
<1>2. QED
  BY <1>1, StoreIsSound, PTL

(* An upload costs no file but the one it replaces, and that not before all  *)
(* of its bytes are in and proven: the tick destroys the old file just       *)
(* before it renames the proven one.                                         *)
THEOREM UploadsAreCheap == Spec => UploadCostsOnlyWhatItReplaces
<1> DEFINE Only == \A id \in RealIds :
       Stat(store, id) /\ store'.file[id] # store.file[id]
         => \/ UNCHANGED rx /\ store'.file[id] = Absent
            \/ rx.active /\ ~rx.failed /\ rx.id = id /\ rx.fed = rx.want
<1>1. StoreInv /\ [Next]_vars => [Only]_vars
  BY NextKeeps DEF Costs
<1>2. QED
  BY <1>1, StoreIsSound, PTL DEF Spec, UploadCostsOnlyWhatItReplaces

-----------------------------------------------------------------------------
(* The backend in RAM. *)
Offs == 0 .. MaxTotal - 1

RamFiles == [id : RamIds, total : 1 .. MaxTotal,
             data : [Offs -> ByteValues \cup {Absent}], map : SUBSET Offs]

(* What a slot in use is a file of: its map says which bytes there are.       *)
MapTells(f) ==
  /\ f.map \subseteq 0 .. f.total - 1
  /\ \A o \in Offs : o \in f.map <=> f.data[o] # Absent

(* No id has two slots, and each slot in use is a file its map tells of. *)
RamInv ==
  /\ slot \in [1 .. Slots -> RamFiles \cup {Ram!Unused}]
  /\ \A s, t \in Ram!Used : slot[s].id = slot[t].id => s = t
  /\ \A s \in Ram!Used : MapTells(slot[s])

(* What the assumptions on the constants say of the backend in RAM. *)
LEMMA RamGiven ==
  /\ Slots \in Nat \ {0} /\ MaxTotal \in Nat \ {0} /\ Chunk \in Nat \ {0}
  /\ Absent \notin ByteValues
  /\ \A W \in SUBSET Offs : Absent \notin [W -> ByteValues]
BY UploadsAssumption DEF Ram!RamStoreAssumption, Ram!Seam!ByteStoreAssumption,
   Ram!Seam!Contents, Ram!Seam!Offsets, Offs

(* A slot in use is told from one that is not. *)
LEMMA UnusedIsNoFile == Ram!Unused \notin RamFiles
BY DEF Ram!Unused, RamFiles

(* An id has at most one slot, and its file is the bytes the slot has marked. *)
LEMMA RamReads ==
  RamInv => \A id \in RamIds :
    /\ Ram!Find(id) = {} => Ram!ContentOf(id) = Absent
    /\ \A s \in Ram!Find(id) :
         /\ Ram!Find(id) = {s} /\ slot[s] \in RamFiles /\ slot[s].id = id
         /\ Ram!ContentOf(id) = [o \in slot[s].map |-> slot[s].data[o]]
         /\ slot[s].map \in SUBSET Offs
         /\ \A o \in slot[s].map : slot[s].data[o] \in ByteValues
<1> SUFFICES ASSUME RamInv, NEW id \in RamIds
             PROVE  /\ Ram!Find(id) = {} => Ram!ContentOf(id) = Absent
                    /\ \A s \in Ram!Find(id) :
                         /\ Ram!Find(id) = {s} /\ slot[s] \in RamFiles /\ slot[s].id = id
                         /\ Ram!ContentOf(id) = [o \in slot[s].map |-> slot[s].data[o]]
                         /\ slot[s].map \in SUBSET Offs
                         /\ \A o \in slot[s].map : slot[s].data[o] \in ByteValues
  OBVIOUS
<1>1. Ram!Find(id) = {} => Ram!ContentOf(id) = Absent
  BY DEF Ram!ContentOf
<1>2. ASSUME NEW s \in Ram!Find(id)
      PROVE  /\ Ram!Find(id) = {s} /\ slot[s] \in RamFiles /\ slot[s].id = id
             /\ Ram!ContentOf(id) = [o \in slot[s].map |-> slot[s].data[o]]
             /\ slot[s].map \in SUBSET Offs
             /\ \A o \in slot[s].map : slot[s].data[o] \in ByteValues
  <2>1. Ram!Find(id) = {s}
    BY DEF RamInv, Ram!Find
  <2>2. s \in 1 .. Slots /\ slot[s] \in RamFiles /\ slot[s].id = id /\ MapTells(slot[s])
    BY DEF RamInv, Ram!Find, Ram!Used
  <2>3. {o \in Offs : slot[s].data[o] # Absent} = slot[s].map
    BY <2>2 DEF MapTells, RamFiles
  <2>4. Ram!ContentOf(id) = [o \in {o \in Offs : slot[s].data[o] # Absent} |-> slot[s].data[o]]
    <3>1. (CHOOSE t \in Ram!Find(id) : TRUE) = s
      BY <2>1
    <3>2. Ram!Find(id) # {}
      OBVIOUS
    <3>3. QED
      BY <3>1, <3>2 DEF Ram!ContentOf, Offs
  <2>5. slot[s].map \in SUBSET Offs /\ \A o \in slot[s].map : slot[s].data[o] \in ByteValues
    BY <2>2 DEF MapTells, RamFiles
  <2>6. QED
    BY <2>1, <2>2, <2>3, <2>4, <2>5
<1>3. QED
  BY <1>1, <1>2

(* The same after a step. *)
LEMMA RamReadsNext ==
  RamInv' => \A id \in RamIds :
    /\ Ram!Find(id)' = {} => Ram!ContentOf(id)' = Absent
    /\ \A s \in Ram!Find(id)' :
         /\ Ram!Find(id)' = {s} /\ slot'[s] \in RamFiles /\ slot'[s].id = id
         /\ Ram!ContentOf(id)' = [o \in slot'[s].map |-> slot'[s].data[o]]
         /\ slot'[s].map \in SUBSET Offs
         /\ \A o \in slot'[s].map : slot'[s].data[o] \in ByteValues
<1>1. RamInv' => (\A id \in RamIds :
    /\ Ram!Find(id) = {} => Ram!ContentOf(id) = Absent
    /\ \A s \in Ram!Find(id) :
         /\ Ram!Find(id) = {s} /\ slot[s] \in RamFiles /\ slot[s].id = id
         /\ Ram!ContentOf(id) = [o \in slot[s].map |-> slot[s].data[o]]
         /\ slot[s].map \in SUBSET Offs
         /\ \A o \in slot[s].map : slot[s].data[o] \in ByteValues)'
  BY RamReads, PTL
<1>2. QED
  BY <1>1

RamFile == [id \in RamIds |-> Ram!ContentOf(id)]

(* No slot is in use at first, and no file is there. *)
LEMMA RamStarts == Ram!Init => RamInv /\ Ram!Seam!Init
<1> SUFFICES ASSUME Ram!Init PROVE RamInv /\ Ram!Seam!Init
  OBVIOUS
<1>1. Ram!Used = {} /\ \A id : Ram!Find(id) = {}
  BY DEF Ram!Init, Ram!Used, Ram!Find
<1>2. RamInv
  BY <1>1 DEF RamInv, Ram!Init
<1>3. Ram!Seam!Init
  BY <1>1 DEF Ram!Seam!Init, Ram!ContentOf, Ram!Init, Ram!Refused, Ram!Seam!Refused
<1>4. QED
  BY <1>2, <1>3

(* A call that refuses changes nothing a caller sees.                        *)
LEMMA RamRefuses ==
  ASSUME UNCHANGED slot, answer' = Ram!Refused
  PROVE  Ram!Seam!Refuse /\ (RamInv => RamInv')
<1>1. RamFile' = RamFile
  BY DEF RamFile, Ram!ContentOf, Ram!Find, Ram!Used
<1>2. RamInv => RamInv'
  BY DEF RamInv, Ram!Used
<1>3. QED
  BY <1>1, <1>2 DEF Ram!Seam!Refuse, RamFile, Ram!Refused, Ram!Seam!Refused

(* A file no slot of which changed is as it was. *)
LEMMA RamSame ==
  ASSUME RamInv, RamInv', NEW id \in RamIds, Ram!Find(id)' = Ram!Find(id),
         \A s \in Ram!Find(id) : slot'[s] = slot[s]
  PROVE  Ram!ContentOf(id)' = Ram!ContentOf(id)
<1>1. CASE Ram!Find(id) = {}
  BY <1>1, RamReads, RamReadsNext
<1>2. ASSUME NEW s \in Ram!Find(id) PROVE Ram!ContentOf(id)' = Ram!ContentOf(id)
  <2>1. Ram!ContentOf(id) = [o \in slot[s].map |-> slot[s].data[o]]
    BY RamReads
  <2>2. Ram!ContentOf(id)' = [o \in slot'[s].map |-> slot'[s].data[o]]
    BY RamReadsNext
  <2>3. slot'[s] = slot[s]
    OBVIOUS
  <2>4. QED
    BY <2>1, <2>2, <2>3
<1>3. QED
  BY <1>1, <1>2

(* A file put into a slot that is free or holds the file of that name.       *)
LEMMA RamPuts ==
  ASSUME RamInv, NEW f \in RamFiles, MapTells(f), NEW s \in 1 .. Slots,
         \A t \in Ram!Used : slot[t].id = f.id => t = s,
         s \in Ram!Used => slot[s].id = f.id,
         slot' = [slot EXCEPT ![s] = f]
  PROVE  /\ RamInv'
         /\ RamFile' = [RamFile EXCEPT ![f.id] = [o \in f.map |-> f.data[o]]]
<1>1. /\ slot'[s] = f /\ \A t \in 1 .. Slots : t # s => slot'[t] = slot[t]
      /\ slot' \in [1 .. Slots -> RamFiles \cup {Ram!Unused}]
  BY DEF RamInv
<1>2. Ram!Used' = Ram!Used \cup {s}
  BY <1>1, UnusedIsNoFile DEF Ram!Used
<1>3. \A t \in Ram!Used : t \in 1 .. Slots
  BY DEF Ram!Used
<1>4. \A t, u \in Ram!Used' : slot'[t].id = slot'[u].id => t = u
  <2> SUFFICES ASSUME NEW t \in Ram!Used', NEW u \in Ram!Used', slot'[t].id = slot'[u].id,
                      t # u
               PROVE  FALSE
    OBVIOUS
  <2>1. CASE t = s
    <3>1. u \in Ram!Used /\ slot'[u] = slot[u] /\ slot[u].id = f.id
      BY <1>1, <1>2, <1>3, <2>1
    <3>2. QED
      BY <3>1, <2>1
  <2>2. CASE u = s
    <3>1. t \in Ram!Used /\ slot'[t] = slot[t] /\ slot[t].id = f.id
      BY <1>1, <1>2, <1>3, <2>2
    <3>2. QED
      BY <3>1, <2>2
  <2>3. CASE t # s /\ u # s
    <3>1. t \in Ram!Used /\ slot'[t] = slot[t] /\ u \in Ram!Used /\ slot'[u] = slot[u]
      BY <1>1, <1>2, <1>3, <2>3
    <3>2. QED
      BY <3>1 DEF RamInv
  <2>4. QED
    BY <2>1, <2>2, <2>3
<1>5. \A t \in Ram!Used' : MapTells(slot'[t])
  <2> SUFFICES ASSUME NEW t \in Ram!Used' PROVE MapTells(slot'[t])
    OBVIOUS
  <2>1. CASE t = s
    BY <1>1, <2>1
  <2>2. CASE t # s
    <3>1. t \in Ram!Used /\ slot'[t] = slot[t]
      BY <1>1, <1>2, <1>3, <2>2
    <3>2. QED
      BY <3>1 DEF RamInv
  <2>3. QED
    BY <2>1, <2>2
<1>6. RamInv'
  BY <1>1, <1>4, <1>5 DEF RamInv
<1>7. f.id \in RamIds
  BY DEF RamFiles
<1>8. Ram!ContentOf(f.id)' = [o \in f.map |-> f.data[o]]
  <2>1. s \in Ram!Find(f.id)'
    BY <1>1, <1>2 DEF Ram!Find
  <2>2. Ram!ContentOf(f.id)' = [o \in slot'[s].map |-> slot'[s].data[o]]
    BY <1>6, <1>7, <2>1, RamReadsNext
  <2>3. QED
    BY <1>1, <2>2
<1>9. ASSUME NEW x \in RamIds, x # f.id
      PROVE  Ram!ContentOf(x)' = Ram!ContentOf(x)
  <2>1. \A t \in Ram!Used \cup {s} : slot'[t].id = x <=> (t \in Ram!Used /\ slot[t].id = x)
    BY <1>1, <1>3, <1>9
  <2>2. Ram!Find(x)' = Ram!Find(x)
    BY <1>2, <2>1 DEF Ram!Find
  <2>3. \A t \in Ram!Find(x) : slot'[t] = slot[t]
    BY <1>1, <1>3, <1>9 DEF Ram!Find
  <2>4. QED
    BY <1>6, <2>2, <2>3, RamSame
<1>10. QED
  BY <1>6, <1>7, <1>8, <1>9 DEF RamFile

Blank(id, total) == [id |-> id, total |-> total, data |-> [o \in Offs |-> Absent], map |-> {}]

(* What a create goes to: the file of that name, or a slot that is free.     *)
LEMMA HomeIs ==
  ASSUME RamInv, NEW id \in RamIds, NEW s \in Ram!Home(id)
  PROVE  /\ s \in 1 .. Slots /\ \A t \in Ram!Used : slot[t].id = id => t = s
         /\ s \in Ram!Used => slot[s].id = id
<1>1. CASE Ram!Find(id) # {}
  BY <1>1 DEF Ram!Home, Ram!Find, Ram!Used, RamInv
<1>2. CASE Ram!Find(id) = {}
  <2> DEFINE free == (1 .. Slots) \ Ram!Used
  <2>1. free # {} /\ s = Ram!Min(free)
    BY <1>2 DEF Ram!Home
  <2>2. \E x \in free : \A y \in free : x <= y
    BY <2>1, LeastNatural, RamGiven
  <2>3. s \in free
    BY <2>1, <2>2 DEF Ram!Min
  <2>4. QED
    BY <1>2, <2>3 DEF Ram!Find
<1>3. QED
  BY <1>1, <1>2

(* A create keeps the invariant and is a create of the seam, or is refused. *)
LEMMA RamCreates ==
  ASSUME RamInv, NEW id \in RamIds, NEW total \in 1 .. MaxTotal, Ram!Create(id, total)
  PROVE  RamInv' /\ Ram!Seam!Next
<1>1. CASE UNCHANGED slot /\ answer' = Ram!Refused
  BY <1>1, RamRefuses DEF Ram!Seam!Next
<1>2. ASSUME NEW s \in Ram!Home(id),
             slot' = [slot EXCEPT ![s] = Blank(id, total)], answer' = Ram!Done(<< >>)
      PROVE  RamInv' /\ Ram!Seam!Next
  <2> DEFINE f == Blank(id, total)
  <2>1. f \in RamFiles /\ MapTells(f) /\ f.id = id /\ f.map = {}
    BY DEF Blank, RamFiles, MapTells
  <2>2. slot' = [slot EXCEPT ![s] = f]
    BY <1>2
  <2> HIDE DEF f
  <2>3. RamInv' /\ RamFile' = [RamFile EXCEPT ![id] = [o \in f.map |-> f.data[o]]]
    <3>1. /\ s \in 1 .. Slots /\ \A t \in Ram!Used : slot[t].id = f.id => t = s
          /\ s \in Ram!Used => slot[s].id = f.id
      BY <2>1, HomeIs
    <3>2. RamInv' /\ RamFile' = [RamFile EXCEPT ![f.id] = [o \in f.map |-> f.data[o]]]
      BY <2>1, <2>2, <3>1, RamPuts
    <3>3. QED
      BY <2>1, <3>2
  <2>4. [o \in f.map |-> f.data[o]] = << >>
    BY <2>1
  <2>5. Ram!Seam!Create(id)
    BY <1>2, <2>3, <2>4 DEF Ram!Seam!Create, RamFile, Ram!Done, Ram!Seam!Done
  <2>6. QED
    BY <2>3, <2>5 DEF Ram!Seam!Next
<1>3. QED
  BY <1>1, <1>2 DEF Ram!Create, Ram!Fails, Ram!Refusing, Blank, Offs

(* A write puts its bytes down over what is there, or is refused. *)
LEMMA RamWrites ==
  ASSUME RamInv, NEW id \in RamIds, NEW off \in Offs, NEW data \in Ram!Data,
         off + Len(data) <= MaxTotal, Ram!Write(id, off, data)
  PROVE  RamInv' /\ Ram!Seam!Next
<1>1. CASE UNCHANGED slot /\ answer' = Ram!Refused
  BY <1>1, RamRefuses DEF Ram!Seam!Next
<1>2. ASSUME NEW s \in Ram!Fitting(id, off, Len(data)), answer' = Ram!Done(<< >>),
             slot' = [slot EXCEPT
                        ![s].data = [o \in DOMAIN @ |-> IF o \in Ram!Span(off, Len(data))
                                                        THEN data[o - off + 1] ELSE @[o]],
                        ![s].map = Ram!Marked(s, off, Len(data))]
      PROVE  RamInv' /\ Ram!Seam!Next
  <2>1. /\ s \in 1 .. Slots /\ slot[s] \in RamFiles /\ slot[s].id = id /\ s \in Ram!Used
        /\ MapTells(slot[s]) /\ off + Len(data) <= slot[s].total
        /\ \A t \in Ram!Used : slot[t].id = id => t = s
    BY <1>2 DEF Ram!Fitting, Ram!Find, Ram!Used, RamInv
  <2> DEFINE n == Len(data)
             span == off .. off + n - 1
             bytes == [o \in Offs |-> IF o \in span THEN data[o - off + 1] ELSE slot[s].data[o]]
             f == [slot[s] EXCEPT !.data = bytes, !.map = slot[s].map \cup span]
  <2>2. /\ n \in Nat /\ n \in 1 .. MaxTotal /\ \A i \in 1 .. n : data[i] \in ByteValues
        /\ DOMAIN data = 1 .. n /\ data \in Ram!Seam!Data
    BY DEF Ram!Data, Ram!Seam!Data
  <2>3. /\ off \in Nat /\ off + n <= slot[s].total /\ slot[s].total \in Nat
        /\ slot[s].total <= MaxTotal /\ MaxTotal \in Nat /\ slot[s].map \in SUBSET Offs
        /\ slot[s].data \in [Offs -> ByteValues \cup {Absent}]
    BY <2>1, RamGiven DEF RamFiles, Offs
  <2>4. slot' = [slot EXCEPT ![s] = f]
    <3>1. Ram!Span(off, n) = span /\ Ram!Marked(s, off, n) = slot[s].map \cup span
      BY DEF Ram!Span, Ram!Marked
    <3>2. [o \in DOMAIN slot[s].data |-> IF o \in span THEN data[o - off + 1] ELSE slot[s].data[o]] = bytes
      BY <2>3
    <3>3. QED
      BY <1>2, <2>1, <3>1, <3>2
  <2> HIDE DEF n
  <2>5. span \subseteq 0 .. slot[s].total - 1 /\ span \subseteq Offs
    BY <2>2, <2>3 DEF Offs
  <2>6. \A o \in span : data[o - off + 1] \in ByteValues
    BY <2>2, <2>3
  <2>7. bytes \in [Offs -> ByteValues \cup {Absent}]
    BY <2>3, <2>6
  <2>8. /\ f \in RamFiles /\ f.id = id /\ f.map = slot[s].map \cup span /\ f.data = bytes
        /\ f.total = slot[s].total
    BY <2>1, <2>3, <2>5, <2>7, Zenon DEF RamFiles
  <2>9. MapTells(f)
    <3>1. ASSUME NEW o \in Offs PROVE o \in f.map <=> f.data[o] # Absent
      <4>1. CASE o \in span
        BY <2>6, <2>8, <4>1, RamGiven
      <4>2. CASE o \notin span
        BY <2>1, <2>8, <4>2 DEF MapTells
      <4>3. QED
        BY <4>1, <4>2
    <3>2. QED
      BY <2>1, <2>5, <2>8, <3>1 DEF MapTells
  <2> HIDE DEF f
  <2>10. RamInv' /\ RamFile' = [RamFile EXCEPT ![id] = [o \in f.map |-> f.data[o]]]
    <3>1. /\ \A t \in Ram!Used : slot[t].id = f.id => t = s
          /\ s \in Ram!Used => slot[s].id = f.id
      BY <2>1, <2>8
    <3>2. RamInv' /\ RamFile' = [RamFile EXCEPT ![f.id] = [o \in f.map |-> f.data[o]]]
      BY <2>1, <2>4, <2>8, <2>9, <3>1, RamPuts
    <3>3. QED
      BY <2>8, <3>2
  <2>11. RamFile[id] = [o \in slot[s].map |-> slot[s].data[o]] /\ RamFile[id] # Absent
    <3>1. s \in Ram!Find(id)
      BY <2>1 DEF Ram!Find
    <3>2. /\ Ram!ContentOf(id) = [o \in slot[s].map |-> slot[s].data[o]]
          /\ slot[s].map \in SUBSET Offs
          /\ \A o \in slot[s].map : slot[s].data[o] \in ByteValues
      BY <3>1, RamReads
    <3>3. Ram!ContentOf(id) \in [slot[s].map -> ByteValues]
      BY <3>2
    <3>4. QED
      BY <3>2, <3>3, RamGiven DEF RamFile
  <2>12. [o \in f.map |-> f.data[o]] = Ram!Seam!Put(RamFile[id], off, data)
    <3>1. span = {off + i - 1 : i \in DOMAIN data}
      <4>1. \A o \in span : o - off + 1 \in 1 .. n /\ o = off + (o - off + 1) - 1
        BY <2>2, <2>3
      <4>2. \A i \in 1 .. n : off + i - 1 \in span
        BY <2>2, <2>3
      <4>3. QED
        BY <2>2, <4>1, <4>2
    <3>2. DOMAIN RamFile[id] = slot[s].map
      BY <2>11
    <3>3. \A o \in Offs : o \in span <=> (o >= off /\ o < off + Len(data))
      BY <2>2, <2>3 DEF n, Offs
    <3>4. \A o \in slot[s].map \cup span :
            f.data[o] = IF o >= off /\ o < off + Len(data) THEN data[o - off + 1]
                        ELSE RamFile[id][o]
      <4>1. \A o \in slot[s].map : RamFile[id][o] = slot[s].data[o]
        BY <2>11, Zenon
      <4>2. \A o \in slot[s].map \cup span : o \in Offs
        BY <2>3, <2>5
      <4>3. \A o \in Offs : f.data[o] = IF o \in span THEN data[o - off + 1]
                                      ELSE slot[s].data[o]
        BY <2>8, Zenon
      <4> HIDE DEF span, bytes
      <4>4. QED
        BY <3>3, <4>1, <4>2, <4>3, Zenon
    <3> DEFINE put(o) == IF o >= off /\ o < off + Len(data) THEN data[o - off + 1]
                         ELSE RamFile[id][o]
    <3> HIDE DEF span, bytes
    <3>5. /\ f.map = DOMAIN RamFile[id] \cup {off + i - 1 : i \in DOMAIN data}
          /\ \A o \in f.map : f.data[o] = put(o)
      BY <2>8, <3>1, <3>2, <3>4
    <3>6. Ram!Seam!Put(RamFile[id], off, data) = [o \in f.map |-> put(o)]
      BY <3>5, Zenon DEF Ram!Seam!Put
    <3> HIDE DEF put
    <3>7. QED
      BY <3>5, <3>6
  <2>13. Ram!Seam!Write(id, off, data)
    BY <1>2, <2>10, <2>11, <2>12 DEF Ram!Seam!Write, RamFile, Ram!Done, Ram!Seam!Done
  <2>14. QED
    BY <2>2, <2>10, <2>13 DEF Ram!Seam!Next, Ram!Seam!Offsets, Offs
<1>3. QED
  BY <1>1, <1>2 DEF Ram!Write, Ram!Fails, Ram!Refusing

(* A read gives the bytes that were written, or is refused. *)
LEMMA RamReadsBack ==
  ASSUME RamInv, NEW id \in RamIds, NEW off \in Offs, NEW n \in 1 .. MaxTotal,
         Ram!Read(id, off, n)
  PROVE  RamInv' /\ Ram!Seam!Next
<1>1. CASE answer' = Ram!Refused
  BY <1>1, RamRefuses DEF Ram!Seam!Next, Ram!Read
<1>2. ASSUME NEW s \in Ram!Readable(id, off, n),
             answer' = Ram!Done([i \in 1 .. n |-> slot[s].data[off + i - 1]])
      PROVE  RamInv' /\ Ram!Seam!Next
  <2>1. s \in Ram!Find(id) /\ off .. off + n - 1 \subseteq slot[s].map
    BY <1>2 DEF Ram!Readable, Ram!Fitting, Ram!Span
  <2>2. /\ RamFile[id] = [o \in slot[s].map |-> slot[s].data[o]] /\ slot[s].map \in SUBSET Offs
        /\ \A o \in slot[s].map : slot[s].data[o] \in ByteValues
    BY <2>1, RamReads DEF RamFile
  <2>3. RamFile[id] # Absent
    <3>1. RamFile[id] \in [slot[s].map -> ByteValues]
      BY <2>2
    <3>2. QED
      BY <2>2, <3>1, RamGiven
  <2>4. Ram!Seam!Held(RamFile[id], off, n)
    BY <2>1, <2>2 DEF Ram!Seam!Held
  <2>5. Ram!Seam!Got(RamFile[id], off, n) = [i \in 1 .. n |-> slot[s].data[off + i - 1]]
    <3>1. \A i \in 1 .. n : off + i - 1 \in off .. off + n - 1
      BY RamGiven DEF Offs
    <3>2. \A i \in 1 .. n : RamFile[id][off + i - 1] = slot[s].data[off + i - 1]
      BY <2>1, <2>2, <3>1
    <3>3. QED
      BY <3>2 DEF Ram!Seam!Got
  <2>6. RamFile' = RamFile /\ RamInv'
    BY DEF RamFile, Ram!ContentOf, Ram!Find, Ram!Used, Ram!Read, RamInv
  <2>7. Ram!Seam!Read(id, off, n)
    BY <1>2, <2>3, <2>4, <2>5, <2>6 DEF Ram!Seam!Read, RamFile, Ram!Done, Ram!Seam!Done
  <2>8. QED
    BY <2>6, <2>7 DEF Ram!Seam!Next, Ram!Seam!Offsets, Offs
<1>3. QED
  BY <1>1, <1>2 DEF Ram!Read

(* Slots that are wiped take their files with them and nothing else.         *)
LEMMA RamDestroys ==
  ASSUME RamInv, NEW id \in RamIds, Ram!Destroy(id)
  PROVE  RamInv' /\ Ram!Seam!Next
<1>1. /\ \A t \in 1 .. Slots : slot'[t] = IF t \in Ram!Find(id) THEN Ram!Unused ELSE slot[t]
      /\ slot' \in [1 .. Slots -> RamFiles \cup {Ram!Unused}]
      /\ answer' = Ram!Done(<< >>)
  BY DEF Ram!Destroy, Ram!Wiped, RamInv
<1>2. Ram!Used' = Ram!Used \ Ram!Find(id) /\ \A t \in Ram!Used' : slot'[t] = slot[t]
  BY <1>1 DEF Ram!Used
<1>3. RamInv'
  BY <1>1, <1>2 DEF RamInv
<1>4. Ram!ContentOf(id)' = Absent
  <2>1. Ram!Find(id)' = {}
    BY <1>2 DEF Ram!Find
  <2>2. QED
    BY <1>3, <2>1, RamReadsNext
<1>5. ASSUME NEW x \in RamIds, x # id PROVE Ram!ContentOf(x)' = Ram!ContentOf(x)
  <2>1. Ram!Find(x)' = Ram!Find(x) /\ \A t \in Ram!Find(x) : slot'[t] = slot[t]
    BY <1>2, <1>5 DEF Ram!Find
  <2>2. QED
    BY <1>3, <2>1, RamSame
<1>6. Ram!Seam!Destroy(id)
  BY <1>1, <1>4, <1>5 DEF Ram!Seam!Destroy, RamFile, Ram!Done, Ram!Seam!Done
<1>7. QED
  BY <1>3, <1>6 DEF Ram!Seam!Next

(* A rename moves the file, takes the name from what had it, or is refused. *)
LEMMA RamRenames ==
  ASSUME RamInv, NEW from \in RamIds, NEW to \in RamIds, Ram!Rename(from, to)
  PROVE  RamInv' /\ Ram!Seam!Next
<1>1. CASE UNCHANGED slot /\ answer' = Ram!Refused
  BY <1>1, RamRefuses DEF Ram!Seam!Next
<1>2. ASSUME from # to, NEW s \in Ram!Find(from), answer' = Ram!Done(<< >>),
             slot' = [Ram!Wiped(Ram!Find(to)) EXCEPT ![s].id = to]
      PROVE  RamInv' /\ Ram!Seam!Next
  <2> DEFINE f == [slot[s] EXCEPT !.id = to]
  <2>1. /\ s \in 1 .. Slots /\ slot[s] \in RamFiles /\ slot[s].id = from /\ s \in Ram!Used
        /\ MapTells(slot[s]) /\ Ram!Find(from) = {s} /\ s \notin Ram!Find(to)
    BY <1>2 DEF Ram!Find, Ram!Used, RamInv
  <2>2. f \in RamFiles /\ f.id = to /\ f.map = slot[s].map /\ f.data = slot[s].data /\ MapTells(f)
    BY <2>1 DEF RamFiles, MapTells
  <2>3. /\ slot'[s] = f
        /\ \A t \in 1 .. Slots : t # s =>
             slot'[t] = IF t \in Ram!Find(to) THEN Ram!Unused ELSE slot[t]
        /\ slot' \in [1 .. Slots -> RamFiles \cup {Ram!Unused}]
    BY <1>2, <2>1, <2>2 DEF Ram!Wiped, RamInv
  <2> HIDE DEF f
  <2>4. /\ Ram!Used' = Ram!Used \ Ram!Find(to)
        /\ \A t \in Ram!Used' : t # s => slot'[t] = slot[t] /\ slot[t].id \notin {from, to}
    BY <2>1, <2>2, <2>3, UnusedIsNoFile DEF Ram!Used, Ram!Find
  <2>5. RamInv'
    <3>1. s \in Ram!Used'
      BY <2>1, <2>4
    <3>2. \A t, u \in Ram!Used' : slot'[t].id = slot'[u].id => t = u
      <4> SUFFICES ASSUME NEW t \in Ram!Used', NEW u \in Ram!Used', t # u,
                          slot'[t].id = slot'[u].id
                   PROVE  FALSE
        OBVIOUS
      <4>1. CASE t # s /\ u # s
        BY <2>4, <4>1 DEF RamInv
      <4>2. CASE t = s \/ u = s
        BY <2>2, <2>3, <2>4, <4>2
      <4>3. QED
        BY <4>1, <4>2
    <3>3. \A t \in Ram!Used' : MapTells(slot'[t])
      <4> SUFFICES ASSUME NEW t \in Ram!Used' PROVE MapTells(slot'[t])
        OBVIOUS
      <4>1. CASE t = s
        BY <2>2, <2>3, <4>1
      <4>2. CASE t # s
        BY <2>4, <4>2 DEF RamInv
      <4>3. QED
        BY <4>1, <4>2
    <3>4. QED
      BY <2>3, <3>2, <3>3 DEF RamInv
  <2>6. Ram!ContentOf(to)' = Ram!ContentOf(from) /\ Ram!ContentOf(from) # Absent
    <3>1. /\ Ram!ContentOf(from) = [o \in slot[s].map |-> slot[s].data[o]]
          /\ slot[s].map \in SUBSET Offs
          /\ \A o \in slot[s].map : slot[s].data[o] \in ByteValues
      BY <2>1, RamReads
    <3>2. Ram!ContentOf(from) \in [slot[s].map -> ByteValues]
      BY <3>1
    <3>3. s \in Ram!Find(to)'
      BY <2>1, <2>2, <2>3, <2>4 DEF Ram!Find
    <3>4. Ram!ContentOf(to)' = [o \in slot'[s].map |-> slot'[s].data[o]]
      BY <2>5, <3>3, RamReadsNext
    <3>5. Ram!ContentOf(to)' = Ram!ContentOf(from)
      BY <2>2, <2>3, <3>1, <3>4
    <3>6. QED
      BY <3>1, <3>2, <3>5, RamGiven
  <2>7. Ram!ContentOf(from)' = Absent
    <3>1. Ram!Find(from)' = {}
      BY <1>2, <2>2, <2>3, <2>4 DEF Ram!Find
    <3>2. QED
      BY <2>5, <3>1, RamReadsNext
  <2>8. ASSUME NEW x \in RamIds, x \notin {from, to} PROVE Ram!ContentOf(x)' = Ram!ContentOf(x)
    <3>1. Ram!Find(x)' = Ram!Find(x) /\ \A t \in Ram!Find(x) : slot'[t] = slot[t]
      BY <2>1, <2>2, <2>3, <2>4, <2>8 DEF Ram!Find
    <3>2. QED
      BY <2>5, <3>1, RamSame
  <2>9. Ram!Seam!Rename(from, to)
    BY <1>2, <2>6, <2>7, <2>8 DEF Ram!Seam!Rename, RamFile, Ram!Done, Ram!Seam!Done
  <2>10. QED
    BY <2>5, <2>9 DEF Ram!Seam!Next
<1>3. QED
  BY <1>1, <1>2 DEF Ram!Rename, Ram!Fails, Ram!Refusing

RamFileVars == <<[id \in RamIds |-> Ram!ContentOf(id)], answer>>

(* A step elsewhere changes no slot. *)
LEMMA RamStutters ==
  RamInv /\ UNCHANGED ramVars => RamInv' /\ UNCHANGED RamFileVars
BY DEF ramVars, RamInv, Ram!ContentOf, Ram!Find, Ram!Used, RamFileVars

(* Every call of the backend in RAM is one of the seam. *)
LEMMA RamStep ==
  ASSUME RamInv, Ram!Next
  PROVE  RamInv' /\ Ram!Seam!Next
<1>1. CASE \E id \in RamIds : Ram!Destroy(id) \/ \E total \in 1 .. MaxTotal : Ram!Create(id, total)
  BY <1>1, RamDestroys, RamCreates
<1>2. CASE \E id \in RamIds, off \in 0 .. MaxTotal - 1, data \in Ram!Data :
             off + Len(data) <= MaxTotal /\ Ram!Write(id, off, data)
  BY <1>2, RamWrites DEF Offs
<1>3. CASE \E id \in RamIds, off \in 0 .. MaxTotal - 1, n \in 1 .. MaxTotal : Ram!Read(id, off, n)
  BY <1>3, RamReadsBack DEF Offs
<1>4. CASE \E from, to \in RamIds : Ram!Rename(from, to)
  BY <1>4, RamRenames
<1>5. QED
  BY <1>1, <1>2, <1>3, <1>4 DEF Ram!Next

(* Of the scenarios only one takes the backend's steps. *)
LEMMA RamAlone == [UploadsNext]_all => [Ram!Next]_ramVars
BY DEF UploadsNext, all, InStore, InConsole, InRam, InVolume, ramVars

(* Whatever is asked of it in whatever order, and whatever it is made to refuse, *)
(* the backend in RAM does what the seam promises (ByteStore), call for call: *)
(* bytes are read back as they were written or not at all. *)
THEOREM RamKeepsTheSeam == UploadsSpec => Ram!KeepsTheSeam
<1>1. UploadsInit => RamInv /\ Ram!Seam!Init
  BY RamStarts DEF UploadsInit
<1>2. RamInv /\ [UploadsNext]_all => RamInv' /\ [Ram!Seam!Next]_RamFileVars
  BY RamAlone, RamStep, RamStutters
<1>3. QED
  BY <1>1, <1>2, PTL DEF UploadsSpec, Ram!KeepsTheSeam, Ram!Seam!Spec, RamFileVars

-----------------------------------------------------------------------------
(* The RAM store is exact.                                                   *)

(* The store in RAM counts as one counts here. *)
LEMMA RamCounts == \A S : Ram!Cardinality(S) = Cardinality(S)
BY Zenon DEF Ram!Cardinality, Cardinality, Ram!IsFiniteSet, IsFiniteSet

RankIn(U, k) == Ram!Cardinality({t \in U : t <= k})

(* The rank of a place is how many are not beyond it. *)
LEMMA RankCounts == \A U, k : RankIn(U, k) = Cardinality({t \in U : t <= k})
BY RamCounts DEF RankIn

(* Of a set of places, each rank up to its size is that of one of them.      *)
LEMMA RankIsTaken ==
  ASSUME NEW N \in Nat, NEW U, U \subseteq 1 .. N, NEW n \in 1 .. Cardinality(U)
  PROVE  \E s \in U : RankIn(U, s) = n
<1> DEFINE Q == {k \in 0 .. N : RankIn(U, k) < n \/ \E s \in U : RankIn(U, s) = n}
<1>0. \A t \in U : t \in 1 .. N /\ t \in Nat
  OBVIOUS
<1>1. /\ \A k : IsFiniteSet({t \in U : t <= k}) /\ RankIn(U, k) \in Nat
      /\ Cardinality(U) \in Nat /\ n \in Nat /\ n <= Cardinality(U)
  <2>1. IsFiniteSet(1 .. N)
    BY FS_Interval
  <2>2. \A T \in SUBSET (1 .. N) : IsFiniteSet(T) /\ Cardinality(T) \in Nat
    BY <2>1, FS_Subset, FS_CardinalityType
  <2>3. \A k : {t \in U : t <= k} \in SUBSET (1 .. N)
    OBVIOUS
  <2>4. \A k : IsFiniteSet({t \in U : t <= k}) /\ RankIn(U, k) \in Nat
    BY <2>2, <2>3, RankCounts
  <2>5. Cardinality(U) \in Nat
    BY <2>2
  <2>6. QED
    BY <2>4, <2>5
<1>2. 0 \in Q
  <2>0. \A t \in U : ~(t <= 0)
    BY <1>0
  <2>1. {t \in U : t <= 0} = {}
    BY <2>0
  <2>2. RankIn(U, 0) = 0
    BY <2>1, FS_EmptySet, RankCounts
  <2>3. QED
    BY <2>2
<1>3. ASSUME NEW k \in 1 .. N, k - 1 \in Q PROVE k \in Q
  <2> DEFINE below == {t \in U : t <= k - 1}
  <2>1. CASE \E s \in U : RankIn(U, s) = n
    BY <2>1
  <2>2. CASE RankIn(U, k - 1) < n /\ k \notin U
    <3>0. \A t \in U : t <= k <=> t <= k - 1
      BY <1>0, <2>2
    <3>1. {t \in U : t <= k} = below
      BY <3>0
    <3>2. RankIn(U, k) = RankIn(U, k - 1)
      BY <3>1, RankCounts
    <3>3. QED
      BY <2>2, <3>2
  <2>3. CASE RankIn(U, k - 1) < n /\ k \in U
    <3>0. /\ \A t \in U : t <= k <=> (t <= k - 1 \/ t = k)
          /\ ~(k <= k - 1)
      BY <1>0
    <3>1. {t \in U : t <= k} = below \cup {k} /\ k \notin below
      BY <2>3, <3>0
    <3>2. RankIn(U, k) = RankIn(U, k - 1) + 1
      <4>1. IsFiniteSet(below)
        BY <1>1
      <4> HIDE DEF below
      <4>2. Cardinality(below \cup {k}) = Cardinality(below) + 1
        BY <3>1, <4>1, FS_AddElement
      <4>3. QED
        BY <3>1, <4>2, RankCounts DEF below
    <3>3. RankIn(U, k) < n \/ RankIn(U, k) = n
      <4>1. RankIn(U, k) \in Nat /\ RankIn(U, k - 1) \in Nat /\ n \in Nat
        BY <1>1
      <4>2. QED
        BY <2>3, <3>2, <4>1
    <3>4. QED
      BY <2>3, <3>3
  <2>4. QED
    BY <1>3, <2>1, <2>2, <2>3
<1>4. N \in Q
  <2> HIDE DEF Q
  <2>1. \A k \in 0 .. N : k \in Q
    BY <1>2, <1>3, CountingUp
  <2>2. QED
    BY <2>1
<1>5. RankIn(U, N) = Cardinality(U)
  <2>0. \A t \in U : t <= N
    BY <1>0
  <2>1. {t \in U : t <= N} = U
    BY <2>0
  <2>2. QED
    BY <2>1, RankCounts
<1>6. QED
  <2>1. ~(RankIn(U, N) < n)
    BY <1>1, <1>5
  <2>2. QED
    BY <1>4, <2>1

(* The chunk a byte is in. *)
LEMMA ChunkOf ==
  ASSUME NEW K \in Nat \ {0}, NEW top \in Nat
  PROVE  \A o \in 0 .. top : \E c \in 0 .. o : c * K <= o /\ o < (c + 1) * K
<1> DEFINE Q == {o \in 0 .. top : \E c \in 0 .. o : c * K <= o /\ o < (c + 1) * K}
<1>1. 0 \in Q
  BY 0 * K <= 0 /\ 0 < (0 + 1) * K
<1>2. ASSUME NEW o \in 1 .. top, o - 1 \in Q PROVE o \in Q
  <2>1. PICK c \in 0 .. o - 1 : c * K <= o - 1 /\ o - 1 < (c + 1) * K
    BY <1>2
  <2>2. c * K \in Nat /\ (c + 1) * K = c * K + K /\ (c + 1 + 1) * K = c * K + K + K
    OBVIOUS
  <2>3. CASE o < (c + 1) * K
    BY <2>1, <2>2, <2>3
  <2>4. CASE ~(o < (c + 1) * K)
    <3>1. (c + 1) * K <= o /\ o < (c + 1 + 1) * K /\ c + 1 \in 0 .. o
      BY <2>1, <2>2, <2>4
    <3>2. \E e \in 0 .. o : e * K <= o /\ o < (e + 1) * K
      BY <3>1
    <3>3. o \in 0 .. top
      OBVIOUS
    <3>4. QED
      BY <3>2, <3>3
  <2>5. QED
    BY <2>3, <2>4
<1>3. QED
  <2> HIDE DEF Q
  <2>1. \A o \in 0 .. top : o \in Q
    BY <1>1, <1>2, CountingUp
  <2>2. QED
    BY <2>1 DEF Q

(* The lesser of two. *)
LEMMA LesserOf ==
  ASSUME NEW a \in Nat, NEW b \in Nat
  PROVE  /\ Ram!Min({a, b}) \in {a, b}
         /\ Ram!Min({a, b}) <= a /\ Ram!Min({a, b}) <= b
<1>1. \E x \in {a, b} : \A y \in {a, b} : x <= y
  OBVIOUS
<1>2. Ram!Min({a, b}) \in {a, b} /\ \A y \in {a, b} : Ram!Min({a, b}) <= y
  BY <1>1 DEF Ram!Min
<1>3. QED
  BY <1>2

(* A walk offers each file once. *)
LEMMA WalkIsOnce ==
  ASSUME RamInv
  PROVE  Cardinality({Ram!Walk[n] : n \in DOMAIN Ram!Walk}) = Len(Ram!Walk)
<1> DEFINE U == Ram!Used
           N == Cardinality(U)
           At(n) == CHOOSE s \in U : RankIn(U, s) = n
<1>1. U \in SUBSET (1 .. Slots) /\ IsFiniteSet(U) /\ N \in Nat /\ Slots \in Nat
  <2>1. U \in SUBSET (1 .. Slots) /\ Slots \in Nat
    BY RamGiven DEF Ram!Used
  <2>2. IsFiniteSet(1 .. Slots)
    BY <2>1, FS_Interval
  <2>3. IsFiniteSet(U)
    BY <2>1, <2>2, FS_Subset
  <2>4. QED
    BY <2>1, <2>3, FS_CardinalityType
<1>2. \A n \in 1 .. N : At(n) \in U /\ RankIn(U, At(n)) = n
  <2> SUFFICES ASSUME NEW n \in 1 .. N PROVE At(n) \in U /\ RankIn(U, At(n)) = n
    OBVIOUS
  <2>1. \E s \in U : RankIn(U, s) = n
    BY <1>1, RankIsTaken
  <2>2. QED
    BY <2>1
<1>3. Ram!Walk = [n \in 1 .. N |-> slot[At(n)].id]
  <2>1. Ram!Walk = [n \in 1 .. Ram!Cardinality(U) |-> slot[At(n)].id]
    BY Zenon DEF Ram!Walk, RankIn
  <2>2. QED
    BY <2>1, RamCounts
<1> HIDE DEF At
<1>4. \A m, n \in 1 .. N : Ram!Walk[m] = Ram!Walk[n] => m = n
  <2> SUFFICES ASSUME NEW m \in 1 .. N, NEW n \in 1 .. N, Ram!Walk[m] = Ram!Walk[n]
               PROVE  m = n
    OBVIOUS
  <2>1. slot[At(m)].id = slot[At(n)].id
    BY <1>3
  <2>2. At(m) = At(n)
    BY <1>2, <2>1 DEF RamInv
  <2>3. QED
    BY <1>2, <2>2
<1>5. DOMAIN Ram!Walk = 1 .. N /\ Len(Ram!Walk) = N
  BY <1>1, <1>3
<1> DEFINE T == {Ram!Walk[n] : n \in DOMAIN Ram!Walk}
<1>6. Ram!Walk \in Surjection(1 .. N, T) /\ Ram!Walk \in Injection(1 .. N, T)
  BY <1>3, <1>4, <1>5 DEF Surjection, Injection, IsInjective
<1>7. QED
  <2>1. IsFiniteSet(1 .. N) /\ Cardinality(1 .. N) = N
    BY <1>1, FS_Interval
  <2>2. Cardinality(T) = Cardinality(1 .. N)
    BY <1>6, <2>1, FS_Surjection
  <2>3. QED
    BY <1>5, <2>1, <2>2

(* What the backend in RAM says of a file is true of its bytes: one slot for an *)
(* id, a chunk only with every byte, complete when every chunk is there, and a *)
(* walk that gives each file once (RamIsExact follows from the invariant). *)
THEOREM RamStaysExact == RamInv => Ram!RamIsExact
<1> SUFFICES ASSUME RamInv PROVE Ram!RamIsExact
  OBVIOUS
<1>1. \A id \in RamIds : Cardinality(Ram!Find(id)) <= 1
  <2> SUFFICES ASSUME NEW id \in RamIds PROVE Cardinality(Ram!Find(id)) <= 1
    OBVIOUS
  <2>1. Ram!Find(id) = {} \/ \E s : Ram!Find(id) = {s}
    BY RamReads
  <2>2. Ram!Find(id) = {} => Cardinality(Ram!Find(id)) = 0
    BY FS_EmptySet
  <2>3. \A s : Ram!Find(id) = {s} => Cardinality(Ram!Find(id)) = 1
    BY FS_Singleton
  <2>4. QED
    BY <2>1, <2>2, <2>3
<1>2. ASSUME NEW id \in RamIds, NEW s \in Ram!Used, slot[s].id = id
      PROVE  /\ \A c \in 0 .. MaxTotal :
                  Ram!Have(id, c) => \A o \in Ram!Span(c * Chunk, Chunk) :
                                       o < slot[s].total => slot[s].data[o] # Absent
             /\ Ram!Complete(id) <=>
                  \A c \in 0 .. MaxTotal : c * Chunk < slot[s].total => Ram!Have(id, c)
  <2> DEFINE total == slot[s].total
             map == slot[s].map
             end(c) == Ram!Min({(c + 1) * Chunk, total})
  <2>1. /\ Ram!Find(id) = {s} /\ slot[s] \in RamFiles
        /\ total \in 1 .. MaxTotal /\ map \subseteq 0 .. total - 1
        /\ \A o \in Offs : o \in map <=> slot[s].data[o] # Absent
        /\ Chunk \in Nat \ {0} /\ MaxTotal \in Nat
    <3>1. s \in Ram!Find(id)
      BY <1>2 DEF Ram!Find
    <3>2. MapTells(slot[s])
      BY DEF RamInv
    <3>3. QED
      BY <3>1, <3>2, RamReads, RamGiven DEF MapTells, RamFiles
  <2>2. \A c \in 0 .. MaxTotal :
          /\ c * Chunk \in Nat /\ (c + 1) * Chunk \in Nat /\ (c + 1) * Chunk = c * Chunk + Chunk
          /\ end(c) \in {(c + 1) * Chunk, total} /\ end(c) <= (c + 1) * Chunk /\ end(c) <= total
    <3> SUFFICES ASSUME NEW c \in 0 .. MaxTotal
                 PROVE  /\ c * Chunk \in Nat /\ (c + 1) * Chunk \in Nat
                        /\ (c + 1) * Chunk = c * Chunk + Chunk
                        /\ end(c) \in {(c + 1) * Chunk, total}
                        /\ end(c) <= (c + 1) * Chunk /\ end(c) <= total
      OBVIOUS
    <3>1. c \in Nat /\ Chunk \in Nat
      BY <2>1
    <3>2. c * Chunk \in Nat /\ (c + 1) * Chunk \in Nat /\ (c + 1) * Chunk = c * Chunk + Chunk
      BY <3>1
    <3>3. QED
      BY <2>1, <3>2, LesserOf
  <2>3. \A c \in 0 .. MaxTotal :
          Ram!Have(id, c) <=> c * Chunk < total /\ c * Chunk .. end(c) - 1 \subseteq map
    BY <2>1 DEF Ram!Have
  <2> HIDE DEF total, map, end
  <2>4. \A c \in 0 .. MaxTotal : Ram!Have(id, c) => \A o \in Ram!Span(c * Chunk, Chunk) :
                                                      o < total => slot[s].data[o] # Absent
    <3> SUFFICES ASSUME NEW c \in 0 .. MaxTotal, Ram!Have(id, c),
                        NEW o \in c * Chunk .. c * Chunk + Chunk - 1, o < total
                 PROVE  slot[s].data[o] # Absent
      BY DEF Ram!Span
    <3>1. o \in c * Chunk .. end(c) - 1
      BY <2>1, <2>2
    <3>2. o \in map /\ o \in Offs
      BY <2>1, <2>2, <2>3, <3>1 DEF Offs
    <3>3. QED
      BY <2>1, <3>2
  <2>5. Ram!Complete(id) <=> map = 0 .. total - 1
    <3>1. Ram!Complete(id) <=> Cardinality(map) = total
      <4>1. Ram!Complete(id) <=> \E t \in {s} : Cardinality(slot[t].map) = slot[t].total
        BY <2>1, RamCounts, Zenon DEF Ram!Complete, Ram!Held
      <4>2. QED
        BY <4>1, Zenon DEF total, map
    <3>2. IsFiniteSet(0 .. total - 1) /\ Cardinality(0 .. total - 1) = total
      BY <2>1, FS_Interval
    <3>3. QED
      BY <2>1, <3>1, <3>2, FS_Subset
  <2>6. map = 0 .. total - 1 => \A c \in 0 .. MaxTotal : c * Chunk < total => Ram!Have(id, c)
    BY <2>1, <2>2, <2>3
  <2>7. ASSUME \A c \in 0 .. MaxTotal : c * Chunk < total => Ram!Have(id, c)
        PROVE  map = 0 .. total - 1
    <3>1. ASSUME NEW o \in 0 .. total - 1 PROVE o \in map
      <4>1. PICK c \in 0 .. o : c * Chunk <= o /\ o < (c + 1) * Chunk
        <5>1. total - 1 \in Nat
          BY <2>1
        <5>2. QED
          BY <2>1, <5>1, ChunkOf
      <4>2. c \in 0 .. MaxTotal /\ c * Chunk < total
        BY <2>1, <2>2, <4>1
      <4>3. o \in c * Chunk .. end(c) - 1
        BY <2>1, <2>2, <4>1, <4>2
      <4>4. QED
        BY <2>3, <2>7, <4>2, <4>3
    <3>2. QED
      BY <2>1, <3>1
  <2>8. QED
    BY <2>4, <2>5, <2>6, <2>7 DEF total
<1>3. QED
  <2>1. Cardinality({Ram!Walk[n] : n \in DOMAIN Ram!Walk}) = Len(Ram!Walk)
    BY WalkIsOnce
  <2>2. QED
    BY <1>1, <1>2, <2>1, RamCounts, Zenon DEF Ram!RamIsExact

-----------------------------------------------------------------------------
(* The backends that keep a file for each id.                                *)

ByteSeqs == Seq(ByteValues)
VolumeFiles == {s \in ByteSeqs : Len(s) <= MaxTotal}
Begins(s, t) == Len(s) <= Len(t) /\ \A i \in 1 .. Len(s) : s[i] = t[i]

Writers == [id : FileIds \cup {Absent}, total : Nat, held : Nat, down : ByteSeqs]
Readers == [id : FileIds \cup {Absent}, seen : ByteSeqs]

(* The open writer is at the end of its file: what is on the volume, then    *)
(* what stdio holds, and not past what was asked for.                        *)
WriterIsOn ==
  wr.id \in FileIds =>
    /\ disk[wr.id] \in ByteSeqs /\ wr.held = Len(disk[wr.id]) + Len(wr.down)
    /\ wr.held <= wr.total /\ wr.total <= MaxTotal

(* What the reader holds is how the file on the volume begins. *)
ReaderIsOn == rd.id \in FileIds => disk[rd.id] \in ByteSeqs /\ Begins(rd.seen, disk[rd.id])

VolumeBytes ==
  /\ disk \in [FileIds -> VolumeFiles \cup {Absent}]
  /\ wr \in Writers
  /\ rd \in Readers
  /\ WriterIsOn /\ ReaderIsOn

(* What the assumptions on the constants say of the two on a volume. *)
LEMMA VolumeGiven ==
  /\ MaxTotal \in Nat \ {0} /\ Chunk \in Nat \ {0}
  /\ Absent \notin FileIds /\ Foreign \notin FileIds /\ Absent \notin ByteSeqs
  /\ Absent \notin VolumeFiles
  /\ \A W \in SUBSET Offs : Absent \notin [W -> ByteValues]
BY UploadsAssumption DEF Volume!HandleStoreAssumption, Volume!Seam!ByteStoreAssumption,
   Volume!Seam!Contents, Volume!Seam!Offsets, Offs, ByteSeqs, VolumeFiles

(* A writer that put down what it held is the same writer. *)
LEMMA WriterWithDown ==
  ASSUME NEW w \in Writers, NEW bytes \in ByteSeqs
  PROVE  /\ [w EXCEPT !.down = bytes] \in Writers
         /\ [w EXCEPT !.down = bytes].id = w.id
         /\ [w EXCEPT !.down = bytes].total = w.total
         /\ [w EXCEPT !.down = bytes].held = w.held
         /\ [w EXCEPT !.down = bytes].down = bytes
BY DEF Writers

(* An empty file is a file. *)
LEMMA NoBytes == << >> \in ByteSeqs /\ << >> \in VolumeFiles /\ Len(<< >>) = 0
BY VolumeGiven DEF ByteSeqs, VolumeFiles

(* A file as the seam has it: its bytes by their offset.                     *)
BytesOf(s) == IF s = Absent THEN Absent ELSE [o \in 0 .. Len(s) - 1 |-> s[o + 1]]

VolumeFile == [id \in FileIds |-> Volume!ContentOf(id)]

(* The seam's files are those on the volume with what stdio holds of them.   *)
LEMMA VolumeShows ==
  ASSUME VolumeBytes
  PROVE  /\ Volume!Flushed \in [FileIds -> VolumeFiles \cup {Absent}]
         /\ VolumeFile = [id \in FileIds |-> BytesOf(Volume!Flushed[id])]
         /\ \A id \in FileIds : Volume!Flushed[id] = Absent <=> disk[id] = Absent
         /\ \A id \in FileIds : id # wr.id => Volume!Flushed[id] = disk[id]
         /\ \A id \in FileIds : disk[id] # Absent => Begins(disk[id], Volume!Flushed[id])
         /\ wr.id \in FileIds => /\ disk[wr.id] \in VolumeFiles
                                 /\ Volume!Flushed[wr.id] \in VolumeFiles
                                 /\ Volume!Flushed[wr.id] = disk[wr.id] \o wr.down
                                 /\ Len(Volume!Flushed[wr.id]) = wr.held
<1>1. \A id \in FileIds : Volume!Flushed[id] = IF id = wr.id THEN disk[id] \o wr.down ELSE disk[id]
  BY DEF Volume!Flushed
<1>2. wr.id \in FileIds => /\ disk[wr.id] \in ByteSeqs /\ disk[wr.id] # Absent
                           /\ wr.down \in ByteSeqs /\ wr.held \in Nat
                           /\ wr.held = Len(disk[wr.id]) + Len(wr.down) /\ wr.held <= MaxTotal
                           /\ disk[wr.id] \in VolumeFiles
  BY VolumeGiven DEF VolumeBytes, WriterIsOn, Writers
<1>3. \A s, t \in ByteSeqs : s \o t \in ByteSeqs /\ Len(s \o t) = Len(s) + Len(t) /\ Begins(s, s \o t)
  BY DEF ByteSeqs, Begins
<1>4. wr.id \in FileIds => /\ Volume!Flushed[wr.id] \in VolumeFiles
                           /\ Volume!Flushed[wr.id] = disk[wr.id] \o wr.down
                           /\ Len(Volume!Flushed[wr.id]) = wr.held
                           /\ Begins(disk[wr.id], Volume!Flushed[wr.id])
  BY <1>1, <1>2, <1>3 DEF VolumeFiles
<1>5. \A id \in FileIds : id # wr.id => Volume!Flushed[id] = disk[id] /\ disk[id] \in VolumeFiles \cup {Absent}
  BY <1>1 DEF VolumeBytes
<1>6. \A id \in FileIds : disk[id] # Absent => Begins(disk[id], Volume!Flushed[id])
  <2>1. \A s \in VolumeFiles : Begins(s, s)
    BY DEF Begins, VolumeFiles, ByteSeqs
  <2>2. QED
    BY <1>4, <1>5, <2>1
<1>7. \A id \in FileIds : Volume!Flushed[id] \in VolumeFiles \cup {Absent}
  BY <1>4, <1>5
<1>8. Volume!Flushed \in [FileIds -> VolumeFiles \cup {Absent}]
  BY <1>7 DEF Volume!Flushed
<1>9. \A id \in FileIds : Volume!Flushed[id] = Absent <=> disk[id] = Absent
  BY <1>2, <1>4, <1>5, VolumeGiven
<1>10. VolumeFile = [id \in FileIds |-> BytesOf(Volume!Flushed[id])]
  BY DEF VolumeFile, Volume!ContentOf, BytesOf
<1>11. QED
  BY <1>2, <1>4, <1>5, <1>6, <1>8, <1>9, <1>10

(* The same after a step. *)
LEMMA VolumeShowsNext ==
  VolumeBytes' => VolumeFile' = [id \in FileIds |-> BytesOf(Volume!Flushed'[id])]
<1>1. VolumeBytes => VolumeFile = [id \in FileIds |-> BytesOf(Volume!Flushed[id])]
  BY VolumeShows
<1>2. VolumeBytes' => (VolumeFile = [id \in FileIds |-> BytesOf(Volume!Flushed[id])])'
  BY <1>1, PTL
<1>3. QED
  BY <1>2

(* A file that is there is never taken for none.                             *)
LEMMA BytesAreThere ==
  ASSUME NEW s \in VolumeFiles
  PROVE  /\ BytesOf(s) # Absent /\ DOMAIN BytesOf(s) = 0 .. Len(s) - 1
         /\ \A o \in 0 .. Len(s) - 1 : BytesOf(s)[o] = s[o + 1]
<1>1. s \in ByteSeqs /\ Len(s) \in Nat /\ Len(s) <= MaxTotal /\ s # Absent
  BY VolumeGiven DEF VolumeFiles, ByteSeqs
<1>2. BytesOf(s) = [o \in 0 .. Len(s) - 1 |-> s[o + 1]]
  BY <1>1 DEF BytesOf
<1>3. 0 .. Len(s) - 1 \in SUBSET Offs /\ \A o \in 0 .. Len(s) - 1 : s[o + 1] \in ByteValues
  BY <1>1, VolumeGiven DEF Offs, ByteSeqs
<1>4. BytesOf(s) \in [0 .. Len(s) - 1 -> ByteValues]
  BY <1>2, <1>3
<1>5. QED
  BY <1>2, <1>3, <1>4, VolumeGiven

(* The volume is empty at first. *)
LEMMA VolumeStarts == Volume!Init => VolumeBytes /\ Volume!Seam!Init
<1> SUFFICES ASSUME Volume!Init PROVE VolumeBytes /\ Volume!Seam!Init
  OBVIOUS
<1>1. /\ disk = [id \in FileIds |-> Absent] /\ last = Volume!Refused
      /\ wr.id = Absent /\ rd.id = Absent
      /\ wr \in Writers
      /\ rd \in Readers
  BY NoBytes DEF Volume!Init, Volume!NoWriter, Volume!NoReader, Writers, Readers
<1>2. VolumeBytes
  BY <1>1, VolumeGiven DEF VolumeBytes, WriterIsOn, ReaderIsOn
<1>3. \A id \in FileIds : Volume!Flushed[id] = Absent
  BY <1>1, <1>2, VolumeShows
<1>4. QED
  BY <1>1, <1>2, <1>3 DEF Volume!Seam!Init, Volume!ContentOf, Volume!Refused, Volume!Seam!Refused

(* What is shown of a volume on which what stdio held has gone down.         *)
LEMMA VolumeShowsSame ==
  ASSUME VolumeBytes, VolumeBytes', \A id \in FileIds : Volume!Flushed'[id] = Volume!Flushed[id]
  PROVE  VolumeFile' = VolumeFile
<1>1. VolumeFile = [id \in FileIds |-> BytesOf(Volume!Flushed[id])]
  BY VolumeShows
<1>2. VolumeFile' = [id \in FileIds |-> BytesOf(Volume!Flushed'[id])]
  BY VolumeShowsNext
<1>3. QED
  BY <1>1, <1>2

(* A call that is refused shows a caller nothing, even if a handle was closed. *)
LEMMA VolumeRefuses ==
  ASSUME VolumeBytes, VolumeBytes', last' = Volume!Refused,
         \A id \in FileIds : Volume!Flushed'[id] = Volume!Flushed[id]
  PROVE  Volume!Seam!Next
<1>1. VolumeFile' = VolumeFile
  BY VolumeShowsSame
<1>2. Volume!Seam!Refuse
  BY <1>1 DEF Volume!Seam!Refuse, VolumeFile, Volume!Refused, Volume!Seam!Refused
<1>3. QED
  BY <1>2 DEF Volume!Seam!Next

(* Nothing is shown of a step that touches neither file nor handle. *)
LEMMA VolumeIdles ==
  ASSUME VolumeBytes, UNCHANGED <<disk, wr, rd>>
  PROVE  VolumeBytes' /\ \A id \in FileIds : Volume!Flushed'[id] = Volume!Flushed[id]
BY DEF VolumeBytes, WriterIsOn, ReaderIsOn, Volume!Flushed

(* The volume after a writer of some files was closed.                       *)
LEMMA DiskAfterIs ==
  ASSUME VolumeBytes, NEW ids \in SUBSET FileIds
  PROVE  /\ Volume!DiskAfter(ids) \in [FileIds -> VolumeFiles \cup {Absent}]
         /\ \A x \in FileIds : /\ Volume!DiskAfter(ids)[x] = Absent <=> disk[x] = Absent
                               /\ disk[x] # Absent => Begins(disk[x], Volume!DiskAfter(ids)[x])
                               /\ x \in ids => Volume!DiskAfter(ids)[x] = Volume!Flushed[x]
                               /\ x \notin ids => Volume!DiskAfter(ids)[x] = disk[x]
<1>1. CASE wr.id \in ids
  <2>1. Volume!DiskAfter(ids) = Volume!Flushed
    BY <1>1 DEF Volume!DiskAfter
  <2>2. \A x \in FileIds : x \notin ids => x # wr.id
    BY <1>1
  <2>3. QED
    BY <2>1, <2>2, VolumeShows
<1>2. CASE wr.id \notin ids
  <2>1. Volume!DiskAfter(ids) = disk
    BY <1>2 DEF Volume!DiskAfter
  <2>2. \A x \in FileIds : disk[x] # Absent => Begins(disk[x], disk[x])
    BY DEF Begins, VolumeBytes, VolumeFiles, ByteSeqs
  <2>3. \A x \in ids : x # wr.id
    BY <1>2
  <2>4. QED
    BY <2>1, <2>2, <2>3, VolumeShows DEF VolumeBytes
<1>3. QED
  BY <1>1, <1>2

(* What was read of a file is a beginning of it as long as the file grows.   *)
LEMMA ReaderStays ==
  ASSUME VolumeBytes, rd' \in {rd, Volume!NoReader},
         disk' \in [FileIds -> VolumeFiles \cup {Absent}],
         rd' = rd /\ rd.id \in FileIds => disk'[rd.id] # Absent /\ Begins(disk[rd.id], disk'[rd.id])
  PROVE  ReaderIsOn' /\ rd' \in Readers
<1>1. CASE rd' = rd
  <2>1. CASE rd.id \in FileIds
    <3>1. /\ disk[rd.id] \in ByteSeqs /\ Begins(rd.seen, disk[rd.id]) /\ rd.seen \in ByteSeqs
          /\ disk'[rd.id] \in ByteSeqs /\ Begins(disk[rd.id], disk'[rd.id])
      BY <1>1, <2>1 DEF VolumeBytes, ReaderIsOn, VolumeFiles, Readers
    <3>2. Begins(rd.seen, disk'[rd.id])
      BY <3>1 DEF Begins, ByteSeqs
    <3>3. QED
      BY <1>1, <3>1, <3>2 DEF VolumeBytes, ReaderIsOn
  <2>2. CASE rd.id \notin FileIds
    BY <1>1, <2>2 DEF VolumeBytes, ReaderIsOn
  <2>3. QED
    BY <2>1, <2>2
<1>2. CASE rd' = Volume!NoReader
  <2>1. rd'.id \notin FileIds /\ rd' \in Readers
    BY <1>2, VolumeGiven, NoBytes DEF Volume!NoReader, Readers
  <2>2. QED
    BY <2>1 DEF ReaderIsOn
<1>3. QED
  BY <1>1, <1>2

(* The writer of some files is closed; of the other files nothing changes.   *)
LEMMA VolumeCloses ==
  ASSUME VolumeBytes, NEW ids \in SUBSET FileIds,
         wr' = Volume!WriterAfter(ids), rd' \in {rd, Volume!NoReader},
         disk' \in [FileIds -> VolumeFiles \cup {Absent}],
         \A x \in FileIds \ ids : disk'[x] = disk[x],
         rd' = rd /\ rd.id \in ids => disk'[rd.id] # Absent /\ Begins(disk[rd.id], disk'[rd.id])
  PROVE  /\ VolumeBytes'
         /\ \A x \in FileIds : Volume!Flushed'[x] = IF x \in ids THEN disk'[x]
                                                    ELSE Volume!Flushed[x]
<1>1. /\ wr' \in Writers
      /\ wr'.id \notin ids
      /\ wr'.id \in FileIds => wr' = wr /\ wr.id \notin ids
  BY VolumeGiven, NoBytes DEF Volume!WriterAfter, Volume!NoWriter, VolumeBytes, Writers
<1>2. WriterIsOn'
  <2>1. wr'.id \in FileIds => wr' = wr /\ disk'[wr.id] = disk[wr.id]
    BY <1>1
  <2>2. QED
    BY <2>1 DEF VolumeBytes, WriterIsOn
<1>3. rd' = rd /\ rd.id \in FileIds => disk'[rd.id] # Absent /\ Begins(disk[rd.id], disk'[rd.id])
  <2>1. rd.id \in FileIds => disk[rd.id] \in ByteSeqs
    BY DEF VolumeBytes, ReaderIsOn
  <2>2. \A s \in ByteSeqs : Begins(s, s) /\ s # Absent
    BY VolumeGiven DEF Begins, ByteSeqs
  <2>3. QED
    BY <2>1, <2>2
<1>4. VolumeBytes'
  BY <1>1, <1>2, <1>3, ReaderStays DEF VolumeBytes
<1>5. ASSUME NEW x \in FileIds
      PROVE  Volume!Flushed'[x] = IF x \in ids THEN disk'[x] ELSE Volume!Flushed[x]
  <2>1. Volume!Flushed'[x] = IF x = wr'.id THEN disk'[x] \o wr'.down ELSE disk'[x]
    BY DEF Volume!Flushed
  <2>2. Volume!Flushed[x] = IF x = wr.id THEN disk[x] \o wr.down ELSE disk[x]
    BY DEF Volume!Flushed
  <2>3. CASE x \in ids
    <3>1. x # wr'.id
      BY <1>1, <2>3
    <3>2. QED
      BY <2>1, <2>3, <3>1
  <2>4. CASE x \notin ids
    <3>1. x = wr.id => wr' = wr
      BY <2>4 DEF Volume!WriterAfter
    <3>2. x = wr'.id => wr' = wr
      BY <1>1
    <3>3. disk'[x] = disk[x]
      BY <2>4
    <3>4. QED
      BY <2>1, <2>2, <2>4, <3>1, <3>2, <3>3
  <2>5. QED
    BY <2>3, <2>4
<1>6. QED
  BY <1>4, <1>5

(* The reader of a file that is closed reads none of those that were. *)
LEMMA ReaderAfterIs ==
  ASSUME NEW ids
  PROVE  /\ Volume!ReaderAfter(ids) \in {rd, Volume!NoReader}
         /\ Absent \notin ids => (Volume!ReaderAfter(ids) = rd => rd.id \notin ids)
BY DEF Volume!ReaderAfter, Volume!NoReader

(* A destroy takes the file and the handles on it, and no other file. *)
LEMMA VolumeDestroys ==
  ASSUME VolumeBytes, NEW id \in FileIds, Volume!Destroy(id)
  PROVE  VolumeBytes' /\ Volume!Seam!Next
<1>1. /\ disk' \in [FileIds -> VolumeFiles \cup {Absent}] /\ disk'[id] = Absent
      /\ \A x \in FileIds \ {id} : disk'[x] = disk[x]
      /\ wr' = Volume!WriterAfter({id}) /\ rd' = Volume!ReaderAfter({id})
      /\ last' = Volume!Done(<< >>)
  BY DEF Volume!Destroy, VolumeBytes
<1>2. rd' \in {rd, Volume!NoReader} /\ (rd' = rd => rd.id \notin {id})
  BY <1>1, ReaderAfterIs, VolumeGiven
<1>3. /\ VolumeBytes'
      /\ \A x \in FileIds : Volume!Flushed'[x] = IF x \in {id} THEN disk'[x] ELSE Volume!Flushed[x]
  BY <1>1, <1>2, VolumeCloses
<1>4. VolumeFile' = [VolumeFile EXCEPT ![id] = Absent]
  <2>1. BytesOf(Volume!Flushed'[id]) = Absent
    BY <1>1, <1>3 DEF BytesOf
  <2>2. \A x \in FileIds : x # id => Volume!Flushed'[x] = Volume!Flushed[x]
    BY <1>3
  <2>3. VolumeFile' = [x \in FileIds |-> BytesOf(Volume!Flushed'[x])]
    BY <1>3, VolumeShowsNext
  <2>4. VolumeFile = [x \in FileIds |-> BytesOf(Volume!Flushed[x])]
    BY VolumeShows
  <2>5. QED
    BY <2>1, <2>2, <2>3, <2>4
<1>5. Volume!Seam!Destroy(id)
  BY <1>1, <1>4 DEF Volume!Seam!Destroy, VolumeFile, Volume!Done, Volume!Seam!Done
<1>6. QED
  BY <1>3, <1>5 DEF Volume!Seam!Next

(* Every handle may be closed, and nothing is lost of what was taken down.   *)
LEMMA VolumeClosesAll ==
  ASSUME VolumeBytes, wr' = Volume!NoWriter, rd' \in {rd, Volume!NoReader},
         disk' = Volume!DiskAfter(FileIds)
  PROVE  VolumeBytes' /\ \A x \in FileIds : Volume!Flushed'[x] = Volume!Flushed[x]
<1>2. \A x \in FileIds : disk'[x] = Volume!Flushed[x]
  BY DiskAfterIs
<1>3. /\ disk' \in [FileIds -> VolumeFiles \cup {Absent}]
      /\ rd.id \in FileIds => disk'[rd.id] # Absent /\ Begins(disk[rd.id], disk'[rd.id])
  <2>1. rd.id \in FileIds => disk[rd.id] # Absent
    BY VolumeGiven DEF VolumeBytes, ReaderIsOn
  <2>2. QED
    BY <2>1, DiskAfterIs
<1>4. /\ wr'.id \notin FileIds
      /\ wr' \in Writers
  BY VolumeGiven, NoBytes DEF Volume!NoWriter, Writers
<1>5. VolumeBytes'
  BY <1>3, <1>4, ReaderStays DEF VolumeBytes, WriterIsOn
<1>6. \A x \in FileIds : Volume!Flushed'[x] = disk'[x]
  BY <1>4 DEF Volume!Flushed
<1>7. QED
  BY <1>2, <1>5, <1>6

(* A create begins the file anew, after the writer of another is closed. *)
LEMMA VolumeCreates ==
  ASSUME VolumeBytes, NEW id \in FileIds, NEW total \in 1 .. MaxTotal, Volume!Create(id, total)
  PROVE  VolumeBytes' /\ Volume!Seam!Next
<1> DEFINE D == Volume!DiskAfter(FileIds)
<1>1. /\ wr' \in Writers
      /\ wr'.id = id /\ wr'.total = total /\ wr'.held = 0 /\ wr'.down = << >>
  BY VolumeGiven, NoBytes DEF Volume!Create, Writers
<1>2. /\ D \in [FileIds -> VolumeFiles \cup {Absent}]
      /\ \A x \in FileIds : D[x] = Volume!Flushed[x]
      /\ \A x \in FileIds : disk[x] # Absent => D[x] # Absent /\ Begins(disk[x], D[x])
  BY DiskAfterIs
<1>3. disk' = [D EXCEPT ![id] = << >>]
  BY DEF Volume!Create
<1>4. << >> \in VolumeFiles /\ << >> \in ByteSeqs /\ Len(<< >>) = 0
  BY NoBytes
<1> HIDE DEF D
<1>5. /\ disk' \in [FileIds -> VolumeFiles \cup {Absent}] /\ disk'[id] = << >>
      /\ \A x \in FileIds : x # id => disk'[x] = D[x]
  BY <1>2, <1>3, <1>4
<1>6. rd' \in {rd, Volume!NoReader} /\ (rd' = rd => rd.id \notin {id})
  BY ReaderAfterIs, VolumeGiven DEF Volume!Create
<1>7. rd.id \in FileIds => disk[rd.id] # Absent
  BY VolumeGiven DEF VolumeBytes, ReaderIsOn
<1>8. rd' = rd /\ rd.id \in FileIds => disk'[rd.id] # Absent /\ Begins(disk[rd.id], disk'[rd.id])
  BY <1>2, <1>5, <1>6, <1>7
<1>9. ReaderIsOn' /\ rd' \in Readers
  BY <1>5, <1>6, <1>8, ReaderStays
<1>10. WriterIsOn'
  BY <1>1, <1>4, <1>5 DEF WriterIsOn
<1>11. VolumeBytes'
  BY <1>1, <1>5, <1>9, <1>10 DEF VolumeBytes
<1>12. /\ Volume!Flushed'[id] = << >>
       /\ \A x \in FileIds : x # id => Volume!Flushed'[x] = Volume!Flushed[x]
  <2>1. \A x \in FileIds : Volume!Flushed'[x] = IF x = id THEN disk'[x] \o << >> ELSE disk'[x]
    BY <1>1 DEF Volume!Flushed
  <2>2. << >> \o << >> = << >>
    OBVIOUS
  <2>3. QED
    BY <1>2, <1>5, <2>1, <2>2
<1>13. BytesOf(<< >>) = << >>
  BY <1>4, VolumeGiven DEF BytesOf
<1>14. VolumeFile' = [VolumeFile EXCEPT ![id] = << >>]
  BY <1>11, <1>12, <1>13, VolumeShows, VolumeShowsNext
<1>15. Volume!Seam!Create(id)
  BY <1>14 DEF Volume!Seam!Create, VolumeFile, Volume!Create, Volume!Done, Volume!Seam!Done
<1>16. QED
  BY <1>11, <1>15 DEF Volume!Seam!Next

(* A rename moves the bytes the writer had too, or leaves them, or clears only *)
(* the name it was to take. *)
LEMMA VolumeRenames ==
  ASSUME VolumeBytes, NEW from \in FileIds, NEW to \in FileIds, Volume!Rename(from, to)
  PROVE  VolumeBytes' /\ Volume!Seam!Next
<1> DEFINE D == Volume!DiskAfter({from, to})
<1>1. /\ D \in [FileIds -> VolumeFiles \cup {Absent}]
      /\ \A x \in FileIds : D[x] = Absent <=> disk[x] = Absent
      /\ \A x \in FileIds : disk[x] # Absent => Begins(disk[x], D[x])
      /\ D[from] = Volume!Flushed[from] /\ D[to] = Volume!Flushed[to]
      /\ \A x \in FileIds \ {from, to} : D[x] = disk[x]
  BY DiskAfterIs
<1>2. /\ wr' = Volume!WriterAfter({from, to})
      /\ rd' \in {rd, Volume!NoReader} /\ (rd' = rd => rd.id \notin {from, to})
  BY ReaderAfterIs, VolumeGiven DEF Volume!Rename
<1>3. \/ /\ D[from] # Absent /\ from # to /\ last' = Volume!Done(<< >>)
         /\ disk' = [D EXCEPT ![to] = D[from], ![from] = Absent]
      \/ last' = Volume!Refused /\ disk' \in {D, [D EXCEPT ![to] = Absent]}
  BY DEF Volume!Rename, Volume!Moves
<1> HIDE DEF D
<1>4. /\ disk' \in [FileIds -> VolumeFiles \cup {Absent}]
      /\ \A x \in FileIds \ {from, to} : disk'[x] = disk[x]
  BY <1>1, <1>3
<1>5. /\ VolumeBytes'
      /\ \A x \in FileIds : Volume!Flushed'[x] = IF x \in {from, to} THEN disk'[x]
                                                 ELSE Volume!Flushed[x]
  BY <1>2, <1>4, VolumeCloses
<1>6. /\ VolumeFile = [x \in FileIds |-> BytesOf(Volume!Flushed[x])]
      /\ VolumeFile' = [x \in FileIds |-> BytesOf(Volume!Flushed'[x])]
  BY <1>5, VolumeShows, VolumeShowsNext
<1>7. BytesOf(Absent) = Absent
  BY DEF BytesOf
<1>8. CASE /\ D[from] # Absent /\ from # to /\ last' = Volume!Done(<< >>)
           /\ disk' = [D EXCEPT ![to] = D[from], ![from] = Absent]
  <2>1. disk'[to] = D[from] /\ disk'[from] = Absent
    BY <1>1, <1>8
  <2>2. VolumeFile' = [VolumeFile EXCEPT ![to] = VolumeFile[from], ![from] = Absent]
    BY <1>1, <1>5, <1>6, <1>7, <1>8, <2>1
  <2>3. VolumeFile[from] # Absent
    <3>1. D[from] \in VolumeFiles
      BY <1>1, <1>8
    <3>2. QED
      BY <1>1, <1>6, <3>1, BytesAreThere
  <2>4. Volume!Seam!Rename(from, to)
    BY <1>8, <2>2, <2>3 DEF Volume!Seam!Rename, VolumeFile, Volume!Done, Volume!Seam!Done
  <2>5. QED
    BY <1>5, <2>4 DEF Volume!Seam!Next
<1>9. CASE last' = Volume!Refused /\ disk' = D
  BY <1>1, <1>5, <1>9, VolumeRefuses
<1>10. CASE last' = Volume!Refused /\ disk' = [D EXCEPT ![to] = Absent]
  <2>1. disk'[to] = Absent /\ (from # to => disk'[from] = D[from])
    BY <1>1, <1>10
  <2>2. VolumeFile' = [VolumeFile EXCEPT ![to] = Absent]
    BY <1>1, <1>5, <1>6, <1>7, <2>1
  <2>3. Volume!Seam!Rename(from, to)
    BY <1>10, <2>2 DEF Volume!Seam!Rename, VolumeFile, Volume!Refused, Volume!Seam!Refused
  <2>4. QED
    BY <1>5, <2>3 DEF Volume!Seam!Next
<1>11. QED
  BY <1>3, <1>8, <1>9, <1>10

(* A file that is confirmed is there, with what stdio held of it. *)
LEMMA VolumeCompletes ==
  ASSUME VolumeBytes, NEW id \in FileIds, Volume!Complete(id)
  PROVE  VolumeBytes' /\ Volume!Seam!Next
<1>1. CASE ~Volume!AllThere(id)
  <2>1. last' = Volume!Refused /\ UNCHANGED <<disk, wr, rd>>
    BY <1>1 DEF Volume!Complete, Volume!Refuse
  <2>2. QED
    BY <2>1, VolumeIdles, VolumeRefuses
<1>2. CASE Volume!AllThere(id)
  <2>1. /\ wr' = Volume!WriterAfter({id}) /\ disk' = Volume!DiskAfter({id}) /\ rd' = rd
        /\ last' = Volume!Done(<< >>) /\ disk[id] # Absent
    BY <1>2 DEF Volume!Complete, Volume!AllThere
  <2>2. /\ disk' \in [FileIds -> VolumeFiles \cup {Absent}]
        /\ \A x \in FileIds \ {id} : disk'[x] = disk[x]
        /\ disk'[id] # Absent /\ Begins(disk[id], disk'[id]) /\ disk'[id] = Volume!Flushed[id]
    BY <2>1, DiskAfterIs
  <2>3. /\ VolumeBytes'
        /\ \A x \in FileIds : Volume!Flushed'[x] = IF x \in {id} THEN disk'[x]
                                                   ELSE Volume!Flushed[x]
    BY <2>1, <2>2, VolumeCloses
  <2>4. VolumeFile' = VolumeFile
    BY <2>2, <2>3, VolumeShowsSame
  <2>5. VolumeFile[id] # Absent
    <3>1. Volume!Flushed[id] \in VolumeFiles
      BY <2>2
    <3>2. QED
      BY <3>1, VolumeShows, BytesAreThere
  <2>6. Volume!Seam!Confirm(id)
    BY <2>1, <2>4, <2>5 DEF Volume!Seam!Confirm, VolumeFile, Volume!Done, Volume!Seam!Done
  <2>7. QED
    BY <2>3, <2>6 DEF Volume!Seam!Next
<1>3. QED
  BY <1>1, <1>2

(* Three runs of bytes, one after the other. *)
LEMMA Joined ==
  ASSUME NEW a \in ByteSeqs, NEW b \in ByteSeqs, NEW c \in ByteSeqs
  PROVE  /\ b \o c \in ByteSeqs /\ Len(b \o c) = Len(b) + Len(c)
         /\ Len(a) \in Nat /\ Len(b) \in Nat /\ Len(c) \in Nat
         /\ (a \o b) \o c = a \o (b \o c)
         /\ (Len(a) + Len(b)) + Len(c) = Len(a) + Len(b \o c)
         /\ (Len(a) + Len(b)) + Len(c) \in Nat
BY DEF ByteSeqs

(* Stdio takes down what it is given, after what it holds.                   *)
LEMMA VolumeTakes ==
  ASSUME VolumeBytes, wr.id \in FileIds, NEW part \in ByteSeqs,
         wr.held + Len(part) <= wr.total, Volume!Taken(part), UNCHANGED <<disk, rd>>
  PROVE  /\ VolumeBytes'
         /\ Volume!Flushed'[wr.id] = Volume!Flushed[wr.id] \o part
         /\ \A x \in FileIds : x # wr.id => Volume!Flushed'[x] = Volume!Flushed[x]
<1> DEFINE n == wr.held + Len(part)
           bytes == wr.down \o part
<1>1. /\ disk[wr.id] \in ByteSeqs /\ wr.down \in ByteSeqs /\ wr \in Writers
      /\ wr.held = Len(disk[wr.id]) + Len(wr.down) /\ wr.total <= MaxTotal
  BY DEF VolumeBytes, WriterIsOn, Writers
<1>2. /\ bytes \in ByteSeqs /\ n \in Nat /\ n = Len(disk[wr.id]) + Len(bytes)
      /\ disk[wr.id] \o bytes = (disk[wr.id] \o wr.down) \o part
  <2>1. /\ wr.down \o part \in ByteSeqs
        /\ disk[wr.id] \o (wr.down \o part) = (disk[wr.id] \o wr.down) \o part
        /\ (Len(disk[wr.id]) + Len(wr.down)) + Len(part) = Len(disk[wr.id]) + Len(wr.down \o part)
        /\ (Len(disk[wr.id]) + Len(wr.down)) + Len(part) \in Nat
    BY <1>1, Joined
  <2>2. QED
    BY <1>1, <2>1, Zenon
<1>3. wr' = [wr EXCEPT !.held = n, !.down = bytes] /\ n <= wr.total
  BY DEF Volume!Taken
<1>4. bytes = wr.down \o part
  OBVIOUS
<1> HIDE DEF n, bytes
<1>5. /\ wr' \in Writers /\ wr'.id = wr.id /\ wr'.total = wr.total /\ wr'.held = n
      /\ wr'.down = bytes
  <2>1. /\ [wr EXCEPT !.held = n, !.down = bytes] \in Writers
        /\ [wr EXCEPT !.held = n, !.down = bytes].id = wr.id
        /\ [wr EXCEPT !.held = n, !.down = bytes].total = wr.total
        /\ [wr EXCEPT !.held = n, !.down = bytes].held = n
        /\ [wr EXCEPT !.held = n, !.down = bytes].down = bytes
    BY <1>1, <1>2 DEF Writers
  <2>2. QED
    BY <1>3, <2>1, Zenon
<1>6. WriterIsOn'
  <2>1. disk' = disk
    OBVIOUS
  <2>2. wr'.held = Len(disk'[wr'.id]) + Len(wr'.down) /\ disk'[wr'.id] \in ByteSeqs
    BY <1>1, <1>2, <1>5, <2>1, Zenon
  <2>3. wr'.held <= wr'.total /\ wr'.total <= MaxTotal
    BY <1>1, <1>3, <1>5, Zenon
  <2>4. QED
    BY <2>2, <2>3, Zenon DEF WriterIsOn
<1>7. VolumeBytes'
  BY <1>5, <1>6 DEF VolumeBytes, ReaderIsOn
<1>8. QED
  BY <1>2, <1>5, <1>7 DEF Volume!Flushed

(* What is appended to a file is put down from its end on.                   *)
LEMMA PutIsAppend ==
  ASSUME NEW s \in VolumeFiles, NEW data \in ByteSeqs
  PROVE  BytesOf(s \o data) = Volume!Seam!Put(BytesOf(s), Len(s), data)
<1> DEFINE n == Len(s)
           k == Len(data)
<1>1. /\ s \in ByteSeqs /\ n \in Nat /\ k \in Nat /\ DOMAIN data = 1 .. k
      /\ DOMAIN BytesOf(s) = 0 .. n - 1
      /\ \A o \in 0 .. n - 1 : BytesOf(s)[o] = s[o + 1]
  BY BytesAreThere DEF VolumeFiles, ByteSeqs
<1>2. /\ s \o data \in ByteSeqs /\ Len(s \o data) = n + k /\ s \o data # Absent
      /\ \A i \in 1 .. n + k : (s \o data)[i] = IF i <= n THEN s[i] ELSE data[i - n]
  <2>1. s \in Seq(ByteValues) /\ data \in Seq(ByteValues)
    BY <1>1 DEF ByteSeqs
  <2>2. /\ s \o data \in Seq(ByteValues) /\ Len(s \o data) = Len(s) + Len(data)
        /\ \A i \in 1 .. Len(s) + Len(data) :
             (s \o data)[i] = IF i <= Len(s) THEN s[i] ELSE data[i - Len(s)]
    BY ONLY <2>1, ConcatProperties
  <2>3. s \o data # Absent
    BY <2>2, VolumeGiven DEF ByteSeqs
  <2>4. QED
    BY <2>2, <2>3 DEF ByteSeqs
<1>3. BytesOf(s \o data) = [o \in 0 .. n + k - 1 |-> (s \o data)[o + 1]]
  <2>1. BytesOf(s \o data) = [o \in 0 .. Len(s \o data) - 1 |-> (s \o data)[o + 1]]
    BY <1>2, Zenon DEF BytesOf
  <2>2. QED
    BY <1>2, <2>1
<1> HIDE DEF n, k
<1>4. 0 .. n - 1 \cup {n + i - 1 : i \in DOMAIN data} = 0 .. n + k - 1
  <2>1. \A i \in 1 .. k : n + i - 1 \in 0 .. n + k - 1
    BY <1>1
  <2>2. \A o \in 0 .. n + k - 1 : o \in 0 .. n - 1 \/ (o - n + 1 \in 1 .. k /\ o = n + (o - n + 1) - 1)
    BY <1>1
  <2>3. 0 .. n - 1 \subseteq 0 .. n + k - 1
    BY <1>1
  <2>4. QED
    BY <1>1, <2>1, <2>2, <2>3
<1>5. \A o \in 0 .. n + k - 1 :
        (s \o data)[o + 1] = IF o >= n /\ o < n + k THEN data[o - n + 1] ELSE BytesOf(s)[o]
  <2> SUFFICES ASSUME NEW o \in 0 .. n + k - 1
               PROVE  (s \o data)[o + 1] = IF o >= n /\ o < n + k THEN data[o - n + 1]
                                           ELSE BytesOf(s)[o]
    OBVIOUS
  <2>1. o + 1 \in 1 .. n + k /\ o < n + k /\ (o + 1) - n = o - n + 1 /\ (o + 1 <= n <=> ~(o >= n))
    BY <1>1
  <2>2. (s \o data)[o + 1] = IF o + 1 <= n THEN s[o + 1] ELSE data[o - n + 1]
    BY <1>2, <2>1
  <2>3. ~(o >= n) => o \in 0 .. n - 1
    BY <1>1
  <2>4. QED
    BY <1>1, <2>1, <2>2, <2>3
<1>6. QED
  BY <1>1, <1>3, <1>4, <1>5 DEF Volume!Seam!Put, n, k

(* A write appends all it was given, a beginning of it, or nothing. *)
LEMMA VolumeWrites ==
  ASSUME VolumeBytes, NEW id \in FileIds, NEW off \in Offs, NEW data \in Volume!Data,
         Volume!Write(id, off, data)
  PROVE  VolumeBytes' /\ Volume!Seam!Next
<1>1. /\ data \in ByteSeqs /\ Len(data) \in 1 .. MaxTotal /\ data \in Volume!Seam!Data
      /\ Len(data) \in Nat /\ off \in Nat
  <2>1. PICK n \in 1 .. MaxTotal : data \in [1 .. n -> ByteValues]
    BY DEF Volume!Data
  <2>2. n \in Nat /\ data \in Seq(ByteValues) /\ Len(data) = n
    BY <2>1, VolumeGiven
  <2>3. data \in Volume!Seam!Data
    BY DEF Volume!Data, Volume!Seam!Data
  <2>4. QED
    BY <2>2, <2>3, VolumeGiven DEF ByteSeqs, Offs
<1>2. CASE last' = Volume!Refused /\ UNCHANGED <<disk, wr, rd>>
  BY <1>2, VolumeIdles, VolumeRefuses
<1>3. ASSUME Volume!Appends(id, off, Len(data)), NEW part \in ByteSeqs, Len(part) <= Len(data),
             Volume!Taken(part), UNCHANGED <<disk, rd>>
      PROVE  /\ VolumeBytes' /\ off + Len(data) <= MaxTotal /\ VolumeFile[id] # Absent
             /\ VolumeFile' = [VolumeFile EXCEPT ![id] = Volume!Seam!Put(@, off, part)]
  <2>1. /\ wr.id = id /\ off = wr.held /\ wr.held + Len(data) <= wr.total /\ wr.total <= MaxTotal
        /\ wr.total \in Nat
    BY <1>3 DEF Volume!Appends, VolumeBytes, WriterIsOn, Writers
  <2>2. Len(part) \in Nat /\ wr.held + Len(part) <= wr.total
    BY <1>1, <1>3, <2>1 DEF ByteSeqs
  <2>3. /\ VolumeBytes'
        /\ Volume!Flushed'[id] = Volume!Flushed[id] \o part
        /\ \A x \in FileIds : x # id => Volume!Flushed'[x] = Volume!Flushed[x]
    BY <1>3, <2>1, <2>2, VolumeTakes
  <2>4. Volume!Flushed[id] \in VolumeFiles /\ Len(Volume!Flushed[id]) = off
    BY <2>1, VolumeShows
  <2>5. VolumeFile[id] = BytesOf(Volume!Flushed[id]) /\ VolumeFile[id] # Absent
    BY <2>4, VolumeShows, BytesAreThere
  <2>6. BytesOf(Volume!Flushed'[id]) = Volume!Seam!Put(VolumeFile[id], off, part)
    BY <2>3, <2>4, <2>5, PutIsAppend
  <2>7. VolumeFile' = [VolumeFile EXCEPT ![id] = Volume!Seam!Put(VolumeFile[id], off, part)]
    <3>1. VolumeFile' = [x \in FileIds |-> BytesOf(Volume!Flushed'[x])]
      BY <2>3, VolumeShowsNext
    <3>2. VolumeFile = [x \in FileIds |-> BytesOf(Volume!Flushed[x])]
      BY VolumeShows
    <3>3. QED
      BY <2>3, <2>6, <3>1, <3>2
  <2>8. QED
    BY <1>1, <2>1, <2>3, <2>5, <2>7, VolumeGiven
<1>4. CASE /\ Volume!Appends(id, off, Len(data)) /\ Volume!Taken(data)
           /\ last' = Volume!Done(<< >>) /\ UNCHANGED <<disk, rd>>
  <2>1. /\ VolumeBytes' /\ off + Len(data) <= MaxTotal /\ VolumeFile[id] # Absent
        /\ VolumeFile' = [VolumeFile EXCEPT ![id] = Volume!Seam!Put(@, off, data)]
    BY <1>1, <1>3, <1>4
  <2>2. Volume!Seam!Write(id, off, data)
    BY <1>4, <2>1 DEF Volume!Seam!Write, VolumeFile, Volume!Done, Volume!Seam!Done
  <2>3. QED
    BY <1>1, <2>1, <2>2 DEF Volume!Seam!Next, Volume!Seam!Offsets, Offs
<1>5. ASSUME Volume!Appends(id, off, Len(data)), NEW n \in 0 .. Len(data) - 1,
             Volume!Taken(SubSeq(data, 1, n)), last' = Volume!Refused, UNCHANGED <<disk, rd>>
      PROVE  VolumeBytes' /\ Volume!Seam!Next
  <2> DEFINE part == SubSeq(data, 1, n)
  <2>1. part \in ByteSeqs /\ Len(part) = n /\ Len(part) <= Len(data)
    BY <1>1 DEF ByteSeqs
  <2>2. Volume!Taken(part)
    BY <1>5
  <2> HIDE DEF part
  <2>3. /\ VolumeBytes' /\ off + Len(data) <= MaxTotal /\ VolumeFile[id] # Absent
        /\ VolumeFile' = [VolumeFile EXCEPT ![id] = Volume!Seam!Put(@, off, part)]
    BY <1>3, <1>5, <2>1, <2>2
  <2>4. CASE n = 0
    <3>1. part = << >>
      BY <2>1, <2>4, EmptySeq DEF ByteSeqs
    <3>2. wr.id = id /\ wr.id \in FileIds /\ wr.held + Len(part) <= wr.total
      BY <1>1, <1>5, <2>1, <2>4 DEF Volume!Appends, VolumeBytes, WriterIsOn, Writers
    <3>3. /\ Volume!Flushed'[id] = Volume!Flushed[id] \o part
          /\ \A x \in FileIds : x # id => Volume!Flushed'[x] = Volume!Flushed[x]
      BY <1>5, <2>1, <2>2, <3>2, VolumeTakes
    <3>4. Volume!Flushed[id] \o << >> = Volume!Flushed[id]
      BY <3>2, VolumeShows, ConcatEmptySeq DEF VolumeFiles, ByteSeqs
    <3>5. QED
      BY <1>5, <2>3, <3>1, <3>3, <3>4, VolumeRefuses
  <2>5. CASE n # 0
    <3>1. n \in 1 .. Len(data) - 1
      BY <1>1, <2>5
    <3>2. Volume!Seam!Write(id, off, data)
      BY <1>5, <2>3, <3>1 DEF part, Volume!Seam!Write, VolumeFile, Volume!Refused, Volume!Seam!Refused
    <3>3. QED
      BY <1>1, <2>3, <3>2 DEF Volume!Seam!Next, Volume!Seam!Offsets, Offs
  <2>6. QED
    BY <2>4, <2>5
<1>6. QED
  BY <1>2, <1>4, <1>5 DEF Volume!Write, Volume!Refuse

(* What stdio takes down of itself is shown to nobody. *)
LEMMA VolumeDrains ==
  ASSUME VolumeBytes, Volume!Drains
  PROVE  VolumeBytes' /\ VolumeFile' = VolumeFile /\ last' = last
<1>1. CASE wr.id \in FileIds
  <2>1. /\ wr.down \in ByteSeqs /\ wr' = [wr EXCEPT !.down = << >>] /\ wr'.id = wr.id
        /\ wr'.down = << >> /\ wr'.held = wr.held /\ wr'.total = wr.total
        /\ wr' \in Writers
    <3>1. wr' = [wr EXCEPT !.down = << >>] /\ wr \in Writers /\ wr.down \in ByteSeqs
      BY DEF Volume!Drains, VolumeBytes, Writers
    <3>2. QED
      BY <3>1, NoBytes, WriterWithDown
  <2>2. disk' = Volume!Flushed /\ rd' = rd /\ last' = last
    BY DEF Volume!Drains
  <2>3. /\ disk' \in [FileIds -> VolumeFiles \cup {Absent}]
        /\ disk'[wr.id] \in ByteSeqs /\ Len(disk'[wr.id]) = wr.held
    BY <1>1, <2>2, VolumeShows DEF VolumeFiles
  <2>4. WriterIsOn'
    <3>1. wr.held <= wr.total /\ wr.total <= MaxTotal /\ wr.held \in Nat
      BY <1>1 DEF WriterIsOn, VolumeBytes, Writers
    <3>2. wr'.held = Len(disk'[wr'.id]) + Len(wr'.down) /\ disk'[wr'.id] \in ByteSeqs
      BY <2>1, <2>3, <3>1, NoBytes
    <3>3. QED
      BY <2>1, <3>1, <3>2, Zenon DEF WriterIsOn
  <2>5. rd.id \in FileIds => disk'[rd.id] # Absent /\ Begins(disk[rd.id], disk'[rd.id])
    <3>1. rd.id \in FileIds => disk[rd.id] # Absent
      BY VolumeGiven DEF VolumeBytes, ReaderIsOn
    <3>2. QED
      BY <2>2, <3>1, VolumeShows
  <2>6. VolumeBytes'
    BY <2>1, <2>2, <2>3, <2>4, <2>5, ReaderStays DEF VolumeBytes
  <2>7. \A x \in FileIds : Volume!Flushed'[x] = Volume!Flushed[x]
    <3>1. \A x \in FileIds : Volume!Flushed'[x] = IF x = wr.id THEN disk'[x] \o << >> ELSE disk'[x]
      BY <2>1 DEF Volume!Flushed
    <3>2. disk'[wr.id] \o << >> = disk'[wr.id]
      BY <2>3, ConcatEmptySeq DEF ByteSeqs
    <3>3. QED
      BY <2>2, <3>1, <3>2
  <2>8. QED
    BY <2>2, <2>6, <2>7, VolumeShowsSame
<1>2. CASE wr.id \notin FileIds
  <2>1. Volume!Flushed = disk
    <3>1. \A x \in FileIds : x # wr.id
      BY <1>2
    <3>2. disk = [x \in FileIds |-> disk[x]]
      BY DEF VolumeBytes
    <3>3. Volume!Flushed = [x \in FileIds |-> disk[x]]
      BY <3>1, Zenon DEF Volume!Flushed
    <3>4. QED
      BY <3>2, <3>3
  <2>2. disk' = disk /\ rd' = rd /\ last' = last /\ wr'.id = wr.id
        /\ wr' \in Writers
    <3>1. wr' = [wr EXCEPT !.down = << >>] /\ wr \in Writers
      BY DEF Volume!Drains, VolumeBytes
    <3>2. wr' \in Writers /\ wr'.id = wr.id
      BY <3>1, NoBytes, WriterWithDown
    <3>3. QED
      BY <2>1, <3>2 DEF Volume!Drains
  <2>3. VolumeBytes'
    <3>1. WriterIsOn'
      BY <1>2, <2>2 DEF WriterIsOn
    <3>2. QED
      BY <2>2, <3>1 DEF VolumeBytes, ReaderIsOn
  <2>4. \A x \in FileIds : Volume!Flushed'[x] = Volume!Flushed[x]
    <3>1. \A x \in FileIds : x # wr.id /\ Volume!Flushed'[x] = IF x = wr'.id
                             THEN disk'[x] \o wr'.down ELSE disk'[x]
      BY <1>2 DEF Volume!Flushed
    <3>2. QED
      BY <2>1, <2>2, <3>1
  <2>5. QED
    BY <2>2, <2>3, <2>4, VolumeShowsSame
<1>3. QED
  BY <1>1, <1>2

(* What a reader has and the rest of the file are the file.                  *)
LEMMA SeenIsAll ==
  ASSUME NEW s \in ByteSeqs, NEW t \in ByteSeqs, Begins(s, t)
  PROVE  s \o SubSeq(t, Len(s) + 1, Len(t)) = t
<1>1. Len(s) \in Nat /\ Len(t) \in Nat /\ Len(s) <= Len(t)
  BY DEF ByteSeqs, Begins
<1>2. s = SubSeq(t, 1, Len(s))
  <2>1. SubSeq(t, 1, Len(s)) \in Seq(ByteValues) /\ Len(SubSeq(t, 1, Len(s))) = Len(s)
    BY <1>1 DEF ByteSeqs
  <2>2. \A i \in 1 .. Len(s) : SubSeq(t, 1, Len(s))[i] = t[i]
    BY <1>1 DEF ByteSeqs
  <2>3. QED
    BY <2>1, <2>2, SeqEqual DEF ByteSeqs, Begins
<1>3. SubSeq(t, 1, Len(s)) \o SubSeq(t, Len(s) + 1, Len(t)) = SubSeq(t, 1, Len(t))
  <2>1. /\ t \in Seq(ByteValues) /\ 1 \in 1 .. Len(t) + 1
        /\ Len(s) \in 1 - 1 .. Len(t) /\ Len(t) \in Len(s) .. Len(t)
    BY <1>1 DEF ByteSeqs
  <2>2. QED
    BY ONLY <2>1, ConcatAdjacentSubSeq
<1>4. SubSeq(t, 1, Len(t)) = t
  BY SubSeqFull DEF ByteSeqs
<1>5. QED
  BY <1>2, <1>3, <1>4, Zenon

(* A range of a file by the numbers of its bytes. *)
LEMMA RangeRead ==
  ASSUME NEW t \in ByteSeqs, NEW o \in Nat, NEW k \in Nat, o + k <= Len(t)
  PROVE  SubSeq(t, o + 1, o + k) = [i \in 1 .. k |-> t[o + i]]
<1>1. (o + k) - (o + 1) + 1 = k
  OBVIOUS
<1>2. \A i \in 1 .. k : i + (o + 1) - 1 = o + i
  OBVIOUS
<1>3. QED
  BY <1>1, <1>2 DEF ByteSeqs

(* A read through a handle that was left open gives what the file has now. *)
LEMMA VolumeReadsBack ==
  ASSUME VolumeBytes, NEW id \in FileIds, NEW off \in Offs, NEW n \in 1 .. MaxTotal,
         Volume!Read(id, off, n)
  PROVE  VolumeBytes' /\ Volume!Seam!Next
<1> DEFINE at == Volume!DiskAfter({id})[id]
           seen == Volume!Seen(id, at)
<1>1. /\ disk' = Volume!DiskAfter({id}) /\ disk' \in [FileIds -> VolumeFiles \cup {Absent}]
      /\ \A x \in FileIds \ {id} : disk'[x] = disk[x]
      /\ disk'[id] = at /\ at = Volume!Flushed[id] /\ (at = Absent <=> disk[id] = Absent)
      /\ disk[id] # Absent => Begins(disk[id], at)
  BY DiskAfterIs DEF Volume!Read
<1>2. /\ wr' \in Writers /\ wr'.id = wr.id /\ wr'.total = wr.total /\ wr'.held = wr.held
      /\ wr.id = id => wr'.down = << >>
      /\ wr.id # id => wr' = wr
  <2>1. wr' = IF wr.id = id THEN [wr EXCEPT !.down = << >>] ELSE wr
    BY DEF Volume!Read
  <2>2. wr \in Writers
    BY DEF VolumeBytes
  <2>3. QED
    BY <2>1, <2>2, NoBytes, WriterWithDown
<1>3. \/ at = Absent /\ rd.id # id /\ rd' = Volume!NoReader /\ last' = Volume!Refused
      \/ /\ at # Absent \/ rd.id = id
         /\ rd' = [id |-> id, seen |-> seen]
         /\ last' = IF off + n <= Len(seen) THEN Volume!Done(SubSeq(seen, off + 1, off + n))
                    ELSE Volume!Refused
  BY DEF Volume!Read
<1> HIDE DEF at, seen
<1>4. WriterIsOn'
  <2>1. CASE wr.id = id
    <3>1. /\ disk'[id] \in ByteSeqs /\ Len(disk'[id]) = wr.held
          /\ wr.held \in Nat /\ wr.held <= wr.total /\ wr.total <= MaxTotal
      BY <1>1, <2>1, VolumeShows DEF VolumeBytes, WriterIsOn, VolumeFiles, Writers
    <3>2. wr'.held = Len(disk'[wr'.id]) + Len(wr'.down)
      BY <1>2, <2>1, <3>1, NoBytes
    <3>3. QED
      BY <1>2, <2>1, <3>1, <3>2, Zenon DEF WriterIsOn
  <2>2. CASE wr.id # id
    <3>1. wr' = wr /\ (wr.id \in FileIds => disk'[wr.id] = disk[wr.id])
      BY <1>1, <1>2, <2>2
    <3>2. QED
      BY <3>1 DEF VolumeBytes, WriterIsOn
  <2>3. QED
    BY <2>1, <2>2
<1>5. \A x \in FileIds : Volume!Flushed'[x] = Volume!Flushed[x]
  <2> SUFFICES ASSUME NEW x \in FileIds PROVE Volume!Flushed'[x] = Volume!Flushed[x]
    OBVIOUS
  <2>1. /\ Volume!Flushed'[x] = IF x = wr'.id THEN disk'[x] \o wr'.down ELSE disk'[x]
        /\ Volume!Flushed[x] = IF x = wr.id THEN disk[x] \o wr.down ELSE disk[x]
    BY DEF Volume!Flushed
  <2>2. CASE x # id
    BY <1>1, <1>2, <2>1, <2>2
  <2>3. CASE x = id /\ wr.id # id
    BY <1>1, <1>2, <2>1, <2>3
  <2>4. CASE x = id /\ wr.id = id
    <3>1. disk'[id] \in ByteSeqs
      BY <1>1, <2>4, VolumeShows DEF VolumeFiles
    <3>2. disk'[id] \o << >> = disk'[id]
      BY <3>1, ConcatEmptySeq DEF ByteSeqs
    <3>3. QED
      BY <1>1, <1>2, <2>1, <2>4, <3>2
  <2>5. QED
    BY <2>2, <2>3, <2>4
<1>6. CASE at = Absent /\ rd.id # id /\ rd' = Volume!NoReader /\ last' = Volume!Refused
  <2>1. rd' \in {rd, Volume!NoReader} /\ (rd' = rd => rd.id \notin FileIds)
    BY <1>6, VolumeGiven DEF Volume!NoReader
  <2>2. ReaderIsOn' /\ rd' \in Readers
    BY <1>1, <2>1, ReaderStays
  <2>3. VolumeBytes'
    BY <1>1, <1>2, <1>4, <2>2 DEF VolumeBytes
  <2>4. QED
    BY <1>5, <1>6, <2>3, VolumeRefuses
<1>7. CASE /\ at # Absent \/ rd.id = id
           /\ rd' = [id |-> id, seen |-> seen]
           /\ last' = IF off + n <= Len(seen) THEN Volume!Done(SubSeq(seen, off + 1, off + n))
                      ELSE Volume!Refused
  <2>1. rd.id = id => /\ rd.seen \in ByteSeqs /\ disk[id] \in ByteSeqs
                      /\ Begins(rd.seen, disk[id]) /\ disk[id] # Absent
    BY VolumeGiven DEF VolumeBytes, ReaderIsOn, Readers
  <2>2. at \in VolumeFiles /\ at \in ByteSeqs /\ at # Absent
    BY <1>1, <1>7, <2>1, VolumeGiven DEF VolumeFiles
  <2>3. Volume!Reader(id).seen \in ByteSeqs /\ Begins(Volume!Reader(id).seen, at)
    <3>1. CASE rd.id = id
      <4>1. Begins(rd.seen, disk[id]) /\ Begins(disk[id], at)
        BY <1>1, <2>1, <3>1
      <4>2. Begins(rd.seen, at)
        BY <2>1, <2>2, <3>1, <4>1 DEF Begins, ByteSeqs
      <4>3. QED
        BY <2>1, <3>1, <4>2 DEF Volume!Reader
    <3>2. CASE rd.id # id
      <4>1. Volume!Reader(id).seen = << >>
        BY <3>2 DEF Volume!Reader
      <4>2. Begins(<< >>, at)
        BY <2>2 DEF Begins, ByteSeqs
      <4>3. QED
        BY <4>1, <4>2, NoBytes
    <3>3. QED
      BY <3>1, <3>2
  <2>4. seen = at
    <3>1. seen = Volume!Reader(id).seen \o SubSeq(at, Len(Volume!Reader(id).seen) + 1, Len(at))
      BY <2>2, Zenon DEF Volume!Seen, seen
    <3>2. QED
      BY <2>2, <2>3, <3>1, SeenIsAll
  <2>5. ReaderIsOn' /\ rd' \in Readers
    <3>1. rd'.id = id /\ rd'.seen = at /\ rd' \in Readers
      BY <1>7, <2>2, <2>4 DEF Readers
    <3>2. Begins(at, at)
      BY <2>2 DEF Begins, ByteSeqs
    <3>3. QED
      BY <1>1, <2>2, <3>1, <3>2, Zenon DEF ReaderIsOn
  <2>6. VolumeBytes'
    BY <1>1, <1>2, <1>4, <2>5 DEF VolumeBytes
  <2>7. CASE off + n <= Len(at)
    <3>1. VolumeFile' = VolumeFile
      BY <1>5, <2>6, VolumeShowsSame
    <3>2. VolumeFile[id] = BytesOf(at) /\ VolumeFile[id] # Absent
      BY <1>1, <2>2, VolumeShows, BytesAreThere
    <3>3. /\ DOMAIN BytesOf(at) = 0 .. Len(at) - 1 /\ Len(at) \in Nat
          /\ \A o \in 0 .. Len(at) - 1 : BytesOf(at)[o] = at[o + 1]
      BY <2>2, BytesAreThere DEF ByteSeqs
    <3>4. /\ off \in Nat /\ n \in Nat /\ n >= 1
          /\ \A i \in 1 .. n : off + i - 1 \in 0 .. Len(at) - 1 /\ (off + i - 1) + 1 = off + i
          /\ off .. off + n - 1 \subseteq 0 .. Len(at) - 1
      BY <2>7, <3>3, VolumeGiven DEF Offs
    <3>5. Volume!Seam!Held(BytesOf(at), off, n)
      BY <3>3, <3>4 DEF Volume!Seam!Held
    <3>6. Volume!Seam!Got(BytesOf(at), off, n) = SubSeq(at, off + 1, off + n)
      <4>1. SubSeq(at, off + 1, off + n) = [i \in 1 .. n |-> at[off + i]]
        BY <2>2, <2>7, <3>3, <3>4, RangeRead
      <4>2. \A i \in 1 .. n : BytesOf(at)[off + i - 1] = at[off + i]
        BY <3>3, <3>4
      <4>3. QED
        BY <4>1, <4>2 DEF Volume!Seam!Got
    <3>7. Volume!Seam!Read(id, off, n)
      BY <1>7, <2>4, <2>7, <3>1, <3>2, <3>5, <3>6
      DEF Volume!Seam!Read, VolumeFile, Volume!Done, Volume!Seam!Done
    <3>8. QED
      BY <2>6, <3>7 DEF Volume!Seam!Next, Volume!Seam!Offsets, Offs
  <2>8. CASE ~(off + n <= Len(at))
    BY <1>5, <1>7, <2>4, <2>6, <2>8, VolumeRefuses
  <2>9. QED
    BY <2>7, <2>8
<1>8. QED
  BY <1>3, <1>6, <1>7

VolumeFileVars == <<[id \in FileIds |-> Volume!ContentOf(id)], last>>

(* A step elsewhere changes neither file nor handle. *)
LEMMA VolumeStutters ==
  VolumeBytes /\ UNCHANGED <<disk, wr, rd, last>> => VolumeBytes' /\ UNCHANGED VolumeFileVars
BY DEF VolumeBytes, WriterIsOn, ReaderIsOn, Volume!ContentOf, Volume!Flushed, VolumeFileVars

(* Every call of the two is one of the seam, or shows nothing. *)
LEMMA VolumeStep ==
  ASSUME VolumeBytes, Volume!Next
  PROVE  VolumeBytes' /\ [Volume!Seam!Next]_VolumeFileVars
<1>1. CASE \E id \in FileIds : Volume!Destroy(id)
  BY <1>1, VolumeDestroys
<1>2. CASE (\E id \in FileIds : Volume!CreateFails(id)) \/ Volume!Reopen
  <2>1. /\ wr' = Volume!NoWriter /\ disk' = Volume!DiskAfter(FileIds) /\ last' = Volume!Refused
        /\ rd' \in {rd, Volume!NoReader}
    BY <1>2, ReaderAfterIs DEF Volume!CreateFails, Volume!Reopen
  <2>2. QED
    BY <2>1, VolumeClosesAll, VolumeRefuses
<1>3. CASE \E id \in FileIds, total \in 1 .. MaxTotal : Volume!Create(id, total)
  BY <1>3, VolumeCreates
<1>4. CASE \E from, to \in FileIds : Volume!Rename(from, to) \/ Volume!RenameRefused(from, to)
  <2>1. PICK from \in FileIds, to \in FileIds :
          Volume!Rename(from, to) \/ Volume!RenameRefused(from, to)
    BY <1>4
  <2>2. CASE Volume!Rename(from, to)
    BY <2>2, VolumeRenames
  <2>3. CASE Volume!RenameRefused(from, to)
    <3>1. last' = Volume!Refused /\ UNCHANGED <<disk, wr, rd>>
      BY <2>3 DEF Volume!RenameRefused, Volume!Refuse
    <3>2. QED
      BY <3>1, VolumeIdles, VolumeRefuses
  <2>4. QED
    BY <2>1, <2>2, <2>3
<1>5. CASE \E id \in FileIds : Volume!Complete(id)
  BY <1>5, VolumeCompletes
<1>6. CASE \E id \in FileIds, off \in 0 .. MaxTotal - 1, data \in Volume!Data :
             Volume!Write(id, off, data)
  BY <1>6, VolumeWrites DEF Offs
<1>7. CASE \E id \in FileIds, off \in 0 .. MaxTotal - 1, n \in 1 .. MaxTotal :
             Volume!Read(id, off, n)
  BY <1>7, VolumeReadsBack DEF Offs
<1>8. CASE Volume!Drains
  BY <1>8, VolumeDrains DEF VolumeFileVars, VolumeFile
<1>9. CASE Volume!Walks
  BY <1>9, VolumeStutters DEF Volume!Walks, Volume!StartWalk, Volume!Step
<1>10. QED
  BY <1>1, <1>2, <1>3, <1>4, <1>5, <1>6, <1>7, <1>8, <1>9
  DEF Volume!Next, Volume!Handles, Volume!ByteCalls

(* Of the scenarios only two take the backend's steps. *)
LEMMA VolumeAlone == [UploadsNext]_all => [Volume!Next]_handleVars
BY DEF UploadsNext, all, InStore, InConsole, InRam, InVolume, handleVars, Volume!Next

(* The two that keep a file for each id do what the seam promises as well: no *)
(* handle kept open between calls, for writing or for reading, shows through, *)
(* whatever was destroyed, created anew or renamed since it was opened, and  *)
(* whichever way the rename goes. *)
THEOREM VolumeKeepsTheSeam == UploadsSpec => Volume!KeepsTheSeam
<1>1. UploadsInit => VolumeBytes /\ Volume!Seam!Init
  BY VolumeStarts DEF UploadsInit
<1>2. VolumeBytes /\ [UploadsNext]_all => VolumeBytes' /\ [Volume!Seam!Next]_VolumeFileVars
  BY VolumeAlone, VolumeStep, VolumeStutters DEF handleVars
<1>3. QED
  BY <1>1, <1>2, PTL DEF UploadsSpec, Volume!KeepsTheSeam, Volume!Seam!Spec, VolumeFileVars

-----------------------------------------------------------------------------
(* What the two say of a file is true of its bytes.                          *)

Facts == [asked : Nat, cut : BOOLEAN, told : BOOLEAN]

(* A file whose writer was let finish is as long as was asked for.           *)
VolumeTells ==
  /\ was \in [FileIds -> Facts]
  /\ \A id \in FileIds : disk[id] # Absent /\ ~was[id].cut =>
       IF wr.id = id THEN wr.total = was[id].asked /\ ~was[id].told
       ELSE Len(disk[id]) = was[id].asked

(* A writer that is closed with all it was to hold leaves a whole file.      *)
LEMMA ClosedIsWhole ==
  ASSUME VolumeBytes, VolumeTells, NEW x \in FileIds, disk[x] # Absent, ~was[x].cut,
         ~Volume!Cut(x)
  PROVE  Len(Volume!Flushed[x]) = was[x].asked
<1>1. CASE wr.id = x
  <2>1. /\ Len(Volume!Flushed[x]) = wr.held /\ wr.held <= wr.total /\ ~(wr.held < wr.total)
        /\ wr.held \in Nat /\ wr.total \in Nat /\ wr.total = was[x].asked
    BY <1>1, VolumeShows DEF VolumeBytes, WriterIsOn, Writers, Volume!Cut, VolumeTells
  <2>2. QED
    BY <2>1
<1>2. CASE wr.id # x
  BY <1>2, VolumeShows DEF VolumeTells
<1>3. QED
  BY <1>1, <1>2

(* As long as its writer is open a file is not said to be anything. *)
LEMMA TellsWhileWritten ==
  ASSUME VolumeBytes, VolumeTells, wr'.id = wr.id, wr'.total = wr.total, was' = was,
         \A x \in FileIds : x # wr.id => disk'[x] = disk[x]
  PROVE  VolumeTells'
<1>1. wr.id \in FileIds => disk[wr.id] # Absent
  BY VolumeGiven DEF VolumeBytes, WriterIsOn
<1>2. QED
  BY <1>1 DEF VolumeTells

(* Files whose writer is closed are judged by what went down. *)
LEMMA TellsWhenClosed ==
  ASSUME VolumeBytes, VolumeTells, NEW ids \in SUBSET FileIds,
         wr'.id \notin ids, wr.id \in FileIds \ ids => wr' = wr,
         wr'.id \in FileIds => wr' = wr,
         was' \in [FileIds -> Facts],
         \A x \in FileIds \ ids : disk'[x] = disk[x] /\ was'[x] = was[x],
         \A x \in ids : disk'[x] # Absent /\ ~was'[x].cut => Len(disk'[x]) = was'[x].asked
  PROVE  VolumeTells'
<1>1. ASSUME NEW x \in FileIds, disk'[x] # Absent, ~was'[x].cut
      PROVE  IF wr'.id = x THEN wr'.total = was'[x].asked /\ ~was'[x].told
             ELSE Len(disk'[x]) = was'[x].asked
  <2>1. CASE x \in ids
    <3>1. wr'.id # x /\ Len(disk'[x]) = was'[x].asked
      BY <1>1, <2>1
    <3>2. QED
      BY <3>1
  <2>2. CASE x \notin ids
    <3>1. disk'[x] = disk[x] /\ was'[x] = was[x] /\ (wr'.id = x <=> wr.id = x) /\ (wr.id = x => wr' = wr)
      BY <2>2
    <3>2. QED
      BY <1>1, <3>1 DEF VolumeTells
  <2>3. QED
    BY <2>1, <2>2
<1>2. QED
  BY <1>1 DEF VolumeTells

(* Of a file that was closed, it is kept whether its writer was cut short.   *)
Closing(i) == [was[i] EXCEPT !.cut = @ \/ Volume!Cut(i)]

(* A file that was not cut short is whole once its writer is closed. *)
LEMMA ClosingIs ==
  ASSUME VolumeBytes, VolumeTells, NEW x \in FileIds
  PROVE  /\ Closing(x) \in Facts /\ Closing(x).asked = was[x].asked
         /\ Closing(x).told = was[x].told
         /\ disk[x] # Absent /\ ~Closing(x).cut => Len(Volume!Flushed[x]) = was[x].asked
<1>1. was[x] \in Facts /\ Volume!Cut(x) \in BOOLEAN
  BY DEF VolumeTells, Volume!Cut
<1>2. /\ Closing(x) \in Facts /\ Closing(x).asked = was[x].asked
      /\ Closing(x).told = was[x].told
      /\ Closing(x).cut = (was[x].cut \/ Volume!Cut(x))
  BY <1>1 DEF Closing, Facts
<1>3. QED
  BY <1>2, ClosedIsWhole

(* A writer that is left open writes none of the files that were closed. *)
LEMMA WriterAfterIs ==
  ASSUME VolumeBytes, NEW ids \in SUBSET FileIds, wr' = Volume!WriterAfter(ids)
  PROVE  /\ wr'.id \notin ids /\ (wr.id \in FileIds \ ids => wr' = wr)
         /\ wr'.id \in FileIds => wr' = wr
BY VolumeGiven DEF Volume!WriterAfter, Volume!NoWriter

(* Nothing is said of a file that is not there. *)
LEMMA NoFileIs ==
  /\ Volume!NoFile \in Facts /\ Volume!NoFile.asked = 0 /\ ~Volume!NoFile.cut /\ ~Volume!NoFile.told
BY DEF Volume!NoFile, Facts

(* Every file is as it was told when every handle is closed. *)
LEMMA TellsAfterAll ==
  ASSUME VolumeBytes, VolumeTells, wr' = Volume!NoWriter,
         disk' = Volume!DiskAfter(FileIds), was' = [i \in FileIds |-> Closing(i)]
  PROVE  VolumeTells'
<1>1. wr'.id \notin FileIds
  BY VolumeGiven DEF Volume!NoWriter
<1>2. was' \in [FileIds -> Facts]
  BY ClosingIs
<1>3. \A x \in FileIds : disk'[x] # Absent /\ ~was'[x].cut => Len(disk'[x]) = was'[x].asked
  <2> SUFFICES ASSUME NEW x \in FileIds, disk'[x] # Absent, ~was'[x].cut
               PROVE  Len(disk'[x]) = was'[x].asked
    OBVIOUS
  <2>1. disk'[x] = Volume!Flushed[x] /\ disk[x] # Absent /\ was'[x] = Closing(x)
    BY DiskAfterIs
  <2>2. QED
    BY <2>1, ClosingIs
<1>4. QED
  BY <1>1, <1>2, <1>3, TellsWhenClosed

(* A create cuts an older writer short, and says so. *)
LEMMA TellsAfterCreate ==
  ASSUME VolumeBytes, VolumeTells, NEW id \in FileIds, NEW total \in 1 .. MaxTotal,
         Volume!Create(id, total)
  PROVE  VolumeTells'
<1>1. /\ wr'.id = id /\ wr'.total = total /\ total \in Nat
      /\ disk' = [Volume!DiskAfter(FileIds) EXCEPT ![id] = << >>]
      /\ was' = [i \in FileIds |-> IF i = id THEN [Volume!NoFile EXCEPT !.asked = total]
                                   ELSE Closing(i)]
  BY VolumeGiven DEF Volume!Create, Closing
<1> DEFINE new == [Volume!NoFile EXCEPT !.asked = total]
<1>2. new \in Facts /\ new.asked = total /\ ~new.told
  BY <1>1, NoFileIs DEF Facts
<1> HIDE DEF new
<1>3. was' = [i \in FileIds |-> IF i = id THEN new ELSE Closing(i)]
  BY <1>1 DEF new
<1>4. was' \in [FileIds -> Facts]
  BY <1>2, <1>3, ClosingIs
<1>5. ASSUME NEW x \in FileIds, x # id, disk'[x] # Absent, ~was'[x].cut
      PROVE  Len(disk'[x]) = was'[x].asked
  <2>1. disk'[x] = Volume!Flushed[x] /\ disk[x] # Absent /\ was'[x] = Closing(x)
    BY <1>1, <1>3, <1>5, DiskAfterIs
  <2>2. QED
    BY <1>5, <2>1, ClosingIs
<1>6. QED
  BY <1>1, <1>2, <1>3, <1>4, <1>5 DEF VolumeTells

(* What was said of a file goes with it. *)
LEMMA TellsAfterRename ==
  ASSUME VolumeBytes, VolumeTells, NEW from \in FileIds, NEW to \in FileIds,
         Volume!Rename(from, to)
  PROVE  VolumeTells'
<1> DEFINE D == Volume!DiskAfter({from, to})
           ids == {from, to}
<1>1. /\ D \in [FileIds -> VolumeFiles \cup {Absent}]
      /\ \A x \in FileIds : D[x] = Absent <=> disk[x] = Absent
      /\ D[from] = Volume!Flushed[from] /\ D[to] = Volume!Flushed[to]
      /\ \A x \in FileIds \ ids : D[x] = disk[x]
  BY DiskAfterIs
<1>2. wr'.id \notin ids /\ (wr.id \in FileIds \ ids => wr' = wr) /\ (wr'.id \in FileIds => wr' = wr)
  BY WriterAfterIs DEF Volume!Rename
<1>3. \/ /\ from # to /\ D[from] # Absent
         /\ disk' = [D EXCEPT ![to] = D[from], ![from] = Absent]
         /\ was' = [was EXCEPT ![to] = Closing(from), ![from] = Volume!NoFile]
      \/ /\ disk' = IF replaces THEN D ELSE [D EXCEPT ![to] = Absent]
         /\ was' = [i \in FileIds |-> IF i = to /\ ~replaces THEN Volume!NoFile
                                      ELSE [was[i] EXCEPT !.cut = @ \/ (i \in ids /\ Volume!Cut(i))]]
  BY DEF Volume!Rename, Volume!Moves, Closing
<1>4. was \in [FileIds -> Facts]
  BY DEF VolumeTells
<1> HIDE DEF D
<1>5. CASE /\ from # to /\ D[from] # Absent
           /\ disk' = [D EXCEPT ![to] = D[from], ![from] = Absent]
           /\ was' = [was EXCEPT ![to] = Closing(from), ![from] = Volume!NoFile]
  <2>1. was' \in [FileIds -> Facts] /\ was'[to] = Closing(from)
    BY <1>4, <1>5, ClosingIs, NoFileIs
  <2>2. \A x \in FileIds \ ids : disk'[x] = disk[x] /\ was'[x] = was[x]
    BY <1>1, <1>4, <1>5
  <2>3. disk'[from] = Absent /\ disk'[to] = Volume!Flushed[from] /\ disk[from] # Absent
    BY <1>1, <1>5
  <2>4. \A x \in ids : disk'[x] # Absent /\ ~was'[x].cut => Len(disk'[x]) = was'[x].asked
    BY <2>1, <2>3, ClosingIs
  <2>5. QED
    BY <1>2, <2>1, <2>2, <2>4, TellsWhenClosed
<1>6. CASE /\ disk' = IF replaces THEN D ELSE [D EXCEPT ![to] = Absent]
           /\ was' = [i \in FileIds |-> IF i = to /\ ~replaces THEN Volume!NoFile
                                        ELSE [was[i] EXCEPT !.cut = @ \/ (i \in ids /\ Volume!Cut(i))]]
  <2>1. \A i \in FileIds : [was[i] EXCEPT !.cut = @ \/ (i \in ids /\ Volume!Cut(i))]
                           = IF i \in ids THEN Closing(i) ELSE was[i]
    <3> SUFFICES ASSUME NEW i \in FileIds
                 PROVE  [was[i] EXCEPT !.cut = @ \/ (i \in ids /\ Volume!Cut(i))]
                        = IF i \in ids THEN Closing(i) ELSE was[i]
      OBVIOUS
    <3>1. CASE i \in ids
      <4>1. (was[i].cut \/ (i \in ids /\ Volume!Cut(i))) <=> (was[i].cut \/ Volume!Cut(i))
        BY <3>1
      <4>2. QED
        BY <3>1, <4>1 DEF Closing
    <3>2. CASE i \notin ids
      <4>1. was[i] \in Facts
        BY <1>4
      <4>2. (was[i].cut \/ (i \in ids /\ Volume!Cut(i))) = was[i].cut
        BY <3>2, <4>1 DEF Facts
      <4>3. [was[i] EXCEPT !.cut = was[i].cut] = was[i]
        BY <4>1 DEF Facts
      <4>4. QED
        BY <3>2, <4>2, <4>3
    <3>3. QED
      BY <3>1, <3>2
  <2>2. was' = [i \in FileIds |-> IF i = to /\ ~replaces THEN Volume!NoFile
                                  ELSE IF i \in ids THEN Closing(i) ELSE was[i]]
    BY <1>6, <2>1
  <2>3. was' \in [FileIds -> Facts]
    BY <1>4, <2>2, ClosingIs, NoFileIs
  <2>4. \A x \in FileIds \ ids : disk'[x] = disk[x] /\ was'[x] = was[x]
    BY <1>1, <1>6, <2>2
  <2>5. ASSUME NEW x \in ids, disk'[x] # Absent, ~was'[x].cut
        PROVE  Len(disk'[x]) = was'[x].asked
    <3>1. x \in FileIds /\ disk'[x] = Volume!Flushed[x] /\ disk[x] # Absent /\ was'[x] = Closing(x)
      BY <1>1, <1>6, <2>2, <2>5
    <3>2. QED
      BY <2>5, <3>1, ClosingIs
  <2>6. QED
    BY <1>2, <2>3, <2>4, <2>5, TellsWhenClosed
<1>7. QED
  BY <1>3, <1>5, <1>6

(* A file is told complete when its writer held all it was asked for. *)
LEMMA TellsAfterComplete ==
  ASSUME VolumeBytes, VolumeTells, NEW id \in FileIds, Volume!Complete(id), Volume!AllThere(id)
  PROVE  VolumeTells'
<1>1. /\ wr' = Volume!WriterAfter({id}) /\ disk' = Volume!DiskAfter({id})
      /\ was' = [was EXCEPT ![id].told = TRUE] /\ disk[id] # Absent
      /\ Volume!Stat(id).held = Volume!Stat(id).total
  BY DEF Volume!Complete, Volume!AllThere
<1>2. wr'.id \notin {id} /\ (wr.id \in FileIds \ {id} => wr' = wr) /\ (wr'.id \in FileIds => wr' = wr)
  BY <1>1, WriterAfterIs
<1>3. was[id] \in Facts /\ was \in [FileIds -> Facts]
  BY DEF VolumeTells
<1>4. /\ was' \in [FileIds -> Facts] /\ was'[id].asked = was[id].asked
      /\ was'[id].cut = was[id].cut
  BY <1>1, <1>3 DEF Facts
<1>5. /\ disk'[id] = Volume!Flushed[id]
      /\ \A x \in FileIds \ {id} : disk'[x] = disk[x] /\ was'[x] = was[x]
  BY <1>1, <1>3, DiskAfterIs
<1>6. ~Volume!Cut(id)
  BY <1>1 DEF Volume!Cut, Volume!Stat, VolumeBytes, Writers
<1>7. ~was'[id].cut => Len(disk'[id]) = was'[id].asked
  BY <1>1, <1>4, <1>5, <1>6, ClosedIsWhole
<1>8. QED
  BY <1>2, <1>4, <1>5, <1>7, TellsWhenClosed

(* Nothing is left to say of a file that is destroyed. *)
LEMMA TellsAfterDestroy ==
  ASSUME VolumeBytes, VolumeTells, NEW id \in FileIds, Volume!Destroy(id)
  PROVE  VolumeTells'
<1>1. wr'.id \notin {id} /\ (wr.id \in FileIds \ {id} => wr' = wr) /\ (wr'.id \in FileIds => wr' = wr)
  BY WriterAfterIs DEF Volume!Destroy
<1>2. /\ was' \in [FileIds -> Facts] /\ disk'[id] = Absent
      /\ \A x \in FileIds \ {id} : disk'[x] = disk[x] /\ was'[x] = was[x]
  BY NoFileIs DEF Volume!Destroy, VolumeTells, VolumeBytes
<1>3. QED
  BY <1>1, <1>2, TellsWhenClosed

(* No call makes what is said of a file untrue. *)
LEMMA TellsStep ==
  ASSUME VolumeBytes, VolumeTells, Volume!Next
  PROVE  VolumeTells'
<1>1. CASE \E id \in FileIds : Volume!Destroy(id)
  BY <1>1, TellsAfterDestroy
<1>2. CASE (\E id \in FileIds : Volume!CreateFails(id)) \/ Volume!Reopen
  BY <1>2, TellsAfterAll DEF Volume!CreateFails, Volume!Reopen, Closing
<1>3. CASE \E id \in FileIds, total \in 1 .. MaxTotal : Volume!Create(id, total)
  BY <1>3, TellsAfterCreate
<1>4. CASE \E from, to \in FileIds : Volume!Rename(from, to)
  BY <1>4, TellsAfterRename
<1>5. CASE \E id \in FileIds : Volume!Complete(id) /\ Volume!AllThere(id)
  BY <1>5, TellsAfterComplete
<1>6. CASE \/ \E from, to \in FileIds : Volume!RenameRefused(from, to)
           \/ \E id \in FileIds : Volume!Complete(id) /\ ~Volume!AllThere(id)
           \/ \E id \in FileIds, off \in 0 .. MaxTotal - 1, data \in Volume!Data :
                Volume!Write(id, off, data)
           \/ Volume!Walks
  <2>1. disk' = disk /\ was' = was /\ wr'.id = wr.id /\ wr'.total = wr.total
    <3>1. \A d : Volume!Taken(d) => wr'.id = wr.id /\ wr'.total = wr.total
      BY DEF Volume!Taken, VolumeBytes, Writers
    <3>2. QED
      BY <1>6, <3>1 DEF Volume!RenameRefused, Volume!Complete, Volume!Write, Volume!Refuse,
         Volume!Walks, Volume!StartWalk, Volume!Step
  <2>2. QED
    BY <2>1, TellsWhileWritten
<1>7. CASE \/ Volume!Drains
           \/ \E id \in FileIds, off \in 0 .. MaxTotal - 1, n \in 1 .. MaxTotal :
                Volume!Read(id, off, n)
  <2>1. was' = was /\ wr'.id = wr.id /\ wr'.total = wr.total
    BY <1>7 DEF Volume!Drains, Volume!Read, VolumeBytes, Writers
  <2>2. \A x \in FileIds : x # wr.id => disk'[x] = disk[x]
    <3>1. CASE Volume!Drains
      BY <3>1, VolumeShows DEF Volume!Drains
    <3>2. CASE \E id \in FileIds, off \in 0 .. MaxTotal - 1, n \in 1 .. MaxTotal :
                 Volume!Read(id, off, n)
      <4>1. PICK id \in FileIds : disk' = Volume!DiskAfter({id})
        BY <3>2 DEF Volume!Read
      <4>2. QED
        BY <4>1, DiskAfterIs, VolumeShows
    <3>3. QED
      BY <1>7, <3>1, <3>2
  <2>3. QED
    BY <2>1, <2>2, TellsWhileWritten
<1>8. QED
  BY <1>1, <1>2, <1>3, <1>4, <1>5, <1>6, <1>7
  DEF Volume!Next, Volume!Handles, Volume!ByteCalls

-----------------------------------------------------------------------------
(* A walk gives each file once.                                              *)

Entries == Seq(FileIds \cup {Foreign})
Lists(s, e) == \E k \in DOMAIN s : s[k] = e
Once(s) == \A i, j \in DOMAIN s : s[i] = s[j] => i = j

Tours == [at : Nat, got : Seq(FileIds), due : SUBSET FileIds, ended : BOOLEAN]

(* A walk that nothing was taken from: what it gave are the entries up to    *)
(* where it is.                                                              *)
WalkIsTrue ==
  /\ Once(walk.got)
  /\ walk.ended => \A id \in walk.due : Lists(walk.got, id)
  /\ ~walk.ended =>
       /\ walk.at <= Len(order)
       /\ \A id \in walk.due : Lists(order, id)
       /\ \A n \in DOMAIN walk.got : \E k \in 1 .. walk.at : order[k] = walk.got[n]
       /\ \A k \in 1 .. walk.at : order[k] \in FileIds => Lists(walk.got, order[k])

VolumeLists ==
  /\ order \in Entries /\ Once(order) /\ walk \in Tours
  /\ \A id \in FileIds : disk[id] # Absent => Lists(order, id)
  /\ walk.due # {} => WalkIsTrue

(* The entry of a name goes and the others stay.                             *)
LEMMA WithoutIs ==
  ASSUME NEW s \in Entries, Once(s), NEW e
  PROVE  /\ Volume!Without(s, e) \in Entries /\ Once(Volume!Without(s, e))
         /\ ~Lists(Volume!Without(s, e), e)
         /\ \A x : x # e /\ Lists(s, x) => Lists(Volume!Without(s, e), x)
         /\ \A x : Lists(Volume!Without(s, e), x) => Lists(s, x)
<1>0. s \in Seq(FileIds \cup {Foreign}) /\ Len(s) \in Nat /\ DOMAIN s = 1 .. Len(s)
  BY DEF Entries
<1>1. Volume!Contains(s, e) <=> Lists(s, e)
  BY <1>0 DEF Volume!Contains, Lists
<1>2. CASE ~Lists(s, e)
  BY <1>1, <1>2 DEF Volume!Without
<1>3. CASE Lists(s, e)
  <2> DEFINE k == CHOOSE k \in DOMAIN s : s[k] = e
             t == Volume!Without(s, e)
             n == Len(s)
  <2>1. k \in 1 .. n /\ s[k] = e
    BY <1>0, <1>3 DEF Lists
  <2>2. t = SubSeq(s, 1, k - 1) \o SubSeq(s, k + 1, n)
    BY <1>1, <1>3 DEF Volume!Without, Volume!RemoveAt
  <2> HIDE DEF k, t
  <2>3. /\ SubSeq(s, 1, k - 1) \in Entries /\ Len(SubSeq(s, 1, k - 1)) = k - 1
        /\ \A i \in 1 .. k - 1 : SubSeq(s, 1, k - 1)[i] = s[i]
    BY <1>0, <2>1 DEF Entries
  <2>4. /\ SubSeq(s, k + 1, n) \in Entries /\ Len(SubSeq(s, k + 1, n)) = n - k
        /\ \A i \in 1 .. n - k : SubSeq(s, k + 1, n)[i] = s[i + k]
    <3>1. /\ k + 1 \in Int /\ n \in Int /\ k + 1 \in 1 .. n + 1 /\ n \in k .. n
          /\ n - (k + 1) + 1 = n - k
          /\ \A i \in 1 .. n - k : i + (k + 1) - 1 = i + k /\ (k + 1) + i - 1 = i + k
      BY <1>0, <2>1
    <3>2. SubSeq(s, k + 1, n) = [i \in 1 .. n - k |-> s[i + k]]
      BY <1>0, <3>1
    <3> DEFINE m == n - k
               b == SubSeq(s, k + 1, n)
    <3>3. m \in Nat /\ \A i \in 1 .. m : s[i + k] \in FileIds \cup {Foreign}
      BY <1>0, <2>1
    <3>4. b = [i \in 1 .. m |-> s[i + k]]
      BY <3>2
    <3> HIDE DEF m, b
    <3>5. b \in [1 .. m -> FileIds \cup {Foreign}]
      BY <3>3, <3>4
    <3>6. b \in Entries /\ Len(b) = m
      BY <3>3, <3>5 DEF Entries
    <3>7. QED
      BY <3>4, <3>6 DEF b, m
  <2>5. /\ t \in Entries /\ Len(t) = n - 1 /\ DOMAIN t = 1 .. n - 1
        /\ \A i \in 1 .. n - 1 : t[i] = IF i < k THEN s[i] ELSE s[i + 1]
    <3> DEFINE a == SubSeq(s, 1, k - 1)
               b == SubSeq(s, k + 1, n)
    <3>1. /\ a \in Entries /\ b \in Entries /\ t = a \o b /\ Len(a) = k - 1 /\ Len(b) = n - k
          /\ \A i \in 1 .. k - 1 : a[i] = s[i]
          /\ \A i \in 1 .. n - k : b[i] = s[i + k]
      BY <2>2, <2>3, <2>4
    <3> HIDE DEF a, b
    <3>2. /\ a \o b \in Entries /\ Len(a \o b) = Len(a) + Len(b)
          /\ \A i \in 1 .. Len(a) + Len(b) : (a \o b)[i] = IF i <= Len(a) THEN a[i] ELSE b[i - Len(a)]
      BY <3>1, ConcatProperties DEF Entries
    <3>3. t \in Entries /\ Len(t) = n - 1
      BY <1>0, <2>1, <3>1, <3>2
    <3>4. ASSUME NEW i \in 1 .. n - 1 PROVE t[i] = IF i < k THEN s[i] ELSE s[i + 1]
      <4>1. CASE i < k
        <5>1. i \in 1 .. k - 1 /\ i \in 1 .. Len(a) + Len(b) /\ i <= Len(a)
          BY <1>0, <2>1, <3>1, <4>1
        <5>2. QED
          BY <3>1, <3>2, <4>1, <5>1
      <4>2. CASE ~(i < k)
        <5>1. /\ i \in 1 .. Len(a) + Len(b) /\ ~(i <= Len(a)) /\ i - Len(a) \in 1 .. n - k
              /\ (i - Len(a)) + k = i + 1
          BY <1>0, <2>1, <3>1, <4>2
        <5>2. QED
          BY <3>1, <3>2, <4>2, <5>1
      <4>3. QED
        BY <4>1, <4>2
    <3>5. QED
      BY <3>3, <3>4 DEF Entries
  <2>6. \A i \in DOMAIN t : \E j \in DOMAIN s : j # k /\ t[i] = s[j] /\ j = IF i < k THEN i ELSE i + 1
    BY <1>0, <2>1, <2>5
  <2>7. Once(t)
    <3>1. ASSUME NEW i \in DOMAIN t, NEW j \in DOMAIN t, t[i] = t[j] PROVE i = j
      <4>1. PICK g \in DOMAIN s : t[i] = s[g] /\ g = IF i < k THEN i ELSE i + 1
        BY <2>6
      <4>2. PICK h \in DOMAIN s : t[j] = s[h] /\ h = IF j < k THEN j ELSE j + 1
        BY <2>6
      <4>3. g = h
        BY <3>1, <4>1, <4>2 DEF Once
      <4>4. QED
        BY <1>0, <2>1, <2>5, <4>1, <4>2, <4>3
    <3>2. QED
      BY <3>1 DEF Once
  <2>8. ~Lists(t, e) /\ \A x : Lists(t, x) => Lists(s, x)
    <3>1. \A j \in DOMAIN s : s[j] = e => j = k
      BY <1>0, <2>1 DEF Once
    <3>2. QED
      BY <2>6, <3>1 DEF Lists
  <2>9. ASSUME NEW x, x # e, Lists(s, x) PROVE Lists(t, x)
    <3>1. PICK j \in DOMAIN s : s[j] = x
      BY <2>9 DEF Lists
    <3>2. j # k
      BY <2>1, <2>9, <3>1
    <3>3. CASE j < k
      <4>1. j \in 1 .. n - 1 /\ t[j] = x
        BY <1>0, <2>1, <2>5, <3>1, <3>3
      <4>2. QED
        BY <2>5, <4>1 DEF Lists
    <3>4. CASE ~(j < k)
      <4>1. j - 1 \in 1 .. n - 1 /\ ~(j - 1 < k) /\ (j - 1) + 1 = j
        BY <1>0, <2>1, <3>1, <3>2, <3>4
      <4>2. t[j - 1] = x
        BY <2>5, <3>1, <4>1
      <4>3. QED
        BY <2>5, <4>1, <4>2 DEF Lists
    <3>5. QED
      BY <3>3, <3>4
  <2>10. QED
    BY <2>5, <2>7, <2>8, <2>9 DEF t
<1>4. QED
  BY <1>2, <1>3

(* An entry that comes is the last one, and the others stay where they are. *)
LEMMA AppendedIs ==
  ASSUME NEW s \in Entries, Once(s), NEW e \in FileIds, ~Lists(s, e)
  PROVE  /\ Append(s, e) \in Entries /\ Once(Append(s, e)) /\ Len(Append(s, e)) = Len(s) + 1
         /\ \A k \in 1 .. Len(s) : Append(s, e)[k] = s[k]
         /\ Lists(Append(s, e), e) /\ \A x : Lists(s, x) => Lists(Append(s, e), x)
<1>1. /\ Append(s, e) \in Entries /\ Len(Append(s, e)) = Len(s) + 1 /\ Len(s) \in Nat
      /\ DOMAIN Append(s, e) = 1 .. Len(s) + 1 /\ DOMAIN s = 1 .. Len(s)
      /\ \A k \in 1 .. Len(s) : Append(s, e)[k] = s[k]
      /\ Append(s, e)[Len(s) + 1] = e
  BY DEF Entries
<1> DEFINE t == Append(s, e)
<1>2. ASSUME NEW i \in DOMAIN t, NEW j \in DOMAIN t, t[i] = t[j] PROVE i = j
  <2>1. CASE i \in DOMAIN s /\ j \in DOMAIN s
    BY <1>1, <1>2, <2>1 DEF Once
  <2>2. CASE i \in DOMAIN s /\ j = Len(s) + 1
    BY <1>1, <1>2, <2>2 DEF Lists
  <2>3. CASE j \in DOMAIN s /\ i = Len(s) + 1
    BY <1>1, <1>2, <2>3 DEF Lists
  <2>4. QED
    BY <1>1, <2>1, <2>2, <2>3
<1>3. Lists(t, e) /\ \A x : Lists(s, x) => Lists(t, x)
  BY <1>1 DEF Lists
<1>4. QED
  BY <1>1, <1>2, <1>3 DEF Once

(* The directory is empty of ids at first, and nobody walks it. *)
LEMMA ListsStarts == Volume!Init => VolumeLists
<1> SUFFICES ASSUME Volume!Init PROVE VolumeLists
  OBVIOUS
<1>1. order = <<Foreign>> /\ walk \in Tours /\ walk.due = {} /\ \A id \in FileIds : disk[id] = Absent
  BY DEF Volume!Init, Tours
<1>2. order \in Entries /\ Once(order)
  BY <1>1 DEF Entries, Once
<1>3. QED
  BY <1>1, <1>2 DEF VolumeLists

(* A walk that something was taken from, or that is over with.               *)
LEMMA GivenUp ==
  ASSUME VolumeLists, walk'.due = {}, walk' \in Tours, order' \in Entries, Once(order'),
         \A id \in FileIds : disk'[id] # Absent => Lists(order', id)
  PROVE  VolumeLists'
BY DEF VolumeLists

(* A walk something was taken from owes nothing. *)
LEMMA DisturbedIs ==
  ASSUME VolumeLists
  PROVE  Volume!Disturbed \in Tours /\ Volume!Disturbed.due = {}
BY DEF Volume!Disturbed, VolumeLists, Tours

(* While nothing leaves the directory a walk goes on being true.             *)
LEMMA WalkStays ==
  ASSUME VolumeLists, walk' = walk, order' \in Entries, Once(order'),
         order' = order \/ \E e \in FileIds : ~Lists(order, e) /\ order' = Append(order, e),
         \A id \in FileIds : disk'[id] # Absent => Lists(order', id)
  PROVE  VolumeLists'
<1>1. /\ Len(order) \in Nat /\ Len(order') \in Nat /\ Len(order) <= Len(order')
      /\ \A k \in 1 .. Len(order) : order'[k] = order[k]
      /\ \A x : Lists(order, x) => Lists(order', x)
  <2>1. order \in Entries /\ Once(order) /\ Len(order) \in Nat
    BY DEF VolumeLists, Entries
  <2>2. CASE order' = order
    BY <2>1, <2>2
  <2>3. ASSUME NEW e \in FileIds, ~Lists(order, e), order' = Append(order, e)
        PROVE  /\ Len(order') \in Nat /\ Len(order) <= Len(order')
               /\ \A k \in 1 .. Len(order) : order'[k] = order[k]
               /\ \A x : Lists(order, x) => Lists(order', x)
    BY <2>1, <2>3, AppendedIs
  <2>4. QED
    BY <2>1, <2>2, <2>3
<1>2. walk.due # {} => WalkIsTrue'
  <2> SUFFICES ASSUME walk.due # {} PROVE WalkIsTrue'
    OBVIOUS
  <2>1. WalkIsTrue /\ walk.at \in Nat
    BY DEF VolumeLists, Tours
  <2>2. CASE walk.ended
    BY <2>1, <2>2 DEF WalkIsTrue
  <2>3. CASE ~walk.ended
    <3>1. \A k \in 1 .. walk.at : k \in 1 .. Len(order) /\ order'[k] = order[k]
      BY <1>1, <2>1, <2>3 DEF WalkIsTrue
    <3>2. walk.at <= Len(order')
      BY <1>1, <2>1, <2>3 DEF WalkIsTrue
    <3>3. QED
      BY <1>1, <2>1, <2>3, <3>1, <3>2 DEF WalkIsTrue
  <2>4. QED
    BY <2>2, <2>3
<1>3. QED
  BY <1>2 DEF VolumeLists

(* A walk begins before the first entry. *)
LEMMA StartsTrue ==
  ASSUME VolumeLists, Volume!StartWalk
  PROVE  VolumeLists'
<1>1. /\ walk' \in Tours /\ walk'.at = 0 /\ walk'.got = << >> /\ ~walk'.ended
      /\ walk'.due = {id \in FileIds : disk[id] # Absent}
      /\ order' = order /\ disk' = disk
  BY DEF Volume!StartWalk, Tours
<1>2. Len(order) \in Nat
  BY DEF VolumeLists, Entries
<1>3. WalkIsTrue'
  BY <1>1, <1>2 DEF WalkIsTrue, VolumeLists, Once
<1>4. QED
  BY <1>1, <1>3 DEF VolumeLists

(* A step of a walk gives the next id, which it has not given before. *)
LEMMA StepsTrue ==
  ASSUME VolumeLists, Volume!Step
  PROVE  VolumeLists'
<1> DEFINE there == {k \in Volume!Position + 1 .. Len(order) : order[k] \in FileIds}
           k == CHOOSE k \in there : \A j \in there : k <= j
<1>1. /\ order \in Entries /\ Len(order) \in Nat /\ DOMAIN order = 1 .. Len(order)
      /\ walk \in Tours /\ walk.at \in Nat /\ walk.got \in Seq(FileIds)
  BY DEF VolumeLists, Entries, Tours
<1>2. Volume!Position = walk.at
  BY DEF Volume!Position
<1>3. /\ ~walk.ended /\ order' = order /\ disk' = disk
      /\ \/ there = {} /\ walk' = [walk EXCEPT !.ended = TRUE]
         \/ /\ there # {}
            /\ walk' = [walk EXCEPT !.at = k, !.got = Append(@, order[k])]
  BY Zenon DEF Volume!Step
<1>4. there = {} \/ (k \in there /\ \A j \in there : k <= j)
  <2>1. there \subseteq Nat
    BY <1>1, <1>2
  <2>2. there # {} => \E x \in there : \A y \in there : x <= y
    BY <2>1, LeastNatural, Zenon
  <2>3. QED
    BY <2>2
<1>5. there = {x \in walk.at + 1 .. Len(order) : order[x] \in FileIds}
  BY <1>2
<1> HIDE DEF there, k
<1>6. CASE there = {} /\ walk' = [walk EXCEPT !.ended = TRUE]
  <2>1. /\ walk' \in Tours /\ walk'.got = walk.got /\ walk'.due = walk.due /\ walk'.ended
    BY <1>1, <1>6 DEF Tours
  <2>2. ASSUME walk.due # {}, NEW id \in walk.due PROVE Lists(walk.got, id)
    <3>1. WalkIsTrue
      BY <2>2 DEF VolumeLists
    <3>2. PICK j \in DOMAIN order : order[j] = id
      BY <1>3, <2>2, <3>1 DEF WalkIsTrue, Lists
    <3>3. id \in FileIds
      BY <1>1, <2>2 DEF Tours
    <3>4. j \in 1 .. walk.at
      BY <1>1, <1>5, <1>6, <3>2, <3>3
    <3>5. QED
      BY <1>3, <3>1, <3>2, <3>3, <3>4 DEF WalkIsTrue
  <2>3. walk'.due # {} => WalkIsTrue'
    BY <2>1, <2>2 DEF WalkIsTrue, VolumeLists
  <2>4. QED
    BY <1>3, <2>1, <2>3 DEF VolumeLists
<1>7. CASE there # {} /\ walk' = [walk EXCEPT !.at = k, !.got = Append(@, order[k])]
  <2>1. /\ k \in Nat /\ k > walk.at /\ k <= Len(order) /\ order[k] \in FileIds
        /\ k \in DOMAIN order
        /\ \A j \in there : k <= j
    BY <1>1, <1>4, <1>5, <1>7
  <2> DEFINE now == Append(walk.got, order[k])
             n == Len(walk.got)
  <2>2. /\ now \in Seq(FileIds) /\ DOMAIN now = 1 .. n + 1 /\ n \in Nat
        /\ DOMAIN walk.got = 1 .. n
        /\ \A i \in 1 .. n : now[i] = walk.got[i]
        /\ now[n + 1] = order[k]
    BY <1>1, <2>1
  <2> HIDE DEF now, n
  <2>3. walk' = [walk EXCEPT !.at = k, !.got = now]
    BY <1>7 DEF now
  <2>4. /\ walk' \in Tours /\ walk'.at = k /\ walk'.got = now /\ walk'.due = walk.due
        /\ ~walk'.ended
    BY <1>1, <1>3, <2>1, <2>2, <2>3 DEF Tours
  <2>5. ASSUME walk.due # {} PROVE WalkIsTrue'
    <3>1. /\ WalkIsTrue /\ Once(order)
          /\ \A m \in 1 .. n : \E j \in 1 .. walk.at : order[j] = walk.got[m]
      BY <1>3, <2>2, <2>5 DEF VolumeLists, WalkIsTrue
    <3>2. \A j \in 1 .. walk.at : j \in DOMAIN order /\ j # k /\ j \in 1 .. k
      BY <1>1, <2>1
    <3>3. \A m \in 1 .. n : now[m] # order[k]
      BY <2>1, <2>2, <3>1, <3>2 DEF Once
    <3>4. Once(now)
      <4>1. ASSUME NEW a \in DOMAIN now, NEW b \in DOMAIN now, now[a] = now[b] PROVE a = b
        <5>1. CASE a \in 1 .. n /\ b \in 1 .. n
          BY <2>2, <3>1, <4>1, <5>1 DEF WalkIsTrue, Once
        <5>2. CASE a = n + 1 \/ b = n + 1
          BY <2>2, <3>3, <4>1, <5>2
        <5>3. QED
          BY <2>2, <5>1, <5>2
      <4>2. QED
        BY <4>1 DEF Once
    <3>5. \A m \in DOMAIN now : \E j \in 1 .. k : order[j] = now[m]
      <4>1. k \in 1 .. k
        BY <1>1, <2>1
      <4>2. \A m \in 1 .. n : \E j \in 1 .. k : order[j] = now[m]
        BY <2>2, <3>1, <3>2
      <4>3. \A m \in DOMAIN now : m \in 1 .. n \/ m = n + 1
        BY <2>2
      <4>4. QED
        BY <2>2, <4>1, <4>2, <4>3
    <3>6. ASSUME NEW j \in 1 .. k, order[j] \in FileIds PROVE Lists(now, order[j])
      <4>1. CASE j \in 1 .. walk.at
        <5>1. PICK m \in 1 .. n : walk.got[m] = order[j]
          BY <1>3, <2>2, <3>1, <3>6, <4>1 DEF WalkIsTrue, Lists
        <5>2. m \in DOMAIN now /\ now[m] = order[j]
          BY <2>2, <5>1
        <5>3. QED
          BY <5>2 DEF Lists
      <4>2. CASE j = k
        <5>1. n + 1 \in DOMAIN now
          BY <2>2
        <5>2. QED
          BY <2>2, <4>2, <5>1 DEF Lists
      <4>3. CASE j > walk.at /\ j < k
        <5>1. j \in there
          BY <1>1, <1>5, <2>1, <3>6, <4>3
        <5>2. QED
          BY <2>1, <4>3, <5>1
      <4>4. QED
        BY <1>1, <2>1, <4>1, <4>2, <4>3
    <3>7. \A id \in walk.due : Lists(order, id)
      BY <1>3, <3>1 DEF WalkIsTrue
    <3>8. QED
      BY <1>3, <2>1, <2>4, <3>4, <3>5, <3>6, <3>7 DEF WalkIsTrue
  <2>6. QED
    BY <1>3, <2>4, <2>5 DEF VolumeLists
<1>8. QED
  BY <1>3, <1>6, <1>7

(* No call makes a walk of what is here untrue. *)
LEMMA ListsStep ==
  ASSUME VolumeBytes, VolumeLists, Volume!Next
  PROVE  VolumeLists'
<1>0. /\ order \in Entries /\ Once(order) /\ walk \in Tours
      /\ \A id \in FileIds : disk[id] # Absent => Lists(order, id)
  BY DEF VolumeLists
<1>1. \A ids \in SUBSET FileIds : \A id \in FileIds :
        Volume!DiskAfter(ids)[id] = Absent <=> disk[id] = Absent
  BY DiskAfterIs
<1>2. CASE \E id \in FileIds : Volume!Destroy(id)
  <2>1. PICK id \in FileIds : Volume!Destroy(id)
    BY <1>2
  <2>2. /\ walk' = Volume!Disturbed /\ order' = Volume!Without(order, id)
        /\ disk'[id] = Absent /\ \A x \in FileIds : x # id => disk'[x] = disk[x]
    BY <2>1 DEF Volume!Destroy, Volume!Left, VolumeBytes
  <2>3. /\ order' \in Entries /\ Once(order')
        /\ \A x : x # id /\ Lists(order, x) => Lists(order', x)
    BY <1>0, <2>2, WithoutIs
  <2>4. QED
    BY <1>0, <2>2, <2>3, DisturbedIs, GivenUp
<1>3. CASE Volume!Reopen
  <2>1. walk' \in Tours /\ walk'.due = {} /\ order' = order
    <3>1. /\ order' = order
          /\ walk' = [walk EXCEPT !.ended = TRUE, !.due = {}, !.got = << >>, !.at = 0]
      BY <1>3 DEF Volume!Reopen
    <3>2. << >> \in Seq(FileIds) /\ {} \in SUBSET FileIds /\ 0 \in Nat
      OBVIOUS
    <3>3. QED
      BY <1>0, <3>1, <3>2 DEF Tours
  <2>2. \A id \in FileIds : disk'[id] # Absent => Lists(order', id)
    BY <1>0, <1>1, <1>3, <2>1 DEF Volume!Reopen
  <2>3. QED
    BY <1>0, <2>1, <2>2, GivenUp
<1>4. CASE \E id \in FileIds, total \in 1 .. MaxTotal : Volume!Create(id, total)
  <2>1. PICK id \in FileIds : /\ walk' = walk /\ order' = Volume!Entered(id)
                              /\ disk' = [Volume!DiskAfter(FileIds) EXCEPT ![id] = << >>]
    BY <1>4 DEF Volume!Create
  <2>2. Volume!Contains(order, id) <=> Lists(order, id)
    BY <1>0 DEF Volume!Contains, Lists, Entries
  <2>3. order' = order \/ (~Lists(order, id) /\ order' = Append(order, id))
    BY <2>1, <2>2 DEF Volume!Entered
  <2>4. /\ order' \in Entries /\ Once(order') /\ Lists(order', id)
        /\ \A x : Lists(order, x) => Lists(order', x)
    BY <1>0, <2>1, <2>2, <2>3, AppendedIs DEF Volume!Entered
  <2>5. \A x \in FileIds : x # id /\ disk'[x] # Absent => disk[x] # Absent
    BY <1>1, <2>1
  <2>6. \A x \in FileIds : disk'[x] # Absent => Lists(order', x)
    BY <1>0, <2>4, <2>5
  <2>7. QED
    BY <2>1, <2>3, <2>4, <2>6, WalkStays
<1>5. CASE \E from, to \in FileIds : Volume!Rename(from, to)
  <2>1. PICK from \in FileIds, to \in FileIds : Volume!Rename(from, to)
    BY <1>5
  <2> DEFINE D == Volume!DiskAfter({from, to})
             left == Volume!Without(order, to)
             rest == Volume!Without(left, from)
  <2>2. /\ left \in Entries /\ Once(left) /\ ~Lists(left, to)
        /\ \A x : x # to /\ Lists(order, x) => Lists(left, x)
    BY <1>0, WithoutIs
  <2>3. /\ rest \in Entries /\ Once(rest) /\ ~Lists(rest, to)
        /\ \A x : x \notin {from, to} /\ Lists(order, x) => Lists(rest, x)
    <3> HIDE DEF left
    <3>1. /\ rest \in Entries /\ Once(rest)
          /\ \A x : x # from /\ Lists(left, x) => Lists(rest, x)
          /\ \A x : Lists(rest, x) => Lists(left, x)
      BY <2>2, WithoutIs
    <3> HIDE DEF rest
    <3>2. QED
      BY <2>2, <3>1
  <2>4. /\ walk' = Volume!Disturbed
        /\ \/ /\ disk' = [D EXCEPT ![to] = D[from], ![from] = Absent]
              /\ from # to /\ order' = Append(rest, to)
           \/ disk' = D /\ order' = order
           \/ disk' = [D EXCEPT ![to] = Absent] /\ order' = left
    BY <2>1 DEF Volume!Rename, Volume!Left, Volume!Moves
  <2>5. /\ D \in [FileIds -> VolumeFiles \cup {Absent}]
        /\ \A x \in FileIds : D[x] = Absent <=> disk[x] = Absent
    BY DiskAfterIs
  <2> HIDE DEF D, left, rest
  <2>6. /\ order' \in Entries /\ Once(order')
        /\ \A x \in FileIds : disk'[x] # Absent => Lists(order', x)
    <3>1. CASE /\ disk' = [D EXCEPT ![to] = D[from], ![from] = Absent]
               /\ from # to /\ order' = Append(rest, to)
      <4>1. /\ order' \in Entries /\ Once(order') /\ Lists(order', to)
            /\ \A x : Lists(rest, x) => Lists(order', x)
        BY <2>3, <3>1, AppendedIs
      <4>2. /\ disk'[from] = Absent
            /\ \A x \in FileIds : x \notin {from, to} => disk'[x] = D[x]
        BY <2>5, <3>1
      <4>3. ASSUME NEW x \in FileIds, disk'[x] # Absent PROVE Lists(order', x)
        BY <1>0, <2>3, <2>5, <4>1, <4>2, <4>3
      <4>4. QED
        BY <4>1, <4>3
    <3>2. CASE disk' = D /\ order' = order
      BY <1>0, <2>5, <3>2
    <3>3. CASE disk' = [D EXCEPT ![to] = Absent] /\ order' = left
      <4>1. disk'[to] = Absent /\ \A x \in FileIds : x # to => disk'[x] = D[x]
        BY <2>5, <3>3
      <4>2. QED
        BY <1>0, <2>2, <2>5, <3>3, <4>1
    <3>4. QED
      BY <2>4, <3>1, <3>2, <3>3
  <2>7. QED
    BY <2>4, <2>6, DisturbedIs, GivenUp
<1>6. CASE \/ \E id \in FileIds : Volume!CreateFails(id) \/ Volume!Complete(id)
           \/ \E from, to \in FileIds : Volume!RenameRefused(from, to)
           \/ \E id \in FileIds, off \in 0 .. MaxTotal - 1, data \in Volume!Data :
                Volume!Write(id, off, data)
           \/ \E id \in FileIds, off \in 0 .. MaxTotal - 1, n \in 1 .. MaxTotal :
                Volume!Read(id, off, n)
           \/ Volume!Drains
  <2>1. walk' = walk /\ order' = order
    BY <1>6 DEF Volume!CreateFails, Volume!Complete, Volume!RenameRefused, Volume!Write,
       Volume!Read, Volume!Drains, Volume!Refuse
  <2>2. \A id \in FileIds : disk'[id] # Absent => disk[id] # Absent
    <3>1. CASE Volume!Drains
      BY <3>1, VolumeShows DEF Volume!Drains
    <3>2. CASE disk' = disk
      BY <3>2
    <3>3. CASE \E ids \in SUBSET FileIds : disk' = Volume!DiskAfter(ids)
      BY <1>1, <3>3
    <3>4. \/ Volume!Drains \/ disk' = disk
          \/ \E ids \in SUBSET FileIds : disk' = Volume!DiskAfter(ids)
      <4>1. \A id \in FileIds : {id} \in SUBSET FileIds
        OBVIOUS
      <4>2. QED
        BY <1>6, <4>1, Zenon DEF Volume!CreateFails, Volume!Complete, Volume!RenameRefused,
           Volume!Write, Volume!Taken, Volume!Read, Volume!Refuse
    <3>5. QED
      BY <3>1, <3>2, <3>3, <3>4
  <2>3. QED
    BY <1>0, <2>1, <2>2, WalkStays
<1>7. CASE Volume!StartWalk \/ Volume!Step
  BY <1>7, StartsTrue, StepsTrue
<1>8. QED
  BY <1>2, <1>3, <1>4, <1>5, <1>6, <1>7
  DEF Volume!Next, Volume!Handles, Volume!ByteCalls, Volume!Walks

VolumeInv == VolumeBytes /\ VolumeTells /\ VolumeLists

(* In every state the handles are on the files they are said to be on, a file *)
(* whose writer was let finish is as long as was asked for, and a walk nothing *)
(* was taken from has given the entries up to where it is. *)
THEOREM VolumeAlwaysTells == UploadsSpec => []VolumeInv
<1>1. UploadsInit => VolumeInv
  <2>1. Volume!Init => VolumeTells
    BY NoFileIs DEF Volume!Init, VolumeTells
  <2>2. QED
    BY <2>1, VolumeStarts, ListsStarts DEF UploadsInit, VolumeInv
<1>2. VolumeInv /\ UNCHANGED handleVars => VolumeInv'
  <2> SUFFICES ASSUME VolumeInv, UNCHANGED handleVars PROVE VolumeInv'
    OBVIOUS
  <2>1. VolumeBytes'
    BY VolumeStutters DEF VolumeInv, handleVars
  <2>2. VolumeTells'
    BY DEF VolumeInv, VolumeTells, handleVars
  <2>3. VolumeLists'
    BY DEF VolumeInv, VolumeLists, WalkIsTrue, handleVars
  <2>4. QED
    BY <2>1, <2>2, <2>3 DEF VolumeInv
<1>3. VolumeInv /\ [UploadsNext]_all => VolumeInv'
  BY <1>2, VolumeAlone, VolumeStep, TellsStep, ListsStep DEF VolumeInv
<1>4. QED
  BY <1>1, <1>3, PTL DEF UploadsSpec

(* A file is said to be complete only with everything that was asked for, a  *)
(* chunk is claimed with all its bytes, and a walk gives each file once      *)
(* (HandlesAreExact follows from the invariant). *)
THEOREM VolumeStaysExact == VolumeInv => Volume!HandlesAreExact
<1> SUFFICES ASSUME VolumeInv PROVE Volume!HandlesAreExact
  OBVIOUS
<1>1. ASSUME NEW id \in FileIds, Volume!Flushed[id] # Absent, ~was[id].cut
      PROVE  /\ was[id].told => Len(Volume!Flushed[id]) = was[id].asked
             /\ \A c \in 0 .. MaxTotal :
                  Volume!Have(id, c) => \A o \in c * Chunk .. (c + 1) * Chunk - 1 :
                                   o < was[id].asked => o < Len(Volume!Flushed[id])
  <2> DEFINE held == Volume!Stat(id).held
             total == Volume!Stat(id).total
             len == Len(Volume!Flushed[id])
  <2>1. disk[id] # Absent /\ Volume!Flushed[id] \in VolumeFiles /\ len \in Nat
    <3>1. disk[id] # Absent /\ Volume!Flushed[id] \in VolumeFiles
      BY <1>1, VolumeShows DEF VolumeInv
    <3>2. QED
      BY <3>1 DEF VolumeFiles, ByteSeqs
  <2>2. held = len /\ total = was[id].asked
    <3>1. CASE wr.id = id
      BY <1>1, <2>1, <3>1, VolumeShows DEF VolumeInv, VolumeTells, Volume!Stat
    <3>2. CASE wr.id # id
      BY <1>1, <2>1, <3>2, VolumeShows DEF VolumeInv, VolumeTells, Volume!Stat
    <3>3. QED
      BY <3>1, <3>2
  <2>3. was[id].told => len = was[id].asked
    <3>1. was[id].told => wr.id # id
      BY <1>1, <2>1 DEF VolumeInv, VolumeTells
    <3>2. QED
      BY <1>1, <2>1, <3>1, VolumeShows DEF VolumeInv, VolumeTells
  <2>4. \A c \in 0 .. MaxTotal : Volume!Have(id, c) =>
          (c + 1) * Chunk <= held \/ held = total
    BY DEF Volume!Have
  <2> HIDE DEF held, total, len
  <2>5. ASSUME NEW c \in 0 .. MaxTotal, Volume!Have(id, c),
               NEW o \in c * Chunk .. (c + 1) * Chunk - 1, o < was[id].asked
        PROVE  o < len
    <3>1. (c + 1) * Chunk \in Int /\ c * Chunk \in Int
      <4>1. c \in Nat /\ Chunk \in Nat
        BY VolumeGiven
      <4>2. QED
        BY <4>1
    <3>2. o \in Int /\ o <= (c + 1) * Chunk - 1
      BY <3>1
    <3>3. QED
      BY <2>1, <2>2, <2>4, <2>5, <3>1, <3>2
  <2>6. QED
    BY <2>3, <2>5 DEF len
<1>2. Volume!IsInjective(walk.got) \/ walk.due = {}
  BY DEF VolumeInv, VolumeLists, WalkIsTrue, Once, Volume!IsInjective
<1>3. walk.ended => walk.due \subseteq {walk.got[n] : n \in DOMAIN walk.got}
  BY DEF VolumeInv, VolumeLists, WalkIsTrue, Lists
<1>4. QED
  BY <1>1, <1>2, <1>3, Zenon DEF Volume!HandlesAreExact

(* Whichever backend is under the store, and for any number of files, sizes  *)
(* and calls, bytes are read back as they were written or not at all, and    *)
(* what it says of a file is true of the bytes.                              *)
THEOREM BackendsAlwaysServe == UploadsSpec => BackendsServe
<1>1. UploadsInit => RamInv
  BY RamStarts DEF UploadsInit
<1>2. RamInv /\ [UploadsNext]_all => RamInv'
  BY RamAlone, RamStep, RamStutters
<1>3. RamInv => (scenario = "ram" => Ram!RamIsExact)
  BY RamStaysExact
<1>4. VolumeInv => (scenario \in {"bytes", "walk"} => Volume!HandlesAreExact)
  BY VolumeStaysExact
<1>5. QED
  BY <1>1, <1>2, <1>3, <1>4, RamKeepsTheSeam, VolumeKeepsTheSeam, VolumeAlwaysTells, PTL
  DEF UploadsSpec, BackendsServe
=============================================================================
