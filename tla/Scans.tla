-------------------------------- MODULE Scans --------------------------------
(***************************************************************************)
(* The loop by which this code picks a slot, an entry or a record: from    *)
(* the first place to the last, keeping the better one so far.  Which      *)
(* places are eligible is a set, which of two is better a set of pairs, so *)
(* that what the loop ends with can be proved once, for all of them.       *)
(***************************************************************************)
EXTENDS Integers, WellFoundedInduction, TLAPS

(* The place kept after the last one, of equals the first; 0 when none was   *)
(* eligible.                                                                 *)
FirstBest(last, Eligible, Better) ==
  LET best[i \in 0 .. last] ==
        IF i = 0 THEN 0
        ELSE IF /\ i \in Eligible
                /\ best[i - 1] = 0 \/ <<i, best[i - 1]>> \in Better
               THEN i ELSE best[i - 1]
  IN best[last]

-----------------------------------------------------------------------------
(* A set of naturals that is not empty has a least element. *)
LEMMA LeastNatural ==
  ASSUME NEW T, T \subseteq Nat, T # {}
  PROVE  \E x \in T : \A y \in T : x <= y
<1>1. PICK x \in T : \A y \in T : <<y, x>> \notin OpToRel(<, Nat)
  BY NatLessThanWellFounded, WFMin, Zenon
<1>2. ASSUME NEW y \in T
      PROVE  x <= y
  <2>1. x \in Nat /\ y \in Nat
    OBVIOUS
  <2>2. y < x => <<y, x>> \in OpToRel(<, Nat)
    BY <2>1 DEF OpToRel
  <2>3. ~(y < x)
    BY <1>1, <2>2, Zenon
  <2>4. QED
    BY <2>1, <2>3
<1>3. QED
  BY <1>2, Zenon

(* Counting up to n proves what holds of 0 and passes from each number to    *)
(* the next: Q is the set of those of which it holds.                        *)
LEMMA CountingUp ==
  ASSUME NEW n \in Nat, NEW Q, 0 \in Q,
         \A i \in 1 .. n : i - 1 \in Q => i \in Q
  PROVE  \A i \in 0 .. n : i \in Q
<1> DEFINE T == {i \in 0 .. n : i \notin Q}
<1>1. SUFFICES ASSUME T # {} PROVE FALSE
  OBVIOUS
<1>2. T \subseteq Nat
  OBVIOUS
<1>3. PICK m \in T : \A y \in T : m <= y
  BY <1>1, <1>2, LeastNatural, Zenon
<1>4. m \in 1 .. n /\ m - 1 \in 0 .. n /\ m - 1 < m
  OBVIOUS
<1>5. m - 1 \in Q
  BY <1>3, <1>4
<1>6. QED
  BY <1>4, <1>5

(* A walk of n places is defined by its steps: step[i, b] is what it has at  *)
(* place i when it had b before.                                             *)
Walks(f, n, first, step) ==
  f[0] = first /\ \A i \in 1 .. n : f[i] = step[<<i, f[i - 1]>>]

(* Every place takes what is in one set to the next. *)
Leads(n, T, step) == \A i \in 1 .. n : \A b \in T[i - 1] : step[<<i, b>>] \in T[i]

(* There is such a walk, and it stays in those sets. *)
LEMMA WalkReaches ==
  ASSUME NEW n \in Nat, NEW T, NEW first, first \in T[0], NEW step, Leads(n, T, step)
  PROVE  \E f : /\ f = [i \in 0 .. n |-> f[i]]
                /\ Walks(f, n, first, step)
                /\ \A i \in 0 .. n : f[i] \in T[i]
<1> DEFINE Walk(f, k) == f = [i \in 0 .. k |-> IF i = 0 THEN first
                                               ELSE step[<<i, f[i - 1]>>]]
           Q == {k \in 0 .. n : \E f : Walk(f, k)}
<1>1. 0 \in Q
  <2> DEFINE f == [i \in 0 .. 0 |-> first]
  <2>1. Walk(f, 0)
    OBVIOUS
  <2>2. \E h : Walk(h, 0)
    BY <2>1, Zenon
  <2>3. QED
    BY <2>2
<1>2. ASSUME NEW k \in 1 .. n, k - 1 \in Q
      PROVE  k \in Q
  <2>0. \E f : Walk(f, k - 1)
    BY <1>2
  <2>1. PICK f : Walk(f, k - 1)
    BY <2>0, Zenon
  <2> DEFINE g == [i \in 0 .. k |-> IF i = k THEN step[<<k, f[k - 1]>>] ELSE f[i]]
  <2>2. \A i \in 0 .. k - 1 : g[i] = f[i]
    OBVIOUS
  <2>3. \A i \in 0 .. k - 1 : f[i] = IF i = 0 THEN first ELSE step[<<i, f[i - 1]>>]
    BY <2>1
  <2>4. ASSUME NEW i \in 0 .. k
        PROVE  g[i] = IF i = 0 THEN first ELSE step[<<i, g[i - 1]>>]
    <3>1. CASE i = k
      <4>1. g[k] = step[<<k, f[k - 1]>>] /\ k \in Nat /\ k # 0 /\ k - 1 \in 0 .. k - 1
        OBVIOUS
      <4>2. f[k - 1] = g[k - 1]
        BY <2>2, <4>1
      <4>3. QED
        BY <3>1, <4>1, <4>2, Zenon
    <3>2. CASE i # k
      <4>1. i \in 0 .. k - 1
        BY <3>2
      <4>2. i # 0 => i - 1 \in 0 .. k - 1
        BY <4>1
      <4>3. QED
        BY <2>2, <2>3, <4>1, <4>2, Zenon
    <3>3. QED
      BY <3>1, <3>2
  <2>5. Walk(g, k)
    BY <2>4
  <2>6. \E h : Walk(h, k)
    BY <2>5, Zenon
  <2>7. QED
    BY <2>6
<1>3. n \in Q
  <2> HIDE DEF Q
  <2>1. \A k \in 0 .. n : k \in Q
    BY <1>1, <1>2, CountingUp
  <2>2. QED
    BY <2>1
<1>4. PICK f : Walk(f, n)
  BY <1>3
<1>5. f[0] = first /\ \A i \in 1 .. n : f[i] = step[<<i, f[i - 1]>>]
  <2>1. 0 \in 0 .. n /\ \A i \in 1 .. n : i \in 0 .. n /\ i # 0
    OBVIOUS
  <2>2. \A i \in 0 .. n : f[i] = IF i = 0 THEN first ELSE step[<<i, f[i - 1]>>]
    BY <1>4, Zenon
  <2>3. QED
    BY <2>1, <2>2, Zenon
<1>6. \A i \in 0 .. n : f[i] \in T[i]
  <2> DEFINE R == {i \in 0 .. n : f[i] \in T[i]}
  <2>1. 0 \in R
    BY <1>5
  <2>2. ASSUME NEW i \in 1 .. n, i - 1 \in R
        PROVE  i \in R
    <3>1. f[i] = step[<<i, f[i - 1]>>] /\ f[i - 1] \in T[i - 1]
      BY <1>5, <2>2
    <3>2. f[i] \in T[i]
      BY <3>1 DEF Leads
    <3>3. QED
      BY <3>2
  <2> HIDE DEF R
  <2>3. \A i \in 0 .. n : i \in R
    BY <2>1, <2>2, CountingUp
  <2>4. QED
    BY <2>3 DEF R
<1>7. f = [i \in 0 .. n |-> f[i]]
  BY <1>4, Zenon
<1>8. QED
  BY <1>5, <1>6, <1>7, Zenon DEF Walks

(* What the loop keeps after each place, by its own definition. *)
LEMMA FirstBestWalks ==
  ASSUME NEW n \in Nat, NEW P, NEW B
  PROVE  \E f : /\ f[0] = 0
                /\ \A i \in 1 .. n :
                     f[i] = IF i \in P /\ (f[i - 1] = 0 \/ <<i, f[i - 1]>> \in B)
                              THEN i ELSE f[i - 1]
                /\ FirstBest(n, P, B) = f[n]
<1> DEFINE step == [p \in (1 .. n) \X (0 .. n) |->
                      IF p[1] \in P /\ (p[2] = 0 \/ p \in B) THEN p[1] ELSE p[2]]
           Walk(f) == f = [i \in 0 .. n |->
                        IF i = 0 THEN 0
                        ELSE IF i \in P /\ (f[i - 1] = 0 \/ <<i, f[i - 1]>> \in B)
                               THEN i ELSE f[i - 1]]
<1>0. \A i \in 1 .. n, b \in 0 .. n :
        /\ step[<<i, b>>] = IF i \in P /\ (b = 0 \/ <<i, b>> \in B) THEN i ELSE b
        /\ step[<<i, b>>] \in 0 .. n
  OBVIOUS
<1> HIDE DEF step
<1>1. PICK f : /\ f = [i \in 0 .. n |-> f[i]]
               /\ f[0] = 0 /\ \A i \in 1 .. n : f[i] = step[<<i, f[i - 1]>>]
               /\ \A i \in 0 .. n : f[i] \in 0 .. n
  <2> DEFINE T == [i \in 0 .. n |-> 0 .. n]
  <2>1. 0 \in T[0] /\ \A i \in 0 .. n : T[i] = 0 .. n
    OBVIOUS
  <2> HIDE DEF T
  <2>2. Leads(n, T, step)
    <3> SUFFICES ASSUME NEW i \in 1 .. n, NEW b \in T[i - 1]
                 PROVE  step[<<i, b>>] \in T[i]
      BY DEF Leads
    <3>1. i \in 0 .. n /\ i - 1 \in 0 .. n
      OBVIOUS
    <3>2. b \in 0 .. n /\ T[i] = 0 .. n
      BY <2>1, <3>1
    <3>3. QED
      BY <1>0, <3>2
  <2>3. PICK f : /\ f = [i \in 0 .. n |-> f[i]]
                 /\ Walks(f, n, 0, step)
                 /\ \A i \in 0 .. n : f[i] \in T[i]
    BY <2>1, <2>2, WalkReaches, Zenon
  <2>4. \A i \in 0 .. n : f[i] \in 0 .. n
    BY <2>1, <2>3
  <2>5. QED
    BY <2>3, <2>4, Zenon DEF Walks
<1>4. \A i \in 1 .. n :
        f[i] = IF i \in P /\ (f[i - 1] = 0 \/ <<i, f[i - 1]>> \in B)
                 THEN i ELSE f[i - 1]
  <2> SUFFICES ASSUME NEW i \in 1 .. n
               PROVE  f[i] = IF i \in P /\ (f[i - 1] = 0 \/ <<i, f[i - 1]>> \in B)
                               THEN i ELSE f[i - 1]
    OBVIOUS
  <2>1. f[i - 1] \in 0 .. n
    BY <1>1
  <2>2. QED
    BY <1>0, <1>1, <2>1, Zenon
<1>5. Walk(f)
  <2>1. \A i \in 0 .. n : i # 0 => i \in 1 .. n
    OBVIOUS
  <2>2. f = [i \in 0 .. n |-> f[i]]
    BY <1>1, Zenon
  <2>3. \A i \in 0 .. n :
          f[i] = IF i = 0 THEN 0
                 ELSE IF i \in P /\ (f[i - 1] = 0 \/ <<i, f[i - 1]>> \in B)
                        THEN i ELSE f[i - 1]
    BY <1>1, <1>4, <2>1, Zenon
  <2>4. QED
    BY <2>2, <2>3
<1> DEFINE g == CHOOSE h : Walk(h)
<1>6. Walk(g) /\ FirstBest(n, P, B) = g[n]
  BY <1>5 DEF FirstBest
<1> HIDE DEF g
<1>7. /\ g[0] = 0
      /\ \A i \in 1 .. n :
           g[i] = IF i \in P /\ (g[i - 1] = 0 \/ <<i, g[i - 1]>> \in B)
                    THEN i ELSE g[i - 1]
  <2>1. 0 \in 0 .. n /\ \A i \in 1 .. n : i \in 0 .. n /\ i # 0
    OBVIOUS
  <2>2. \A i \in 0 .. n :
          g[i] = IF i = 0 THEN 0
                 ELSE IF i \in P /\ (g[i - 1] = 0 \/ <<i, g[i - 1]>> \in B)
                        THEN i ELSE g[i - 1]
    BY <1>6, Zenon
  <2>3. QED
    BY <2>1, <2>2, Zenon
<1>8. QED
  BY <1>6, <1>7

(* It ends with an eligible place whenever there is one. *)
THEOREM FirstBestPicks ==
  ASSUME NEW n \in Nat, NEW P \in SUBSET (1 .. n), NEW B
  PROVE  /\ FirstBest(n, P, B) \in P \union {0}
         /\ FirstBest(n, P, B) = 0 <=> P = {}
<1>1. PICK f : /\ f[0] = 0
               /\ \A i \in 1 .. n :
                    f[i] = IF i \in P /\ (f[i - 1] = 0 \/ <<i, f[i - 1]>> \in B)
                             THEN i ELSE f[i - 1]
               /\ FirstBest(n, P, B) = f[n]
  BY FirstBestWalks
<1> DEFINE Q == {i \in 0 .. n : /\ f[i] \in P \union {0}
                                /\ f[i] = 0 => \A j \in P : j > i}
<1>2. 0 \in Q
  BY <1>1
<1>3. ASSUME NEW i \in 1 .. n, i - 1 \in Q
      PROVE  i \in Q
  <2>1. /\ f[i - 1] \in P \union {0}
        /\ f[i - 1] = 0 => \A j \in P : j > i - 1
    BY <1>3
  <2>2. f[i] = IF i \in P /\ (f[i - 1] = 0 \/ <<i, f[i - 1]>> \in B)
                 THEN i ELSE f[i - 1]
    BY <1>1
  <2>3. f[i] \in P \union {0} /\ (f[i] = 0 => f[i - 1] = 0 /\ i \notin P)
    BY <2>1, <2>2
  <2>4. f[i] = 0 => \A j \in P : j > i
    BY <2>1, <2>3
  <2>5. QED
    BY <2>3, <2>4
<1>4. n \in Q
  <2> HIDE DEF Q
  <2>1. \A i \in 0 .. n : i \in Q
    BY <1>2, <1>3, CountingUp
  <2>2. QED
    BY <2>1
<1>5. /\ f[n] \in P \union {0}
      /\ f[n] = 0 => \A j \in P : j > n
  BY <1>4
<1>6. \A j \in P : j # 0 /\ ~(j > n)
  OBVIOUS
<1>7. f[n] = 0 <=> P = {}
  BY <1>5, <1>6
<1>8. QED
  BY <1>1, <1>5, <1>7

(* When a smaller key is better, and what is better has no greater one, no   *)
(* eligible place has a smaller key than the place it ends with.             *)
THEOREM FirstBestIsBest ==
  ASSUME NEW n \in Nat, NEW P \in SUBSET (1 .. n), NEW B, NEW key \in [P -> Int],
         \A i, j \in P : /\ key[i] < key[j] => <<i, j>> \in B
                         /\ <<i, j>> \in B => key[i] <= key[j]
  PROVE  \A j \in P : key[FirstBest(n, P, B)] <= key[j]
<1>1. PICK f : /\ f[0] = 0
               /\ \A i \in 1 .. n :
                    f[i] = IF i \in P /\ (f[i - 1] = 0 \/ <<i, f[i - 1]>> \in B)
                             THEN i ELSE f[i - 1]
               /\ FirstBest(n, P, B) = f[n]
  BY FirstBestWalks
<1>2. \A j \in P : key[j] \in Int /\ j \in 1 .. n
  OBVIOUS
<1> DEFINE Q == {i \in 0 .. n : /\ f[i] \in P \union {0}
                                /\ f[i] = 0 => \A j \in P : j > i
                                /\ f[i] # 0 => \A j \in P : j <= i => key[f[i]] <= key[j]}
<1>3. 0 \in Q
  BY <1>1, <1>2
<1>4. ASSUME NEW i \in 1 .. n, i - 1 \in Q
      PROVE  i \in Q
  <2>1. /\ f[i - 1] \in P \union {0}
        /\ f[i - 1] = 0 => \A j \in P : j > i - 1
        /\ f[i - 1] # 0 => \A j \in P : j <= i - 1 => key[f[i - 1]] <= key[j]
    BY <1>4
  <2>2. f[i] = IF i \in P /\ (f[i - 1] = 0 \/ <<i, f[i - 1]>> \in B)
                 THEN i ELSE f[i - 1]
    BY <1>1
  <2>3. i \in 0 .. n /\ i # 0 /\ \A j \in P : j <= i <=> j <= i - 1 \/ j = i
    BY <1>2
  <2>4. CASE i \in P /\ (f[i - 1] = 0 \/ <<i, f[i - 1]>> \in B)
    <3>1. f[i] = i
      BY <2>2, <2>4
    <3>2. \A j \in P : j <= i => key[i] <= key[j]
      <4>1. CASE f[i - 1] = 0
        BY <1>2, <2>1, <2>4, <4>1
      <4>2. CASE f[i - 1] # 0
        <5>1. f[i - 1] \in P /\ key[i] <= key[f[i - 1]]
          BY <2>1, <2>4, <4>2
        <5>2. ASSUME NEW j \in P, j <= i
              PROVE  key[i] <= key[j]
          <6>1. j = i \/ key[f[i - 1]] <= key[j]
            BY <2>1, <2>3, <4>2, <5>2
          <6>2. key[i] \in Int /\ key[f[i - 1]] \in Int /\ key[j] \in Int
            BY <1>2, <2>4, <5>1
          <6>3. CASE j = i
            BY <6>2, <6>3
          <6>4. CASE key[f[i - 1]] <= key[j]
            BY <5>1, <6>2, <6>4
          <6>5. QED
            BY <6>1, <6>3, <6>4
        <5>3. QED
          BY <5>2
      <4>3. QED
        BY <4>1, <4>2
    <3>3. QED
      BY <2>3, <2>4, <3>1, <3>2
  <2>5. CASE i \notin P
    BY <1>2, <2>1, <2>2, <2>3, <2>5
  <2>6. CASE i \in P /\ f[i - 1] # 0 /\ <<i, f[i - 1]>> \notin B
    <3>1. f[i - 1] \in P /\ f[i - 1] # 0 /\ f[i] = f[i - 1]
      BY <2>1, <2>2, <2>6
    <3>2. key[i] \in Int /\ key[f[i - 1]] \in Int /\ ~(key[i] < key[f[i - 1]])
      BY <1>2, <2>6, <3>1
    <3>3. key[f[i - 1]] <= key[i]
      BY <3>2
    <3>4. QED
      BY <2>1, <2>3, <3>1, <3>3
  <2>7. QED
    BY <2>4, <2>5, <2>6
<1>5. n \in Q
  <2> HIDE DEF Q
  <2>1. \A i \in 0 .. n : i \in Q
    BY <1>3, <1>4, CountingUp
  <2>2. QED
    BY <2>1
<1>6. QED
  BY <1>1, <1>2, <1>5

=============================================================================
