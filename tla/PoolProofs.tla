----------------------------- MODULE PoolProofs -----------------------------
(***************************************************************************)
(* Theorems about the memory of the runtime.  For any number of slabs, any *)
(* cell sizes and any number of dropping harts: every cell of a pool that  *)
(* was ever carved has one referrer, through exchanges, pushes that race   *)
(* them and pushes that have to try again.  For any number of actors,      *)
(* slabs and roots: a slab goes back to the buddy exactly when nobody can  *)
(* touch it any more.  For any objects and hash: the table of what they    *)
(* share is a map from objects to counts.                                  *)
(***************************************************************************)
EXTENDS Pool, Arc, ArcTable, FiniteSetTheorems, SequenceTheorems, WellFoundedInduction, TLAPS

(* A set of naturals that is not empty has a least element. *)
LEMMA LeastNat ==
  ASSUME NEW S, S \subseteq Nat, S # {}
  PROVE  \E n \in S : \A m \in S : n <= m
<1>1. PICK R : R = {ss \in Nat \X Nat : ss[1] < ss[2]}
  OBVIOUS
<1>2. IsWellFoundedOn(R, Nat)
  BY <1>1, NatLessThanWellFounded DEF OpToRel
<1>3. PICK x \in S : \A y \in S : ~ (<<y, x>> \in R)
  BY <1>2, WFMin
<1>4. ASSUME NEW y \in S, ~ (x <= y) PROVE FALSE
  <2>1. <<y, x>> \in Nat \X Nat /\ y < x
    BY <1>4
  <2>2. <<y, x>>[1] < <<y, x>>[2]
    BY <2>1
  <2>3. <<y, x>> \in R
    BY ONLY <1>1, <2>1, <2>2
  <2> QED BY <1>3, <2>3
<1> QED BY <1>4
(* Induction, on the set of those for which a fact holds. *)
LEMMA UpTo ==
  ASSUME NEW S, NEW c \in Nat, 0 \in S, \A n \in Nat : n \in S /\ n < c => n + 1 \in S
  PROVE  \A n \in 0 .. c : n \in S
<1> SUFFICES ASSUME (0 .. c) \ S # {} PROVE FALSE
  OBVIOUS
<1>1. PICK n \in (0 .. c) \ S : \A m \in (0 .. c) \ S : n <= m
  <2>1. (0 .. c) \ S \subseteq Nat
    OBVIOUS
  <2> QED BY <2>1, LeastNat
<1>2. n # 0 /\ n - 1 \in 0 .. c /\ n - 1 < n
  BY <1>1
<1>3. n - 1 \in S
  BY <1>1, <1>2
<1> QED BY <1>1, <1>2, <1>3
LEMMA FirstOf ==
  ASSUME NEW S, S \subseteq Nat, S # {}
  PROVE  First(S) \in S /\ \A m \in S : First(S) <= m
BY LeastNat DEF First

(* The walk of a probe visits every slot once. *)
LEMMA DivMod ==
  ASSUME NEW a \in Int, NEW n \in Nat \ {0}
  PROVE a \div n \in Int /\ a % n \in 0 .. n-1 /\ a = n * (a \div n) + (a % n)
BY ONLY a \in Int, n \in Nat \ {0}
LEMMA Multiple ==
  ASSUME NEW n \in Nat \ {0}, NEW q \in Int, NEW d \in Int, d = n * q, -n < d, d < n
  PROVE  d = 0
<1>1. CASE q >= 1
  <2>1. n * q >= n * 1
    BY <1>1
  <2> QED BY <2>1
<1>2. CASE q <= -1
  <2>1. n * q <= n * (-1)
    BY <1>2
  <2> QED BY <2>1
<1>3. CASE q = 0
  BY <1>3
<1> QED BY <1>1, <1>2, <1>3
LEMMA Walk ==
  ASSUME Hash \in [Objects -> Nat], NEW o \in Objects, NEW c \in Nat \ {0}
  PROVE  /\ \A n \in Nat : Slot(o, n, c) \in 0 .. c - 1
         /\ \A n, m \in 0 .. c - 1 : Slot(o, n, c) = Slot(o, m, c) => n = m
         /\ \A i \in 0 .. c - 1 : \E n \in 0 .. c - 1 : Slot(o, n, c) = i
<1>1. PICK h \in Nat : h = Hash[o]
  OBVIOUS
<1>2. PICK q \in Int, r \in 0 .. c - 1 : h = c * q + r /\ h % c = r
  <2>1. h \in Int
    OBVIOUS
  <2> QED BY <2>1, DivMod
<1>3. \A n \in Nat : Slot(o, n, c) = (h + n) % c
  BY <1>1 DEF Slot
<1>4. \A n \in Nat : Slot(o, n, c) \in 0 .. c - 1
  <2> SUFFICES ASSUME NEW n \in Nat PROVE (h + n) % c \in 0 .. c - 1
    BY <1>3
  <2>1. h + n \in Int
    OBVIOUS
  <2> QED BY <2>1, DivMod
<1>5. ASSUME NEW n \in 0 .. c - 1, NEW m \in 0 .. c - 1, Slot(o, n, c) = Slot(o, m, c) PROVE n = m
  <2>1. PICK q1 \in Int, r1 \in 0 .. c - 1 : h + n = c * q1 + r1 /\ (h + n) % c = r1
    <3>1. h + n \in Int /\ h + m \in Int
      OBVIOUS
    <3> QED BY <3>1, DivMod
  <2>2. PICK q2 \in Int, r2 \in 0 .. c - 1 : h + m = c * q2 + r2 /\ (h + m) % c = r2
    <3>1. h + n \in Int /\ h + m \in Int
      OBVIOUS
    <3> QED BY <3>1, DivMod
  <2>3. r1 = r2
    BY <1>3, <1>5, <2>1, <2>2
  <2>4. c * (q1 - q2) = c * q1 - c * q2
    OBVIOUS
  <2>5. n - m = c * (q1 - q2)
    BY <2>1, <2>2, <2>3, <2>4
  <2>6. n - m = 0
    BY <2>5, Multiple
  <2> QED BY <2>6
<1>6. ASSUME NEW i \in 0 .. c - 1 PROVE \E n \in 0 .. c - 1 : Slot(o, n, c) = i
  <2>1. PICK n \in 0 .. c - 1, e \in {0, 1} : r + n = i + c * e
    <3>1. CASE i >= r
      <4>1. i - r \in 0 .. c - 1 /\ r + (i - r) = i + c * 0
        BY <3>1
      <4> QED BY <4>1
    <3>2. CASE i < r
      <4>1. i - r + c \in 0 .. c - 1 /\ r + (i - r + c) = i + c * 1
        BY <3>2
      <4> QED BY <4>1
    <3> QED BY <3>1, <3>2
  <2>2. PICK p \in Int, s \in 0 .. c - 1 : h + n = c * p + s /\ (h + n) % c = s
    <3>1. h + n \in Int
      OBVIOUS
    <3> QED BY <3>1, DivMod
  <2>3. c * (q + e - p) = c * q + c * e - c * p /\ q + e - p \in Int /\ s - i \in Int
    OBVIOUS
  <2>4. s - i = c * (q + e - p)
    BY <1>2, <2>1, <2>2, <2>3
  <2>5. s - i = 0
    BY <2>3, <2>4, Multiple
  <2>6. s = i
    BY <2>5
  <2>7. Slot(o, n, c) = (h + n) % c
    BY <1>3
  <2> QED BY <2>2, <2>6, <2>7
<1> QED BY <1>4, <1>5, <1>6

----------------------------------------------------------------------------
(* A table in which every object has one slot, where the probe finds it. *)
Sound(T, c) ==
  /\ T \in [0 .. c - 1 -> Objects \cup {Vacant, Tomb}]
  /\ \A i, j \in 0 .. c - 1 : T[i] = T[j] /\ T[i] \in Objects => i = j
  /\ \A i \in 0 .. c - 1 : T[i] \in Objects => Found(T, T[i], c)
Table(T, C, c) ==
  /\ c \in Nat \ {0} /\ Sound(T, c) /\ C \in [0 .. c - 1 -> Nat]
  /\ \A i \in 0 .. c - 1 : T[i] \in Objects => C[i] > 0
CountIn(T, C, c, o) == IF Found(T, o, c) THEN C[Probe(T, o, c)] ELSE 0
Marks == Vacant # Tomb /\ Vacant \notin Objects /\ Tomb \notin Objects /\ Hash \in [Objects -> Nat]

LEMMA FoundLive ==
  ASSUME Marks, NEW c \in Nat \ {0}, NEW T, Sound(T, c), NEW o \in Objects
  PROVE  Found(T, o, c) <=> \E i \in 0 .. c - 1 : T[i] = o
<1>1. ASSUME Found(T, o, c) PROVE \E i \in 0 .. c - 1 : T[i] = o
  <2>1. PICK n \in 0 .. c - 1 : T[Slot(o, n, c)] = o
    BY <1>1 DEF Found
  <2>2. Slot(o, n, c) \in 0 .. c - 1
    BY Walk DEF Marks
  <2> QED BY <2>1, <2>2
<1>2. ASSUME NEW i \in 0 .. c - 1, T[i] = o PROVE Found(T, o, c)
  BY <1>2 DEF Sound
<1> QED BY <1>1, <1>2

LEMMA Hit ==
  ASSUME Marks, NEW c \in Nat \ {0}, NEW T, Sound(T, c), NEW i \in 0 .. c - 1,
         NEW o \in Objects, T[i] = o
  PROVE  Found(T, o, c) /\ Probe(T, o, c) = i
<1>1. o = T[i]
  OBVIOUS
<1>2. Found(T, o, c)
  BY <1>1 DEF Sound
<1>3. PICK S : S = Hits(T, o, c)
  OBVIOUS
<1>4. S \subseteq Nat /\ S # {}
  BY <1>2, <1>3 DEF Hits, Found
<1>5. First(S) \in S
  BY <1>4, FirstOf
<1>6. First(S) \in Nat /\ T[Slot(o, First(S), c)] = o
  BY <1>3, <1>5 DEF Hits
<1>7. Slot(o, First(S), c) \in 0 .. c - 1
  BY <1>6, Walk DEF Marks
<1>8. Slot(o, First(S), c) = i
  BY <1>1, <1>6, <1>7 DEF Sound
<1>9. Probe(T, o, c) = Slot(o, First(S), c)
  BY <1>2, <1>3 DEF Probe
<1> QED BY <1>1, <1>2, <1>8, <1>9

LEMMA Miss ==
  ASSUME Marks, NEW c \in Nat \ {0}, NEW T, Sound(T, c), NEW o \in Objects, ~Found(T, o, c),
         NEW i \in 0 .. c - 1, T[i] \in {Vacant, Tomb}
  PROVE  \E n \in 0 .. c - 1 :
           /\ Probe(T, o, c) = Slot(o, n, c) /\ Slot(o, n, c) \in 0 .. c - 1
           /\ T[Slot(o, n, c)] \in {Vacant, Tomb}
           /\ \A m \in 0 .. n - 1 : T[Slot(o, m, c)] \notin {Vacant, Tomb}
<1>1. PICK n \in 0 .. c - 1 : Slot(o, n, c) = i
  BY Walk DEF Marks
<1>2. PICK S : S = Opens(T, o, c)
  OBVIOUS
<1>3. n \in S /\ S \subseteq Nat
  BY <1>1, <1>2 DEF Opens
<1>4. First(S) \in S /\ \A m \in S : First(S) <= m
  BY <1>3, FirstOf
<1>5. PICK f : f = First(S)
  OBVIOUS
<1>6. f \in 0 .. c - 1 /\ T[Slot(o, f, c)] \in {Vacant, Tomb}
  BY <1>2, <1>4, <1>5 DEF Opens
<1>7. ASSUME NEW m \in 0 .. f - 1 PROVE T[Slot(o, m, c)] \notin {Vacant, Tomb}
  <2>1. m \in 0 .. c - 1 /\ ~ (f <= m)
    BY <1>6
  <2>2. m \notin S
    BY <1>4, <1>5, <2>1
  <2> QED BY <1>2, <2>1, <2>2 DEF Opens
<1>8. Probe(T, o, c) = Slot(o, f, c)
  BY <1>2, <1>5 DEF Probe
<1>9. Slot(o, f, c) \in 0 .. c - 1
  BY <1>6, Walk DEF Marks
<1> QED BY <1>6, <1>7, <1>8, <1>9

(* What an object counts, by its slot. *)
LEMMA CountAt ==
  ASSUME Marks, NEW T, NEW C, NEW c, Table(T, C, c)
  PROVE  /\ \A i \in 0 .. c - 1, o \in Objects :
              T[i] = o => CountIn(T, C, c, o) = C[i] /\ C[i] \in Nat \ {0}
         /\ \A o \in Objects : (\A i \in 0 .. c - 1 : T[i] # o) => CountIn(T, C, c, o) = 0
<1>1. c \in Nat \ {0} /\ Sound(T, c) /\ C \in [0 .. c - 1 -> Nat]
  BY DEF Table
<1>2. ASSUME NEW i \in 0 .. c - 1, NEW o \in Objects, T[i] = o
      PROVE  CountIn(T, C, c, o) = C[i] /\ C[i] \in Nat \ {0}
  <2>1. Found(T, o, c) /\ Probe(T, o, c) = i
    BY <1>1, <1>2, Hit
  <2>2. C[i] > 0
    BY <1>2 DEF Table
  <2> QED BY <1>1, <2>1, <2>2 DEF CountIn
<1>3. ASSUME NEW o \in Objects, \A i \in 0 .. c - 1 : T[i] # o PROVE CountIn(T, C, c, o) = 0
  BY <1>1, <1>3, FoundLive DEF CountIn
<1> QED BY <1>2, <1>3

(* An object written into the slot its probe answers. *)
LEMMA Written ==
  ASSUME Marks, NEW c \in Nat \ {0}, NEW T, Sound(T, c), NEW o \in Objects, ~Found(T, o, c),
         NEW i \in 0 .. c - 1, T[i] \in {Vacant, Tomb}, NEW U, U = [T EXCEPT ![Probe(T, o, c)] = o]
  PROVE  /\ Probe(T, o, c) \in 0 .. c - 1 /\ T[Probe(T, o, c)] \in {Vacant, Tomb}
         /\ Sound(U, c)
<1>1. PICK n \in 0 .. c - 1 :
        /\ Probe(T, o, c) = Slot(o, n, c) /\ Slot(o, n, c) \in 0 .. c - 1
        /\ T[Slot(o, n, c)] \in {Vacant, Tomb}
        /\ \A m \in 0 .. n - 1 : T[Slot(o, m, c)] \notin {Vacant, Tomb}
  BY Miss
<1>2. PICK j \in 0 .. c - 1 : j = Slot(o, n, c) /\ j = Probe(T, o, c) /\ T[j] \in {Vacant, Tomb}
  BY <1>1
<1>3. T \in [0 .. c - 1 -> Objects \cup {Vacant, Tomb}]
  BY DEF Sound
<1>4. /\ U \in [0 .. c - 1 -> Objects \cup {Vacant, Tomb}] /\ U[j] = o
      /\ \A k \in 0 .. c - 1 : k # j => U[k] = T[k]
  BY <1>2, <1>3
<1>5. \A k \in 0 .. c - 1 : T[k] # o
  BY FoundLive
<1>6. ASSUME NEW k \in 0 .. c - 1, NEW l \in 0 .. c - 1, U[k] = U[l], U[k] \in Objects PROVE k = l
  <2>1. CASE k # j /\ l # j
    BY <1>4, <1>6, <2>1 DEF Sound
  <2> QED BY <1>4, <1>5, <1>6, <2>1
<1>7. ASSUME NEW k \in 0 .. c - 1, U[k] \in Objects PROVE Found(U, U[k], c)
  <2>1. CASE k = j
    <3>1. \A m \in 0 .. n - 1 : U[Slot(o, m, c)] # Vacant
      <4> SUFFICES ASSUME NEW m \in 0 .. n - 1 PROVE U[Slot(o, m, c)] # Vacant
        OBVIOUS
      <4>1. m \in Nat
        OBVIOUS
      <4>2. Slot(o, m, c) \in 0 .. c - 1
        BY <4>1, Walk DEF Marks
      <4>3. T[Slot(o, m, c)] # Vacant
        BY <1>1
      <4> QED BY <1>4, <4>2, <4>3 DEF Marks
    <3>2. U[Slot(o, n, c)] = o
      BY <1>2, <1>4
    <3> QED BY <1>4, <2>1, <3>1, <3>2 DEF Found
  <2>2. CASE k # j
    <3>1. PICK p \in Objects : p = T[k] /\ p = U[k]
      BY <1>4, <1>7, <2>2
    <3>2. Found(T, p, c)
      BY <3>1 DEF Sound
    <3>3. PICK q \in 0 .. c - 1 : /\ T[Slot(p, q, c)] = p
                                  /\ \A m \in 0 .. q - 1 : T[Slot(p, m, c)] # Vacant
      BY <3>2 DEF Found
    <3>4. \A m \in Nat : Slot(p, m, c) \in 0 .. c - 1
      BY Walk DEF Marks
    <3>5. U[Slot(p, q, c)] = p
      <4>1. Slot(p, q, c) \in 0 .. c - 1
        BY <3>4
      <4>2. Slot(p, q, c) # j
        BY <1>2, <3>3 DEF Marks
      <4> QED BY <1>4, <3>3, <4>1, <4>2
    <3>6. \A m \in 0 .. q - 1 : U[Slot(p, m, c)] # Vacant
      <4> SUFFICES ASSUME NEW m \in 0 .. q - 1 PROVE U[Slot(p, m, c)] # Vacant
        OBVIOUS
      <4>1. Slot(p, m, c) \in 0 .. c - 1 /\ T[Slot(p, m, c)] # Vacant
        BY <3>3, <3>4
      <4> QED BY <1>4, <4>1 DEF Marks
    <3> QED BY <3>1, <3>5, <3>6 DEF Found
  <2> QED BY <2>1, <2>2
<1> QED BY <1>2, <1>4, <1>6, <1>7 DEF Sound

(* The table after an insert or a count: the one object changes. *)
Puts(T, C, c, o, x, U, D) == U = [T EXCEPT ![Probe(T, o, c)] = o] /\ D = [C EXCEPT ![Probe(T, o, c)] = x]
LEMMA Inserted ==
  ASSUME Marks, NEW T, NEW C, NEW c, Table(T, C, c), NEW o \in Objects, NEW x \in Nat \ {0}, CanProbe(T, o, c),
         NEW U, NEW D, Puts(T, C, c, o, x, U, D)
  PROVE  /\ Probe(T, o, c) \in 0 .. c - 1 /\ Table(U, D, c)
         /\ CountIn(U, D, c, o) = x
         /\ \A p \in Objects : p # o => CountIn(U, D, c, p) = CountIn(T, C, c, p)
         /\ ~Found(T, o, c) => CountIn(T, C, c, o) = 0 /\ T[Probe(T, o, c)] \in {Vacant, Tomb}
         /\ Found(T, o, c) => CountIn(T, C, c, o) = C[Probe(T, o, c)] /\ T[Probe(T, o, c)] = o
<1>1. /\ c \in Nat \ {0} /\ Sound(T, c) /\ C \in [0 .. c - 1 -> Nat]
      /\ T \in [0 .. c - 1 -> Objects \cup {Vacant, Tomb}]
  BY DEF Table, Sound
<1>2. PICK j : j = Probe(T, o, c) /\ U = [T EXCEPT ![j] = o] /\ D = [C EXCEPT ![j] = x]
  BY DEF Puts
<1>3. j \in 0 .. c - 1 /\ Sound(U, c) /\ (T[j] = o \/ (T[j] \in {Vacant, Tomb} /\ ~Found(T, o, c)))
      /\ (Found(T, o, c) => T[j] = o)
  <2>1. CASE Found(T, o, c)
    <3>1. PICK i \in 0 .. c - 1 : T[i] = o
      BY <1>1, <2>1, FoundLive
    <3>2. j = i
      BY <1>1, <1>2, <3>1, Hit
    <3>3. U = T
      BY <1>1, <1>2, <3>1, <3>2
    <3>4. Sound(U, c)
      BY ONLY <1>1, <3>3
    <3> QED BY <3>1, <3>2, <3>4
  <2>2. CASE ~Found(T, o, c)
    <3>1. PICK i \in 0 .. c - 1 : T[i] \in {Vacant, Tomb}
      BY <1>1, <2>2 DEF CanProbe
    <3> QED BY <1>1, <1>2, <2>2, <3>1, Written
  <2> QED BY <2>1, <2>2
<1>4. /\ U[j] = o /\ D[j] = x /\ D \in [0 .. c - 1 -> Nat]
      /\ \A k \in 0 .. c - 1 : k # j => U[k] = T[k] /\ D[k] = C[k]
  BY <1>1, <1>2, <1>3
<1>5. Table(U, D, c)
  <2>1. \A i \in 0 .. c - 1 : U[i] \in Objects => D[i] > 0
    BY <1>4 DEF Table
  <2> QED BY <1>1, <1>3, <1>4, <2>1 DEF Table
<1>6. CountIn(U, D, c, o) = x
  <2>1. j \in 0 .. c - 1 /\ U[j] = o /\ D[j] = x
    BY <1>3, <1>4
  <2>2. CountIn(U, D, c, o) = D[j]
    BY ONLY Marks, <1>5, <2>1, o \in Objects, CountAt
  <2> QED BY <2>1, <2>2
<1>7. ASSUME NEW p \in Objects, p # o PROVE CountIn(U, D, c, p) = CountIn(T, C, c, p)
  <2>1. CASE \E i \in 0 .. c - 1 : T[i] = p
    <3>1. PICK i \in 0 .. c - 1 : T[i] = p
      BY <2>1
    <3>2. i # j
      BY <1>3, <1>7, <3>1 DEF Marks
    <3>3. U[i] = p /\ D[i] = C[i]
      BY <1>4, <3>1, <3>2
    <3>4. CountIn(U, D, c, p) = D[i]
      BY ONLY Marks, <1>5, <3>3, p \in Objects, CountAt
    <3>5. CountIn(T, C, c, p) = C[i]
      BY <3>1, CountAt
    <3> QED BY <3>1, <3>3, <3>4, <3>5
  <2>2. CASE \A i \in 0 .. c - 1 : T[i] # p
    <3>1. \A i \in 0 .. c - 1 : U[i] # p
      BY <1>4, <1>7, <2>2
    <3>2. CountIn(U, D, c, p) = 0
      BY ONLY Marks, <1>5, <3>1, p \in Objects, CountAt
    <3>3. CountIn(T, C, c, p) = 0
      BY <2>2, CountAt
    <3> QED BY <3>2, <3>3
  <2> QED BY <2>1, <2>2
<1>8. /\ ~Found(T, o, c) => CountIn(T, C, c, o) = 0 /\ T[j] \in {Vacant, Tomb}
      /\ Found(T, o, c) => CountIn(T, C, c, o) = C[j] /\ T[j] = o
  <2>1. ~Found(T, o, c) => T[j] # o
    BY <1>1, <1>3, FoundLive
  <2> QED BY <1>2, <1>3, <2>1 DEF CountIn
<1> QED BY <1>2, <1>3, <1>5, <1>6, <1>7, <1>8

Buries(T, C, j, U, D) == U = [T EXCEPT ![j] = Tomb] /\ D = [C EXCEPT ![j] = 0]
(* ... and after the last holder goes: a tombstone breaks no chain. *)
LEMMA BuriedIn ==
  ASSUME Marks, NEW T, NEW C, NEW c, Table(T, C, c), NEW j \in 0 .. c - 1, T[j] \in Objects,
         NEW U, NEW D, Buries(T, C, j, U, D)
  PROVE  /\ Table(U, D, c) /\ CountIn(U, D, c, T[j]) = 0
         /\ \A p \in Objects : p # T[j] => CountIn(U, D, c, p) = CountIn(T, C, c, p)
<1>1. /\ c \in Nat \ {0} /\ Sound(T, c) /\ C \in [0 .. c - 1 -> Nat]
      /\ T \in [0 .. c - 1 -> Objects \cup {Vacant, Tomb}]
  BY DEF Table, Sound
<1>2. /\ U \in [0 .. c - 1 -> Objects \cup {Vacant, Tomb}] /\ U[j] = Tomb /\ D \in [0 .. c - 1 -> Nat]
      /\ \A k \in 0 .. c - 1 : k # j => U[k] = T[k] /\ D[k] = C[k]
  BY <1>1 DEF Buries
<1>3. ASSUME NEW k \in 0 .. c - 1, U[k] \in Objects PROVE k # j /\ T[k] = U[k] /\ D[k] = C[k]
  BY <1>2, <1>3 DEF Marks
<1>4. ASSUME NEW k \in 0 .. c - 1, U[k] \in Objects PROVE Found(U, U[k], c)
  <2>1. PICK p \in Objects : p = T[k] /\ p = U[k]
    BY <1>3, <1>4
  <2>2. Found(T, p, c)
    BY <1>1, <2>1 DEF Sound
  <2>3. PICK q \in 0 .. c - 1 : /\ T[Slot(p, q, c)] = p
                                /\ \A m \in 0 .. q - 1 : T[Slot(p, m, c)] # Vacant
    BY <2>2 DEF Found
  <2>4. \A m \in Nat : Slot(p, m, c) \in 0 .. c - 1
    BY <1>1, Walk DEF Marks
  <2>5. U[Slot(p, q, c)] = p
    <3>1. Slot(p, q, c) \in 0 .. c - 1
      BY <2>4
    <3>2. Slot(p, q, c) = k
      BY <1>1, <2>1, <2>3, <3>1 DEF Sound
    <3> QED BY <2>1, <3>2
  <2>6. \A m \in 0 .. q - 1 : U[Slot(p, m, c)] # Vacant
    <3> SUFFICES ASSUME NEW m \in 0 .. q - 1 PROVE U[Slot(p, m, c)] # Vacant
      OBVIOUS
    <3>1. Slot(p, m, c) \in 0 .. c - 1 /\ T[Slot(p, m, c)] # Vacant
      BY <2>3, <2>4
    <3> QED BY <1>2, <3>1 DEF Marks
  <2> QED BY <2>1, <2>5, <2>6 DEF Found
<1>5. Sound(U, c)
  <2>1. \A i, k \in 0 .. c - 1 : U[i] = U[k] /\ U[i] \in Objects => i = k
    BY <1>1, <1>3 DEF Sound
  <2> QED BY <1>2, <1>4, <2>1 DEF Sound
<1>6. Table(U, D, c)
  <2>1. \A i \in 0 .. c - 1 : U[i] \in Objects => D[i] > 0
    BY <1>3 DEF Table
  <2> QED BY <1>1, <1>2, <1>5, <2>1 DEF Table
<1>7. ASSUME NEW p \in Objects
      PROVE  CountIn(U, D, c, p) = IF p = T[j] THEN 0 ELSE CountIn(T, C, c, p)
  <2>1. CASE \E i \in 0 .. c - 1 : U[i] = p
    <3>1. PICK i \in 0 .. c - 1 : U[i] = p
      BY <2>1
    <3>2. i # j /\ T[i] = p /\ D[i] = C[i]
      BY <1>3, <3>1
    <3>3. p # T[j]
      BY <1>1, <3>2 DEF Sound
    <3>4. CountIn(U, D, c, p) = D[i]
      BY ONLY Marks, <1>6, <3>1, p \in Objects, CountAt
    <3>5. CountIn(T, C, c, p) = C[i]
      BY <3>2, CountAt
    <3> QED BY <3>1, <3>2, <3>3, <3>4, <3>5
  <2>2. CASE \A i \in 0 .. c - 1 : U[i] # p
    <3>1. CountIn(U, D, c, p) = 0
      BY ONLY Marks, <1>6, <2>2, p \in Objects, CountAt
    <3>2. p # T[j] => \A i \in 0 .. c - 1 : T[i] # p
      BY <1>2, <2>2
    <3>3. p # T[j] => CountIn(T, C, c, p) = 0
      BY <3>2, CountAt
    <3> QED BY <3>1, <3>3
  <2> QED BY <2>1, <2>2
<1> QED BY <1>6, <1>7

----------------------------------------------------------------------------
(* The table that arc_grow fills exists, one old slot after the other. *)
LEMMA Refills ==
  ASSUME cap \in Nat
  PROVE  /\ Reinserted[0] = Blank
         /\ \A k \in 0 .. cap - 1 : Reinserted[k + 1] = Reinsert(Reinserted[k], k)
<1> DEFINE Filled(f, n) == f = [k \in 0 .. n |-> IF k = 0 THEN Blank ELSE Reinsert(f[k - 1], k - 1)]
<1>1. PICK S : S = {n \in Nat : \E f : Filled(f, n)}
  OBVIOUS
<1>2. 0 \in S
  <2>1. Filled([k \in 0 .. 0 |-> Blank], 0)
    OBVIOUS
  <2> HIDE DEF Filled
  <2> QED BY <1>1, <2>1
<1>3. ASSUME NEW n \in Nat, n \in S PROVE n + 1 \in S
  <2>1. PICK f : Filled(f, n)
    BY <1>1, <1>3
  <2>2. PICK g : g = [k \in 0 .. n + 1 |-> IF k <= n THEN f[k] ELSE Reinsert(f[n], n)]
    OBVIOUS
  <2>3. \A k \in 0 .. n + 1 : g[k] = IF k = 0 THEN Blank ELSE Reinsert(g[k - 1], k - 1)
    <3> SUFFICES ASSUME NEW k \in 0 .. n + 1 PROVE g[k] = IF k = 0 THEN Blank ELSE Reinsert(g[k - 1], k - 1)
      OBVIOUS
    <3>1. CASE k <= n
      <4>1. g[k] = f[k] /\ (k # 0 => g[k - 1] = f[k - 1])
        BY <2>2, <3>1
      <4>2. f[k] = IF k = 0 THEN Blank ELSE Reinsert(f[k - 1], k - 1)
        BY <2>1, <3>1
      <4> QED BY <4>1, <4>2
    <3>2. CASE k = n + 1
      <4>1. k # 0 /\ k - 1 = n /\ ~(k <= n)
        BY <3>2
      <4>2. g[k] = Reinsert(f[n], n) /\ g[n] = f[n]
        BY <2>2, <4>1
      <4> QED BY <4>1, <4>2
    <3> QED BY <3>1, <3>2
  <2>4. Filled(g, n + 1)
    BY <2>2, <2>3
  <2> HIDE DEF Filled
  <2> QED BY <1>1, <2>4
<1>4. \A n \in 0 .. cap : n \in S
  BY <1>2, <1>3, UpTo
<1>5. \E f : Filled(f, cap)
  <2>1. cap \in 0 .. cap
    OBVIOUS
  <2> HIDE DEF Filled
  <2> QED BY <1>1, <1>4, <2>1
<1>6. Filled(Reinserted, cap)
  BY <1>5 DEF Reinserted
<1>7. ASSUME NEW k \in 0 .. cap PROVE Reinserted[k] = IF k = 0 THEN Blank ELSE Reinsert(Reinserted[k - 1], k - 1)
  BY <1>6
<1>8. ASSUME NEW k \in 0 .. cap - 1 PROVE Reinserted[k + 1] = Reinsert(Reinserted[k], k)
  <2>1. k + 1 \in 0 .. cap /\ k + 1 # 0 /\ k + 1 - 1 = k
    OBVIOUS
  <2> QED BY <1>7, <2>1
<1> QED BY <1>7, <1>8

(* After k old slots: the counts of the objects in them, and room for more. *)
Refilled(r, k) ==
  /\ Table(r.t, r.c, 2 * cap)
  /\ IsFiniteSet(LiveIn(r.t)) /\ Cardinality(LiveIn(r.t)) <= k
  /\ \A i \in 0 .. k - 1, o \in Objects : arct[i] = o => CountIn(r.t, r.c, 2 * cap, o) = cnts[i]
  /\ \A o \in Objects : (\A i \in 0 .. k - 1 : arct[i] # o) => CountIn(r.t, r.c, 2 * cap, o) = 0
LEMMA Roomy ==
  ASSUME Marks, NEW T, NEW c \in Nat \ {0}, T \in [0 .. c - 1 -> Objects \cup {Vacant, Tomb}],
         Cardinality(LiveIn(T)) < c
  PROVE  \E i \in DOMAIN T : T[i] \in {Vacant, Tomb}
<1> SUFFICES ASSUME \A i \in DOMAIN T : T[i] \notin {Vacant, Tomb} PROVE FALSE
  OBVIOUS
<1>1. LiveIn(T) = 0 .. c - 1
  BY DEF LiveIn
<1>2. Cardinality(0 .. c - 1) = c
  <2>1. 0 \in Int /\ c - 1 \in Int /\ 0 <= c - 1 + 1
    OBVIOUS
  <2>2. Cardinality(0 .. c - 1) = c - 1 - 0 + 1
    BY <2>1, FS_Interval
  <2> QED BY <2>2
<1> QED BY <1>1, <1>2
LEMMA Refill ==
  ASSUME Marks, Table(arct, cnts, cap)
  PROVE  \A k \in 0 .. cap : Refilled(Reinserted[k], k)
<1>1. cap \in Nat /\ 2 * cap \in Nat \ {0} /\ Sound(arct, cap)
      /\ arct \in [0 .. cap - 1 -> Objects \cup {Vacant, Tomb}] /\ cnts \in [0 .. cap - 1 -> Nat]
  BY DEF Table, Sound
<1>2. PICK S : S = {k \in Nat : Refilled(Reinserted[k], k)}
  OBVIOUS
<1>3. 0 \in S
  <2>1. PICK r : r = Blank
    OBVIOUS
  <2>2. /\ r.t = [i \in 0 .. 2 * cap - 1 |-> Vacant] /\ r.c = [i \in 0 .. 2 * cap - 1 |-> 0]
    BY <2>1 DEF Blank
  <2>3. Table(r.t, r.c, 2 * cap)
    BY <1>1, <2>2 DEF Table, Sound, Marks
  <2>4. LiveIn(r.t) = {}
    BY <2>2 DEF LiveIn
  <2>5. IsFiniteSet(LiveIn(r.t)) /\ Cardinality(LiveIn(r.t)) <= 0
    BY <2>4, FS_EmptySet
  <2>6. \A o \in Objects : CountIn(r.t, r.c, 2 * cap, o) = 0
    <3>1. \A o \in Objects, i \in 0 .. 2 * cap - 1 : r.t[i] # o
      BY <2>2 DEF Marks
    <3> QED BY ONLY Marks, <2>3, <3>1, CountAt
  <2>7. Refilled(r, 0)
    BY <2>3, <2>5, <2>6 DEF Refilled
  <2> QED BY <1>1, <1>2, <2>1, <2>7, Refills
<1>4. ASSUME NEW k \in Nat, k \in S, k < cap PROVE k + 1 \in S
  <2>1. PICK r : r = Reinserted[k] /\ Refilled(r, k)
    BY <1>2, <1>4
  <2>2. Reinserted[k + 1] = Reinsert(r, k)
    BY <1>1, <1>4, <2>1, Refills
  <2>3. k \in 0 .. cap - 1 /\ k \in Int
    BY <1>1, <1>4
  <2>4. CASE k \notin LiveIn(arct)
    <3>1. arct[k] \notin Objects /\ Reinsert(r, k) = r
      BY <1>1, <2>3, <2>4 DEF LiveIn, Reinsert, Marks
    <3>2. Cardinality(LiveIn(r.t)) <= k + 1
      <4>1. Cardinality(LiveIn(r.t)) \in Nat /\ Cardinality(LiveIn(r.t)) <= k
        BY <2>1, FS_CardinalityType DEF Refilled
      <4> QED BY <4>1
    <3>3. \A i \in 0 .. k : i \in 0 .. k - 1 \/ i = k
      BY <2>3
    <3>4. Refilled(r, k + 1)
      BY <2>1, <2>3, <3>1, <3>2, <3>3 DEF Refilled
    <3> QED BY <1>2, <2>2, <3>1, <3>4
  <2>5. CASE k \in LiveIn(arct)
    <3>1. PICK o \in Objects : o = arct[k]
      BY <1>1, <2>3, <2>5 DEF LiveIn
    <3>2. PICK T, C : T = r.t /\ C = r.c
      OBVIOUS
    <3>3. PICK j : j = Probe(T, o, 2 * cap)
      OBVIOUS
    <3>4. PICK x \in Nat \ {0} : x = cnts[k]
      <4>1. cnts[k] \in Nat /\ cnts[k] > 0
        BY <1>1, <2>3, <3>1 DEF Table
      <4> QED BY <4>1
    <3>5. PICK U, D : U = [T EXCEPT ![j] = o] /\ D = [C EXCEPT ![j] = x]
      OBVIOUS
    <3>6. Reinsert(r, k) = [t |-> U, c |-> D]
      BY <2>5, <3>1, <3>2, <3>3, <3>4, <3>5 DEF Reinsert
    <3>7. Table(T, C, 2 * cap) /\ IsFiniteSet(LiveIn(T)) /\ Cardinality(LiveIn(T)) <= k
          /\ Cardinality(LiveIn(T)) \in Nat
      BY <2>1, <3>2, FS_CardinalityType DEF Refilled
    <3>8. T \in [0 .. 2 * cap - 1 -> Objects \cup {Vacant, Tomb}]
      BY <3>7 DEF Table, Sound
    <3>9. CanProbe(T, o, 2 * cap)
      <4>1. Cardinality(LiveIn(T)) < 2 * cap
        BY <1>1, <1>4, <3>7
      <4> QED BY <1>1, <3>8, <4>1, Roomy DEF CanProbe
    <3>10. /\ j \in 0 .. 2 * cap - 1 /\ Table(U, D, 2 * cap) /\ CountIn(U, D, 2 * cap, o) = x
           /\ \A p \in Objects : p # o => CountIn(U, D, 2 * cap, p) = CountIn(T, C, 2 * cap, p)
      <4>1. PICK c : c = 2 * cap
        OBVIOUS
      <4>2. j = Probe(T, o, c) /\ Table(T, C, c) /\ CanProbe(T, o, c)
        BY <3>3, <3>7, <3>9, <4>1
      <4>3. Puts(T, C, c, o, x, U, D)
        BY <3>5, <4>2 DEF Puts
      <4>4. /\ Probe(T, o, c) \in 0 .. c - 1 /\ Table(U, D, c) /\ CountIn(U, D, c, o) = x
            /\ \A p \in Objects : p # o => CountIn(U, D, c, p) = CountIn(T, C, c, p)
        BY ONLY Marks, <4>2, <4>3, o \in Objects, x \in Nat \ {0}, Inserted
      <4> QED BY <4>1, <4>2, <4>4
    <3>11. IsFiniteSet(LiveIn(U)) /\ Cardinality(LiveIn(U)) <= k + 1
      <4>1. LiveIn(U) \subseteq LiveIn(T) \cup {j}
        BY <3>5, <3>8, <3>10 DEF LiveIn
      <4>2. IsFiniteSet(LiveIn(T) \cup {j}) /\ Cardinality(LiveIn(T) \cup {j}) <= Cardinality(LiveIn(T)) + 1
        <5>1. /\ IsFiniteSet(LiveIn(T) \cup {j})
              /\ Cardinality(LiveIn(T) \cup {j}) = IF j \in LiveIn(T) THEN Cardinality(LiveIn(T)) ELSE Cardinality(LiveIn(T)) + 1
          BY <3>7, FS_AddElement
        <5> QED BY <3>7, <5>1
      <4>3. IsFiniteSet(LiveIn(U)) /\ Cardinality(LiveIn(U)) <= Cardinality(LiveIn(T) \cup {j})
        BY <4>1, <4>2, FS_Subset
      <4>4. Cardinality(LiveIn(U)) \in Nat /\ Cardinality(LiveIn(T) \cup {j}) \in Nat
        BY <4>2, <4>3, FS_CardinalityType
      <4> QED BY <2>3, <3>7, <4>2, <4>3, <4>4
    <3>12. ASSUME NEW i \in 0 .. k, NEW p \in Objects, arct[i] = p PROVE CountIn(U, D, 2 * cap, p) = cnts[i]
      <4>1. CASE i = k
        <5>1. p = o /\ cnts[i] = x
          BY <3>1, <3>4, <3>12, <4>1
        <5> QED BY <3>10, <5>1
      <4>2. CASE i # k
        <5>1. i \in 0 .. k - 1
          BY <2>3, <4>2
        <5>2. p # o
          <6>1. i \in 0 .. cap - 1
            BY <1>1, <1>4, <2>3, <5>1
          <6> QED BY <1>1, <2>3, <3>1, <3>12, <4>2, <6>1 DEF Sound
        <5>3. CountIn(T, C, 2 * cap, p) = cnts[i]
          BY <2>1, <3>2, <3>12, <5>1 DEF Refilled
        <5> QED BY <3>10, <5>2, <5>3
      <4> QED BY <4>1, <4>2
    <3>13. ASSUME NEW p \in Objects, \A i \in 0 .. k : arct[i] # p PROVE CountIn(U, D, 2 * cap, p) = 0
      <4>1. k \in 0 .. k /\ p # o /\ \A i \in 0 .. k - 1 : i \in 0 .. k
        BY <2>3, <3>1, <3>13
      <4>2. CountIn(T, C, 2 * cap, p) = 0
        BY <2>1, <3>2, <3>13, <4>1 DEF Refilled
      <4> QED BY <3>10, <4>1, <4>2
    <3>14. PICK w : w = [t |-> U, c |-> D]
      OBVIOUS
    <3>15. w.t = U /\ w.c = D /\ k + 1 - 1 = k
      BY <2>3, <3>14
    <3>16. Refilled(w, k + 1)
      BY ONLY <3>10, <3>11, <3>12, <3>13, <3>15 DEF Refilled
    <3> QED BY <1>2, <2>2, <3>6, <3>14, <3>16
  <2> QED BY <2>4, <2>5
<1>5. \A k \in 0 .. cap : k \in S
  BY <1>1, <1>3, <1>4, UpTo
<1> QED BY <1>2, <1>5

(* The doubled table counts what the old one did. *)
LEMMA Doubled ==
  ASSUME Marks, Table(arct, cnts, cap), NEW g \in Grown
  PROVE  /\ Table(g.t, g.c, g.cap) /\ g.cap \in Nat \ {0}
         /\ \A o \in Objects : CountIn(g.t, g.c, g.cap, o) = Holders(o)
<1>1. cap \in Nat \ {0}
  BY DEF Table
<1>2. g \in {Rehash, Kept}
  BY DEF Grown
<1>3. CASE g = Kept
  <2>1. g.t = arct /\ g.c = cnts /\ g.cap = cap
    BY <1>3 DEF Kept
  <2> QED BY <1>1, <2>1 DEF Holders, CountIn
<1>4. CASE g = Rehash
  <2>1. PICK r : r = Reinserted[cap] /\ Refilled(r, cap)
    BY <1>1, Refill
  <2>2. g.t = r.t /\ g.c = r.c /\ g.cap = 2 * cap
    BY <1>4, <2>1 DEF Rehash
  <2>3. ASSUME NEW o \in Objects PROVE CountIn(r.t, r.c, 2 * cap, o) = CountIn(arct, cnts, cap, o)
    <3>1. CASE \E i \in 0 .. cap - 1 : arct[i] = o
      <4>1. PICK i \in 0 .. cap - 1 : arct[i] = o
        BY <3>1
      <4>2. CountIn(r.t, r.c, 2 * cap, o) = cnts[i]
        BY <2>1, <4>1 DEF Refilled
      <4>3. CountIn(arct, cnts, cap, o) = cnts[i]
        BY <4>1, CountAt
      <4> QED BY <4>2, <4>3
    <3>2. CASE \A i \in 0 .. cap - 1 : arct[i] # o
      <4>1. CountIn(r.t, r.c, 2 * cap, o) = 0
        BY <2>1, <3>2 DEF Refilled
      <4>2. CountIn(arct, cnts, cap, o) = 0
        BY <3>2, CountAt
      <4> QED BY <4>1, <4>2
    <3> QED BY <3>1, <3>2
  <2>4. \A o \in Objects : Holders(o) = CountIn(arct, cnts, cap, o)
    BY DEF Holders, CountIn
  <2>5. Table(r.t, r.c, 2 * cap) /\ 2 * cap \in Nat \ {0}
    BY <1>1, <2>1 DEF Refilled
  <2> QED BY <2>2, <2>3, <2>4, <2>5
<1> QED BY <1>2, <1>3, <1>4

----------------------------------------------------------------------------
(* arc_reserve touches no entry. *)
LEMMA Reserves ==
  ASSUME UNCHANGED <<arct, cnts, cap>>
  PROVE  AbsCount' = AbsCount /\ Table(arct, cnts, cap)' = Table(arct, cnts, cap)
BY DEF AbsCount, Holders, Table, Sound

LEMMA Increfs ==
  ASSUME Marks, Table(arct, cnts, cap), NEW a \in Sharers, ArcIncref(a)
  PROVE  /\ Table(arct', cnts', cap')
         /\ \E o \in Objects : /\ Holders(o)' = Holders(o) + 1 \/ (Holders(o) = 0 /\ Holders(o)' = 2)
                               /\ \A p \in Objects : p # o => Holders(p)' = Holders(p)
<1>0. PICK o \in Objects, g \in Grown, share \in {0, 1} : Insert(g, o, share)
  BY DEF ArcIncref
<1>1. /\ CanProbe(g.t, o, g.cap)
      /\ arct' = [g.t EXCEPT ![Probe(g.t, o, g.cap)] = o]
      /\ cnts' = [g.c EXCEPT ![Probe(g.t, o, g.cap)] = IF Found(g.t, o, g.cap) THEN @ + 1 ELSE share + 1]
      /\ cap' = g.cap
  BY <1>0 DEF Insert
<1>2. PICK T, C, c : T = g.t /\ C = g.c /\ c = g.cap
  OBVIOUS
<1>3. /\ Table(T, C, c) /\ c \in Nat \ {0} /\ C \in [0 .. c - 1 -> Nat]
      /\ \A p \in Objects : CountIn(T, C, c, p) = Holders(p)
  BY <1>2, Doubled DEF Table
<1>4. PICK j : j = Probe(T, o, c)
  OBVIOUS
<1>5. PICK U, D : U = arct' /\ D = cnts'
  OBVIOUS
<1>6. /\ ~Found(T, o, c) => CountIn(T, C, c, o) = 0
      /\ Found(T, o, c) => CountIn(T, C, c, o) = C[j]
      /\ CountIn(T, C, c, o) \in Nat
  <2>1. ~Found(T, o, c) => CountIn(T, C, c, o) = 0
    BY DEF CountIn
  <2>2. CASE Found(T, o, c)
    <3>1. PICK i \in 0 .. c - 1 : T[i] = o
      BY <1>3, <2>2, FoundLive DEF Table
    <3>2. j = i
      BY <1>3, <1>4, <3>1, Hit DEF Table
    <3> QED BY <1>3, <1>4, <2>1, <2>2, <3>2 DEF CountIn
  <2> QED BY <2>1, <2>2
<1>7. PICK x : x = IF Found(T, o, c) THEN C[j] + 1 ELSE share + 1
  OBVIOUS
<1>8. /\ x \in Nat \ {0} /\ (x = CountIn(T, C, c, o) + 1 \/ (CountIn(T, C, c, o) = 0 /\ x = 2))
  <2>1. CASE Found(T, o, c)
    BY <1>6, <1>7, <2>1
  <2>2. CASE ~Found(T, o, c)
    BY <1>6, <1>7, <2>2
  <2> QED BY <2>1, <2>2
<1>9. Puts(T, C, c, o, x, U, D)
  BY <1>1, <1>2, <1>4, <1>5, <1>7 DEF Puts
<1>10. CanProbe(T, o, c)
  BY <1>1, <1>2
<1>11. /\ Table(U, D, c) /\ CountIn(U, D, c, o) = x
       /\ \A p \in Objects : p # o => CountIn(U, D, c, p) = CountIn(T, C, c, p)
  BY ONLY Marks, <1>3, <1>8, <1>9, <1>10, o \in Objects, Inserted
<1>12. Table(arct', cnts', cap')
  BY ONLY <1>1, <1>2, <1>5, <1>11
<1>13. \A p \in Objects : Holders(p)' = CountIn(U, D, c, p)
  BY <1>1, <1>2, <1>5 DEF Holders, CountIn
<1> QED BY <1>3, <1>8, <1>11, <1>12, <1>13

LEMMA Decrefs ==
  ASSUME Marks, Table(arct, cnts, cap), ArcDecref
  PROVE  /\ Table(arct', cnts', cap')
         /\ \E o \in Objects : /\ Holders(o) > 0 /\ Holders(o)' = Holders(o) - 1
                               /\ \A p \in Objects : p # o => Holders(p)' = Holders(p)
<1>1. PICK o \in Objects :
        /\ Found(arct, o, cap)
        /\ cnts' = [cnts EXCEPT ![Probe(arct, o, cap)] = @ - 1]
        /\ arct' = IF cnts[Probe(arct, o, cap)] = 1 THEN [arct EXCEPT ![Probe(arct, o, cap)] = Tomb] ELSE arct
        /\ cap' = cap
  BY DEF ArcDecref, Buried
<1>2. /\ cap \in Nat \ {0} /\ Sound(arct, cap) /\ cnts \in [0 .. cap - 1 -> Nat]
      /\ arct \in [0 .. cap - 1 -> Objects \cup {Vacant, Tomb}]
  BY DEF Table, Sound
<1>3. PICK j \in 0 .. cap - 1 : j = Probe(arct, o, cap) /\ arct[j] = o
  <2>1. PICK i \in 0 .. cap - 1 : arct[i] = o
    BY <1>1, <1>2, FoundLive
  <2>2. Probe(arct, o, cap) = i
    BY <1>2, <2>1, Hit
  <2> QED BY <2>1, <2>2
<1>4. cnts[j] \in Nat /\ cnts[j] > 0
  BY <1>2, <1>3 DEF Table
<1>5. \A p \in Objects : Holders(p) = CountIn(arct, cnts, cap, p)
  BY DEF Holders, CountIn
<1>6. Holders(o) = cnts[j]
  BY <1>1, <1>3 DEF Holders
<1>7. PICK U, D : U = arct' /\ D = cnts'
  OBVIOUS
<1>8. \A p \in Objects : Holders(p)' = CountIn(U, D, cap, p)
  BY <1>1, <1>7 DEF Holders, CountIn
<1>9. CASE cnts[j] = 1
  <2>1. Buries(arct, cnts, j, U, D)
    BY <1>1, <1>2, <1>3, <1>7, <1>9 DEF Buries
  <2>2. /\ Table(U, D, cap) /\ CountIn(U, D, cap, o) = 0
        /\ \A p \in Objects : p # o => CountIn(U, D, cap, p) = CountIn(arct, cnts, cap, p)
    BY ONLY Marks, Table(arct, cnts, cap), j \in 0 .. cap - 1, o \in Objects, <1>3, <2>1, BuriedIn
  <2>3. Table(arct', cnts', cap')
    BY ONLY <1>1, <1>7, <2>2
  <2>4. Holders(o) > 0 /\ Holders(o)' = Holders(o) - 1
    BY <1>6, <1>8, <1>9, <2>2
  <2>5. \A p \in Objects : p # o => Holders(p)' = Holders(p)
    BY <1>5, <1>8, <2>2
  <2> QED BY <2>3, <2>4, <2>5
<1>10. CASE cnts[j] # 1
  <2>1. PICK x \in Nat \ {0} : x = cnts[j] - 1
    BY <1>4, <1>10
  <2>2. Puts(arct, cnts, cap, o, x, U, D)
    <3>1. U = arct /\ arct = [arct EXCEPT ![j] = o]
      BY <1>1, <1>2, <1>3, <1>7, <1>10
    <3>2. D = [cnts EXCEPT ![j] = x]
      BY <1>1, <1>3, <1>7, <2>1
    <3> QED BY <1>3, <3>1, <3>2 DEF Puts
  <2>3. CanProbe(arct, o, cap)
    BY <1>1 DEF CanProbe
  <2>4. /\ Table(U, D, cap) /\ CountIn(U, D, cap, o) = x
        /\ \A p \in Objects : p # o => CountIn(U, D, cap, p) = CountIn(arct, cnts, cap, p)
    BY ONLY Marks, Table(arct, cnts, cap), <2>2, <2>3, o \in Objects, x \in Nat \ {0}, Inserted
  <2>5. Table(arct', cnts', cap')
    BY ONLY <1>1, <1>7, <2>4
  <2>6. Holders(o) > 0 /\ Holders(o)' = Holders(o) - 1
    BY <1>4, <1>6, <1>8, <2>1, <2>4
  <2>7. \A p \in Objects : p # o => Holders(p)' = Holders(p)
    BY <1>5, <1>8, <2>4
  <2> QED BY <2>5, <2>6, <2>7
<1> QED BY <1>9, <1>10

LEMMA TableStarts ==
  ASSUME Marks, TableSizes, TableInit
  PROVE  Table(arct, cnts, cap) /\ \A o \in Objects : Holders(o) = 0
<1>1. /\ cap \in Nat \ {0} /\ arct = [i \in 0 .. cap - 1 |-> Vacant] /\ cnts = [i \in 0 .. cap - 1 |-> 0]
  BY DEF TableInit, TableSizes
<1>2. Table(arct, cnts, cap)
  BY <1>1 DEF Table, Sound, Marks
<1>3. \A o \in Objects : ~Found(arct, o, cap)
  BY <1>1, <1>2, FoundLive DEF Table, Marks
<1> QED BY <1>2, <1>3 DEF Holders

(* Whatever objects share a chain, however often the table doubles and its  *)
(* slots are buried and used again, arct is a map from objects to numbers of *)
(* holders: incref and promote_share add to one object's count, decref takes *)
(* one from it, and no step touches another's.                               *)
THEOREM TableIsMap == ASSUME TableSizes PROVE TableSpec => ImplementsCountMap
<1>1. Marks
  BY DEF Marks, TableSizes
<1>2. TableInit => Table(arct, cnts, cap) /\ AsMap!CMInit
  BY <1>1, TableStarts DEF AsMap!CMInit, AbsCount
<1>3. ASSUME Table(arct, cnts, cap), [TableNext]_tvars
      PROVE  Table(arct, cnts, cap)' /\ [AsMap!CMNext]_AbsCount
  <2>1. CASE UNCHANGED <<arct, cnts, cap>>
    BY <1>3, <2>1, Reserves
  <2>2. ASSUME NEW a \in Sharers, ArcIncref(a) PROVE Table(arct, cnts, cap)' /\ [AsMap!CMNext]_AbsCount
    <3>1. Table(arct, cnts, cap)'
      BY <1>1, <1>3, <2>2, Increfs
    <3>2. PICK o \in Objects : /\ Holders(o)' = Holders(o) + 1 \/ (Holders(o) = 0 /\ Holders(o)' = 2)
                               /\ \A p \in Objects : p # o => Holders(p)' = Holders(p)
      BY <1>1, <1>3, <2>2, Increfs
    <3>3. AbsCount' = [AbsCount EXCEPT ![o] = Holders(o)']
      BY <3>2 DEF AbsCount
    <3>4. AbsCount[o] = Holders(o)
      BY DEF AbsCount
    <3>5. AsMap!CMIncref(o) \/ AsMap!CMPromote(o)
      BY <3>2, <3>3, <3>4 DEF AsMap!CMIncref, AsMap!CMPromote
    <3> QED BY <3>1, <3>5 DEF AsMap!CMNext
  <2>3. CASE ArcDecref
    <3>1. Table(arct, cnts, cap)'
      BY <1>1, <1>3, <2>3, Decrefs
    <3>2. PICK o \in Objects : /\ Holders(o) > 0 /\ Holders(o)' = Holders(o) - 1
                               /\ \A p \in Objects : p # o => Holders(p)' = Holders(p)
      BY <1>1, <1>3, <2>3, Decrefs
    <3>3. AbsCount' = [AbsCount EXCEPT ![o] = Holders(o)']
      BY <3>2 DEF AbsCount
    <3>4. AbsCount[o] = Holders(o)
      BY DEF AbsCount
    <3>5. AsMap!CMDecref(o)
      BY <3>2, <3>3, <3>4 DEF AsMap!CMDecref
    <3> QED BY <3>1, <3>5 DEF AsMap!CMNext
  <2> QED BY <1>3, <2>1, <2>2, <2>3 DEF TableNext, tvars, ReserveLook, ReserveOffer
<1> QED BY <1>2, <1>3, PTL DEF TableSpec, ImplementsCountMap, AsMap!CMSpec

----------------------------------------------------------------------------
USE PoolAssumption

CellOrNull == Cells \cup {Null}
Sizes == Small \cup Big
Pushes == {s \in Seq(CellOrNull) : s # <<>> => s[1] \in Cells /\ Len(s) \in 1 .. 2}

(* The type of every variable. *)
SlabTypes ==
  /\ cur \in PoolSlabs \cup {Null} /\ hp \in 0 .. SlabRoom
  /\ slabs \subseteq PoolSlabs /\ spare \subseteq PoolSlabs
CellTypes ==
  /\ total \in [Cells -> Sizes \cup {0}] /\ live \subseteq Cells
  /\ head \in [Lists -> CellOrNull] /\ link \in [Cells -> CellOrNull]
OwnerTypes ==
  /\ chain \in CellOrNull /\ want \in Sizes \cup {0} /\ push \in [Pushers -> Pushes]
PoolTypes == SlabTypes /\ CellTypes /\ OwnerTypes

(* Memory that is not handed out yet has no cells in it. *)
Uncut ==
  /\ \A c \in Cells : total[c] # 0 => /\ c[1] \notin slabs \cup spare
                                      /\ c[1] = cur => c[2] < hp
  /\ slabs \cap spare = {} /\ cur \notin slabs \cup spare
(* A cell in use has no link, and a push has linked what it saw. *)
Bare == \A c \in Cells : total[c] = 0 \/ c \in live => link[c] = Null
Seen == \A p \in Pushers : Len(push[p]) = 2 => link[push[p][1]] = push[p][2]

(* Who refers to a cell: its user, a push, the owner's chain, a list, or   *)
(* the link of a cell that nobody is pushing.                              *)
Held(p) == IF push[p] = <<>> THEN Null ELSE push[p][1]
Refers(k, x, c) ==
  \/ k = "live" /\ x = c /\ c \in live
  \/ k = "push" /\ x \in Pushers /\ Held(x) = c
  \/ k = "chain" /\ x = Null /\ chain = c
  \/ k = "head" /\ x \in Lists /\ head[x] = c
  \/ k = "link" /\ x \in Cells /\ total[x] # 0 /\ (\A p \in Pushers : Held(p) # x) /\ link[x] = c
OneReferrer ==
  \A c \in Cells :
    /\ total[c] # 0 <=> \E k, x : Refers(k, x, c)
    /\ \A k, l, x, y : Refers(k, x, c) /\ Refers(l, y, c) => k = l /\ x = y
PoolInv == PoolTypes /\ Uncut /\ Bare /\ Seen /\ OneReferrer

----------------------------------------------------------------------------
LEMMA Updated ==
  ASSUME NEW D, NEW R, NEW f \in [D -> R], NEW d \in D, NEW e \in R
  PROVE  /\ [f EXCEPT ![d] = e] \in [D -> R]
         /\ \A x \in D : [f EXCEPT ![d] = e][x] = IF x = d THEN e ELSE f[x]
OBVIOUS

LEMMA Types ==
  PoolTypes => /\ push \in [Pushers -> Pushes] /\ total \in [Cells -> Sizes \cup {0}]
               /\ live \subseteq Cells /\ chain \in CellOrNull /\ want \in Sizes \cup {0}
               /\ head \in [Lists -> CellOrNull] /\ link \in [Cells -> CellOrNull]
BY DEF PoolTypes, CellTypes, OwnerTypes

(* What a push is, and what it becomes. *)
LEMMA PushForm ==
  ASSUME NEW s \in Pushes, s # <<>>
  PROVE  /\ s \in Seq(CellOrNull) /\ s[1] \in Cells /\ Len(s) \in {1, 2}
         /\ Len(s) = 2 => s[2] \in CellOrNull
BY DEF Pushes

LEMMA PushBegun ==
  ASSUME NEW c \in Cells
  PROVE  <<c>> \in Pushes /\ <<c>> # <<>> /\ <<c>>[1] = c /\ Len(<<c>>) = 1
BY DEF Pushes, CellOrNull

LEMMA PushNone == <<>> \in Pushes /\ Len(<<>>) = 0
BY DEF Pushes

LEMMA PushLinked ==
  ASSUME NEW s \in Pushes, Len(s) = 1, NEW d \in CellOrNull
  PROVE  /\ Append(s, d) \in Pushes /\ Append(s, d) # <<>>
         /\ Append(s, d)[1] = s[1] /\ Append(s, d)[2] = d
<1>1. s \in Seq(CellOrNull) /\ s # <<>> /\ s[1] \in Cells
  <2>1. s # <<>>
    BY PushNone
  <2> QED BY <2>1, PushForm
<1>2. PICK t : t = Append(s, d)
  OBVIOUS
<1>3. /\ Append(s, d) \in Seq(CellOrNull) /\ Append(s, d) # <<>> /\ Len(Append(s, d)) = Len(s) + 1
      /\ \A i \in 1 .. Len(s) : Append(s, d)[i] = s[i]
      /\ Append(s, d)[Len(s) + 1] = d
  BY ONLY <1>1, d \in CellOrNull, AppendProperties
<1>4. t \in Seq(CellOrNull) /\ t # <<>> /\ Len(t) = 2 /\ t[1] = s[1] /\ t[2] = d
  <2>1. t[Len(s) + 1] = d /\ Len(t) = Len(s) + 1 /\ \A i \in 1 .. Len(s) : t[i] = s[i]
    BY <1>2, <1>3
  <2>2. t[1] = s[1] /\ Len(t) = 2 /\ t[2] = d
    BY ONLY <2>1, Len(s) = 1
  <2> QED BY <1>2, <1>3, <2>2
<1>5. t \in Pushes
  <2>1. t[1] \in Cells /\ Len(t) \in 1 .. 2
    BY <1>1, <1>4
  <2> QED BY ONLY <1>4, <2>1 DEF Pushes
<1> QED BY <1>2, <1>4, <1>5

(* A push becomes s, the others stay. *)
Becomes(p, s) ==
  /\ push' \in [Pushers -> Pushes]
  /\ \A q \in Pushers : push'[q] = IF q = p THEN s ELSE push[q]
  /\ \A q \in Pushers : Held(q)' = IF q # p THEN Held(q)
                                  ELSE IF s = <<>> THEN Null ELSE s[1]
PutsPush(p, s) == push \in [Pushers -> Pushes] /\ push' = [push EXCEPT ![p] = s]
LEMMA HeldAfter ==
  ASSUME NEW p \in Pushers, NEW s \in Pushes, PutsPush(p, s) PROVE Becomes(p, s)
<1> USE DEF PutsPush, Becomes
<1>1. push' \in [Pushers -> Pushes] /\ \A q \in Pushers : push'[q] = IF q = p THEN s ELSE push[q]
  OBVIOUS
<1> QED BY <1>1 DEF Held

LEMMA HeldType == PoolTypes => \A p \in Pushers : Held(p) \in CellOrNull
<1> SUFFICES ASSUME PoolTypes, NEW p \in Pushers PROVE Held(p) \in CellOrNull
  OBVIOUS
<1>1. push[p] \in Pushes
  BY Types
<1> QED BY <1>1 DEF Held, Pushes, CellOrNull

(* Cells change their referrer one or two at a time. *)
Moves(c, k, x, d, l, y) ==
  \A b \in Cells : \A n, z :
    Refers(n, z, b)' <=> IF b = c THEN n = k /\ z = x
                         ELSE IF b = d THEN n = l /\ z = y
                         ELSE Refers(n, z, b)
LEMMA Moved ==
  ASSUME OneReferrer, NEW c, NEW k, NEW x, NEW d, NEW l, NEW y, Moves(c, k, x, d, l, y),
         \A b \in Cells : total'[b] # 0 <=> (total[b] # 0 \/ b = c \/ b = d)
  PROVE  OneReferrer'
<1> SUFFICES ASSUME NEW b \in Cells
             PROVE  /\ total'[b] # 0 <=> \E n, z : Refers(n, z, b)'
                    /\ \A n, m, z, w : Refers(n, z, b)' /\ Refers(m, w, b)' => n = m /\ z = w
  BY DEF OneReferrer
<1>1. /\ total[b] # 0 <=> \E n, z : Refers(n, z, b)
      /\ \A n, m, z, w : Refers(n, z, b) /\ Refers(m, w, b) => n = m /\ z = w
  BY DEF OneReferrer
<1>2. \A n, z : Refers(n, z, b)' <=> IF b = c THEN n = k /\ z = x
                         ELSE IF b = d THEN n = l /\ z = y
                         ELSE Refers(n, z, b)
  BY DEF Moves
<1> QED BY <1>1, <1>2

(* A cell has the one referrer it is known to have. *)
LEMMA Only ==
  ASSUME OneReferrer, NEW c \in Cells, NEW k, NEW x, Refers(k, x, c)
  PROVE  total[c] # 0 /\ \A n, z : Refers(n, z, c) => n = k /\ z = x
BY DEF OneReferrer

LEMMA StaysUncut ==
  ASSUME Uncut, UNCHANGED <<cur, hp, slabs, spare, total>> PROVE Uncut'
BY DEF Uncut

----------------------------------------------------------------------------
LEMMA TakeListInv == ASSUME PoolInv, NEW n \in Sizes, TakeList(n) PROVE PoolInv'
<1> USE DEF PoolInv
<1>1. PICK l \in Lists : l = ListOf(n)
  BY DEF ListOf, Lists, Sizes
<1>2. PICK c \in Cells : c = head[l]
  BY <1>1, Types DEF TakeList, CellOrNull
<1>3. /\ chain = Null /\ chain' = c /\ want' = n
      /\ live' = live /\ push' = push /\ total' = total /\ link' = link
      /\ UNCHANGED <<cur, hp, slabs, spare>>
  BY <1>1, <1>2 DEF TakeList, Idle
<1>4. head' \in [Lists -> CellOrNull] /\ \A x \in Lists : head'[x] = IF x = l THEN Null ELSE head[x]
  BY <1>1, Types DEF TakeList, CellOrNull
<1>5. total[c] # 0 /\ \A k, z : Refers(k, z, c) => k = "head" /\ z = l
  <2>1. Refers("head", l, c)
    BY <1>2 DEF Refers
  <2> QED BY <2>1, Only
<1>6. \A p \in Pushers : Held(p)' = Held(p)
  BY <1>3 DEF Held
<1>7. Moves(c, "chain", Null, Null, "none", Null)
  <2> SUFFICES ASSUME NEW b \in Cells, NEW k, NEW z
               PROVE  Refers(k, z, b)' <=> IF b = c THEN k = "chain" /\ z = Null ELSE Refers(k, z, b)
    BY DEF Moves
  <2>1. k # "chain" /\ k # "head" => (Refers(k, z, b)' <=> Refers(k, z, b))
    BY <1>3, <1>6 DEF Refers
  <2>2. Refers("chain", z, b)' <=> b = c /\ z = Null
    BY <1>3 DEF Refers
  <2>3. ~Refers("chain", z, b)
    BY <1>3 DEF Refers
  <2>4. Refers("head", z, b)' <=> Refers("head", z, b) /\ z # l
    BY <1>4 DEF Refers
  <2>5. Refers("head", z, b) /\ z = l => b = c
    BY <1>2 DEF Refers
  <2> QED BY <1>5, <2>1, <2>2, <2>3, <2>4, <2>5
<1>8. OneReferrer'
  BY <1>3, <1>5, <1>7, Moved
<1>9. PoolTypes'
  BY <1>3, <1>4 DEF PoolTypes, SlabTypes, CellTypes, OwnerTypes, CellOrNull
<1>10. Uncut' /\ Bare' /\ Seen'
  BY <1>3, StaysUncut DEF Bare, Seen
<1> QED BY <1>8, <1>9, <1>10

LEMMA SortInv == ASSUME PoolInv, Sort PROVE PoolInv'
<1> USE DEF PoolInv
<1>1. PICK c \in Cells : c = chain
  BY Types DEF Sort, CellOrNull
<1>2. PICK d \in CellOrNull : d = link[c]
  BY Types
<1>3. /\ chain' = d /\ total' = total /\ head' = head /\ push[Owner] = <<>>
      /\ UNCHANGED <<cur, hp, slabs, spare>>
  BY <1>1, <1>2 DEF Sort
<1>4. link' \in [Cells -> CellOrNull] /\ \A x \in Cells : link'[x] = IF x = c THEN Null ELSE link[x]
  BY <1>1, Types DEF Sort, CellOrNull
<1>5. total[c] # 0 /\ \A k, z : Refers(k, z, c) => k = "chain" /\ z = Null
  <2>1. Refers("chain", Null, c)
    BY <1>1 DEF Refers
  <2> QED BY <2>1, Only
<1>6. c \notin live /\ (\A p \in Pushers : Held(p) # c) /\ \A x \in Lists : head[x] # c
  BY <1>5 DEF Refers
<1>7. d \in Cells => /\ total[d] # 0 /\ d # c
                     /\ \A k, z : Refers(k, z, d) => k = "link" /\ z = c
  <2> SUFFICES ASSUME d \in Cells PROVE Refers("link", c, d) /\ d # c
    BY Only
  <2>1. Refers("link", c, d)
    BY <1>2, <1>5, <1>6 DEF Refers
  <2> QED BY <1>5, <2>1
<1>8. Uncut' /\ Owner \in Pushers /\ Held(Owner) = Null
  BY <1>3, StaysUncut DEF Pushers, Held
<1>9. CASE live' = live \cup {c} /\ want' = 0 /\ push' = push
  <2>1. \A p \in Pushers : Held(p)' = Held(p)
    BY <1>9 DEF Held
  <2>2. Moves(c, "live", c, d, "chain", Null)
    <3> SUFFICES ASSUME NEW b \in Cells, NEW k, NEW z
                 PROVE  Refers(k, z, b)' <=> IF b = c THEN k = "live" /\ z = c
                                             ELSE IF b = d THEN k = "chain" /\ z = Null
                                             ELSE Refers(k, z, b)
      BY DEF Moves
    <3>1. Refers("live", z, b)' <=> Refers("live", z, b) \/ (b = c /\ z = c)
      BY <1>9 DEF Refers
    <3>2. Refers("chain", z, b)' <=> b = d /\ z = Null
      BY <1>3 DEF Refers
    <3>3. Refers("chain", z, b) <=> b = c /\ z = Null
      BY <1>1 DEF Refers
    <3>4. Refers("link", z, b)' <=> Refers("link", z, b) /\ z # c
      BY <1>3, <1>4, <2>1 DEF Refers
    <3>5. Refers("link", z, b) /\ z = c => b = d
      BY <1>2 DEF Refers
    <3>6. k # "live" /\ k # "chain" /\ k # "link" => (Refers(k, z, b)' <=> Refers(k, z, b))
      BY <1>3, <2>1 DEF Refers
    <3> QED BY <1>5, <1>7, <3>1, <3>2, <3>3, <3>4, <3>5, <3>6
  <2>3. OneReferrer'
    BY <1>3, <1>5, <1>7, <2>2, Moved
  <2>4. PoolTypes'
    BY <1>3, <1>4, <1>9 DEF PoolTypes, SlabTypes, CellTypes, OwnerTypes
  <2>5. Bare'
    BY <1>3, <1>4, <1>9 DEF Bare
  <2>6. Seen'
    <3> SUFFICES ASSUME NEW p \in Pushers, Len(push[p]) = 2
                 PROVE  link'[push[p][1]] = push[p][2]
      BY <1>9 DEF Seen
    <3>1. push[p] # <<>> /\ push[p][1] \in Cells
      BY Types, PushNone, PushForm
    <3>2. push[p][1] # c
      BY <1>6, <3>1 DEF Held
    <3> QED BY <1>4, <3>1, <3>2 DEF Seen
  <2> QED BY <1>8, <2>3, <2>4, <2>5, <2>6
<1>10. CASE push' = [push EXCEPT ![Owner] = <<c>>] /\ live' = live /\ want' = want
  <2>1. /\ push' \in [Pushers -> Pushes]
        /\ \A q \in Pushers : push'[q] = IF q = Owner THEN <<c>> ELSE push[q]
        /\ \A q \in Pushers : Held(q)' = IF q = Owner THEN c ELSE Held(q)
    <3>1. push \in [Pushers -> Pushes]
      BY Types
    <3>2. PICK s \in Pushes : s = <<c>> /\ s # <<>> /\ s[1] = c
      BY PushBegun
    <3>3. push' = [push EXCEPT ![Owner] = s]
      BY <1>10, <3>2
    <3>4. Becomes(Owner, s)
      <4>1. PutsPush(Owner, s) /\ Owner \in Pushers
        BY <1>8, <3>1, <3>3 DEF PutsPush
      <4> QED BY ONLY <4>1, s \in Pushes, HeldAfter
    <3> QED BY <3>2, <3>4 DEF Becomes
  <2>2. Moves(c, "push", Owner, d, "chain", Null)
    <3> SUFFICES ASSUME NEW b \in Cells, NEW k, NEW z
                 PROVE  Refers(k, z, b)' <=> IF b = c THEN k = "push" /\ z = Owner
                                             ELSE IF b = d THEN k = "chain" /\ z = Null
                                             ELSE Refers(k, z, b)
      BY DEF Moves
    <3>1. Refers("push", z, b)' <=> Refers("push", z, b) \/ (b = c /\ z = Owner)
      BY <1>8, <2>1 DEF Refers
    <3>2. Refers("chain", z, b)' <=> b = d /\ z = Null
      BY <1>3 DEF Refers
    <3>3. Refers("chain", z, b) <=> b = c /\ z = Null
      BY <1>1 DEF Refers
    <3>4. Refers("link", z, b)' <=> Refers("link", z, b) /\ z # c
      BY <1>3, <1>4, <1>8, <2>1 DEF Refers
    <3>5. Refers("link", z, b) /\ z = c => b = d
      BY <1>2 DEF Refers
    <3>6. k = "live" \/ k = "head" => (Refers(k, z, b)' <=> Refers(k, z, b))
      BY <1>3, <1>10 DEF Refers
    <3>7. k \notin {"live", "push", "chain", "head", "link"} => ~Refers(k, z, b) /\ ~Refers(k, z, b)'
      BY DEF Refers
    <3> QED BY <1>5, <1>7, <3>1, <3>2, <3>3, <3>4, <3>5, <3>6, <3>7
  <2>3. OneReferrer'
    BY <1>3, <1>5, <1>7, <2>2, Moved
  <2>4. PoolTypes'
    BY <1>3, <1>4, <1>10, <2>1 DEF PoolTypes, SlabTypes, CellTypes, OwnerTypes
  <2>5. Bare'
    BY <1>3, <1>4, <1>10 DEF Bare
  <2>6. Seen'
    <3> SUFFICES ASSUME NEW p \in Pushers, Len(push'[p]) = 2
                 PROVE  link'[push'[p][1]] = push'[p][2]
      BY DEF Seen
    <3>1. p # Owner /\ push'[p] = push[p]
      BY <2>1, PushBegun
    <3>2. push[p] # <<>> /\ push[p][1] \in Cells
      BY <3>1, Types, PushNone, PushForm
    <3>3. push[p][1] # c
      BY <1>6, <3>2 DEF Held
    <3> QED BY <1>4, <3>1, <3>2, <3>3 DEF Seen
  <2> QED BY <1>8, <2>3, <2>4, <2>5, <2>6
<1> QED BY <1>1, <1>9, <1>10 DEF Sort

(* A cell is carved from memory that had none. *)
LEMMA CutInv ==
  ASSUME PoolInv, NEW n \in Sizes, NEW s \in PoolSlabs, NEW from \in Nat,
         Bump(s, from, n), from + n <= SlabRoom,
         (s = cur /\ from = hp) \/ s \in slabs \cup spare,
         slabs' \subseteq slabs, spare' \subseteq slabs \cup spare, slabs' \cap spare' = {},
         s \notin slabs' \cup spare', want' = 0,
         UNCHANGED <<head, link, chain, push>>
  PROVE  PoolInv'
<1> USE DEF PoolInv
<1>0. n \in Nat /\ n > 0 /\ from \in 0 .. SlabRoom - 1
  BY DEF Sizes
<1>1. PICK c \in Cells : c = <<s, from>> /\ c[1] = s /\ c[2] = from
  <2>1. <<s, from>> \in PoolSlabs \X (0 .. SlabRoom - 1)
    BY ONLY <1>0, s \in PoolSlabs
  <2>2. <<s, from>>[1] = s /\ <<s, from>>[2] = from
    OBVIOUS
  <2> QED BY <2>1, <2>2 DEF Cells
<1>2. total[c] = 0
  BY <1>1, Types DEF Uncut
<1>3. link[c] = Null /\ (\A k, z : ~Refers(k, z, c))
  BY <1>2 DEF Bare, OneReferrer
<1>4. /\ total' \in [Cells -> Sizes \cup {0}]
      /\ \A x \in Cells : total'[x] = IF x = c THEN n ELSE total[x]
      /\ live' = live \cup {c} /\ cur' = s /\ hp' = from + n
  BY <1>1, Types DEF Bump
<1>5. \A p \in Pushers : Held(p)' = Held(p)
  BY DEF Held
<1>6. Moves(c, "live", c, Null, "none", Null)
  <2> SUFFICES ASSUME NEW b \in Cells, NEW k, NEW z
               PROVE  Refers(k, z, b)' <=> IF b = c THEN k = "live" /\ z = c ELSE Refers(k, z, b)
    BY DEF Moves
  <2>1. Refers("live", z, b)' <=> Refers("live", z, b) \/ (b = c /\ z = c)
    BY <1>4 DEF Refers
  <2>2. Refers("link", z, b)' <=> Refers("link", z, b)
    BY <1>0, <1>2, <1>3, <1>4, <1>5 DEF Refers
  <2>3. k # "live" /\ k # "link" => (Refers(k, z, b)' <=> Refers(k, z, b))
    BY <1>5 DEF Refers
  <2> QED BY <1>3, <2>1, <2>2, <2>3
<1>7. OneReferrer'
  BY <1>0, <1>4, <1>6, Moved
<1>8. PoolTypes'
  BY <1>0, <1>4 DEF PoolTypes, SlabTypes, CellTypes, OwnerTypes
<1>9. Uncut'
  <2>1. ASSUME NEW x \in Cells, total'[x] # 0
        PROVE  x[1] \notin slabs' \cup spare' /\ (x[1] = cur' => x[2] < hp')
    <3>1. CASE x = c
      BY <1>0, <1>1, <1>4, <3>1
    <3>2. CASE x # c
      <4>1. x[1] \notin slabs \cup spare /\ (x[1] = cur => x[2] < hp) /\ x[2] \in Nat
        BY <1>4, <2>1, <3>2 DEF Uncut, Cells
      <4> QED BY <1>0, <1>4, <4>1
    <3> QED BY <3>1, <3>2
  <2> QED BY <1>4, <2>1 DEF Uncut
<1>10. Bare' /\ Seen'
  BY <1>3, <1>4 DEF Bare, Seen
<1> QED BY <1>7, <1>8, <1>9, <1>10

LEMMA BumpCellInv == ASSUME PoolInv, NEW n \in Sizes, BumpCell(n) PROVE PoolInv'
<1>1. /\ cur \in PoolSlabs \cup {Null} /\ hp \in 0 .. SlabRoom /\ slabs \subseteq PoolSlabs
      /\ spare \subseteq PoolSlabs /\ slabs \cap spare = {} /\ cur \notin slabs \cup spare
  BY DEF PoolInv, PoolTypes, SlabTypes, Uncut
<1>2. want' = 0 /\ UNCHANGED <<head, link, chain, push>> /\ n \in Nat /\ n <= SlabRoom
  BY DEF BumpCell, Sizes
<1>3. CASE cur # Null /\ hp + n <= SlabRoom /\ Bump(cur, hp, n) /\ UNCHANGED <<slabs, spare>>
  <2>1. PICK s \in PoolSlabs, from \in Nat : s = cur /\ from = hp
    BY <1>1, <1>3
  <2> QED BY <1>1, <1>2, <1>3, <2>1, CutInv
<1>4. ASSUME NEW s \in spare, Bump(s, 0, n), spare' = spare \ {s}, UNCHANGED slabs PROVE PoolInv'
  <2>1. s \in PoolSlabs /\ slabs' \subseteq slabs /\ spare' \subseteq slabs \cup spare
        /\ slabs' \cap spare' = {} /\ s \notin slabs' \cup spare' /\ 0 + n <= SlabRoom
    BY <1>1, <1>2, <1>4
  <2> QED BY ONLY PoolInv, n \in Sizes, <1>2, <1>4, <2>1, CutInv
<1>5. ASSUME spare = {}, NEW s \in slabs, Bump(s, 0, n), NEW w \in SUBSET (slabs \ {s}),
             slabs' = slabs \ (w \cup {s}), spare' = w
      PROVE  PoolInv'
  <2>1. s \in PoolSlabs /\ slabs' \subseteq slabs /\ spare' \subseteq slabs \cup spare
        /\ slabs' \cap spare' = {} /\ s \notin slabs' \cup spare' /\ 0 + n <= SlabRoom
    BY <1>1, <1>2, <1>5
  <2> QED BY ONLY PoolInv, n \in Sizes, <1>2, <1>5, <2>1, CutInv
<1> QED BY <1>3, <1>4, <1>5 DEF BumpCell

LEMMA FreeInv == ASSUME PoolInv, NEW p \in Pushers, Free(p) PROVE PoolInv'
<1> USE DEF PoolInv
<1>1. PICK c \in live : live' = live \ {c} /\ push' = [push EXCEPT ![p] = <<c>>]
  BY DEF Free
<1>2. c \in Cells /\ push[p] = <<>>
  BY Types DEF Free
<1>3. /\ total' = total /\ head' = head /\ link' = link /\ chain' = chain /\ want' = want
      /\ UNCHANGED <<cur, hp, slabs, spare>>
  BY DEF Free
<1>4. /\ push' \in [Pushers -> Pushes]
      /\ \A q \in Pushers : push'[q] = IF q = p THEN <<c>> ELSE push[q]
      /\ \A q \in Pushers : Held(q)' = IF q = p THEN c ELSE Held(q)
  <2>1. PICK s \in Pushes : s = <<c>> /\ s # <<>> /\ s[1] = c
    BY <1>2, PushBegun
  <2>2. push \in [Pushers -> Pushes] /\ push' = [push EXCEPT ![p] = s]
    BY <1>1, <2>1, Types
  <2>3. Becomes(p, s)
    <3>1. PutsPush(p, s) /\ p \in Pushers
      BY <2>2 DEF PutsPush
    <3> QED BY ONLY <3>1, s \in Pushes, HeldAfter
  <2> QED BY <2>1, <2>3 DEF Becomes
<1>5. total[c] # 0 /\ \A k, z : Refers(k, z, c) => k = "live" /\ z = c
  <2>1. Refers("live", c, c)
    BY <1>1 DEF Refers
  <2> QED BY <1>2, <2>1, Only
<1>6. link[c] = Null /\ Held(p) = Null
  BY <1>1, <1>2 DEF Bare, Held
<1>7. Moves(c, "push", p, Null, "none", Null)
  <2> SUFFICES ASSUME NEW b \in Cells, NEW k, NEW z
               PROVE  Refers(k, z, b)' <=> IF b = c THEN k = "push" /\ z = p ELSE Refers(k, z, b)
    BY DEF Moves
  <2>1. Refers("live", z, b)' <=> Refers("live", z, b) /\ b # c
    BY <1>1 DEF Refers
  <2>2. Refers("push", z, b)' <=> Refers("push", z, b) \/ (b = c /\ z = p)
    BY <1>4, <1>6 DEF Refers
  <2>3. Refers("link", z, b)' <=> Refers("link", z, b)
    BY <1>3, <1>4, <1>6 DEF Refers
  <2>4. k = "chain" \/ k = "head" => (Refers(k, z, b)' <=> Refers(k, z, b))
    BY <1>3 DEF Refers
  <2>5. k \notin {"live", "push", "chain", "head", "link"} => ~Refers(k, z, b) /\ ~Refers(k, z, b)'
    BY DEF Refers
  <2> QED BY <1>5, <2>1, <2>2, <2>3, <2>4, <2>5
<1>8. OneReferrer'
  BY <1>3, <1>5, <1>7, Moved
<1>9. PoolTypes'
  BY <1>1, <1>3, <1>4 DEF PoolTypes, SlabTypes, CellTypes, OwnerTypes
<1>10. Bare' /\ Uncut'
  BY <1>1, <1>3, StaysUncut DEF Bare
<1>11. Seen'
  <2>1. \A q \in Pushers : Len(push'[q]) = 2 => push'[q] = push[q]
    BY <1>2, <1>4, PushBegun
  <2> QED BY <1>3, <2>1 DEF Seen
<1> QED BY <1>8, <1>9, <1>10, <1>11

(* The cell of a push and what the push may see. *)
LEMMA Pushing ==
  ASSUME PoolInv, NEW p \in Pushers, push[p] # <<>>
  PROVE  /\ push[p] \in Pushes /\ push[p][1] \in Cells /\ Held(p) = push[p][1]
         /\ total[push[p][1]] # 0 /\ push[p][1] \notin live
         /\ \A q \in Pushers : Held(q) = push[p][1] => q = p
         /\ ListOf(total[push[p][1]]) \in Lists
         /\ head[ListOf(total[push[p][1]])] \in CellOrNull
         /\ \A k, z : Refers(k, z, push[p][1]) => k = "push" /\ z = p
<1> USE DEF PoolInv
<1>1. push[p] \in Pushes /\ push[p][1] \in Cells /\ Held(p) = push[p][1]
  BY Types, PushForm DEF Held
<1>2. PICK c \in Cells : c = push[p][1]
  BY <1>1
<1>3. total[c] # 0 /\ \A k, z : Refers(k, z, c) => k = "push" /\ z = p
  <2>1. Refers("push", p, c)
    BY <1>1, <1>2 DEF Refers
  <2> QED BY <2>1, Only
<1>4. c \notin live /\ \A q \in Pushers : Held(q) = c => q = p
  BY <1>3 DEF Refers
<1>5. ListOf(total[c]) \in Lists
  BY DEF ListOf, Lists
<1>6. head[ListOf(total[c])] \in CellOrNull
  BY <1>5, Types
<1> QED BY <1>1, <1>2, <1>3, <1>4, <1>5, <1>6

LEMMA LinkCellInv == ASSUME PoolInv, NEW p \in Pushers, LinkCell(p) PROVE PoolInv'
<1> USE DEF PoolInv
<1>0. push[p] # <<>> /\ Len(push[p]) = 1
  BY DEF LinkCell
<1>1. PICK c \in Cells : c = push[p][1]
  BY <1>0, Pushing
<1>2. /\ Held(p) = c /\ total[c] # 0 /\ c \notin live
      /\ \A q \in Pushers : Held(q) = c => q = p
  BY <1>0, <1>1, Pushing
<1>3. PICK d \in CellOrNull : d = PushList(p)
  BY <1>0, Pushing DEF PushList
<1>4. /\ total' = total /\ live' = live /\ head' = head /\ chain' = chain /\ want' = want
      /\ UNCHANGED <<cur, hp, slabs, spare>>
  BY DEF LinkCell
<1>5. link' \in [Cells -> CellOrNull] /\ \A x \in Cells : link'[x] = IF x = c THEN d ELSE link[x]
  BY <1>1, <1>3, Types DEF LinkCell
<1>6. PICK s \in Pushes : s = Append(push[p], d) /\ s # <<>> /\ s[1] = c /\ s[2] = d
  <2>1. PICK r \in Pushes : r = push[p]
    BY <1>0, Pushing
  <2>2. Append(r, d) \in Pushes /\ Append(r, d) # <<>> /\ Append(r, d)[1] = r[1] /\ Append(r, d)[2] = d
    BY ONLY <1>0, <2>1, r \in Pushes, d \in CellOrNull, PushLinked
  <2> QED BY <1>1, <2>1, <2>2
<1>7. /\ push' \in [Pushers -> Pushes]
      /\ \A q \in Pushers : push'[q] = IF q = p THEN s ELSE push[q]
      /\ \A q \in Pushers : Held(q)' = Held(q)
  <2>1. push \in [Pushers -> Pushes] /\ push' = [push EXCEPT ![p] = s]
    BY <1>3, <1>6, Types DEF LinkCell
  <2>2. Becomes(p, s)
    <3>1. PutsPush(p, s) /\ p \in Pushers
      BY <2>1 DEF PutsPush
    <3> QED BY ONLY <3>1, s \in Pushes, HeldAfter
  <2> QED BY <1>2, <1>6, <2>2 DEF Becomes
<1>8. Moves(Null, "none", Null, Null, "none", Null)
  <2> SUFFICES ASSUME NEW b \in Cells, NEW k, NEW z PROVE Refers(k, z, b)' <=> Refers(k, z, b)
    BY DEF Moves
  <2>1. Refers("link", z, b)' <=> Refers("link", z, b)
    BY <1>2, <1>4, <1>5, <1>7 DEF Refers
  <2>2. k # "link" => (Refers(k, z, b)' <=> Refers(k, z, b))
    BY <1>4, <1>7 DEF Refers
  <2> QED BY <2>1, <2>2
<1>9. OneReferrer'
  BY <1>4, <1>8, Moved
<1>10. PoolTypes'
  BY <1>4, <1>5, <1>7 DEF PoolTypes, SlabTypes, CellTypes, OwnerTypes
<1>11. Bare' /\ Uncut'
  BY <1>2, <1>4, <1>5, StaysUncut DEF Bare
<1>12. Seen'
  <2> SUFFICES ASSUME NEW q \in Pushers, Len(push'[q]) = 2 PROVE link'[push'[q][1]] = push'[q][2]
    BY DEF Seen
  <2>1. CASE q = p
    BY <1>5, <1>6, <1>7, <2>1
  <2>2. CASE q # p
    <3>1. push'[q] = push[q] /\ push[q] # <<>>
      BY <1>7, <2>2, PushNone
    <3>2. push[q][1] \in Cells /\ push[q][1] # c
      BY <1>2, <2>2, <3>1, Pushing
    <3> QED BY <1>5, <3>1, <3>2 DEF Seen
  <2> QED BY <2>1, <2>2
<1> QED BY <1>9, <1>10, <1>11, <1>12

LEMMA PushCasInv == ASSUME PoolInv, NEW p \in Pushers, PushCas(p) PROVE PoolInv'
<1> USE DEF PoolInv
<1>0. push[p] # <<>> /\ Len(push[p]) = 2
  BY PushNone DEF PushCas
<1>1. PICK c \in Cells : c = push[p][1]
  BY <1>0, Pushing
<1>2. /\ Held(p) = c /\ total[c] # 0 /\ c \notin live
      /\ \A q \in Pushers : Held(q) = c => q = p
      /\ \A k, z : Refers(k, z, c) => k = "push" /\ z = p
  BY <1>0, <1>1, Pushing
<1>3. PICK l \in Lists : l = ListOf(total[c])
  BY <1>0, <1>1, Pushing
<1>4. PICK e \in CellOrNull : e = link[c] /\ e = push[p][2]
  <2>1. link[c] = push[p][2]
    BY <1>0, <1>1 DEF Seen
  <2> QED BY <2>1, Types
<1>5. /\ total' = total /\ live' = live /\ link' = link /\ chain' = chain /\ want' = want
      /\ UNCHANGED <<cur, hp, slabs, spare>>
  BY DEF PushCas
<1>6. Bare' /\ Uncut'
  BY <1>5, StaysUncut DEF Bare
<1>7. ASSUME NEW s \in Pushes, push' = [push EXCEPT ![p] = s], Len(s) # 2
      PROVE  /\ push' \in [Pushers -> Pushes] /\ Seen'
             /\ \A q \in Pushers : Held(q)' = IF q # p THEN Held(q)
                                             ELSE IF s = <<>> THEN Null ELSE s[1]
  <2>0. push' = [push EXCEPT ![p] = s]
    BY <1>7
  <2>1. push \in [Pushers -> Pushes]
    BY Types
  <2>2. Becomes(p, s)
    <3>1. PutsPush(p, s) /\ p \in Pushers
      BY <2>0, <2>1 DEF PutsPush
    <3> QED BY ONLY <3>1, s \in Pushes, HeldAfter
  <2>3. \A q \in Pushers : Len(push'[q]) = 2 => push'[q] = push[q]
    BY <1>7, <2>2 DEF Becomes
  <2>4. Seen'
    BY <1>5, <2>3 DEF Seen
  <2> QED BY <2>2, <2>4 DEF Becomes
<1>8. CASE head[l] = e
  <2>1. push' = [push EXCEPT ![p] = <<>>] /\ head' = [head EXCEPT ![l] = c]
    BY <1>1, <1>3, <1>4, <1>8 DEF PushCas, PushList
  <2>2. PICK s \in Pushes : s = <<>> /\ Len(s) # 2
    BY PushNone
  <2>3. push' \in [Pushers -> Pushes] /\ Seen'
        /\ \A q \in Pushers : Held(q)' = IF q = p THEN Null ELSE Held(q)
    <3>1. push' = [push EXCEPT ![p] = s]
      BY <2>1, <2>2
    <3> QED BY <1>7, <2>2, <3>1
  <2>4. head' \in [Lists -> CellOrNull] /\ \A x \in Lists : head'[x] = IF x = l THEN c ELSE head[x]
    BY <2>1, Types DEF CellOrNull
  <2>5. e \in Cells => /\ total[e] # 0 /\ e # c
                       /\ \A k, z : Refers(k, z, e) => k = "head" /\ z = l
    <3> SUFFICES ASSUME e \in Cells PROVE Refers("head", l, e) /\ e # c
      BY Only
    <3>1. Refers("head", l, e)
      BY <1>8 DEF Refers
    <3> QED BY <1>2, <3>1
  <2>6. Moves(c, "head", l, e, "link", c)
    <3> SUFFICES ASSUME NEW b \in Cells, NEW k, NEW z
                 PROVE  Refers(k, z, b)' <=> IF b = c THEN k = "head" /\ z = l
                                             ELSE IF b = e THEN k = "link" /\ z = c
                                             ELSE Refers(k, z, b)
      BY DEF Moves
    <3>1. Refers("push", z, b)' <=> Refers("push", z, b) /\ b # c
      BY <1>2, <2>3 DEF Refers
    <3>2. Refers("head", z, b)' <=> (Refers("head", z, b) /\ z # l) \/ (b = c /\ z = l)
      BY <2>4 DEF Refers
    <3>3. Refers("head", z, b) /\ z = l => b = e
      BY <1>8 DEF Refers
    <3>4. Refers("link", z, b)' <=> Refers("link", z, b) \/ (b = e /\ z = c)
      <4>1. \A x \in Cells : (\A q \in Pushers : Held(q)' # x) <=>
                             (x = c \/ \A q \in Pushers : Held(q) # x)
        BY <1>2, <2>3
      <4> QED BY <1>2, <1>4, <1>5, <4>1 DEF Refers
    <3>5. k = "live" \/ k = "chain" => (Refers(k, z, b)' <=> Refers(k, z, b))
      BY <1>5 DEF Refers
    <3>6. k \notin {"live", "push", "chain", "head", "link"} => ~Refers(k, z, b) /\ ~Refers(k, z, b)'
      BY DEF Refers
    <3> QED BY <1>2, <2>5, <3>1, <3>2, <3>3, <3>4, <3>5, <3>6
  <2>7. OneReferrer'
    BY <1>2, <1>5, <2>5, <2>6, Moved
  <2>8. PoolTypes'
    BY <1>5, <2>3, <2>4 DEF PoolTypes, SlabTypes, CellTypes, OwnerTypes
  <2> QED BY <1>6, <2>3, <2>7, <2>8
<1>9. CASE head[l] # e
  <2>1. push' = [push EXCEPT ![p] = <<c>>] /\ head' = head
    BY <1>1, <1>3, <1>4, <1>9 DEF PushCas, PushList
  <2>2. PICK s \in Pushes : s = <<c>> /\ s # <<>> /\ s[1] = c /\ Len(s) = 1
    BY PushBegun
  <2>3. push' \in [Pushers -> Pushes] /\ Seen' /\ \A q \in Pushers : Held(q)' = Held(q)
    <3>1. push' = [push EXCEPT ![p] = s] /\ Len(s) # 2
      BY <2>1, <2>2
    <3>2. /\ push' \in [Pushers -> Pushes] /\ Seen'
          /\ \A q \in Pushers : Held(q)' = IF q # p THEN Held(q)
                                          ELSE IF s = <<>> THEN Null ELSE s[1]
      BY <1>7, <3>1
    <3> QED BY <1>2, <2>2, <3>2
  <2>4. Moves(Null, "none", Null, Null, "none", Null)
    BY <1>5, <2>1, <2>3 DEF Moves, Refers
  <2>5. OneReferrer'
    BY <1>5, <2>4, Moved
  <2>6. PoolTypes'
    BY <1>5, <2>1, <2>3 DEF PoolTypes, SlabTypes, CellTypes, OwnerTypes
  <2> QED BY <1>6, <2>3, <2>5, <2>6
<1> QED BY <1>8, <1>9

----------------------------------------------------------------------------
LEMMA PoolStart == PoolInit => PoolInv
<1> SUFFICES ASSUME PoolInit PROVE PoolInv
  OBVIOUS
<1>1. /\ cur = Null /\ hp = 0 /\ slabs = PoolSlabs /\ spare = {} /\ live = {}
      /\ \A c \in Cells : total[c] = 0 /\ link[c] = Null
      /\ \A l \in Lists : head[l] = Null
      /\ chain = Null /\ want = 0 /\ \A p \in Pushers : push[p] = <<>>
  BY DEF PoolInit
<1>2. SlabTypes
  BY <1>1 DEF SlabTypes
<1>3. CellTypes /\ OwnerTypes
  BY PushNone DEF CellTypes, OwnerTypes, CellOrNull, PoolInit
<1>4. Uncut /\ Bare
  BY <1>1 DEF Uncut, Bare
<1>5. Seen
  BY <1>1, PushNone DEF Seen
<1>6. \A c \in Cells : \A k, x : ~Refers(k, x, c)
  BY <1>1 DEF Refers, Held
<1>7. OneReferrer
  BY <1>1, <1>6 DEF OneReferrer
<1> QED BY <1>2, <1>3, <1>4, <1>5, <1>7 DEF PoolInv, PoolTypes

LEMMA PoolStep == PoolInv /\ [PoolNext]_pvars => PoolInv'
<1> SUFFICES ASSUME PoolInv, [PoolNext]_pvars PROVE PoolInv'
  OBVIOUS
<1>1. CASE UNCHANGED pvars
  BY <1>1 DEF pvars, PoolInv, PoolTypes, SlabTypes, CellTypes, OwnerTypes, Uncut, Bare, Seen,
              OneReferrer, Refers, Held
<1>2. CASE PoolNext
  BY <1>2, TakeListInv, BumpCellInv, SortInv, FreeInv, LinkCellInv, PushCasInv DEF PoolNext, Sizes
<1> QED BY <1>1, <1>2

(* One referrer, counted. *)
LEMMA OneIsOnce == PoolInv => CellOnce
<1> SUFFICES ASSUME PoolInv, NEW c \in Cells, total[c] # 0
             PROVE  Cardinality({c} \cap live) + Cardinality({c} \cap Pushed)
                    + Cardinality({c} \cap {chain}) + Cardinality({l \in Lists : head[l] = c})
                    + Cardinality({d \in Carved \ Pushed : link[d] = c}) = 1
  BY DEF CellOnce, Carved
<1>1. PICK k, x : Refers(k, x, c)
  BY DEF PoolInv, OneReferrer
<1>2. \A l, y : Refers(l, y, c) => l = k /\ y = x
  BY <1>1 DEF PoolInv, OneReferrer
<1>3. \A d \in Cells : d \in Pushed <=> \E p \in Pushers : Held(p) = d
  BY DEF Pushed, Held
<1>4. {c} \cap live = IF k = "live" THEN {c} ELSE {}
  BY <1>1, <1>2 DEF Refers
<1>5. {c} \cap Pushed = IF k = "push" THEN {c} ELSE {}
  BY <1>1, <1>2, <1>3 DEF Refers
<1>6. {c} \cap {chain} = IF k = "chain" THEN {c} ELSE {}
  BY <1>1, <1>2 DEF Refers
<1>7. {l \in Lists : head[l] = c} = IF k = "head" THEN {x} ELSE {}
  BY <1>1, <1>2 DEF Refers
<1>8. {d \in Carved \ Pushed : link[d] = c} = IF k = "link" THEN {x} ELSE {}
  BY <1>1, <1>2, <1>3 DEF Refers, Carved
<1>9. k \in {"live", "push", "chain", "head", "link"}
  BY <1>1 DEF Refers
<1>10. Cardinality({}) = 0 /\ Cardinality({c}) = 1 /\ Cardinality({x}) = 1
  BY FS_EmptySet, FS_Singleton
<1>11. /\ Cardinality({c} \cap live) = (IF k = "live" THEN 1 ELSE 0)
       /\ Cardinality({c} \cap Pushed) = (IF k = "push" THEN 1 ELSE 0)
       /\ Cardinality({c} \cap {chain}) = (IF k = "chain" THEN 1 ELSE 0)
       /\ Cardinality({l \in Lists : head[l] = c}) = (IF k = "head" THEN 1 ELSE 0)
       /\ Cardinality({d \in Carved \ Pushed : link[d] = c}) = (IF k = "link" THEN 1 ELSE 0)
  BY <1>4, <1>5, <1>6, <1>7, <1>8, <1>10
<1> QED BY ONLY <1>9, <1>11

(* Every cell that was ever carved has one referrer: it is not handed out  *)
(* twice, and no push that races the owner's exchange of the list, or      *)
(* another push, loses one.                                                *)
THEOREM CellsOnce == PoolSpec => []CellOnce
<1>1. PoolInit => PoolInv
  BY PoolStart
<1>2. PoolInv /\ [PoolNext]_pvars => PoolInv'
  BY PoolStep
<1>3. PoolInv => CellOnce
  BY OneIsOnce
<1> QED BY <1>1, <1>2, <1>3, PTL DEF PoolSpec

----------------------------------------------------------------------------
(***************************************************************************)
(* The slabs and the ARC table.  A header counts: `holds' the windows open *)
(* over the slab and the senders that pack into it, `escaped' the counted  *)
(* roots and the closures in it; and every reference to a root is counted, *)
(* or is the only one.                                                     *)
(***************************************************************************)
HIDE PoolAssumption
USE ArcAssumption

Kinds == {"home", "msg", "pool"}
SlabRec == [kind : Kinds, owner : ArcActors \cup {NoOne}, hp : Int, escaped : Int, holds : Int]
Counts == [ArcActors -> [Roots -> Nat]]
SlabMaybe == Slabs \cup {NoSlab}
Sends == {<<>>} \cup {<<m>> : m \in Roots}

(* The type of every variable; an open window is one of the parked slabs. *)
RootTypes ==
  /\ sl \in [Slabs -> SlabRec] /\ root \in [Roots -> SlabMaybe] /\ cnt \in [Roots -> Nat]
  /\ has \in Counts /\ box \in Counts
ActorTypes ==
  /\ snd \in [ArcActors -> Sends]
  /\ mslab \in [ArcActors -> SlabMaybe] /\ ent \in [ArcActors -> SlabMaybe]
  /\ dp \in [ArcActors -> Seq(Slabs)] /\ alive \subseteq ArcActors
  /\ win \in [ArcActors -> SUBSET Slabs]
ArcTypes == RootTypes /\ ActorTypes

Entry == ArcActors \X (Nat \ {0})
(* Who holds a slab, and what has escaped from it. *)
Windows(s) == {w \in Entry : w[2] \in Entries(dp[w[1]], s)}
Packers(s) == {a \in ArcActors : mslab[a] = s}
Counted(s) == {m \in Roots : root[m] = s /\ cnt[m] # 0}
Closures(s) == {a \in ArcActors : ent[a] = s}
Uncounted(s) == {m \in Roots : root[m] = s /\ cnt[m] = 0}
HoldsOf(s) == Cardinality(Windows(s)) + Cardinality(Packers(s))
EscapedOf(s) == Cardinality(Counted(s)) + Cardinality(Closures(s))

(* The header of a slab with h holders, e escaped objects and, roots of U  *)
(* that nobody has counted yet.                                            *)
Fits(x, h, e, U) ==
  /\ x \in SlabRec /\ x.holds = h /\ x.escaped = e
  /\ x.kind = "home" => x.owner = NoOne /\ h = 0 /\ e = 0 /\ U = {}
  /\ x.kind # "home" /\ x.owner = NoOne => h # 0 \/ e # 0 \/ U # {}
  /\ x.owner # NoOne => h = 0
Header(s) ==
  /\ IsFiniteSet(Windows(s)) /\ IsFiniteSet(Counted(s))
  /\ Fits(sl[s], HoldsOf(s), EscapedOf(s), Uncounted(s))
Headers == \A s \in Slabs : Header(s)

(* The references to a root: held, queued, and about to be queued. *)
Refs(f, m) == {r \in Entry : r[2] <= f[r[1]][m]}
Senders(m) == {a \in ArcActors : snd[a] = <<m>>}
Total(m) == Cardinality(Refs(has, m)) + Cardinality(Refs(box, m)) + Cardinality(Senders(m))
(* An uncounted root is a value in its owner's pool, or a copy that its sender *)
(* has yet to count: it packs into that slab, or the slab holds nothing else.  *)
Local(m) == LET a == sl[root[m]].owner IN a # NoOne /\ has[a][m] = 1
Sending(m) ==
  /\ Ownerless(root[m])
  /\ \E a \in Senders(m) :
       \/ a \in alive /\ mslab[a] = root[m]
       \/ HoldsOf(root[m]) = 0 /\ EscapedOf(root[m]) = 0 /\ Uncounted(root[m]) = {m}
Reference(m) ==
  /\ IsFiniteSet(Refs(has, m)) /\ IsFiniteSet(Refs(box, m))
  /\ cnt[m] # 0 => root[m] # NoSlab /\ Total(m) <= cnt[m]
  /\ cnt[m] = 0 /\ root[m] = NoSlab => Total(m) = 0
  /\ cnt[m] = 0 /\ root[m] # NoSlab => Total(m) = 1 /\ (Local(m) \/ Sending(m))
References == \A m \in Roots : Reference(m)

Living ==
  /\ \A s \in Slabs : ~Ownerless(s) => sl[s].owner \in alive
  /\ \A a \in ArcActors : /\ ent[a] # NoSlab => Ownerless(ent[a])
                          /\ ent[a] = NoSlab <=> a \notin alive
                          /\ \A s \in win[a] : Entries(dp[a], s) # {}
ArcInv == ArcTypes /\ Headers /\ References /\ Living

----------------------------------------------------------------------------
(* A finite set of pairs gains or loses one. *)
LEMMA OneMore ==
  ASSUME NEW S, NEW T, NEW x, IsFiniteSet(S), x \notin S, T = S \cup {x}
  PROVE  IsFiniteSet(T) /\ Cardinality(T) = Cardinality(S) + 1 /\ Cardinality(S) \in Nat
BY FS_AddElement, FS_CardinalityType
LEMMA OneLess ==
  ASSUME NEW S, NEW T, NEW x, IsFiniteSet(S), x \in S, T = S \ {x}
  PROVE  IsFiniteSet(T) /\ Cardinality(T) = Cardinality(S) - 1 /\ Cardinality(T) \in Nat
BY FS_RemoveElement, FS_CardinalityType
LEMMA NoneIn ==
  ASSUME NEW S, IsFiniteSet(S)
  PROVE  /\ Cardinality(S) \in Nat /\ (Cardinality(S) = 0 <=> S = {})
         /\ \A x \in S : Cardinality(S) >= 1 /\ (Cardinality(S) = 1 => S = {x})
<1>1. Cardinality(S) \in Nat /\ (Cardinality(S) = 0 <=> S = {})
  BY FS_CardinalityType, FS_EmptySet
<1>2. Cardinality(S) = 1 => \E y : S = {y}
  BY FS_Singleton
<1> QED BY <1>1, <1>2
LEMMA TwoIn ==
  ASSUME NEW S, IsFiniteSet(S), NEW x \in S, NEW y \in S, x # y PROVE Cardinality(S) >= 2
<1>1. Cardinality(S) # 1
  <2>1. Cardinality(S) = 1 => S = {x}
    BY NoneIn
  <2> QED BY <2>1
<1>2. Cardinality(S) \in Nat /\ Cardinality(S) >= 1
  BY NoneIn
<1> QED BY <1>1, <1>2
LEMMA FewActors == ASSUME NEW S \in SUBSET ArcActors PROVE IsFiniteSet(S) /\ Cardinality(S) \in Nat
BY FS_Subset, FS_CardinalityType, ArcAssumption
LEMMA FinitePackers ==
  ASSUME NEW s PROVE /\ IsFiniteSet(Packers(s)) /\ Cardinality(Packers(s)) \in Nat
                     /\ IsFiniteSet(Closures(s)) /\ Cardinality(Closures(s)) \in Nat
<1>1. Packers(s) \in SUBSET ArcActors /\ Closures(s) \in SUBSET ArcActors
  BY DEF Packers, Closures
<1> QED BY <1>1, FewActors
LEMMA FiniteSenders == ASSUME NEW m PROVE IsFiniteSet(Senders(m)) /\ Cardinality(Senders(m)) \in Nat
<1>1. Senders(m) \in SUBSET ArcActors
  BY DEF Senders
<1> QED BY <1>1, FewActors

(* One reference more, or less. *)
Plus(f, g, a, m) ==
  /\ g \in Counts
  /\ \A b \in ArcActors, k \in Roots : g[b][k] = IF b = a /\ k = m THEN f[b][k] + 1 ELSE f[b][k]
LEMMA RefMore ==
  ASSUME NEW f \in Counts, NEW a \in ArcActors, NEW m \in Roots PROVE Plus(f, Ref(f, a, m, 1), a, m)
<1>1. f[a] \in [Roots -> Nat] /\ f[a][m] \in Nat
  BY DEF Counts
<1>2. PICK r : r = [f[a] EXCEPT ![m] = @ + 1]
  OBVIOUS
<1>3. r \in [Roots -> Nat] /\ \A k \in Roots : r[k] = IF k = m THEN f[a][k] + 1 ELSE f[a][k]
  BY <1>1, <1>2
<1>4. Ref(f, a, m, 1) = [f EXCEPT ![a] = r]
  BY <1>2 DEF Ref
<1>5. /\ Ref(f, a, m, 1) \in Counts
      /\ \A b \in ArcActors : Ref(f, a, m, 1)[b] = IF b = a THEN r ELSE f[b]
  <2>1. f \in [ArcActors -> [Roots -> Nat]] /\ r \in [Roots -> Nat]
    BY <1>3 DEF Counts
  <2>2. /\ [f EXCEPT ![a] = r] \in [ArcActors -> [Roots -> Nat]]
        /\ \A b \in ArcActors : [f EXCEPT ![a] = r][b] = IF b = a THEN r ELSE f[b]
    BY ONLY <2>1, a \in ArcActors, Updated
  <2> QED BY <1>4, <2>2 DEF Counts
<1> QED BY <1>3, <1>5 DEF Plus
LEMMA RefLess ==
  ASSUME NEW f \in Counts, NEW a \in ArcActors, NEW m \in Roots, f[a][m] > 0
  PROVE  Ref(f, a, m, -1) \in Counts /\ Plus(Ref(f, a, m, -1), f, a, m)
<1>1. f[a] \in [Roots -> Nat] /\ f[a][m] \in Nat
  BY DEF Counts
<1>2. PICK r : r = [f[a] EXCEPT ![m] = @ + (-1)]
  OBVIOUS
<1>3. r \in [Roots -> Nat] /\ \A k \in Roots : r[k] = IF k = m THEN f[a][k] - 1 ELSE f[a][k]
  <2>1. f[a][m] + (-1) \in Nat /\ f[a][m] + (-1) = f[a][m] - 1
    BY <1>1
  <2> QED BY <1>1, <1>2, <2>1
<1>4. Ref(f, a, m, -1) = [f EXCEPT ![a] = r]
  BY <1>2 DEF Ref
<1>5. /\ Ref(f, a, m, -1) \in Counts
      /\ \A b \in ArcActors : Ref(f, a, m, -1)[b] = IF b = a THEN r ELSE f[b]
  <2>1. f \in [ArcActors -> [Roots -> Nat]] /\ r \in [Roots -> Nat]
    BY <1>3 DEF Counts
  <2>2. /\ [f EXCEPT ![a] = r] \in [ArcActors -> [Roots -> Nat]]
        /\ \A b \in ArcActors : [f EXCEPT ![a] = r][b] = IF b = a THEN r ELSE f[b]
    BY ONLY <2>1, a \in ArcActors, Updated
  <2> QED BY <1>4, <2>2 DEF Counts
<1>6. PICK g \in Counts : g = Ref(f, a, m, -1)
  BY <1>5
<1>7. \A b \in ArcActors, k \in Roots : g[b][k] = IF b = a /\ k = m THEN f[b][k] - 1 ELSE f[b][k]
  BY <1>3, <1>5, <1>6
<1>8. \A b \in ArcActors, k \in Roots : f[b][k] = IF b = a /\ k = m THEN g[b][k] + 1 ELSE g[b][k]
  <2>1. \A b \in ArcActors, k \in Roots : f[b][k] \in Nat
    BY DEF Counts
  <2>2. f[a][m] = g[a][m] + 1
    BY <1>1, <1>7
  <2> QED BY <1>7, <2>1, <2>2
<1> QED BY <1>5, <1>6, <1>8 DEF Plus
LEMMA PlusRefs ==
  ASSUME NEW f \in Counts, NEW g \in Counts, NEW a \in ArcActors, NEW m \in Roots, Plus(f, g, a, m)
  PROVE  Refs(g, m) = Refs(f, m) \cup {<<a, g[a][m]>>} /\ <<a, g[a][m]>> \notin Refs(f, m)
<1>1. \A b \in ArcActors, k \in Roots : f[b][k] \in Nat /\ g[b][k] \in Nat
  BY DEF Counts
<1>2. g[a][m] = f[a][m] + 1 /\ f[a][m] \in Nat
  BY <1>1 DEF Plus
<1>3. \A b \in ArcActors, k \in Roots : b # a \/ k # m => g[b][k] = f[b][k]
  BY DEF Plus
<1>5. \A b \in ArcActors, i \in Nat \ {0} :
        i <= g[b][m] <=> i <= f[b][m] \/ (b = a /\ i = g[a][m])
  <2> SUFFICES ASSUME NEW b \in ArcActors, NEW i \in Nat \ {0}
               PROVE  i <= g[b][m] <=> i <= f[b][m] \/ (b = a /\ i = g[a][m])
    OBVIOUS
  <2>1. CASE b = a
    BY <1>2, <2>1
  <2>2. CASE b # a
    BY <1>3, <2>2
  <2> QED BY <2>1, <2>2
<1>6. Refs(g, m) = Refs(f, m) \cup {<<a, g[a][m]>>}
  <2>1. <<a, g[a][m]>> \in Entry
    BY <1>2 DEF Entry
  <2>2. \A r \in Entry : r[2] <= g[r[1]][m] <=> r[2] <= f[r[1]][m] \/ r = <<a, g[a][m]>>
    BY <1>5 DEF Entry
  <2> QED BY <2>1, <2>2 DEF Refs
<1>7. <<a, g[a][m]>> \notin Refs(f, m)
  BY <1>2 DEF Refs
<1> QED BY <1>6, <1>7
LEMMA PlusElse ==
  ASSUME NEW f, NEW g, NEW a, NEW m, Plus(f, g, a, m), NEW k \in Roots, k # m
  PROVE  Refs(g, k) = Refs(f, k) /\ \A b \in ArcActors : g[b][k] = f[b][k]
BY DEF Plus, Refs, Entry
LEMMA PlusCount ==
  ASSUME NEW f \in Counts, NEW g \in Counts, NEW a \in ArcActors, NEW m \in Roots, Plus(f, g, a, m),
         IsFiniteSet(Refs(f, m)) \/ IsFiniteSet(Refs(g, m))
  PROVE  /\ IsFiniteSet(Refs(g, m)) /\ IsFiniteSet(Refs(f, m))
         /\ Cardinality(Refs(g, m)) = Cardinality(Refs(f, m)) + 1
         /\ Cardinality(Refs(f, m)) \in Nat
<1>1. Refs(g, m) = Refs(f, m) \cup {<<a, g[a][m]>>} /\ <<a, g[a][m]>> \notin Refs(f, m)
  BY PlusRefs
<1>2. IsFiniteSet(Refs(f, m))
  <2>1. IsFiniteSet(Refs(g, m)) => IsFiniteSet(Refs(f, m))
    BY <1>1, FS_Subset
  <2> QED BY <2>1
<1> QED BY <1>1, <1>2, OneMore

(* Whoever has a reference is counted. *)
LEMMA HasRef ==
  ASSUME NEW f \in Counts, NEW a \in ArcActors, NEW m \in Roots, IsFiniteSet(Refs(f, m)), f[a][m] > 0
  PROVE  /\ Cardinality(Refs(f, m)) \in Nat /\ Cardinality(Refs(f, m)) >= 1
         /\ Cardinality(Refs(f, m)) = 1 => /\ f[a][m] = 1
                                           /\ \A b \in ArcActors : b # a => f[b][m] = 0
<1>1. \A b \in ArcActors : f[b][m] \in Nat
  BY DEF Counts
<1>2. \A b \in ArcActors : f[b][m] > 0 => <<b, f[b][m]>> \in Refs(f, m) /\ <<b, 1>> \in Refs(f, m)
  BY <1>1 DEF Refs, Entry
<1>3. /\ Cardinality(Refs(f, m)) \in Nat /\ Cardinality(Refs(f, m)) >= 1
      /\ Cardinality(Refs(f, m)) = 1 => Refs(f, m) = {<<a, 1>>}
  BY <1>2, NoneIn
<1>4. ASSUME Cardinality(Refs(f, m)) = 1 PROVE f[a][m] = 1 /\ \A b \in ArcActors : b # a => f[b][m] = 0
  <2>1. <<a, f[a][m]>> = <<a, 1>>
    BY <1>2, <1>3, <1>4
  <2>2. \A b \in ArcActors : f[b][m] > 0 => <<b, 1>> = <<a, 1>>
    BY <1>2, <1>3, <1>4
  <2> QED BY <1>1, <2>1, <2>2
<1> QED BY <1>3, <1>4
LEMMA NoRef ==
  ASSUME NEW f \in Counts, NEW m \in Roots, IsFiniteSet(Refs(f, m))
  PROVE  /\ Cardinality(Refs(f, m)) \in Nat
         /\ Cardinality(Refs(f, m)) = 0 <=> \A b \in ArcActors : f[b][m] = 0
<1>1. \A b \in ArcActors : f[b][m] \in Nat
  BY DEF Counts
<1>2. Cardinality(Refs(f, m)) \in Nat /\ (Cardinality(Refs(f, m)) = 0 <=> Refs(f, m) = {})
  BY NoneIn
<1>3. Refs(f, m) = {} => \A b \in ArcActors : f[b][m] = 0
  <2> SUFFICES ASSUME NEW b \in ArcActors, f[b][m] # 0 PROVE Refs(f, m) # {}
    OBVIOUS
  <2>1. <<b, 1>> \in Refs(f, m)
    BY <1>1 DEF Refs, Entry
  <2> QED BY <2>1
<1>4. (\A b \in ArcActors : f[b][m] = 0) => Refs(f, m) = {}
  BY DEF Refs, Entry
<1> QED BY <1>2, <1>3, <1>4

----------------------------------------------------------------------------
(* A window opens, and all windows of an actor close. *)
LEMMA WindowOpens ==
  ASSUME dp \in [ArcActors -> Seq(Slabs)], NEW a \in ArcActors, NEW s \in Slabs,
         dp' = [dp EXCEPT ![a] = Append(@, s)], IsFiniteSet(Windows(s))
  PROVE  /\ dp' \in [ArcActors -> Seq(Slabs)]
         /\ \A b \in ArcActors : b # a => dp'[b] = dp[b]
         /\ \A t \in Slabs : t # s => Windows(t)' = Windows(t)
         /\ IsFiniteSet(Windows(s)') /\ Cardinality(Windows(s)') = Cardinality(Windows(s)) + 1
         /\ Cardinality(Windows(s)) \in Nat
         /\ Entries(dp'[a], s) # {} /\ \A t \in Slabs : Entries(dp[a], t) \subseteq Entries(dp'[a], t)
<1>1. PICK D \in Seq(Slabs) : D = dp[a]
  OBVIOUS
<1>2. PICK E : E = Append(D, s)
  OBVIOUS
<1>3. /\ E \in Seq(Slabs) /\ DOMAIN E = 1 .. Len(D) + 1 /\ DOMAIN D = 1 .. Len(D) /\ Len(D) \in Nat
      /\ \A i \in 1 .. Len(D) : E[i] = D[i]
      /\ E[Len(D) + 1] = s
  BY <1>1, <1>2
<1>4. dp' \in [ArcActors -> Seq(Slabs)] /\ \A b \in ArcActors : dp'[b] = IF b = a THEN E ELSE dp[b]
  <2>1. dp' = [dp EXCEPT ![a] = E]
    BY <1>1, <1>2
  <2>2. dp \in [ArcActors -> Seq(Slabs)] /\ E \in Seq(Slabs) /\ a \in ArcActors
    BY <1>3
  <2> QED BY ONLY <2>1, <2>2, Updated
<1>5. \A t \in Slabs : Entries(E, t) = Entries(D, t) \cup (IF t = s THEN {Len(D) + 1} ELSE {})
  BY <1>3 DEF Entries
<1>6. \A t \in Slabs : t # s => \A b \in ArcActors : Entries(dp'[b], t) = Entries(dp[b], t)
  BY <1>1, <1>4, <1>5
<1>7. \A t \in Slabs : t # s => Windows(t)' = Windows(t)
  BY <1>6 DEF Windows, Entry
<1>8. Windows(s)' = Windows(s) \cup {<<a, Len(D) + 1>>} /\ <<a, Len(D) + 1>> \notin Windows(s)
  <2>1. <<a, Len(D) + 1>> \in Entry /\ <<a, Len(D) + 1>>[1] = a /\ <<a, Len(D) + 1>>[2] = Len(D) + 1
    BY <1>3 DEF Entry
  <2>2. \A b \in ArcActors, i \in Nat \ {0} :
          i \in Entries(dp'[b], s) <=> i \in Entries(dp[b], s) \/ (b = a /\ i = Len(D) + 1)
    BY <1>1, <1>4, <1>5
  <2>3. \A w \in Entry : w[2] \in Entries(dp'[w[1]], s) <=>
                         w[2] \in Entries(dp[w[1]], s) \/ w = <<a, Len(D) + 1>>
    BY <2>2 DEF Entry
  <2>4. Len(D) + 1 \notin Entries(D, s)
    BY <1>3 DEF Entries
  <2> QED BY <1>1, <2>1, <2>3, <2>4 DEF Windows
<1>9. /\ IsFiniteSet(Windows(s)') /\ Cardinality(Windows(s)') = Cardinality(Windows(s)) + 1
      /\ Cardinality(Windows(s)) \in Nat
  <2>1. PICK V, W, w : V = Windows(s) /\ W = Windows(s)' /\ w = <<a, Len(D) + 1>>
    OBVIOUS
  <2>2. IsFiniteSet(V) /\ w \notin V /\ W = V \cup {w}
    BY <1>8, <2>1
  <2>3. IsFiniteSet(W) /\ Cardinality(W) = Cardinality(V) + 1 /\ Cardinality(V) \in Nat
    BY ONLY <2>2, OneMore
  <2> QED BY <2>1, <2>3
<1> QED BY <1>1, <1>4, <1>5, <1>7, <1>9

ClosesAll(a) ==
  /\ dp' \in [ArcActors -> Seq(Slabs)] /\ dp'[a] = <<>>
  /\ \A b \in ArcActors : b # a => dp'[b] = dp[b]
LEMMA ClosingAll ==
  ASSUME dp \in [ArcActors -> Seq(Slabs)], NEW a \in ArcActors, dp' = [dp EXCEPT ![a] = <<>>]
  PROVE  ClosesAll(a)
<1>1. <<>> \in Seq(Slabs)
  OBVIOUS
<1> QED BY <1>1, Updated DEF ClosesAll

(* The windows that remain when an actor closes all of its own are still backed
   by the deferred drops of the others. *)
LEMMA ClosedWindows ==
  ASSUME Living, NEW a \in ArcActors, ClosesAll(a),
         \A b \in ArcActors : win'[b] = IF b = a THEN {} ELSE win[b]
  PROVE  \A b \in ArcActors : \A t \in win'[b] : Entries(dp'[b], t) # {}
<1> SUFFICES ASSUME NEW b \in ArcActors, NEW t \in win'[b] PROVE Entries(dp'[b], t) # {}
  OBVIOUS
<1>1. b # a
  OBVIOUS
<1>2. t \in win[b]
  BY <1>1
<1>3. dp'[b] = dp[b]
  BY <1>1 DEF ClosesAll
<1>4. Entries(dp[b], t) # {}
  BY <1>2 DEF Living
<1> QED BY <1>3, <1>4
LEMMA EntriesOf ==
  ASSUME NEW D \in Seq(Slabs), NEW s \in Slabs
  PROVE  /\ IsFiniteSet(Entries(D, s)) /\ Cardinality(Entries(D, s)) \in Nat
         /\ Cardinality(Entries(D, s)) = 0 <=> Entries(D, s) = {}
         /\ Entries(D, s) \subseteq Nat \ {0}
<1>1. Entries(D, s) \in SUBSET (1 .. Len(D)) /\ Len(D) \in Nat
  BY DEF Entries
<1>2. IsFiniteSet(1 .. Len(D))
  BY <1>1, FS_Interval
<1>3. IsFiniteSet(Entries(D, s))
  BY <1>1, <1>2, FS_Subset
<1> QED BY <1>1, <1>3, NoneIn
LEMMA WindowsClose ==
  ASSUME dp \in [ArcActors -> Seq(Slabs)], NEW a \in ArcActors, ClosesAll(a),
         NEW s \in Slabs, IsFiniteSet(Windows(s))
  PROVE  /\ IsFiniteSet(Windows(s)')
         /\ Cardinality(Windows(s)') \in Nat /\ Cardinality(Entries(dp[a], s)) \in Nat
         /\ Cardinality(Windows(s)) = Cardinality(Windows(s)') + Cardinality(Entries(dp[a], s))
<1>1. PICK E : E = Entries(dp[a], s)
  OBVIOUS
<1>2. IsFiniteSet(E) /\ Cardinality(E) \in Nat /\ E \subseteq Nat \ {0}
  BY <1>1, EntriesOf
<1>3. PICK W : W = {w \in Windows(s) : w[1] = a}
  OBVIOUS
<1>4. \A w : w \in W <=> \E i \in E : w = <<a, i>>
  BY <1>1, <1>2, <1>3 DEF Windows, Entry
<1>5. Entries(<<>>, s) = {}
  BY DEF Entries
<1>6. Windows(s)' = Windows(s) \ W
  <2>1. \A w \in Entry : w[2] \in Entries(dp'[w[1]], s) <=> w[2] \in Entries(dp[w[1]], s) /\ w[1] # a
    BY <1>5 DEF ClosesAll, Entry
  <2> QED BY <1>3, <2>1 DEF Windows
<1>7. IsFiniteSet(W) /\ Cardinality(W) = Cardinality(E)
  <2>1. PICK f : f = [i \in E |-> <<a, i>>]
    OBVIOUS
  <2>2. f \in Bijection(E, W)
    <3>1. f \in [E -> W] /\ \A i \in E : f[i] = <<a, i>>
      BY <1>4, <2>1
    <3>2. \A i, j \in E : f[i] = f[j] => i = j
      BY <3>1
    <3>3. \A w \in W : \E i \in E : f[i] = w
      BY <1>4, <3>1
    <3> QED BY <3>1, <3>2, <3>3 DEF Bijection, Injection, Surjection, IsInjective
  <2>3. ExistsBijection(E, W)
    BY <2>2 DEF ExistsBijection
  <2> QED BY <1>2, <2>3, FS_Bijection
<1>8. W \subseteq Windows(s) /\ Windows(s) \cap W = W
  BY <1>3
<1>9. IsFiniteSet(Windows(s) \ W) /\ Cardinality(Windows(s) \ W) = Cardinality(Windows(s)) - Cardinality(W)
  BY <1>8, FS_Difference
<1>10. Cardinality(Windows(s)) \in Nat /\ Cardinality(Windows(s) \ W) \in Nat
  BY <1>9, FS_CardinalityType
<1> QED BY <1>1, <1>2, <1>6, <1>7, <1>9, <1>10

----------------------------------------------------------------------------
(* The header of a slab under the operations of runtime.c. *)
LEMMA HeaderType ==
  ASSUME NEW x \in SlabRec
  PROVE  /\ x.holds \in Int /\ x.escaped \in Int /\ x.hp \in Int /\ x.kind \in Kinds
         /\ x.owner \in ArcActors \cup {NoOne}
BY DEF SlabRec
LEMMA SetHolds ==
  ASSUME NEW x \in SlabRec, NEW n \in Int, NEW y, y = [x EXCEPT !.holds = n]
  PROVE  /\ y \in SlabRec /\ y.holds = n
         /\ y.kind = x.kind /\ y.owner = x.owner /\ y.hp = x.hp /\ y.escaped = x.escaped
BY DEF SlabRec
LEMMA SetEscaped ==
  ASSUME NEW x \in SlabRec, NEW n \in Int, NEW y, y = [x EXCEPT !.escaped = n]
  PROVE  /\ y \in SlabRec /\ y.escaped = n
         /\ y.kind = x.kind /\ y.owner = x.owner /\ y.hp = x.hp /\ y.holds = x.holds
BY DEF SlabRec
LEMMA SetHp ==
  ASSUME NEW x \in SlabRec, NEW n \in Int, NEW y, y = [x EXCEPT !.hp = n]
  PROVE  /\ y \in SlabRec /\ y.hp = n
         /\ y.kind = x.kind /\ y.owner = x.owner /\ y.escaped = x.escaped /\ y.holds = x.holds
BY DEF SlabRec
LEMMA SetOwner ==
  ASSUME NEW x \in SlabRec, NEW y, y = [x EXCEPT !.owner = NoOne]
  PROVE  /\ y \in SlabRec /\ y.owner = NoOne
         /\ y.kind = x.kind /\ y.hp = x.hp /\ y.escaped = x.escaped /\ y.holds = x.holds
BY DEF SlabRec
LEMMA HomeHeader ==
  /\ AtHome \in SlabRec /\ AtHome.kind = "home" /\ AtHome.owner = NoOne
  /\ AtHome.holds = 0 /\ AtHome.escaped = 0 /\ AtHome.hp = 0
  /\ Fits(AtHome, 0, 0, {})
BY DEF AtHome, SlabRec, Kinds, Fits

(* n holds end; the last may end only when nobody has yet to count a copy. *)
LEMMA FitsUnheld ==
  ASSUME NEW x, NEW h \in Nat, NEW e \in Nat, NEW U, Fits(x, h, e, U), NEW n \in Nat, n <= h,
         x.owner = NoOne /\ n > 0 /\ n = h /\ e = 0 => U = {}
  PROVE  /\ Fits(Unheld(x, n), h - n, e, U) /\ Unheld(x, n).owner = x.owner
         /\ n = 0 => Unheld(x, n).kind = x.kind /\ Unheld(x, n).hp = x.hp
<1>1. x \in SlabRec /\ x.holds = h /\ x.escaped = e
  BY DEF Fits
<1>2. CASE n > 0 /\ n = h /\ e = 0 /\ x.owner = NoOne
  <2>1. Unheld(x, n) = AtHome
    BY <1>1, <1>2 DEF Unheld
  <2>2. U = {} /\ h - n = 0
    BY <1>2
  <2> QED BY <1>2, <2>1, <2>2, HomeHeader
<1>3. CASE ~(n > 0 /\ n = h /\ e = 0 /\ x.owner = NoOne)
  <2>1. PICK y : y = [x EXCEPT !.holds = h - n]
    OBVIOUS
  <2>2. Unheld(x, n) = y
    BY <1>1, <1>3, <2>1 DEF Unheld
  <2>3. y \in SlabRec /\ y.holds = h - n /\ y.kind = x.kind /\ y.owner = x.owner /\ y.escaped = e /\ y.hp = x.hp
    <3>1. h - n \in Int
      OBVIOUS
    <3> QED BY <1>1, <2>1, <3>1, SetHolds
  <2>4. h - n \in Nat /\ (h = 0 => h - n = 0) /\ (n = 0 => h - n = h)
    OBVIOUS
  <2>5. /\ x.kind = "home" => x.owner = NoOne /\ h = 0 /\ e = 0 /\ U = {}
        /\ x.kind # "home" /\ x.owner = NoOne => h # 0 \/ e # 0 \/ U # {}
        /\ x.owner # NoOne => h = 0
    BY DEF Fits
  <2>6. x.kind # "home" /\ x.owner = NoOne => h - n # 0 \/ e # 0 \/ U # {}
    BY <1>3, <2>4, <2>5
  <2> QED BY <2>2, <2>3, <2>4, <2>5, <2>6 DEF Fits
<1> QED BY <1>2, <1>3
(* An object escapes. *)
LEMMA FitsEscape ==
  ASSUME NEW x, NEW h \in Nat, NEW e \in Nat, NEW U, NEW V, Fits(x, h, e, U), x.kind # "home"
  PROVE  Fits([x EXCEPT !.escaped = @ + 1], h, e + 1, V)
<1>1. x \in SlabRec /\ x.escaped = e
  BY DEF Fits
<1>2. PICK y : y = [x EXCEPT !.escaped = e + 1]
  OBVIOUS
<1>3. y \in SlabRec /\ y.escaped = e + 1 /\ y.kind = x.kind /\ y.owner = x.owner /\ y.holds = x.holds
  <2>1. e + 1 \in Int
    OBVIOUS
  <2> QED BY <1>1, <1>2, <2>1, SetEscaped
<1>4. [x EXCEPT !.escaped = @ + 1] = y
  BY <1>1, <1>2
<1> QED BY <1>3, <1>4 DEF Fits
(* The last count of an object goes: a window opens on an ownerless slab. *)
Parked(x) == [[x EXCEPT !.escaped = x.escaped - 1] EXCEPT !.holds = x.holds + 1]
Freed(x) == [[x EXCEPT !.escaped = x.escaped - 1] EXCEPT !.hp = x.hp - 1]
LEMMA FitsPark ==
  ASSUME NEW x, NEW h \in Nat, NEW e \in Nat, NEW U, Fits(x, h, e, U), e > 0, x.owner = NoOne
  PROVE  Fits(Parked(x), h + 1, e - 1, U) /\ Parked(x).owner = NoOne
<1> PICK y : y = Parked(x)
  OBVIOUS
<1>1. x \in SlabRec /\ x.kind # "home" /\ x.holds = h /\ x.escaped = e
  BY DEF Fits
<1>2. PICK z : z = [x EXCEPT !.escaped = e - 1]
  OBVIOUS
<1>3. z \in SlabRec /\ z.kind = x.kind /\ z.owner = x.owner /\ z.escaped = e - 1
  <2>1. e - 1 \in Int
    OBVIOUS
  <2> QED BY <1>1, <1>2, <2>1, SetEscaped
<1>4. y \in SlabRec /\ y.holds = h + 1 /\ y.kind = x.kind /\ y.owner = x.owner /\ y.escaped = e - 1
  <2>1. h + 1 \in Int /\ y = [z EXCEPT !.holds = h + 1] /\ z \in SlabRec
    BY <1>1, <1>2, <1>3 DEF Parked
  <2>2. /\ y \in SlabRec /\ y.holds = h + 1
        /\ y.kind = z.kind /\ y.owner = z.owner /\ y.escaped = z.escaped
    BY ONLY <2>1, SetHolds
  <2> QED BY <1>3, <2>2
<1> QED BY <1>1, <1>4 DEF Fits
LEMMA FitsFreed ==
  ASSUME NEW x, NEW h \in Nat, NEW e \in Nat, NEW U, Fits(x, h, e, U), e > 0, x.owner # NoOne
  PROVE  Fits(Freed(x), h, e - 1, U) /\ Freed(x).owner = x.owner
<1> PICK y : y = Freed(x)
  OBVIOUS
<1>1. x \in SlabRec /\ x.kind # "home" /\ x.holds = h /\ x.escaped = e /\ x.hp \in Int
  <2>1. x \in SlabRec /\ x.kind # "home" /\ x.holds = h /\ x.escaped = e
    BY DEF Fits
  <2> QED BY <2>1, HeaderType
<1>2. PICK z : z = [x EXCEPT !.escaped = e - 1]
  OBVIOUS
<1>3. z \in SlabRec /\ z.kind = x.kind /\ z.owner = x.owner /\ z.escaped = e - 1 /\ z.holds = h /\ z.hp = x.hp
  <2>1. e - 1 \in Int
    OBVIOUS
  <2> QED BY <1>1, <1>2, <2>1, SetEscaped
<1>4. y = [z EXCEPT !.hp = x.hp - 1]
  BY <1>1, <1>2 DEF Freed
<1>5. y \in SlabRec /\ y.holds = h /\ y.kind = x.kind /\ y.owner = x.owner /\ y.escaped = e - 1
  <2>1. x.hp - 1 \in Int /\ z \in SlabRec
    BY <1>1, <1>3
  <2>2. /\ y \in SlabRec /\ y.holds = z.holds
        /\ y.kind = z.kind /\ y.owner = z.owner /\ y.escaped = z.escaped
    BY ONLY <1>4, <2>1, SetHp
  <2> QED BY <1>3, <2>2
<1> QED BY <1>1, <1>5 DEF Fits
(* A root is placed in a slab, fresh from the buddy or in use. *)
LEMMA FitsPlaced ==
  ASSUME NEW x, NEW h \in Nat, NEW e \in Nat, NEW U, NEW V, Fits(x, h, e, U), x.kind # "home",
         x.owner = NoOne => h # 0 \/ e # 0 \/ V # {}
  PROVE  Fits([x EXCEPT !.hp = @ + 1], h, e, V) /\ [x EXCEPT !.hp = @ + 1].owner = x.owner
<1>1. x \in SlabRec /\ x.hp \in Int
  BY HeaderType DEF Fits
<1>2. PICK y : y = [x EXCEPT !.hp = x.hp + 1]
  OBVIOUS
<1>3. y \in SlabRec /\ y.holds = x.holds /\ y.kind = x.kind /\ y.owner = x.owner /\ y.escaped = x.escaped
  <2>1. x.hp + 1 \in Int
    BY <1>1
  <2> QED BY <1>1, <1>2, <2>1, SetHp
<1> QED BY <1>2, <1>3 DEF Fits
LEMMA FitsFresh ==
  ASSUME NEW h \in Nat, NEW U, U # {}, NEW y, y = [AtHome EXCEPT !.kind = "msg", !.hp = 1, !.holds = h]
  PROVE  Fits(y, h, 0, U) /\ y.owner = NoOne
<1>1. y = [kind |-> "msg", owner |-> NoOne, hp |-> 1, escaped |-> 0, holds |-> h]
  BY DEF AtHome
<1>2. y \in SlabRec /\ y.kind = "msg" /\ y.owner = NoOne /\ y.escaped = 0 /\ y.holds = h
  <2>1. y.kind = "msg" /\ y.owner = NoOne /\ y.escaped = 0 /\ y.holds = h
    BY ONLY <1>1
  <2>2. "msg" \in Kinds /\ NoOne \in ArcActors \cup {NoOne} /\ 1 \in Int /\ 0 \in Int /\ h \in Int
    BY DEF Kinds
  <2> QED BY <1>1, <2>1, <2>2 DEF SlabRec
<1> QED BY <1>2 DEF Fits
LEMMA FitsOwned ==
  ASSUME NEW a \in ArcActors, NEW U, NEW y, y = [AtHome EXCEPT !.kind = "pool", !.owner = a, !.hp = 1]
  PROVE  Fits(y, 0, 0, U) /\ y.owner = a
<1>1. y = [kind |-> "pool", owner |-> a, hp |-> 1, escaped |-> 0, holds |-> 0]
  BY DEF AtHome
<1>2. y \in SlabRec /\ y.kind = "pool" /\ y.owner = a /\ y.escaped = 0 /\ y.holds = 0
  <2>1. y.kind = "pool" /\ y.owner = a /\ y.escaped = 0 /\ y.holds = 0
    BY ONLY <1>1
  <2>2. "pool" \in Kinds /\ a \in ArcActors \cup {NoOne} /\ 1 \in Int /\ 0 \in Int /\ 0 \in Int
    BY DEF Kinds
  <2> QED BY <1>1, <2>1, <2>2 DEF SlabRec
<1> QED BY <1>2, ArcAssumption DEF Fits

----------------------------------------------------------------------------
(* What a step that leaves a slab or a root alone keeps. *)
LEMMA HeaderStays ==
  ASSUME NEW s \in Slabs, Header(s), sl'[s] = sl[s],
         Windows(s)' = Windows(s), Packers(s)' = Packers(s), Closures(s)' = Closures(s),
         Counted(s)' = Counted(s), Uncounted(s)' = Uncounted(s)
  PROVE  Header(s)'
BY DEF Header, HoldsOf, EscapedOf
LEMMA SameWindows == ASSUME dp' = dp PROVE \A s : Windows(s)' = Windows(s)
BY DEF Windows
LEMMA SamePackers == ASSUME mslab' = mslab PROVE \A s : Packers(s)' = Packers(s)
BY DEF Packers
LEMMA SameClosures == ASSUME ent' = ent PROVE \A s : Closures(s)' = Closures(s)
BY DEF Closures
LEMMA SameRoots ==
  ASSUME NEW s, \A m \in Roots : (root'[m] = s <=> root[m] = s) /\ (root[m] = s => cnt'[m] = cnt[m])
  PROVE  Counted(s)' = Counted(s) /\ Uncounted(s)' = Uncounted(s)
BY DEF Counted, Uncounted
LEMMA CountsOf ==
  ASSUME NEW s \in Slabs, Header(s)
  PROVE  /\ HoldsOf(s) \in Nat /\ EscapedOf(s) \in Nat
         /\ Cardinality(Windows(s)) \in Nat /\ Cardinality(Packers(s)) \in Nat
         /\ Cardinality(Counted(s)) \in Nat /\ Cardinality(Closures(s)) \in Nat
         /\ HoldsOf(s) = 0 => Packers(s) = {} /\ Windows(s) = {}
         /\ EscapedOf(s) = 0 => Closures(s) = {} /\ Counted(s) = {}
         /\ Packers(s) = {} /\ Windows(s) = {} => HoldsOf(s) = 0
         /\ Closures(s) = {} /\ Counted(s) = {} => EscapedOf(s) = 0
<1>1. IsFiniteSet(Windows(s)) /\ IsFiniteSet(Counted(s))
  BY DEF Header
<1>2. IsFiniteSet(Packers(s)) /\ IsFiniteSet(Closures(s))
  BY FinitePackers
<1>3. /\ Cardinality(Windows(s)) \in Nat /\ (Cardinality(Windows(s)) = 0 <=> Windows(s) = {})
      /\ Cardinality(Packers(s)) \in Nat /\ (Cardinality(Packers(s)) = 0 <=> Packers(s) = {})
      /\ Cardinality(Counted(s)) \in Nat /\ (Cardinality(Counted(s)) = 0 <=> Counted(s) = {})
      /\ Cardinality(Closures(s)) \in Nat /\ (Cardinality(Closures(s)) = 0 <=> Closures(s) = {})
  BY <1>1, <1>2, NoneIn
<1> QED BY <1>3 DEF HoldsOf, EscapedOf

(* A slab that the buddy has is nobody's. *)
LEMMA HomeIsNobodys ==
  ASSUME NEW s \in Slabs, Header(s), sl[s].kind = "home"
  PROVE  /\ sl[s].owner = NoOne /\ HoldsOf(s) = 0 /\ EscapedOf(s) = 0
         /\ Windows(s) = {} /\ Packers(s) = {} /\ Counted(s) = {} /\ Closures(s) = {} /\ Uncounted(s) = {}
         /\ \A m \in Roots : root[m] # s
         /\ \A a \in ArcActors : mslab[a] # s /\ ent[a] # s
<1>1. sl[s].owner = NoOne /\ HoldsOf(s) = 0 /\ EscapedOf(s) = 0 /\ Uncounted(s) = {}
  BY DEF Header, Fits
<1>2. Windows(s) = {} /\ Packers(s) = {} /\ Counted(s) = {} /\ Closures(s) = {}
  BY <1>1, CountsOf
<1> QED BY <1>1, <1>2 DEF Counted, Uncounted, Packers, Closures

(* The references to one root move, those to the others stay. *)
Shifts(f, g, m, d) ==
  /\ g \in Counts /\ IsFiniteSet(Refs(g, m))
  /\ Cardinality(Refs(f, m)) \in Nat /\ Cardinality(Refs(g, m)) = Cardinality(Refs(f, m)) + d
  /\ \A k \in Roots : k # m => /\ Refs(g, k) = Refs(f, k)
                               /\ \A b \in ArcActors : g[b][k] = f[b][k]
SndShifts(m, d) ==
  /\ snd' \in [ArcActors -> Sends]
  /\ Cardinality(Senders(m)') = Cardinality(Senders(m)) + d
  /\ \A k \in Roots : k # m => Senders(k)' = Senders(k)
LEMMA ShiftsUp ==
  ASSUME NEW f \in Counts, NEW a \in ArcActors, NEW m \in Roots, IsFiniteSet(Refs(f, m)),
         NEW g, g = Ref(f, a, m, 1)
  PROVE  Shifts(f, g, m, 1) /\ g[a][m] = f[a][m] + 1 /\ \A b \in ArcActors : b # a => g[b][m] = f[b][m]
<1>1. g \in Counts /\ Plus(f, g, a, m)
  BY RefMore DEF Plus
<1>2. \A k \in Roots : k # m => Refs(g, k) = Refs(f, k) /\ \A b \in ArcActors : g[b][k] = f[b][k]
  BY ONLY <1>1, PlusElse
<1>3. /\ IsFiniteSet(Refs(g, m)) /\ Cardinality(Refs(g, m)) = Cardinality(Refs(f, m)) + 1
      /\ Cardinality(Refs(f, m)) \in Nat
  BY <1>1, PlusCount
<1> QED BY <1>1, <1>2, <1>3 DEF Shifts, Plus
LEMMA ShiftsDown ==
  ASSUME NEW f \in Counts, NEW a \in ArcActors, NEW m \in Roots, IsFiniteSet(Refs(f, m)), f[a][m] > 0,
         NEW g, g = Ref(f, a, m, -1)
  PROVE  Shifts(f, g, m, -1)
<1>1. g \in Counts /\ Plus(g, f, a, m)
  BY RefLess
<1>2. \A k \in Roots : k # m => Refs(f, k) = Refs(g, k) /\ \A b \in ArcActors : f[b][k] = g[b][k]
  BY ONLY <1>1, PlusElse
<1>3. /\ IsFiniteSet(Refs(g, m)) /\ Cardinality(Refs(f, m)) = Cardinality(Refs(g, m)) + 1
      /\ Cardinality(Refs(g, m)) \in Nat
  BY <1>1, PlusCount
<1>4. Cardinality(Refs(f, m)) \in Nat /\ Cardinality(Refs(g, m)) = Cardinality(Refs(f, m)) + (-1)
  BY <1>3
<1> QED BY <1>1, <1>2, <1>3, <1>4 DEF Shifts
LEMMA ShiftsNot ==
  ASSUME NEW f \in Counts, NEW m \in Roots, IsFiniteSet(Refs(f, m)) PROVE Shifts(f, f, m, 0)
<1>1. Cardinality(Refs(f, m)) \in Nat
  BY FS_CardinalityType
<1> QED BY <1>1 DEF Shifts
LEMMA SndNot == ASSUME snd \in [ArcActors -> Sends], snd' = snd, NEW m \in Roots PROVE SndShifts(m, 0)
<1>1. \A k : Senders(k)' = Senders(k)
  BY DEF Senders
<1>2. Cardinality(Senders(m)) \in Nat
  BY FiniteSenders
<1> QED BY <1>1, <1>2 DEF SndShifts
LEMMA SndOver ==
  ASSUME snd \in [ArcActors -> Sends], NEW a \in ArcActors, NEW m \in Roots, snd[a] = <<m>>,
         snd' = [snd EXCEPT ![a] = <<>>]
  PROVE  SndShifts(m, -1)
<1>1. snd' \in [ArcActors -> Sends] /\ \A b \in ArcActors : snd'[b] = IF b = a THEN <<>> ELSE snd[b]
  BY DEF Sends
<1>2. \A k \in Roots : <<k>> # <<>> /\ (k # m => <<k>> # <<m>>)
  OBVIOUS
<1>3. \A k \in Roots : k # m => Senders(k)' = Senders(k)
  BY <1>1, <1>2 DEF Senders
<1>4. PICK S, T : S = Senders(m) /\ T = Senders(m)'
  OBVIOUS
<1>5. a \in S /\ T = S \ {a} /\ IsFiniteSet(S)
  BY <1>1, <1>2, <1>4, FiniteSenders DEF Senders
<1>6. Cardinality(T) = Cardinality(S) - 1 /\ Cardinality(S) \in Nat
  BY ONLY <1>5, OneLess, NoneIn
<1>7. Cardinality(T) = Cardinality(S) + (-1)
  BY <1>6
<1> QED BY <1>1, <1>3, <1>4, <1>7 DEF SndShifts
LEMMA SndBegins ==
  ASSUME snd \in [ArcActors -> Sends], NEW a \in ArcActors, NEW m \in Roots, snd[a] = <<>>,
         snd' = [snd EXCEPT ![a] = <<m>>]
  PROVE  SndShifts(m, 1) /\ a \in Senders(m)'
<1>1. snd' \in [ArcActors -> Sends] /\ \A b \in ArcActors : snd'[b] = IF b = a THEN <<m>> ELSE snd[b]
  BY DEF Sends
<1>2. \A k \in Roots : <<k>> # <<>> /\ (k # m => <<k>> # <<m>>)
  OBVIOUS
<1>3. \A k \in Roots : k # m => Senders(k)' = Senders(k)
  BY <1>1, <1>2 DEF Senders
<1>4. PICK S, T : S = Senders(m) /\ T = Senders(m)'
  OBVIOUS
<1>5. a \notin S /\ T = S \cup {a} /\ IsFiniteSet(S)
  BY <1>1, <1>2, <1>4, FiniteSenders DEF Senders
<1>6. Cardinality(T) = Cardinality(S) + 1
  BY ONLY <1>5, OneMore
<1> QED BY <1>1, <1>3, <1>4, <1>5, <1>6 DEF SndShifts

(* Together: what the step does to the references of root m. *)
Tokens(m, i, j, k) ==
  /\ Shifts(has, has', m, i) /\ Shifts(box, box', m, j) /\ SndShifts(m, k)
  /\ i \in Int /\ j \in Int /\ k \in Int
LEMMA TotalShifts ==
  ASSUME NEW m \in Roots, NEW i, NEW j, NEW k, Tokens(m, i, j, k)
  PROVE  /\ Total(m) \in Nat /\ Total(m)' = Total(m) + (i + j + k)
         /\ IsFiniteSet(Refs(has, m)') /\ IsFiniteSet(Refs(box, m)')
         /\ \A n \in Roots : n # m => /\ Refs(has, n)' = Refs(has, n) /\ Refs(box, n)' = Refs(box, n)
                                      /\ Senders(n)' = Senders(n)
                                      /\ \A b \in ArcActors : has'[b][n] = has[b][n]
<1>1. Cardinality(Senders(m)) \in Nat
  BY FiniteSenders
<1>2. /\ Cardinality(Refs(has, m)) \in Nat /\ Cardinality(Refs(has, m)') = Cardinality(Refs(has, m)) + i
      /\ Cardinality(Refs(box, m)) \in Nat /\ Cardinality(Refs(box, m)') = Cardinality(Refs(box, m)) + j
      /\ Cardinality(Senders(m)') = Cardinality(Senders(m)) + k
      /\ i \in Int /\ j \in Int /\ k \in Int
  BY DEF Tokens, Shifts, SndShifts
<1>3. Total(m) \in Nat /\ Total(m)' = Total(m) + (i + j + k)
  BY <1>1, <1>2 DEF Total
<1> QED BY <1>3 DEF Tokens, Shifts, SndShifts

(* A root that keeps its place, its count and its references. *)
LEMMA ReferenceStays ==
  ASSUME NEW m \in Roots, Reference(m), root'[m] = root[m], cnt'[m] = cnt[m],
         Refs(has, m)' = Refs(has, m), Refs(box, m)' = Refs(box, m), Senders(m)' = Senders(m),
         cnt[m] = 0 /\ root[m] # NoSlab => (Local(m) => Local(m)') /\ (Sending(m) => Sending(m)')
  PROVE  Reference(m)'
<1>1. Total(m)' = Total(m)
  BY DEF Total
<1>2. IsFiniteSet(Refs(has, m)') /\ IsFiniteSet(Refs(box, m)')
  BY DEF Reference
<1>3. cnt'[m] # 0 => root'[m] # NoSlab /\ Total(m)' <= cnt'[m]
  BY <1>1 DEF Reference
<1>4. cnt'[m] = 0 /\ root'[m] = NoSlab => Total(m)' = 0
  BY <1>1 DEF Reference
<1>5. cnt'[m] = 0 /\ root'[m] # NoSlab => Total(m)' = 1 /\ (Local(m)' \/ Sending(m)')
  BY <1>1 DEF Reference
<1> QED BY <1>2, <1>3, <1>4, <1>5 DEF Reference
(* The sender that has yet to count root m still packs into its slab, or the *)
(* slab still holds nothing else.                                            *)
LEMMA SendingStays ==
  ASSUME NEW m \in Roots, Sending(m), root'[m] = root[m], Senders(m)' = Senders(m),
         sl'[root[m]].owner = sl[root[m]].owner,
         \A b \in Senders(m) : b \in alive /\ mslab[b] = root[m] => b \in alive' /\ mslab'[b] = root[m],
         HoldsOf(root[m]) = 0 /\ EscapedOf(root[m]) = 0 /\ Uncounted(root[m]) = {m} =>
           /\ HoldsOf(root[m])' = 0 /\ EscapedOf(root[m])' = 0 /\ Uncounted(root[m])' = {m}
  PROVE  Sending(m)'
<1>1. Ownerless(root[m])'
  BY DEF Sending, Ownerless
<1>2. PICK a \in Senders(m) :
       \/ a \in alive /\ mslab[a] = root[m]
       \/ HoldsOf(root[m]) = 0 /\ EscapedOf(root[m]) = 0 /\ Uncounted(root[m]) = {m}
  BY DEF Sending
<1>3. \/ a \in alive' /\ mslab'[a] = root[m]
      \/ HoldsOf(root[m])' = 0 /\ EscapedOf(root[m])' = 0 /\ Uncounted(root[m])' = {m}
  BY <1>2
<1> QED BY <1>1, <1>2, <1>3 DEF Sending

----------------------------------------------------------------------------
LEMMA SlTypes ==
  ArcTypes => /\ sl \in [Slabs -> SlabRec] /\ root \in [Roots -> SlabMaybe] /\ cnt \in [Roots -> Nat]
              /\ has \in Counts /\ box \in Counts
BY DEF ArcTypes, RootTypes
LEMMA ActTypes ==
  ArcTypes => /\ snd \in [ArcActors -> Sends] /\ mslab \in [ArcActors -> SlabMaybe]
              /\ ent \in [ArcActors -> SlabMaybe] /\ dp \in [ArcActors -> Seq(Slabs)]
              /\ alive \subseteq ArcActors /\ win \in [ArcActors -> SUBSET Slabs]
BY DEF ArcTypes, ActorTypes
LEMMA Parts ==
  ArcInv => /\ ArcTypes /\ Living /\ (\A s \in Slabs : Header(s)) /\ (\A m \in Roots : Reference(m))
BY DEF ArcInv, Headers, References
LEMMA InvTogether ==
  ASSUME ArcTypes', Living', \A s \in Slabs : Header(s)', \A m \in Roots : Reference(m)' PROVE ArcInv'
BY DEF ArcInv, Headers, References
(* Header updates keep the type of sl. *)
LEMMA SlabSet ==
  ASSUME NEW S \in [Slabs -> SlabRec], NEW s \in Slabs, NEW y \in SlabRec, NEW T, T = [S EXCEPT ![s] = y]
  PROVE  T \in [Slabs -> SlabRec] /\ T[s] = y /\ \A t \in Slabs : t # s => T[t] = S[t]
OBVIOUS

(* A counted root lies in a slab that something has escaped from. *)
LEMMA CountedRoot ==
  ASSUME ArcInv, NEW m \in Roots, cnt[m] # 0
  PROVE  /\ root[m] \in Slabs /\ Header(root[m]) /\ m \in Counted(root[m]) /\ m \notin Uncounted(root[m])
         /\ EscapedOf(root[m]) > 0 /\ EscapedOf(root[m]) \in Nat /\ HoldsOf(root[m]) \in Nat
         /\ sl[root[m]].kind # "home" /\ Total(m) <= cnt[m] /\ cnt[m] \in Nat
         /\ IsFiniteSet(Counted(root[m])) /\ IsFiniteSet(Windows(root[m]))
<1>1. Reference(m) /\ ArcTypes /\ \A s \in Slabs : Header(s)
  BY Parts
<1>2. root[m] \in Slabs /\ Total(m) <= cnt[m] /\ cnt[m] \in Nat
  BY <1>1, SlTypes DEF Reference, SlabMaybe
<1>3. PICK s \in Slabs : s = root[m]
  BY <1>2
<1>4. Header(s) /\ m \in Counted(s) /\ m \notin Uncounted(s)
  BY <1>1, <1>3 DEF Counted, Uncounted
<1>5. EscapedOf(s) \in Nat /\ HoldsOf(s) \in Nat /\ EscapedOf(s) # 0
  BY <1>4, CountsOf
<1>6. sl[s].kind # "home"
  BY <1>4, <1>5 DEF Header, Fits
<1>7. EscapedOf(s) > 0
  BY <1>5
<1>8. IsFiniteSet(Counted(s)) /\ IsFiniteSet(Windows(s))
  BY <1>4 DEF Header
<1> QED BY <1>2, <1>3, <1>4, <1>5, <1>6, <1>7, <1>8

(* A reference goes and the count with it, the last one or not. *)
Uncounts(a, m) == /\ Decref(a, m) /\ cnt[m] # 0 /\ MaxDrops <= DPN /\ UNCHANGED <<mslab, ent, alive>>
                  /\ \E i, j, k : Tokens(m, i, j, k) /\ i + j + k = -1
Counting(m) == \E i, j, k : Tokens(m, i, j, k)
LEMMA CountingElse ==
  ASSUME NEW m \in Roots, Counting(m)
  PROVE  /\ has' \in Counts /\ box' \in Counts /\ snd' \in [ArcActors -> Sends]
         /\ IsFiniteSet(Refs(has, m)') /\ IsFiniteSet(Refs(box, m)')
         /\ \A n \in Roots : n # m => /\ Refs(has, n)' = Refs(has, n) /\ Refs(box, n)' = Refs(box, n)
                                      /\ Senders(n)' = Senders(n)
                                      /\ \A b \in ArcActors : has'[b][n] = has[b][n]
<1>1. PICK i, j, k : Tokens(m, i, j, k)
  BY DEF Counting
<1>2. has' \in Counts /\ box' \in Counts /\ snd' \in [ArcActors -> Sends]
  BY <1>1 DEF Tokens, Shifts, SndShifts
<1> QED BY <1>1, <1>2, TotalShifts
LEMMA TotalLess ==
  ASSUME NEW a, NEW m \in Roots, Uncounts(a, m)
  PROVE  Counting(m) /\ Total(m) \in Nat /\ Total(m)' = Total(m) - 1
<1>1. PICK i, j, k : Tokens(m, i, j, k) /\ i + j + k = -1
  BY DEF Uncounts
<1>2. Total(m) \in Nat /\ Total(m)' = Total(m) + (i + j + k)
  BY <1>1, TotalShifts
<1> QED BY <1>1, <1>2 DEF Counting

(* The other roots keep what they had when their slabs' owners stay, when a   *)
(* packing sender goes on, and when a slab that held one uncounted root still *)
(* holds nothing else.                                                        *)
Elsewhere(m) ==
  \A n \in Roots \ {m} :
    /\ root'[n] = root[n] /\ cnt'[n] = cnt[n]
    /\ root[n] # NoSlab /\ cnt[n] = 0 =>
         /\ sl'[root[n]].owner = sl[root[n]].owner
         /\ \A b \in Senders(n) : b \in alive /\ mslab[b] = root[n] => b \in alive' /\ mslab'[b] = root[n]
         /\ Ownerless(root[n]) /\ HoldsOf(root[n]) = 0 /\ EscapedOf(root[n]) = 0 /\ Uncounted(root[n]) = {n} =>
              HoldsOf(root[n])' = 0 /\ EscapedOf(root[n])' = 0 /\ Uncounted(root[n])' = {n}
Still(n) == /\ Refs(has, n)' = Refs(has, n) /\ Refs(box, n)' = Refs(box, n) /\ Senders(n)' = Senders(n)
            /\ \A b \in ArcActors : has'[b][n] = has[b][n]
At(n) ==
  /\ root'[n] = root[n] /\ cnt'[n] = cnt[n]
  /\ root[n] # NoSlab /\ cnt[n] = 0 =>
       /\ sl'[root[n]].owner = sl[root[n]].owner
       /\ \A b \in Senders(n) : b \in alive /\ mslab[b] = root[n] => b \in alive' /\ mslab'[b] = root[n]
       /\ Ownerless(root[n]) /\ HoldsOf(root[n]) = 0 /\ EscapedOf(root[n]) = 0 /\ Uncounted(root[n]) = {n} =>
            HoldsOf(root[n])' = 0 /\ EscapedOf(root[n])' = 0 /\ Uncounted(root[n])' = {n}
LEMMA KeptAt ==
  ASSUME ArcInv, NEW n \in Roots, Still(n), At(n)
  PROVE  Reference(n)'
<1>1. Reference(n) /\ ArcTypes
  BY Parts
<1>2. /\ Refs(has, n)' = Refs(has, n) /\ Refs(box, n)' = Refs(box, n) /\ Senders(n)' = Senders(n)
      /\ \A b \in ArcActors : has'[b][n] = has[b][n]
  BY DEF Still
<1>3. root'[n] = root[n] /\ cnt'[n] = cnt[n]
  BY DEF At
<1>4. ASSUME cnt[n] = 0, root[n] # NoSlab PROVE (Local(n) => Local(n)') /\ (Sending(n) => Sending(n)')
  <2>1. /\ sl'[root[n]].owner = sl[root[n]].owner
        /\ \A b \in Senders(n) : b \in alive /\ mslab[b] = root[n] => b \in alive' /\ mslab'[b] = root[n]
        /\ Ownerless(root[n]) /\ HoldsOf(root[n]) = 0 /\ EscapedOf(root[n]) = 0 /\ Uncounted(root[n]) = {n} =>
             HoldsOf(root[n])' = 0 /\ EscapedOf(root[n])' = 0 /\ Uncounted(root[n])' = {n}
    BY <1>4 DEF At
  <2>2. Sending(n) => Sending(n)'
    BY <1>2, <1>3, <2>1, SendingStays DEF Sending
  <2>3. Local(n) => Local(n)'
    <3>1. root[n] \in Slabs /\ sl[root[n]].owner \in ArcActors \cup {NoOne}
      <4>1. root[n] \in Slabs /\ sl \in [Slabs -> SlabRec]
        BY <1>1, <1>4, SlTypes DEF SlabMaybe
      <4>2. sl[root[n]] \in SlabRec
        BY <4>1
      <4> QED BY <4>1, <4>2, HeaderType
    <3> QED BY <1>2, <1>3, <2>1, <3>1 DEF Local
  <2> QED BY <2>2, <2>3
<1> QED BY <1>1, <1>2, <1>3, <1>4, ReferenceStays
LEMMA OthersKept ==
  ASSUME ArcInv, NEW m \in Roots, Counting(m), Elsewhere(m), NEW n \in Roots, n # m
  PROVE  Reference(n)'
<1>1. Still(n)
  BY CountingElse DEF Still
<1>2. At(n)
  BY DEF Elsewhere, At
<1> QED BY <1>1, <1>2, KeptAt

LEMMA UncountsSome ==
  ASSUME ArcInv, NEW a \in ArcActors, NEW m \in Roots, Uncounts(a, m), cnt[m] # 1 PROVE ArcInv'
<1>1. /\ ArcTypes /\ Living /\ (\A s \in Slabs : Header(s)) /\ (\A n \in Roots : Reference(n))
      /\ sl \in [Slabs -> SlabRec] /\ root \in [Roots -> SlabMaybe] /\ cnt \in [Roots -> Nat]
  BY Parts, SlTypes
<1>2. /\ cnt' = [cnt EXCEPT ![m] = IF @ = 0 THEN 0 ELSE @ - 1] /\ UNCHANGED <<sl, root, dp, win>>
      /\ cnt[m] # 0 /\ UNCHANGED <<mslab, ent, alive>>
  BY DEF Uncounts, Decref
<1>3. /\ cnt' \in [Roots -> Nat] /\ cnt'[m] = cnt[m] - 1 /\ cnt'[m] # 0
      /\ \A n \in Roots : n # m => cnt'[n] = cnt[n]
  <2>1. cnt[m] \in Nat /\ cnt[m] - 1 \in Nat /\ cnt[m] - 1 # 0
    BY <1>1, <1>2
  <2>2. cnt' = [cnt EXCEPT ![m] = cnt[m] - 1]
    BY <1>2
  <2> QED BY <1>1, <2>1, <2>2, Updated
<1>4. /\ Counting(m) /\ Total(m) \in Nat /\ Total(m)' = Total(m) - 1
      /\ has' \in Counts /\ box' \in Counts /\ snd' \in [ArcActors -> Sends]
      /\ IsFiniteSet(Refs(has, m)') /\ IsFiniteSet(Refs(box, m)')
  BY TotalLess, CountingElse
<1>5. /\ Total(m) <= cnt[m] /\ cnt[m] \in Nat /\ root[m] \in Slabs
  BY <1>2, CountedRoot
<1>6. Reference(m)'
  <2>1. Total(m)' <= cnt'[m] /\ root'[m] # NoSlab
    BY <1>2, <1>3, <1>4, <1>5, ArcAssumption
  <2> QED BY <1>3, <1>4, <2>1 DEF Reference
<1>7. \A s : /\ Windows(s)' = Windows(s) /\ Packers(s)' = Packers(s) /\ Closures(s)' = Closures(s)
             /\ Counted(s)' = Counted(s) /\ Uncounted(s)' = Uncounted(s)
  BY <1>2, <1>3 DEF Windows, Packers, Closures, Counted, Uncounted
<1>8. \A s \in Slabs : Header(s)' /\ HoldsOf(s)' = HoldsOf(s) /\ EscapedOf(s)' = EscapedOf(s)
  BY <1>1, <1>2, <1>7, HeaderStays DEF HoldsOf, EscapedOf
<1>9. Elsewhere(m)
  <2> SUFFICES ASSUME NEW n \in Roots \ {m}
               PROVE  /\ root'[n] = root[n] /\ cnt'[n] = cnt[n] /\ sl' = sl /\ alive' = alive /\ mslab' = mslab
                      /\ root[n] # NoSlab => /\ HoldsOf(root[n])' = HoldsOf(root[n])
                                             /\ EscapedOf(root[n])' = EscapedOf(root[n])
                                             /\ Uncounted(root[n])' = Uncounted(root[n])
    BY DEF Elsewhere
  <2>1. root[n] # NoSlab => root[n] \in Slabs
    BY <1>1 DEF SlabMaybe
  <2> QED BY <1>2, <1>3, <1>7, <1>8, <2>1
<1>10. \A n \in Roots : Reference(n)'
  BY <1>4, <1>6, <1>9, OthersKept
<1>11. Living'
  BY <1>1, <1>2 DEF Living, Ownerless
<1>12. ArcTypes'
  BY <1>1, <1>2, <1>3, <1>4 DEF ArcTypes, RootTypes, ActorTypes
<1> QED BY <1>8, <1>10, <1>11, <1>12, InvTogether

(* What the last count leaves behind, whoever owns the slab. *)
LastGone(m, s) ==
  /\ s = root[m] /\ root' = [root EXCEPT ![m] = NoSlab] /\ cnt' = [cnt EXCEPT ![m] = 0]
  /\ UNCHANGED <<mslab, ent, alive>>
LEMMA LastSets ==
  ASSUME ArcInv, NEW m \in Roots, cnt[m] = 1, NEW s \in Slabs, LastGone(m, s)
  PROVE  /\ root' \in [Roots -> SlabMaybe] /\ cnt' \in [Roots -> Nat]
         /\ root'[m] = NoSlab /\ cnt'[m] = 0
         /\ \A n \in Roots : n # m => root'[n] = root[n] /\ cnt'[n] = cnt[n]
         /\ \A t : Packers(t)' = Packers(t) /\ Closures(t)' = Closures(t)
         /\ \A t \in Slabs : Uncounted(t)' = Uncounted(t)
         /\ \A t \in Slabs : t # s => Counted(t)' = Counted(t)
         /\ IsFiniteSet(Counted(s)') /\ Cardinality(Counted(s)') = Cardinality(Counted(s)) - 1
         /\ EscapedOf(s)' = EscapedOf(s) - 1
<1>1. root \in [Roots -> SlabMaybe] /\ cnt \in [Roots -> Nat]
  BY Parts, SlTypes
<1>2. /\ root' \in [Roots -> SlabMaybe] /\ root'[m] = NoSlab
      /\ \A n \in Roots : n # m => root'[n] = root[n]
  BY <1>1 DEF LastGone, SlabMaybe
<1>3. /\ cnt' \in [Roots -> Nat] /\ cnt'[m] = 0 /\ \A n \in Roots : n # m => cnt'[n] = cnt[n]
  BY <1>1 DEF LastGone
<1>4. NoSlab \notin Slabs /\ root[m] = s /\ s \in Slabs
  BY ArcAssumption DEF LastGone
<1>5. \A t \in Slabs : Uncounted(t)' = Uncounted(t)
  BY <1>2, <1>3, <1>4 DEF Uncounted
<1>6. \A t \in Slabs : t # s => Counted(t)' = Counted(t)
  BY <1>2, <1>3, <1>4 DEF Counted
<1>7. PICK C, B : C = Counted(s) /\ B = Counted(s)'
  OBVIOUS
<1>8. m \in C /\ B = C \ {m} /\ IsFiniteSet(C)
  <2>1. m \in C /\ B = C \ {m}
    BY <1>2, <1>3, <1>4, <1>7 DEF Counted
  <2>2. IsFiniteSet(C)
    BY <1>4, <1>7, CountedRoot
  <2> QED BY <2>1, <2>2
<1>9. IsFiniteSet(B) /\ Cardinality(B) = Cardinality(C) - 1 /\ Cardinality(C) \in Nat
  BY ONLY <1>8, OneLess, NoneIn
<1>10. \A t : Packers(t)' = Packers(t) /\ Closures(t)' = Closures(t)
  BY SamePackers, SameClosures DEF LastGone
<1>11. EscapedOf(s)' = EscapedOf(s) - 1
  <2>1. EscapedOf(s)' = Cardinality(B) + Cardinality(Closures(s)) /\ EscapedOf(s) = Cardinality(C) + Cardinality(Closures(s))
    BY <1>7, <1>10 DEF EscapedOf
  <2>2. Cardinality(Closures(s)) \in Nat
    BY FinitePackers
  <2> QED BY <1>9, <2>1, <2>2
<1> QED BY <1>2, <1>3, <1>5, <1>6, <1>7, <1>9, <1>10, <1>11

(* The rest of the state stays sound once the slab of the last count does. *)
LEMMA LastRest ==
  ASSUME ArcInv, NEW m \in Roots, cnt[m] = 1, NEW s \in Slabs, LastGone(m, s),
         Counting(m), Total(m) \in Nat, Total(m)' = Total(m) - 1,
         sl' \in [Slabs -> SlabRec], sl'[s].owner = sl[s].owner, Header(s)',
         \A t \in Slabs : t # s => sl'[t] = sl[t] /\ Windows(t)' = Windows(t)
  PROVE  (\A t \in Slabs : Header(t)') /\ (\A n \in Roots : Reference(n)')
<1>1. /\ ArcTypes /\ (\A t \in Slabs : Header(t)) /\ (\A n \in Roots : Reference(n))
      /\ root \in [Roots -> SlabMaybe]
  BY Parts, SlTypes
<1>2. /\ root'[m] = NoSlab /\ cnt'[m] = 0
      /\ \A n \in Roots : n # m => root'[n] = root[n] /\ cnt'[n] = cnt[n]
      /\ \A t \in Slabs : Packers(t)' = Packers(t) /\ Closures(t)' = Closures(t) /\ Uncounted(t)' = Uncounted(t)
      /\ \A t \in Slabs : t # s => Counted(t)' = Counted(t)
      /\ UNCHANGED <<mslab, alive>>
  <2>1. /\ root'[m] = NoSlab /\ cnt'[m] = 0
        /\ \A n \in Roots : n # m => root'[n] = root[n] /\ cnt'[n] = cnt[n]
    BY LastSets
  <2>2. \A t : Packers(t)' = Packers(t) /\ Closures(t)' = Closures(t)
    BY LastSets
  <2>3. \A t \in Slabs : Uncounted(t)' = Uncounted(t)
    BY LastSets
  <2>4. \A t \in Slabs : t # s => Counted(t)' = Counted(t)
    BY LastSets
  <2>5. UNCHANGED <<mslab, alive>>
    BY DEF LastGone
  <2> QED BY <2>1, <2>2, <2>3, <2>4, <2>5
<1>3. \A t \in Slabs : t # s => Header(t)' /\ HoldsOf(t)' = HoldsOf(t) /\ EscapedOf(t)' = EscapedOf(t)
  <2> SUFFICES ASSUME NEW t \in Slabs, t # s
               PROVE  Header(t)' /\ HoldsOf(t)' = HoldsOf(t) /\ EscapedOf(t)' = EscapedOf(t)
    OBVIOUS
  <2>1. Header(t) /\ sl'[t] = sl[t] /\ Windows(t)' = Windows(t)
    BY <1>1
  <2>2. /\ Packers(t)' = Packers(t) /\ Closures(t)' = Closures(t)
        /\ Counted(t)' = Counted(t) /\ Uncounted(t)' = Uncounted(t)
    BY <1>2
  <2>3. Header(t)'
    BY <2>1, <2>2, HeaderStays
  <2> QED BY <2>1, <2>2, <2>3 DEF HoldsOf, EscapedOf
<1>4. Elsewhere(m)
  <2> SUFFICES ASSUME NEW n \in Roots \ {m}, root[n] # NoSlab, cnt[n] = 0
               PROVE  /\ sl'[root[n]].owner = sl[root[n]].owner
                      /\ HoldsOf(root[n]) = 0 /\ EscapedOf(root[n]) = 0 /\ Uncounted(root[n]) = {n} =>
                           HoldsOf(root[n])' = 0 /\ EscapedOf(root[n])' = 0 /\ Uncounted(root[n])' = {n}
    BY <1>2 DEF Elsewhere
  <2>1. root[n] \in Slabs
    BY <1>1 DEF SlabMaybe
  <2>2. EscapedOf(s) > 0
    BY CountedRoot DEF LastGone
  <2> QED BY <1>2, <1>3, <2>1, <2>2
<1>5. Reference(m)'
  <2>1. Total(m) <= 1
    BY CountedRoot
  <2>2. Total(m)' = 0
    <3>1. Total(m)' \in Nat
      <4>1. /\ IsFiniteSet(Refs(has, m)') /\ IsFiniteSet(Refs(box, m)') /\ has' \in Counts /\ box' \in Counts
        BY CountingElse
      <4>2. Cardinality(Refs(has, m)') \in Nat /\ Cardinality(Refs(box, m)') \in Nat
        BY <4>1, FS_CardinalityType
      <4>3. Cardinality(Senders(m)') \in Nat
        <5>1. Senders(m)' \in SUBSET ArcActors
          BY DEF Senders
        <5> QED BY <5>1, FewActors
      <4> QED BY <4>2, <4>3 DEF Total
    <3> QED BY <2>1, <3>1
  <2>3. IsFiniteSet(Refs(has, m)') /\ IsFiniteSet(Refs(box, m)')
    BY CountingElse
  <2> QED BY <1>2, <2>2, <2>3 DEF Reference
<1> QED BY <1>3, <1>4, <1>5, OthersKept

(* A window over an ownerless slab, a free cell in a pool. *)
LEMMA ParkedSlab ==
  ASSUME ArcInv, NEW a \in ArcActors, NEW m \in Roots, Uncounts(a, m), cnt[m] = 1,
         NEW s \in Slabs, s = root[m], Ownerless(s)
  PROVE  /\ LastGone(m, s)
         /\ dp' = [dp EXCEPT ![a] = Append(@, s)] /\ win' = [win EXCEPT ![a] = @ \cup {s}]
         /\ sl' = [sl EXCEPT ![s] = Parked(sl[s])]
<1>1. /\ dp \in [ArcActors -> Seq(Slabs)] /\ sl \in [Slabs -> SlabRec]
  BY Parts, SlTypes, ActTypes
<1>2. PICK out : out = Escape(sl, s, -1)
  OBVIOUS
<1>3. /\ cnt' = [cnt EXCEPT ![m] = 0] /\ root' = [root EXCEPT ![m] = NoSlab]
      /\ Len(dp[a]) < MaxDrops /\ win' = [win EXCEPT ![a] = @ \cup {s}]
      /\ sl' = DropPark(out, a, s).sl /\ dp' = DropPark(out, a, s).dp
      /\ UNCHANGED <<mslab, ent, alive>> /\ MaxDrops <= DPN
  BY <1>2 DEF Uncounts, Decref
<1>4. Len(dp[a]) # DPN
  <2>1. Len(dp[a]) \in Nat
    BY <1>1
  <2> QED BY <1>3, <2>1, ArcAssumption
<1>5. DropPark(out, a, s) = [sl |-> [out EXCEPT ![s].holds = @ + 1], dp |-> [dp EXCEPT ![a] = Append(@, s)]]
  BY <1>4 DEF DropPark
<1>6. sl' = [out EXCEPT ![s].holds = @ + 1] /\ dp' = [dp EXCEPT ![a] = Append(@, s)]
  BY <1>3, <1>5
<1>7. PICK z \in SlabRec : z = [sl[s] EXCEPT !.escaped = sl[s].escaped - 1]
  <2>1. sl[s] \in SlabRec /\ sl[s].escaped - 1 \in Int
    <3>1. sl[s] \in SlabRec
      BY <1>1
    <3> QED BY <3>1, HeaderType
  <2> QED BY ONLY <2>1, SetEscaped
<1>8. out = [sl EXCEPT ![s] = z]
  <2>1. sl[s].escaped + (-1) = sl[s].escaped - 1
    <3>1. sl[s] \in SlabRec
      BY <1>1
    <3> QED BY <3>1, HeaderType
  <2> QED BY <1>1, <1>2, <1>7, <2>1 DEF Escape
<1>9. /\ out \in [Slabs -> SlabRec] /\ out[s] = z
      /\ z.holds = sl[s].holds
  <2>1. sl[s] \in SlabRec
    BY <1>1
  <2>2. sl[s].escaped - 1 \in Int
    BY <2>1, HeaderType
  <2>3. z.holds = sl[s].holds
    BY ONLY <1>7, <2>1, <2>2, SetEscaped
  <2> QED BY <1>1, <1>8, <2>3, SlabSet
<1>10. PICK y : y = [z EXCEPT !.holds = sl[s].holds + 1]
  OBVIOUS
<1>11. sl' = [out EXCEPT ![s] = y]
  BY <1>6, <1>9, <1>10
<1>12. sl' = [sl EXCEPT ![s] = y]
  BY <1>1, <1>8, <1>11
<1>13. y = Parked(sl[s])
  BY <1>7, <1>10 DEF Parked
<1> QED BY <1>3, <1>6, <1>12, <1>13 DEF LastGone

LEMMA UncountsParked ==
  ASSUME ArcInv, NEW a \in ArcActors, NEW m \in Roots, Uncounts(a, m), cnt[m] = 1, Ownerless(root[m])
  PROVE  ArcInv'
<1>1. /\ ArcTypes /\ Living /\ sl \in [Slabs -> SlabRec] /\ dp \in [ArcActors -> Seq(Slabs)]
      /\ win \in [ArcActors -> SUBSET Slabs]
  BY Parts, SlTypes, ActTypes
<1>2. PICK s \in Slabs : s = root[m]
  BY CountedRoot
<1>3. Header(s) /\ EscapedOf(s) > 0 /\ EscapedOf(s) \in Nat /\ HoldsOf(s) \in Nat /\ IsFiniteSet(Windows(s))
  BY <1>2, CountedRoot
<1>4. /\ LastGone(m, s)
      /\ dp' = [dp EXCEPT ![a] = Append(@, s)] /\ win' = [win EXCEPT ![a] = @ \cup {s}]
      /\ sl' = [sl EXCEPT ![s] = Parked(sl[s])]
  <2>1. Ownerless(s)
    BY <1>2
  <2> QED BY <1>2, <2>1, ParkedSlab
<1> PICK y : y = Parked(sl[s])
  OBVIOUS
<1>5. /\ dp' \in [ArcActors -> Seq(Slabs)]
      /\ \A b \in ArcActors : b # a => dp'[b] = dp[b]
      /\ \A t \in Slabs : t # s => Windows(t)' = Windows(t)
      /\ IsFiniteSet(Windows(s)') /\ Cardinality(Windows(s)') = Cardinality(Windows(s)) + 1
      /\ Cardinality(Windows(s)) \in Nat
      /\ Entries(dp'[a], s) # {} /\ \A t \in Slabs : Entries(dp[a], t) \subseteq Entries(dp'[a], t)
  BY <1>1, <1>3, <1>4, WindowOpens
<1>6. Fits(sl[s], HoldsOf(s), EscapedOf(s), Uncounted(s)) /\ sl[s].owner = NoOne
  BY <1>2, <1>3 DEF Header, Ownerless
<1>7. Fits(y, HoldsOf(s) + 1, EscapedOf(s) - 1, Uncounted(s)) /\ y.owner = NoOne
  <2>1. PICK x, h, e, U : x = sl[s] /\ h = HoldsOf(s) /\ e = EscapedOf(s) /\ U = Uncounted(s)
    OBVIOUS
  <2>2. h \in Nat /\ e \in Nat /\ e > 0 /\ Fits(x, h, e, U) /\ x.owner = NoOne
    BY <1>3, <1>6, <2>1
  <2>3. Fits(Parked(x), h + 1, e - 1, U) /\ Parked(x).owner = NoOne
    BY ONLY <2>2, FitsPark
  <2> QED BY <2>1, <2>3
<1>8. /\ sl' \in [Slabs -> SlabRec] /\ sl'[s] = y /\ \A t \in Slabs : t # s => sl'[t] = sl[t]
  BY <1>1, <1>4, <1>7, SlabSet DEF Fits
<1>9. /\ root' \in [Roots -> SlabMaybe] /\ cnt' \in [Roots -> Nat]
      /\ Packers(s)' = Packers(s) /\ Uncounted(s)' = Uncounted(s)
      /\ IsFiniteSet(Counted(s)') /\ EscapedOf(s)' = EscapedOf(s) - 1
      /\ UNCHANGED <<mslab, ent, alive>>
  BY <1>2, <1>4, LastSets DEF LastGone
<1>10. HoldsOf(s)' = HoldsOf(s) + 1
  <2>1. Cardinality(Packers(s)) \in Nat /\ Cardinality(Packers(s)') = Cardinality(Packers(s))
    BY <1>9, FinitePackers
  <2> QED BY <1>5, <2>1 DEF HoldsOf
<1>11. Header(s)'
  BY <1>5, <1>7, <1>8, <1>9, <1>10 DEF Header
<1>12. /\ Counting(m) /\ Total(m) \in Nat /\ Total(m)' = Total(m) - 1
       /\ has' \in Counts /\ box' \in Counts /\ snd' \in [ArcActors -> Sends]
  BY TotalLess, CountingElse
<1>13. (\A t \in Slabs : Header(t)') /\ (\A n \in Roots : Reference(n)')
  <2>1. sl'[s].owner = sl[s].owner
    BY <1>6, <1>7, <1>8
  <2> QED BY <1>4, <1>5, <1>8, <1>11, <1>12, <2>1, LastRest
<1>14. win' \in [ArcActors -> SUBSET Slabs] /\ \A b \in ArcActors : win'[b] = IF b = a THEN win[a] \cup {s} ELSE win[b]
  BY <1>1, <1>4
<1>15. Living'
  <2>1. \A t \in Slabs : sl'[t].owner = sl[t].owner
    BY <1>6, <1>7, <1>8
  <2>2. \A b \in ArcActors : \A t \in win'[b] : Entries(dp'[b], t) # {}
    <3>1. \A t \in win[a] : Entries(dp[a], t) # {} /\ t \in Slabs
      BY <1>1 DEF Living
    <3>2. \A t \in win'[a] : Entries(dp'[a], t) # {}
      BY <1>5, <1>14, <3>1
    <3>3. \A b \in ArcActors : b # a => \A t \in win'[b] : Entries(dp'[b], t) # {}
      BY <1>1, <1>5, <1>14 DEF Living
    <3> QED BY <3>2, <3>3
  <2>3. \A b \in ArcActors : ent[b] # NoSlab => ent[b] \in Slabs
    BY <1>1, ActTypes DEF SlabMaybe
  <2> QED BY <1>1, <1>9, <2>1, <2>2, <2>3 DEF Living, Ownerless
<1>16. ArcTypes'
  <2>1. RootTypes'
    BY <1>8, <1>9, <1>12 DEF RootTypes
  <2> QED BY <1>1, <1>5, <1>9, <1>12, <1>14, <2>1 DEF ArcTypes, ActorTypes
<1> QED BY <1>13, <1>15, <1>16, InvTogether

LEMMA UncountsFreed ==
  ASSUME ArcInv, NEW a \in ArcActors, NEW m \in Roots, Uncounts(a, m), cnt[m] = 1, ~Ownerless(root[m])
  PROVE  ArcInv'
<1>1. /\ ArcTypes /\ Living /\ sl \in [Slabs -> SlabRec]
  BY Parts, SlTypes
<1>2. PICK s \in Slabs : s = root[m]
  BY CountedRoot
<1>3. Header(s) /\ EscapedOf(s) > 0 /\ EscapedOf(s) \in Nat /\ HoldsOf(s) \in Nat /\ IsFiniteSet(Windows(s))
  BY <1>2, CountedRoot
<1>4. /\ LastGone(m, s) /\ UNCHANGED <<dp, win, mslab, ent, alive>>
      /\ sl' = [Escape(sl, s, -1) EXCEPT ![s].hp = @ - 1]
  BY <1>2 DEF Uncounts, Decref, LastGone
<1>5. Fits(sl[s], HoldsOf(s), EscapedOf(s), Uncounted(s)) /\ sl[s].owner # NoOne /\ sl[s] \in SlabRec
  BY <1>2, <1>3 DEF Header, Ownerless, Fits
<1>6. PICK y : y = Freed(sl[s])
  OBVIOUS
<1>7. sl' = [sl EXCEPT ![s] = y]
  <2>1. sl[s].escaped + (-1) = sl[s].escaped - 1 /\ sl[s].escaped - 1 \in Int
    BY <1>5, HeaderType
  <2>2. PICK z \in SlabRec : z = [sl[s] EXCEPT !.escaped = sl[s].escaped - 1]
    BY <1>5, <2>1, SetEscaped
  <2>3. Escape(sl, s, -1) = [sl EXCEPT ![s] = z]
    BY <1>1, <2>1, <2>2 DEF Escape
  <2>4. y = [z EXCEPT !.hp = @ - 1]
    <3>1. z.hp = sl[s].hp
      BY <1>5, <2>1, <2>2, SetEscaped
    <3> QED BY <1>6, <2>2, <3>1 DEF Freed
  <2> QED BY <1>1, <1>4, <2>2, <2>3, <2>4
<1>8. Fits(y, HoldsOf(s), EscapedOf(s) - 1, Uncounted(s)) /\ y.owner = sl[s].owner
  <2>1. PICK x, h, e, U : x = sl[s] /\ h = HoldsOf(s) /\ e = EscapedOf(s) /\ U = Uncounted(s)
    OBVIOUS
  <2>2. h \in Nat /\ e \in Nat /\ e > 0 /\ Fits(x, h, e, U) /\ x.owner # NoOne
    BY <1>3, <1>5, <2>1
  <2>3. Fits(Freed(x), h, e - 1, U) /\ Freed(x).owner = x.owner
    BY ONLY <2>2, FitsFreed
  <2> QED BY <1>6, <2>1, <2>3
<1>9. /\ sl' \in [Slabs -> SlabRec] /\ sl'[s] = y /\ \A t \in Slabs : t # s => sl'[t] = sl[t]
  BY <1>1, <1>7, <1>8, SlabSet DEF Fits
<1>10. /\ root' \in [Roots -> SlabMaybe] /\ cnt' \in [Roots -> Nat]
       /\ Packers(s)' = Packers(s) /\ Uncounted(s)' = Uncounted(s)
       /\ IsFiniteSet(Counted(s)') /\ EscapedOf(s)' = EscapedOf(s) - 1
  BY <1>2, <1>4, LastSets
<1>11. \A t : Windows(t)' = Windows(t)
  BY <1>4, SameWindows
<1>12. Header(s)'
  <2>1. HoldsOf(s)' = HoldsOf(s) /\ IsFiniteSet(Windows(s)')
    BY <1>3, <1>10, <1>11 DEF HoldsOf
  <2> QED BY <1>8, <1>9, <1>10, <2>1 DEF Header
<1>13. /\ Counting(m) /\ Total(m) \in Nat /\ Total(m)' = Total(m) - 1
       /\ has' \in Counts /\ box' \in Counts /\ snd' \in [ArcActors -> Sends]
  BY TotalLess, CountingElse
<1>14. (\A t \in Slabs : Header(t)') /\ (\A n \in Roots : Reference(n)')
  BY <1>4, <1>8, <1>9, <1>11, <1>12, <1>13, LastRest
<1>15. Living'
  <2>1. \A t \in Slabs : sl'[t].owner = sl[t].owner
    BY <1>8, <1>9
  <2>2. \A b \in ArcActors : ent[b] # NoSlab => ent[b] \in Slabs
    BY <1>1, ActTypes DEF SlabMaybe
  <2> QED BY <1>1, <1>4, <2>1, <2>2 DEF Living, Ownerless
<1>16. ArcTypes'
  <2>1. RootTypes'
    BY <1>9, <1>10, <1>13 DEF RootTypes
  <2> QED BY <1>1, <1>4, <1>13, <2>1 DEF ArcTypes, ActorTypes
<1> QED BY <1>14, <1>15, <1>16, InvTogether

LEMMA UncountsInv ==
  ASSUME ArcInv, NEW a \in ArcActors, NEW m \in Roots, Uncounts(a, m) PROVE ArcInv'
BY UncountsSome, UncountsParked, UncountsFreed

----------------------------------------------------------------------------
(* A reference changes hands, the count stays. *)
LEMMA HandsOver ==
  ASSUME ArcInv, NEW m \in Roots, cnt[m] # 0, Counting(m), Total(m)' = Total(m),
         UNCHANGED <<sl, root, cnt, mslab, dp, ent, alive, win>>
  PROVE  ArcInv'
<1>1. /\ ArcTypes /\ Living /\ (\A s \in Slabs : Header(s)) /\ (\A n \in Roots : Reference(n))
      /\ root \in [Roots -> SlabMaybe]
  BY Parts, SlTypes
<1>2. /\ has' \in Counts /\ box' \in Counts /\ snd' \in [ArcActors -> Sends]
      /\ IsFiniteSet(Refs(has, m)') /\ IsFiniteSet(Refs(box, m)')
  BY CountingElse
<1>3. \A s : /\ Windows(s)' = Windows(s) /\ Packers(s)' = Packers(s) /\ Closures(s)' = Closures(s)
             /\ Counted(s)' = Counted(s) /\ Uncounted(s)' = Uncounted(s)
  BY DEF Windows, Packers, Closures, Counted, Uncounted
<1>4. \A s \in Slabs : Header(s)' /\ HoldsOf(s)' = HoldsOf(s) /\ EscapedOf(s)' = EscapedOf(s)
  BY <1>1, <1>3, HeaderStays DEF HoldsOf, EscapedOf
<1>5. Elsewhere(m)
  <2>1. \A n \in Roots : root[n] # NoSlab => root[n] \in Slabs
    BY <1>1 DEF SlabMaybe
  <2> QED BY <1>3, <1>4, <2>1 DEF Elsewhere
<1>6. Reference(m)'
  BY <1>1, <1>2 DEF Reference
<1>7. \A n \in Roots : Reference(n)'
  BY <1>5, <1>6, OthersKept
<1>8. Living'
  BY <1>1 DEF Living, Ownerless
<1>9. ArcTypes'
  BY <1>1, <1>2 DEF ArcTypes, RootTypes, ActorTypes
<1> QED BY <1>4, <1>7, <1>8, <1>9, InvTogether

(* A root gets its first count, or one more. *)
Counts1(m, first) ==
  /\ Count(m, first) /\ first \in Nat \ {0} /\ root[m] # NoSlab
  /\ UNCHANGED <<root, mslab, dp, ent, alive, win>>
  /\ Counting(m) /\ Total(m)' <= cnt'[m]
LEMMA CountsAgain ==
  ASSUME ArcInv, NEW m \in Roots, NEW first, Counts1(m, first), cnt[m] # 0 PROVE ArcInv'
<1>1. /\ ArcTypes /\ Living /\ (\A s \in Slabs : Header(s)) /\ (\A n \in Roots : Reference(n))
      /\ root \in [Roots -> SlabMaybe] /\ cnt \in [Roots -> Nat]
  BY Parts, SlTypes
<1>2. /\ cnt' = [cnt EXCEPT ![m] = IF @ = 0 THEN first ELSE @ + 1] /\ sl' = sl
      /\ UNCHANGED <<root, mslab, dp, ent, alive, win>>
  BY DEF Counts1, Count
<1>3. /\ cnt' \in [Roots -> Nat] /\ cnt'[m] # 0 /\ \A n \in Roots : n # m => cnt'[n] = cnt[n]
  <2>1. cnt[m] \in Nat /\ cnt[m] + 1 \in Nat /\ cnt[m] + 1 # 0
    BY <1>1
  <2>2. cnt' = [cnt EXCEPT ![m] = cnt[m] + 1]
    BY <1>2
  <2> QED BY <1>1, <2>1, <2>2, Updated
<1>4. /\ has' \in Counts /\ box' \in Counts /\ snd' \in [ArcActors -> Sends]
      /\ IsFiniteSet(Refs(has, m)') /\ IsFiniteSet(Refs(box, m)')
  BY CountingElse DEF Counts1
<1>5. \A s : /\ Windows(s)' = Windows(s) /\ Packers(s)' = Packers(s) /\ Closures(s)' = Closures(s)
             /\ Counted(s)' = Counted(s) /\ Uncounted(s)' = Uncounted(s)
  BY <1>2, <1>3 DEF Windows, Packers, Closures, Counted, Uncounted
<1>6. \A s \in Slabs : Header(s)' /\ HoldsOf(s)' = HoldsOf(s) /\ EscapedOf(s)' = EscapedOf(s)
  BY <1>1, <1>2, <1>5, HeaderStays DEF HoldsOf, EscapedOf
<1>7. Elsewhere(m)
  <2>1. \A n \in Roots : root[n] # NoSlab => root[n] \in Slabs
    BY <1>1 DEF SlabMaybe
  <2> QED BY <1>2, <1>3, <1>5, <1>6, <2>1 DEF Elsewhere
<1>8. Reference(m)'
  BY <1>2, <1>3, <1>4 DEF Reference, Counts1
<1>9. \A n \in Roots : Reference(n)'
  BY <1>7, <1>8, OthersKept DEF Counts1
<1>10. Living'
  BY <1>1, <1>2 DEF Living, Ownerless
<1>11. ArcTypes'
  BY <1>1, <1>2, <1>3, <1>4 DEF ArcTypes, RootTypes, ActorTypes
<1> QED BY <1>6, <1>9, <1>10, <1>11, InvTogether
LEMMA CountsFirst ==
  ASSUME ArcInv, NEW m \in Roots, NEW first, Counts1(m, first), cnt[m] = 0 PROVE ArcInv'
<1>1. /\ ArcTypes /\ Living /\ (\A s \in Slabs : Header(s)) /\ (\A n \in Roots : Reference(n))
      /\ root \in [Roots -> SlabMaybe] /\ cnt \in [Roots -> Nat] /\ sl \in [Slabs -> SlabRec]
  BY Parts, SlTypes
<1>2. PICK s \in Slabs : s = root[m]
  BY <1>1 DEF SlabMaybe, Counts1
<1>3. /\ cnt' = [cnt EXCEPT ![m] = IF @ = 0 THEN first ELSE @ + 1] /\ sl' = Escape(sl, s, 1)
      /\ first \in Nat \ {0} /\ UNCHANGED <<root, mslab, dp, ent, alive, win>>
  BY <1>2 DEF Counts1, Count
<1>4. /\ cnt' \in [Roots -> Nat] /\ cnt'[m] # 0 /\ \A n \in Roots : n # m => cnt'[n] = cnt[n]
  BY <1>1, <1>3
<1>5. /\ has' \in Counts /\ box' \in Counts /\ snd' \in [ArcActors -> Sends]
      /\ IsFiniteSet(Refs(has, m)') /\ IsFiniteSet(Refs(box, m)')
  BY CountingElse DEF Counts1
<1>6. /\ \A t : Windows(t)' = Windows(t) /\ Packers(t)' = Packers(t) /\ Closures(t)' = Closures(t)
      /\ \A t \in Slabs : t # s => Counted(t)' = Counted(t) /\ Uncounted(t)' = Uncounted(t)
  BY <1>2, <1>3, <1>4 DEF Windows, Packers, Closures, Counted, Uncounted
<1>7. PICK C, B : C = Counted(s) /\ B = Counted(s)'
  OBVIOUS
<1>8. m \notin C /\ B = C \cup {m} /\ m \in Uncounted(s) /\ IsFiniteSet(C)
  <2>1. m \notin C /\ B = C \cup {m} /\ m \in Uncounted(s)
    BY <1>2, <1>3, <1>4, <1>7 DEF Counted, Uncounted
  <2>2. IsFiniteSet(C)
    BY <1>1, <1>7 DEF Header
  <2> QED BY <2>1, <2>2
<1>9. IsFiniteSet(B) /\ Cardinality(B) = Cardinality(C) + 1 /\ Cardinality(C) \in Nat
  BY ONLY <1>8, OneMore
<1>10. EscapedOf(s)' = EscapedOf(s) + 1
  <2>1. EscapedOf(s)' = Cardinality(B) + Cardinality(Closures(s)) /\ EscapedOf(s) = Cardinality(C) + Cardinality(Closures(s))
    BY <1>6, <1>7 DEF EscapedOf
  <2>2. Cardinality(Closures(s)) \in Nat
    BY FinitePackers
  <2> QED BY <1>9, <2>1, <2>2
<1>11. /\ Fits(sl[s], HoldsOf(s), EscapedOf(s), Uncounted(s)) /\ sl[s].kind # "home" /\ sl[s] \in SlabRec
       /\ HoldsOf(s) \in Nat /\ EscapedOf(s) \in Nat /\ IsFiniteSet(Windows(s))
  <2>1. Header(s) /\ HoldsOf(s) \in Nat /\ EscapedOf(s) \in Nat
    BY <1>1, CountsOf
  <2> QED BY <1>8, <2>1 DEF Header, Fits
<1>12. PICK y : y = [sl[s] EXCEPT !.escaped = @ + 1]
  OBVIOUS
<1>13. Fits(y, HoldsOf(s), EscapedOf(s) + 1, Uncounted(s)') /\ y.owner = sl[s].owner
  <2>1. PICK x, h, e, U, V : x = sl[s] /\ h = HoldsOf(s) /\ e = EscapedOf(s) /\ U = Uncounted(s) /\ V = Uncounted(s)'
    OBVIOUS
  <2>2. h \in Nat /\ e \in Nat /\ Fits(x, h, e, U) /\ x.kind # "home" /\ x \in SlabRec
    BY <1>11, <2>1
  <2>3. Fits([x EXCEPT !.escaped = @ + 1], h, e + 1, V)
    BY ONLY <2>2, FitsEscape
  <2>4. [x EXCEPT !.escaped = @ + 1].owner = x.owner
    BY <2>2 DEF SlabRec
  <2> QED BY <1>12, <2>1, <2>3, <2>4
<1>14. /\ sl' \in [Slabs -> SlabRec] /\ sl'[s] = y /\ \A t \in Slabs : t # s => sl'[t] = sl[t]
  <2>1. sl' = [sl EXCEPT ![s] = y]
    BY <1>1, <1>3, <1>12 DEF Escape
  <2> QED BY <1>1, <1>13, <2>1, SlabSet DEF Fits
<1>15. Header(s)'
  <2>1. HoldsOf(s)' = HoldsOf(s) /\ IsFiniteSet(Windows(s)') /\ IsFiniteSet(Counted(s)')
    BY <1>6, <1>7, <1>9, <1>11 DEF HoldsOf
  <2> QED BY <1>10, <1>13, <1>14, <2>1 DEF Header
<1>16. \A t \in Slabs : t # s => Header(t)' /\ HoldsOf(t)' = HoldsOf(t) /\ EscapedOf(t)' = EscapedOf(t)
  BY <1>1, <1>6, <1>14, HeaderStays DEF HoldsOf, EscapedOf
<1>17. Elsewhere(m)
  <2> SUFFICES ASSUME NEW n \in Roots \ {m}, root[n] # NoSlab, cnt[n] = 0
               PROVE  /\ sl'[root[n]].owner = sl[root[n]].owner
                      /\ HoldsOf(root[n]) = 0 /\ EscapedOf(root[n]) = 0 /\ Uncounted(root[n]) = {n} =>
                           HoldsOf(root[n])' = 0 /\ EscapedOf(root[n])' = 0 /\ Uncounted(root[n])' = {n}
    BY <1>3, <1>4 DEF Elsewhere
  <2>1. root[n] \in Slabs
    BY <1>1 DEF SlabMaybe
  <2>2. Uncounted(s) # {n}
    BY <1>8
  <2>3. root'[n] = root[n]
    BY <1>3
  <2> QED BY <1>6, <1>13, <1>14, <1>16, <2>1, <2>2, <2>3
<1>18. Reference(m)'
  BY <1>3, <1>4, <1>5 DEF Reference, Counts1
<1>19. \A n \in Roots : Reference(n)'
  BY <1>17, <1>18, OthersKept DEF Counts1
<1>20. Living'
  <2>1. \A t \in Slabs : sl'[t].owner = sl[t].owner
    BY <1>13, <1>14
  <2>2. \A b \in ArcActors : ent[b] # NoSlab => ent[b] \in Slabs
    BY <1>1, ActTypes DEF SlabMaybe
  <2> QED BY <1>1, <1>3, <2>1, <2>2 DEF Living, Ownerless
<1>21. ArcTypes'
  <2>1. RootTypes'
    BY <1>1, <1>3, <1>4, <1>5, <1>14 DEF RootTypes
  <2> QED BY <1>1, <1>3, <1>5, <2>1 DEF ArcTypes, ActorTypes
<1> QED BY <1>15, <1>16, <1>19, <1>20, <1>21, InvTogether
LEMMA CountsInv ==
  ASSUME ArcInv, NEW m \in Roots, NEW first, Counts1(m, first) PROVE ArcInv'
BY CountsAgain, CountsFirst

----------------------------------------------------------------------------
(* Whoever is about to send, holds or has queued a root is among its references. *)
LEMMA SendingRoot ==
  ASSUME ArcInv, NEW a \in ArcActors, snd[a] # <<>>
  PROVE  \E m \in Roots : snd[a] = <<m>> /\ snd[a][1] = m
<1>1. snd[a] \in Sends
  BY Parts, ActTypes
<1> QED BY <1>1 DEF Sends
LEMMA TotalOf ==
  ASSUME ArcInv, NEW m \in Roots
  PROVE  /\ Total(m) \in Nat /\ IsFiniteSet(Refs(has, m)) /\ IsFiniteSet(Refs(box, m)) /\ Reference(m)
         /\ Cardinality(Refs(has, m)) \in Nat /\ Cardinality(Refs(box, m)) \in Nat
         /\ IsFiniteSet(Senders(m)) /\ Cardinality(Senders(m)) \in Nat
         /\ Total(m) = Cardinality(Refs(has, m)) + Cardinality(Refs(box, m)) + Cardinality(Senders(m))
         /\ has \in Counts /\ box \in Counts /\ cnt[m] \in Nat /\ snd \in [ArcActors -> Sends]
<1>1. /\ Reference(m) /\ has \in Counts /\ box \in Counts /\ cnt[m] \in Nat
      /\ snd \in [ArcActors -> Sends]
  BY Parts, SlTypes, ActTypes
<1>2. IsFiniteSet(Refs(has, m)) /\ IsFiniteSet(Refs(box, m))
  BY <1>1 DEF Reference
<1>3. Cardinality(Refs(has, m)) \in Nat /\ Cardinality(Refs(box, m)) \in Nat
  BY <1>2, FS_CardinalityType
<1>4. IsFiniteSet(Senders(m)) /\ Cardinality(Senders(m)) \in Nat
  BY FiniteSenders
<1>5. Total(m) \in Nat
  BY <1>3, <1>4 DEF Total
<1> QED BY <1>1, <1>2, <1>3, <1>4, <1>5 DEF Total
LEMMA SentOnce ==
  ASSUME ArcInv, NEW a \in ArcActors, NEW m \in Roots, snd[a] = <<m>>
  PROVE  Cardinality(Senders(m)) >= 1 /\ Total(m) >= 1 /\ root[m] # NoSlab
<1>1. a \in Senders(m)
  BY DEF Senders
<1>2. Cardinality(Senders(m)) >= 1 /\ Total(m) >= 1
  <2>1. Cardinality(Senders(m)) >= 1
    BY <1>1, FiniteSenders, NoneIn
  <2> QED BY <2>1, TotalOf
<1>3. root[m] # NoSlab
  BY <1>2, TotalOf DEF Reference
<1> QED BY <1>2, <1>3
LEMMA HeldOnce ==
  ASSUME ArcInv, NEW a \in ArcActors, NEW m \in Roots, has[a][m] > 0
  PROVE  Cardinality(Refs(has, m)) >= 1 /\ Total(m) >= 1 /\ root[m] # NoSlab
<1>1. Cardinality(Refs(has, m)) >= 1
  BY TotalOf, HasRef
<1>2. Total(m) >= 1
  BY <1>1, TotalOf
<1>3. root[m] # NoSlab
  BY <1>2, TotalOf DEF Reference
<1> QED BY <1>1, <1>2, <1>3
(* A root that nobody counts is its owner's alone, or its sender's alone. *)
LEMMA HeldLocal ==
  ASSUME ArcInv, NEW a \in ArcActors, NEW m \in Roots, has[a][m] > 0, cnt[m] = 0
  PROVE  Total(m) = 1 /\ Local(m) /\ sl[root[m]].owner = a /\ root[m] \in Slabs
<1>1. root[m] # NoSlab /\ Cardinality(Refs(has, m)) >= 1
  BY HeldOnce
<1>2. Total(m) = 1 /\ (Local(m) \/ Sending(m))
  BY <1>1, TotalOf DEF Reference
<1>3. Cardinality(Refs(has, m)) = 1 /\ Cardinality(Senders(m)) = 0
  BY <1>1, <1>2, TotalOf
<1>4. ~Sending(m)
  <2>1. Senders(m) = {}
    BY <1>3, TotalOf, NoneIn
  <2> QED BY <2>1 DEF Sending
<1>5. root[m] \in Slabs /\ sl[root[m]].owner \in ArcActors \cup {NoOne}
  <2>1. root[m] \in Slabs /\ sl \in [Slabs -> SlabRec]
    BY <1>1, Parts, SlTypes DEF SlabMaybe
  <2>2. sl[root[m]] \in SlabRec
    BY <2>1
  <2> QED BY <2>1, <2>2, HeaderType
<1>6. \A b \in ArcActors : b # a => has[b][m] = 0
  BY <1>3, TotalOf, HasRef
<1>7. sl[root[m]].owner = a
  BY <1>2, <1>4, <1>5, <1>6 DEF Local
<1> QED BY <1>2, <1>4, <1>5, <1>7

LEMMA DecrefPart ==
  ASSUME NEW a, NEW m, NEW i \in Int, NEW j \in Int, NEW k \in Int, Tokens(m, i, j, k), i + j + k = -1,
         Decref(a, m), cnt[m] # 0, MaxDrops <= DPN, UNCHANGED <<mslab, ent, alive>>
  PROVE  Uncounts(a, m)
BY DEF Uncounts

LEMMA SendPushInv == ASSUME ArcInv, MaxDrops <= DPN, NEW a \in ArcActors, SendPush(a) PROVE ArcInv'
<1>1. PICK m \in Roots : snd[a] = <<m>> /\ snd[a][1] = m
  BY SendingRoot DEF SendPush
<1>2. /\ cnt[m] # 0 /\ snd' = [snd EXCEPT ![a] = <<>>] /\ UNCHANGED <<has, mslab, ent, alive>>
      /\ \/ \E b \in ArcActors : box' = Ref(box, b, m, 1) /\ UNCHANGED <<sl, root, cnt, dp, win>>
         \/ Decref(a, m) /\ UNCHANGED box
  BY <1>1 DEF SendPush
<1>3. /\ Total(m) \in Nat /\ IsFiniteSet(Refs(has, m)) /\ IsFiniteSet(Refs(box, m))
      /\ has \in Counts /\ box \in Counts /\ snd \in [ArcActors -> Sends]
  BY TotalOf
<1>4. SndShifts(m, -1) /\ Shifts(has, has', m, 0)
  BY <1>1, <1>2, <1>3, SndOver, ShiftsNot
<1>5. CASE \E b \in ArcActors : box' = Ref(box, b, m, 1) /\ UNCHANGED <<sl, root, cnt, dp, win>>
  <2>1. Shifts(box, box', m, 1)
    BY <1>3, <1>5, ShiftsUp
  <2>2. Tokens(m, 0, 1, -1)
    BY <1>4, <2>1 DEF Tokens
  <2>3. Counting(m) /\ Total(m)' = Total(m)
    <3>1. Total(m)' = Total(m) + (0 + 1 + (-1))
      BY <2>2, TotalShifts
    <3> QED BY <1>3, <2>2, <3>1 DEF Counting
  <2> QED BY <1>2, <1>5, <2>3, HandsOver
<1>6. CASE Decref(a, m) /\ UNCHANGED box
  <2>1. Shifts(box, box', m, 0)
    BY <1>3, <1>6, ShiftsNot
  <2>2. Tokens(m, 0, 0, -1)
    BY <1>4, <2>1 DEF Tokens
  <2>3. Uncounts(a, m)
    BY <1>2, <1>6, <2>2, DecrefPart
  <2> QED BY <2>3, UncountsInv
<1> QED BY <1>2, <1>5, <1>6

LEMMA SendLinearInv == ASSUME ArcInv, MaxDrops <= DPN, NEW a \in ArcActors, SendLinear(a) PROVE ArcInv'
<1>1. PICK m \in Roots :
        /\ has[a][m] > 0 /\ cnt[m] > 0 /\ has' = Ref(has, a, m, -1)
        /\ \/ \E b \in alive : box' = Ref(box, b, m, 1) /\ UNCHANGED <<sl, root, cnt, dp, win>>
           \/ Decref(a, m) /\ UNCHANGED box
  BY DEF SendLinear
<1>2. UNCHANGED <<snd, mslab, ent, alive>>
  BY DEF SendLinear
<1>3. /\ Total(m) \in Nat /\ IsFiniteSet(Refs(has, m)) /\ IsFiniteSet(Refs(box, m)) /\ cnt[m] \in Nat
      /\ has \in Counts /\ box \in Counts /\ snd \in [ArcActors -> Sends] /\ alive \subseteq ArcActors
  BY TotalOf, Parts, ActTypes
<1>4. SndShifts(m, 0) /\ Shifts(has, has', m, -1) /\ cnt[m] # 0
  BY <1>1, <1>2, <1>3, SndNot, ShiftsDown
<1>5. CASE \E b \in alive : box' = Ref(box, b, m, 1) /\ UNCHANGED <<sl, root, cnt, dp, win>>
  <2>1. Shifts(box, box', m, 1)
    BY <1>3, <1>5, ShiftsUp
  <2>2. Tokens(m, -1, 1, 0)
    BY <1>4, <2>1 DEF Tokens
  <2>3. Counting(m) /\ Total(m)' = Total(m)
    <3>1. Total(m)' = Total(m) + (-1 + 1 + 0)
      BY <2>2, TotalShifts
    <3> QED BY <1>3, <2>2, <3>1 DEF Counting
  <2> QED BY <1>2, <1>4, <1>5, <2>3, HandsOver
<1>6. CASE Decref(a, m) /\ UNCHANGED box
  <2>1. Shifts(box, box', m, 0)
    BY <1>3, <1>6, ShiftsNot
  <2>2. Tokens(m, -1, 0, 0)
    BY <1>4, <2>1 DEF Tokens
  <2>3. Uncounts(a, m)
    BY <1>2, <1>4, <1>6, <2>2, DecrefPart
  <2> QED BY <2>3, UncountsInv
<1> QED BY <1>1, <1>5, <1>6

LEMMA DropInv == ASSUME ArcInv, MaxDrops <= DPN, NEW a \in ArcActors, Drop(a) PROVE ArcInv'
<1>1. PICK m \in Roots : has[a][m] > 0 /\ cnt[m] > 0 /\ Decref(a, m) /\ has' = Ref(has, a, m, -1)
  BY DEF Drop
<1>2. UNCHANGED <<box, snd, mslab, ent, alive>>
  BY DEF Drop
<1>3. /\ IsFiniteSet(Refs(has, m)) /\ IsFiniteSet(Refs(box, m)) /\ cnt[m] \in Nat
      /\ has \in Counts /\ box \in Counts /\ snd \in [ArcActors -> Sends]
  BY TotalOf
<1>4. SndShifts(m, 0) /\ Shifts(has, has', m, -1) /\ Shifts(box, box', m, 0) /\ cnt[m] # 0
  BY <1>1, <1>2, <1>3, SndNot, ShiftsDown, ShiftsNot
<1>5. Tokens(m, -1, 0, 0)
  BY <1>4 DEF Tokens
<1>6. Uncounts(a, m)
  <2>1. -1 + 0 + 0 = -1 /\ UNCHANGED <<mslab, ent, alive>>
    BY <1>2
  <2>2. \E i, j, k : Tokens(m, i, j, k) /\ i + j + k = -1
    BY <1>5, <2>1
  <2> QED BY <1>1, <1>4, <2>1, <2>2 DEF Uncounts
<1> QED BY <1>6, UncountsInv

LEMMA SendCountInv == ASSUME ArcInv, NEW a \in ArcActors, SendCount(a) PROVE ArcInv'
<1>1. PICK m \in Roots : snd[a] = <<m>> /\ snd[a][1] = m
  BY SendingRoot DEF SendCount
<1>2. /\ cnt[m] = 0 /\ Count(m, 1) /\ UNCHANGED <<root, has, box, snd, mslab, dp, ent, alive, win>>
  BY <1>1 DEF SendCount
<1>3. /\ Total(m) \in Nat /\ IsFiniteSet(Refs(has, m)) /\ IsFiniteSet(Refs(box, m)) /\ Reference(m)
      /\ has \in Counts /\ box \in Counts /\ snd \in [ArcActors -> Sends] /\ root[m] # NoSlab
  BY <1>1, TotalOf, SentOnce
<1>4. Tokens(m, 0, 0, 0)
  <2>1. SndShifts(m, 0) /\ Shifts(has, has', m, 0) /\ Shifts(box, box', m, 0)
    BY <1>2, <1>3, SndNot, ShiftsNot
  <2> QED BY <2>1 DEF Tokens
<1>5. Counting(m) /\ Total(m)' = Total(m)
  <2>1. Total(m)' = Total(m) + (0 + 0 + 0)
    BY <1>4, TotalShifts
  <2> QED BY <1>3, <1>4, <2>1 DEF Counting
<1>6. Total(m) = 1
  BY <1>2, <1>3 DEF Reference
<1>7. cnt'[m] = 1
  <2>1. cnt \in [Roots -> Nat]
    BY Parts, SlTypes
  <2> QED BY <1>2, <2>1 DEF Count
<1>8. Counts1(m, 1)
  BY <1>2, <1>3, <1>5, <1>6, <1>7 DEF Counts1
<1> QED BY <1>8, CountsInv

LEMMA SendArcInv == ASSUME ArcInv, NEW a \in ArcActors, SendArc(a) PROVE ArcInv'
<1>1. PICK m \in Roots, b \in alive : /\ has[a][m] > 0 /\ cnt[m] < MaxCount
                                      /\ Count(m, 2) /\ box' = Ref(box, b, m, 1)
  BY DEF SendArc
<1>2. UNCHANGED <<root, has, snd, mslab, dp, ent, alive, win>>
  BY DEF SendArc
<1>3. /\ Total(m) \in Nat /\ IsFiniteSet(Refs(has, m)) /\ IsFiniteSet(Refs(box, m)) /\ Reference(m)
      /\ has \in Counts /\ box \in Counts /\ snd \in [ArcActors -> Sends] /\ root[m] # NoSlab
      /\ b \in ArcActors /\ cnt[m] \in Nat
  BY <1>1, TotalOf, HeldOnce, Parts, ActTypes
<1>4. Tokens(m, 0, 1, 0)
  <2>1. SndShifts(m, 0) /\ Shifts(has, has', m, 0) /\ Shifts(box, box', m, 1)
    BY <1>1, <1>2, <1>3, SndNot, ShiftsNot, ShiftsUp
  <2> QED BY <2>1 DEF Tokens
<1>5. Counting(m) /\ Total(m)' = Total(m) + 1
  <2>1. Total(m)' = Total(m) + (0 + 1 + 0)
    BY <1>4, TotalShifts
  <2> QED BY <1>3, <1>4, <2>1 DEF Counting
<1>6. cnt'[m] = IF cnt[m] = 0 THEN 2 ELSE cnt[m] + 1
  <2>1. cnt \in [Roots -> Nat]
    BY Parts, SlTypes
  <2> QED BY <1>1, <2>1 DEF Count
<1>7. Total(m)' <= cnt'[m]
  <2>1. CASE cnt[m] = 0
    BY <1>1, <1>5, <1>6, <2>1, HeldLocal
  <2>2. CASE cnt[m] # 0
    BY <1>3, <1>5, <1>6, <2>2 DEF Reference
  <2> QED BY <2>1, <2>2
<1>8. Counts1(m, 2)
  BY <1>1, <1>2, <1>3, <1>5, <1>7 DEF Counts1
<1> QED BY <1>8, CountsInv

----------------------------------------------------------------------------
(* A root is placed in slab s; nobody counts it yet. *)
Placed(m, s) ==
  /\ root[m] = NoSlab /\ cnt[m] = 0 /\ root' = [root EXCEPT ![m] = s]
  /\ UNCHANGED <<cnt, dp, ent, alive, win>>
LEMMA PlacedSets ==
  ASSUME ArcInv, NEW m \in Roots, NEW s \in Slabs, Placed(m, s)
  PROVE  /\ root' \in [Roots -> SlabMaybe] /\ root'[m] = s /\ \A n \in Roots : n # m => root'[n] = root[n]
         /\ \A t : Windows(t)' = Windows(t) /\ Closures(t)' = Closures(t)
         /\ \A t \in Slabs : Counted(t)' = Counted(t)
         /\ \A t \in Slabs : EscapedOf(t)' = EscapedOf(t)
         /\ \A t \in Slabs : Uncounted(t)' = IF t = s THEN Uncounted(s) \cup {m} ELSE Uncounted(t)
         /\ m \notin Uncounted(s) /\ Total(m) = 0
<1>1. root \in [Roots -> SlabMaybe] /\ NoSlab \notin Slabs /\ Reference(m)
  BY Parts, SlTypes, ArcAssumption
<1>2. /\ root' \in [Roots -> SlabMaybe] /\ root'[m] = s /\ \A n \in Roots : n # m => root'[n] = root[n]
      /\ root[m] = NoSlab /\ cnt[m] = 0 /\ cnt' = cnt
  BY <1>1 DEF Placed, SlabMaybe
<1>3. \A t : Windows(t)' = Windows(t) /\ Closures(t)' = Closures(t)
  BY SameWindows, SameClosures DEF Placed
<1>4. \A t \in Slabs : Counted(t)' = Counted(t)
  BY <1>1, <1>2 DEF Counted
<1>5. \A t \in Slabs : EscapedOf(t)' = EscapedOf(t)
  BY <1>3, <1>4 DEF EscapedOf
<1>6. \A t \in Slabs : Uncounted(t)' = IF t = s THEN Uncounted(s) \cup {m} ELSE Uncounted(t)
  BY <1>1, <1>2 DEF Uncounted
<1>7. m \notin Uncounted(s) /\ Total(m) = 0
  BY <1>1, <1>2 DEF Uncounted, Reference
<1> QED BY <1>2, <1>3, <1>4, <1>5, <1>6, <1>7

LEMMA Lands ==
  ASSUME ArcInv, NEW m \in Roots, NEW s \in Slabs, Placed(m, s),
         Counting(m), Total(m)' = Total(m) + 1, Local(m)' \/ Sending(m)', Elsewhere(m),
         sl' \in [Slabs -> SlabRec], mslab' \in [ArcActors -> SlabMaybe], \A t \in Slabs : Header(t)',
         \A t \in Slabs : sl'[t].owner = sl[t].owner \/ (Closures(t) = {} /\ sl'[t].owner \in alive)
  PROVE  ArcInv'
<1>1. ArcTypes /\ Living /\ NoSlab \notin Slabs
  BY Parts, ArcAssumption
<1>2. /\ root' \in [Roots -> SlabMaybe] /\ root'[m] = s /\ Total(m) = 0
      /\ UNCHANGED <<cnt, dp, ent, alive, win>> /\ cnt'[m] = 0
  BY PlacedSets DEF Placed
<1>3. /\ has' \in Counts /\ box' \in Counts /\ snd' \in [ArcActors -> Sends]
      /\ IsFiniteSet(Refs(has, m)') /\ IsFiniteSet(Refs(box, m)')
  BY CountingElse
<1>4. Reference(m)'
  BY <1>1, <1>2, <1>3 DEF Reference
<1>5. \A n \in Roots : Reference(n)'
  BY <1>4, OthersKept
<1>6. Living'
  <2>1. \A t \in Slabs : ~Ownerless(t)' => sl'[t].owner \in alive'
    BY <1>1, <1>2 DEF Living, Ownerless
  <2>2. \A b \in ArcActors : (ent[b] # NoSlab => Ownerless(ent[b]))'
    <3> SUFFICES ASSUME NEW b \in ArcActors, ent[b] # NoSlab PROVE sl'[ent[b]].owner = NoOne
      BY <1>2 DEF Ownerless
    <3>1. ent[b] \in Slabs /\ Ownerless(ent[b])
      BY <1>1, ActTypes DEF SlabMaybe, Living
    <3>2. b \in Closures(ent[b])
      BY DEF Closures
    <3> QED BY <3>1, <3>2 DEF Ownerless
  <2> QED BY <1>1, <1>2, <2>1, <2>2 DEF Living
<1>7. ArcTypes'
  <2>1. RootTypes'
    BY <1>1, <1>2, <1>3 DEF ArcTypes, RootTypes
  <2> QED BY <1>1, <1>2, <1>3, <2>1 DEF ArcTypes, ActorTypes
<1> QED BY <1>5, <1>6, <1>7, InvTogether

(* Into the slab that is being packed, or the pool that is being filled. *)
LEMMA FilledHeader ==
  ASSUME ArcInv, NEW m \in Roots, NEW s \in Slabs, Placed(m, s), mslab' = mslab,
         sl' = [sl EXCEPT ![s].hp = @ + 1], sl[s].kind # "home",
         Ownerless(s) => HoldsOf(s) # 0
  PROVE  /\ sl' \in [Slabs -> SlabRec] /\ \A t \in Slabs : Header(t)' /\ sl'[t].owner = sl[t].owner
         /\ \A t \in Slabs : HoldsOf(t)' = HoldsOf(t) /\ EscapedOf(t)' = EscapedOf(t)
<1>1. (\A t \in Slabs : Header(t)) /\ sl \in [Slabs -> SlabRec]
  BY Parts, SlTypes
<1>2. /\ \A t : Windows(t)' = Windows(t) /\ Closures(t)' = Closures(t) /\ Packers(t)' = Packers(t)
      /\ \A t \in Slabs : Counted(t)' = Counted(t)
      /\ \A t \in Slabs : t # s => Uncounted(t)' = Uncounted(t)
  BY PlacedSets, SamePackers
<1>3. \A t \in Slabs : HoldsOf(t)' = HoldsOf(t) /\ EscapedOf(t)' = EscapedOf(t)
  BY <1>2 DEF HoldsOf, EscapedOf
<1>4. PICK y : y = [sl[s] EXCEPT !.hp = @ + 1]
  OBVIOUS
<1>5. Fits(y, HoldsOf(s), EscapedOf(s), Uncounted(s)') /\ y.owner = sl[s].owner
  <2>1. PICK x, h, e, U, V : x = sl[s] /\ h = HoldsOf(s) /\ e = EscapedOf(s) /\ U = Uncounted(s) /\ V = Uncounted(s)'
    OBVIOUS
  <2>2. h \in Nat /\ e \in Nat /\ Fits(x, h, e, U)
    BY <1>1, <2>1, CountsOf DEF Header
  <2>3. x.kind # "home" /\ (x.owner = NoOne => h # 0)
    BY <2>1 DEF Ownerless
  <2>4. Fits([x EXCEPT !.hp = @ + 1], h, e, V) /\ [x EXCEPT !.hp = @ + 1].owner = x.owner
    BY ONLY <2>2, <2>3, FitsPlaced
  <2> QED BY <1>4, <2>1, <2>4
<1>6. /\ sl' \in [Slabs -> SlabRec] /\ sl'[s] = y /\ \A t \in Slabs : t # s => sl'[t] = sl[t]
  <2>1. sl' = [sl EXCEPT ![s] = y]
    BY <1>1, <1>4
  <2> QED BY <1>1, <1>5, <2>1, SlabSet DEF Fits
<1>7. Header(s)'
  <2>1. Header(s)
    BY <1>1
  <2> QED BY <1>2, <1>3, <1>5, <1>6, <2>1 DEF Header
<1>8. \A t \in Slabs : t # s => Header(t)'
  BY <1>1, <1>2, <1>6, HeaderStays
<1> QED BY <1>3, <1>5, <1>6, <1>7, <1>8

(* Into a slab fresh from the buddy that nobody packs into. *)
LEMMA FreshHeader ==
  ASSUME ArcInv, NEW m \in Roots, NEW s \in Slabs, Placed(m, s), mslab' = mslab,
         sl[s].kind = "home", NEW y, sl' = [sl EXCEPT ![s] = y], \A U : U # {} => Fits(y, 0, 0, U)
  PROVE  /\ sl' \in [Slabs -> SlabRec] /\ sl'[s] = y /\ \A t \in Slabs : t # s => sl'[t] = sl[t]
         /\ \A t \in Slabs : Header(t)' /\ HoldsOf(t)' = HoldsOf(t) /\ EscapedOf(t)' = EscapedOf(t)
         /\ HoldsOf(s)' = 0 /\ EscapedOf(s)' = 0 /\ Uncounted(s)' = {m}
         /\ Closures(s) = {} /\ \A n \in Roots : root[n] # s
<1>1. (\A t \in Slabs : Header(t)) /\ sl \in [Slabs -> SlabRec]
  BY Parts, SlTypes
<1>2. /\ \A t : Windows(t)' = Windows(t) /\ Closures(t)' = Closures(t) /\ Packers(t)' = Packers(t)
      /\ \A t \in Slabs : Counted(t)' = Counted(t)
      /\ \A t \in Slabs : t # s => Uncounted(t)' = Uncounted(t)
      /\ Uncounted(s)' = Uncounted(s) \cup {m}
  BY PlacedSets, SamePackers
<1>3. \A t \in Slabs : HoldsOf(t)' = HoldsOf(t) /\ EscapedOf(t)' = EscapedOf(t)
  BY <1>2 DEF HoldsOf, EscapedOf
<1>4. /\ HoldsOf(s) = 0 /\ EscapedOf(s) = 0 /\ Uncounted(s) = {} /\ Closures(s) = {}
      /\ \A n \in Roots : root[n] # s
  BY <1>1, HomeIsNobodys
<1>5. Uncounted(s)' = {m} /\ Fits(y, 0, 0, Uncounted(s)')
  BY <1>2, <1>4
<1>6. /\ sl' \in [Slabs -> SlabRec] /\ sl'[s] = y /\ \A t \in Slabs : t # s => sl'[t] = sl[t]
  BY <1>1, <1>5, SlabSet DEF Fits
<1>7. Header(s)'
  <2>1. Header(s)
    BY <1>1
  <2> QED BY <1>2, <1>3, <1>4, <1>5, <1>6, <2>1 DEF Header
<1>8. \A t \in Slabs : t # s => Header(t)'
  BY <1>1, <1>2, <1>6, HeaderStays
<1> QED BY <1>3, <1>4, <1>5, <1>6, <1>7, <1>8

(* A root in an ownerless slab that nobody counts keeps its sender packing. *)
LEMMA UncountedSender ==
  ASSUME ArcInv, NEW s \in Slabs, Ownerless(s), HoldsOf(s) # 0, NEW m \in Uncounted(s)
  PROVE  \E b \in alive : b \in ArcActors /\ snd[b] = <<m>> /\ mslab[b] = s /\ b \in Packers(s)
<1>1. m \in Roots /\ root[m] = s /\ cnt[m] = 0 /\ s # NoSlab /\ Reference(m)
  BY Parts, ArcAssumption DEF Uncounted
<1>2. Sending(m)
  BY <1>1 DEF Reference, Local, Ownerless
<1> QED BY <1>1, <1>2 DEF Sending, Senders, Packers

(* An actor that is not sending stops packing into its slab. *)
LEMMA UnpackedHeader ==
  ASSUME ArcInv, NEW a \in ArcActors, snd[a] = <<>>, NEW p \in Slabs, mslab[a] = p
  PROVE  /\ Fits(Unheld(sl[p], 1), HoldsOf(p) - 1, EscapedOf(p), Uncounted(p))
         /\ Unheld(sl[p], 1).owner = sl[p].owner /\ HoldsOf(p) \in Nat /\ HoldsOf(p) >= 1
<1>1. Header(p) /\ HoldsOf(p) \in Nat /\ EscapedOf(p) \in Nat
  BY Parts, CountsOf
<1>2. a \in Packers(p) /\ IsFiniteSet(Packers(p))
  BY FinitePackers DEF Packers
<1>3. Cardinality(Windows(p)) \in Nat /\ HoldsOf(p) = Cardinality(Windows(p)) + Cardinality(Packers(p))
  BY <1>1, CountsOf DEF HoldsOf
<1>4. HoldsOf(p) >= 1
  BY <1>2, <1>3, NoneIn
<1>5. ASSUME sl[p].owner = NoOne, HoldsOf(p) = 1 PROVE Uncounted(p) = {}
  <2> SUFFICES ASSUME NEW m \in Uncounted(p) PROVE FALSE
    OBVIOUS
  <2>1. PICK b \in alive : b \in ArcActors /\ snd[b] = <<m>> /\ b \in Packers(p)
    <3>1. Ownerless(p) /\ HoldsOf(p) # 0
      BY <1>5 DEF Ownerless
    <3> QED BY <3>1, UncountedSender, Zenon
  <2>2. b # a
    <3>1. <<m>> # <<>>
      OBVIOUS
    <3> QED BY <2>1, <3>1
  <2>3. Cardinality(Packers(p)) >= 2 /\ Cardinality(Packers(p)) \in Nat
    BY <1>2, <2>1, <2>2, TwoIn, NoneIn
  <2> QED BY <1>3, <1>5, <2>3
<1>6. PICK x, h, e, U : x = sl[p] /\ h = HoldsOf(p) /\ e = EscapedOf(p) /\ U = Uncounted(p)
  OBVIOUS
<1>7. h \in Nat /\ e \in Nat /\ Fits(x, h, e, U) /\ 1 \in Nat /\ 1 <= h
  BY <1>1, <1>4, <1>6 DEF Header
<1>8. x.owner = NoOne /\ 1 > 0 /\ 1 = h /\ e = 0 => U = {}
  BY <1>5, <1>6
<1>9. Fits(Unheld(x, 1), h - 1, e, U) /\ Unheld(x, 1).owner = x.owner
  BY ONLY <1>7, <1>8, FitsUnheld
<1> QED BY <1>1, <1>4, <1>6, <1>9

(* The sender's next packing slab: the hold on the full one ends. *)
Repacks(a, s) ==
  /\ snd[a] = <<>> /\ sl[s].kind = "home" /\ mslab' = [mslab EXCEPT ![a] = s]
LEMMA RepackedHeaders ==
  ASSUME ArcInv, NEW a \in ArcActors, NEW m \in Roots, NEW s \in Slabs, Placed(m, s), Repacks(a, s),
         sl' = Place(Unpacked(sl, a), s, m, 1)
  PROVE  /\ sl' \in [Slabs -> SlabRec] /\ mslab' \in [ArcActors -> SlabMaybe] /\ mslab'[a] = s
         /\ \A b \in ArcActors : b # a => mslab'[b] = mslab[b]
         /\ \A t \in Slabs : Header(t)' /\ sl'[t].owner = sl[t].owner
         /\ \A t \in Slabs : t # s /\ t # mslab[a] => HoldsOf(t)' = HoldsOf(t)
         /\ mslab[a] # NoSlab => mslab[a] \in Slabs /\ HoldsOf(mslab[a]) # 0
         /\ \A t \in Slabs : EscapedOf(t)' = EscapedOf(t)
         /\ \A n \in Roots : root[n] # s
<1>1. /\ (\A t \in Slabs : Header(t)) /\ sl \in [Slabs -> SlabRec] /\ mslab \in [ArcActors -> SlabMaybe]
      /\ NoSlab \notin Slabs
  BY Parts, SlTypes, ActTypes, ArcAssumption
<1>2. /\ mslab' \in [ArcActors -> SlabMaybe] /\ mslab'[a] = s
      /\ \A b \in ArcActors : b # a => mslab'[b] = mslab[b]
  BY <1>1 DEF Repacks, SlabMaybe
<1>3. /\ \A t : Windows(t)' = Windows(t) /\ Closures(t)' = Closures(t)
      /\ \A t \in Slabs : Counted(t)' = Counted(t) /\ EscapedOf(t)' = EscapedOf(t)
      /\ \A t \in Slabs : t # s => Uncounted(t)' = Uncounted(t)
      /\ Uncounted(s)' = Uncounted(s) \cup {m}
  BY PlacedSets
<1>4. /\ sl[s].owner = NoOne /\ EscapedOf(s) = 0 /\ Uncounted(s) = {} /\ Packers(s) = {}
      /\ Windows(s) = {} /\ (\A n \in Roots : root[n] # s) /\ \A b \in ArcActors : mslab[b] # s
  BY <1>1, HomeIsNobodys DEF Repacks
<1>5. \A t \in Slabs : t # s /\ t # mslab[a] => Packers(t)' = Packers(t) /\ HoldsOf(t)' = HoldsOf(t)
  <2>1. \A t \in Slabs : t # s /\ t # mslab[a] => Packers(t)' = Packers(t)
    BY <1>2 DEF Packers
  <2> QED BY <1>3, <2>1 DEF HoldsOf
<1>6. PICK y : y = [AtHome EXCEPT !.kind = "msg", !.hp = 1, !.holds = 1]
  OBVIOUS
<1>7. Fits(y, 1, 0, Uncounted(s)') /\ y.owner = NoOne
  <2>1. Uncounted(s)' # {}
    BY <1>3
  <2>2. PICK V : V = Uncounted(s)'
    OBVIOUS
  <2>3. Fits(y, 1, 0, V) /\ y.owner = NoOne
    BY ONLY <1>6, <2>1, <2>2, 1 \in Nat, FitsFresh
  <2> QED BY <2>2, <2>3
<1>8. HoldsOf(s)' = 1
  <2>1. Packers(s)' = {a}
    BY <1>2, <1>4 DEF Packers
  <2>2. Cardinality(Packers(s)') = 1 /\ Cardinality(Windows(s)') = 0
    BY <1>3, <1>4, <2>1, FS_Singleton, FS_EmptySet
  <2> QED BY <2>2 DEF HoldsOf
<1>9. CASE mslab[a] = NoSlab
  <2>1. sl' = [sl EXCEPT ![s] = y]
    BY <1>1, <1>6, <1>9 DEF Place, Unpacked, Repacks
  <2>2. /\ sl' \in [Slabs -> SlabRec] /\ sl'[s] = y /\ \A t \in Slabs : t # s => sl'[t] = sl[t]
    BY <1>1, <1>7, <2>1, SlabSet DEF Fits
  <2>3. \A t \in Slabs : t # s => Header(t)'
    BY <1>1, <1>3, <1>5, <1>9, <2>2, HeaderStays
  <2>4. Header(s)'
    <3>1. Header(s)
      BY <1>1
    <3> QED BY <1>3, <1>4, <1>7, <1>8, <2>2, <3>1 DEF Header
  <2> QED BY <1>2, <1>3, <1>4, <1>5, <1>7, <1>9, <2>2, <2>3, <2>4
<1>10. CASE mslab[a] # NoSlab
  <2>1. PICK p \in Slabs : p = mslab[a]
    BY <1>1, <1>10 DEF SlabMaybe
  <2>2. p # s
    BY <1>4, <2>1
  <2>3. PICK z : z = Unheld(sl[p], 1)
    OBVIOUS
  <2>4. /\ Fits(z, HoldsOf(p) - 1, EscapedOf(p), Uncounted(p)) /\ z.owner = sl[p].owner
        /\ HoldsOf(p) \in Nat /\ HoldsOf(p) >= 1
    BY <2>1, <2>3, UnpackedHeader DEF Repacks
  <2>5. PICK T : T = [sl EXCEPT ![p] = z]
    OBVIOUS
  <2>6. T \in [Slabs -> SlabRec] /\ T[p] = z /\ \A t \in Slabs : t # p => T[t] = sl[t]
    BY <1>1, <2>4, <2>5, SlabSet DEF Fits
  <2>7. sl' = [T EXCEPT ![s] = y]
    <3>1. Unpacked(sl, a) = T
      BY <1>1, <1>10, <2>1, <2>3, <2>5 DEF Unpacked, Unhold
    <3>2. T[s].kind = "home"
      BY <2>2, <2>6 DEF Repacks
    <3> QED BY <1>6, <3>1, <2>6, <3>2 DEF Place
  <2>8. /\ sl' \in [Slabs -> SlabRec] /\ sl'[s] = y /\ sl'[p] = z
        /\ \A t \in Slabs : t # s /\ t # p => sl'[t] = sl[t]
    BY <1>7, <2>2, <2>6, <2>7, SlabSet DEF Fits
  <2>9. \A t \in Slabs : t # s /\ t # p => Header(t)'
    BY <1>1, <1>3, <1>5, <2>1, <2>8, HeaderStays
  <2>10. Header(s)'
    <3>1. Header(s)
      BY <1>1
    <3> QED BY <1>3, <1>4, <1>7, <1>8, <2>8, <3>1 DEF Header
  <2>11. HoldsOf(p)' = HoldsOf(p) - 1
    <3>1. PICK P, Q : P = Packers(p) /\ Q = Packers(p)'
      OBVIOUS
    <3>2. a \in P /\ Q = P \ {a}
      BY <1>2, <2>1, <2>2, <3>1 DEF Packers
    <3>3. IsFiniteSet(P)
      BY <3>1, FinitePackers
    <3>4. Cardinality(Q) = Cardinality(P) - 1 /\ Cardinality(P) \in Nat
      BY ONLY <3>2, <3>3, OneLess, NoneIn
    <3>5. Cardinality(Windows(p)) \in Nat
      BY <1>1, CountsOf
    <3>6. HoldsOf(p) = Cardinality(Windows(p)) + Cardinality(P) /\ HoldsOf(p)' = Cardinality(Windows(p)) + Cardinality(Q)
      BY <1>3, <3>1 DEF HoldsOf
    <3> QED BY <3>4, <3>5, <3>6
  <2>12. Header(p)'
    <3>1. Header(p)
      BY <1>1
    <3> QED BY <1>3, <2>2, <2>4, <2>8, <2>11, <3>1 DEF Header
  <2>13. HoldsOf(p) # 0
    BY <2>4
  <2> QED BY <1>2, <1>3, <1>4, <1>5, <1>7, <2>1, <2>4, <2>8, <2>9, <2>10, <2>12, <2>13
<1> QED BY <1>9, <1>10

LEMMA MsgCopyInv == ASSUME ArcInv, NEW a \in ArcActors, MsgCopy(a) PROVE ArcInv'
<1>1. PICK m \in Roots, s \in Slabs :
        /\ root[m] = NoSlab /\ cnt[m] = 0
        /\ \/ /\ s = mslab[a] /\ sl[s].hp < SlabCap
              /\ sl' = Place(sl, s, m, 1) /\ UNCHANGED mslab
           \/ /\ sl[s].kind = "home" /\ (mslab[a] # NoSlab => sl[mslab[a]].hp = SlabCap)
              /\ sl' = Place(Unpacked(sl, a), s, m, 1)
              /\ mslab' = [mslab EXCEPT ![a] = s]
           \/ /\ sl[s].kind = "home" /\ mslab[a] = NoSlab
              /\ sl' = Place(sl, s, m, 0) /\ UNCHANGED mslab
        /\ root' = [root EXCEPT ![m] = s] /\ snd' = [snd EXCEPT ![a] = <<m>>]
  BY DEF MsgCopy
<1>2. a \in alive /\ snd[a] = <<>> /\ UNCHANGED <<cnt, has, box, dp, ent, alive, win>>
  BY DEF MsgCopy
<1>3. /\ (\A t \in Slabs : Header(t)) /\ sl \in [Slabs -> SlabRec] /\ mslab \in [ArcActors -> SlabMaybe]
      /\ root \in [Roots -> SlabMaybe] /\ NoSlab \notin Slabs
  BY Parts, SlTypes, ActTypes, ArcAssumption
<1>4. Placed(m, s)
  BY <1>1, <1>2 DEF Placed
<1>5. /\ root'[m] = s /\ (\A n \in Roots : n # m => root'[n] = root[n])
      /\ m \notin Uncounted(s) /\ Total(m) = 0
      /\ \A t \in Slabs : Uncounted(t)' = IF t = s THEN Uncounted(s) \cup {m} ELSE Uncounted(t)
  BY <1>4, PlacedSets
<1>6. Counting(m) /\ Total(m)' = Total(m) + 1 /\ a \in Senders(m)'
  <2>1. /\ IsFiniteSet(Refs(has, m)) /\ IsFiniteSet(Refs(box, m))
        /\ has \in Counts /\ box \in Counts /\ snd \in [ArcActors -> Sends]
    BY TotalOf
  <2>2. SndShifts(m, 1) /\ a \in Senders(m)'
    BY <1>1, <1>2, <2>1, SndBegins
  <2>3. Shifts(has, has', m, 0) /\ Shifts(box, box', m, 0)
    BY <1>2, <2>1, ShiftsNot
  <2>4. Tokens(m, 0, 0, 1)
    BY <2>2, <2>3 DEF Tokens
  <2>5. Total(m)' = Total(m) + (0 + 0 + 1)
    BY <2>4, TotalShifts
  <2> QED BY <1>5, <2>2, <2>4, <2>5 DEF Counting
<1>7. \A n \in Roots : root[n] # NoSlab => root[n] \in Slabs
  BY <1>3 DEF SlabMaybe
<1>8. \A n \in Roots : \A b \in Senders(n) : b # a /\ b \in ArcActors
  <2>1. \A n \in Roots : <<n>> # <<>>
    OBVIOUS
  <2> QED BY <1>2, <2>1 DEF Senders
<1>9. CASE s = mslab[a] /\ sl[s].hp < SlabCap /\ sl' = Place(sl, s, m, 1) /\ UNCHANGED mslab
  <2>1. HoldsOf(s) # 0 /\ sl[s].kind # "home"
    <3>1. a \in Packers(s) /\ Header(s)
      BY <1>3, <1>9 DEF Packers
    <3>2. HoldsOf(s) # 0
      BY <3>1, CountsOf
    <3> QED BY <3>1, <3>2 DEF Header, Fits
  <2>2. sl' = [sl EXCEPT ![s].hp = @ + 1]
    <3>1. PICK y : y = [sl[s] EXCEPT !.hp = @ + 1]
      OBVIOUS
    <3>2. sl' = [sl EXCEPT ![s] = y]
      <4>1. y = IF sl[s].kind = "home" THEN [AtHome EXCEPT !.kind = "msg", !.hp = 1, !.holds = 1]
                ELSE [sl[s] EXCEPT !.hp = @ + 1]
        BY <2>1, <3>1
      <4>2. Place(sl, s, m, 1) = [sl EXCEPT ![s] = y]
        BY ONLY <4>1 DEF Place
      <4> QED BY <1>9, <4>2
    <3>3. [sl EXCEPT ![s].hp = @ + 1] = [sl EXCEPT ![s] = y]
      BY <1>3, <3>1
    <3> QED BY <3>2, <3>3
  <2>3. /\ sl' \in [Slabs -> SlabRec] /\ (\A t \in Slabs : Header(t)' /\ sl'[t].owner = sl[t].owner)
        /\ \A t \in Slabs : HoldsOf(t)' = HoldsOf(t) /\ EscapedOf(t)' = EscapedOf(t)
    BY <1>4, <1>9, <2>1, <2>2, FilledHeader
  <2>4. Ownerless(s)
    <3>1. Fits(sl[s], HoldsOf(s), EscapedOf(s), Uncounted(s))
      BY <1>3 DEF Header
    <3> QED BY <2>1, <3>1 DEF Fits, Ownerless
  <2>5. Sending(m)'
    <3>1. a \in alive' /\ mslab'[a] = root'[m] /\ sl'[root'[m]].owner = NoOne
      BY <1>2, <1>5, <1>9, <2>3, <2>4 DEF Ownerless
    <3> QED BY <1>6, <3>1 DEF Sending, Ownerless
  <2>6. Elsewhere(m)
    <3> SUFFICES ASSUME NEW n \in Roots \ {m}, root[n] # NoSlab, cnt[n] = 0
                 PROVE  HoldsOf(root[n]) = 0 /\ EscapedOf(root[n]) = 0 /\ Uncounted(root[n]) = {n} =>
                           HoldsOf(root[n])' = 0 /\ EscapedOf(root[n])' = 0 /\ Uncounted(root[n])' = {n}
      BY <1>2, <1>5, <1>7, <1>9, <2>3 DEF Elsewhere
    <3>1. PICK t \in Slabs : t = root[n]
      BY <1>7
    <3>2. root'[n] = root[n]
      BY <1>5
    <3> QED BY <1>5, <2>1, <2>3, <3>1, <3>2
  <2> QED BY <1>3, <1>4, <1>6, <1>9, <2>3, <2>5, <2>6, Lands
<1>10. CASE sl[s].kind = "home" /\ sl' = Place(Unpacked(sl, a), s, m, 1) /\ mslab' = [mslab EXCEPT ![a] = s]
  <2>1. Repacks(a, s)
    BY <1>2, <1>10 DEF Repacks
  <2>2. /\ sl' \in [Slabs -> SlabRec] /\ mslab' \in [ArcActors -> SlabMaybe] /\ mslab'[a] = s
        /\ \A b \in ArcActors : b # a => mslab'[b] = mslab[b]
        /\ \A t \in Slabs : Header(t)' /\ sl'[t].owner = sl[t].owner
        /\ \A t \in Slabs : t # s /\ t # mslab[a] => HoldsOf(t)' = HoldsOf(t)
        /\ mslab[a] # NoSlab => mslab[a] \in Slabs /\ HoldsOf(mslab[a]) # 0
        /\ \A t \in Slabs : EscapedOf(t)' = EscapedOf(t)
        /\ \A n \in Roots : root[n] # s
    BY <1>4, <1>10, <2>1, RepackedHeaders
  <2>3. sl[s].owner = NoOne
    BY <1>3, <1>10, HomeIsNobodys
  <2>4. Sending(m)'
    <3>1. a \in alive' /\ mslab'[a] = root'[m] /\ sl'[root'[m]].owner = NoOne
      BY <1>2, <1>5, <2>2, <2>3
    <3> QED BY <1>6, <3>1 DEF Sending, Ownerless
  <2>5. Elsewhere(m)
    <3> SUFFICES ASSUME NEW n \in Roots \ {m}, root[n] # NoSlab, cnt[n] = 0
                 PROVE  HoldsOf(root[n]) = 0 /\ EscapedOf(root[n]) = 0 /\ Uncounted(root[n]) = {n} =>
                           HoldsOf(root[n])' = 0 /\ EscapedOf(root[n])' = 0 /\ Uncounted(root[n])' = {n}
      BY <1>2, <1>5, <1>7, <1>8, <2>2 DEF Elsewhere
    <3>1. PICK t \in Slabs : t = root[n]
      BY <1>7
    <3>2. root'[n] = root[n]
      BY <1>5
    <3>3. t # s
      BY <2>2, <3>1
    <3>4. HoldsOf(t) = 0 => t # mslab[a]
      BY <1>3, <2>2
    <3> QED BY <1>5, <2>2, <3>1, <3>2, <3>3, <3>4
  <2> QED BY <1>4, <1>6, <2>2, <2>4, <2>5, Lands
<1>11. CASE sl[s].kind = "home" /\ mslab[a] = NoSlab /\ sl' = Place(sl, s, m, 0) /\ UNCHANGED mslab
  <2>1. PICK y : y = [AtHome EXCEPT !.kind = "msg", !.hp = 1, !.holds = 0]
    OBVIOUS
  <2>2. sl' = [sl EXCEPT ![s] = y]
    BY <1>3, <1>11, <2>1 DEF Place
  <2>3. /\ \A U : U # {} => Fits(y, 0, 0, U)
        /\ y.owner = NoOne
    <3>1. 0 \in Nat /\ {0} # {}
      OBVIOUS
    <3>2. \A U : U # {} => Fits(y, 0, 0, U) /\ y.owner = NoOne
      BY ONLY <2>1, <3>1, FitsFresh
    <3> QED BY <3>1, <3>2
  <2>4. /\ sl' \in [Slabs -> SlabRec] /\ sl'[s] = y /\ \A t \in Slabs : t # s => sl'[t] = sl[t]
        /\ \A t \in Slabs : Header(t)' /\ HoldsOf(t)' = HoldsOf(t) /\ EscapedOf(t)' = EscapedOf(t)
        /\ HoldsOf(s)' = 0 /\ EscapedOf(s)' = 0 /\ Uncounted(s)' = {m}
        /\ Closures(s) = {} /\ \A n \in Roots : root[n] # s
    BY <1>4, <1>11, <2>2, <2>3, FreshHeader
  <2>5. \A t \in Slabs : sl'[t].owner = sl[t].owner
    <3>1. sl[s].owner = NoOne
      BY <1>3, <1>11, HomeIsNobodys
    <3> QED BY <2>3, <2>4, <3>1
  <2>6. Sending(m)'
    <3>1. HoldsOf(root[m])' = 0 /\ EscapedOf(root[m])' = 0 /\ Uncounted(root[m])' = {m} /\ sl'[root'[m]].owner = NoOne
      BY <1>5, <2>3, <2>4
    <3> QED BY <1>6, <3>1 DEF Sending, Ownerless
  <2>7. Elsewhere(m)
    <3> SUFFICES ASSUME NEW n \in Roots \ {m}, root[n] # NoSlab, cnt[n] = 0
                 PROVE  HoldsOf(root[n]) = 0 /\ EscapedOf(root[n]) = 0 /\ Uncounted(root[n]) = {n} =>
                           HoldsOf(root[n])' = 0 /\ EscapedOf(root[n])' = 0 /\ Uncounted(root[n])' = {n}
      BY <1>2, <1>5, <1>7, <1>11, <2>5 DEF Elsewhere
    <3>1. PICK t \in Slabs : t = root[n]
      BY <1>7
    <3>2. root'[n] = root[n]
      BY <1>5
    <3> QED BY <1>5, <2>4, <3>1, <3>2
  <2> QED BY <1>3, <1>4, <1>6, <1>11, <2>4, <2>5, <2>6, <2>7, Lands
<1> QED BY <1>1, <1>9, <1>10, <1>11

LEMMA PoolAllocInv == ASSUME ArcInv, NEW a \in ArcActors, PoolAlloc(a) PROVE ArcInv'
<1>1. PICK m \in Roots, s \in Slabs :
        /\ root[m] = NoSlab /\ root' = [root EXCEPT ![m] = s] /\ has' = Ref(has, a, m, 1)
        /\ \/ sl[s].owner = a /\ sl[s].hp < SlabCap /\ sl' = [sl EXCEPT ![s].hp = @ + 1]
           \/ /\ sl[s].kind = "home"
              /\ sl' = [sl EXCEPT ![s] = [AtHome EXCEPT !.kind = "pool", !.owner = a, !.hp = 1]]
  BY DEF PoolAlloc
<1>2. a \in alive /\ snd[a] = <<>> /\ UNCHANGED <<cnt, box, snd, mslab, dp, ent, alive, win>>
  BY DEF PoolAlloc
<1>3. /\ (\A t \in Slabs : Header(t)) /\ sl \in [Slabs -> SlabRec] /\ mslab \in [ArcActors -> SlabMaybe]
      /\ root \in [Roots -> SlabMaybe] /\ NoSlab \notin Slabs /\ NoOne \notin ArcActors
  BY Parts, SlTypes, ActTypes, ArcAssumption
<1>4. Placed(m, s)
  <2>1. cnt[m] = 0
    BY <1>1, TotalOf DEF Reference
  <2> QED BY <1>1, <1>2, <2>1 DEF Placed
<1>5. /\ root'[m] = s /\ (\A n \in Roots : n # m => root'[n] = root[n])
      /\ m \notin Uncounted(s) /\ Total(m) = 0
      /\ \A t \in Slabs : Uncounted(t)' = IF t = s THEN Uncounted(s) \cup {m} ELSE Uncounted(t)
  BY <1>4, PlacedSets
<1>6. Counting(m) /\ Total(m)' = Total(m) + 1 /\ has'[a][m] = 1
  <2>1. /\ IsFiniteSet(Refs(has, m)) /\ IsFiniteSet(Refs(box, m))
        /\ has \in Counts /\ box \in Counts /\ snd \in [ArcActors -> Sends]
        /\ Cardinality(Refs(has, m)) = 0
    BY <1>5, TotalOf
  <2>2. Shifts(has, has', m, 1) /\ has'[a][m] = has[a][m] + 1
    BY <1>1, <2>1, ShiftsUp
  <2>3. SndShifts(m, 0) /\ Shifts(box, box', m, 0)
    BY <1>2, <2>1, ShiftsNot, SndNot
  <2>4. Tokens(m, 1, 0, 0)
    BY <2>2, <2>3 DEF Tokens
  <2>5. Total(m)' = Total(m) + (1 + 0 + 0)
    BY <2>4, TotalShifts
  <2>6. has[a][m] = 0
    BY <2>1, NoRef
  <2> QED BY <1>5, <2>2, <2>4, <2>5, <2>6 DEF Counting
<1>7. \A n \in Roots : root[n] # NoSlab => root[n] \in Slabs
  BY <1>3 DEF SlabMaybe
<1>8. CASE sl[s].owner = a /\ sl' = [sl EXCEPT ![s].hp = @ + 1]
  <2>1. ~Ownerless(s) /\ sl[s].kind # "home"
    <3>1. Fits(sl[s], HoldsOf(s), EscapedOf(s), Uncounted(s))
      BY <1>3 DEF Header
    <3> QED BY <1>3, <1>8, <3>1 DEF Fits, Ownerless
  <2>2. /\ sl' \in [Slabs -> SlabRec] /\ (\A t \in Slabs : Header(t)' /\ sl'[t].owner = sl[t].owner)
        /\ \A t \in Slabs : HoldsOf(t)' = HoldsOf(t) /\ EscapedOf(t)' = EscapedOf(t)
    BY <1>2, <1>4, <1>8, <2>1, FilledHeader
  <2>3. Local(m)'
    <3>1. sl'[root'[m]].owner = a /\ a # NoOne
      BY <1>3, <1>5, <1>8, <2>2
    <3> QED BY <1>6, <3>1 DEF Local
  <2>4. Elsewhere(m)
    <3> SUFFICES ASSUME NEW n \in Roots \ {m}, root[n] # NoSlab, cnt[n] = 0
                 PROVE  Ownerless(root[n]) /\ HoldsOf(root[n]) = 0 /\ EscapedOf(root[n]) = 0 /\ Uncounted(root[n]) = {n} =>
                           HoldsOf(root[n])' = 0 /\ EscapedOf(root[n])' = 0 /\ Uncounted(root[n])' = {n}
      BY <1>2, <1>5, <1>7, <2>2 DEF Elsewhere
    <3>1. PICK t \in Slabs : t = root[n]
      BY <1>7
    <3>2. root'[n] = root[n]
      BY <1>5
    <3> QED BY <1>5, <2>1, <2>2, <3>1, <3>2
  <2> QED BY <1>2, <1>3, <1>4, <1>6, <2>2, <2>3, <2>4, Lands
<1>9. CASE sl[s].kind = "home" /\ sl' = [sl EXCEPT ![s] = [AtHome EXCEPT !.kind = "pool", !.owner = a, !.hp = 1]]
  <2>1. PICK y : y = [AtHome EXCEPT !.kind = "pool", !.owner = a, !.hp = 1]
    OBVIOUS
  <2>2. sl' = [sl EXCEPT ![s] = y]
    BY <1>9, <2>1
  <2>3. (\A U : U # {} => Fits(y, 0, 0, U)) /\ y.owner = a
    <3>1. \A U : Fits(y, 0, 0, U) /\ y.owner = a
      BY ONLY <2>1, a \in ArcActors, FitsOwned
    <3> QED BY <3>1
  <2>4. /\ sl' \in [Slabs -> SlabRec] /\ sl'[s] = y /\ \A t \in Slabs : t # s => sl'[t] = sl[t]
        /\ \A t \in Slabs : Header(t)' /\ HoldsOf(t)' = HoldsOf(t) /\ EscapedOf(t)' = EscapedOf(t)
        /\ Closures(s) = {} /\ \A n \in Roots : root[n] # s
    <3>1. mslab' = mslab /\ sl[s].kind = "home" /\ \A U : U # {} => Fits(y, 0, 0, U)
      BY <1>2, <1>9, <2>3
    <3> QED BY ONLY ArcInv, m \in Roots, s \in Slabs, <1>4, <2>2, <3>1, FreshHeader
  <2>5. Local(m)'
    <3>1. sl'[root'[m]].owner = a /\ a # NoOne
      BY <1>3, <1>5, <2>3, <2>4
    <3> QED BY <1>6, <3>1 DEF Local
  <2>6. Elsewhere(m)
    <3> SUFFICES ASSUME NEW n \in Roots \ {m}, root[n] # NoSlab, cnt[n] = 0
                 PROVE  /\ sl'[root[n]].owner = sl[root[n]].owner
                        /\ HoldsOf(root[n]) = 0 /\ EscapedOf(root[n]) = 0 /\ Uncounted(root[n]) = {n} =>
                           HoldsOf(root[n])' = 0 /\ EscapedOf(root[n])' = 0 /\ Uncounted(root[n])' = {n}
      BY <1>2, <1>5 DEF Elsewhere
    <3>1. PICK t \in Slabs : t = root[n]
      BY <1>7
    <3>2. root'[n] = root[n] /\ t # s
      BY <1>5, <2>4, <3>1
    <3> QED BY <1>5, <2>4, <3>1, <3>2
  <2>7. \A t \in Slabs : sl'[t].owner = sl[t].owner \/ (Closures(t) = {} /\ sl'[t].owner \in alive)
    BY <1>2, <2>3, <2>4
  <2> QED BY <1>2, <1>3, <1>4, <1>6, <2>4, <2>5, <2>6, <2>7, Lands
<1> QED BY <1>1, <1>8, <1>9

----------------------------------------------------------------------------
(* The windows of an actor over a slab close; the last hold ends only when *)
(* nobody has yet to count a copy in it.                                   *)
LEMMA ClosedHeader ==
  ASSUME ArcInv, NEW a \in ArcActors, ClosesAll(a), NEW s \in Slabs, NEW n, n = Cardinality(Entries(dp[a], s))
  PROVE  /\ Fits(Unheld(sl[s], n), HoldsOf(s) - n, EscapedOf(s), Uncounted(s))
         /\ Unheld(sl[s], n).owner = sl[s].owner
         /\ n \in Nat /\ HoldsOf(s) \in Nat /\ EscapedOf(s) \in Nat /\ n <= HoldsOf(s)
         /\ IsFiniteSet(Windows(s)') /\ IsFiniteSet(Windows(s)) /\ IsFiniteSet(Counted(s))
         /\ Cardinality(Windows(s)') = Cardinality(Windows(s)) - n
         /\ Cardinality(Windows(s)) \in Nat /\ n <= Cardinality(Windows(s))
<1>1. Header(s) /\ HoldsOf(s) \in Nat /\ EscapedOf(s) \in Nat /\ dp \in [ArcActors -> Seq(Slabs)]
  BY Parts, ActTypes, CountsOf
<1>2. IsFiniteSet(Windows(s)) /\ IsFiniteSet(Counted(s))
  BY <1>1 DEF Header
<1>3. /\ IsFiniteSet(Windows(s)') /\ Cardinality(Windows(s)') \in Nat /\ n \in Nat
      /\ Cardinality(Windows(s)) = Cardinality(Windows(s)') + n
  BY <1>1, <1>2, WindowsClose
<1>4. /\ HoldsOf(s) = Cardinality(Windows(s)) + Cardinality(Packers(s))
      /\ Cardinality(Packers(s)) \in Nat /\ Cardinality(Windows(s)) \in Nat
  BY <1>1, CountsOf DEF HoldsOf
<1>5. n <= Cardinality(Windows(s)) /\ n <= HoldsOf(s) /\ Cardinality(Windows(s)') = Cardinality(Windows(s)) - n
  BY <1>3, <1>4
<1>6. ASSUME sl[s].owner = NoOne, n > 0, n = HoldsOf(s) PROVE Uncounted(s) = {}
  <2> SUFFICES ASSUME NEW m \in Uncounted(s) PROVE FALSE
    OBVIOUS
  <2>1. \E b \in alive : b \in Packers(s)
    <3>1. Ownerless(s) /\ HoldsOf(s) # 0
      BY <1>3, <1>6 DEF Ownerless
    <3> QED BY <3>1, UncountedSender, Zenon
  <2>2. Cardinality(Packers(s)) >= 1
    BY <2>1, FinitePackers, NoneIn
  <2> QED BY <1>3, <1>4, <1>5, <1>6, <2>2
<1>7. PICK x, h, e, U : x = sl[s] /\ h = HoldsOf(s) /\ e = EscapedOf(s) /\ U = Uncounted(s)
  OBVIOUS
<1>8. h \in Nat /\ e \in Nat /\ Fits(x, h, e, U) /\ n \in Nat /\ n <= h
  BY <1>1, <1>3, <1>5, <1>7 DEF Header
<1>9. x.owner = NoOne /\ n > 0 /\ n = h /\ e = 0 => U = {}
  BY <1>6, <1>7
<1>10. Fits(Unheld(x, n), h - n, e, U) /\ Unheld(x, n).owner = x.owner
  BY ONLY <1>8, <1>9, FitsUnheld
<1> QED BY <1>1, <1>2, <1>3, <1>4, <1>5, <1>7, <1>10

LEMMA ReceivedHeaders ==
  ASSUME ArcInv, NEW a \in ArcActors, sl' = UnholdAll(sl, dp[a]), ClosesAll(a),
         UNCHANGED <<root, cnt, mslab, ent>>
  PROVE  /\ sl' \in [Slabs -> SlabRec]
         /\ \A t \in Slabs : /\ Header(t)' /\ sl'[t].owner = sl[t].owner
                             /\ HoldsOf(t) = 0 => HoldsOf(t)' = 0
                             /\ EscapedOf(t)' = EscapedOf(t) /\ Uncounted(t)' = Uncounted(t)
<1>1. \A t : /\ Packers(t)' = Packers(t) /\ Closures(t)' = Closures(t)
             /\ Counted(t)' = Counted(t) /\ Uncounted(t)' = Uncounted(t)
  BY DEF Packers, Closures, Counted, Uncounted
<1>2. ASSUME NEW t \in Slabs
      PROVE  /\ Header(t)' /\ sl'[t].owner = sl[t].owner /\ sl'[t] \in SlabRec
             /\ HoldsOf(t) = 0 => HoldsOf(t)' = 0
             /\ EscapedOf(t)' = EscapedOf(t) /\ Uncounted(t)' = Uncounted(t)
  <2>1. PICK n : n = Cardinality(Entries(dp[a], t))
    OBVIOUS
  <2>2. sl'[t] = Unheld(sl[t], n)
    BY <2>1 DEF UnholdAll
  <2>3. /\ Fits(Unheld(sl[t], n), HoldsOf(t) - n, EscapedOf(t), Uncounted(t))
        /\ Unheld(sl[t], n).owner = sl[t].owner
        /\ n \in Nat /\ HoldsOf(t) \in Nat /\ n <= HoldsOf(t)
        /\ IsFiniteSet(Windows(t)') /\ IsFiniteSet(Counted(t))
        /\ Cardinality(Windows(t)') = Cardinality(Windows(t)) - n /\ Cardinality(Windows(t)) \in Nat
    BY <2>1, ClosedHeader
  <2>4. HoldsOf(t)' = HoldsOf(t) - n /\ EscapedOf(t)' = EscapedOf(t)
    <3>1. Cardinality(Packers(t)) \in Nat
      BY FinitePackers
    <3>2. /\ HoldsOf(t) = Cardinality(Windows(t)) + Cardinality(Packers(t))
          /\ HoldsOf(t)' = Cardinality(Windows(t)') + Cardinality(Packers(t))
          /\ EscapedOf(t)' = EscapedOf(t)
      BY <1>1 DEF HoldsOf, EscapedOf
    <3> QED BY <2>3, <3>1, <3>2
  <2>5. HoldsOf(t) = 0 => HoldsOf(t)' = 0
    BY <2>3, <2>4
  <2>6. Header(t)'
    BY <1>1, <2>2, <2>3, <2>4 DEF Header
  <2>7. sl'[t] \in SlabRec
    BY <2>2, <2>3 DEF Fits
  <2> QED BY <1>1, <2>2, <2>3, <2>4, <2>5, <2>6, <2>7
<1>3. sl' \in [Slabs -> SlabRec]
  BY <1>2 DEF UnholdAll
<1> QED BY <1>2, <1>3

LEMMA ArcReceiveInv == ASSUME ArcInv, NEW a \in ArcActors, ArcReceive(a) PROVE ArcInv'
<1>1. /\ sl' = UnholdAll(sl, dp[a]) /\ dp' = [dp EXCEPT ![a] = <<>>] /\ win' = [win EXCEPT ![a] = {}]
      /\ UNCHANGED <<root, cnt, snd, mslab, ent, alive>>
      /\ \/ UNCHANGED <<has, box>>
         \/ \E m \in Roots : box[a][m] > 0 /\ box' = Ref(box, a, m, -1) /\ has' = Ref(has, a, m, 1)
  BY DEF ArcReceive
<1>2. /\ ArcTypes /\ Living /\ dp \in [ArcActors -> Seq(Slabs)] /\ win \in [ArcActors -> SUBSET Slabs]
      /\ root \in [Roots -> SlabMaybe] /\ has \in Counts /\ box \in Counts /\ snd \in [ArcActors -> Sends]
  BY Parts, SlTypes, ActTypes
<1>3. ClosesAll(a)
  BY <1>1, <1>2, ClosingAll
<1>4. /\ sl' \in [Slabs -> SlabRec]
      /\ \A t \in Slabs : /\ Header(t)' /\ sl'[t].owner = sl[t].owner
                          /\ HoldsOf(t) = 0 => HoldsOf(t)' = 0
                          /\ EscapedOf(t)' = EscapedOf(t) /\ Uncounted(t)' = Uncounted(t)
  BY <1>1, <1>3, ReceivedHeaders
<1>5. \A n \in Roots : At(n)
  <2> SUFFICES ASSUME NEW n \in Roots, root[n] # NoSlab
               PROVE  /\ sl'[root[n]].owner = sl[root[n]].owner
                      /\ HoldsOf(root[n]) = 0 /\ EscapedOf(root[n]) = 0 /\ Uncounted(root[n]) = {n} =>
                           HoldsOf(root[n])' = 0 /\ EscapedOf(root[n])' = 0 /\ Uncounted(root[n])' = {n}
    BY <1>1 DEF At
  <2>1. PICK t \in Slabs : t = root[n]
    BY <1>2 DEF SlabMaybe
  <2>2. root'[n] = root[n]
    BY <1>1
  <2> QED BY <1>4, <2>1, <2>2
<1>6. /\ win' \in [ArcActors -> SUBSET Slabs]
      /\ \A b \in ArcActors : win'[b] = IF b = a THEN {} ELSE win[b]
  BY <1>1, <1>2
<1>7. Living'
  <2>1. \A b \in ArcActors : ent[b] # NoSlab => ent[b] \in Slabs
    BY <1>2, ActTypes DEF SlabMaybe
  <2>2. \A b \in ArcActors : \A t \in win'[b] : Entries(dp'[b], t) # {}
    BY <1>2, <1>3, <1>6, ClosedWindows
  <2> QED BY <1>1, <1>2, <1>4, <2>1, <2>2 DEF Living, Ownerless
<1>8. (\A n \in Roots : Reference(n)') /\ has' \in Counts /\ box' \in Counts
  <2>1. CASE UNCHANGED <<has, box>>
    <3>1. \A n \in Roots : Still(n)
      BY <1>1, <2>1 DEF Still, Senders
    <3> QED BY <1>2, <1>5, <2>1, <3>1, KeptAt
  <2>2. CASE \E m \in Roots : box[a][m] > 0 /\ box' = Ref(box, a, m, -1) /\ has' = Ref(has, a, m, 1)
    <3>1. PICK m \in Roots : box[a][m] > 0 /\ box' = Ref(box, a, m, -1) /\ has' = Ref(has, a, m, 1)
      BY <2>2
    <3>2. /\ IsFiniteSet(Refs(has, m)) /\ IsFiniteSet(Refs(box, m)) /\ Reference(m) /\ Total(m) \in Nat
          /\ Cardinality(Refs(has, m)) \in Nat /\ Cardinality(Refs(box, m)) \in Nat
          /\ IsFiniteSet(Senders(m)) /\ Cardinality(Senders(m)) \in Nat
          /\ Total(m) = Cardinality(Refs(has, m)) + Cardinality(Refs(box, m)) + Cardinality(Senders(m))
      BY TotalOf
    <3>3. SndShifts(m, 0) /\ Shifts(has, has', m, 1) /\ Shifts(box, box', m, -1)
      BY <1>1, <1>2, <3>1, <3>2, SndNot, ShiftsUp, ShiftsDown
    <3>4. Tokens(m, 1, -1, 0)
      BY <3>3 DEF Tokens
    <3>5. Counting(m) /\ Total(m)' = Total(m)
      <4>1. Total(m)' = Total(m) + (1 + (-1) + 0)
        BY <3>4, TotalShifts
      <4> QED BY <3>2, <3>4, <4>1 DEF Counting
    <3>6. Cardinality(Refs(box, m)) >= 1
      BY <1>2, <3>1, <3>2, HasRef
    <3>7. cnt[m] # 0
      <4> SUFFICES ASSUME cnt[m] = 0 PROVE FALSE
        OBVIOUS
      <4>1. root[m] # NoSlab /\ Total(m) = 1 /\ (Local(m) \/ Sending(m))
        BY <3>2, <3>6 DEF Reference
      <4>2. Cardinality(Refs(has, m)) = 0 /\ Cardinality(Senders(m)) = 0
        BY <3>2, <3>6, <4>1
      <4>3. ~Sending(m)
        <5>1. Senders(m) = {}
          BY <3>2, <4>2, NoneIn
        <5> QED BY <5>1 DEF Sending
      <4>4. \A b \in ArcActors : has[b][m] = 0
        BY <1>2, <3>2, <4>2, NoRef
      <4>5. sl[root[m]].owner \in ArcActors \cup {NoOne}
        <5>1. root[m] \in Slabs /\ sl \in [Slabs -> SlabRec]
          BY <1>2, <4>1, SlTypes DEF SlabMaybe
        <5>2. sl[root[m]] \in SlabRec
          BY <5>1
        <5> QED BY <5>2, HeaderType
      <4> QED BY <4>1, <4>3, <4>4, <4>5 DEF Local
    <3>8. Elsewhere(m)
      BY <1>5 DEF At, Elsewhere
    <3>9. /\ has' \in Counts /\ box' \in Counts
          /\ IsFiniteSet(Refs(has, m)') /\ IsFiniteSet(Refs(box, m)')
      BY <3>5, CountingElse
    <3>10. Reference(m)'
      BY <1>1, <3>2, <3>5, <3>7, <3>9 DEF Reference
    <3> QED BY <3>5, <3>8, <3>9, <3>10, OthersKept
  <2> QED BY <1>1, <2>1, <2>2
<1>9. ArcTypes'
  <2>1. RootTypes'
    BY <1>1, <1>2, <1>4, <1>8 DEF ArcTypes, RootTypes
  <2> QED BY <1>1, <1>2, <1>3, <1>6, <2>1 DEF ArcTypes, ActorTypes, ClosesAll
<1> QED BY <1>4, <1>7, <1>8, <1>9, InvTogether

----------------------------------------------------------------------------
(* The walk over an owner's pool: what nothing escaped from goes home. *)
Torn(x, a) ==
  IF x.owner # a THEN x ELSE IF x.escaped = 0 THEN AtHome ELSE [x EXCEPT !.owner = NoOne]
LEMMA FitsTorn ==
  ASSUME NEW a \in ArcActors, NEW x, NEW h, NEW e, NEW U, Fits(x, h, e, U), x.owner = a
  PROVE  Fits(Torn(x, a), 0, e, {}) /\ Torn(x, a).owner = NoOne /\ h = 0
<1>1. x \in SlabRec /\ x.escaped = e /\ x.holds = h /\ a # NoOne /\ h = 0 /\ x.kind # "home"
  BY ArcAssumption DEF Fits
<1>2. CASE e = 0
  <2>1. Torn(x, a) = AtHome
    BY <1>1, <1>2 DEF Torn
  <2> QED BY <1>1, <1>2, <2>1, HomeHeader
<1>3. CASE e # 0
  <2>1. PICK y : y = [x EXCEPT !.owner = NoOne]
    OBVIOUS
  <2>2. /\ y \in SlabRec /\ y.owner = NoOne
        /\ y.kind = x.kind /\ y.hp = x.hp /\ y.escaped = x.escaped /\ y.holds = x.holds
    BY ONLY <1>1, <2>1, SetOwner
  <2>3. Torn(x, a) = y
    BY <1>1, <1>3, <2>1 DEF Torn
  <2> QED BY <1>1, <1>3, <2>2, <2>3 DEF Fits
<1> QED BY <1>2, <1>3

(* The roots of M are forgotten: actor a loses what it holds of them. *)
LEMMA Forgotten ==
  ASSUME ArcInv, NEW a \in ArcActors, NEW M \in SUBSET Roots, \A n \in M : cnt[n] = 0,
         Forget(a, M), cnt' = cnt
  PROVE  /\ root' \in [Roots -> SlabMaybe] /\ has' \in Counts
         /\ \A n \in Roots : root'[n] = IF n \in M THEN NoSlab ELSE root[n]
         /\ \A b \in ArcActors, n \in Roots : has'[b][n] = IF b = a /\ n \in M THEN 0 ELSE has[b][n]
         /\ \A n \in Roots \ M : Refs(has, n)' = Refs(has, n)
         /\ \A t \in Slabs : Counted(t)' = Counted(t) /\ Uncounted(t)' = Uncounted(t) \ M
<1>1. root \in [Roots -> SlabMaybe] /\ has \in Counts /\ NoSlab \notin Slabs
  BY Parts, SlTypes, ArcAssumption
<1>2. root' \in [Roots -> SlabMaybe] /\ \A n \in Roots : root'[n] = IF n \in M THEN NoSlab ELSE root[n]
  BY <1>1 DEF Forget, SlabMaybe
<1>3. PICK r : r = [n \in Roots |-> IF n \in M THEN 0 ELSE has[a][n]]
  OBVIOUS
<1>4. has' = [has EXCEPT ![a] = r]
  BY <1>3 DEF Forget
<1>5. \A b \in ArcActors : has[b] \in [Roots -> Nat]
  BY <1>1 DEF Counts
<1>6. r \in [Roots -> Nat] /\ \A n \in Roots : r[n] = IF n \in M THEN 0 ELSE has[a][n]
  BY <1>3, <1>5
<1>7. has' \in Counts /\ has'[a] = r /\ \A b \in ArcActors : b # a => has'[b] = has[b]
  <2>1. has \in [ArcActors -> [Roots -> Nat]]
    BY <1>1 DEF Counts
  <2> QED BY <1>4, <1>6, <2>1 DEF Counts
<1>8. \A b \in ArcActors, n \in Roots : has'[b][n] = IF b = a /\ n \in M THEN 0 ELSE has[b][n]
  BY <1>6, <1>7
<1>9. \A n \in Roots \ M : Refs(has, n)' = Refs(has, n)
  BY <1>8 DEF Refs, Entry
<1>10. \A t \in Slabs : Counted(t)' = Counted(t)
  BY <1>1, <1>2 DEF Counted
<1>11. \A t \in Slabs : Uncounted(t)' = Uncounted(t) \ M
  BY <1>1, <1>2 DEF Uncounted
<1> QED BY <1>2, <1>7, <1>8, <1>9, <1>10, <1>11

LEMMA GoneReference ==
  ASSUME NEW n \in Roots, root'[n] = NoSlab, cnt'[n] = 0,
         \A b \in ArcActors : has'[b][n] = 0, Refs(box, n)' = {}, Senders(n)' = {}
  PROVE  Reference(n)'
<1>1. Refs(has, n)' = {}
  BY DEF Refs, Entry
<1>2. IsFiniteSet(Refs(has, n)') /\ IsFiniteSet(Refs(box, n)') /\ Total(n)' = 0
  BY <1>1, FS_EmptySet DEF Total
<1> QED BY <1>2 DEF Reference

(* A value of the pool has one reference, its owner's. *)
LEMMA LocalGone ==
  ASSUME ArcInv, NEW a \in ArcActors, NEW n \in Locals(a)
  PROVE  /\ n \in Roots /\ cnt[n] = 0 /\ root[n] \in Slabs /\ sl[root[n]].owner = a
         /\ \A b \in ArcActors : b # a => has[b][n] = 0
         /\ Refs(box, n) = {} /\ Senders(n) = {}
<1>1. n \in Roots /\ cnt[n] = 0 /\ root[n] # NoSlab /\ sl[root[n]].owner = a /\ a # NoOne
  BY ArcAssumption DEF Locals
<1>2. root[n] \in Slabs
  BY <1>1, Parts, SlTypes DEF SlabMaybe
<1>3. Total(n) = 1 /\ has[a][n] = 1
  <2>1. Reference(n) /\ ~Sending(n)
    BY <1>1, Parts DEF Sending, Ownerless
  <2> QED BY <1>1, <2>1 DEF Reference, Local
<1>4. /\ IsFiniteSet(Refs(has, n)) /\ IsFiniteSet(Refs(box, n)) /\ IsFiniteSet(Senders(n)) /\ has \in Counts
      /\ Cardinality(Refs(has, n)) \in Nat /\ Cardinality(Refs(box, n)) \in Nat /\ Cardinality(Senders(n)) \in Nat
      /\ Total(n) = Cardinality(Refs(has, n)) + Cardinality(Refs(box, n)) + Cardinality(Senders(n))
  BY <1>1, TotalOf
<1>5. Cardinality(Refs(has, n)) >= 1
  BY <1>1, <1>3, <1>4, HasRef
<1>6. Cardinality(Refs(has, n)) = 1 /\ Cardinality(Refs(box, n)) = 0 /\ Cardinality(Senders(n)) = 0
  BY <1>3, <1>4, <1>5
<1>7. Refs(box, n) = {} /\ Senders(n) = {}
  BY <1>4, <1>6, NoneIn
<1>8. \A b \in ArcActors : b # a => has[b][n] = 0
  BY <1>1, <1>3, <1>4, <1>6, HasRef
<1> QED BY <1>1, <1>2, <1>7, <1>8

(* A pool's own values lie in slabs of their owner. *)
LEMMA LocalsOf ==
  ASSUME NEW a \in ArcActors, NEW t \in Slabs
  PROVE  /\ sl[t].owner = a => Uncounted(t) \subseteq Locals(a)
         /\ sl[t].owner # a => Uncounted(t) \cap Locals(a) = {}
BY ArcAssumption DEF Locals, Uncounted

LEMMA ResetHeaders ==
  ASSUME ArcInv, NEW a \in ArcActors, ClosesAll(a), UNCHANGED <<cnt, mslab, ent>>,
         Forget(a, Locals(a)), sl' = Teardown(UnholdAll(sl, dp[a]), a), NEW t \in Slabs
  PROVE  /\ Header(t)' /\ sl'[t] \in SlabRec
         /\ sl[t].owner = a => sl'[t].owner = NoOne
         /\ sl[t].owner # a => /\ sl'[t].owner = sl[t].owner
                               /\ HoldsOf(t) = 0 => HoldsOf(t)' = 0
                               /\ EscapedOf(t)' = EscapedOf(t) /\ Uncounted(t)' = Uncounted(t)
<1>1. Packers(t)' = Packers(t) /\ Closures(t)' = Closures(t)
  BY SamePackers, SameClosures
<1>2. Counted(t)' = Counted(t) /\ Uncounted(t)' = Uncounted(t) \ Locals(a)
  <2>1. Locals(a) \in SUBSET Roots /\ \A n \in Locals(a) : cnt[n] = 0
    BY DEF Locals
  <2> QED BY <2>1, Forgotten
<1>3. PICK n : n = Cardinality(Entries(dp[a], t))
  OBVIOUS
<1>4. /\ Fits(Unheld(sl[t], n), HoldsOf(t) - n, EscapedOf(t), Uncounted(t))
      /\ Unheld(sl[t], n).owner = sl[t].owner
      /\ n \in Nat /\ HoldsOf(t) \in Nat /\ n <= HoldsOf(t)
      /\ IsFiniteSet(Windows(t)') /\ IsFiniteSet(Counted(t))
      /\ Cardinality(Windows(t)') = Cardinality(Windows(t)) - n /\ Cardinality(Windows(t)) \in Nat
  BY <1>3, ClosedHeader
<1>5. HoldsOf(t)' = HoldsOf(t) - n /\ EscapedOf(t)' = EscapedOf(t)
  <2>1. Cardinality(Packers(t)) \in Nat
    BY FinitePackers
  <2>2. /\ HoldsOf(t) = Cardinality(Windows(t)) + Cardinality(Packers(t))
        /\ HoldsOf(t)' = Cardinality(Windows(t)') + Cardinality(Packers(t))
        /\ EscapedOf(t)' = EscapedOf(t)
    BY <1>1, <1>2 DEF HoldsOf, EscapedOf
  <2> QED BY <1>4, <2>1, <2>2
<1>6. sl'[t] = Torn(Unheld(sl[t], n), a)
  <2>1. UnholdAll(sl, dp[a])[t] = Unheld(sl[t], n)
    BY <1>3 DEF UnholdAll
  <2> QED BY <2>1 DEF Teardown, Torn
<1>7. CASE sl[t].owner = a
  <2>1. /\ Fits(Torn(Unheld(sl[t], n), a), 0, EscapedOf(t), {}) /\ Torn(Unheld(sl[t], n), a).owner = NoOne
        /\ HoldsOf(t) - n = 0
    BY <1>4, <1>7, FitsTorn
  <2>2. Uncounted(t)' = {}
    BY <1>2, <1>7, LocalsOf
  <2>3. a # NoOne
    BY ArcAssumption
  <2> QED BY <1>2, <1>4, <1>5, <1>6, <1>7, <2>1, <2>2, <2>3 DEF Header, Fits
<1>8. CASE sl[t].owner # a
  <2>1. sl'[t] = Unheld(sl[t], n)
    BY <1>4, <1>6, <1>8 DEF Torn
  <2>2. Uncounted(t)' = Uncounted(t)
    BY <1>2, <1>8, LocalsOf
  <2>3. HoldsOf(t) = 0 => HoldsOf(t)' = 0
    BY <1>4, <1>5
  <2> QED BY <1>2, <1>4, <1>5, <1>8, <2>1, <2>2, <2>3 DEF Header, Fits
<1> QED BY <1>7, <1>8

LEMMA PoolResetInv == ASSUME ArcInv, NEW a \in ArcActors, PoolReset(a) PROVE ArcInv'
<1>1. /\ sl' = Teardown(UnholdAll(sl, dp[a]), a)
      /\ dp' = [dp EXCEPT ![a] = <<>>] /\ win' = [win EXCEPT ![a] = {}]
      /\ Forget(a, Locals(a)) /\ UNCHANGED <<cnt, box, snd, mslab, ent, alive>>
  BY DEF PoolReset
<1>2. /\ ArcTypes /\ Living /\ dp \in [ArcActors -> Seq(Slabs)] /\ win \in [ArcActors -> SUBSET Slabs]
      /\ root \in [Roots -> SlabMaybe] /\ ent \in [ArcActors -> SlabMaybe] /\ NoOne \notin ArcActors
  BY Parts, SlTypes, ActTypes, ArcAssumption
<1>3. ClosesAll(a)
  BY <1>1, <1>2, ClosingAll
<1>4. \A t \in Slabs : /\ Header(t)' /\ sl'[t] \in SlabRec
                       /\ sl[t].owner = a => sl'[t].owner = NoOne
                       /\ sl[t].owner # a => /\ sl'[t].owner = sl[t].owner
                                             /\ HoldsOf(t) = 0 => HoldsOf(t)' = 0
                                             /\ EscapedOf(t)' = EscapedOf(t) /\ Uncounted(t)' = Uncounted(t)
  BY <1>1, <1>3, ResetHeaders
<1>5. /\ root' \in [Roots -> SlabMaybe] /\ has' \in Counts
      /\ \A n \in Roots : root'[n] = IF n \in Locals(a) THEN NoSlab ELSE root[n]
      /\ \A b \in ArcActors, n \in Roots : has'[b][n] = IF b = a /\ n \in Locals(a) THEN 0 ELSE has[b][n]
      /\ \A n \in Roots \ Locals(a) : Refs(has, n)' = Refs(has, n)
  <2>1. Locals(a) \in SUBSET Roots /\ \A n \in Locals(a) : cnt[n] = 0
    BY DEF Locals
  <2> QED BY <1>1, <2>1, Forgotten
<1>6. \A n : Refs(box, n)' = Refs(box, n) /\ Senders(n)' = Senders(n)
  BY <1>1 DEF Refs, Senders
<1>7. ASSUME NEW n \in Roots, n \in Locals(a) PROVE Reference(n)'
  <2>1. /\ cnt[n] = 0 /\ Refs(box, n) = {} /\ Senders(n) = {}
        /\ \A b \in ArcActors : b # a => has[b][n] = 0
    BY <1>7, LocalGone
  <2>2. /\ root'[n] = NoSlab /\ cnt'[n] = 0 /\ Refs(box, n)' = {} /\ Senders(n)' = {}
        /\ \A b \in ArcActors : has'[b][n] = 0
    BY <1>1, <1>5, <1>6, <1>7, <2>1
  <2> QED BY <2>2, GoneReference
<1>8. ASSUME NEW n \in Roots, n \notin Locals(a) PROVE Reference(n)'
  <2>1. Still(n)
    BY <1>5, <1>6, <1>8 DEF Still
  <2>2. root'[n] = root[n] /\ cnt'[n] = cnt[n] /\ mslab' = mslab /\ alive' = alive
    BY <1>1, <1>5, <1>8
  <2>3. ASSUME root[n] # NoSlab, cnt[n] = 0
        PROVE  /\ sl'[root[n]].owner = sl[root[n]].owner
               /\ HoldsOf(root[n]) = 0 => HoldsOf(root[n])' = 0
               /\ EscapedOf(root[n])' = EscapedOf(root[n]) /\ Uncounted(root[n])' = Uncounted(root[n])
    <3>1. PICK t \in Slabs : t = root[n]
      BY <1>2, <2>3 DEF SlabMaybe
    <3>2. sl[t].owner # a
      BY <1>8, <2>3, <3>1 DEF Locals
    <3> QED BY <1>4, <2>2, <3>1, <3>2
  <2>4. At(n)
    BY <2>2, <2>3 DEF At
  <2> QED BY <2>1, <2>4, KeptAt
<1>9. /\ win' \in [ArcActors -> SUBSET Slabs]
      /\ \A b \in ArcActors : win'[b] = IF b = a THEN {} ELSE win[b]
  BY <1>1, <1>2
<1>10. Living'
  <2>1. \A b \in ArcActors : ent[b] # NoSlab => ent[b] \in Slabs /\ sl[ent[b]].owner = NoOne
    BY <1>2 DEF SlabMaybe, Living, Ownerless
  <2>2. \A b \in ArcActors : ent[b] # NoSlab => sl'[ent[b]].owner = NoOne
    BY <1>2, <1>4, <2>1
  <2>3. \A b \in ArcActors : \A t \in win'[b] : Entries(dp'[b], t) # {}
    BY <1>2, <1>3, <1>9, ClosedWindows
  <2>4. \A t \in Slabs : sl'[t].owner # NoOne => sl'[t].owner \in alive
    BY <1>2, <1>4 DEF Living, Ownerless
  <2> QED BY <1>1, <1>2, <2>2, <2>3, <2>4 DEF Living, Ownerless
<1>11. ArcTypes'
  <2>1. sl' \in [Slabs -> SlabRec]
    <3>1. sl' = [t \in Slabs |-> sl'[t]]
      BY <1>1 DEF Teardown
    <3> QED BY <1>4, <3>1
  <2>2. RootTypes'
    BY <1>1, <1>2, <1>5, <2>1 DEF ArcTypes, RootTypes
  <2> QED BY <1>1, <1>2, <1>3, <1>9, <2>2 DEF ArcTypes, ActorTypes, ClosesAll
<1> QED BY <1>4, <1>7, <1>8, <1>10, <1>11, InvTogether

----------------------------------------------------------------------------
(* An actor dies: its windows close, it packs no more, its pool goes and its *)
(* entry closure is unpinned.                                                *)
Packed(a) == {m \in Roots : snd[a] = <<m>> /\ root[m] = mslab[a]}
Unpinned(x) == IF x.escaped = 1 /\ x.holds = 0 THEN AtHome ELSE [x EXCEPT !.escaped = @ - 1]
LEMMA FitsUnpinned ==
  ASSUME NEW x, NEW h \in Nat, NEW e \in Nat, NEW U, Fits(x, h, e, U), e > 0, x.owner = NoOne,
         h = 0 /\ e = 1 => U = {}
  PROVE  Fits(Unpinned(x), h, e - 1, U) /\ Unpinned(x).owner = NoOne
<1>1. x \in SlabRec /\ x.holds = h /\ x.escaped = e /\ x.kind # "home"
  BY DEF Fits
<1>2. CASE h = 0 /\ e = 1
  <2>1. Unpinned(x) = AtHome /\ e - 1 = 0 /\ U = {}
    BY <1>1, <1>2 DEF Unpinned
  <2> QED BY <1>2, <2>1, HomeHeader
<1>3. CASE ~(h = 0 /\ e = 1)
  <2>1. PICK y : y = [x EXCEPT !.escaped = x.escaped - 1]
    OBVIOUS
  <2>2. x.escaped - 1 \in Int
    BY <1>1
  <2>3. /\ y \in SlabRec /\ y.escaped = x.escaped - 1
        /\ y.kind = x.kind /\ y.owner = x.owner /\ y.hp = x.hp /\ y.holds = x.holds
    BY ONLY <1>1, <2>1, <2>2, SetEscaped
  <2>4. Unpinned(x) = y
    BY <1>1, <1>3, <2>1 DEF Unpinned
  <2> QED BY <1>1, <1>3, <2>3, <2>4 DEF Fits
<1> QED BY <1>2, <1>3
LEMMA FitsOther ==
  ASSUME NEW x, NEW h, NEW e, NEW U, NEW V, Fits(x, h, e, U), h # 0
  PROVE  Fits(x, h, e, V)
BY DEF Fits

(* A copy that keeps an ownerless slab is its own sender's, who goes on. *)
LEMMA PackerLeft ==
  ASSUME ArcInv, NEW a \in ArcActors, NEW s \in Slabs, Ownerless(s), HoldsOf(s) # 0 \/ EscapedOf(s) # 0,
         NEW m \in Uncounted(s), m \notin Packed(a)
  PROVE  Packers(s) \ {a} # {}
<1>1. m \in Roots /\ root[m] = s /\ cnt[m] = 0 /\ s # NoSlab /\ Reference(m)
  BY Parts, ArcAssumption DEF Uncounted
<1>2. Sending(m)
  BY <1>1 DEF Reference, Local, Ownerless
<1>3. PICK b \in ArcActors : snd[b] = <<m>> /\ mslab[b] = s
  BY <1>1, <1>2 DEF Sending, Senders
<1>4. b # a
  BY <1>1, <1>3 DEF Packed
<1> QED BY <1>3, <1>4 DEF Packers

Leaves(a) ==
  /\ ClosesAll(a) /\ mslab' = [mslab EXCEPT ![a] = NoSlab] /\ ent' = [ent EXCEPT ![a] = NoSlab]
  /\ cnt' = cnt /\ alive' = alive \ {a} /\ a \in alive
  /\ \A m \in Roots : snd[a] = <<m>> => cnt[m] = 0
LEMMA LeftSets ==
  ASSUME ArcInv, NEW a \in ArcActors, Leaves(a), NEW s \in Slabs
  PROVE  /\ mslab' \in [ArcActors -> SlabMaybe] /\ ent' \in [ArcActors -> SlabMaybe]
         /\ \A b \in ArcActors : mslab'[b] = IF b = a THEN NoSlab ELSE mslab[b]
         /\ \A b \in ArcActors : ent'[b] = IF b = a THEN NoSlab ELSE ent[b]
         /\ Packers(s)' = Packers(s) \ {a} /\ Closures(s)' = Closures(s) \ {a}
         /\ a \in Packers(s) <=> mslab[a] = s
         /\ a \in Closures(s) <=> ent[a] = s
<1>1. mslab \in [ArcActors -> SlabMaybe] /\ ent \in [ArcActors -> SlabMaybe] /\ NoSlab \notin Slabs
  BY Parts, ActTypes, ArcAssumption
<1>2. /\ mslab' \in [ArcActors -> SlabMaybe] /\ ent' \in [ArcActors -> SlabMaybe]
      /\ \A b \in ArcActors : mslab'[b] = IF b = a THEN NoSlab ELSE mslab[b]
      /\ \A b \in ArcActors : ent'[b] = IF b = a THEN NoSlab ELSE ent[b]
  BY <1>1 DEF Leaves, SlabMaybe
<1> QED BY <1>1, <1>2 DEF Packers, Closures

(* Its windows over an ownerless slab and its hold on it are gone: the slab *)
(* fits those that are left, with the copies of the other senders.          *)
Closed(a, s) == Unheld(sl[s], Cardinality(Entries(dp[a], s)))
Stopped(a, s) == IF s = mslab[a] THEN Unheld(Closed(a, s), 1) ELSE Closed(a, s)
LEMMA LeftHolds ==
  ASSUME ArcInv, NEW a \in ArcActors, Leaves(a), NEW s \in Slabs
  PROVE  /\ HoldsOf(s)' \in Nat /\ HoldsOf(s)' <= HoldsOf(s)
         /\ Packers(s) \ {a} # {} => HoldsOf(s)' # 0
         /\ HoldsOf(s)' = (HoldsOf(s) - Cardinality(Entries(dp[a], s))) - (IF mslab[a] = s THEN 1 ELSE 0)
         /\ IsFiniteSet(Windows(s)') /\ Cardinality(Entries(dp[a], s)) \in Nat
<1>1. PICK n : n = Cardinality(Entries(dp[a], s))
  OBVIOUS
<1>2. /\ n \in Nat /\ HoldsOf(s) \in Nat /\ n <= HoldsOf(s)
      /\ IsFiniteSet(Windows(s)') /\ Cardinality(Windows(s)') = Cardinality(Windows(s)) - n
      /\ Cardinality(Windows(s)) \in Nat /\ n <= Cardinality(Windows(s))
  BY <1>1, ClosedHeader DEF Leaves
<1>3. PICK P, Q : P = Packers(s) /\ Q = Packers(s)'
  OBVIOUS
<1>4. Q = P \ {a} /\ (a \in P <=> mslab[a] = s) /\ IsFiniteSet(P)
  BY <1>3, LeftSets, FinitePackers
<1>5. /\ IsFiniteSet(Q) /\ Cardinality(Q) \in Nat /\ Cardinality(P) \in Nat
      /\ Cardinality(Q) = Cardinality(P) - (IF mslab[a] = s THEN 1 ELSE 0)
  <2>1. CASE a \in P
    <3>1. IsFiniteSet(Q) /\ Cardinality(Q) = Cardinality(P) - 1 /\ Cardinality(Q) \in Nat
      BY ONLY <1>4, <2>1, OneLess
    <3> QED BY <1>4, <2>1, <3>1, NoneIn
  <2>2. CASE a \notin P
    <3>1. Q = P /\ mslab[a] # s
      BY <1>4, <2>2
    <3>2. Cardinality(P) \in Nat
      BY <1>4, NoneIn
    <3> QED BY <1>4, <2>2, <3>1, <3>2
  <2> QED BY <2>1, <2>2
<1>6. /\ HoldsOf(s) = Cardinality(Windows(s)) + Cardinality(P)
      /\ HoldsOf(s)' = Cardinality(Windows(s)') + Cardinality(Q)
  BY <1>3 DEF HoldsOf
<1>7. Q # {} => Cardinality(Q) # 0
  BY <1>5, NoneIn
<1>8. PICK w, v, p, q, d : /\ w = Cardinality(Windows(s)) /\ v = Cardinality(Windows(s)')
                           /\ p = Cardinality(P) /\ q = Cardinality(Q) /\ d = IF mslab[a] = s THEN 1 ELSE 0
  OBVIOUS
<1>9. /\ n \in Nat /\ w \in Nat /\ n <= w /\ v = w - n /\ p \in Nat /\ q \in Nat /\ q = p - d
      /\ HoldsOf(s) = w + p /\ HoldsOf(s)' = v + q /\ d \in {0, 1}
  BY <1>2, <1>5, <1>6, <1>8
<1>10. /\ HoldsOf(s)' \in Nat /\ HoldsOf(s)' <= HoldsOf(s) /\ HoldsOf(s)' = (HoldsOf(s) - n) - d
       /\ q # 0 => HoldsOf(s)' # 0
  BY <1>9
<1>11. Packers(s) \ {a} # {} => HoldsOf(s)' # 0
  BY <1>3, <1>4, <1>7, <1>8, <1>10
<1> QED BY <1>1, <1>2, <1>8, <1>10, <1>11

LEMMA LeftSlab ==
  ASSUME ArcInv, NEW a \in ArcActors, Leaves(a), NEW s \in Slabs, Ownerless(s)
  PROVE  /\ Fits(Stopped(a, s), HoldsOf(s)', EscapedOf(s), Uncounted(s) \ Packed(a))
         /\ Stopped(a, s).owner = NoOne
<1>1. PICK n, k, h, e, U, V : /\ n = Cardinality(Entries(dp[a], s)) /\ k = HoldsOf(s)' /\ h = HoldsOf(s)
                              /\ e = EscapedOf(s) /\ U = Uncounted(s) /\ V = Uncounted(s) \ Packed(a)
  OBVIOUS
<1>2. /\ k \in Nat /\ k <= h /\ (Packers(s) \ {a} # {} => k # 0)
      /\ k = (h - n) - (IF mslab[a] = s THEN 1 ELSE 0)
  BY <1>1, LeftHolds
<1>3. PICK x : x = Closed(a, s)
  OBVIOUS
<1>4. /\ Fits(x, h - n, e, U) /\ x.owner = NoOne
      /\ n \in Nat /\ h \in Nat /\ e \in Nat /\ n <= h
  BY <1>1, <1>3, ClosedHeader DEF Leaves, Closed, Ownerless
<1>5. CASE s # mslab[a]
  <2>1. Stopped(a, s) = x /\ k = h - n
    BY <1>2, <1>3, <1>4, <1>5 DEF Stopped
  <2>2. V = U
    BY <1>1, <1>5 DEF Packed, Uncounted
  <2> QED BY <1>1, <1>4, <2>1, <2>2
<1>6. CASE s = mslab[a]
  <2>1. Stopped(a, s) = Unheld(x, 1) /\ k = (h - n) - 1 /\ h - n \in Nat /\ 1 <= h - n
    BY <1>2, <1>3, <1>4, <1>6 DEF Stopped
  <2>2. ASSUME 1 = h - n PROVE V = {}
    <3> SUFFICES ASSUME NEW m \in V PROVE FALSE
      OBVIOUS
    <3>1. m \in Uncounted(s) /\ m \notin Packed(a)
      BY <1>1
    <3>2. HoldsOf(s) # 0
      BY <1>1, <1>4, <2>1
    <3>3. Packers(s) \ {a} # {}
      BY <3>1, <3>2, PackerLeft
    <3> QED BY <1>2, <2>1, <2>2, <3>3
  <2>3. Fits(x, h - n, e, V)
    BY <1>4, <2>1, FitsOther
  <2>4. PICK i : i = h - n
    OBVIOUS
  <2>5. /\ Fits(x, i, e, V) /\ i \in Nat /\ e \in Nat /\ 1 \in Nat /\ 1 <= i
        /\ x.owner = NoOne /\ 1 > 0 /\ 1 = i /\ e = 0 => V = {}
    BY <1>4, <2>1, <2>2, <2>3, <2>4
  <2>6. Fits(Unheld(x, 1), i - 1, e, V) /\ Unheld(x, 1).owner = x.owner
    BY ONLY <2>5, FitsUnheld
  <2> QED BY <1>1, <1>4, <2>1, <2>4, <2>6
<1> QED BY <1>5, <1>6

Dead(x, a, s) == IF s = ent[a] THEN Unpinned(x) ELSE x
Dies(a) ==
  /\ Leaves(a) /\ Forget(a, Locals(a) \cup Packed(a))
  /\ \A t \in Slabs : sl'[t] = Dead(Torn(Stopped(a, t), a), a, t)
LEMMA Lost ==
  ASSUME ArcInv, NEW a \in ArcActors, Dies(a)
  PROVE  /\ Locals(a) \cup Packed(a) \in SUBSET Roots /\ \A n \in Locals(a) \cup Packed(a) : cnt[n] = 0
         /\ cnt' = cnt /\ Forget(a, Locals(a) \cup Packed(a))
BY DEF Locals, Packed, Dies, Leaves
LEMMA LeftEscaped ==
  ASSUME ArcInv, NEW a \in ArcActors, Dies(a), NEW t \in Slabs
  PROVE  /\ IsFiniteSet(Counted(t)') /\ EscapedOf(t) \in Nat
         /\ EscapedOf(t)' = EscapedOf(t) - (IF t = ent[a] THEN 1 ELSE 0)
         /\ t = ent[a] => EscapedOf(t) # 0
<1>1. Counted(t)' = Counted(t)
  BY Lost, Forgotten
<1>2. PICK P, Q : P = Closures(t) /\ Q = Closures(t)'
  OBVIOUS
<1>3. Q = P \ {a} /\ (a \in P <=> ent[a] = t) /\ IsFiniteSet(P)
  BY <1>2, LeftSets, FinitePackers DEF Dies
<1>4. Header(t) /\ EscapedOf(t) \in Nat /\ Cardinality(Counted(t)) \in Nat
  BY Parts, CountsOf
<1>5. /\ Cardinality(P) \in Nat /\ (a \in P => Cardinality(P) >= 1)
      /\ Cardinality(Q) = Cardinality(P) - (IF t = ent[a] THEN 1 ELSE 0)
  <2>1. CASE a \in P
    <3>1. IsFiniteSet(Q) /\ Cardinality(Q) = Cardinality(P) - 1 /\ Cardinality(Q) \in Nat
      BY ONLY <1>3, <2>1, OneLess
    <3> QED BY <1>3, <2>1, <3>1, NoneIn
  <2>2. CASE a \notin P
    <3>1. Q = P /\ t # ent[a]
      BY <1>3, <2>2
    <3>2. Cardinality(P) \in Nat
      BY <1>3, NoneIn
    <3> QED BY <2>2, <3>1, <3>2
  <2> QED BY <2>1, <2>2
<1>6. PICK c, p, q, d : /\ c = Cardinality(Counted(t)) /\ p = Cardinality(P) /\ q = Cardinality(Q)
                        /\ d = IF t = ent[a] THEN 1 ELSE 0
  OBVIOUS
<1>7. EscapedOf(t) = c + p /\ EscapedOf(t)' = c + q
  BY <1>1, <1>2, <1>6 DEF EscapedOf
<1>8. c \in Nat /\ p \in Nat /\ q = p - d /\ d \in {0, 1} /\ (t = ent[a] => p >= 1)
  BY <1>3, <1>4, <1>5, <1>6
<1>9. EscapedOf(t)' = EscapedOf(t) - d /\ (t = ent[a] => EscapedOf(t) # 0)
  BY <1>7, <1>8
<1> QED BY <1>1, <1>4, <1>6, <1>9 DEF Header

(* A pool's slab is nobody's window, packing slab or closure. *)
LEMMA OwnedAlone ==
  ASSUME ArcInv, NEW t \in Slabs, ~Ownerless(t), NEW a \in ArcActors
  PROVE  HoldsOf(t) = 0 /\ t # mslab[a] /\ t # ent[a]
<1>1. Header(t) /\ Living /\ NoSlab \notin Slabs
  BY Parts, ArcAssumption
<1>2. HoldsOf(t) = 0
  BY <1>1 DEF Header, Fits, Ownerless
<1>3. Packers(t) = {}
  BY <1>1, <1>2, CountsOf
<1> QED BY <1>1, <1>2, <1>3 DEF Packers, Living

LEMMA DeadOwned ==
  ASSUME ArcInv, NEW a \in ArcActors, Dies(a), NEW t \in Slabs, ~Ownerless(t)
  PROVE  /\ Header(t)' /\ sl'[t] \in SlabRec
         /\ sl'[t].owner = IF sl[t].owner = a THEN NoOne ELSE sl[t].owner
<1>1. HoldsOf(t) = 0 /\ t # mslab[a] /\ t # ent[a] /\ Leaves(a)
  BY OwnedAlone DEF Dies
<1>2. PICK n : n = Cardinality(Entries(dp[a], t))
  OBVIOUS
<1>3. PICK x : x = Closed(a, t)
  OBVIOUS
<1>4. /\ Fits(x, HoldsOf(t) - n, EscapedOf(t), Uncounted(t)) /\ x.owner = sl[t].owner
      /\ n \in Nat /\ n <= HoldsOf(t)
  BY <1>1, <1>2, <1>3, ClosedHeader DEF Leaves, Closed
<1>5. n = 0 /\ HoldsOf(t) - n = 0 /\ HoldsOf(t)' = 0 /\ IsFiniteSet(Windows(t)')
  <2>1. HoldsOf(t)' \in Nat /\ HoldsOf(t)' <= HoldsOf(t) /\ IsFiniteSet(Windows(t)')
    BY <1>1, LeftHolds
  <2> QED BY <1>1, <1>4, <2>1
<1>6. sl'[t] = Torn(x, a)
  <2>1. Stopped(a, t) = x
    BY <1>1, <1>3 DEF Stopped
  <2> QED BY <1>1, <2>1 DEF Dies, Dead
<1>7. EscapedOf(t)' = EscapedOf(t) /\ IsFiniteSet(Counted(t)')
  BY <1>1, LeftEscaped
<1>8. Uncounted(t)' = Uncounted(t) \ (Locals(a) \cup Packed(a))
  BY Lost, Forgotten
<1>9. CASE sl[t].owner = a
  <2>1. Fits(Torn(x, a), 0, EscapedOf(t), {}) /\ Torn(x, a).owner = NoOne
    BY <1>4, <1>9, FitsTorn
  <2>2. Uncounted(t)' = {}
    BY <1>8, <1>9, LocalsOf
  <2> QED BY <1>5, <1>6, <1>7, <1>9, <2>1, <2>2 DEF Header, Fits
<1>10. CASE sl[t].owner # a
  <2>1. sl'[t] = x
    BY <1>4, <1>6, <1>10 DEF Torn
  <2>2. Uncounted(t)' = Uncounted(t)
    <3>1. Uncounted(t) \cap Locals(a) = {}
      BY <1>10, LocalsOf
    <3>2. Uncounted(t) \cap Packed(a) = {}
      BY <1>1 DEF Uncounted, Packed
    <3> QED BY <1>8, <3>1, <3>2
  <2> QED BY <1>4, <1>5, <1>7, <1>10, <2>1, <2>2 DEF Header, Fits
<1> QED BY <1>9, <1>10

LEMMA DeadOwnerless ==
  ASSUME ArcInv, NEW a \in ArcActors, Dies(a), NEW t \in Slabs, Ownerless(t)
  PROVE  /\ Header(t)' /\ sl'[t] \in SlabRec /\ sl'[t].owner = NoOne
         /\ Uncounted(t)' = Uncounted(t) \ Packed(a)
<1>1. Leaves(a) /\ sl[t].owner # a
  BY ArcAssumption DEF Dies, Ownerless
<1>2. PICK x, h, e, V : x = Stopped(a, t) /\ h = HoldsOf(t)' /\ e = EscapedOf(t) /\ V = Uncounted(t) \ Packed(a)
  OBVIOUS
<1>3. Fits(x, h, e, V) /\ x.owner = NoOne
  BY <1>1, <1>2, LeftSlab
<1>4. h \in Nat /\ IsFiniteSet(Windows(t)') /\ (Packers(t) \ {a} # {} => h # 0)
  BY <1>1, <1>2, LeftHolds
<1>5. /\ IsFiniteSet(Counted(t)') /\ e \in Nat /\ EscapedOf(t)' = e - (IF t = ent[a] THEN 1 ELSE 0)
      /\ t = ent[a] => e # 0
  BY <1>2, LeftEscaped
<1>6. Uncounted(t)' = V
  <2>1. Uncounted(t)' = Uncounted(t) \ (Locals(a) \cup Packed(a))
    BY Lost, Forgotten
  <2>2. Uncounted(t) \cap Locals(a) = {}
    BY <1>1, LocalsOf
  <2> QED BY <1>2, <2>1, <2>2
<1>7. sl'[t] = Dead(x, a, t)
  <2>1. Torn(x, a) = x
    BY <1>3, ArcAssumption DEF Torn
  <2> QED BY <1>2, <2>1 DEF Dies
<1>8. CASE t = ent[a]
  <2>1. ASSUME h = 0, e = 1 PROVE V = {}
    <3> SUFFICES ASSUME NEW m \in V PROVE FALSE
      OBVIOUS
    <3>1. m \in Uncounted(t) /\ m \notin Packed(a) /\ EscapedOf(t) # 0
      BY <1>2, <2>1
    <3>2. Packers(t) \ {a} # {}
      BY <3>1, PackerLeft
    <3> QED BY <1>4, <2>1, <3>2
  <2>2. e > 0
    BY <1>5, <1>8
  <2>3. Fits(Unpinned(x), h, e - 1, V) /\ Unpinned(x).owner = NoOne
    BY <1>3, <1>4, <1>5, <2>1, <2>2, FitsUnpinned
  <2>4. sl'[t] = Unpinned(x) /\ EscapedOf(t)' = e - 1
    BY <1>5, <1>7, <1>8 DEF Dead
  <2> QED BY <1>2, <1>4, <1>5, <1>6, <2>3, <2>4 DEF Header, Fits
<1>9. CASE t # ent[a]
  <2>1. sl'[t] = x /\ EscapedOf(t)' = e
    BY <1>5, <1>7, <1>9 DEF Dead
  <2> QED BY <1>2, <1>3, <1>4, <1>5, <1>6, <2>1 DEF Header, Fits
<1> QED BY <1>8, <1>9

LEMMA PackedGone ==
  ASSUME ArcInv, NEW a \in ArcActors, NEW n \in Packed(a), cnt[n] = 0
  PROVE  /\ snd[a] = <<n>> /\ Senders(n) = {a} /\ Refs(box, n) = {}
         /\ \A b \in ArcActors : has[b][n] = 0
<1>1. n \in Roots /\ snd[a] = <<n>> /\ a \in Senders(n)
  BY DEF Packed, Senders
<1>2. root[n] # NoSlab /\ Cardinality(Senders(n)) >= 1
  BY <1>1, SentOnce
<1>3. /\ IsFiniteSet(Refs(has, n)) /\ IsFiniteSet(Refs(box, n)) /\ IsFiniteSet(Senders(n)) /\ has \in Counts
      /\ Cardinality(Refs(has, n)) \in Nat /\ Cardinality(Refs(box, n)) \in Nat /\ Cardinality(Senders(n)) \in Nat
      /\ Total(n) = Cardinality(Refs(has, n)) + Cardinality(Refs(box, n)) + Cardinality(Senders(n))
      /\ Reference(n)
  BY <1>1, TotalOf
<1>4. Total(n) = 1
  BY <1>2, <1>3 DEF Reference
<1>5. Cardinality(Senders(n)) = 1 /\ Cardinality(Refs(has, n)) = 0 /\ Cardinality(Refs(box, n)) = 0
  BY <1>2, <1>3, <1>4
<1>6. Senders(n) = {a} /\ Refs(box, n) = {}
  BY <1>1, <1>3, <1>5, NoneIn
<1>7. \A b \in ArcActors : has[b][n] = 0
  BY <1>1, <1>3, <1>5, NoRef
<1> QED BY <1>1, <1>6, <1>7

(* What reap does, slab by slab. *)
LEMMA ReapedDies == ASSUME ArcInv, NEW a \in ArcActors, Reaped(a) PROVE Dies(a)
<1>1. /\ a \in alive /\ (snd[a] # <<>> => cnt[snd[a][1]] = 0)
      /\ sl' = UnpinEntry(Teardown(Unpacked(UnholdAll(sl, dp[a]), a), a), ent[a])
      /\ dp' = [dp EXCEPT ![a] = <<>>]
      /\ mslab' = [mslab EXCEPT ![a] = NoSlab] /\ ent' = [ent EXCEPT ![a] = NoSlab]
      /\ alive' = alive \ {a} /\ cnt' = cnt
  BY DEF Reaped
<1>2. /\ Living /\ dp \in [ArcActors -> Seq(Slabs)] /\ sl \in [Slabs -> SlabRec] /\ NoSlab \notin Slabs
      /\ mslab \in [ArcActors -> SlabMaybe] /\ ent \in [ArcActors -> SlabMaybe]
  BY Parts, SlTypes, ActTypes, ArcAssumption
<1>3. Leaves(a)
  <2>1. \A m \in Roots : snd[a] = <<m>> => cnt[m] = 0
    <3> SUFFICES ASSUME NEW m \in Roots, snd[a] = <<m>> PROVE cnt[m] = 0
      OBVIOUS
    <3>1. snd[a] # <<>> /\ snd[a][1] = m
      OBVIOUS
    <3> QED BY <1>1, <3>1
  <2> QED BY <1>1, <1>2, <2>1, ClosingAll DEF Leaves
<1>4. Forget(a, Locals(a) \cup Packed(a))
  BY DEF Reaped, Packed
<1>5. PICK T1, T2, T3 : /\ T1 = UnholdAll(sl, dp[a]) /\ T2 = Unpacked(T1, a) /\ T3 = Teardown(T2, a)
  OBVIOUS
<1>6. T1 = [t \in Slabs |-> Closed(a, t)]
  BY <1>5 DEF UnholdAll, Closed
<1>7. \A t \in Slabs : T2[t] = Stopped(a, t)
  <2>1. CASE mslab[a] = NoSlab
    BY <1>2, <1>5, <1>6, <2>1 DEF Unpacked, Stopped
  <2>2. CASE mslab[a] # NoSlab
    <3>1. PICK p \in Slabs : p = mslab[a]
      BY <1>2, <2>2 DEF SlabMaybe
    <3>2. T2 = [T1 EXCEPT ![p] = Unheld(T1[p], 1)]
      BY <1>5, <2>2, <3>1 DEF Unpacked, Unhold
    <3> QED BY <1>6, <3>1, <3>2 DEF Stopped
  <2> QED BY <2>1, <2>2
<1>8. T3 = [t \in Slabs |-> Torn(Stopped(a, t), a)]
  BY <1>5, <1>7 DEF Teardown, Torn
<1>9. PICK p \in Slabs : p = ent[a]
  BY <1>1, <1>2 DEF Living, SlabMaybe
<1>10. PICK y : y = Unpinned(T3[p])
  OBVIOUS
<1>11. sl' = [T3 EXCEPT ![p] = y]
  BY <1>1, <1>5, <1>9, <1>10 DEF UnpinEntry, Unpinned
<1>12. \A t \in Slabs : sl'[t] = Dead(Torn(Stopped(a, t), a), a, t)
  BY <1>8, <1>9, <1>10, <1>11 DEF Dead
<1> QED BY <1>3, <1>4, <1>12 DEF Dies

LEMMA ReapedInv == ASSUME ArcInv, NEW a \in ArcActors, Reaped(a) PROVE ArcInv'
<1>1. /\ dp' = [dp EXCEPT ![a] = <<>>] /\ win' = [win EXCEPT ![a] = {}]
      /\ alive' = alive \ {a} /\ a \in alive /\ cnt' = cnt /\ box' = box
      /\ sl' = UnpinEntry(Teardown(Unpacked(UnholdAll(sl, dp[a]), a), a), ent[a])
      /\ snd' = IF Packed(a) = {} THEN snd ELSE [snd EXCEPT ![a] = <<>>]
  BY DEF Reaped, Packed
<1>2. /\ ArcTypes /\ Living /\ dp \in [ArcActors -> Seq(Slabs)] /\ win \in [ArcActors -> SUBSET Slabs]
      /\ root \in [Roots -> SlabMaybe] /\ ent \in [ArcActors -> SlabMaybe] /\ mslab \in [ArcActors -> SlabMaybe]
      /\ snd \in [ArcActors -> Sends] /\ alive \subseteq ArcActors /\ NoOne \notin ArcActors
  BY Parts, SlTypes, ActTypes, ArcAssumption
<1>3. Dies(a) /\ Leaves(a) /\ ClosesAll(a)
  BY ReapedDies DEF Dies, Leaves
<1>4. /\ mslab' \in [ArcActors -> SlabMaybe] /\ ent' \in [ArcActors -> SlabMaybe]
      /\ \A b \in ArcActors : mslab'[b] = IF b = a THEN NoSlab ELSE mslab[b]
      /\ \A b \in ArcActors : ent'[b] = IF b = a THEN NoSlab ELSE ent[b]
  <2>1. PICK s \in Slabs : s = ent[a]
    BY <1>1, <1>2 DEF Living, SlabMaybe
  <2> QED BY <1>3, LeftSets
<1>5. /\ root' \in [Roots -> SlabMaybe] /\ has' \in Counts
      /\ \A n \in Roots : root'[n] = IF n \in Locals(a) \cup Packed(a) THEN NoSlab ELSE root[n]
      /\ \A b \in ArcActors, n \in Roots :
           has'[b][n] = IF b = a /\ n \in Locals(a) \cup Packed(a) THEN 0 ELSE has[b][n]
      /\ \A n \in Roots \ (Locals(a) \cup Packed(a)) : Refs(has, n)' = Refs(has, n)
  <2>1. PICK M : M = Locals(a) \cup Packed(a)
    OBVIOUS
  <2>2. M \in SUBSET Roots /\ (\A n \in M : cnt[n] = 0) /\ cnt' = cnt /\ Forget(a, M)
    BY <1>3, <2>1, Lost
  <2>3. /\ root' \in [Roots -> SlabMaybe] /\ has' \in Counts
        /\ \A n \in Roots : root'[n] = IF n \in M THEN NoSlab ELSE root[n]
        /\ \A b \in ArcActors, n \in Roots : has'[b][n] = IF b = a /\ n \in M THEN 0 ELSE has[b][n]
        /\ \A n \in Roots \ M : Refs(has, n)' = Refs(has, n)
    BY <2>2, Forgotten
  <2> QED BY <2>1, <2>3
<1>6. /\ snd' \in [ArcActors -> Sends] /\ (\A b \in ArcActors : b # a => snd'[b] = snd[b])
      /\ snd'[a] = IF Packed(a) = {} THEN snd[a] ELSE <<>>
  BY <1>1, <1>2 DEF Sends
<1>7. /\ \A t \in Slabs : Header(t)' /\ sl'[t] \in SlabRec
      /\ \A t \in Slabs : sl'[t].owner = IF sl[t].owner = a THEN NoOne ELSE sl[t].owner
      /\ \A t \in Slabs : Ownerless(t) => Uncounted(t)' = Uncounted(t) \ Packed(a)
  BY <1>2, <1>3, DeadOwned, DeadOwnerless DEF Ownerless
<1>8. \A n : Refs(box, n)' = Refs(box, n)
  BY <1>1 DEF Refs
<1>9. ASSUME NEW n \in Roots, n \in Locals(a) PROVE Reference(n)'
  <2>1. /\ cnt[n] = 0 /\ Refs(box, n) = {} /\ Senders(n) = {}
        /\ \A b \in ArcActors : b # a => has[b][n] = 0
    BY <1>9, LocalGone
  <2>2. Senders(n)' = {}
    <3>1. <<n>> # <<>>
      OBVIOUS
    <3> QED BY <1>6, <2>1, <3>1 DEF Senders
  <2>3. /\ root'[n] = NoSlab /\ cnt'[n] = 0 /\ Refs(box, n)' = {}
        /\ \A b \in ArcActors : has'[b][n] = 0
    BY <1>1, <1>5, <1>8, <1>9, <2>1
  <2> QED BY <2>2, <2>3, GoneReference
<1>10. ASSUME NEW n \in Roots, n \in Packed(a) PROVE Reference(n)'
  <2>1. cnt[n] = 0
    BY <1>3, <1>10 DEF Leaves, Packed
  <2>2. /\ snd[a] = <<n>> /\ Senders(n) = {a} /\ Refs(box, n) = {}
        /\ \A b \in ArcActors : has[b][n] = 0
    BY <1>10, <2>1, PackedGone
  <2>3. Senders(n)' = {}
    <3>1. <<n>> # <<>> /\ snd'[a] = <<>>
      BY <1>6, <1>10
    <3> QED BY <1>6, <2>2, <3>1 DEF Senders
  <2>4. /\ root'[n] = NoSlab /\ cnt'[n] = 0 /\ Refs(box, n)' = {}
        /\ \A b \in ArcActors : has'[b][n] = 0
    BY <1>1, <1>5, <1>8, <1>10, <2>1, <2>2
  <2> QED BY <2>3, <2>4, GoneReference
<1>11. ASSUME NEW n \in Roots, n \notin Locals(a), n \notin Packed(a) PROVE Reference(n)'
  <2>1. Senders(n)' = Senders(n)
    <3>1. CASE Packed(a) = {}
      BY <1>1, <3>1 DEF Senders
    <3>2. CASE Packed(a) # {}
      <4>1. PICK m \in Roots : m \in Packed(a) /\ snd[a] = <<m>> /\ m # n
        BY <1>11, <3>2 DEF Packed
      <4>2. <<m>> # <<n>> /\ <<n>> # <<>>
        BY <4>1
      <4> QED BY <1>6, <3>2, <4>1, <4>2 DEF Senders
    <3> QED BY <3>1, <3>2
  <2>2. Still(n)
    BY <1>5, <1>8, <1>11, <2>1 DEF Still
  <2>3. root'[n] = root[n] /\ cnt'[n] = cnt[n]
    BY <1>1, <1>5, <1>11
  <2>4. ASSUME root[n] # NoSlab, cnt[n] = 0
        PROVE  /\ sl'[root[n]].owner = sl[root[n]].owner
               /\ \A b \in Senders(n) : b \in alive /\ mslab[b] = root[n] => b \in alive' /\ mslab'[b] = root[n]
               /\ Ownerless(root[n]) /\ HoldsOf(root[n]) = 0 /\ EscapedOf(root[n]) = 0 /\ Uncounted(root[n]) = {n} =>
                    HoldsOf(root[n])' = 0 /\ EscapedOf(root[n])' = 0 /\ Uncounted(root[n])' = {n}
    <3>1. PICK t \in Slabs : t = root[n]
      BY <1>2, <2>4 DEF SlabMaybe
    <3>2. sl[t].owner # a
      BY <1>11, <2>4, <3>1 DEF Locals
    <3>3. \A b \in Senders(n) : mslab[b] = root[n] => b # a
      BY <1>11 DEF Senders, Packed
    <3>4. \A b \in Senders(n) : b \in alive /\ mslab[b] = root[n] => b \in alive' /\ mslab'[b] = root[n]
      BY <1>1, <1>4, <3>3 DEF Senders
    <3>5. ASSUME Ownerless(t), HoldsOf(t) = 0, EscapedOf(t) = 0, Uncounted(t) = {n}
          PROVE  HoldsOf(t)' = 0 /\ EscapedOf(t)' = 0 /\ Uncounted(t)' = {n}
      <4>1. HoldsOf(t)' = 0
        BY <1>3, <3>5, LeftHolds
      <4>2. EscapedOf(t)' = 0
        BY <1>3, <3>5, LeftEscaped
      <4>3. Uncounted(t)' = {n}
        BY <1>7, <1>11, <3>5
      <4> QED BY <4>1, <4>2, <4>3
    <3> QED BY <1>7, <2>3, <3>1, <3>2, <3>4, <3>5
  <2>5. At(n)
    BY <2>3, <2>4 DEF At
  <2> QED BY <2>2, <2>5, KeptAt
<1>12. /\ win' \in [ArcActors -> SUBSET Slabs]
       /\ \A b \in ArcActors : win'[b] = IF b = a THEN {} ELSE win[b]
  BY <1>1, <1>2
<1>13. Living'
  <2>1. \A b \in ArcActors : ent[b] # NoSlab => ent[b] \in Slabs /\ sl[ent[b]].owner = NoOne
    BY <1>2 DEF SlabMaybe, Living, Ownerless
  <2>2. \A b \in ArcActors : ent'[b] # NoSlab => sl'[ent'[b]].owner = NoOne
    BY <1>2, <1>4, <1>7, <2>1
  <2>3. \A b \in ArcActors : \A t \in win'[b] : Entries(dp'[b], t) # {}
    BY <1>2, <1>3, <1>12, ClosedWindows
  <2>4. \A t \in Slabs : sl'[t].owner # NoOne => sl'[t].owner \in alive'
    BY <1>1, <1>2, <1>7 DEF Living, Ownerless
  <2>5. \A b \in ArcActors : ent'[b] = NoSlab <=> b \notin alive'
    BY <1>1, <1>2, <1>4 DEF Living
  <2> QED BY <2>2, <2>3, <2>4, <2>5 DEF Living, Ownerless
<1>14. ArcTypes'
  <2>1. sl' \in [Slabs -> SlabRec]
    <3>1. sl' = [t \in Slabs |-> sl'[t]]
      <4>1. PICK U : U = Unpacked(UnholdAll(sl, dp[a]), a)
        OBVIOUS
      <4>2. PICK T : T = Teardown(U, a)
        OBVIOUS
      <4>3. T = [t \in Slabs |-> T[t]]
        BY ONLY <4>2 DEF Teardown
      <4>4. PICK y : sl' = [T EXCEPT ![ent[a]] = y]
        BY <1>1, <4>1, <4>2 DEF UnpinEntry
      <4> QED BY ONLY <4>3, <4>4
    <3> QED BY <1>7, <3>1
  <2>2. RootTypes'
    BY <1>1, <1>2, <1>5, <2>1 DEF ArcTypes, RootTypes
  <2>3. alive' \subseteq ArcActors /\ dp' \in [ArcActors -> Seq(Slabs)]
    BY <1>1, <1>2, <1>3 DEF ClosesAll
  <2> QED BY <1>4, <1>6, <1>12, <2>2, <2>3 DEF ArcTypes, ActorTypes
<1> QED BY <1>7, <1>9, <1>10, <1>11, <1>13, <1>14, InvTogether

----------------------------------------------------------------------------
LEMMA ArcInitInv == AInit => ArcInv
<1> SUFFICES ASSUME AInit PROVE ArcInv
  OBVIOUS
<1>1. PICK first \in Slabs :
        /\ sl = [s \in Slabs |-> IF s # first THEN AtHome ELSE
                   [kind |-> "msg", owner |-> NoOne, hp |-> SlabCap,
                    escaped |-> Cardinality(ArcActors), holds |-> 0]]
        /\ ent = [a \in ArcActors |-> first]
  <2>1. \E s \in Slabs : TRUE
    BY ArcAssumption
  <2> QED BY <2>1 DEF AInit
<1>2. /\ root = [m \in Roots |-> NoSlab] /\ cnt = Nothing
      /\ has = [a \in ArcActors |-> Nothing] /\ box = [a \in ArcActors |-> Nothing]
      /\ snd = [a \in ArcActors |-> <<>>] /\ mslab = [a \in ArcActors |-> NoSlab]
      /\ dp = [a \in ArcActors |-> <<>>] /\ win = [a \in ArcActors |-> {}]
      /\ alive = ArcActors
  BY DEF AInit
<1>3. PICK n : n = Cardinality(ArcActors)
  OBVIOUS
<1>4. n \in Nat /\ n # 0 /\ NoSlab \notin Slabs /\ NoOne \notin ArcActors /\ SlabCap \in Nat
  BY <1>3, ArcAssumption, FS_CardinalityType, FS_EmptySet
<1>5. PICK y : y = [kind |-> "msg", owner |-> NoOne, hp |-> SlabCap, escaped |-> n, holds |-> 0]
  OBVIOUS
<1>6. /\ y \in SlabRec /\ y.kind = "msg" /\ y.owner = NoOne /\ y.escaped = n /\ y.holds = 0
  BY <1>4, <1>5 DEF SlabRec, Kinds
<1>7. sl = [s \in Slabs |-> IF s # first THEN AtHome ELSE y]
  BY <1>1, <1>3, <1>5
<1>8. sl \in [Slabs -> SlabRec] /\ sl[first] = y /\ \A s \in Slabs : s # first => sl[s] = AtHome
  BY <1>6, <1>7, HomeHeader
<1>9. ArcTypes
  <2>1. Nothing \in [Roots -> Nat]
    BY DEF Nothing
  <2>2. RootTypes
    BY <1>2, <1>8, <2>1 DEF RootTypes, Counts, SlabMaybe
  <2>3. ActorTypes
    BY <1>1, <1>2 DEF ActorTypes, Sends, SlabMaybe
  <2> QED BY <2>2, <2>3 DEF ArcTypes
<1>10. ASSUME NEW s \in Slabs
       PROVE  /\ Windows(s) = {} /\ Packers(s) = {} /\ Counted(s) = {} /\ Uncounted(s) = {}
              /\ Closures(s) = IF s = first THEN ArcActors ELSE {}
  <2>1. Windows(s) = {}
    BY <1>2 DEF Windows, Entry, Entries
  <2> QED BY <1>1, <1>2, <1>4, <2>1 DEF Packers, Counted, Uncounted, Closures
<1>11. ASSUME NEW s \in Slabs PROVE Header(s)
  <2>1. HoldsOf(s) = 0 /\ EscapedOf(s) = (IF s = first THEN n ELSE 0)
    BY <1>3, <1>4, <1>10, FS_EmptySet DEF HoldsOf, EscapedOf
  <2>2. Fits(sl[s], HoldsOf(s), EscapedOf(s), Uncounted(s))
    <3>1. CASE s = first
      BY <1>4, <1>6, <1>8, <2>1, <3>1 DEF Fits
    <3>2. CASE s # first
      BY <1>8, <1>10, <2>1, <3>2, HomeHeader
    <3> QED BY <3>1, <3>2
  <2> QED BY <1>10, <2>2, FS_EmptySet DEF Header
<1>12. ASSUME NEW m \in Roots PROVE Reference(m)
  <2>1. Refs(has, m) = {} /\ Refs(box, m) = {}
    BY <1>2 DEF Refs, Entry, Nothing
  <2>2. Senders(m) = {}
    BY <1>2 DEF Senders
  <2>3. Total(m) = 0 /\ cnt[m] = 0 /\ root[m] = NoSlab
    <3>1. Cardinality({}) = 0
      BY FS_EmptySet
    <3>2. Total(m) = 0
      BY <2>1, <2>2, <3>1 DEF Total
    <3> QED BY <1>2, <3>2 DEF Nothing
  <2> QED BY <2>1, <2>3, FS_EmptySet DEF Reference
<1>13. Living
  <2>1. \A s \in Slabs : sl[s].owner = NoOne
    BY <1>6, <1>8, HomeHeader
  <2> QED BY <1>1, <1>2, <1>4, <2>1 DEF Living, Ownerless
<1> QED BY <1>9, <1>11, <1>12, <1>13 DEF ArcInv, Headers, References

LEMMA ArcStutterInv == ASSUME ArcInv, UNCHANGED avars PROVE ArcInv'
<1>1. /\ UNCHANGED <<sl, root, cnt, has, box>> /\ UNCHANGED <<snd, mslab, dp, ent, alive, win>>
  BY DEF avars
<1>2. ArcTypes' /\ Living'
  BY <1>1 DEF ArcInv, ArcTypes, RootTypes, ActorTypes, Living, Ownerless
<1>3. \A s : /\ Windows(s)' = Windows(s) /\ Packers(s)' = Packers(s) /\ Closures(s)' = Closures(s)
             /\ Counted(s)' = Counted(s) /\ Uncounted(s)' = Uncounted(s)
  BY <1>1 DEF Windows, Packers, Closures, Counted, Uncounted
<1>4. \A s \in Slabs : Header(s)'
  BY <1>1, <1>3, Parts, HeaderStays
<1>5. ASSUME NEW n \in Roots PROVE Reference(n)'
  <2>1. Still(n)
    BY <1>1 DEF Still, Refs, Senders
  <2>2. \A s : HoldsOf(s)' = HoldsOf(s) /\ EscapedOf(s)' = EscapedOf(s)
    BY <1>3 DEF HoldsOf, EscapedOf
  <2>3. At(n)
    BY <1>1, <1>3, <2>2 DEF At
  <2> QED BY <2>1, <2>3, KeptAt
<1> QED BY <1>2, <1>4, <1>5, InvTogether

LEMMA ArcStepInv == ASSUME ArcInv, MaxDrops <= DPN, [ANext]_avars PROVE ArcInv'
<1>1. CASE UNCHANGED avars
  BY <1>1, ArcStutterInv
<1>2. CASE ANext
  <2>1. PICK a \in ArcActors :
          \/ MsgCopy(a) \/ SendCount(a) \/ SendPush(a) \/ SendLinear(a) \/ SendArc(a)
          \/ ArcReceive(a) \/ Drop(a) \/ PoolAlloc(a) \/ PoolReset(a) \/ Reaped(a)
    BY <1>2 DEF ANext
  <2> QED BY <2>1, MsgCopyInv, SendCountInv, SendPushInv, SendLinearInv, SendArcInv,
             ArcReceiveInv, DropInv, PoolAllocInv, PoolResetInv, ReapedInv
<1> QED BY <1>1, <1>2

(* A slab is home exactly when its header has neither owner, hold nor escaped *)
(* object, and nobody packs a copy into it.                                   *)
LEMMA InUseOrHome == ASSUME ArcInv, NEW s \in Slabs PROVE sl[s].kind = "home" <=> ~InUse(s)
<1>1. /\ Header(s) /\ Living /\ sl \in [Slabs -> SlabRec] /\ alive \subseteq ArcActors /\ NoOne \notin ArcActors
      /\ dp \in [ArcActors -> Seq(Slabs)]
  BY Parts, SlTypes, ActTypes, ArcAssumption
<1>2. ASSUME sl[s].kind = "home" PROVE ~InUse(s)
  <2>1. /\ sl[s].owner = NoOne /\ Windows(s) = {}
        /\ \A m \in Roots : root[m] # s
        /\ \A a \in ArcActors : mslab[a] # s /\ ent[a] # s
    BY <1>1, <1>2, HomeIsNobodys
  <2>2. \A a \in ArcActors : Entries(dp[a], s) = {}
    <3> SUFFICES ASSUME NEW a \in ArcActors, NEW i \in Entries(dp[a], s) PROVE FALSE
      OBVIOUS
    <3>1. dp[a] \in Seq(Slabs)
      BY <1>1
    <3>2. i \in Nat \ {0}
      BY <3>1, EntriesOf
    <3>3. <<a, i>> \in Windows(s)
      BY <3>2 DEF Windows, Entry
    <3> QED BY <2>1, <3>3
  <2>3. \A a \in ArcActors : s \notin win[a]
    BY <1>1, <2>2 DEF Living
  <2>4. sl[s].owner \notin alive
    BY <1>1, <2>1
  <2> QED BY <2>1, <2>2, <2>3, <2>4 DEF InUse
<1>3. ASSUME sl[s].kind # "home" PROVE InUse(s)
  <2>1. CASE sl[s].owner # NoOne
    BY <1>1, <2>1 DEF Living, Ownerless, InUse
  <2>2. CASE sl[s].owner = NoOne
    <3>1. HoldsOf(s) # 0 \/ EscapedOf(s) # 0 \/ Uncounted(s) # {}
      BY <1>1, <1>3, <2>2 DEF Header, Fits
    <3>2. CASE HoldsOf(s) # 0
      <4>1. Packers(s) # {} \/ Windows(s) # {}
        BY <1>1, <3>2, CountsOf
      <4> QED BY <4>1 DEF Packers, Windows, Entry, InUse
    <3>3. CASE EscapedOf(s) # 0
      <4>1. Closures(s) # {} \/ Counted(s) # {}
        BY <1>1, <3>3, CountsOf
      <4> QED BY <4>1 DEF Closures, Counted, InUse
    <3>4. CASE Uncounted(s) # {}
      BY <3>4 DEF Uncounted, InUse
    <3> QED BY <3>1, <3>2, <3>3, <3>4
  <2> QED BY <2>1, <2>2
<1> QED BY <1>2, <1>3

(* HomeWhenUnused: a slab of the runtime goes back to the buddy exactly when *)
(* its owner, the packing sender, every holder of a counted root, every      *)
(* child's closure and every borrow window is gone.                          *)
THEOREM SlabsGoHome == ASSUME MaxDrops <= DPN PROVE ASpec => []HomeWhenUnused
<1>1. ArcInv /\ [ANext]_avars => ArcInv'
  BY ArcStepInv
<1>2. ArcInv => HomeWhenUnused
  BY InUseOrHome DEF HomeWhenUnused
<1> QED BY ArcInitInv, <1>1, <1>2, PTL DEF ASpec
=============================================================================
