-------------------------------- MODULE Vec --------------------------------
(***************************************************************************)
(* The linear SoA vector of hal/core/vec.c.  A vector is one to eight      *)
(* columns, each one span of machine words; a word of a raw column is an   *)
(* untagged Int, of a float column the bits as they are, of a boxed column *)
(* a value.  Every operation uses its operands up: it writes into the      *)
(* columns it was given and frees those it does not hand back.  A row is a *)
(* sequence of tagged words, one per column; `ref' is the reference: what  *)
(* each handle should read as, computed on rows alone.  A panic stops the  *)
(* image and is a missing step.                                            *)
(***************************************************************************)
EXTENDS Integers, Sequences, FiniteSets, TLC, SequencesExt

CONSTANTS
  Handles,   \* the program's linear variables
  NoVec, ColIds,
  VL_B0,     \* words in a column's first allocation (16)
  MaxLen,    \* BOUND: rows in a vector
  MaxOps,    \* BOUND: operations in a run
  VRows,     \* the rows a program pushes
  Specs      \* the layouts it declares: sequences of "i", "d", "b"

VARIABLES vec, heap, ref, ops
vvars == <<vec, heap, ref, ops>>

IsInt(w) == w % 2 = 1
TagInt(n) == 2 * n + 1
Untag(w) == w \div 2
Junk == 0   \* what a span holds before it is written

VInit == /\ vec = [h \in Handles |-> NoVec] /\ heap = <<>>
         /\ ref = [h \in Handles |-> NoVec] /\ ops = 0

----------------------------------------------------------------------------
(* Columns: col_new, col_grow with fpr_realloc, col_copy *)
Words(n) == [j \in 1 .. n |-> Junk]
FreeCols(hp) == LET free == ColIds \ DOMAIN hp IN <<Min(free), Min(free \ {Min(free)})>>
WithCols(hp, ids) == hp @@ [c \in {ids[k] : k \in DOMAIN ids} |->
                              [cap |-> 0, base |-> <<>>]]
Ncap(c) == IF c.cap = 0 THEN VL_B0 ELSE 2 * c.cap
GrownFresh(c) == [cap |-> Ncap(c), base |-> Words(Ncap(c))]   \* mutant: no copy
GrownCol(c) ==
  [cap |-> Ncap(c), base |-> c.base \o Words(Ncap(c) - c.cap)]
Doubled[c \in [cap : Nat, base : Seq(Nat)], n \in Nat] ==
  IF c.cap >= n THEN c ELSE Doubled[GrownCol(c), n]
DupCol(c, len) ==   \* the copied words, in a span of the next power
  Doubled[[cap |-> 0, base |-> <<>>], len].cap
CopyCol(c, len) ==
  LET n == IF len = 0 THEN 0 ELSE DupCol(c, len)
  IN [cap |-> n, base |-> SubSeq(c.base, 1, len) \o Words(n - len)]

----------------------------------------------------------------------------
(* Layouts.  An accumulator [x, hp] is a vector and the heap it lives in.  *)
ColsOf(x) == {x.cols[k] : k \in DOMAIN x.cols}
Vector(rep, raw, flt, hp) ==
  LET ids == SubSeq(FreeCols(hp), 1, Len(raw)) IN
  [x |-> [rep |-> rep, raw |-> raw, flt |-> flt, cols |-> ids, len |-> 0],
   hp |-> WithCols(hp, ids)]
NewVec(hp) == Vector("unset", <<>>, <<>>, hp)
NewLike(x, hp) == Vector(x.rep, x.raw, x.flt, hp)
(* fix_layout: from the first pushed row *)
FixLayout(hp, r) ==
  Vector(IF Len(r) > 1 THEN "soa" ELSE IF IsInt(r[1]) THEN "int" ELSE "box",
         [k \in DOMAIN r |-> IsInt(r[k])], [k \in DOMAIN r |-> FALSE], hp)
(* newAs: as declared *)
Declared(s, hp) ==
  Vector(IF Len(s) > 1 THEN "soa" ELSE CASE s[1] = "i" -> "int"
           [] s[1] = "d" -> "flt" [] s[1] = "b" -> "box",
         [k \in DOMAIN s |-> s[k] # "b"], [k \in DOMAIN s |-> s[k] = "d"], hp)

(* put_cell and get_cell *)
Untagged(x, k) == x.raw[k] /\ ~x.flt[k]
Put(x, k, f) == IF Untagged(x, k) THEN Untag(f) ELSE f
GetFlt(x, hp, k, i) == LET w == hp[x.cols[k]].base[i] IN   \* mutant
                       IF x.raw[k] THEN TagInt(w) ELSE w
Get(x, hp, k, i) == LET w == hp[x.cols[k]].base[i] IN
                    IF Untagged(x, k) THEN TagInt(w) ELSE w
RowAt(x, hp, i) == [k \in DOMAIN x.cols |-> Get(x, hp, k, i)]
Fits(x, r) == Len(r) = Len(x.cols)
              /\ \A k \in DOMAIN r : Untagged(x, k) => IsInt(r[k])
PutRow(x, hp, i, r) == [c \in DOMAIN hp |->
  IF c \notin ColsOf(x) THEN hp[c]
  ELSE LET k == CHOOSE n \in DOMAIN x.cols : x.cols[n] = c
       IN [hp[c] EXCEPT !.base[i] = Put(x, k, r[k])]]

Laid(a, r) == IF a.x.rep = "unset" THEN FixLayout(a.hp, r) ELSE a
Pushable(a, r) == a.x.rep # "unset" => Fits(a.x, r)
Pushed(a, r) ==
  LET b == Laid(a, r)
      hp == [c \in DOMAIN b.hp |->
               IF c \in ColsOf(b.x) /\ b.hp[c].cap = b.x.len
               THEN GrownCol(b.hp[c]) ELSE b.hp[c]]
  IN [x |-> [b.x EXCEPT !.len = @ + 1], hp |-> PutRow(b.x, hp, b.x.len + 1, r)]
PushedAll(a, rs) == FoldLeft(Pushed, a, rs)
AllFit(a, rs) == \A i \in DOMAIN rs : Fits(Laid(a, rs[1]).x, rs[i])
RowsOf(x, hp) == [i \in 1 .. x.len |-> RowAt(x, hp, i)]
FreedIn(hp, x) == [c \in DOMAIN hp \ ColsOf(x) |-> hp[c]]   \* vfree

----------------------------------------------------------------------------
(* The operations *)
Has(h) == vec[h] # NoVec
Takes(h, a, rs) == /\ vec' = [vec EXCEPT ![h] = a.x] /\ heap' = a.hp
                   /\ ref' = [ref EXCEPT ![h] = rs]
TakesTwo(h, a, rs, g, y, qs) ==   \* a.hp holds both
  /\ vec' = [vec EXCEPT ![h] = a.x, ![g] = y] /\ heap' = a.hp
  /\ ref' = [ref EXCEPT ![h] = rs, ![g] = qs]
Empty(x, hp) == IF \E k \in DOMAIN x.flt : x.flt[k] THEN NewLike(x, hp)
                ELSE NewVec(hp)

VecNew(h) == ~Has(h) /\ \E a \in {NewVec(heap)} \cup {Declared(s, heap) : s \in Specs} :
               Takes(h, a, <<>>)
VecRange(h, lo, n) ==
  LET a == FixLayout(heap, <<TagInt(lo)>>)
      id == a.x.cols[1]
      c == Doubled[a.hp[id], n]
  IN /\ ~Has(h) /\ n \in 1 .. MaxLen
     /\ Takes(h, [x |-> [a.x EXCEPT !.len = n],
                  hp |-> [a.hp EXCEPT ![id] = [c EXCEPT !.base =
                    [j \in DOMAIN c.base |-> IF j <= n THEN lo + j - 1 ELSE @[j]]]]],
              [i \in 1 .. n |-> <<TagInt(lo + i - 1)>>])
Acc(h) == [x |-> vec[h], hp |-> heap]
VecPush(h, r) ==
  /\ Has(h) /\ vec[h].len < MaxLen /\ Pushable(Acc(h), r)
  /\ Takes(h, Pushed(Acc(h), r), Append(ref[h], r))
VecSet(h, i, r) ==
  /\ Has(h) /\ i \in 1 .. vec[h].len /\ Fits(vec[h], r)
  /\ Takes(h, [x |-> vec[h], hp |-> PutRow(vec[h], heap, i, r)],
           [ref[h] EXCEPT ![i] = r])
(* map: into a new vector, declared like a float source; filter: in place *)
MapRow(r) == <<r[1]>>   \* one element function for all
VecMap(h) ==
  LET x == vec[h]
      rs == [i \in 1 .. x.len |-> MapRow(RowAt(x, heap, i))]
      a == Empty(x, heap)
  IN /\ Has(h) /\ AllFit(a, rs)
     /\ LET b == PushedAll(a, rs) IN
        Takes(h, [b EXCEPT !.hp = FreedIn(@, x)],
              [i \in DOMAIN ref[h] |-> MapRow(ref[h][i])])
Kept(x, hp, drop) == SelectSeq([i \in 1 .. x.len |-> i],
                               LAMBDA i : RowAt(x, hp, i) # drop)
VecFilter(h, drop) ==
  LET x == vec[h]
      at == Kept(x, heap, drop)
  IN /\ Has(h)
     /\ Takes(h, [x |-> [x EXCEPT !.len = Len(at)],
                  hp |-> [c \in DOMAIN heap |-> IF c \notin ColsOf(x) THEN heap[c]
                    ELSE [heap[c] EXCEPT !.base = [j \in DOMAIN @ |->
                      IF j <= Len(at) THEN @[at[j]] ELSE @[j]]]]],
              SelectSeq(ref[h], LAMBDA r : r # drop))
VecSplit(h, g, n) ==
  LET x == vec[h]
      rs == RowsOf(x, heap)
      lo == PushedAll(Empty(x, heap), SubSeq(rs, 1, n))
      hi == PushedAll(Empty(x, lo.hp), SubSeq(rs, n + 1, x.len))
  IN /\ Has(h) /\ ~Has(g) /\ n \in 0 .. x.len
     /\ AllFit(Empty(x, heap), SubSeq(rs, 1, n))
     /\ AllFit(Empty(x, heap), SubSeq(rs, n + 1, x.len))
     /\ TakesTwo(h, [x |-> lo.x, hp |-> FreedIn(hi.hp, x)], SubSeq(ref[h], 1, n),
                 g, hi.x, SubSeq(ref[h], n + 1, x.len))
VecDup(h, g) ==
  LET x == vec[h]
      a == NewLike(x, heap)
      hp == [c \in DOMAIN a.hp |-> IF c \notin ColsOf(a.x) THEN a.hp[c]
              ELSE LET k == CHOOSE n \in DOMAIN a.x.cols : a.x.cols[n] = c
                   IN CopyCol(heap[x.cols[k]], x.len)]
  IN /\ Has(h) /\ ~Has(g)
     /\ TakesTwo(g, [x |-> [a.x EXCEPT !.len = x.len], hp |-> hp], ref[h],
                 h, x, ref[h])
VecFree(h) == /\ Has(h) /\ heap' = FreedIn(heap, vec[h])   \* free, toList
              /\ vec' = [vec EXCEPT ![h] = NoVec]
              /\ ref' = [ref EXCEPT ![h] = NoVec]

----------------------------------------------------------------------------
(* The numeric tier: Int columns, word by word.  vnum lets an empty vector *)
(* of any layout pass.                                                     *)
Num(h) == Has(h) /\ vec[h].rep = "int"
Raw(h) == SubSeq(heap[vec[h].cols[1]].base, 1, vec[h].len)
Written(h, ws) == [heap EXCEPT ![vec[h].cols[1]].base =
                     ws \o SubSeq(@, Len(ws) + 1, Len(@))]
Ints(ws) == [i \in DOMAIN ws |-> <<TagInt(ws[i])>>]
RefInts(h) == [i \in DOMAIN ref[h] |-> Untag(ref[h][i][1])]
VecLane(h, f) ==   \* axpb, sar, minS, maxS, ges, eqS, absv
  LET over(ws) == [i \in DOMAIN ws |-> f[ws[i]]] IN
  /\ Num(h) /\ Takes(h, [x |-> vec[h], hp |-> Written(h, over(Raw(h)))],
                     Ints(over(RefInts(h))))
KeepsOperand(d, hp, rs, gone) ==   \* mutant: the operand is not freed
  /\ heap' = hp
  /\ vec' = [h \in Handles |-> IF h \in gone THEN NoVec ELSE vec[h]]
  /\ ref' = [h \in Handles |-> IF h \in gone THEN NoVec
                               ELSE IF h = d THEN rs ELSE ref[h]]
Consumes(d, hp, rs, gone) ==
  /\ heap' = [c \in DOMAIN hp \ UNION {ColsOf(vec[g]) : g \in gone} |-> hp[c]]
  /\ vec' = [h \in Handles |-> IF h \in gone THEN NoVec ELSE vec[h]]
  /\ ref' = [h \in Handles |-> IF h \in gone THEN NoVec
                               ELSE IF h = d THEN rs ELSE ref[h]]
Both(h, g) == Num(h) /\ Num(g) /\ h # g
VecZip(d, s, f) ==   \* zipAdd, zipMul, zipMin, zipLt, zipDiv, zipSub, ...
  LET over(p, q) == [i \in DOMAIN p |-> f[<<p[i], q[i]>>]] IN
  /\ Both(d, s) /\ vec[d].len = vec[s].len
  /\ Consumes(d, Written(d, over(Raw(d), Raw(s))),
              Ints(over(RefInts(d), RefInts(s))), {s})
VecGather(x, s) ==
  LET over(ix, p) == [i \in DOMAIN ix |->
                        IF ix[i] < Len(p) THEN p[ix[i] + 1] ELSE 0]
  IN /\ Both(x, s)
     /\ Takes(x, [x |-> vec[x], hp |-> Written(x, over(Raw(x), Raw(s)))],
              Ints(over(RefInts(x), RefInts(s))))
VecBlend(m, s, d) ==
  LET over(b, q, p) == [i \in DOMAIN p |-> IF b[i] # 0 THEN q[i] ELSE p[i]] IN
  /\ Both(m, s) /\ Both(m, d) /\ Both(s, d)
  /\ vec[m].len = vec[d].len /\ vec[s].len = vec[d].len
  /\ Consumes(d, Written(d, over(Raw(m), Raw(s), Raw(d))),
              Ints(over(RefInts(m), RefInts(s), RefInts(d))), {m, s})
VecSlice(h, g, off, n) ==
  LET a == PushedAll(NewVec(heap), Ints(SubSeq(Raw(h), off + 1, off + n))) IN
  /\ Num(h) /\ ~Has(g) /\ off + n <= vec[h].len
  /\ TakesTwo(g, a, SubSeq(ref[h], off + 1, off + n), h, vec[h], ref[h])
VecBurst(d, s, off) ==
  LET over(p, q) == SubSeq(p, 1, off) \o q \o SubSeq(p, off + Len(q) + 1, Len(p))
  IN /\ Both(d, s) /\ off + vec[s].len <= vec[d].len
     /\ Consumes(d, Written(d, over(Raw(d), Raw(s))),
                 over(ref[d], ref[s]), {s})

Nums == 0 .. 2
VNext == ops < MaxOps /\ ops' = ops + 1 /\ \E h, g \in Handles :
  \/ VecNew(h) \/ VecFree(h) \/ VecDup(h, g)
  \/ \E r \in VRows : VecPush(h, r)
  \/ \E i \in 1 .. MaxLen : \E r \in VRows : VecSet(h, i, r)
  \/ VecRange(h, 1, 2)
  \/ VecMap(h)
  \/ \E r \in VRows : VecFilter(h, r)
  \/ \E n \in 0 .. MaxLen : VecSplit(h, g, n) \/ VecSlice(h, g, n, 1)
                            \/ VecBurst(h, g, n)
  \/ VecLane(h, [w \in Nums |-> 2 - w])
  \/ VecZip(h, g, [p \in Nums \X Nums |-> IF p[1] < p[2] THEN 1 ELSE 0])
  \/ VecGather(h, g) \/ \E d \in Handles : VecBlend(h, g, d)
VSpec == VInit /\ [][VNext]_vvars

----------------------------------------------------------------------------
(* After any sequence of operations every vector reads, cell by cell, as   *)
(* the rows the same operations give on plain sequences: tags come back,   *)
(* float bits are left alone, a growth loses nothing, and an operation on  *)
(* one vector never shows in another.                                      *)
ReadsBack == \A h \in Handles : Has(h) =>
               RowsOf(vec[h], heap) = ref[h]

(* Every column belongs to exactly one vector ("ONE owner, real copies"),  *)
(* and what an operation uses up it frees: none is left without an owner.  *)
OneOwner ==
  /\ \A c \in DOMAIN heap : \E h \in Handles : Has(h) /\ c \in ColsOf(vec[h])
  /\ \A h, g \in Handles : Has(h) /\ Has(g) /\ h # g
                           => ColsOf(vec[h]) \cap ColsOf(vec[g]) = {}
=============================================================================
