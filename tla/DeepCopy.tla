------------------------------ MODULE DeepCopy ------------------------------
(***************************************************************************)
(* What send and keep do to the values of hal/core/runtime.c: dc_size and  *)
(* dc_dup put the whole message into one slab, kp_dup retains it in the    *)
(* receiver's own pool, dc_release returns what a dropped root owned       *)
(* outside its slab.  A value is an address of a cell, or 0: an Int, a     *)
(* static, an actor's immortal handle.  A cell is a constructor, a list    *)
(* cell or heap nil, a closure, bytes, or a vector of boxed values whose   *)
(* one column lives at the address `base' (0: empty).                      *)
(* RECURSIVE operators: this module is for TLC.                            *)
(***************************************************************************)
EXTENDS Integers, Sequences, FiniteSets, TLC, SequencesExt

CONSTANTS
  Addrs,      \* addresses: 1 .. n
  SlabRoom,   \* words in a message slab
  HeapNil,    \* the program builds lists in C (Vec.toList, Sys.actLive)
  MaxCells,   \* BOUND: cells in the sender's pool when it builds another
  MaxMsgs     \* BOUND: messages sent

VARIABLES mem, msg, mine, hung, sent, pool
dvars == <<mem, msg, mine, hung, sent, pool>>
(* mem: [address -> cell]; msg: the received root, or 0; mine: the values  *)
(* the receiver keeps; hung: send never answers; pool: where the sender    *)
(* allocates.  Owners of a cell: the sender's pool "S" or its arena "A",   *)
(* the receiver's pool "R", the message slab "M", an arena's transfer "T". *)

Cell(tag, own, f) == [tag |-> tag, own |-> own, f |-> f, base |-> 0]
(* Words a copy takes: dc_cellsz of the cell, and of a vector's column     *)
(* header and its span.                                                    *)
CellWords(c) == 1 + (IF c.tag = "vec" THEN 1 + Len(c.f) ELSE Len(c.f))
Sum(s) == FoldLeft(LAMBDA a, b : a + b, 0, s)

RECURSIVE DcSize(_, _), DcDup(_, _, _), DcRelease(_, _), NilEnds(_, _)
(* dc_size, without the one value it never returns from *)
DcSizeShallow(m, v) == IF v = 0 THEN 0 ELSE CellWords(m[v])   \* mutant
DcSize(m, v) == IF v = 0 THEN 0
                ELSE CellWords(m[v])
                     + Sum([k \in DOMAIN m[v].f |-> DcSize(m, m[v].f[k])])
(* dc_size's T_LIST case walks the spine and then asks again about its     *)
(* end: a nil in the heap is its own end.  (has_vec does the same.)        *)
NilEnds(m, v) == v # 0 /\ (m[v].tag = "nil"
                   \/ \E k \in DOMAIN m[v].f : NilEnds(m, m[v].f[k]))

(* dc_dup / kp_dup: a is [m, v, n]: the memory, the copy, words written.   *)
Free(m) == Addrs \ DOMAIN m
LowestOf(S) == CHOOSE a \in S : \A b \in S : a <= b
Put(m, c) == [m |-> LowestOf(Free(m)) :> c @@ m, v |-> LowestOf(Free(m)),
              n |-> CellWords(c)]
DupShared(m, fs, own) == [m |-> m, f |-> fs, n |-> 0]   \* mutant: root only
DupFields(m, fs, own) ==
  FoldLeft(LAMBDA a, f : LET d == DcDup(a.m, f, own)
             IN [m |-> d.m, f |-> Append(a.f, d.v), n |-> a.n + d.n],
           [m |-> m, f |-> <<>>, n |-> 0], fs)
DupSpan(m, c, own) ==   \* a vector's words get a span of their own
  IF c.tag = "vec" /\ c.f # <<>> THEN Put(m, Cell("span", own, <<>>))
  ELSE [m |-> m, v |-> 0, n |-> 0]
DcDup(m, v, own) ==
  IF v = 0 THEN [m |-> m, v |-> 0, n |-> 0]
  ELSE LET fs == DupFields(m, m[v].f, own)
           sp == DupSpan(fs.m, m[v], own)
           c == [Cell(m[v].tag, own, fs.f) EXCEPT !.base = sp.v]
           p == Put(sp.m, c)
       IN [m |-> p.m, v |-> p.v, n |-> p.n + fs.n]
Room(m, v) == DcSize(m, v) * 2 <= Cardinality(Free(m))   \* BOUND: addresses

(* dc_release: the columns a receiver's vector regrew.  fpr_vec_release    *)
(* does not look at the boxed elements; their cells are not its to free.   *)
Without(m, S) == [a \in DOMAIN m \ S |-> m[a]]
DcReleaseNone(m, v) == m   \* mutant
DcRelease(m, v) ==
  IF v = 0 THEN m
  ELSE IF m[v].tag = "vec"
       THEN IF m[v].base # 0 /\ m[m[v].base].own = "R"
            THEN Without(m, {m[v].base}) ELSE m
       ELSE FoldLeft(DcRelease, m, m[v].f)

----------------------------------------------------------------------------
RECURSIVE Reach(_, _)
Reach(m, v) == IF v = 0 THEN {} ELSE
  {v} \cup (IF m[v].base = 0 THEN {} ELSE {m[v].base})
      \cup UNION {Reach(m, m[v].f[k]) : k \in DOMAIN m[v].f}
Owned(own) == {a \in DOMAIN mem : mem[a].own = own}
Locals == Owned("S") \cup Owned("A")
(* Vectors inside vectors are barred: `Vector 1' is linear. *)
HasVec(m, v) == \E a \in Reach(m, v) : m[a].tag = "vec"

DInit == mem = <<>> /\ msg = 0 /\ mine = 0 /\ hung = FALSE /\ sent = 0
         /\ pool = "S"

(* con stands for every tag whose fields are values: tuples, records, list *)
(* cells, closures; the tags differ in where their fields start.           *)
Tags == {<<"con", 2>>, <<"str", 0>>, <<"vec", 1>>}
        \cup (IF HeapNil THEN {<<"nil", 0>>} ELSE {})
Builds == /\ ~hung /\ sent < MaxMsgs /\ Cardinality(Locals) < MaxCells
          /\ \E t \in Tags : \E f \in [1 .. t[2] -> Locals \cup {0}] :
               /\ t[1] = "vec" => ~HasVec(mem, f[1])
               /\ t[1] # "vec" => \A k \in DOMAIN f : f[k] # 0 => mem[f[k]].tag # "span"
               /\ LET sp == DupSpan(mem, Cell(t[1], pool, f), pool) IN
                  mem' = Put(sp.m, [Cell(t[1], pool, f) EXCEPT !.base = sp.v]).m
          /\ UNCHANGED <<msg, mine, hung, sent, pool>>
(* msg_copy_in into the (fresh) message slab *)
Sends == /\ ~hung /\ msg = 0 /\ sent < MaxMsgs
         /\ \E v \in Locals :
              /\ mem[v].tag # "span" /\ Room(mem, v)
              /\ IF NilEnds(mem, v)
                 THEN hung' = TRUE /\ UNCHANGED <<mem, msg, sent>>
                 ELSE LET d == DcDup(mem, v, "M") IN
                      /\ DcSize(mem, v) <= SlabRoom
                      /\ mem' = d.m /\ msg' = d.v /\ sent' = sent + 1
                      /\ UNCHANGED hung
         /\ UNCHANGED <<mine, pool>>
(* poolReset, or the sender's death *)
SenderResets == /\ mem' = Without(mem, Owned("S")) /\ Owned("S") # {} /\ pool = "S"
                /\ UNCHANGED <<msg, mine, hung, sent, pool>>
(* Vec.push on a received vector: fpr_realloc frees nothing in a slab and  *)
(* takes the new span from the receiver's pool.                            *)
Grows == /\ \E a \in Reach(mem, msg) :
              /\ mem[a].tag = "vec" /\ mem[a].base # 0 /\ Free(mem) # {}
              /\ mem[mem[a].base].own = "M"
              /\ LET p == Put(mem, Cell("span", "R", <<>>)) IN
                 mem' = [p.m EXCEPT ![a].base = p.v]
         /\ UNCHANGED <<msg, mine, hung, sent, pool>>
Keeps == /\ msg # 0 /\ mine = 0 /\ Room(mem, msg)
         /\ LET d == DcDup(mem, msg, "R") IN mem' = d.m /\ mine' = d.v
         /\ UNCHANGED <<msg, hung, sent, pool>>
(* the last decref of the root: dc_release, then the slab goes home *)
Drops == /\ msg # 0
         /\ LET m == DcRelease(mem, msg) IN
            mem' = Without(m, {a \in DOMAIN m : m[a].own = "M"})
         /\ msg' = 0 /\ UNCHANGED <<mine, hung, sent, pool>>

(* Sys.arena: a fresh pool, the result copied out through a slab of its    *)
(* own, the pool torn down, the copy copied into the caller's pool.  A     *)
(* result with a vector in it is refused by a panic.                       *)
ArenaBegins == /\ ~hung /\ sent < MaxMsgs /\ pool = "S" /\ pool' = "A"
               /\ UNCHANGED <<mem, msg, mine, hung, sent>>
ArenaEnds == /\ ~hung /\ pool = "A"
             /\ \E r \in Locals \cup {0} :
                  /\ r # 0 => mem[r].tag # "span"
                  /\ ~HasVec(mem, r) /\ ~NilEnds(mem, r) /\ Room(mem, r)
                  /\ LET t == DcDup(mem, r, "T")
                         m == Without(t.m, Owned("A"))
                         out == DcDup(m, t.v, "S").m
                     IN mem' = Without(out, {a \in DOMAIN out : out[a].own = "T"})
             /\ pool' = "S" /\ UNCHANGED <<msg, mine, hung, sent>>

DNext == ArenaBegins \/ ArenaEnds \/ Builds \/ Sends \/ SenderResets \/ Grows \/ Keeps \/ Drops
DSpec == DInit /\ [][DNext]_dvars

----------------------------------------------------------------------------
(* What the receiver holds is its own: nothing it can reach lies in the    *)
(* sender's pool, kept values do not lie in the slab either, and whatever  *)
(* the receiver's pool still holds is reachable from what it keeps or from *)
(* the message: a dropped root leaves nothing behind.  No cell, whatever   *)
(* pool is torn down, points at one that is gone.                          *)
SelfContained ==
  /\ \A a \in DOMAIN mem : \A k \in DOMAIN mem[a].f : mem[a].f[k] \in DOMAIN mem \cup {0}
  /\ \A a \in Reach(mem, msg) : mem[a].own \in {"M", "R"}
  /\ \A a \in Reach(mem, mine) : mem[a].own = "R"
  /\ Owned("R") \subseteq Reach(mem, mine) \cup Reach(mem, msg)

(* dc_size is exact: the copy fills the words that were set aside for it,  *)
(* so no copy runs past its slab's end.                                    *)
FitsExactly == ~hung => \A v \in Locals :
  mem[v].tag # "span" /\ ~NilEnds(mem, v) /\ Room(mem, v)
    => DcDup(mem, v, "M").n = DcSize(mem, v)

(* Every send answers. *)
SendAnswers == ~hung
=============================================================================
