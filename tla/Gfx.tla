-------------------------------- MODULE Gfx --------------------------------
(***************************************************************************)
(* The renderer of hal/unix/gfx.c, called by one graphics actor: the mesh  *)
(* table, statics compiled once per list, dynamics staged per frame, one   *)
(* opaque draw per mesh, then every translucent instance and the text      *)
(* sorted together; and the 2D layer as a second pass.                     *)
(*                                                                         *)
(* An entity is [what, z, solid]: a mesh's name, "text" (one glyph) or     *)
(* "clip"; the depth in view (of a clip: the rectangle, 0 clears it); and  *)
(* whether alpha is 1.                                                     *)
(***************************************************************************)
EXTENDS Integers, Sequences, FiniteSets, SequencesExt, TLC

CONSTANTS
  Builtin, Registered,      \* mesh names: known to gfx_mesh, given to glMesh
  StaticLists, FrameLists,  \* what the app draws: sequences of entities
  Addrs, NilAddr,           \* where a statics list can be; the static Nil
  MaxMeshes, MaxInst, MaxText,
  Slack,                    \* 1024: what titems grows by
  Retains,  \* BOUND: the app keeps the statics list it passed last
  Steady,   \* BOUND: a mesh drawn opaque once is in every later list
  Careful   \* BOUND: a mesh that has statics is not registered again

Names == Builtin \cup Registered
GfxSizes ==
  /\ Names \cap {"text", "clip"} = {} /\ NilAddr \notin Addrs
  /\ {MaxMeshes, MaxInst, MaxText, Slack} \subseteq Nat

VARIABLES
  G,        \* the static struct: what outlives a call
  heap,     \* the statics lists the app holds, by address
  asked,    \* history: the lists of the last frame
  drawn     \* history: what its passes drew
gfxvars == <<G, heap, asked, drawn>>

NoClip == 0
Fresh ==
  [tab |-> <<>>, statics |-> [m \in Names |-> <<>>], stage |-> [m \in Names |-> <<>>],
   nopaque |-> [m \in Names |-> 0], text |-> <<>>, clip |-> NoClip, titemCap |-> 0,
   compiled |-> FALSE, last |-> NilAddr, panic |-> FALSE, overrun |-> FALSE]
NoFrame == [statics |-> <<>>, passes |-> <<>>]
GfxInit ==
  /\ G = Fresh /\ heap = NilAddr :> <<>>
  /\ asked = NoFrame /\ drawn = NoFrame

----------------------------------------------------------------------------
(* The scene walker. *)
Panic(g) == [g EXCEPT !.panic = TRUE]
mesh_slot(g, m) ==
  IF Len(g.tab) = MaxMeshes THEN Panic(g)
  ELSE [g EXCEPT !.tab = Append(@, m), !.statics[m] = <<>>, !.stage[m] = <<>>, !.nopaque[m] = 0]
gfx_mesh(g, m) ==
  IF m \in ToSet(g.tab) THEN g ELSE IF m \in Builtin THEN mesh_slot(g, m) ELSE Panic(g)
Stage(g, e) ==
  IF Len(g.stage[e.what]) = MaxInst THEN Panic(g)
  ELSE [g EXCEPT !.stage[e.what] = Append(@, e @@ [clip |-> g.clip])]
stage_text(g, e) ==
  IF Len(g.text) = MaxText THEN Panic(g)
  ELSE [g EXCEPT !.text = Append(@, e @@ [clip |-> g.clip])]
walk_entity(g, e) ==
  IF g.panic THEN g
  ELSE CASE e.what = "clip" -> [g EXCEPT !.clip = e.z]
         [] e.what = "text" -> stage_text(g, e)
         [] OTHER -> LET h == gfx_mesh(g, e.what) IN IF h.panic THEN h ELSE Stage(h, e)
stage_clear(g) == [g EXCEPT !.stage = [m \in Names |-> <<>>], !.text = <<>>]
(* mutant: the rectangle of the list before is still in force *)
AnyClip(g) == g
clip_reset(g) == [g EXCEPT !.clip = NoClip]
walk_list(g, s) == FoldLeft(walk_entity, g, s)

(* Statics are compiled once per value, and a value is known by its address. *)
(* mutant: what is not in the new list keeps its buffer *)
LeaveStatics(g, a) == IF g.compiled /\ g.last # a THEN [g EXCEPT !.compiled = FALSE] ELSE g
DropStatics(g, a) ==
  IF g.compiled /\ g.last # a
  THEN [g EXCEPT !.statics = [m \in Names |-> <<>>], !.compiled = FALSE] ELSE g
CompileStatics(g, a) ==
  IF g.compiled THEN g
  ELSE LET w == walk_list(clip_reset(stage_clear(g)), heap[a]) IN
       [w EXCEPT !.statics = [m \in Names |-> IF w.stage[m] # <<>> THEN w.stage[m] ELSE @[m]],
                 !.compiled = TRUE, !.last = a]

----------------------------------------------------------------------------
(* Opaque instances are swapped to the front, the rest left for the pass    *)
(* that sorts.                                                              *)
Swapped(s, i, j) == [s EXCEPT ![i] = s[j], ![j] = s[i]]
Partition(s) ==
  FoldLeft(LAMBDA p, i : IF p.s[i].solid THEN [s |-> Swapped(p.s, i, p.n + 1), n |-> p.n + 1] ELSE p,
           [s |-> s, n |-> 0], [i \in DOMAIN s |-> i])
draw_opaque_dyn(g, m) ==
  IF g.stage[m] = <<>> THEN g
  ELSE LET p == Partition(g.stage[m]) IN [g EXCEPT !.stage[m] = p.s, !.nopaque[m] = p.n]
DrawOpaque(g) == FoldLeft(draw_opaque_dyn, g, g.tab)
Solids(g) ==
  FlattenSeq([i \in DOMAIN g.tab |-> LET m == g.tab[i] IN
                IF g.stage[m] = <<>> THEN <<>> ELSE SubSeq(g.stage[m], 1, g.nopaque[m])])

(* draw_translucent: the room is counted as nstage - nopaque over all       *)
(* meshes; then what there is, is laid out.  Equal depths: qsort's order.   *)
Veiled(g, m) == SubSeq(g.stage[m], g.nopaque[m] + 1, Len(g.stage[m]))
Total(g) == FoldLeft(LAMBDA t, m : t + Len(g.stage[m]) - g.nopaque[m], Len(g.text), g.tab)
Titems(g) == FlattenSeq([i \in DOMAIN g.tab |-> Veiled(g, g.tab[i])]) \o g.text
(* mutant: nearest first *)
NearFirst(a, b) == a.z > b.z
FarFirst(a, b) == a.z < b.z
Sorted(g) == IF Total(g) = 0 THEN <<>> ELSE SortSeq(Titems(g), FarFirst)
Room(g) ==
  LET cap == IF Total(g) > g.titemCap THEN Total(g) + Slack ELSE g.titemCap
  IN [g EXCEPT !.titemCap = cap, !.overrun = @ \/ (Total(g) # 0 /\ Len(Titems(g)) > cap)]

(* Dynamics are a list, or packed: n opaque cubes read from a vector. *)
Frames == [packed : {FALSE}, list : FrameLists]
          \cup [packed : {TRUE}, list : {s \in FrameLists : \A i \in DOMAIN s :
                                           s[i].what = "cube" /\ s[i].solid}]
Packed(g, s) ==
  LET h == gfx_mesh(g, "cube") IN
  IF h.panic \/ Len(s) > MaxInst THEN Panic(h)
  ELSE [h EXCEPT !.stage["cube"] = [i \in DOMAIN s |-> s[i] @@ [clip |-> NoClip]]]
Staged(g, d) ==
  IF d.packed THEN clip_reset(Packed(stage_clear(g), d.list))
  ELSE walk_list(clip_reset(stage_clear(g)), d.list)
Pass(g, d) == LET w == Staged(g, d) IN IF g.panic \/ w.panic THEN Panic(w) ELSE Room(DrawOpaque(w))
Picture(g) == [solid |-> Solids(g), veil |-> Sorted(g)]

Compiled(a) == CompileStatics(DropStatics(G, a), a)
Goes(g, d) ==
  Steady => \A m \in Names : g.nopaque[m] > 0 => \E i \in DOMAIN d.list : d.list[i].what = m
Shown(g, lists, a, pictures) ==
  /\ G' = g
  /\ IF g.panic THEN UNCHANGED <<asked, drawn>>
     ELSE /\ asked' = [statics |-> heap[a], passes |-> lists]
          /\ drawn' = [statics |-> FlattenSeq([i \in DOMAIN g.tab |-> g.statics[g.tab[i]]]),
                       passes |-> pictures]
gfx_render_scene(a, d) ==
  LET g == Pass(Compiled(a), d) IN
  /\ ~G.panic /\ a \in DOMAIN heap /\ Goes(Compiled(a), d)
  /\ Shown(g, <<d.list>>, a, <<Picture(g)>>)
  /\ UNCHANGED heap
(* The 2D layer: a second pass in front of the first. *)
gfx_render_overlay(a, d, ui) ==
  LET g == Pass(Compiled(a), d)
      h == Pass(g, [packed |-> FALSE, list |-> ui]) IN
  /\ ~G.panic /\ a \in DOMAIN heap /\ Goes(Compiled(a), d) /\ Goes(g, [list |-> ui])
  /\ Shown(h, <<d.list, ui>>, a, <<Picture(g), Picture(h)>>)
  /\ UNCHANGED heap
(* glMesh: a name's geometry is put in or replaced. *)
gfx_mesh_load(m) ==
  /\ ~G.panic /\ (Careful => G.statics[m] = <<>>)
  /\ G' = IF m \in ToSet(G.tab)
          THEN [G EXCEPT !.statics[m] = <<>>, !.stage[m] = <<>>,
                         !.compiled = @ /\ G.statics[m] = <<>>]
          ELSE mesh_slot(G, m)
  /\ UNCHANGED <<heap, asked, drawn>>

(* The app's lists. *)
BuildStatics(a, s) == /\ ~G.panic /\ a \notin DOMAIN heap /\ heap' = heap @@ (a :> s)
                      /\ UNCHANGED <<G, asked, drawn>>
DropList(a) == /\ ~G.panic /\ a \in DOMAIN heap /\ (Retains => a # G.last)
               /\ heap' = [x \in DOMAIN heap \ {a} |-> heap[x]] /\ UNCHANGED <<G, asked, drawn>>
GfxNext ==
  \/ \E a \in Addrs \cup {NilAddr}, d \in Frames : gfx_render_scene(a, d)
  \/ \E a \in Addrs \cup {NilAddr}, d \in Frames, ui \in FrameLists : gfx_render_overlay(a, d, ui)
  \/ \E m \in Registered : gfx_mesh_load(m)
  \/ \E a \in Addrs, s \in StaticLists : BuildStatics(a, s)
  \/ \E a \in Addrs : DropList(a)

----------------------------------------------------------------------------
Times(s, x) == Cardinality({i \in DOMAIN s : s[i] = x})
SameItems(s, t) == Len(s) = Len(t) /\ \A x \in ToSet(s) : Times(s, x) = Times(t, x)
(* What a list shows: each entity with the rectangle of the clip before it. *)
Shows(s) ==
  LET Clips(i) == {j \in 1..i - 1 : s[j].what = "clip"}
      Rect(i) == IF Clips(i) = {} THEN NoClip ELSE s[CHOOSE j \in Clips(i) : \A k \in Clips(i) : k <= j].z
      all == [i \in DOMAIN s |-> s[i] @@ [clip |-> Rect(i)]]
  IN SelectSeq(all, LAMBDA e : e.what # "clip")
Solid(e) == e.what # "text" /\ e.solid
(* A frame is its scene: the statics of the list it was given and no other, *)
(* each dynamic entity once, under its clip, and what can be seen through   *)
(* from far to near; whatever was drawn, registered or freed before         *)
(* ("both come out right whatever mesh they use"; lastStatics).             *)
FrameTrue ==
  /\ SameItems(drawn.statics, Shows(asked.statics))
  /\ \A k \in DOMAIN drawn.passes :
       LET seen == drawn.passes[k]  all == Shows(asked.passes[k]) IN
       /\ SameItems(seen.solid, SelectSeq(all, Solid))
       /\ SameItems(seen.veil, SelectSeq(all, LAMBDA e : ~Solid(e)))
       /\ \A i, j \in DOMAIN seen.veil : i < j => seen.veil[i].z <= seen.veil[j].z
  /\ ~G.overrun
=============================================================================
