------------------------------- MODULE Values -------------------------------
(* Generic application and equality of values (runtime.c): fpr_applyN takes *)
(* a whole spine of arguments and must do what fpr_apply does one by one;   *)
(* == compares field by field what two heap cells hold.                     *)
EXTENDS Integers, Sequences, FiniteSets, SequencesExt

CONSTANTS
  Fns,            \* functions, by name
  Arity,          \* function -> parameters
  Body(_, _),     \* what a saturated call returns
  VEQ_MAX_DEPTH,
  ListLens,       \* BOUND: lengths of the lists compared
  SpineLens       \* BOUND: arguments of an application
ValueBounds == VEQ_MAX_DEPTH \in Nat /\ ListLens \cup SpineLens \subseteq Nat

VARIABLES
  call,    \* [f, args]: the application under way, and how much of it is left
  whole,   \* the application as it was written
  pair,    \* the two values == compares
  equal    \* its answer, once given
valvars == <<call, whole, pair, equal>>

Panic == [k |-> "panic"]
Num(n) == [k |-> "int", n |-> n]
Pap(f, args) == [k |-> "pap", fn |-> f, args |-> args]
(* fpr_apply: saturate, or one partial application with one argument more *)
Apply(f, a) ==
  CASE f.k # "pap" -> Panic
    [] f.k = "pap" /\ Len(f.args) + 1 = Arity[f.fn] -> Body(f.fn, Append(f.args, a))
    [] OTHER -> Pap(f.fn, Append(f.args, a))
Curried(f, args) == FoldLeft(LAMBDA g, a : IF g = Panic THEN g ELSE Apply(g, a), f, args)

(* fpr_applyN's loop: one partial application with everything so far, or a  *)
(* call and what is left over for its result.                               *)
NeedAll(f) == Arity[f.fn]
Need(f) == Arity[f.fn] - Len(f.args)
ApplyN ==
  LET f == call.f
      n == Len(call.args) IN
  /\ n > 0 /\ f # Panic
  /\ call' = IF f.k # "pap" THEN [f |-> Panic, args |-> <<>>]
             ELSE IF n < Need(f) THEN [f |-> Pap(f.fn, f.args \o call.args), args |-> <<>>]
             ELSE [f |-> Body(f.fn, f.args \o SubSeq(call.args, 1, Need(f))), args |-> SubSeq(call.args, Need(f) + 1, n)]
  /\ UNCHANGED <<whole, pair, equal>>

-----------------------------------------------------------------------------
(* A cell: tid and var, its fields, and whether it is in the heap, where the *)
(* allocation header tells how many words it has.  The rounding pad is zero. *)
Cell(tid, var, fs, heap) == [k |-> "cell", tid |-> tid, var |-> var, fs |-> fs, heap |-> heap]
Nil == Cell("LIST", 0, <<>>, FALSE)      \* CMk _ _ []: a static of its own
Tup2(a, b) == Cell("TUP2", 0, <<a, b>>, TRUE)
RECURSIVE ListOf(_)
ListOf(s) == IF s = <<>> THEN Nil ELSE Cell("LIST", 1, <<Head(s), ListOf(Tail(s))>>, TRUE)
NoPad == 0
Pad(n) == (n + 1) % 2                    \* header word and fields, rounded up to 16 bytes
Words(c) == c.fs \o [i \in 1 .. Pad(Len(c.fs)) |-> Num(0)]

(* veq_go.  Two cells that are one and the same are equal at once, which    *)
(* the walk would say as well.                                              *)
HeaderOnly(a, b, depth) == TRUE
RECURSIVE Fields(_, _, _)
Veq(a, b, depth) ==
  CASE a.k = "int" \/ b.k = "int" -> a = b
    [] a.k = "cell" /\ b.k = "cell" /\ <<a.tid, a.var>> # <<b.tid, b.var>> -> FALSE
    [] depth >= VEQ_MAX_DEPTH -> TRUE
    [] ~a.heap \/ ~b.heap -> TRUE
    [] OTHER -> Fields(a, b, depth)
Fields(a, b, depth) ==
  /\ Len(Words(a)) = Len(Words(b))
  /\ \A i \in DOMAIN Words(a) : Veq(Words(a)[i], Words(b)[i], depth + 1)
Compare == /\ equal = "unknown" /\ equal' = IF Veq(pair[1], pair[2], 0) THEN "yes" ELSE "no"
           /\ UNCHANGED <<call, whole, pair>>

Ints == {Num(n) : n \in 0 .. 1}
Lists == {ListOf(s) : s \in UNION {[1 .. n -> Ints] : n \in ListLens}}
Data == Ints \cup Lists \cup {Tup2(a, b) : a \in Ints, b \in Lists}
             \cup {Cell("VARIANT", v, <<a>>, TRUE) : v \in 0 .. 1, a \in Ints}
Spines == {Pap(f, <<>>) : f \in Fns} \X UNION {[1 .. n -> Ints] : n \in SpineLens}
None == <<Num(0), Num(0)>>
VInit == /\ \/ (\E s \in Spines : call = [f |-> s[1], args |-> s[2]]) /\ pair = None
            \/ call = [f |-> Num(0), args |-> <<>>] /\ pair \in Data \X Data
         /\ whole = call /\ equal = "unknown"
VNext == ApplyN \/ Compare
VSpec == VInit /\ [][VNext]_valvars
-----------------------------------------------------------------------------
(* Whatever the spine, fpr_applyN ends as applying one argument after the   *)
(* other would, the arguments left over going to the result (runtime.c:     *)
(* "under-saturation builds exactly ONE pap; over-saturation loops").       *)
SpineIsCurried == Curried(call.f, call.args) = Curried(whole.f, whole.args)
(* == is deep: it answers yes to the values that are equal and to no other  *)
(* (runtime.c: "DEEP over the fields of lists, tuples, constructors").      *)
EqIsDeep == equal # "unknown" => (equal = "yes") = (pair[1] = pair[2])
=============================================================================
