---------------------------- MODULE FloatUnboxing ----------------------------
(***************************************************************************)
(* The representation pass of the compiler (optimize.rs): a forward walk   *)
(* over the lowered body of a function proves which let bindings are       *)
(* double floats and gives those an unboxed slot.  The module runs the     *)
(* pass on small bodies and calls both versions: what a function returns   *)
(* must not depend on whether the pass has run.                            *)
(*                                                                         *)
(* A body is a tree.  Its operations are those the pass tells apart:       *)
(*   float, const, param        leaves; n is the number, if there is one   *)
(*   local                      a Word local, n its index from outside in  *)
(*   read, store                an unboxed local, n its slot               *)
(*   arith                      + or * or -, here addition                 *)
(*   if, progn, call            call stands for every other node           *)
(*   let                        the kids are the inits and then the body   *)
(***************************************************************************)
EXTENDS Naturals, Sequences, SequencesExt

CONSTANTS
  Bodies,    \* lowered function bodies, as lower.rs makes them
  Args       \* the arguments they are called with

VARIABLES
  body,      \* the body as it was lowered
  code,      \* the body the code generator gets
  arg,       \* the argument of the call under way
  outcome    \* what the call returned

vars == <<body, code, arg, outcome>>

None == <<>>
Some(s) == <<s>>
Node(op, n, kids) == [op |-> op, n |-> n, kids |-> kids]
Leaf(op, n) == Node(op, n, <<>>)
Store(s, e) == Node("store", s, <<e>>)
-----------------------------------------------------------------------------
(* The pass.  A context is the abstract type of each local in scope, the slot
   it was promoted to or None, and the next free slot. *)
RECURSIVE SlotCount(_)
SlotCount(e) ==
  LET here == IF e.op \in {"read", "store"} THEN e.n + 1 ELSE 0
  IN  Max({here} \cup {SlotCount(e.kids[k]) : k \in DOMAIN e.kids})

Promoted(s, cx) == [env   |-> Append(cx.env, "float"),
                    promo |-> Append(cx.promo, Some(s)), next |-> s + 1]
Bound(type, cx) == [cx EXCEPT !.env = Append(@, type), !.promo = Append(@, None)]
Truncate(cx, base) ==
  [cx EXCEPT !.env = SubSeq(@, 1, base), !.promo = SubSeq(@, 1, base)]

(* The rewritten tree, the type proved of it, and the context after it. *)
RECURSIVE Walk(_, _)

(* The kids of a node, walked in order. *)
WalkKids(kids, cx) ==
  FoldLeft(LAMBDA done, e :
             LET w == Walk(e, done.cx)
             IN  [kids |-> Append(done.kids, w.expr),
                  types |-> Append(done.types, w.type), cx |-> w.cx],
           [kids |-> <<>>, types |-> <<>>, cx |-> cx], kids)

(* The inits of a let: one proved float becomes a store to a new slot. *)
WalkInits(inits, cx) ==
  FoldLeft(LAMBDA done, e :
             LET w == Walk(e, done.cx)
             IN  IF w.type = "float"
                   THEN [kids |-> Append(done.kids, Store(w.cx.next, w.expr)),
                         cx |-> Promoted(w.cx.next, w.cx)]
                   ELSE [kids |-> Append(done.kids, w.expr), cx |-> Bound(w.type, w.cx)],
           [kids |-> <<>>, cx |-> cx], inits)

WalkLet(e, cx) ==
  LET inits == WalkInits(Front(e.kids), cx)
      w == Walk(Last(e.kids), inits.cx)
  IN  [type |-> w.type, expr |-> Node("let", 0, Append(inits.kids, w.expr)),
       cx |-> Truncate(w.cx, Len(cx.env))]

(* What the types of its kids prove of a node; arith is contagion. *)
Proved(op, types) ==
  LET float == CASE op \in {"float", "read"} -> TRUE
                 [] op = "arith" -> \E k \in DOMAIN types : types[k] = "float"
                 [] op = "if"    -> types[2] = "float" /\ types[3] = "float"
                 [] op = "progn" -> types[Len(types)] = "float"
                 [] OTHER        -> FALSE
  IN  IF float THEN "float" ELSE "other"

Walk(e, cx) ==
  CASE e.op = "let" -> WalkLet(e, cx)
    [] e.op = "local" /\ cx.promo[e.n + 1] # None ->
         [type |-> "float", expr |-> Leaf("read", cx.promo[e.n + 1][1]), cx |-> cx]
    [] e.op = "local" /\ cx.promo[e.n + 1] = None ->
         [type |-> cx.env[e.n + 1], expr |-> e, cx |-> cx]
    [] OTHER -> LET w == WalkKids(e.kids, cx)
                IN  [type |-> Proved(e.op, w.types),
                     expr |-> [e EXCEPT !.kids = w.kids], cx |-> w.cx]

InferFloatUnboxing(e) ==
  Walk(e, [env |-> <<>>, promo |-> <<>>, next |-> SlotCount(e)]).expr
-----------------------------------------------------------------------------
(* What the generated code computes.  A value is its kind and a number; an error
   is a pending condition, which the caller sees instead of the value. *)
Value(kind, n) == [kind |-> kind, n |-> n]
Nil == Value("other", 0)
Contagion(j, k) ==
  CHOOSE kind \in {j, k} : \/ kind = "complex"
                           \/ kind = "float" /\ "complex" \notin {j, k}
                           \/ {j, k} = {"fixnum"}

(* ncl_add_complex, down to ncl_add_float and the integers *)
Plus(v, w, st) ==
  IF "other" \in {v.kind, w.kind}
    THEN [st EXCEPT !.val = Nil, !.error = TRUE]
    ELSE [st EXCEPT !.val = Value(Contagion(v.kind, w.kind), v.n + w.n)]

(* coerce_to_f64: a real becomes a float, anything else is an error and a NaN. *)
ToF64(st) ==
  [st EXCEPT !.val = Value("float", IF @.kind \in {"fixnum", "float"} THEN @.n ELSE 0),
             !.error = @ \/ st.val.kind \in {"complex", "other"}]

SetSlot(s, st) == [st EXCEPT !.slots = [k \in DOMAIN @ \cup {s} |->
                                          IF k = s THEN st.val ELSE @[k]]]

(* st: the Word locals in scope, the unboxed slots, the last value, an error. *)
RECURSIVE Eval(_, _, _)
Eval(e, x, st) ==
  CASE e.op = "float" -> [st EXCEPT !.val = Value("float", e.n)]
    [] e.op = "const" -> [st EXCEPT !.val = Value("fixnum", e.n)]
    [] e.op = "param" -> [st EXCEPT !.val = x]
    [] e.op = "local" -> [st EXCEPT !.val = st.locals[e.n + 1]]
    [] e.op = "read"  -> [st EXCEPT !.val = st.slots[e.n]]
    [] e.op = "store" -> SetSlot(e.n, ToF64(Eval(e.kids[1], x, st)))
    [] e.op = "arith" -> LET a == Eval(e.kids[1], x, st)
                             b == Eval(e.kids[2], x, a)
                         IN  Plus(a.val, b.val, b)
    [] e.op = "if"    -> LET c == Eval(e.kids[1], x, st)
                         IN  Eval(e.kids[IF c.val # Nil THEN 2 ELSE 3], x, c)
    [] e.op = "call"  -> [Eval(e.kids[1], x, st) EXCEPT !.val = Nil]
    [] e.op = "progn" -> FoldLeft(LAMBDA s, k : Eval(k, x, s), st, e.kids)
    [] e.op = "let"   ->
         LET bound == FoldLeft(
               LAMBDA s, k :
                 LET r == Eval(k, x, s)
                 IN  [r EXCEPT !.locals = Append(@, IF k.op = "store" THEN Nil ELSE r.val)],
               st, Front(e.kids))
         IN  [Eval(Last(e.kids), x, bound) EXCEPT !.locals = st.locals]

Run(e, x) ==
  LET st == Eval(e, x, [locals |-> <<>>, slots |-> <<>>, val |-> Nil, error |-> FALSE])
  IN  IF st.error THEN Value("condition", 0) ELSE st.val
-----------------------------------------------------------------------------
Init ==
  /\ body \in Bodies
  /\ code = body
  /\ arg \in Args
  /\ outcome = Run(body, arg)

Infer ==
  /\ code = body
  /\ code' = InferFloatUnboxing(body)
  /\ outcome' = Run(code', arg)
  /\ UNCHANGED <<body, arg>>

Call ==
  /\ arg' \in Args
  /\ outcome' = Run(code, arg')
  /\ UNCHANGED <<body, code>>

Next == Infer \/ Call

Spec == Init /\ [][Next]_vars
-----------------------------------------------------------------------------
(***************************************************************************)
(* optimize.rs, of contagion: "if either operand is a float and the result *)
(* is returned at all, it is a float", so that "promotion is correct in    *)
(* any context": a call returns the same with and without the pass.  A     *)
(* float plus a complex number is a complex number.                        *)
(***************************************************************************)
PromotionPreservesValue == outcome = Run(body, arg)
=============================================================================
