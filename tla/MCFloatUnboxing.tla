-------------------------- MODULE MCFloatUnboxing --------------------------
EXTENDS FloatUnboxing, TLC

(* Expressions over n locals, and one declared double-float in slot 0. *)
Atoms(n) == {Leaf("float", 1), Leaf("const", 2), Leaf("param", 0)}
            \cup {Leaf("local", i) : i \in 0 .. n - 1}
Simple(n) == Atoms(n)
             \cup {Node("arith", 0, <<a, b>>) : a, b \in Atoms(n)}
             \cup {Node("if", 0, <<Leaf("param", 0), a, b>>) : a, b \in Atoms(n)}
             \cup {Node("call", 0, <<a>>) : a \in Atoms(n)}
Let(inits, body_) == Node("let", 0, Append(inits, body_))
Declared(e) == Let(<<Store(0, Leaf("param", 0))>>, e)
ReadPlus(e) == Node("arith", 0, <<Leaf("read", 0), e>>)

(* One let; two bindings; two sibling lets that share an index; a let in the
   init of another; a promoted binding inside the scope of a declared one. *)
SmallBodies ==
  {Let(<<a>>, b) : a \in Simple(0), b \in Simple(1)}
  \cup {Let(<<a, b>>, Node("arith", 0, <<c, d>>)) :
          a, b \in Atoms(0) \cup {Node("arith", 0, <<u, v>>) : u, v \in Atoms(0)},
          c, d \in Atoms(2)}
  \cup {Node(op, 0, <<Let(<<a>>, c), Let(<<b>>, d)>>) :
          op \in {"arith", "progn"}, a, b \in Simple(0), c, d \in {Leaf("local", 0)}}
  \cup {Let(<<Let(<<a>>, b)>>, c) : a, c \in Atoms(1) \ {Leaf("local", 0)}, b \in Simple(1)}
  \cup {Let(<<Let(<<a>>, b), Let(<<c>>, Leaf("local", 1))>>,
            Node("arith", 0, <<Leaf("local", 0), Leaf("local", 1)>>)) :
          a, c \in Simple(0), b \in Atoms(1)}
  \cup {Declared(Let(<<a>>, Node("progn", 0, <<Store(0, c), ReadPlus(Leaf("local", 1))>>))) :
          a \in Atoms(0) \cup {ReadPlus(Leaf("const", 2)), Leaf("read", 0)},
          c \in Atoms(0)}

Reals == {Value("fixnum", 3), Value("float", 4)}
Numbers == Reals \cup {Value("complex", 5)}
=============================================================================
