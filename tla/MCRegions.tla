---------------------------- MODULE MCRegions -----------------------------
(***************************************************************************)
(* Small functions for TLC: two values are made, two instructions mix      *)
(* them, one uses the result, and the function returns, on one path early. *)
(***************************************************************************)
EXTENDS Regions

CONSTANTS p, q, n,   \* parameters: a pointer, an object passed by value, a size
          g          \* a global

I(op, args) == [op |-> op, args |-> args]

\* Position by position.
Made1  == {I("alloca", <<>>), I("malloc", <<Null>>), I("malloc", <<n>>), I("strerror", <<>>),
           I("mmap", <<>>), I("extern", <<>>), I("setjmp", <<p>>), I("strdup", <<p>>),
           I("load", <<g>>), I("load", <<Null>>)}
Made2  == {I("malloc", <<Null>>), I("call", <<1>>), I("realloc", <<1, n>>), I("load", <<p>>),
           I("alloca", <<>>)}
Mixed3 == {I("gep", <<1>>), I("gep", <<q>>), I("phi", <<1, 2>>), I("phi", <<2, p>>),
           I("store", <<1, q>>), I("memcpy", <<1, 2>>), I("memcpy", <<q, 1>>)}
Mixed4 == {I("gep", <<2>>), I("load", <<2>>), I("call", <<n, 2>>), I("ret", <<1>>),
           I("store", <<2, 1>>)}

\* With globals among the bases, and objects passed to a function without a body.
Global1 == {I("load", <<g>>), I("alloca", <<>>), I("malloc", <<Null>>)}
Global2 == {I("malloc", <<Null>>), I("load", <<p>>), I("extern", <<1>>)}
Global3 == {I("gep", <<g>>), I("phi", <<2, g>>), I("phi", <<g, g>>)}

Used5  == {I("load", <<4>>), I("store", <<Null, 3>>), I("store", <<1, 2>>), I("free", <<1>>),
           I("realloc", <<p, 2>>)}

\* What one more visit of the function adds to X, and five of them.
Visit(code, X) ==
  X \cup UNION {LET ins == code[k]
                    tied == IF ins.op \in Access \cup Derived \cup {"alloca", "ret"}
                            THEN (Args(ins) \cup {k}) \ {Null}
                            ELSE IF ins.op = "memcpy" THEN Args(ins) ELSE {}
                IN IF tied \cap X = {} THEN {} ELSE tied : k \in DOMAIN code}

Closure(code, S) ==
  LET visits[i \in 0..5] == IF i = 0 THEN S ELSE UNION {Visit(code, X) : X \in {visits[i - 1]}}
  IN visits[5]

Codes(first, second, third) ==
  {c \in {<<x, y, z, u, v, I("ret", <<2>>)>> :
             x \in first, y \in second, z \in third, u \in Mixed4, v \in Used5}
    : WellFormed([code |-> c, ints |-> {n}])}

Analysed ==
  ({{}, {1}, {2}, {n}, {p}, {q}, {1, n}, {g}, {p, g}} \X {"both"})
    \cup ({{}, {1}} \X {"integrity", "confidentiality"})

Functions ==
  {x \in {[code |-> c, byval |-> {q}, ints |-> {n}, mode |-> a[2], sens |-> Closure(c, a[1])] :
            c \in Codes(Made1, Made2, Mixed3) \cup Codes(Global1, Global2, Global3),
            a \in Analysed}
    : ClosedSet(x)}
==========================================================================
