---------------------------- MODULE MCMercySema ----------------------------
(***************************************************************************)
(* Instances of MercySema for TLC: translation units made of one or two    *)
(* fragments of a function f, a function g, a global initializer and       *)
(* main, and a list of small programs for the builtin functions.           *)
(***************************************************************************)
EXTENDS MercySema

Lit(t, v) == << [ op |-> "literal", type |-> t, value |-> v ] >>
One       == Lit(IntTy, << "int" >>)
Text      == Lit(StringTy, << "string" >>)
Type(t)   == Lit(MetaTy, TypeValue(t))
Id(x)     == << [ op |-> "identifier", id |-> x ] >>
Bin(kind, l, r) == l \o r \o << [ op |-> "binary", kind |-> kind ] >>
Not(e)    == e \o << [ op |-> "not" ] >>
At2(a, i) == a \o i \o << [ op |-> "subscript" ] >>
Builtin(f, args, n) == args \o << [ op |-> f, n |-> n ] >>
Conv(t, e)          == e \o << [ op |-> "cast", type |-> t, n |-> 1 ] >>
Call(f, args, n)    == args \o << [ op |-> "call", id |-> f, n |-> n ] >>

Let(x, e) == << [ op |-> "let", id |-> x ] >> \o e \o << [ op |-> "init", id |-> x ] >>
Return(e) == e \o << [ op |-> "return" ] >>
Do(e)     == e \o << [ op |-> "discard" ] >>
Def(f, params, body, domain) ==
  << [ op |-> "fragment", id |-> f, params |-> params, body |-> body, domain |-> domain ] >>

X     == Id("x")
XIs1  == Bin("compare", X, One)
FofX  == Call("f", X, 1)
LocalH(e) == Def("h", << "x" >>, Return(e), << >>) \o Return(Call("h", X, 1))

(* Bodies of f(x): constant, recursive, mutually recursive, with local     *)
(* functions, captured variables and errors of each kind.                  *)
Bodies ==
  { Return(One), Return(X), << >>,
    Do(FofX), Return(FofX), Return(Bin("arithmetic", X, FofX)),
    Return(Call("g", X, 1)),
    LocalH(X), LocalH(Bin("arithmetic", One, FofX)),
    Let("y", X) \o LocalH(Id("y")),
    Do(FofX) \o LocalH(One),
    Return(X) \o Return(XIs1),
    Let("x", One), Let("y", Id("y")) \o Return(Id("y")),
    Return(Call("f", Builtin("array", X, 1), 1)) }

(* A first fragment, then nothing or a second one.                         *)
Otherwise ==
  { Def("f", << "x" >>, b, << >>) :
      b \in { Return(One), Return(X), Do(FofX), LocalH(X), LocalH(One) } }
Second ==
  UNION { { << >> }, Otherwise,
          { Def("f", << "x", "y" >>, Return(One), << >>), Def("f", << >>, Return(One), << >>),
            Def("f", << "x", "x" >>, Return(One), << >>),
            Def("f", << "x" >>, Return(One), Call("f", X, 1)) } }

Others ==
  { Def("g", << "x" >>, Return(FofX), << >>),
    Def("g", << "x" >>, Return(X), XIs1) \o Def("g", << "x" >>, Return(X), << >>),
    Let("g", One) }

Globals == { << >>, Let("v", Call("f", One, 1)) }

Main(body) == Def("main", << >>, body, << >>)
Mains ==
  { Main(Do(Call("f", One, 1)) \o Do(Call("f", Conv(UintTy, One), 1)) \o Do(Call("f", One, 1))),
    Main(Do(Bin("arithmetic", Call("f", One, 1), Call("g", One, 1)))) }

FunctionsOn(domains, seconds) ==
  UNION { UNION { UNION { UNION { UNION {
    { Def("f", << "x" >>, b, d) \o gl \o s \o o \o m : m \in Mains } :
      o \in Others } : s \in seconds } : gl \in Globals } :
      b \in Bodies } : d \in domains }

(* Programs of one function for the builtin functions and operators.       *)
FT == Builtin("function_type", Type(IntTy) \o Type(IntTy), 2)
Ext(t) == Builtin("extern", Text \o t, 2)
Expressions ==
  { Conv(UintTy, One), Conv(VoidTy, One), Conv(UintTy, Text), Conv(IntTy, Builtin("array", One, 1)),
    Builtin("array", << >>, 0), Builtin("array", One \o Text, 2),
    At2(Builtin("array", One \o One, 2), One), At2(One, One), At2(Builtin("array", One, 1), Text),
    Builtin("alloca", Type(IntTy) \o One, 2), Builtin("alloca", Type(VoidTy) \o One, 2),
    Builtin("alloca", One \o One, 2), Builtin("alloca", One, 1), Builtin("alloca", FT \o One, 2),
    FT, Builtin("function_type", One, 1), Builtin("function_type", FT, 1),
    Builtin("function_type", << >>, 0), Builtin("function_type", Id("t"), 1),
    Ext(Type(IntTy)), Ext(FT), Ext(One), Ext(Id("t")), Builtin("extern", One \o One, 2),
    Builtin("extern", Text, 1),
    Ext(FT) \o << [ op |-> "callee", n |-> 0 ] >>, One \o Ext(FT) \o << [ op |-> "callee", n |-> 1 ] >>,
    One \o << [ op |-> "callee", n |-> 0 ] >>, Not(One) \o << [ op |-> "callee", n |-> 0 ] >>,
    Not(One), Not(Bin("compare", One, One)), Builtin("print", Text, 1),
    Bin("assign", One, One), Bin("assign", Id("t"), Type(IntTy)), Bin("assign", Id("v"), One),
    Bin("logical", One, One), Bin("logical", Bin("compare", One, One), Not(XIs1)),
    Bin("bit", One, One), Bin("bit", Conv(UintTy, One), Conv(UintTy, One)),
    Bin("arithmetic", Text, Text), Bin("arithmetic", FT, One), Bin("arithmetic", One, FT),
    Call("t", One, 1), Call("nowhere", One, 1), Id("nowhere"), Id("f"), Call("f", Id("f"), 1) }

Recursion ==
  { Def("f", << "x" >>, b, << >>) \o Main(Do(Call("f", << >>, 0)) \o Do(Call("main", << >>, 0))) :
      b \in Bodies }

Small ==
  UNION {
    { Let("t", Type(IntTy)) \o Let("v", One) \o Def("f", << "x" >>, Return(X), << >>)
        \o Main(Do(e)) : e \in Expressions },
    { Let("t", Type(IntTy)) \o Let("v", e) \o Main(Return(Id("v"))) : e \in Expressions },
    { << >>, Let("main", One), Def("main", << "x" >>, << >>, << >>),
      Def("f", << >>, Return(One), << >>)
        \o Main(Do(Call("f", << >>, 0)) \o Do(Call("f", One, 1))) } }

MCSources == UNION { FunctionsOn({ << >>, XIs1 }, Second), Recursion, Small }

(* The first fragment on a domain of its own, the second "otherwise".      *)
DomainSources == FunctionsOn({ XIs1 }, Otherwise)

(* The bodies and domains in them: fragments are three deep at most. *)
PartsIn(codes) ==
  UNION { UNION { { c[i].body, c[i].domain } :
            i \in { j \in 1 .. Len(c) : c[j].op = "fragment" } } : c \in codes }
PartsOf(sources) ==
  LET bodies == PartsIn(sources)
      locals == PartsIn(bodies)
  IN  UNION { bodies, locals, PartsIn(locals) }
DomainParts == PartsOf(DomainSources)

MCHeight(code) ==
  LET After(height, s) ==
        Append(height, Last(height) - Arity(s) + IF IsExpression(s.op) THEN 1 ELSE 0)
  IN  FoldLeft(After, << 0 >>, code)
=============================================================================
