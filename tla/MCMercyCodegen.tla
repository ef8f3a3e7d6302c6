--------------------------- MODULE MCMercyCodegen ---------------------------
(***************************************************************************)
(* Instances of MercyCodegen for TLC: the translation units of MCMercySema *)
(* and some whose interest is in the code generated.                       *)
(***************************************************************************)
EXTENDS MCMercySema, MercyCodegen

PrintOf(e) == Builtin("print", e, 1)
F(body, domain) == Def("f", << "x" >>, body, domain)
CallF(e) == Call("f", e, 1)
Fn(f, body) == Def(f, << >>, body, << >>)
CallFn(f) == Call(f, << >>, 0)

(* Every expression, with a global and a function it may use. *)
Pair == Builtin("array", One \o One, 2)
MoreExpressions ==
  UNION { Expressions,
          { PrintOf(One), PrintOf(Pair), PrintOf(Id("v")), PrintOf(CallF(Text)),
            At2(Pair, Id("v")), Bin("assign", At2(Pair, One), Id("v")),
            Bin("assign", Id("v"), At2(Pair, One)), Bin("assign", Id("v"), CallF(Id("v"))),
            Builtin("array", Pair, 1), At2(Builtin("array", Pair, 1), One),
            Bin("logical", Bin("compare", Id("v"), One), Bin("compare", CallF(One), One)),
            Bin("logical", Bin("compare", CallF(One), One), Bin("compare", Id("v"), One)),
            Type(IntTy), PrintOf(Type(IntTy)), CallF(Pair), CallF(FT) } }

ExpressionSources ==
  UNION { { Let("v", One) \o F(Return(X), << >>) \o Main(Do(e)),
            Let("v", One) \o F(Return(X), << >>) \o Main(Let("y", e) \o Do(PrintOf(Id("y")))) } :
          e \in MoreExpressions }

(* Fragments with and without a domain, effects in domains and bodies, and *)
(* statements after a return statement.                                    *)
SomeBodies == { Return(One), Do(PrintOf(X)) \o Return(X), Return(X) \o Do(PrintOf(One)) }
SomeDomains == { << >>, XIs1, Bin("compare", CallF(X), X), X }

FragmentSources ==
  UNION { UNION { UNION { UNION {
    { F(b, d) \o F(c, e) \o o \o Main(Do(CallF(One))) :
        o \in { << >>, F(Return(X), << >>), F(Return(X), XIs1) } } :
      c \in SomeBodies } : b \in SomeBodies } : e \in SomeDomains } : d \in SomeDomains }

(* Functions without a value, and fragments that declare functions. *)
LocalG(e) == Def("g", << "x" >>, Return(e), << >>) \o Return(Call("g", X, 1))
VoidSources ==
  UNION { { F(Do(PrintOf(X)), d) \o Main(Do(CallF(One)) \o Return(CallF(One))),
            F(Do(PrintOf(X)), d) \o Main(Let("y", CallF(One))),
            F(LocalG(X), d) \o F(LocalH(X), << >>) \o Main(Do(CallF(One))),
            F(LocalG(X), d) \o F(LocalG(One), << >>) \o Main(Do(CallF(One))) } :
          d \in { << >>, XIs1 } }

(* Globals, whose initializers call functions that use globals: each list  *)
(* of three of these definitions.                                          *)
Definitions ==
  { Let("v", One), Let("w", CallFn("f")), Let("w", CallFn("g")), Let("v", CallFn("f")),
    Fn("f", Return(Id("v"))), Fn("f", Do(Id("v")) \o Return(One)),
    Fn("f", Do(PrintOf(Id("v"))) \o Return(One)), Fn("g", Return(CallFn("f"))) }

GlobalSources ==
  UNION { UNION { { a \o b \o c \o d \o Main(Do(PrintOf(Id("w")))) : a \in Definitions } :
            b \in Definitions } : c \in Definitions, d \in { << >>, Let("w", CallFn("g")) } }

(* A function that uses a variable of the function around it: the example  *)
(* of mercy.md, and one that does not call it.                             *)
Bar(after) ==
  Fn("bar", Let("x", One) \o Fn("f", Do(PrintOf(X))) \o after) \o Main(Do(CallFn("bar")))
CaptureSources == { Bar(Do(CallFn("f"))) }

(* A call on the right of an operator whose left operand may decide. *)
OperatorSources ==
  { Let("v", One) \o F(Do(PrintOf(X)) \o Return(X), << >>)
      \o Main(Do(Bin("logical", Bin("compare", Id("v"), One), Bin("compare", CallF(One), One)))) }

MCCompilerSources ==
  UNION { MCSources, ExpressionSources, FragmentSources, VoidSources, GlobalSources,
          CaptureSources, { Bar(<< >>) } }
MCCompilerParts == PartsOf(MCCompilerSources)
CaptureParts    == PartsOf(CaptureSources)
OperatorParts   == PartsOf(OperatorSources)
=============================================================================
