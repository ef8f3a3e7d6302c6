----------------------------- MODULE MercyProofs -----------------------------
(***************************************************************************)
(* Proofs about MercySema: that the types are right and the assertions     *)
(* about the scopes hold, that names are looked up where a function is     *)
(* written, that a function is analysed once for each list of argument     *)
(* types, that a return type does not change once a call has seen it, that *)
(* no two instances have the same name, and that a program of the core has *)
(* a type wherever one is used, for all programs the parser can hand over, *)
(* however deep the calls go.  And about MercyCodegen: that all of this    *)
(* holds in a run of the compiler.                                         *)
(***************************************************************************)
EXTENDS MercyCodegen, SequenceTheorems, FiniteSetTheorems, WellFoundedInduction, TLAPS

-----------------------------------------------------------------------------
(* The inductive invariant *)

Steps        == UNION { { c[i] : i \in 1 .. Len(c) } : c \in Codes }
AllFragments == UNION { FragmentsIn(c) : c \in Codes }
AnyId        == Seq(STRING \X Nat)

Exprs        == [ type : AnyType, lvalue : BOOLEAN, value : AnyValue ]
Declarations == [ kind : { "variable" }, type : AnyType ]
                  \cup [ kind : { "function" }, fd : Nat ]
Scopes       == UNION { [ ids -> Declarations ] : ids \in SUBSET STRING }

Frames ==
  [ inst : Nat, frag : Nat, pc : Nat, args : Seq(AnyType), prev : Nat, back : Nat,
    decls : Scopes, operands : Seq(Exprs), rets : Seq(AnyType) ]
FuncDecls == [ id : STRING, frags : Seq(AllFragments) ]
Instances ==
  [ decl : Nat, id : AnyId, frags : Seq(AllFragments), params : Seq(AnyType),
    ret : Seq(AnyType) ]

Typed ==
  /\ src \in Sources
  /\ stack \in Seq(Frames) /\ Len(stack) \in 1 .. MaxDepth
  /\ CurScope \in 1 .. Len(stack)
  /\ FunctionDecls \in Seq(FuncDecls)
  /\ AllInstances \in Seq(Instances)
  /\ status \in { "running", "accepted", "crashed", "overflowed" } \cup Rejections

(* Functions and instances have a fragment at least, an instance a return  *)
(* type for each.                                                          *)
Sized ==
  /\ \A d \in 1 .. Len(FunctionDecls) : FunctionDecls[d].frags # << >>
  /\ \A i \in 1 .. Len(AllInstances) :
       /\ AllInstances[i].decl \in 1 .. Len(FunctionDecls)
       /\ AllInstances[i].frags # << >>
       /\ Len(AllInstances[i].ret) = Len(AllInstances[i].frags)

(* The operands there are before the step a frame is at. *)
FragmentOf(frame) == AllInstances[frame.inst].frags[frame.frag]
InBody(frame)     == frame.pc > Len(FragmentOf(frame).domain) + 1
HeightAt(frame) ==
  IF frame.inst = 0
    THEN IF frame.pc <= Len(src) + 1 THEN Height(src)[frame.pc]
                                     ELSE Height(src)[Len(src) + 1] + 1
    ELSE IF InBody(frame)
           THEN Height(FragmentOf(frame).body)[frame.pc - Len(FragmentOf(frame).domain) - 1]
           ELSE Height(FragmentOf(frame).domain)[frame.pc]

(* A frame below the top waits at a call, whose arguments are gone. *)
Waiting(frame) ==
  /\ frame.pc \in 1 .. Len(Code(frame))
  /\ Code(frame)[frame.pc].op \in { "call", "entry" }
  /\ Len(frame.operands) = HeightAt(frame) - Arity(Code(frame)[frame.pc])
Walking(frame) ==
  /\ frame.pc \in 1 .. Len(Code(frame)) + 1
  /\ Len(frame.operands) = HeightAt(frame)

Placed(k) ==
  LET f == stack[k] IN
    /\ f.inst = 0 <=> k = 1
    /\ f.inst <= Len(AllInstances)
    /\ k > 1 => f.frag \in 1 .. Len(AllInstances[f.inst].frags)
    /\ f.prev < k /\ (f.prev = 0 <=> k = 1)
    /\ f.back = k - 1
    /\ k < Len(stack) => Waiting(f)
    /\ k = Len(stack) => \/ Walking(f) /\ CurScope = k
                         \/ f.pc = 0 /\ k > 1 /\ f.operands = << >>
    /\ \A j \in 1 .. k - 1 : stack[j].inst # f.inst
Stacked == \A k \in 1 .. Len(stack) : Placed(k)

(* A function is declared in one scope, in whose text its fragments are.   *)
Declares(k, fd) == \E id \in DOMAIN stack[k].decls : stack[k].decls[id] = Function(fd)
FunctionsPlaced ==
  \A k \in 1 .. Len(stack) : \A fd \in Nat :
    Declares(k, fd) =>
      /\ fd \in 1 .. Len(FunctionDecls)
      /\ \A j \in 1 .. Len(FunctionDecls[fd].frags) :
           IsPartOf(Code(stack[k]), FunctionDecls[fd].frags[j])
      /\ \A m \in 1 .. Len(stack) : Declares(m, fd) => m = k
InstancesPlaced ==
  \A k \in 2 .. Len(stack) : \A j \in 1 .. Len(AllInstances[stack[k].inst].frags) :
    IsPartOf(Code(stack[stack[k].prev]), AllInstances[stack[k].inst].frags[j])

(* An instance that is about to be entered is the first for its arguments. *)
Unseen ==
  Top.pc = 0 /\ Top.frag = 1 =>
    \A i \in 1 .. Len(AllInstances) :
      i # Top.inst /\ AllInstances[i].decl = AllInstances[Top.inst].decl
        => AllInstances[i].params # Top.args

(* While the first fragment of an instance is analysed, the instance has   *)
(* no return type, but void if it has no return statement.                 *)
Returns(f) == \E i \in 1 .. Len(f.body) : f.body[i].op = "return"
Returning(frame) == InBody(frame) /\ Returns(FragmentOf(frame))
Undecided ==
  \A k \in 2 .. Len(stack) :
    /\ ~Returning(stack[k]) => stack[k].rets = << >>
    /\ stack[k].frag = 1 =>
         \/ getReturnType(stack[k].inst) = NoType
         \/ InBody(stack[k]) /\ ~Returns(FragmentOf(stack[k]))

Lexical == FunctionsPlaced /\ InstancesPlaced
Unique  == InstancesDiffer /\ Unseen
IInv    == Typed /\ Sized /\ Stacked /\ Lexical /\ Unique /\ Undecided

-----------------------------------------------------------------------------
(* Numbers and sequences *)

LEMMA LeastNumber ==
  ASSUME NEW T, T \subseteq Nat, T # {}
  PROVE  \E x \in T : \A y \in T : x <= y
<1>1. PICK x \in T : \A y \in T : ~(<< y, x >> \in OpToRel(<, Nat))
  BY WFMin, NatLessThanWellFounded, Zenon
<1>2. \A y \in T : << y, x >> \in Nat \X Nat /\ << y, x >>[1] = y /\ << y, x >>[2] = x
  OBVIOUS
<1>3. \A y \in T : ~(y < x)
  BY <1>1, <1>2 DEF OpToRel
<1> QED
  BY <1>3

LEMMA MinIsLeast ==
  ASSUME NEW T, T \subseteq Nat, T # {}
  PROVE  Min(T) \in T /\ \A y \in T : Min(T) <= y
<1>1. \E x \in T : \A y \in T : x =< y
  BY LeastNumber
<1> QED
  BY <1>1, Zenon DEF Min

LEMMA OneElement ==
  ASSUME NEW S, NEW e \in S
  PROVE  << e >> \in Seq(S) /\ Len(<< e >>) = 1 /\ << e >>[1] = e
OBVIOUS

LEMMA NotEmpty ==
  ASSUME NEW S, NEW s \in Seq(S), Len(s) > 0
  PROVE  s # << >>
BY EmptySeq

-----------------------------------------------------------------------------
(* Scopes: the search runs outwards along older and older frames.          *)

Nearest(S) ==
  LET from[s \in 0 .. Len(stack)] ==
        IF s = 0 \/ s \in S THEN s ELSE from[stack[s].prev]
  IN  from

Outwards == Len(stack) \in Nat /\ \A k \in 1 .. Len(stack) : stack[k].prev \in 0 .. k - 1

LEMMA SearchIsNearest == ASSUME NEW S PROVE Search(S) = Nearest(S)[CurScope]
BY DEF Search, Nearest

LEMMA NearestDef ==
  ASSUME Outwards, NEW S
  PROVE  Nearest(S) = [ s \in 0 .. Len(stack) |->
                          IF s = 0 \/ s \in S THEN s ELSE Nearest(S)[stack[s].prev] ]
<1> DEFINE IsNearest(f, n) ==
      f = [ s \in 0 .. n |-> IF s = 0 \/ s \in S THEN s ELSE f[stack[s].prev] ]
<1> DEFINE T == { n \in 0 .. Len(stack) : ~ \E f : IsNearest(f, n) }
<1>1. T = {}
  <2> SUFFICES ASSUME T # {} PROVE FALSE
    OBVIOUS
  <2>1. PICK m \in T : \A n \in T : m <= n
    <3> HIDE DEF IsNearest
    <3>1. T \subseteq Nat
      BY DEF Outwards
    <3> HIDE DEF T
    <3> QED
      BY <3>1, LeastNumber
  <2>2. CASE m = 0
    <3> DEFINE f == [ s \in 0 .. 0 |-> s ]
    <3>1. IsNearest(f, 0)
      OBVIOUS
    <3> HIDE DEF IsNearest
    <3> QED
      BY <2>1, <2>2, <3>1
  <2>3. CASE m # 0
    <3>1. m - 1 \in 0 .. Len(stack) /\ m \in 1 .. Len(stack) /\ m - 1 \notin T
      <4> HIDE DEF IsNearest
      <4> QED
        BY <2>1, <2>3 DEF Outwards
    <3>2. PICK f : IsNearest(f, m - 1)
      <4> HIDE DEF IsNearest
      <4> QED
        BY <3>1
    <3> DEFINE g == [ s \in 0 .. m |-> IF s \in 0 .. m - 1 THEN f[s]
                                       ELSE IF s \in S THEN s ELSE f[stack[s].prev] ]
    <3>3. \A s \in 1 .. m : stack[s].prev \in 0 .. m - 1
      BY <3>1 DEF Outwards
    <3>4. \A s \in 0 .. m - 1 : f[s] = IF s = 0 \/ s \in S THEN s ELSE f[stack[s].prev]
      BY <3>2
    <3>5. \A s \in 0 .. m - 1 : g[s] = f[s]
      BY <3>1
    <3>6. \A s \in 0 .. m : g[s] = IF s = 0 \/ s \in S THEN s ELSE g[stack[s].prev]
      <4> TAKE s \in 0 .. m
      <4>1. CASE s = m
        BY <3>1, <3>3, <3>5, <4>1
      <4>2. CASE s \in 0 .. m - 1
        <5>1. s # 0 => stack[s].prev \in 0 .. m - 1
          BY <3>3, <3>1, <4>2
        <5> HIDE DEF g
        <5> QED
          BY <3>4, <3>5, <4>2, <5>1
      <4> QED
        BY <4>1, <4>2, <3>1
    <3>7. IsNearest(g, m)
      <4>1. g = [ s \in 0 .. m |-> g[s] ]
        OBVIOUS
      <4> HIDE DEF g
      <4> QED
        BY <3>6, <4>1
    <3> HIDE DEF IsNearest, g
    <3> QED
      BY <2>1, <3>7
  <2> QED
    BY <2>2, <2>3
<1>2. \E f : IsNearest(f, Len(stack))
  <2> HIDE DEF IsNearest
  <2> QED
    BY <1>1 DEF Outwards
<1> QED
  BY <1>2, Zenon DEF Nearest

LEMMA NearestSteps ==
  ASSUME Outwards, NEW S
  PROVE  /\ Nearest(S)[0] = 0
         /\ \A s \in 1 .. Len(stack) :
              Nearest(S)[s] = IF s \in S THEN s ELSE Nearest(S)[stack[s].prev]
<1>1. \A s \in 0 .. Len(stack) :
        Nearest(S)[s] = IF s = 0 \/ s \in S THEN s ELSE Nearest(S)[stack[s].prev]
  BY NearestDef
<1> QED
  BY <1>1 DEF Outwards

(* What is found is one of the scopes looked for, or nothing. *)
LEMMA NearestFinds ==
  ASSUME Outwards, NEW S, NEW s \in 0 .. Len(stack)
  PROVE  Nearest(S)[s] = 0 \/ Nearest(S)[s] \in S \cap 1 .. s
<1> DEFINE Good(x) == Nearest(S)[x] = 0 \/ Nearest(S)[x] \in S \cap 1 .. x
<1> DEFINE T == { x \in 0 .. Len(stack) : ~Good(x) }
<1>1. T = {}
  <2> SUFFICES ASSUME T # {} PROVE FALSE
    OBVIOUS
  <2>1. T \subseteq Nat
    BY DEF Outwards
  <2> HIDE DEF Good
  <2>2. PICK x \in T : \A y \in T : x <= y
    <3> HIDE DEF T
    <3> QED
      BY <2>1, LeastNumber
  <2>3. x # 0
    BY <2>2, NearestSteps DEF Good
  <2>4. x \in 1 .. Len(stack) /\ stack[x].prev \in 0 .. x - 1
    BY <2>2, <2>3 DEF Outwards
  <2>5. x \notin S
    BY <2>2, <2>4, NearestSteps DEF Good
  <2>6. Good(stack[x].prev)
    BY <2>2, <2>4 DEF Outwards
  <2>7. Nearest(S)[x] = Nearest(S)[stack[x].prev]
    BY <2>4, <2>5, NearestSteps
  <2>8. Good(x)
    BY <2>4, <2>6, <2>7 DEF Good
  <2> QED
    BY <2>2, <2>8
<1>2. Good(s)
  <2> HIDE DEF Good
  <2> QED
    BY <1>1
<1> QED
  BY <1>2

(* A scope found among some is found among others it is one of too, unless *)
(* the search ends before.                                                 *)
LEMMA NearestOfMore ==
  ASSUME Outwards, NEW S, NEW U, NEW s \in 0 .. Len(stack),
         Nearest(S)[s] \in U, Nearest(S)[s] # 0
  PROVE  Nearest(U)[s] # 0
<1> DEFINE Good(x) == Nearest(S)[x] \in U /\ Nearest(S)[x] # 0 => Nearest(U)[x] # 0
<1> DEFINE T == { x \in 0 .. Len(stack) : ~Good(x) }
<1>1. T = {}
  <2> SUFFICES ASSUME T # {} PROVE FALSE
    OBVIOUS
  <2>1. T \subseteq Nat
    BY DEF Outwards
  <2> HIDE DEF Good
  <2>2. PICK x \in T : \A y \in T : x <= y
    <3> HIDE DEF T
    <3> QED
      BY <2>1, LeastNumber
  <2>3. x # 0
    BY <2>2, NearestSteps DEF Good
  <2>4. x \in 1 .. Len(stack) /\ stack[x].prev \in 0 .. x - 1
    BY <2>2, <2>3 DEF Outwards
  <2>5. CASE x \in U
    BY <2>2, <2>4, <2>5, NearestSteps DEF Good
  <2>6. CASE x \notin U
    <3>1. CASE x \in S
      BY <2>2, <2>4, <2>6, <3>1, NearestSteps DEF Good
    <3>2. CASE x \notin S
      <4>1. Good(stack[x].prev)
        BY <2>2, <2>4 DEF Outwards
      <4>2. /\ Nearest(S)[x] = Nearest(S)[stack[x].prev]
            /\ Nearest(U)[x] = Nearest(U)[stack[x].prev]
        BY <2>4, <2>6, <3>2, NearestSteps
      <4>3. Good(x)
        BY <4>1, <4>2 DEF Good
      <4> QED
        BY <2>2, <4>3
    <3> QED
      BY <3>1, <3>2
  <2> QED
    BY <2>5, <2>6
<1>2. Good(s)
  <2> HIDE DEF Good
  <2> QED
    BY <1>1
<1> QED
  BY <1>2

(* A function that a name stands for is declared in a scope around.        *)
LEMMA DeclFound ==
  ASSUME Outwards, CurScope \in 1 .. Len(stack), NEW id,
         findDecl(id) # Undeclared
  PROVE  \E k \in 1 .. Len(stack) : id \in DOMAIN stack[k].decls /\ findDecl(id) = stack[k].decls[id]
<1> DEFINE S == { s \in 1 .. Len(stack) : id \in DOMAIN stack[s].decls }
<1>1. findScope(id) = Nearest(S)[CurScope]
  BY SearchIsNearest DEF findScope
<1>2. findScope(id) # 0
  BY DEF findDecl
<1>3. Nearest(S)[CurScope] = 0 \/ Nearest(S)[CurScope] \in S \cap 1 .. CurScope
  <2> HIDE DEF S
  <2>1. CurScope \in 0 .. Len(stack)
    BY DEF Outwards
  <2> QED
    BY <2>1, NearestFinds
<1>4. findScope(id) \in S
  <2> HIDE DEF S
  <2> QED
    BY <1>1, <1>2, <1>3
<1> QED
  BY <1>2, <1>4 DEF findDecl

LEMMA ScopeOfDeclFound ==
  ASSUME Outwards, CurScope \in 1 .. Len(stack), NEW id, NEW fd,
         \/ findDecl(id) = Function(fd)
         \/ id \in DOMAIN stack[CurScope].decls /\ stack[CurScope].decls[id] = Function(fd)
  PROVE  findScopeOfDecl(fd) \in 1 .. CurScope /\ Declares(findScopeOfDecl(fd), fd)
<1> DEFINE S == { s \in 1 .. Len(stack) : id \in DOMAIN stack[s].decls }
<1> DEFINE U == { s \in 1 .. Len(stack) :
             \E x \in DOMAIN stack[s].decls : stack[s].decls[x] = Function(fd) }
<1>1. findScopeOfDecl(fd) = Nearest(U)[CurScope]
  BY SearchIsNearest DEF findScopeOfDecl
<1>2. CurScope \in 0 .. Len(stack)
  BY DEF Outwards
<1>3. Nearest(U)[CurScope] # 0
  <2>1. CASE findDecl(id) = Function(fd)
    <3>1. findScope(id) # 0 /\ findDecl(id) = stack[findScope(id)].decls[id]
      <4>1. Function(fd) # Undeclared
        BY DEF Function, Undeclared
      <4> QED
        BY <2>1, <4>1 DEF findDecl
    <3>2. findScope(id) = Nearest(S)[CurScope]
      BY SearchIsNearest DEF findScope
    <3>3. Nearest(S)[CurScope] \in S
      <4> HIDE DEF S
      <4> QED
        BY <1>2, <3>1, <3>2, NearestFinds
    <3>4. Nearest(S)[CurScope] \in U
      BY <2>1, <3>1, <3>2, <3>3
    <3> HIDE DEF S, U
    <3> QED
      BY <1>2, <3>1, <3>2, <3>4, NearestOfMore
  <2>2. CASE id \in DOMAIN stack[CurScope].decls /\ stack[CurScope].decls[id] = Function(fd)
    <3>1. CurScope \in U
      BY <2>2
    <3> HIDE DEF U
    <3> QED
      BY <3>1, NearestSteps DEF Outwards
  <2> QED
    BY <2>1, <2>2
<1>4. Nearest(U)[CurScope] \in U \cap 1 .. CurScope
  <2> HIDE DEF U
  <2> QED
    BY <1>2, <1>3, NearestFinds
<1> QED
  BY <1>1, <1>4 DEF Declares

-----------------------------------------------------------------------------
(* Codes: the steps of a frame and the operands there are before each.     *)

AnyStep == Steps \cup { [ op |-> "entry" ], [ op |-> "body" ] }

LEMMA CodeIsSequence ==
  ASSUME NEW c \in Codes
  PROVE  /\ c \in Seq(Steps) /\ c \in Seq(AnyStep) /\ Len(c) \in Nat
         /\ Height(c)[1] = 0
         /\ \A i \in 1 .. Len(c) :
              /\ c[i] \in Steps /\ WellFormed(c[i])
              /\ Height(c)[i] \in Nat /\ Height(c)[i] >= Arity(c[i])
              /\ Height(c)[i + 1] = Height(c)[i] - Arity(c[i])
                                      + IF IsExpression(c[i].op) THEN 1 ELSE 0
<1>0. /\ Len(c) \in Nat /\ c = [ i \in 1 .. Len(c) |-> c[i] ]
      /\ Height(c)[1] = 0
      /\ \A i \in 1 .. Len(c) :
           /\ WellFormed(c[i])
           /\ c[i].op = "let" => \E n \in i + 1 .. Len(c) : InitializedAt(c, i, n)
           /\ Height(c)[i] \in Nat /\ Height(c)[i] >= Arity(c[i])
           /\ Height(c)[i + 1] = Height(c)[i] - Arity(c[i])
                                   + IF IsExpression(c[i].op) THEN 1 ELSE 0
  BY SourceAssumption, Zenon
<1>1. /\ Len(c) \in Nat /\ c = [ i \in 1 .. Len(c) |-> c[i] ]
      /\ Height(c)[1] = 0
      /\ \A i \in 1 .. Len(c) :
           /\ WellFormed(c[i])
           /\ Height(c)[i] \in Nat /\ Height(c)[i] >= Arity(c[i])
           /\ Height(c)[i + 1] = Height(c)[i] - Arity(c[i])
                                   + IF IsExpression(c[i].op) THEN 1 ELSE 0
  BY <1>0, Zenon
<1>2. \A i \in 1 .. Len(c) : c[i] \in Steps
  BY DEF Steps
<1>3. [ i \in 1 .. Len(c) |-> c[i] ] \in Seq(Steps)
  BY <1>1, <1>2, IsASeq
<1>4. c \in Seq(Steps)
  BY <1>1, <1>3
<1>5. c \in Seq(AnyStep)
  BY <1>4, SeqMonotonic DEF AnyStep
<1> QED
  BY <1>1, <1>2, <1>4, <1>5

LEMMA FragmentIsCode ==
  ASSUME NEW f \in AllFragments
  PROVE  /\ f.domain \in Codes /\ f.body \in Codes
         /\ f.params \in Seq(STRING)
         /\ f.op = "fragment" /\ f.id \in STRING
         /\ \A i \in 1 .. Len(f.domain) : f.domain[i].op \notin { "return", "fragment" }
<1>1. /\ f.params \in Seq(STRING) /\ f.body \in Parts /\ f.domain \in Parts
      /\ \A i \in 1 .. Len(f.domain) : IsExpression(f.domain[i].op)
  BY SourceAssumption, Zenon DEF AllFragments
<1>6. \A i \in 1 .. Len(f.domain) : f.domain[i].op \notin { "return", "fragment" }
  BY <1>1 DEF IsExpression
<1>2. PICK c \in Codes : f \in FragmentsIn(c)
  BY DEF AllFragments
<1>3. PICK i \in 1 .. Len(c) : c[i].op = "fragment" /\ f = c[i]
  BY <1>2 DEF FragmentsIn
<1>4. WellFormed(c[i])
  BY CodeIsSequence
<1>5. f.id \in STRING
  BY <1>3, <1>4 DEF WellFormed
<1> QED
  BY <1>1, <1>6, <1>3, <1>5 DEF Codes

(* A fragment step is a fragment. *)
LEMMA FragmentStep ==
  ASSUME NEW s \in Steps, s.op = "fragment"
  PROVE  s \in AllFragments
BY DEF Steps, AllFragments, FragmentsIn

LEMMA SourceCode ==
  ASSUME NEW frame, frame.inst = 0, src \in Sources
  PROVE  /\ Code(frame) \in Seq(AnyStep)
         /\ Len(Code(frame)) = Len(src) + 1
         /\ Len(src) \in Nat
         /\ \A i \in 1 .. Len(src) : Code(frame)[i] = src[i]
         /\ Code(frame)[Len(src) + 1] = [ op |-> "entry" ]
<1>1. src \in Seq(AnyStep) /\ Len(src) \in Nat
  BY CodeIsSequence DEF Codes
<1>2. << [ op |-> "entry" ] >> \in Seq(AnyStep) /\ Len(<< [ op |-> "entry" ] >>) = 1
      /\ << [ op |-> "entry" ] >>[1] = [ op |-> "entry" ]
  BY OneElement DEF AnyStep
<1>3. Code(frame) = src \o << [ op |-> "entry" ] >>
  BY DEF Code
<1> DEFINE e == << [ op |-> "entry" ] >>
<1>4. /\ src \o e \in Seq(AnyStep) /\ Len(src \o e) = Len(src) + Len(e)
      /\ \A i \in 1 .. Len(src) + Len(e) : (src \o e)[i] = IF i <= Len(src) THEN src[i] ELSE e[i - Len(src)]
  <2> HIDE DEF e
  <2>1. e \in Seq(AnyStep)
    BY <1>2 DEF e
  <2> QED
    BY <1>1, <2>1, ConcatProperties
<1> HIDE DEF e
<1>5. Len(e) = 1 /\ e[1] = [ op |-> "entry" ] /\ Code(frame) = src \o e
  BY <1>2, <1>3 DEF e
<1>6. \A i \in 1 .. Len(src) : i \in 1 .. Len(src) + Len(e) /\ i <= Len(src)
  BY <1>1, <1>5
<1>7. Len(src) + 1 \in 1 .. Len(src) + Len(e) /\ ~(Len(src) + 1 <= Len(src)) /\ Len(src) + 1 - Len(src) = 1
  BY <1>1, <1>5
<1> QED
  BY <1>1, <1>4, <1>5, <1>6, <1>7

LEMMA FragmentCode ==
  ASSUME NEW frame, frame.inst # 0, FragmentOf(frame) \in AllFragments
  PROVE  LET d == FragmentOf(frame).domain
             b == FragmentOf(frame).body
         IN  /\ Code(frame) \in Seq(AnyStep)
             /\ Len(d) \in Nat /\ Len(b) \in Nat
             /\ Len(Code(frame)) = Len(d) + 1 + Len(b)
             /\ \A i \in 1 .. Len(d) : Code(frame)[i] = d[i]
             /\ Code(frame)[Len(d) + 1] = [ op |-> "body" ]
             /\ \A i \in 1 .. Len(b) : Code(frame)[Len(d) + 1 + i] = b[i]
<1> DEFINE d == FragmentOf(frame).domain
           b == FragmentOf(frame).body
           e == << [ op |-> "body" ] >>
<1>1. Code(frame) = d \o e \o b
  BY Zenon DEF Code, FragmentOf
<1>2. d \in Seq(AnyStep) /\ b \in Seq(AnyStep) /\ Len(d) \in Nat /\ Len(b) \in Nat
  BY FragmentIsCode, CodeIsSequence
<1>3. e \in Seq(AnyStep) /\ Len(e) = 1 /\ e[1] = [ op |-> "body" ]
  BY OneElement DEF AnyStep
<1> HIDE DEF d, b, e
<1> DEFINE x == d \o e
<1>4. /\ x \in Seq(AnyStep) /\ Len(x) = Len(d) + Len(e)
      /\ \A i \in 1 .. Len(d) + Len(e) : x[i] = IF i <= Len(d) THEN d[i] ELSE e[i - Len(d)]
  BY <1>2, <1>3, ConcatProperties
<1> HIDE DEF x
<1>5. /\ x \o b \in Seq(AnyStep) /\ Len(x \o b) = Len(x) + Len(b)
      /\ \A i \in 1 .. Len(x) + Len(b) : (x \o b)[i] = IF i <= Len(x) THEN x[i] ELSE b[i - Len(x)]
  <2>1. x \in Seq(AnyStep) /\ b \in Seq(AnyStep)
    BY <1>2, <1>4
  <2> QED
    BY <2>1, ConcatProperties
<1> DEFINE y == x \o b
<1>6. /\ y \in Seq(AnyStep) /\ Len(y) = Len(x) + Len(b)
      /\ \A i \in 1 .. Len(x) + Len(b) : y[i] = IF i <= Len(x) THEN x[i] ELSE b[i - Len(x)]
  BY <1>5
<1>7. Code(frame) = y
  BY <1>1 DEF x
<1> HIDE DEF y
<1>8. /\ \A i \in 1 .. Len(d) : y[i] = d[i]
      /\ y[Len(d) + 1] = [ op |-> "body" ]
      /\ \A i \in 1 .. Len(b) : y[Len(d) + 1 + i] = b[i]
  <2>1. \A i \in 1 .. Len(d) : y[i] = d[i]
    BY <1>2, <1>3, <1>4, <1>6
  <2>2. y[Len(d) + 1] = [ op |-> "body" ]
    BY <1>2, <1>3, <1>4, <1>6
  <2>3. ASSUME NEW i \in 1 .. Len(b) PROVE y[Len(d) + 1 + i] = b[i]
    <3>1. Len(x) = Len(d) + 1 /\ Len(x) \in Nat /\ Len(d) \in Nat /\ Len(b) \in Nat
      BY <1>2, <1>3, <1>4
    <3>2. Len(d) + 1 + i \in 1 .. Len(x) + Len(b) /\ ~(Len(d) + 1 + i <= Len(x))
          /\ Len(d) + 1 + i - Len(x) = i
      BY <3>1
    <3> QED
      BY <1>6, <3>2
  <2> QED
    BY <2>1, <2>2, <2>3
<1> QED
  BY <1>2, <1>3, <1>4, <1>6, <1>7, <1>8, Zenon DEF d, b

(* A step that is not the head of a body uses its operands up, of which    *)
(* there are enough, and leaves one if it is an expression.                *)
Known(f) == IF f.inst = 0 THEN src \in Sources ELSE FragmentOf(f) \in AllFragments

LEMMA EntryArity ==
  Arity([ op |-> "entry" ]) = 0 /\ IsExpression("entry") /\ IsExpression("call")
BY DEF Arity, IsExpression

LEMMA StepOf ==
  ASSUME NEW f, NEW g, Known(f), f.pc \in 1 .. Len(Code(f)),
         g.inst = f.inst, g.frag = f.frag, g.pc = f.pc + 1
  PROVE  LET s == Code(f)[f.pc] IN
         /\ Code(g) = Code(f) /\ Len(Code(f)) \in Nat
         /\ \/ s \in Steps /\ WellFormed(s) /\ s.op \notin { "entry", "body" }
            \/ s = [ op |-> "entry" ] /\ f.inst = 0
            \/ s = [ op |-> "body" ] /\ f.inst # 0 /\ f.pc = Len(FragmentOf(f).domain) + 1
         /\ s.op # "body" =>
              /\ Arity(s) \in Nat
              /\ HeightAt(f) \in Nat /\ HeightAt(f) >= Arity(s)
              /\ HeightAt(g) = HeightAt(f) - Arity(s) + IF IsExpression(s.op) THEN 1 ELSE 0
         /\ s.op = "body" => HeightAt(g) = 0 /\ InBody(g) /\ f.inst # 0 /\ ~InBody(f)
         /\ s.op # "body" /\ f.inst # 0 => (InBody(g) <=> InBody(f))
         /\ s.op = "return" /\ f.inst # 0 => InBody(f) /\ Returns(FragmentOf(f))
<1> DEFINE s == Code(f)[f.pc]
<1>1. Code(g) = Code(f) /\ FragmentOf(g) = FragmentOf(f)
  BY DEF Code, FragmentOf
<1>2. CASE f.inst = 0
  <2>1. /\ Len(Code(f)) = Len(src) + 1 /\ Len(src) \in Nat
        /\ \A i \in 1 .. Len(src) : Code(f)[i] = src[i]
        /\ Code(f)[Len(src) + 1] = [ op |-> "entry" ]
    BY <1>2, SourceCode DEF Known
  <2>2. /\ src \in Codes
        /\ \A i \in 1 .. Len(src) :
              /\ src[i] \in Steps /\ WellFormed(src[i])
              /\ Height(src)[i] \in Nat /\ Height(src)[i] >= Arity(src[i])
              /\ Height(src)[i + 1] = Height(src)[i] - Arity(src[i])
                                      + IF IsExpression(src[i].op) THEN 1 ELSE 0
    BY <1>2, CodeIsSequence DEF Codes, Known
  <2>3. /\ f.pc <= Len(src) + 1 => HeightAt(f) = Height(src)[f.pc]
        /\ f.pc <= Len(src) => HeightAt(g) = Height(src)[f.pc + 1]
        /\ f.pc = Len(src) + 1 => HeightAt(g) = Height(src)[Len(src) + 1] + 1
    BY <1>2, <2>1 DEF HeightAt
  <2>4. CASE f.pc \in 1 .. Len(src)
    <3>1. s = src[f.pc] /\ s \in Steps /\ WellFormed(s) /\ s.op \notin { "entry", "body" } /\ Arity(s) \in Nat
      BY <2>1, <2>2, <2>4 DEF WellFormed
    <3> HIDE DEF s
    <3>2. /\ HeightAt(f) \in Nat /\ HeightAt(f) >= Arity(s)
          /\ HeightAt(g) = HeightAt(f) - Arity(s) + IF IsExpression(s.op) THEN 1 ELSE 0
      BY <2>1, <2>2, <2>3, <2>4, <3>1
    <3> QED
      BY <1>1, <1>2, <2>1, <3>1, <3>2 DEF s
  <2>5. CASE f.pc = Len(src) + 1
    <3>1. s = [ op |-> "entry" ] /\ s.op = "entry" /\ Arity(s) = 0 /\ IsExpression(s.op)
      BY <2>1, <2>5, EntryArity
    <3>2. Height(src)[Len(src) + 1] \in Nat
      <4>1. CASE Len(src) = 0
        BY <2>2, <4>1, CodeIsSequence
      <4>2. CASE Len(src) # 0
        <5>1. Len(src) \in 1 .. Len(src)
          BY <2>1, <4>2
        <5>2. Arity(src[Len(src)]) \in Nat
          BY <2>2, <5>1 DEF WellFormed
        <5> QED
          BY <2>2, <5>1, <5>2
      <4> QED
        BY <4>1, <4>2
    <3> HIDE DEF s
    <3>3. /\ HeightAt(f) \in Nat /\ HeightAt(f) >= Arity(s)
          /\ HeightAt(g) = HeightAt(f) - Arity(s) + IF IsExpression(s.op) THEN 1 ELSE 0
      BY <2>1, <2>3, <2>5, <3>1, <3>2
    <3> QED
      BY <1>1, <1>2, <2>1, <3>1, <3>3 DEF s
  <2> QED
    BY <2>1, <2>4, <2>5
<1>3. CASE f.inst # 0
  <2> DEFINE d == FragmentOf(f).domain
             b == FragmentOf(f).body
  <2>1. /\ Len(d) \in Nat /\ Len(b) \in Nat
        /\ Len(Code(f)) = Len(d) + 1 + Len(b)
        /\ \A i \in 1 .. Len(d) : Code(f)[i] = d[i]
        /\ Code(f)[Len(d) + 1] = [ op |-> "body" ]
        /\ \A i \in 1 .. Len(b) : Code(f)[Len(d) + 1 + i] = b[i]
    BY <1>3, FragmentCode DEF Known
  <2>2. d \in Codes /\ b \in Codes /\ \A i \in 1 .. Len(d) : d[i].op \notin { "return", "fragment" }
    BY <1>3, FragmentIsCode DEF Known
  <2>3. /\ \A i \in 1 .. Len(d) :
              /\ d[i] \in Steps /\ WellFormed(d[i])
              /\ Height(d)[i] \in Nat /\ Height(d)[i] >= Arity(d[i])
              /\ Height(d)[i + 1] = Height(d)[i] - Arity(d[i])
                                      + IF IsExpression(d[i].op) THEN 1 ELSE 0
        /\ \A i \in 1 .. Len(b) :
              /\ b[i] \in Steps /\ WellFormed(b[i])
              /\ Height(b)[i] \in Nat /\ Height(b)[i] >= Arity(b[i])
              /\ Height(b)[i + 1] = Height(b)[i] - Arity(b[i])
                                      + IF IsExpression(b[i].op) THEN 1 ELSE 0
        /\ Height(b)[1] = 0
    <3> HIDE DEF d, b
    <3> QED
      BY <2>2, CodeIsSequence
  <2>4. /\ InBody(f) <=> f.pc > Len(d) + 1
        /\ InBody(g) <=> f.pc + 1 > Len(d) + 1
        /\ HeightAt(f) = IF f.pc > Len(d) + 1 THEN Height(b)[f.pc - Len(d) - 1] ELSE Height(d)[f.pc]
        /\ HeightAt(g) = IF f.pc + 1 > Len(d) + 1 THEN Height(b)[f.pc + 1 - Len(d) - 1]
                                                  ELSE Height(d)[f.pc + 1]
    BY <1>1, <1>3 DEF HeightAt, InBody
  <2>5. Returns(FragmentOf(f)) <=> \E i \in 1 .. Len(b) : b[i].op = "return"
    BY DEF Returns
  <2> HIDE DEF d, b
  <2>6. CASE f.pc \in 1 .. Len(d)
    <3>1. /\ s = d[f.pc] /\ s \in Steps /\ WellFormed(s) /\ s.op \notin { "entry", "body" }
          /\ Arity(s) \in Nat /\ s.op # "return"
      BY <2>1, <2>2, <2>3, <2>6 DEF WellFormed
    <3> HIDE DEF s
    <3>2. /\ HeightAt(f) \in Nat /\ HeightAt(f) >= Arity(s)
          /\ HeightAt(g) = HeightAt(f) - Arity(s) + IF IsExpression(s.op) THEN 1 ELSE 0
          /\ ~InBody(f) /\ ~InBody(g)
      BY <2>1, <2>3, <2>4, <2>6, <3>1
    <3> QED
      BY <1>1, <1>3, <2>1, <3>1, <3>2 DEF s
  <2>7. CASE f.pc = Len(d) + 1
    <3>1. s = [ op |-> "body" ]
      BY <2>1, <2>7
    <3>2. HeightAt(g) = 0 /\ InBody(g) /\ ~InBody(f)
      BY <2>1, <2>3, <2>4, <2>7
    <3> QED
      BY <1>1, <1>3, <2>1, <2>7, <3>1, <3>2 DEF d
  <2>8. CASE f.pc \in Len(d) + 2 .. Len(d) + 1 + Len(b)
    <3>1. PICK i \in 1 .. Len(b) : f.pc = Len(d) + 1 + i
      <4>1. f.pc - Len(d) - 1 \in 1 .. Len(b) /\ f.pc = Len(d) + 1 + (f.pc - Len(d) - 1)
        BY <2>1, <2>8
      <4> QED
        BY <4>1
    <3>2. /\ s = b[i] /\ s \in Steps /\ WellFormed(s) /\ s.op \notin { "entry", "body" }
          /\ Arity(s) \in Nat
      BY <2>1, <2>3, <3>1 DEF WellFormed
    <3> HIDE DEF s
    <3>3. InBody(f) /\ InBody(g) /\ HeightAt(f) = Height(b)[i] /\ HeightAt(g) = Height(b)[i + 1]
      <4>1. f.pc - Len(d) - 1 = i /\ f.pc + 1 - Len(d) - 1 = i + 1 /\ f.pc > Len(d) + 1
            /\ f.pc + 1 > Len(d) + 1
        BY <2>1, <3>1
      <4> QED
        BY <2>4, <4>1
    <3>4. /\ HeightAt(f) \in Nat /\ HeightAt(f) >= Arity(s)
          /\ HeightAt(g) = HeightAt(f) - Arity(s) + IF IsExpression(s.op) THEN 1 ELSE 0
      BY <2>3, <3>2, <3>3
    <3>5. s.op = "return" => Returns(FragmentOf(f))
      BY <2>5, <3>2
    <3> QED
      BY <1>1, <1>3, <2>1, <3>2, <3>3, <3>4, <3>5 DEF s
  <2> QED
    <3>1. f.pc \in 1 .. Len(d) \/ f.pc = Len(d) + 1 \/ f.pc \in Len(d) + 2 .. Len(d) + 1 + Len(b)
      BY <2>1
    <3> QED
      BY <2>6, <2>7, <2>8, <3>1
<1> QED
  BY <1>2, <1>3

-----------------------------------------------------------------------------
(* What the invariant says of the frames.                                  *)

LEMMA StackFacts ==
  ASSUME Typed, Sized, Stacked
  PROVE  /\ Len(stack) \in Nat \ { 0 } /\ Len(stack) \in 1 .. Len(stack)
         /\ Len(AllInstances) \in Nat /\ Len(FunctionDecls) \in Nat
         /\ Outwards
         /\ Top \in Frames
         /\ CurScope \in 1 .. Len(stack)
         /\ \A i \in 1 .. Len(AllInstances) : AllInstances[i] \in Instances
         /\ \A d \in 1 .. Len(FunctionDecls) : FunctionDecls[d] \in FuncDecls
         /\ \A k \in 1 .. Len(stack) :
              /\ stack[k] \in Frames /\ Known(stack[k])
              /\ stack[k].inst \in 0 .. Len(AllInstances)
              /\ k > 1 => /\ stack[k].inst \in 1 .. Len(AllInstances)
                          /\ FragmentOf(stack[k]) \in AllFragments
<1>1. /\ stack \in Seq(Frames) /\ Len(stack) \in 1 .. MaxDepth
      /\ CurScope \in 1 .. Len(stack)
      /\ FunctionDecls \in Seq(FuncDecls) /\ AllInstances \in Seq(Instances)
      /\ src \in Sources /\ MaxDepth \in Nat
  BY SourceAssumption, Zenon DEF Typed
<1>2. Len(stack) \in Nat \ { 0 } /\ Len(stack) \in 1 .. Len(stack)
  BY <1>1
<1>3. Len(AllInstances) \in Nat /\ Len(FunctionDecls) \in Nat
  BY <1>1, LenProperties
<1>4. \A k \in 1 .. Len(stack) : stack[k] \in Frames
  BY <1>1, ElementOfSeq
<1>5. \A i \in 1 .. Len(AllInstances) : AllInstances[i] \in Instances
  BY <1>1, ElementOfSeq
<1>6. \A d \in 1 .. Len(FunctionDecls) : FunctionDecls[d] \in FuncDecls
  BY <1>1, ElementOfSeq
<1>7. ASSUME NEW k \in 1 .. Len(stack)
      PROVE  /\ stack[k].prev \in 0 .. k - 1
             /\ stack[k].inst \in 0 .. Len(AllInstances)
             /\ Known(stack[k])
             /\ k > 1 => /\ stack[k].inst \in 1 .. Len(AllInstances)
                         /\ FragmentOf(stack[k]) \in AllFragments
  <2>1. Placed(k)
    BY DEF Stacked
  <2>2. stack[k].inst \in Nat /\ stack[k].prev \in Nat
    BY <1>4 DEF Frames
  <2>3. stack[k].prev \in 0 .. k - 1 /\ stack[k].inst \in 0 .. Len(AllInstances)
        /\ (k = 1 <=> stack[k].inst = 0)
    BY <1>2, <1>3, <2>1, <2>2 DEF Placed
  <2>4. CASE k = 1
    BY <1>1, <2>3, <2>4 DEF Known
  <2>5. CASE k # 1
    <3>1. stack[k].inst \in 1 .. Len(AllInstances)
      BY <1>3, <2>3, <2>5
    <3>2. AllInstances[stack[k].inst].frags \in Seq(AllFragments)
      BY <1>5, <3>1 DEF Instances
    <3>3. stack[k].frag \in 1 .. Len(AllInstances[stack[k].inst].frags)
      BY <2>1, <2>5 DEF Placed
    <3>4. FragmentOf(stack[k]) \in AllFragments
      BY <3>2, <3>3, ElementOfSeq DEF FragmentOf
    <3> QED
      BY <2>3, <2>5, <3>1, <3>4 DEF Known
  <2> QED
    BY <2>3, <2>4, <2>5
<1> QED
  BY <1>1, <1>2, <1>3, <1>4, <1>5, <1>6, <1>7 DEF Outwards, Top

(* The frame that walks is in the current scope. *)
LEMMA TopWalks ==
  ASSUME Typed, Sized, Stacked, Top.pc # 0
  PROVE  CurScope = Len(stack) /\ Walking(Top) /\ Known(Top) /\ Top.pc \in Nat \ { 0 }
<1>1. Placed(Len(stack)) /\ Len(stack) \in 1 .. Len(stack) /\ Known(Top) /\ Top \in Frames
  BY StackFacts DEF Stacked, Top
<1>2. Top.pc \in Nat
  BY <1>1 DEF Frames
<1> QED
  BY <1>1, <1>2 DEF Placed, Top

LEMMA TopSteps ==
  ASSUME Typed, Sized, Stacked, NEW op, At(op), op # "body"
  PROVE  /\ CurScope = Len(stack) /\ Top.pc \in Nat \ { 0 } /\ Top.pc \in 1 .. Len(Code(Top))
         /\ Known(Top)
         /\ Arity(Step) \in Nat /\ Len(Top.operands) \in Nat /\ Arity(Step) <= Len(Top.operands)
         /\ Len(Top.operands) = HeightAt(Top)
         /\ op \notin { "entry", "body" } => Step \in Steps /\ WellFormed(Step)
         /\ op = "entry" => Step = [ op |-> "entry" ]
         /\ \A g : g.inst = Top.inst /\ g.frag = Top.frag /\ g.pc = Top.pc + 1 =>
              /\ Code(g) = Code(Top)
              /\ HeightAt(g) = Len(Top.operands) - Arity(Step) + IF IsExpression(op) THEN 1 ELSE 0
              /\ Top.inst # 0 => (InBody(g) <=> InBody(Top))
         /\ op = "return" /\ Top.inst # 0 => InBody(Top) /\ Returns(FragmentOf(Top))
<1>1. Top.pc \in 1 .. Len(Code(Top)) /\ Step.op = op /\ Step = Code(Top)[Top.pc]
  BY DEF At, Step
<1>2. CurScope = Len(stack) /\ Walking(Top) /\ Known(Top) /\ Top.pc \in Nat \ { 0 }
  BY <1>1, TopWalks
<1>3. Len(Top.operands) = HeightAt(Top)
  BY <1>2 DEF Walking
<1>4. Top \in Frames
  BY StackFacts
<1>5. ASSUME NEW g, g.inst = Top.inst, g.frag = Top.frag, g.pc = Top.pc + 1
      PROVE  /\ Code(g) = Code(Top)
             /\ \/ Step \in Steps /\ WellFormed(Step) /\ Step.op \notin { "entry", "body" }
                \/ Step = [ op |-> "entry" ]
             /\ Arity(Step) \in Nat
             /\ HeightAt(Top) \in Nat /\ HeightAt(Top) >= Arity(Step)
             /\ HeightAt(g) = HeightAt(Top) - Arity(Step) + IF IsExpression(Step.op) THEN 1 ELSE 0
             /\ Top.inst # 0 => (InBody(g) <=> InBody(Top))
             /\ Step.op = "return" /\ Top.inst # 0 => InBody(Top) /\ Returns(FragmentOf(Top))
  <2>1. Step # [ op |-> "body" ]
    BY <1>1
  <2> QED
    BY <1>1, <1>2, <1>5, <2>1, StepOf
<1>6. PICK g : g.inst = Top.inst /\ g.frag = Top.frag /\ g.pc = Top.pc + 1
  <2>1. [ Top EXCEPT !.pc = Top.pc + 1 ].inst = Top.inst
        /\ [ Top EXCEPT !.pc = Top.pc + 1 ].frag = Top.frag
        /\ [ Top EXCEPT !.pc = Top.pc + 1 ].pc = Top.pc + 1
    BY <1>4 DEF Frames
  <2> QED
    BY <2>1
<1> QED
  BY <1>1, <1>2, <1>3, <1>5, <1>6

-----------------------------------------------------------------------------
(* Codes and heights do not depend on what analysis finds out.             *)
SameCodes ==
  /\ src' = src
  /\ Len(AllInstances) <= Len(AllInstances')
  /\ \A i \in 1 .. Len(AllInstances) :
       AllInstances'[i].frags = AllInstances[i].frags /\ AllInstances'[i].decl = AllInstances[i].decl

LEMMA CodesKept ==
  ASSUME SameCodes, Len(AllInstances) \in Nat, NEW f, f.inst \in 0 .. Len(AllInstances)
  PROVE  /\ Code(f)' = Code(f)
         /\ f.inst # 0 => FragmentOf(f)' = FragmentOf(f) /\ (InBody(f)' <=> InBody(f))
                          /\ (Returning(f)' <=> Returning(f))
                          /\ (Returns(FragmentOf(f))' <=> Returns(FragmentOf(f)))
         /\ HeightAt(f)' = HeightAt(f)
         /\ Waiting(f)' <=> Waiting(f)
         /\ Walking(f)' <=> Walking(f)
<1>1. f.inst # 0 => AllInstances'[f.inst].frags = AllInstances[f.inst].frags
  BY DEF SameCodes
<1>2. src' = src
  BY DEF SameCodes
<1>3. Code(f)' = Code(f)
  BY <1>1, <1>2 DEF Code
<1>4. f.inst # 0 => FragmentOf(f)' = FragmentOf(f)
  BY <1>1 DEF FragmentOf
<1>5. f.inst # 0 => /\ InBody(f)' <=> InBody(f)
                    /\ Returns(FragmentOf(f))' <=> Returns(FragmentOf(f))
                    /\ Returning(f)' <=> Returning(f)
  BY <1>4 DEF InBody, Returns, Returning
<1>6. HeightAt(f)' = HeightAt(f)
  BY <1>2, <1>4, <1>5 DEF HeightAt
<1>7. (Waiting(f)' <=> Waiting(f)) /\ (Walking(f)' <=> Walking(f))
  BY <1>3, <1>6 DEF Waiting, Walking
<1> QED
  BY <1>3, <1>4, <1>5, <1>6, <1>7

-----------------------------------------------------------------------------
(* Steps of the frame at the top.                                          *)
KeepsCodes ==
  /\ SameCodes
  /\ AllInstances' \in Seq(Instances)
  /\ \A i \in 1 .. Len(AllInstances) :
       Len(AllInstances'[i].ret) = Len(AllInstances[i].ret)

KeepsFunctions ==
  /\ FunctionDecls' \in Seq(FuncDecls)
  /\ Len(FunctionDecls) <= Len(FunctionDecls')
  /\ \A d \in 1 .. Len(FunctionDecls') : FunctionDecls'[d].frags # << >>

Replaces(g) ==
  /\ g.inst = Top.inst /\ g.prev = Top.prev /\ g.back = Top.back
  /\ stack' = [ stack EXCEPT ![Len(stack)] = g ]
  /\ status' = status

LEMMA TopReplaced ==
  ASSUME Typed, Sized, Stacked, InstancesPlaced,
         KeepsCodes, KeepsFunctions, Len(AllInstances') = Len(AllInstances),
         NEW g \in Frames, Replaces(g),
         Len(stack) > 1 => g.frag \in 1 .. Len(AllInstances[Top.inst].frags),
         \/ Walking(g) /\ CurScope' = Len(stack)
         \/ g.pc = 0 /\ Len(stack) > 1 /\ g.operands = << >> /\ CurScope' = CurScope
  PROVE  /\ Typed' /\ Sized' /\ Stacked' /\ InstancesPlaced'
         /\ Len(stack') = Len(stack)
         /\ \A k \in 1 .. Len(stack) : stack'[k] = IF k = Len(stack) THEN g ELSE stack[k]
         /\ Top' = g
<1>1. /\ Len(stack) \in Nat \ { 0 } /\ Len(stack) \in 1 .. Len(stack)
      /\ Len(AllInstances) \in Nat /\ Len(FunctionDecls) \in Nat
      /\ CurScope \in 1 .. Len(stack)
      /\ stack \in Seq(Frames)
      /\ \A k \in 1 .. Len(stack) :
           stack[k] \in Frames /\ stack[k].inst \in 0 .. Len(AllInstances)
           /\ stack[k].prev \in 0 .. k - 1
           /\ (k > 1 => stack[k].inst \in 1 .. Len(AllInstances))
  BY StackFacts DEF Typed, Outwards
<1>2. /\ stack' \in Seq(Frames) /\ Len(stack') = Len(stack)
      /\ \A k \in 1 .. Len(stack) : stack'[k] = IF k = Len(stack) THEN g ELSE stack[k]
  BY <1>1, ExceptSeq DEF Replaces
<1>3. Typed'
  <2>1. CurScope' \in 1 .. Len(stack')
    BY <1>1, <1>2
  <2>2. src' \in Sources /\ FunctionDecls' \in Seq(FuncDecls) /\ AllInstances' \in Seq(Instances)
        /\ status' \in { "running", "accepted", "crashed", "overflowed" } \cup Rejections
        /\ Len(stack') \in 1 .. MaxDepth
    BY <1>2 DEF Typed, KeepsCodes, SameCodes, KeepsFunctions, Replaces
  <2> QED
    BY <1>2, <2>1, <2>2 DEF Typed
<1>4. \A i \in 1 .. Len(AllInstances) :
        /\ AllInstances'[i].frags = AllInstances[i].frags
        /\ AllInstances'[i].decl = AllInstances[i].decl
        /\ Len(AllInstances'[i].ret) = Len(AllInstances[i].ret)
  BY DEF KeepsCodes, SameCodes
<1>5. Sized'
  <2>1. \A i \in 1 .. Len(AllInstances) :
         /\ AllInstances[i].decl \in 1 .. Len(FunctionDecls)
         /\ AllInstances[i].frags # << >>
         /\ Len(AllInstances[i].ret) = Len(AllInstances[i].frags)
    BY DEF Sized
  <2>2. FunctionDecls' \in Seq(FuncDecls) /\ Len(FunctionDecls) <= Len(FunctionDecls')
    BY DEF KeepsFunctions
  <2>3. Len(FunctionDecls') \in Nat
    BY <2>2, LenProperties
  <2>4. 1 .. Len(FunctionDecls) \subseteq 1 .. Len(FunctionDecls')
    BY <1>1, <2>2, <2>3
  <2> QED
    BY <1>4, <2>1, <2>4 DEF Sized, KeepsFunctions
<1>6. \A f : f.inst \in 0 .. Len(AllInstances) =>
        (Waiting(f)' <=> Waiting(f)) /\ (Walking(f)' <=> Walking(f)) /\ Code(f)' = Code(f)
  BY <1>1, CodesKept DEF KeepsCodes
<1>7. Stacked'
  <2> SUFFICES ASSUME NEW k \in 1 .. Len(stack) PROVE Placed(k)'
    BY <1>2 DEF Stacked
  <2>1. Placed(k) /\ Placed(Len(stack)) /\ Top = stack[Len(stack)]
    BY <1>1 DEF Stacked, Top
  <2>2. \A j \in 1 .. Len(stack) : stack'[j].inst = stack[j].inst
    BY <1>2, <2>1, Zenon DEF Replaces
  <2>3. stack'[k].prev = stack[k].prev /\ stack'[k].back = stack[k].back
    BY <1>2, <2>1, Zenon DEF Replaces
  <2>4. \A j \in 1 .. k - 1 : stack'[j].inst # stack'[k].inst
    <3>1. \A j \in 1 .. k - 1 : j \in 1 .. Len(stack)
      BY <1>1
    <3> QED
      BY <2>1, <2>2, <3>1 DEF Placed
  <2>5. k > 1 => stack'[k].frag \in 1 .. Len(AllInstances'[stack'[k].inst].frags)
    <3> SUFFICES ASSUME k > 1 PROVE stack'[k].frag \in 1 .. Len(AllInstances'[stack'[k].inst].frags)
      OBVIOUS
    <3>1. AllInstances'[stack'[k].inst].frags = AllInstances[stack[k].inst].frags
      BY <1>1, <1>4, <2>2
    <3>2. stack[k].frag \in 1 .. Len(AllInstances[stack[k].inst].frags)
      BY <2>1 DEF Placed
    <3> QED
      BY <1>1, <1>2, <2>1, <3>1, <3>2
  <2>6. k < Len(stack) => Waiting(stack[k])'
    <3> SUFFICES ASSUME k < Len(stack) PROVE Waiting(stack[k])'
      OBVIOUS
    <3>1. Waiting(stack[k]) /\ stack'[k] = stack[k]
      BY <1>1, <1>2, <2>1 DEF Placed
    <3>2. stack[k].inst \in 0 .. Len(AllInstances)
      BY <1>1
    <3> QED
      BY <1>6, <3>1, <3>2
  <2>7. k = Len(stack) => \/ Walking(stack[k])' /\ CurScope' = k
                          \/ stack'[k].pc = 0 /\ k > 1 /\ stack'[k].operands = << >>
    <3> SUFFICES ASSUME k = Len(stack)
                 PROVE  \/ Walking(stack[k])' /\ CurScope' = k
                        \/ stack'[k].pc = 0 /\ k > 1 /\ stack'[k].operands = << >>
      OBVIOUS
    <3>1. stack'[k] = g /\ g.inst \in 0 .. Len(AllInstances)
      BY <1>1, <1>2, <2>1 DEF Replaces
    <3> QED
      BY <1>6, <3>1
  <2> QED
    BY <1>2, <2>1, <2>2, <2>3, <2>4, <2>5, <2>6, <2>7 DEF Placed
<1>8. InstancesPlaced'
  <2> SUFFICES ASSUME NEW k \in 2 .. Len(stack),
                      NEW j \in 1 .. Len(AllInstances'[stack'[k].inst].frags)
               PROVE  IsPartOf(Code(stack[stack[k].prev])', AllInstances'[stack'[k].inst].frags[j])
    BY <1>2 DEF InstancesPlaced, IsPartOf
  <2>1. k \in 1 .. Len(stack) /\ k > 1
    BY <1>1
  <2>2. stack'[k].inst = stack[k].inst /\ stack'[k].prev = stack[k].prev
    BY <1>2, <2>1 DEF Replaces, Top
  <2>3. AllInstances'[stack'[k].inst].frags = AllInstances[stack[k].inst].frags
    BY <1>1, <1>4, <2>1, <2>2
  <2>4. stack[k].prev \in 1 .. k - 1
    <3>1. Placed(k)
      BY <2>1 DEF Stacked
    <3> QED
      BY <1>1, <2>1, <3>1 DEF Placed
  <2>5. stack[k].prev \in 1 .. Len(stack) /\ stack[k].prev # Len(stack)
    BY <1>1, <2>1, <2>4
  <2>6. stack'[stack'[k].prev] = stack[stack[k].prev]
        /\ stack[stack[k].prev].inst \in 0 .. Len(AllInstances)
    BY <1>1, <1>2, <2>2, <2>5
  <2>7. Code(stack[stack[k].prev])' = Code(stack[stack[k].prev])
    BY <1>6, <2>6
  <2>8. IsPartOf(Code(stack[stack[k].prev]), AllInstances[stack[k].inst].frags[j])
    BY <2>3 DEF InstancesPlaced
  <2> QED
    BY <2>3, <2>7, <2>8
<1> QED
  BY <1>1, <1>2, <1>3, <1>5, <1>7, <1>8 DEF Top

LEMMA FrameAdvances ==
  ASSUME IInv, NEW op, At(op), op # "body",
         NEW g \in Frames, Replaces(g), g.frag = Top.frag, g.pc = Top.pc + 1,
         Len(g.operands) = Len(Top.operands) - Arity(Step) + IF IsExpression(op) THEN 1 ELSE 0,
         g.rets = Top.rets \/ op = "return",
         KeepsFunctions, UNCHANGED << src, CurScope, AllInstances >>
  PROVE  /\ Typed' /\ Sized' /\ Stacked' /\ InstancesPlaced' /\ Unique' /\ Undecided'
         /\ Len(stack') = Len(stack)
         /\ \A k \in 1 .. Len(stack) : stack'[k] = IF k = Len(stack) THEN g ELSE stack[k]
<1>0. Typed /\ Sized /\ Stacked /\ InstancesPlaced /\ InstancesDiffer /\ Undecided
  BY DEF IInv, Lexical, Unique
<1>1. /\ CurScope = Len(stack) /\ Top.pc \in Nat \ { 0 } /\ Top.pc \in 1 .. Len(Code(Top))
      /\ Code(g) = Code(Top)
      /\ HeightAt(g) = Len(Top.operands) - Arity(Step) + IF IsExpression(op) THEN 1 ELSE 0
      /\ Top.inst # 0 => (InBody(g) <=> InBody(Top))
      /\ op = "return" /\ Top.inst # 0 => InBody(Top) /\ Returns(FragmentOf(Top))
  BY <1>0, TopSteps DEF Replaces
<1>2. /\ Len(stack) \in Nat \ { 0 } /\ Len(stack) \in 1 .. Len(stack) /\ Top = stack[Len(stack)]
      /\ Len(AllInstances) \in Nat
      /\ \A k \in 1 .. Len(stack) : k > 1 => stack[k].inst \in 1 .. Len(AllInstances)
  BY <1>0, StackFacts DEF Top
<1>3. KeepsCodes
  <2>1. \A i \in 1 .. Len(AllInstances') : AllInstances'[i] = AllInstances[i]
    OBVIOUS
  <2>2. AllInstances' \in Seq(Instances) /\ Len(AllInstances) <= Len(AllInstances')
    BY <1>0, <1>2 DEF Typed
  <2> QED
    BY <2>1, <2>2 DEF KeepsCodes, SameCodes
<1>4. Walking(g)
  <2>1. g.pc \in 1 .. Len(Code(g)) + 1
    BY <1>1
  <2> QED
    BY <1>1, <2>1 DEF Walking
<1>5. Len(stack) > 1 => g.frag \in 1 .. Len(AllInstances[Top.inst].frags)
  <2>1. Placed(Len(stack))
    BY <1>0, <1>2 DEF Stacked
  <2> QED
    BY <1>2, <2>1 DEF Placed
<1>6. /\ Typed' /\ Sized' /\ Stacked' /\ InstancesPlaced'
      /\ Len(stack') = Len(stack)
      /\ \A k \in 1 .. Len(stack) : stack'[k] = IF k = Len(stack) THEN g ELSE stack[k]
      /\ Top' = g
  BY <1>0, <1>1, <1>3, <1>4, <1>5, TopReplaced
<1>7. g.pc # 0 /\ g.inst = Top.inst
  BY <1>1 DEF Replaces
<1>8. \A k \in 1 .. Len(stack) :
        /\ stack'[k].inst = stack[k].inst /\ stack'[k].frag = stack[k].frag
        /\ stack'[k].pc = 0 <=> stack[k].pc = 0
  BY <1>1, <1>2, <1>6, <1>7
<1>9. InstancesDiffer'
  <2>1. \A i : Entered(i)' <=> Entered(i)
    BY <1>6, <1>8 DEF Entered
  <2> QED
    BY <1>0, <2>1 DEF InstancesDiffer
<1>10. Unseen'
  BY <1>6, <1>7 DEF Unseen
<1>11. Undecided'
  <2> SUFFICES ASSUME NEW k \in 2 .. Len(stack)
               PROVE  /\ ~Returning(stack[k])' => stack'[k].rets = << >>
                      /\ stack'[k].frag = 1 =>
                           \/ getReturnType(stack[k].inst)' = NoType
                           \/ InBody(stack[k])' /\ ~Returns(FragmentOf(stack[k]))'
    BY <1>6 DEF Undecided
  <2>1. /\ ~Returning(stack[k]) => stack[k].rets = << >>
        /\ stack[k].frag = 1 =>
             \/ getReturnType(stack[k].inst) = NoType
             \/ InBody(stack[k]) /\ ~Returns(FragmentOf(stack[k]))
    BY <1>0 DEF Undecided
  <2>2. stack[k].inst \in 1 .. Len(AllInstances) /\ stack[k].inst # 0
    BY <1>2
  <2>3. \A f : f.inst \in 1 .. Len(AllInstances) =>
          /\ Returning(f)' <=> Returning(f)
          /\ InBody(f)' <=> InBody(f)
          /\ Returns(FragmentOf(f))' <=> Returns(FragmentOf(f))
          /\ FragmentOf(f)' = FragmentOf(f)
    BY <1>2, <1>3, CodesKept DEF KeepsCodes
  <2>4. getReturnType(stack[k].inst)' = getReturnType(stack[k].inst)
    <3>1. k \in 1 .. Len(stack)
      BY <1>2
    <3> QED
      BY <1>8, <3>1 DEF getReturnType
  <2>5. CASE k = Len(stack)
    <3>1. stack'[k] = g /\ stack[k] = Top
      BY <1>2, <1>6, <2>5
    <3>2. FragmentOf(g) = FragmentOf(Top)
      BY <1>7 DEF FragmentOf
    <3>3. (InBody(g) <=> InBody(Top)) /\ (Returning(g) <=> Returning(Top))
          /\ (op = "return" => InBody(g) /\ Returns(FragmentOf(g)))
      BY <1>1, <2>2, <3>1, <3>2 DEF Returning
    <3>4. ~Returning(g) => g.rets = << >>
      BY <2>1, <3>1, <3>3 DEF Returning
    <3>5. g.inst \in 1 .. Len(AllInstances)
      BY <1>7, <2>2, <3>1
    <3>6. /\ Returning(g)' <=> Returning(g)
          /\ InBody(g)' <=> InBody(g)
          /\ Returns(FragmentOf(g))' <=> Returns(FragmentOf(g))
      BY <2>3, <3>5
    <3> QED
      BY <2>1, <2>4, <3>1, <3>2, <3>3, <3>4, <3>6
  <2>6. CASE k # Len(stack)
    <3>1. stack'[k] = stack[k]
      BY <1>2, <1>6, <2>6
    <3>2. /\ Returning(stack[k])' <=> Returning(stack[k])
          /\ InBody(stack[k])' <=> InBody(stack[k])
          /\ Returns(FragmentOf(stack[k]))' <=> Returns(FragmentOf(stack[k]))
      BY <2>2, <2>3, <3>1
    <3> QED
      BY <2>1, <2>4, <3>1, <3>2
  <2> QED
    BY <2>5, <2>6
<1> QED
  BY <1>6, <1>9, <1>10, <1>11 DEF Unique

(* A step of the top frame that declares no function. *)
LEMMA FunctionsStayPlaced ==
  ASSUME IInv, NEW g, Replaces(g), Len(stack') = Len(stack),
         \A k \in 1 .. Len(stack) : stack'[k] = IF k = Len(stack) THEN g ELSE stack[k],
         Code(g) = Code(Top) \/ DOMAIN g.decls = {}, SameCodes, FunctionDecls' = FunctionDecls,
         \A fd : (\E id \in DOMAIN g.decls : g.decls[id] = Function(fd)) => Declares(Len(stack), fd)
  PROVE  FunctionsPlaced'
<1>1. /\ Len(stack) \in Nat \ { 0 } /\ Top = stack[Len(stack)]
      /\ Len(AllInstances) \in Nat
      /\ \A k \in 1 .. Len(stack) : stack[k].inst \in 0 .. Len(AllInstances)
  BY StackFacts DEF IInv, Top
<1>2. \A k \in 1 .. Len(stack), fd \in Nat : Declares(k, fd)' => Declares(k, fd)
  BY <1>1 DEF Declares
<1>3. ASSUME NEW k \in 1 .. Len(stack), NEW fd \in Nat, Declares(k, fd)'
      PROVE  Code(stack[k])' = Code(stack[k])
  <2>1. \A f : f.inst \in 0 .. Len(AllInstances) => Code(f)' = Code(f)
    BY <1>1, CodesKept
  <2>2. stack'[k].inst = stack[k].inst /\ (k = Len(stack) => stack'[k] = g) /\ (k # Len(stack) => stack'[k] = stack[k])
    BY <1>1, Zenon DEF Replaces
  <2>3. k = Len(stack) => Code(g) = Code(Top)
    BY <1>3, <2>2 DEF Declares
  <2> QED
    BY <1>1, <2>1, <2>2, <2>3
<1>4. \A k \in 1 .. Len(stack), fd \in Nat : Declares(k, fd) =>
        /\ fd \in 1 .. Len(FunctionDecls)
        /\ \A j \in 1 .. Len(FunctionDecls[fd].frags) : IsPartOf(Code(stack[k]), FunctionDecls[fd].frags[j])
        /\ \A m \in 1 .. Len(stack) : Declares(m, fd) => m = k
  BY DEF IInv, Lexical, FunctionsPlaced
<1> SUFFICES ASSUME NEW k \in 1 .. Len(stack), NEW fd \in Nat, Declares(k, fd)'
             PROVE  /\ fd \in 1 .. Len(FunctionDecls)
                    /\ \A j \in 1 .. Len(FunctionDecls[fd].frags) :
                         IsPartOf(Code(stack[k])', FunctionDecls[fd].frags[j])
                    /\ \A m \in 1 .. Len(stack) : Declares(m, fd)' => m = k
  BY DEF FunctionsPlaced, IsPartOf
<1> QED
  BY <1>2, <1>3, <1>4

-----------------------------------------------------------------------------
(* The analysis ends, or an expression has a value.                        *)
Endings == { "accepted", "crashed", "overflowed" } \cup Rejections

LEMMA UnchangedKeeps ==
  ASSUME IInv, UNCHANGED << src, stack, CurScope, FunctionDecls, AllInstances >>,
         status' \in { "running" } \cup Endings
  PROVE  IInv'
<1>1. Typed'
  BY DEF IInv, Typed, Endings
<1>2. Sized'
  BY DEF IInv, Sized
<1>3. \A f : /\ Code(f)' = Code(f) /\ FragmentOf(f)' = FragmentOf(f)
             /\ InBody(f)' = InBody(f) /\ HeightAt(f)' = HeightAt(f)
  BY DEF Code, FragmentOf, InBody, HeightAt
<1>31. ASSUME NEW f
       PROVE  /\ Waiting(f)' <=> Waiting(f)
              /\ Walking(f)' <=> Walking(f)
              /\ Returning(f)' <=> Returning(f)
              /\ Returns(FragmentOf(f))' <=> Returns(FragmentOf(f))
              /\ getReturnType(f.inst)' = getReturnType(f.inst)
  <2>1. Returns(FragmentOf(f))' <=> Returns(FragmentOf(f))
    BY <1>3 DEF Returns
  <2> QED
    BY <1>3, <2>1 DEF Waiting, Walking, Returning, getReturnType
<1>4. Stacked'
  BY <1>31 DEF IInv, Stacked, Placed
<1>5. FunctionsPlaced'
  BY <1>3 DEF IInv, Lexical, FunctionsPlaced, Declares
<1>6. InstancesPlaced'
  BY <1>3 DEF IInv, Lexical, InstancesPlaced
<1>7. Unique'
  BY DEF IInv, Unique, InstancesDiffer, Entered, Unseen, Top
<1>8. Undecided'
  BY <1>3, <1>31 DEF IInv, Undecided
<1> QED
  BY <1>1, <1>2, <1>4, <1>5, <1>6, <1>7, <1>8 DEF IInv, Lexical

LEMMA StopKeeps ==
  ASSUME IInv, NEW how \in Endings, Stop(how)
  PROVE  IInv'
BY UnchangedKeeps DEF Stop

LEMMA RejectStops ==
  ASSUME NEW ts, Reject(ts)
  PROVE  \E how \in Endings : Stop(how)
<1>1. "crashed" \in Endings /\ "rejected" \in Endings /\ "unnamed" \in Endings
  BY DEF Endings, Rejections
<1> QED
  BY <1>1 DEF Reject

LEMMA JudgeEnds ==
  ASSUME NEW ts, NEW crash, NEW valid, NEW n, NEW e, JudgeSpelling(ts, crash, valid, n, e)
  PROVE  \/ \E how \in Endings : Stop(how)
         \/ ~crash /\ valid /\ Eval(n, e)
<1>1. "crashed" \in Endings
  BY DEF Endings
<1>2. CASE crash
  BY <1>1, <1>2 DEF JudgeSpelling
<1>3. CASE ~crash /\ valid
  BY <1>3 DEF JudgeSpelling
<1>4. CASE ~crash /\ ~valid
  BY <1>4, RejectStops DEF JudgeSpelling
<1> QED
  BY <1>2, <1>3, <1>4

SameFrame(g, f) ==
  /\ g.inst = f.inst /\ g.frag = f.frag /\ g.args = f.args
  /\ g.prev = f.prev /\ g.back = f.back

LEMMA UsedFrame ==
  ASSUME NEW f \in Frames, NEW n \in Nat, n <= Len(f.operands), NEW es \in Seq(Exprs)
  PROVE  LET g == Used(f, n, es) IN
         /\ g \in Frames /\ SameFrame(g, f)
         /\ g.pc = f.pc + 1 /\ g.decls = f.decls /\ g.rets = f.rets
         /\ Len(g.operands) = Len(f.operands) - n + Len(es)
<1> DEFINE rest == SubSeq(f.operands, 1, Len(f.operands) - n)
<1>1. f.operands \in Seq(Exprs) /\ Len(f.operands) \in Nat /\ f.pc \in Nat
  BY LenProperties DEF Frames
<1>2. rest \in Seq(Exprs) /\ Len(rest) = Len(f.operands) - n
  <2>1. \A i \in 1 .. Len(f.operands) - n : f.operands[i] \in Exprs
    BY <1>1, ElementOfSeq
  <2>2. 1 \in Int /\ Len(f.operands) - n \in Int /\ Len(f.operands) - n >= 0
    BY <1>1
  <2>3. rest \in Seq(Exprs)
        /\ Len(rest) = IF 1 <= Len(f.operands) - n THEN Len(f.operands) - n - 1 + 1 ELSE 0
    BY <2>1, <2>2, SubSeqProperties
  <2> QED
    BY <2>2, <2>3
<1> HIDE DEF rest
<1>3. rest \o es \in Seq(Exprs) /\ Len(rest \o es) = Len(rest) + Len(es)
  BY <1>2, ConcatProperties
<1> DEFINE now == rest \o es
<1>4. now \in Seq(Exprs) /\ Len(now) = Len(f.operands) - n + Len(es)
  BY <1>2, <1>3
<1>5. Used(f, n, es) = [ f EXCEPT !.pc = f.pc + 1, !.operands = now ]
  BY DEF Used, rest, Frames
<1> HIDE DEF now
<1> DEFINE h == [ f EXCEPT !.pc = f.pc + 1, !.operands = now ]
<1>6. /\ h \in Frames /\ h.inst = f.inst /\ h.frag = f.frag /\ h.pc = f.pc + 1
      /\ h.args = f.args /\ h.prev = f.prev /\ h.back = f.back /\ h.decls = f.decls
      /\ h.rets = f.rets /\ h.operands = now
  <2> DEFINE Ops  == Seq(Exprs)
             Tys  == Seq(AnyType)
  <2>1. now \in Ops /\ f.pc + 1 \in Nat
    BY <1>1, <1>4
  <2>2. Frames = [ inst : Nat, frag : Nat, pc : Nat, args : Tys, prev : Nat, back : Nat,
                   decls : Scopes, operands : Ops, rets : Tys ]
    BY DEF Frames
  <2> HIDE DEF Ops, Tys
  <2> QED
    BY <2>1, <2>2
<1> HIDE DEF h
<1>7. Used(f, n, es) = h
  BY <1>5 DEF h
<1>8. SameFrame(h, f)
  BY <1>6 DEF SameFrame
<1> QED
  BY <1>4, <1>6, <1>7, <1>8

LEMMA EvalKeeps ==
  ASSUME IInv, NEW op, At(op), op \notin { "let", "init", "fragment", "return", "discard", "body" },
         NEW n, n = Arity(Step), NEW e \in Exprs, Eval(n, e)
  PROVE  IInv'
<1> DEFINE g == Used(Top, n, << e >>)
<1>1. /\ Arity(Step) \in Nat /\ Arity(Step) <= Len(Top.operands) /\ Len(Top.operands) \in Nat
      /\ \A f : f.inst = Top.inst /\ f.frag = Top.frag /\ f.pc = Top.pc + 1 => Code(f) = Code(Top)
  BY TopSteps DEF IInv
<1>2. Top \in Frames /\ Len(stack) \in 1 .. Len(stack) /\ Top = stack[Len(stack)]
  BY StackFacts DEF IInv, Top
<1>3. /\ g \in Frames /\ SameFrame(g, Top)
      /\ g.pc = Top.pc + 1 /\ g.decls = Top.decls /\ g.rets = Top.rets
      /\ Len(g.operands) = Len(Top.operands) - n + 1
  <2>1. Top \in Frames /\ << e >> \in Seq(Exprs) /\ Len(<< e >>) = 1
    BY <1>2, OneElement
  <2>2. n \in Nat /\ n <= Len(Top.operands)
    BY <1>1
  <2>3. ASSUME NEW es \in Seq(Exprs)
        PROVE  LET h == Used(Top, n, es) IN
               /\ h \in Frames /\ SameFrame(h, Top)
               /\ h.pc = Top.pc + 1 /\ h.decls = Top.decls /\ h.rets = Top.rets
               /\ Len(h.operands) = Len(Top.operands) - n + Len(es)
    BY <2>1, <2>2, UsedFrame
  <2> QED
    BY <2>1, <2>3
<1>4. /\ stack' = [ stack EXCEPT ![Len(stack)] = g ]
      /\ UNCHANGED << src, CurScope, FunctionDecls, AllInstances, status >>
  BY DEF Eval, Advance
<1> HIDE DEF g
<1>5. Replaces(g)
  BY <1>3, <1>4 DEF Replaces, SameFrame
<1>6. KeepsFunctions /\ SameCodes
  <2>1. Len(FunctionDecls) \in Nat /\ Len(AllInstances) \in Nat
    BY StackFacts DEF IInv
  <2> QED
    BY <1>4, <2>1 DEF IInv, Typed, Sized, KeepsFunctions, SameCodes
<1>7. IsExpression(op)
  BY DEF IsExpression
<1>8. /\ Typed' /\ Sized' /\ Stacked' /\ InstancesPlaced' /\ Unique' /\ Undecided'
      /\ Len(stack') = Len(stack)
      /\ \A k \in 1 .. Len(stack) : stack'[k] = IF k = Len(stack) THEN g ELSE stack[k]
  BY <1>3, <1>4, <1>5, <1>6, <1>7, FrameAdvances DEF SameFrame
<1>9. FunctionsPlaced'
  <2>1. Code(g) = Code(Top)
    BY <1>1, <1>3 DEF SameFrame
  <2>2. \A fd : (\E id \in DOMAIN g.decls : g.decls[id] = Function(fd)) => Declares(Len(stack), fd)
    BY <1>2, <1>3 DEF Declares
  <2> QED
    BY <1>4, <1>5, <1>6, <1>8, <2>1, <2>2, FunctionsStayPlaced, Zenon
<1> QED
  BY <1>8, <1>9 DEF IInv, Lexical

LEMMA JudgeKeeps ==
  ASSUME IInv, NEW op, At(op), op \notin { "let", "init", "fragment", "return", "discard", "body" },
         NEW ts, NEW crash, NEW valid, NEW n, NEW e,
         JudgeSpelling(ts, crash, valid, n, e),
         ~crash /\ valid => n = Arity(Step) /\ e \in Exprs
  PROVE  IInv'
<1>1. CASE \E how \in Endings : Stop(how)
  BY <1>1, StopKeeps
<1>2. CASE ~crash /\ valid /\ Eval(n, e)
  BY <1>2, EvalKeeps
<1> QED
  BY <1>1, <1>2, JudgeEnds

-----------------------------------------------------------------------------
(* Expressions                                                             *)

LEMMA Joined ==
  ASSUME NEW word \in Words, NEW t \in AnyType
  PROVE  /\ << word >> \o t \in AnyType /\ Len(<< word >> \o t) = Len(t) + 1
         /\ (<< word >> \o t)[1] = word /\ << word >> \o t # << >>
         /\ Head(<< word >> \o t) = word
         /\ Len(t) \in Nat
<1>1. << word >> \in Seq(Words) /\ Len(<< word >>) = 1 /\ << word >>[1] = word
  BY OneElement
<1>2. t \in Seq(Words) /\ Len(t) \in Nat
  BY LenProperties DEF AnyType
<1> DEFINE w == << word >>
<1> HIDE DEF w
<1>3. w \in Seq(Words) /\ Len(w) = 1 /\ w[1] = word
  BY <1>1 DEF w
<1>4. /\ w \o t \in Seq(Words) /\ Len(w \o t) = Len(w) + Len(t)
      /\ \A i \in 1 .. Len(w) + Len(t) : (w \o t)[i] = IF i <= Len(w) THEN w[i] ELSE t[i - Len(w)]
  BY <1>2, <1>3, ConcatProperties
<1> DEFINE r == w \o t
<1>5. /\ r \in Seq(Words) /\ Len(r) = Len(w) + Len(t)
      /\ \A i \in 1 .. Len(w) + Len(t) : r[i] = IF i <= Len(w) THEN w[i] ELSE t[i - Len(w)]
  BY <1>4
<1> HIDE DEF r
<1>6. Len(r) = Len(t) + 1 /\ r[1] = word
  BY <1>2, <1>3, <1>5
<1>7. r # << >>
  <2>1. Len(r) # 0
    BY <1>2, <1>6
  <2> QED
    BY <2>1, EmptySeq
<1>8. Head(r) = word
  BY <1>2, <1>5, <1>6
<1>9. r = << word >> \o t
  BY DEF w, r
<1> QED
  BY <1>2, <1>5, <1>6, <1>7, <1>8, <1>9 DEF AnyType

LEMMA BasicTypes ==
  /\ NoType \in AnyType /\ VoidTy \in AnyType /\ BoolTy \in AnyType
  /\ IntTy \in AnyType /\ UintTy \in AnyType
  /\ StringTy \in AnyType /\ MetaTy \in AnyType
<1>1. /\ "void" \in Words /\ "bool" \in Words /\ "int" \in Words /\ "uint" \in Words
      /\ "string" \in Words /\ "meta" \in Words
  BY DEF Words
<1>2. << >> \in Seq(Words)
  BY EmptySeq
<1>3. /\ << "void" >> \in Seq(Words) /\ << "bool" >> \in Seq(Words)
      /\ << "int" >> \in Seq(Words) /\ << "uint" >> \in Seq(Words)
      /\ << "string" >> \in Seq(Words) /\ << "meta" >> \in Seq(Words)
  BY <1>1, OneElement
<1> QED
  BY <1>2, <1>3 DEF NoType, VoidTy, BoolTy, IntTy, UintTy, StringTy, MetaTy, AnyType

(* So are the types the parser writes into a program. *)
LEMMA WrittenTypes ==
  ASSUME NEW s, WellFormed(s)
  PROVE  /\ s.op = "literal" => s.type \in AnyType /\ s.value \in AnyValue
         /\ s.op = "cast" => s.type \in AnyType
<1>1. s.op = "literal" => s.type \in { IntTy, StringTy, MetaTy } /\ s.value \in AnyValue
  BY DEF WellFormed
<1>2. s.op = "cast" => s.type \in { VoidTy, BoolTy, IntTy, UintTy, StringTy }
  BY DEF WellFormed, isBuiltinType
<1> QED
  BY <1>1, <1>2, BasicTypes

LEMMA BuiltTypes ==
  ASSUME NEW t \in AnyType
  PROVE  /\ ArrayType(t) \in AnyType /\ FunctionType(t) \in AnyType
         /\ TypeValue(t) \in AnyValue
         /\ t # NoType => ExternFunc(t) \in AnyValue /\ Tail(t) \in AnyType
<1>0. "array" \in Words /\ "function" \in Words /\ "type" \in Words /\ "extern" \in Words
  BY DEF Words
<1>1. ArrayType(t) \in AnyType /\ FunctionType(t) \in AnyType
  BY <1>0, Joined DEF ArrayType, FunctionType
<1>2. TypeValue(t) \in AnyValue
  <2>1. TypeValue(t) \in AnyType /\ Head(TypeValue(t)) = "type"
    BY <1>0, Joined DEF TypeValue
  <2> QED
    BY <2>1 DEF AnyValue, AnyType, isValueOf
<1>3. t # NoType => ExternFunc(t) \in AnyValue
  <2>1. ExternFunc(t) \in AnyType /\ Len(ExternFunc(t)) = Len(t) + 1 /\ Len(t) \in Nat
    BY <1>0, Joined DEF ExternFunc
  <2>2. t # NoType => Len(t) \in Nat \ { 0 }
    BY EmptySeq DEF NoType, AnyType
  <2>3. t # NoType => Len(ExternFunc(t)) > 1
    BY <2>1, <2>2
  <2> QED
    BY <2>1, <2>3 DEF AnyValue, AnyType
<1>4. t # NoType => Tail(t) \in AnyType
  BY HeadTailProperties DEF NoType, AnyType
<1> QED
  BY <1>1, <1>2, <1>3, <1>4

LEMMA Expressions ==
  ASSUME NEW t \in AnyType
  PROVE  /\ Expr(t) \in Exprs /\ LValue(t) \in Exprs
         /\ \A v \in AnyValue : Constexpr(t, v) \in Exprs
<1>1. NoValue \in AnyValue
  BY DEF NoValue, AnyValue, isValueOf
<1> QED
  BY <1>1 DEF Expr, LValue, Constexpr, Exprs

LEMMA OperandIs ==
  ASSUME Top \in Frames, NEW n \in Nat, n <= Len(Top.operands), NEW i \in 1 .. n
  PROVE  /\ Operand(i, n) \in Exprs
         /\ Operand(i, n).type \in AnyType
         /\ Operand(i, n).value \in AnyValue
         /\ Operand(i, n).value # NoValue => Tail(Operand(i, n).value) \in AnyType
         /\ isValueOf("extern", Operand(i, n).value) => Tail(Tail(Operand(i, n).value)) \in AnyType
<1>1. Top.operands \in Seq(Exprs) /\ Len(Top.operands) \in Nat
  BY LenProperties DEF Frames
<1>2. Len(Top.operands) - n + i \in 1 .. Len(Top.operands)
  BY <1>1
<1>3. Operand(i, n) \in Exprs
  BY <1>1, <1>2, ElementOfSeq DEF Operand
<1> DEFINE v == Operand(i, n).value
<1>4. Operand(i, n).type \in AnyType /\ v \in AnyValue
  BY <1>3 DEF Exprs
<1> HIDE DEF v
<1>5. v \in Seq(Words) /\ (isValueOf("extern", v) => Len(v) > 1 /\ v # NoValue)
  BY <1>4 DEF AnyValue, isValueOf
<1>6. v # NoValue => Tail(v) \in Seq(Words) /\ Len(Tail(v)) = Len(v) - 1
  BY <1>5, HeadTailProperties DEF NoValue
<1>7. isValueOf("extern", v) => Tail(Tail(v)) \in Seq(Words)
  <2> SUFFICES ASSUME isValueOf("extern", v) PROVE Tail(Tail(v)) \in Seq(Words)
    OBVIOUS
  <2>1. Len(v) \in Nat
    BY <1>5, LenProperties
  <2>2. Tail(v) \in Seq(Words) /\ Len(Tail(v)) > 0
    BY <1>5, <1>6, <2>1
  <2>3. Tail(v) # << >>
    BY <2>2, NotEmpty
  <2> QED
    BY <2>2, <2>3, HeadTailProperties
<1> QED
  BY <1>3, <1>4, <1>6, <1>7 DEF AnyType, v

LEMMA LiteralKeeps == ASSUME IInv, Literal PROVE IInv'
<1>1. At("literal") /\ Eval(0, Constexpr(Step.type, Step.value))
  BY DEF Literal
<1>2. Step.op = "literal" /\ WellFormed(Step)
  BY <1>1, TopSteps DEF IInv, At
<1>3. Arity(Step) = 0
  BY <1>2 DEF Arity
<1>4. Constexpr(Step.type, Step.value) \in Exprs
  BY <1>2, Expressions, WrittenTypes
<1> QED
  BY <1>1, <1>3, <1>4, EvalKeeps

LEMMA IdentifierKeeps == ASSUME IInv, actOnIdentifier PROVE IInv'
<1> DEFINE d == findDecl(Step.id)
           t == IF d.kind = "function" THEN FunctionType(NoType) ELSE d.type
<1>1. At("identifier") /\ IF d = Undeclared THEN Stop("rejected") ELSE Eval(0, LValue(t))
  BY DEF actOnIdentifier
<1>2. CASE d = Undeclared
  BY <1>1, <1>2, StopKeeps DEF Endings, Rejections
<1>3. CASE d # Undeclared
  <2>1. PICK k \in 1 .. Len(stack) : Step.id \in DOMAIN stack[k].decls /\ d = stack[k].decls[Step.id]
    BY <1>3, StackFacts, DeclFound DEF IInv
  <2>2. d \in Declarations
    <3>1. stack[k].decls \in Scopes
      BY StackFacts DEF IInv, Frames
    <3> HIDE DEF d
    <3> QED
      BY <2>1, <3>1 DEF Scopes
  <2> HIDE DEF d
  <2>3. t \in AnyType
    BY <2>2, BasicTypes, BuiltTypes DEF Declarations
  <2>4. LValue(t) \in Exprs
    BY <2>3, Expressions
  <2>5. Step.op = "identifier"
    BY <1>1 DEF At
  <2>6. Arity(Step) = 0
    BY <2>5 DEF Arity
  <2> QED
    BY <1>1, <1>3, <2>4, <2>6, EvalKeeps
<1> QED
  BY <1>2, <1>3

LEMMA OperandsThere ==
  ASSUME IInv, NEW op, At(op), op # "body"
  PROVE  /\ Top \in Frames /\ Arity(Step) \in Nat /\ Arity(Step) <= Len(Top.operands)
         /\ Step.op = op
         /\ op # "entry" => WellFormed(Step)
BY TopSteps, StackFacts DEF IInv, At

LEMMA BinaryOperatorKeeps == ASSUME IInv, actOnBinaryOperator PROVE IInv'
<1> DEFINE l     == Operand(1, 2)
           r     == Operand(2, 2)
           kind  == Step.kind
           crash == l.type = NoType \/ (isBuiltinType(l.type) /\ r.type = NoType)
           valid == /\ isBuiltinType(l.type)
                    /\ l.type = r.type
                    /\ kind = "assign" => l.lvalue
                    /\ kind = "logical" => l.type = BoolTy
                    /\ kind \in { "bit", "compare", "arithmetic" } => isInteger(l.type)
                    /\ kind = "bit" => l.type = UintTy
           t     == IF kind \in { "compare", "logical" } THEN BoolTy ELSE l.type
<1>1. At("binary") /\ JudgeSpelling({}, crash, valid, 2, Expr(t))
  BY DEF actOnBinaryOperator, Judge
<1>2. Step.op = "binary" /\ Top \in Frames /\ Arity(Step) <= Len(Top.operands)
  BY <1>1, OperandsThere
<1>3. Arity(Step) = 2
  BY <1>2 DEF Arity
<1>4. l.type \in AnyType
  BY <1>2, <1>3, OperandIs
<1>5. Expr(t) \in Exprs
  BY <1>4, BasicTypes, Expressions
<1> HIDE DEF crash, valid, t
<1> QED
  BY <1>1, <1>3, <1>5, JudgeKeeps

LEMMA UnaryOperatorKeeps == ASSUME IInv, actOnUnaryOperator PROVE IInv'
<1>1. At("not") /\ JudgeSpelling({}, FALSE, Operand(1, 1).type = BoolTy, 1, Expr(BoolTy))
  BY DEF actOnUnaryOperator, Judge
<1>2. Step.op = "not"
  BY <1>1, OperandsThere
<1>3. Arity(Step) = 1
  BY <1>2 DEF Arity
<1>4. Expr(BoolTy) \in Exprs
  BY BasicTypes, Expressions
<1> QED
  BY <1>1, <1>3, <1>4, JudgeKeeps

LEMMA ArraySubscriptKeeps == ASSUME IInv, actOnArraySubscriptExpr PROVE IInv'
<1> DEFINE arr   == Operand(1, 2).type
           idx   == Operand(2, 2).type
           ts    == { IF isArrayType(arr) THEN idx ELSE arr }
           crash == arr = NoType \/ (isArrayType(arr) /\ idx = NoType)
           valid == isArrayType(arr) /\ isInteger(idx)
<1>1. At("subscript") /\ JudgeSpelling(ts, crash, valid, 2, LValue(Tail(arr)))
  BY DEF actOnArraySubscriptExpr
<1>2. Step.op = "subscript" /\ Top \in Frames /\ Arity(Step) <= Len(Top.operands)
  BY <1>1, OperandsThere
<1>3. Arity(Step) = 2
  BY <1>2 DEF Arity
<1>4. arr \in AnyType
  BY <1>2, <1>3, OperandIs
<1>5. ~crash /\ valid => LValue(Tail(arr)) \in Exprs
  <2> HIDE DEF arr
  <2>1. arr # NoType => Tail(arr) \in AnyType
    BY <1>4, BuiltTypes
  <2> QED
    BY <2>1, Expressions
<1> HIDE DEF crash, valid, ts
<1> QED
  BY <1>1, <1>3, <1>5, JudgeKeeps

LEMMA CastKeeps == ASSUME IInv, Cast PROVE IInv'
<1> DEFINE arg   == Operand(1, 1).type
           ts    == IF Step.n = 1 THEN { arg, Step.type } ELSE { Step.type }
           crash == Step.n = 1 /\ ~isBuiltinType(arg)
           valid == Step.n = 1 /\ isInteger(arg) /\ isInteger(Step.type)
<1>1. At("cast") /\ JudgeSpelling(ts, crash, valid, Step.n, Expr(Step.type))
  BY DEF Cast
<1>2. Step.op = "cast" /\ WellFormed(Step)
  BY <1>1, OperandsThere
<1>3. Arity(Step) = Step.n
  BY <1>2 DEF Arity
<1>4. Expr(Step.type) \in Exprs
  BY <1>2, Expressions, WrittenTypes
<1> HIDE DEF crash, valid, ts
<1> QED
  BY <1>1, <1>3, <1>4, JudgeKeeps

LEMMA CallArrayKeeps == ASSUME IInv, CallArray PROVE IInv'
<1> DEFINE n     == Step.n
           valid == n > 0 /\ \A i \in 1 .. n : Types(n)[i] = Types(n)[1]
           e     == Expr(ArrayType(Operand(1, n).type))
<1>1. At("array") /\ JudgeSpelling({}, FALSE, valid, n, e)
  BY DEF CallArray, Judge
<1>2. Step.op = "array" /\ Top \in Frames /\ Arity(Step) \in Nat /\ Arity(Step) <= Len(Top.operands)
  BY <1>1, OperandsThere
<1>3. Arity(Step) = n
  BY <1>2 DEF Arity
<1>4. n > 0 => e \in Exprs
  BY <1>2, <1>3, OperandIs, BuiltTypes, Expressions
<1> HIDE DEF e
<1> QED
  BY <1>1, <1>3, <1>4, JudgeKeeps

LEMMA CallAllocaKeeps == ASSUME IInv, CallAlloca PROVE IInv'
<1> DEFINE n     == Step.n
           elem  == Operand(1, 2)
           crash == n = 2 /\ ~(elem.type = MetaTy /\ elem.value # NoValue)
           valid == n = 2 /\ isBuiltinType(Tail(elem.value)) /\ elem.value # TypeValue(VoidTy)
           e     == Expr(ArrayType(Tail(elem.value)))
<1>1. At("alloca") /\ JudgeSpelling({}, crash, valid, n, e)
  BY DEF CallAlloca, Judge
<1>2. Step.op = "alloca" /\ Top \in Frames /\ Arity(Step) \in Nat /\ Arity(Step) <= Len(Top.operands)
  BY <1>1, OperandsThere
<1>3. Arity(Step) = n
  BY <1>2 DEF Arity
<1>4. ~crash /\ valid => e \in Exprs
  <2> SUFFICES ASSUME n = 2, elem.value # NoValue PROVE e \in Exprs
    OBVIOUS
  <2>1. Tail(elem.value) \in AnyType
    BY <1>2, <1>3, OperandIs
  <2> QED
    BY <2>1, BuiltTypes, Expressions
<1> HIDE DEF e, crash, valid
<1> QED
  BY <1>1, <1>3, <1>4, JudgeKeeps

LEMMA CallExternKeeps == ASSUME IInv, CallExtern PROVE IInv'
<1> DEFINE n      == Step.n
           symbol == Operand(1, 2).value
           type   == Operand(2, 2).value
           T      == Tail(type)
           named  == n = 2 /\ isValueOf("string", symbol)
           crash  == named /\ type # NoValue /\ ~isValueOf("type", type)
           valid  == named /\ type # NoValue /\ (isBuiltinType(T) \/ isFunctionType(T))
           e      == IF isFunctionType(T) THEN Constexpr(T, ExternFunc(T)) ELSE Expr(T)
<1>1. At("extern") /\ JudgeSpelling({}, crash, valid, n, e)
  BY DEF CallExtern, Judge
<1>2. Step.op = "extern" /\ Top \in Frames /\ Arity(Step) \in Nat /\ Arity(Step) <= Len(Top.operands)
  BY <1>1, OperandsThere
<1>3. Arity(Step) = n
  BY <1>2 DEF Arity
<1>4. valid => e \in Exprs
  <2> SUFFICES ASSUME n = 2, type # NoValue PROVE e \in Exprs
    OBVIOUS
  <2>1. T \in AnyType
    BY <1>2, <1>3, OperandIs
  <2> HIDE DEF T
  <2>2. isFunctionType(T) => ExternFunc(T) \in AnyValue
    BY <2>1, BuiltTypes DEF isFunctionType
  <2> QED
    BY <2>1, <2>2, Expressions
<1> HIDE DEF e, crash, valid
<1> QED
  BY <1>1, <1>3, <1>4, JudgeKeeps

LEMMA CallFunctionTypeKeeps == ASSUME IInv, CallFunctionType PROVE IInv'
<1> DEFINE n     == Step.n
           other == { i \in 1 .. n : Operand(i, n).type # MetaTy }
           null  == { i \in other : Operand(i, n).type = NoType }
           crash == IF other = {} THEN \E i \in 1 .. n : Operand(i, n).value = NoValue
                                  ELSE \E i \in null : \A j \in other : i <= j
           valid == n > 0 /\ other = {}
           e     == Constexpr(NoType, TypeValue(FunctionType(Tail(Operand(1, n).value))))
<1>1. At("function_type") /\ JudgeSpelling({}, crash, valid, n, e)
  BY DEF CallFunctionType, Judge
<1>2. Step.op = "function_type" /\ Top \in Frames /\ Arity(Step) \in Nat /\ Arity(Step) <= Len(Top.operands)
  BY <1>1, OperandsThere
<1>3. Arity(Step) = n
  BY <1>2 DEF Arity
<1>4. ~crash /\ valid => e \in Exprs
  <2> SUFFICES ASSUME n > 0, \A i \in 1 .. n : Operand(i, n).value # NoValue PROVE e \in Exprs
    OBVIOUS
  <2>1. 1 \in 1 .. n
    BY <1>2, <1>3
  <2>2. Tail(Operand(1, n).value) \in AnyType
    BY <1>2, <1>3, <2>1, OperandIs
  <2>3. TypeValue(FunctionType(Tail(Operand(1, n).value))) \in AnyValue
    BY <2>2, BuiltTypes
  <2> QED
    BY <2>3, BasicTypes, Expressions
<1> HIDE DEF e, crash, valid
<1> QED
  BY <1>1, <1>3, <1>4, JudgeKeeps

LEMMA CallPrintKeeps == ASSUME IInv, CallPrint PROVE IInv'
<1>1. At("print") /\ Eval(Step.n, Expr(VoidTy))
  BY DEF CallPrint
<1>2. Step.op = "print"
  BY <1>1, OperandsThere
<1>3. Arity(Step) = Step.n
  BY <1>2 DEF Arity
<1>4. Expr(VoidTy) \in Exprs
  BY BasicTypes, Expressions
<1> QED
  BY <1>1, <1>3, <1>4, EvalKeeps

LEMMA CallExpressionKeeps == ASSUME IInv, CallExpression PROVE IInv'
<1> DEFINE n      == Step.n + 1
           callee == Operand(n, n).value
           crash  == callee # NoValue /\ ~isValueOf("extern", callee)
           valid  == callee # NoValue
           e      == Expr(Tail(Tail(callee)))
<1>1. At("callee") /\ JudgeSpelling({}, crash, valid, n, e)
  BY DEF CallExpression, Judge
<1>2. Step.op = "callee" /\ WellFormed(Step) /\ Top \in Frames /\ Arity(Step) \in Nat /\ Arity(Step) <= Len(Top.operands)
  BY <1>1, OperandsThere
<1>3. Arity(Step) = n
  BY <1>2 DEF Arity
<1> HIDE DEF n
<1>4. ~crash /\ valid => e \in Exprs
  <2> SUFFICES ASSUME callee # NoValue, isValueOf("extern", callee) PROVE e \in Exprs
    OBVIOUS
  <2>1. n # 0
    BY <1>2 DEF WellFormed, n
  <2>2. n \in 1 .. n
    BY <1>2, <1>3, <2>1
  <2>3. Tail(Tail(callee)) \in AnyType
    BY <1>2, <1>3, <2>2, OperandIs
  <2> QED
    BY <2>3, Expressions
<1> HIDE DEF e, crash, valid
<1> QED
  BY <1>1, <1>3, <1>4, JudgeKeeps

-----------------------------------------------------------------------------
(* Statements and declarations                                             *)

LEMMA DeclarationsAre ==
  /\ \A t \in AnyType : Variable(t) \in Declarations
  /\ \A fd \in Nat : Function(fd) \in Declarations
  /\ \A t, fd : Variable(t) # Function(fd)
  /\ \A f1, f2 : Function(f1) = Function(f2) => f1 = f2
<1>1. \A t \in AnyType : Variable(t) \in Declarations
  BY DEF Variable, Declarations
<1>2. \A fd \in Nat : Function(fd) \in Declarations
  BY DEF Function, Declarations
<1>3. \A t, fd : Variable(t).kind = "variable" /\ Function(fd).kind = "function" /\ Function(fd).fd = fd
  BY DEF Variable, Function
<1>4. \A t, fd : Variable(t) # Function(fd)
  BY <1>3
<1>5. \A f1, f2 : Function(f1) = Function(f2) => f1 = f2
  BY <1>3, Zenon
<1> QED
  BY <1>1, <1>2, <1>4, <1>5

LEMMA ScopeWith ==
  ASSUME NEW decls \in Scopes, NEW id \in STRING, NEW d \in Declarations
  PROVE  LET now == With(decls, id, d) IN
         /\ now \in Scopes
         /\ DOMAIN now = DOMAIN decls \cup { id }
         /\ now[id] = d
         /\ \A x \in DOMAIN decls : x # id => now[x] = decls[x]
<1>1. PICK ids \in SUBSET STRING : decls \in [ ids -> Declarations ]
  BY DEF Scopes
<1>2. DOMAIN decls = ids /\ ids \cup { id } \in SUBSET STRING
      /\ \A x \in ids : decls[x] \in Declarations
  BY <1>1
<1>3. With(decls, id, d) \in [ ids \cup { id } -> Declarations ]
      /\ \A x \in ids \cup { id } : With(decls, id, d)[x] = IF x = id THEN d ELSE decls[x]
  BY <1>1, <1>2 DEF With
<1>4. With(decls, id, d) \in Scopes
  BY <1>2, <1>3 DEF Scopes
<1> QED
  BY <1>2, <1>3, <1>4

LEMMA ScopeExcept ==
  ASSUME NEW decls \in Scopes, NEW id \in STRING, NEW d \in Declarations
  PROVE  LET now == [ decls EXCEPT ![id] = d ] IN
         /\ now \in Scopes
         /\ DOMAIN now = DOMAIN decls
         /\ \A x \in DOMAIN decls : now[x] = IF x = id THEN d ELSE decls[x]
<1>1. PICK ids \in SUBSET STRING : decls \in [ ids -> Declarations ]
  BY DEF Scopes
<1>2. [ decls EXCEPT ![id] = d ] \in [ ids -> Declarations ]
      /\ \A x \in ids : [ decls EXCEPT ![id] = d ][x] = IF x = id THEN d ELSE decls[x]
  BY <1>1
<1> QED
  BY <1>1, <1>2 DEF Scopes

Changed(f, pc, decls, operands, rets) ==
  [ f EXCEPT !.pc = pc, !.decls = decls, !.operands = operands, !.rets = rets ]

LEMMA ChangedFrame ==
  ASSUME NEW f \in Frames, NEW pc \in Nat, NEW decls \in Scopes, NEW operands \in Seq(Exprs),
         NEW rets \in Seq(AnyType)
  PROVE  LET g == Changed(f, pc, decls, operands, rets) IN
         /\ g \in Frames /\ SameFrame(g, f)
         /\ g.pc = pc /\ g.decls = decls /\ g.operands = operands /\ g.rets = rets
<1> DEFINE Ops == Seq(Exprs)
           Tys == Seq(AnyType)
<1>1. Frames = [ inst : Nat, frag : Nat, pc : Nat, args : Tys, prev : Nat, back : Nat,
                 decls : Scopes, operands : Ops, rets : Tys ]
  BY DEF Frames
<1>2. operands \in Ops /\ rets \in Tys
  OBVIOUS
<1> HIDE DEF Ops, Tys
<1> QED
  BY <1>1, <1>2 DEF Changed, SameFrame

(* A step that uses an operand up and declares no function. *)
LEMMA StatementKeeps ==
  ASSUME IInv, NEW op \in { "let", "init", "return", "discard" }, At(op),
         NEW g \in Frames, Replaces(g), g.frag = Top.frag, g.pc = Top.pc + 1,
         Len(g.operands) = Len(Top.operands) - Arity(Step),
         g.rets = Top.rets \/ op = "return",
         \A x \in DOMAIN g.decls :
           (x \in DOMAIN Top.decls /\ g.decls[x] = Top.decls[x]) \/ \E t : g.decls[x] = Variable(t),
         UNCHANGED << src, CurScope, FunctionDecls, AllInstances >>
  PROVE  IInv'
<1>1. Top = stack[Len(stack)] /\ \A f : f.inst = Top.inst /\ f.frag = Top.frag /\ f.pc = Top.pc + 1 => Code(f) = Code(Top)
  BY TopSteps DEF IInv, Top
<1>2. KeepsFunctions /\ SameCodes
  <2>1. Len(FunctionDecls) \in Nat /\ Len(AllInstances) \in Nat
    BY StackFacts DEF IInv
  <2> QED
    BY <2>1 DEF IInv, Typed, Sized, KeepsFunctions, SameCodes
<1>3. op # "body" /\ ~IsExpression(op)
  BY DEF IsExpression
<1>4. Len(g.operands) = Len(Top.operands) - Arity(Step) + IF IsExpression(op) THEN 1 ELSE 0
  <2>1. Len(Top.operands) \in Nat /\ Arity(Step) \in Nat
    BY <1>3, TopSteps DEF IInv
  <2> QED
    BY <1>3, <2>1
<1>5. /\ Typed' /\ Sized' /\ Stacked' /\ InstancesPlaced' /\ Unique' /\ Undecided'
      /\ Len(stack') = Len(stack)
      /\ \A k \in 1 .. Len(stack) : stack'[k] = IF k = Len(stack) THEN g ELSE stack[k]
  BY <1>2, <1>3, <1>4, FrameAdvances
<1>6. \A fd : (\E id \in DOMAIN g.decls : g.decls[id] = Function(fd)) => Declares(Len(stack), fd)
  BY <1>1, DeclarationsAre DEF Declares
<1>7. FunctionsPlaced'
  <2>1. Code(g) = Code(Top)
    BY <1>1 DEF Replaces
  <2> QED
    BY <1>2, <1>5, <1>6, <2>1, FunctionsStayPlaced
<1> QED
  BY <1>5, <1>7 DEF IInv, Lexical

LEMMA UsedUp ==
  ASSUME IInv, NEW op \in { "init", "return", "discard" }, At(op)
  PROVE  LET g == Used(Top, 1, << >>) IN
         /\ Arity(Step) = 1 /\ Top \in Frames
         /\ g \in Frames /\ SameFrame(g, Top)
         /\ g.pc = Top.pc + 1 /\ g.decls = Top.decls /\ g.rets = Top.rets
         /\ Len(g.operands) = Len(Top.operands) - 1
         /\ Operand(1, 1).type \in AnyType
         /\ g.operands \in Seq(Exprs) /\ g.rets \in Seq(AnyType) /\ g.decls \in Scopes /\ g.pc \in Nat
<1>1. /\ Top \in Frames /\ Arity(Step) \in Nat /\ Arity(Step) <= Len(Top.operands) /\ Step.op = op
  BY OperandsThere
<1>2. Arity(Step) = 1
  BY <1>1 DEF Arity
<1>3. Operand(1, 1).type \in AnyType
  BY <1>1, <1>2, OperandIs
<1>4. << >> \in Seq(Exprs) /\ Len(<< >>) = 0
  BY EmptySeq
<1>5. ASSUME NEW es \in Seq(Exprs), Len(es) = 0
      PROVE  LET h == Used(Top, 1, es) IN
             /\ h \in Frames /\ SameFrame(h, Top)
             /\ h.pc = Top.pc + 1 /\ h.decls = Top.decls /\ h.rets = Top.rets
             /\ Len(h.operands) = Len(Top.operands) - 1
  <2>1. Len(Top.operands) \in Nat
    BY <1>1, LenProperties DEF Frames
  <2>2. 1 \in Nat /\ 1 <= Len(Top.operands) /\ Top \in Frames
    BY <1>1, <1>2
  <2> DEFINE h == Used(Top, 1, es)
  <2>3. /\ h \in Frames /\ SameFrame(h, Top)
        /\ h.pc = Top.pc + 1 /\ h.decls = Top.decls /\ h.rets = Top.rets
        /\ Len(h.operands) = Len(Top.operands) - 1 + Len(es)
    BY <2>2, UsedFrame
  <2> HIDE DEF h
  <2> QED
    BY <1>5, <2>1, <2>3 DEF h
<1> DEFINE g == Used(Top, 1, << >>)
<1>7. /\ g \in Frames /\ SameFrame(g, Top)
      /\ g.pc = Top.pc + 1 /\ g.decls = Top.decls /\ g.rets = Top.rets
      /\ Len(g.operands) = Len(Top.operands) - 1
  BY <1>4, <1>5
<1> HIDE DEF g
<1>8. g.operands \in Seq(Exprs) /\ g.rets \in Seq(AnyType) /\ g.decls \in Scopes /\ g.pc \in Nat
  BY <1>7 DEF Frames
<1> QED
  BY <1>1, <1>2, <1>3, <1>7, <1>8 DEF g

LEMMA DiscardKeeps == ASSUME IInv, Discard PROVE IInv'
<1> DEFINE g == Used(Top, 1, << >>)
<1>1. /\ At("discard") /\ stack' = [ stack EXCEPT ![Len(stack)] = g ]
      /\ UNCHANGED << src, CurScope, FunctionDecls, AllInstances, status >>
  BY DEF Discard, Advance
<1>2. /\ Arity(Step) = 1
      /\ g \in Frames /\ SameFrame(g, Top)
      /\ g.pc = Top.pc + 1 /\ g.decls = Top.decls /\ g.rets = Top.rets
      /\ Len(g.operands) = Len(Top.operands) - 1
  BY <1>1, UsedUp
<1> HIDE DEF g
<1>3. Replaces(g) /\ g.frag = Top.frag
  BY <1>1, <1>2 DEF Replaces, SameFrame
<1> QED
  BY <1>1, <1>2, <1>3, StatementKeeps

LEMMA ReturnStmtKeeps == ASSUME IInv, actOnReturnStmt PROVE IInv'
<1> DEFINE u == Used(Top, 1, << >>)
           t == Operand(1, 1).type
           g == [ u EXCEPT !.rets = Append(@, t) ]
<1>1. /\ At("return") /\ stack' = [ stack EXCEPT ![Len(stack)] = g ]
      /\ UNCHANGED << src, CurScope, FunctionDecls, AllInstances, status >>
  BY DEF actOnReturnStmt, Advance
<1>2. /\ Arity(Step) = 1
      /\ u \in Frames /\ SameFrame(u, Top)
      /\ u.pc = Top.pc + 1 /\ u.decls = Top.decls
      /\ Len(u.operands) = Len(Top.operands) - 1 /\ t \in AnyType
      /\ u.operands \in Seq(Exprs) /\ u.rets \in Seq(AnyType) /\ u.decls \in Scopes /\ u.pc \in Nat
  BY <1>1, UsedUp
<1> HIDE DEF u, t
<1>3. Append(u.rets, t) \in Seq(AnyType)
  BY <1>2, AppendProperties
<1>4. /\ g \in Frames /\ SameFrame(g, u)
      /\ g.pc = u.pc /\ g.decls = u.decls /\ g.operands = u.operands
  <2>1. g = Changed(u, u.pc, u.decls, u.operands, Append(u.rets, t))
    BY <1>2 DEF Frames, Changed
  <2>2. ASSUME NEW r \in Seq(AnyType)
        PROVE  LET h == Changed(u, u.pc, u.decls, u.operands, r) IN
               /\ h \in Frames /\ SameFrame(h, u)
               /\ h.pc = u.pc /\ h.decls = u.decls /\ h.operands = u.operands
    BY <1>2, ChangedFrame
  <2> HIDE DEF g
  <2> QED
    BY <1>3, <2>1, <2>2
<1> HIDE DEF g
<1>5. Replaces(g) /\ g.frag = Top.frag
  BY <1>1, <1>2, <1>4 DEF Replaces, SameFrame
<1> QED
  BY <1>1, <1>2, <1>4, <1>5, StatementKeeps

LEMMA VariableTypeKeeps == ASSUME IInv, VariableGetsType PROVE IInv'
<1> DEFINE u  == Used(Top, 1, << >>)
           id == Step.id
           d  == Variable(Operand(1, 1).type)
           g  == [ u EXCEPT !.decls[id] = d ]
<1>1. /\ At("init") /\ stack' = [ stack EXCEPT ![Len(stack)] = g ]
      /\ UNCHANGED << src, CurScope, FunctionDecls, AllInstances, status >>
  BY DEF VariableGetsType, Advance
<1>2. /\ Arity(Step) = 1
      /\ u \in Frames /\ SameFrame(u, Top)
      /\ u.pc = Top.pc + 1 /\ u.decls = Top.decls /\ u.rets = Top.rets
      /\ Len(u.operands) = Len(Top.operands) - 1 /\ Operand(1, 1).type \in AnyType
      /\ u.operands \in Seq(Exprs) /\ u.rets \in Seq(AnyType) /\ u.decls \in Scopes /\ u.pc \in Nat
  BY <1>1, UsedUp
<1>3. d \in Declarations /\ \E t : d = Variable(t)
  BY <1>2, DeclarationsAre
<1>4. id \in STRING
  <2>1. Step.op = "init" /\ WellFormed(Step)
    BY <1>1, OperandsThere
  <2> QED
    BY <2>1 DEF WellFormed
<1> HIDE DEF u, d, id
<1> DEFINE decls == [ u.decls EXCEPT ![id] = d ]
<1>5. /\ decls \in Scopes /\ DOMAIN decls = DOMAIN u.decls
      /\ \A x \in DOMAIN u.decls : decls[x] = IF x = id THEN d ELSE u.decls[x]
  BY <1>2, <1>3, <1>4, ScopeExcept
<1>6. g = Changed(u, u.pc, decls, u.operands, u.rets)
  BY <1>2 DEF Frames, Changed
<1> HIDE DEF decls, g
<1>7. /\ g \in Frames /\ SameFrame(g, u)
      /\ g.pc = u.pc /\ g.decls = decls /\ g.operands = u.operands /\ g.rets = u.rets
  BY <1>2, <1>5, <1>6, ChangedFrame
<1>8. Replaces(g) /\ g.frag = Top.frag
  BY <1>1, <1>2, <1>7 DEF Replaces, SameFrame
<1>9. \A x \in DOMAIN g.decls :
        (x \in DOMAIN Top.decls /\ g.decls[x] = Top.decls[x]) \/ \E t : g.decls[x] = Variable(t)
  BY <1>2, <1>3, <1>5, <1>7
<1> QED
  BY <1>1, <1>2, <1>7, <1>8, <1>9, StatementKeeps

LEMMA VariableDeclKeeps == ASSUME IInv, actOnVariableDecl PROVE IInv'
<1>1. At("let")
  BY DEF actOnVariableDecl
<1>2. /\ CurScope = Len(stack) /\ Step.op = "let" /\ WellFormed(Step)
      /\ Top \in Frames /\ Top = stack[Len(stack)] /\ Len(stack) \in 1 .. Len(stack) /\ Len(Top.operands) \in Nat
  BY <1>1, TopSteps, OperandsThere, StackFacts DEF IInv, Top
<1> DEFINE id == Step.id
<1>3. Arity(Step) = 0 /\ id \in STRING
  BY <1>2 DEF Arity, WellFormed
<1>4. CASE Declared(id)
  <2>1. Stop("rejected")
    BY <1>4 DEF actOnVariableDecl
  <2> QED
    BY <2>1, StopKeeps DEF Endings, Rejections
<1>5. CASE ~Declared(id)
  <2> DEFINE decls == With(Top.decls, id, Variable(NoType))
             g == Changed(Top, Top.pc + 1, decls, Top.operands, Top.rets)
  <2>1. /\ stack' = [ stack EXCEPT ![CurScope].decls = With(@, id, Variable(NoType)),
                                   ![Len(stack)].pc = @ + 1 ]
        /\ UNCHANGED << src, CurScope, FunctionDecls, AllInstances, status >>
    BY <1>5 DEF actOnVariableDecl
  <2>2. /\ Top.decls \in Scopes /\ Top.pc + 1 \in Nat /\ Top.operands \in Seq(Exprs) /\ Top.rets \in Seq(AnyType)
    BY <1>2 DEF Frames
  <2>3. Variable(NoType) \in Declarations
    BY BasicTypes, DeclarationsAre
  <2>4. /\ decls \in Scopes /\ DOMAIN decls = DOMAIN Top.decls \cup { id }
        /\ decls[id] = Variable(NoType)
        /\ \A x \in DOMAIN Top.decls : x # id => decls[x] = Top.decls[x]
    <3> HIDE DEF id
    <3> QED
      BY <1>3, <2>2, <2>3, ScopeWith
  <2>5. stack' = [ stack EXCEPT ![Len(stack)] = g ]
    <3>0. stack \in Seq(Frames)
      BY DEF IInv, Typed
    <3>1. g = [ Top EXCEPT !.decls = decls, !.pc = Top.pc + 1 ]
      BY <1>2 DEF Changed, Frames
    <3>2. stack' = [ stack EXCEPT ![Len(stack)] = [ Top EXCEPT !.decls = decls, !.pc = Top.pc + 1 ] ]
      <4> HIDE DEF id
      <4> QED
        BY <1>2, <2>1, <3>0 DEF Frames
    <3> QED
      BY <3>1, <3>2
  <2> HIDE DEF decls
  <2>6. /\ g \in Frames /\ SameFrame(g, Top)
        /\ g.pc = Top.pc + 1 /\ g.decls = decls /\ g.operands = Top.operands /\ g.rets = Top.rets
    BY <1>2, <2>2, <2>4, ChangedFrame
  <2> HIDE DEF g
  <2>7. Replaces(g) /\ g.frag = Top.frag
    BY <2>1, <2>5, <2>6 DEF Replaces, SameFrame
  <2>8. \A x \in DOMAIN g.decls :
          (x \in DOMAIN Top.decls /\ g.decls[x] = Top.decls[x]) \/ \E t : g.decls[x] = Variable(t)
    BY <2>4, <2>6
  <2> QED
    BY <1>1, <1>2, <1>3, <2>1, <2>6, <2>7, <2>8, StatementKeeps
<1> QED
  BY <1>4, <1>5

LEMMA DeclaredFunction ==
  ASSUME IInv, NEW k \in 1 .. Len(stack), NEW x \in DOMAIN stack[k].decls,
         stack[k].decls[x].kind = "function"
  PROVE  LET fd == stack[k].decls[x].fd IN
         /\ stack[k].decls[x] = Function(fd)
         /\ fd \in Nat /\ fd \in 1 .. Len(FunctionDecls) /\ Declares(k, fd)
<1> DEFINE d == stack[k].decls[x]
<1>1. stack[k].decls \in Scopes
  BY StackFacts DEF IInv, Frames
<1>2. d \in Declarations
  BY <1>1 DEF Scopes
<1>3. d \in [ kind : { "function" }, fd : Nat ]
  <2> HIDE DEF d
  <2>1. d \in [ kind : { "variable" }, type : AnyType ] => d.kind = "variable"
    OBVIOUS
  <2>2. d.kind = "function"
    BY DEF d
  <2> QED
    BY <1>2, <2>1, <2>2 DEF Declarations
<1>4. d = Function(d.fd) /\ d.fd \in Nat
  <2> HIDE DEF d
  <2> QED
    BY <1>3 DEF Function
<1>5. Declares(k, d.fd)
  BY <1>4 DEF Declares
<1>6. d.fd \in 1 .. Len(FunctionDecls)
  <2> HIDE DEF d
  <2> QED
    BY <1>4, <1>5 DEF IInv, Lexical, FunctionsPlaced
<1> QED
  BY <1>4, <1>5, <1>6

LEMMA FragmentAt ==
  ASSUME IInv, At("fragment")
  PROVE  /\ Step \in AllFragments /\ Step.id \in STRING /\ Arity(Step) = 0
         /\ IsPartOf(Code(Top), Step)
         /\ CurScope = Len(stack) /\ Top = stack[Len(stack)] /\ Len(stack) \in 1 .. Len(stack)
         /\ Top \in Frames /\ Len(Top.operands) \in Nat
         /\ \A k \in 1 .. Len(stack) : Len(AllInstances) \in Nat /\ stack[k].inst \in 0 .. Len(AllInstances)
         /\ FunctionDecls \in Seq(FuncDecls) /\ Len(FunctionDecls) \in Nat
         /\ SameCodes \/ AllInstances' # AllInstances \/ src' # src
<1>1. /\ CurScope = Len(stack) /\ Step \in Steps /\ WellFormed(Step) /\ Step.op = "fragment"
      /\ Top.pc \in 1 .. Len(Code(Top)) /\ Len(Top.operands) \in Nat
  BY TopSteps DEF IInv, At
<1>2. /\ Top = stack[Len(stack)] /\ Len(stack) \in 1 .. Len(stack) /\ Top \in Frames
      /\ Len(AllInstances) \in Nat /\ Len(FunctionDecls) \in Nat
      /\ \A k \in 1 .. Len(stack) : stack[k].inst \in 0 .. Len(AllInstances)
  BY StackFacts DEF IInv, Top
<1>3. Step \in AllFragments /\ Step.id \in STRING /\ Arity(Step) = 0
  BY <1>1, FragmentStep DEF WellFormed, Arity
<1>4. IsPartOf(Code(Top), Step)
  BY <1>1 DEF IsPartOf, Step
<1>5. FunctionDecls \in Seq(FuncDecls)
  BY DEF IInv, Typed
<1>6. AllInstances' = AllInstances /\ src' = src => SameCodes
  BY <1>2 DEF SameCodes
<1> QED
  BY <1>1, <1>2, <1>3, <1>4, <1>5, <1>6

LEMMA AnotherFragmentKeeps ==
  ASSUME IInv, actOnFunctionFragment, Declared(Step.id)
  PROVE  IInv'
<1> DEFINE d  == stack[CurScope].decls[Step.id]
           fd == d.fd
<1>1. At("fragment")
  BY DEF actOnFunctionFragment
<1>2. CASE d.kind # "function"
  <2>1. Stop("rejected")
    BY <1>2 DEF actOnFunctionFragment
  <2> QED
    BY <2>1, StopKeeps DEF Endings, Rejections
<1>3. CASE d.kind = "function"
  <2> DEFINE g   == Used(Top, 0, << >>)
             old == FunctionDecls[fd]
             now == [ old EXCEPT !.frags = Append(@, Step) ]
  <2>1. /\ FunctionDecls' = [ FunctionDecls EXCEPT ![fd].frags = Append(@, Step) ]
        /\ stack' = [ stack EXCEPT ![Len(stack)] = g ]
        /\ UNCHANGED << src, CurScope, AllInstances, status >>
    BY <1>3, Zenon DEF actOnFunctionFragment, Advance
  <2>2. /\ Step \in AllFragments /\ Arity(Step) = 0 /\ IsPartOf(Code(Top), Step)
        /\ CurScope = Len(stack) /\ Top = stack[Len(stack)] /\ Len(stack) \in 1 .. Len(stack)
        /\ Top \in Frames /\ Len(Top.operands) \in Nat
        /\ Len(AllInstances) \in Nat /\ \A k \in 1 .. Len(stack) : stack[k].inst \in 0 .. Len(AllInstances)
        /\ FunctionDecls \in Seq(FuncDecls) /\ Len(FunctionDecls) \in Nat /\ SameCodes
    BY <1>1, <2>1, FragmentAt, Zenon
  <2>3. fd \in Nat /\ fd \in 1 .. Len(FunctionDecls) /\ Declares(Len(stack), fd)
    BY <1>3, <2>2, DeclaredFunction DEF Declared
  <2>4. /\ g \in Frames /\ SameFrame(g, Top)
        /\ g.pc = Top.pc + 1 /\ g.decls = Top.decls /\ g.rets = Top.rets
        /\ Len(g.operands) = Len(Top.operands)
    <3>1. << >> \in Seq(Exprs) /\ Len(<< >>) = 0
      BY EmptySeq
    <3>2. ASSUME NEW es \in Seq(Exprs), Len(es) = 0
          PROVE  LET h == Used(Top, 0, es) IN
                 /\ h \in Frames /\ SameFrame(h, Top)
                 /\ h.pc = Top.pc + 1 /\ h.decls = Top.decls /\ h.rets = Top.rets
                 /\ Len(h.operands) = Len(Top.operands)
      <4> DEFINE h == Used(Top, 0, es)
      <4>1. 0 \in Nat /\ 0 <= Len(Top.operands) /\ Top \in Frames
        BY <2>2
      <4>2. /\ h \in Frames /\ SameFrame(h, Top)
            /\ h.pc = Top.pc + 1 /\ h.decls = Top.decls /\ h.rets = Top.rets
            /\ Len(h.operands) = Len(Top.operands) - 0 + Len(es)
        BY <4>1, UsedFrame
      <4> HIDE DEF h
      <4> QED
        BY <2>2, <3>2, <4>2 DEF h
    <3> QED
      BY <3>1, <3>2
  <2> HIDE DEF g, d
  <2>5. /\ old \in FuncDecls /\ old.frags \in Seq(AllFragments)
        /\ Append(old.frags, Step) \in Seq(AllFragments) /\ Append(old.frags, Step) # << >>
        /\ Len(Append(old.frags, Step)) = Len(old.frags) + 1 /\ Len(old.frags) \in Nat
        /\ \A i \in 1 .. Len(old.frags) : Append(old.frags, Step)[i] = old.frags[i]
        /\ Append(old.frags, Step)[Len(old.frags) + 1] = Step
    <3>1. old \in FuncDecls
      BY <2>2, <2>3, ElementOfSeq
    <3> HIDE DEF old
    <3>2. old.frags \in Seq(AllFragments)
      BY <3>1 DEF FuncDecls
    <3> QED
      BY <2>2, <3>1, <3>2, AppendProperties, LenProperties
  <2>6. now \in FuncDecls /\ now.frags = Append(old.frags, Step)
    <3> HIDE DEF old
    <3> QED
      BY <2>5 DEF FuncDecls
  <2>7. FunctionDecls' = [ FunctionDecls EXCEPT ![fd] = now ]
    BY <2>1, <2>2, <2>3
  <2> HIDE DEF now, fd
  <2>8. /\ FunctionDecls' \in Seq(FuncDecls) /\ Len(FunctionDecls') = Len(FunctionDecls)
        /\ \A i \in 1 .. Len(FunctionDecls) : FunctionDecls'[i] = IF i = fd THEN now ELSE FunctionDecls[i]
    BY <2>2, <2>3, <2>6, <2>7, ExceptSeq
  <2>9. KeepsFunctions
    <3>1. \A i \in 1 .. Len(FunctionDecls) : FunctionDecls[i].frags # << >>
      BY DEF IInv, Sized
    <3> QED
      BY <2>2, <2>5, <2>6, <2>8, <3>1 DEF KeepsFunctions
  <2>10. Replaces(g) /\ g.frag = Top.frag
    BY <2>1, <2>4 DEF Replaces, SameFrame
  <2>11. Len(g.operands) = Len(Top.operands) - Arity(Step) + IF IsExpression("fragment") THEN 1 ELSE 0
    <3>1. ~IsExpression("fragment")
      BY DEF IsExpression
    <3> QED
      BY <2>2, <2>4, <3>1
  <2>12. /\ Typed' /\ Sized' /\ Stacked' /\ InstancesPlaced' /\ Unique' /\ Undecided'
         /\ Len(stack') = Len(stack)
         /\ \A k \in 1 .. Len(stack) : stack'[k] = IF k = Len(stack) THEN g ELSE stack[k]
    BY <1>1, <2>1, <2>4, <2>9, <2>10, <2>11, FrameAdvances
  <2>13. FunctionsPlaced'
    <3>1. \A k \in 1 .. Len(stack), f \in Nat : Declares(k, f)' <=> Declares(k, f)
      BY <2>2, <2>4, <2>12 DEF Declares
    <3>2. \A k \in 1 .. Len(stack) : Code(stack[k])' = Code(stack[k])
      <4> TAKE k \in 1 .. Len(stack)
      <4>1. \A f : f.inst \in 0 .. Len(AllInstances) => Code(f)' = Code(f)
        BY <2>2, CodesKept
      <4>2. g.inst = Top.inst /\ g.frag = Top.frag
        BY <2>4 DEF SameFrame
      <4>3. Code(g) = Code(Top)
        BY <4>2 DEF Code
      <4> QED
        BY <2>2, <2>12, <4>1, <4>2, <4>3
    <3> SUFFICES ASSUME NEW k \in 1 .. Len(stack), NEW f \in Nat, Declares(k, f)
                 PROVE  /\ f \in 1 .. Len(FunctionDecls)
                        /\ \A j \in 1 .. Len(FunctionDecls'[f].frags) :
                             IsPartOf(Code(stack[k]), FunctionDecls'[f].frags[j])
                        /\ \A m \in 1 .. Len(stack) : Declares(m, f) => m = k
      BY <2>8, <2>12, <3>1, <3>2 DEF FunctionsPlaced
    <3>3. /\ f \in 1 .. Len(FunctionDecls)
          /\ \A j \in 1 .. Len(FunctionDecls[f].frags) : IsPartOf(Code(stack[k]), FunctionDecls[f].frags[j])
          /\ \A m \in 1 .. Len(stack) : Declares(m, f) => m = k
      BY DEF IInv, Lexical, FunctionsPlaced
    <3>4. CASE f # fd
      BY <2>8, <3>3, <3>4
    <3>5. CASE f = fd
      <4>1. k = Len(stack)
        BY <2>2, <2>3, <3>3, <3>5
      <4>2. FunctionDecls'[f].frags = Append(FunctionDecls[f].frags, Step)
        BY <2>6, <2>8, <3>3, <3>5
      <4> SUFFICES ASSUME NEW j \in 1 .. Len(FunctionDecls[f].frags) + 1
                   PROVE  IsPartOf(Code(stack[k]), Append(FunctionDecls[f].frags, Step)[j])
        BY <2>5, <3>3, <3>5, <4>2
      <4>3. CASE j \in 1 .. Len(FunctionDecls[f].frags)
        BY <2>5, <3>3, <3>5, <4>3
      <4>4. CASE j = Len(FunctionDecls[f].frags) + 1
        BY <2>2, <2>5, <3>5, <4>1, <4>4
      <4> QED
        BY <2>5, <3>5, <4>3, <4>4
    <3> QED
      BY <3>4, <3>5
  <2> QED
    BY <2>12, <2>13 DEF IInv, Lexical
<1> QED
  BY <1>2, <1>3

LEMMA FirstFragmentKeeps ==
  ASSUME IInv, actOnFunctionFragment, ~Declared(Step.id)
  PROVE  IInv'
<1> DEFINE id    == Step.id
           n     == Len(FunctionDecls) + 1
           decls == With(Top.decls, id, Function(n))
           g     == Changed(Top, Top.pc + 1, decls, Top.operands, Top.rets)
           now   == [ id |-> id, frags |-> << Step >> ]
<1>1. At("fragment")
  BY DEF actOnFunctionFragment
<1>2. /\ FunctionDecls' = Append(FunctionDecls, now)
      /\ stack' = [ stack EXCEPT ![CurScope].decls = With(@, id, Function(n)),
                                 ![Len(stack)].pc = @ + 1 ]
      /\ UNCHANGED << src, CurScope, AllInstances, status >>
  BY DEF actOnFunctionFragment
<1>3. /\ Step \in AllFragments /\ id \in STRING /\ Arity(Step) = 0 /\ IsPartOf(Code(Top), Step)
      /\ CurScope = Len(stack) /\ Top = stack[Len(stack)] /\ Len(stack) \in 1 .. Len(stack)
      /\ Top \in Frames /\ Len(Top.operands) \in Nat
      /\ Len(AllInstances) \in Nat /\ \A k \in 1 .. Len(stack) : stack[k].inst \in 0 .. Len(AllInstances)
      /\ FunctionDecls \in Seq(FuncDecls) /\ Len(FunctionDecls) \in Nat /\ SameCodes
  BY <1>1, <1>2, FragmentAt
<1>4. /\ Top.decls \in Scopes /\ Top.pc + 1 \in Nat /\ Top.operands \in Seq(Exprs) /\ Top.rets \in Seq(AnyType)
  BY <1>3 DEF Frames
<1>5. n \in Nat /\ n \notin 1 .. Len(FunctionDecls) /\ Function(n) \in Declarations
  BY <1>3, DeclarationsAre
<1>6. /\ decls \in Scopes /\ DOMAIN decls = DOMAIN Top.decls \cup { id }
      /\ decls[id] = Function(n)
      /\ \A x \in DOMAIN Top.decls : x # id => decls[x] = Top.decls[x]
  <2> HIDE DEF id, n
  <2> QED
    BY <1>3, <1>4, <1>5, ScopeWith, Zenon
<1>7. stack' = [ stack EXCEPT ![Len(stack)] = g ]
  <2>0. stack \in Seq(Frames)
    BY DEF IInv, Typed
  <2>1. g = [ Top EXCEPT !.decls = decls, !.pc = Top.pc + 1 ]
    BY <1>3 DEF Changed, Frames
  <2>2. stack' = [ stack EXCEPT ![Len(stack)] = [ Top EXCEPT !.decls = decls, !.pc = Top.pc + 1 ] ]
    <3> HIDE DEF id, n
    <3> QED
      BY <1>2, <1>3, <2>0 DEF Frames
  <2> QED
    BY <2>1, <2>2
<1>8. now \in FuncDecls /\ now.frags = << Step >> /\ Len(<< Step >>) = 1 /\ << Step >>[1] = Step
      /\ << Step >> # << >>
  <2>1. << Step >> \in Seq(AllFragments) /\ Len(<< Step >>) = 1 /\ << Step >>[1] = Step
    BY <1>3, OneElement
  <2>2. << Step >> # << >>
    BY <2>1, NotEmpty
  <2> QED
    BY <1>3, <2>1, <2>2 DEF FuncDecls
<1> HIDE DEF decls, now, id
<1>9. /\ g \in Frames /\ SameFrame(g, Top)
      /\ g.pc = Top.pc + 1 /\ g.decls = decls /\ g.operands = Top.operands /\ g.rets = Top.rets
  BY <1>3, <1>4, <1>6, ChangedFrame
<1> HIDE DEF g
<1>10. /\ FunctionDecls' \in Seq(FuncDecls) /\ Len(FunctionDecls') = Len(FunctionDecls) + 1
       /\ \A i \in 1 .. Len(FunctionDecls) : FunctionDecls'[i] = FunctionDecls[i]
       /\ FunctionDecls'[n] = now
  BY <1>2, <1>3, <1>8, AppendProperties
<1>11. KeepsFunctions
  <2>1. \A i \in 1 .. Len(FunctionDecls) : FunctionDecls[i].frags # << >>
    BY DEF IInv, Sized
  <2>2. \A i \in 1 .. Len(FunctionDecls') : i \in 1 .. Len(FunctionDecls) \/ i = n
    BY <1>3, <1>10
  <2> HIDE DEF n
  <2>3. ASSUME NEW i \in 1 .. Len(FunctionDecls') PROVE FunctionDecls'[i].frags # << >>
    <3>1. CASE i \in 1 .. Len(FunctionDecls)
      BY <1>10, <2>1, <3>1
    <3>2. CASE i = n
      BY <1>8, <1>10, <3>2
    <3> QED
      BY <2>2, <3>1, <3>2
  <2>4. Len(FunctionDecls) <= Len(FunctionDecls')
    BY <1>3, <1>10
  <2> QED
    BY <1>10, <2>3, <2>4 DEF KeepsFunctions
<1>12. Replaces(g) /\ g.frag = Top.frag
  BY <1>2, <1>7, <1>9 DEF Replaces, SameFrame
<1>13. Len(g.operands) = Len(Top.operands) - Arity(Step) + IF IsExpression("fragment") THEN 1 ELSE 0
  <2>1. ~IsExpression("fragment")
    BY DEF IsExpression
  <2> QED
    BY <1>3, <1>9, <2>1
<1>14. /\ Typed' /\ Sized' /\ Stacked' /\ InstancesPlaced' /\ Unique' /\ Undecided'
       /\ Len(stack') = Len(stack)
       /\ \A k \in 1 .. Len(stack) : stack'[k] = IF k = Len(stack) THEN g ELSE stack[k]
  BY <1>1, <1>2, <1>9, <1>11, <1>12, <1>13, FrameAdvances
<1>15. FunctionsPlaced'
  <2>1. ASSUME NEW k \in 1 .. Len(stack), NEW f \in Nat, Declares(k, f)'
        PROVE  Declares(k, f) \/ (f = n /\ k = Len(stack))
    <3>1. CASE k = Len(stack)
      <4>1. PICK x \in DOMAIN g.decls : g.decls[x] = Function(f)
        BY <1>14, <2>1, <3>1 DEF Declares
      <4>2. CASE x = id
        BY <1>6, <1>9, <3>1, <4>1, <4>2, DeclarationsAre
      <4>3. CASE x # id
        BY <1>3, <1>6, <1>9, <3>1, <4>1, <4>3 DEF Declares
      <4> QED
        BY <4>2, <4>3
    <3>2. CASE k # Len(stack)
      BY <1>14, <2>1, <3>2 DEF Declares
    <3> QED
      BY <3>1, <3>2
  <2>2. \A k \in 1 .. Len(stack) : Code(stack[k])' = Code(stack[k])
    <3> TAKE k \in 1 .. Len(stack)
    <3>1. \A f : f.inst \in 0 .. Len(AllInstances) => Code(f)' = Code(f)
      BY <1>3, CodesKept
    <3>2. g.inst = Top.inst /\ g.frag = Top.frag
      BY <1>9 DEF SameFrame
    <3>3. Code(g) = Code(Top)
      BY <3>2 DEF Code
    <3> QED
      BY <1>3, <1>14, <3>1, <3>2, <3>3
  <2>3. \A k \in 1 .. Len(stack), f \in Nat : Declares(k, f) =>
          /\ f \in 1 .. Len(FunctionDecls)
          /\ \A j \in 1 .. Len(FunctionDecls[f].frags) : IsPartOf(Code(stack[k]), FunctionDecls[f].frags[j])
          /\ \A m \in 1 .. Len(stack) : Declares(m, f) => m = k
    BY DEF IInv, Lexical, FunctionsPlaced
  <2>4. ASSUME NEW k \in 1 .. Len(stack), NEW f \in Nat, Declares(k, f)'
        PROVE  /\ f \in 1 .. Len(FunctionDecls')
               /\ \A j \in 1 .. Len(FunctionDecls'[f].frags) :
                    IsPartOf(Code(stack[k]), FunctionDecls'[f].frags[j])
               /\ \A m \in 1 .. Len(stack) : Declares(m, f)' => m = k
    <3>1. CASE Declares(k, f)
      <4>1. f \in 1 .. Len(FunctionDecls) /\ f # n
        BY <1>5, <2>3, <3>1
      <4>2. f \in 1 .. Len(FunctionDecls') /\ FunctionDecls'[f] = FunctionDecls[f]
        BY <1>3, <1>10, <4>1
      <4>3. \A m \in 1 .. Len(stack) : Declares(m, f)' => m = k
        BY <2>1, <2>3, <3>1, <4>1
      <4> QED
        BY <2>3, <3>1, <4>2, <4>3
    <3>2. CASE f = n /\ k = Len(stack)
      <4>1. FunctionDecls'[f].frags = << Step >> /\ f \in 1 .. Len(FunctionDecls')
        BY <1>3, <1>8, <1>10, <3>2
      <4>2. \A m \in 1 .. Len(stack) : Declares(m, f)' => m = k
        BY <1>5, <2>1, <2>3, <3>2
      <4>3. \A j \in 1 .. Len(FunctionDecls'[f].frags) : j = 1
        BY <1>8, <4>1
      <4> QED
        BY <1>3, <1>8, <3>2, <4>1, <4>2, <4>3
    <3> QED
      BY <2>1, <2>4, <3>1, <3>2
  <2> QED
    BY <1>14, <2>2, <2>4 DEF FunctionsPlaced
<1> QED
  BY <1>14, <1>15 DEF IInv, Lexical

LEMMA FunctionFragmentKeeps == ASSUME IInv, actOnFunctionFragment PROVE IInv'
BY AnotherFragmentKeeps, FirstFragmentKeeps

-----------------------------------------------------------------------------
(* Instances                                                               *)

(* A call or the entry point, and what is known of the frame that makes it.*)
LEMMA CallAt ==
  ASSUME IInv, NEW op \in { "call", "entry" }, At(op)
  PROVE  /\ CurScope = Len(stack) /\ Top = stack[Len(stack)] /\ Len(stack) \in 1 .. Len(stack)
         /\ Len(stack) \in Nat \ { 0 } /\ Top \in Frames
         /\ Top.pc \in 1 .. Len(Code(Top)) /\ Code(Top)[Top.pc].op = op /\ Step = Code(Top)[Top.pc]
         /\ Arity(Step) \in Nat /\ Len(Top.operands) \in Nat /\ Arity(Step) <= Len(Top.operands)
         /\ Len(Top.operands) = HeightAt(Top)
         /\ op = "entry" => Arity(Step) = 0
<1>1. /\ CurScope = Len(stack) /\ Top.pc \in 1 .. Len(Code(Top))
      /\ Arity(Step) \in Nat /\ Len(Top.operands) \in Nat /\ Arity(Step) <= Len(Top.operands)
      /\ Len(Top.operands) = HeightAt(Top)
      /\ op = "entry" => Step = [ op |-> "entry" ]
  BY TopSteps DEF IInv
<1>2. Len(stack) \in 1 .. Len(stack) /\ Len(stack) \in Nat \ { 0 } /\ Top \in Frames /\ Top = stack[Len(stack)]
  BY StackFacts DEF IInv, Top
<1>3. Step = Code(Top)[Top.pc] /\ Step.op = op
  BY DEF At, Step
<1> QED
  BY <1>1, <1>2, <1>3, EntryArity

LEMMA ReturnTypes ==
  ASSUME Typed, Sized, NEW i \in 1 .. Len(AllInstances)
  PROVE  getReturnType(i) \in AnyType /\ 1 \in 1 .. Len(AllInstances[i].ret)
<1>1. AllInstances[i] \in Instances
  BY ElementOfSeq DEF Typed
<1>2. AllInstances[i].ret \in Seq(AnyType) /\ AllInstances[i].frags \in Seq(AllFragments)
  BY <1>1 DEF Instances
<1>3. Len(AllInstances[i].ret) = Len(AllInstances[i].frags) /\ AllInstances[i].frags # << >>
  BY DEF Sized
<1>4. Len(AllInstances[i].frags) \in Nat \ { 0 }
  BY <1>2, <1>3, EmptySeq
<1>5. 1 \in 1 .. Len(AllInstances[i].ret)
  BY <1>3, <1>4
<1>6. AllInstances[i].ret[1] \in AnyType
  BY <1>2, <1>5, ElementOfSeq
<1> QED
  BY <1>5, <1>6 DEF getReturnType

LEMMA ReuseKeeps ==
  ASSUME IInv, NEW op \in { "call", "entry" }, At(op), NEW n, n = Arity(Step),
         NEW i \in 1 .. Len(AllInstances), ReuseInstance(i, n)
  PROVE  IInv'
<1>1. Expr(getReturnType(i)) \in Exprs
  BY ReturnTypes, Expressions DEF IInv
<1>2. CASE getReturnType(i) = NoType
  <2>1. Stop("rejected")
    BY <1>2 DEF ReuseInstance
  <2> QED
    BY <2>1, StopKeeps DEF Endings, Rejections
<1>3. CASE getReturnType(i) # NoType
  <2>1. Eval(n, Expr(getReturnType(i)))
    BY <1>3 DEF ReuseInstance
  <2> QED
    BY <1>1, <2>1, EvalKeeps
<1> QED
  BY <1>2, <1>3

(* A new instance has all the fragments there are, and no types yet. *)
LEMMA NewInstance ==
  ASSUME Typed, Sized, NEW fd \in 1 .. Len(FunctionDecls), NEW id \in AnyId
  PROVE  LET new == Clone(fd, id) IN
         /\ new \in Instances
         /\ new.decl = fd /\ new.frags = FunctionDecls[fd].frags /\ new.frags # << >>
         /\ Len(new.ret) = Len(new.frags) /\ new.ret[1] = NoType
<1> DEFINE frags    == FunctionDecls[fd].frags
           nulls(s) == [ i \in 1 .. Len(s) |-> NoType ]
<1>1. FunctionDecls[fd] \in FuncDecls /\ fd \in Nat
  <2>1. FunctionDecls \in Seq(FuncDecls)
    BY DEF Typed
  <2> QED
    BY <2>1, ElementOfSeq, LenProperties
<1>2. frags \in Seq(AllFragments) /\ frags # << >>
  BY <1>1 DEF FuncDecls, Sized
<1> HIDE DEF frags
<1>3. Len(frags) \in Nat \ { 0 } /\ 1 \in 1 .. Len(frags)
  BY <1>2, EmptySeq
<1>4. frags[1] \in AllFragments
  BY <1>2, <1>3, ElementOfSeq
<1>5. frags[1].params \in Seq(STRING)
  BY <1>4, FragmentIsCode
<1>6. ASSUME NEW k \in Nat
      PROVE  /\ [ i \in 1 .. k |-> NoType ] \in Seq(AnyType)
             /\ Len([ i \in 1 .. k |-> NoType ]) = k
             /\ \A i \in 1 .. k : [ i2 \in 1 .. k |-> NoType ][i] = NoType
  <2>1. NoType \in AnyType
    BY BasicTypes
  <2> HIDE DEF NoType
  <2> QED
    BY <2>1
<1>7. nulls(frags[1].params) \in Seq(AnyType)
  <2>1. Len(frags[1].params) \in Nat
    BY <1>5, LenProperties
  <2> QED
    BY <1>6, <2>1
<1>8. nulls(frags) \in Seq(AnyType) /\ Len(nulls(frags)) = Len(frags) /\ nulls(frags)[1] = NoType
  BY <1>3, <1>6
<1> DEFINE p == nulls(frags[1].params)
           r == nulls(frags)
<1>9. Clone(fd, id) = [ decl |-> fd, id |-> id, frags |-> frags, params |-> p, ret |-> r ]
  BY DEF Clone, frags
<1>10. p \in Seq(AnyType) /\ r \in Seq(AnyType) /\ Len(r) = Len(frags) /\ r[1] = NoType
  BY <1>7, <1>8
<1> HIDE DEF p, r, nulls
<1>11. [ decl |-> fd, id |-> id, frags |-> frags, params |-> p, ret |-> r ] \in Instances
  BY <1>1, <1>2, <1>10 DEF Instances
<1> QED
  BY <1>2, <1>9, <1>10, <1>11 DEF frags

LEMMA NewName ==
  ASSUME Typed, Sized, Stacked, NEW fd \in 1 .. Len(FunctionDecls), NEW s \in 1 .. Len(stack)
  PROVE  makeFullScopeName(s) \o << << FunctionDecls[fd].id, Cardinality(InstancesOf(fd)) >> >> \in AnyId
<1> DEFINE name == << FunctionDecls[fd].id, Cardinality(InstancesOf(fd)) >>
<1>1. FunctionDecls[fd].id \in STRING
  <2>1. FunctionDecls[fd] \in FuncDecls
    BY StackFacts
  <2> QED
    BY <2>1 DEF FuncDecls
<1>2. Cardinality(InstancesOf(fd)) \in Nat
  <2>1. Len(AllInstances) \in Nat
    BY StackFacts
  <2>2. InstancesOf(fd) \in SUBSET (1 .. Len(AllInstances))
    BY DEF InstancesOf
  <2>3. IsFiniteSet(1 .. Len(AllInstances))
    BY <2>1, FS_Interval
  <2> QED
    BY <2>2, <2>3, FS_Subset, FS_CardinalityType
<1>3. name \in STRING \X Nat
  BY <1>1, <1>2
<1> HIDE DEF name
<1>4. << name >> \in AnyId
  BY <1>3, OneElement DEF AnyId
<1>5. makeFullScopeName(s) \in AnyId
  <2>1. CASE stack[s].inst = 0
    BY <2>1, EmptySeq DEF makeFullScopeName, AnyId
  <2>2. CASE stack[s].inst # 0
    <3>1. stack[s].inst \in 1 .. Len(AllInstances)
      BY <2>2, StackFacts
    <3>2. AllInstances[stack[s].inst] \in Instances
      BY <3>1, StackFacts
    <3> QED
      BY <2>2, <3>2 DEF makeFullScopeName, Instances
  <2> QED
    BY <2>1, <2>2
<1>6. makeFullScopeName(s) \o << name >> \in AnyId
  BY <1>4, <1>5, ConcatProperties DEF AnyId
<1> QED
  BY <1>6 DEF name

(* The caller waits, the arguments it had gone, and the instance has a     *)
(* frame that is in the scope of the declaration.                          *)
LEMMA CallerWaits ==
  ASSUME IInv, NEW op \in { "call", "entry" }, At(op), NEW n, n = Arity(Step)
  PROVE  LET c == [ Top EXCEPT !.operands = SubSeq(@, 1, Len(@) - n) ] IN
         /\ c \in Frames /\ SameFrame(c, Top) /\ Waiting(c)
         /\ c.pc = Top.pc /\ c.decls = Top.decls /\ c.rets = Top.rets
<1> DEFINE rest == SubSeq(Top.operands, 1, Len(Top.operands) - n)
           c    == Changed(Top, Top.pc, Top.decls, rest, Top.rets)
<1>1. /\ Top \in Frames
      /\ Top.pc \in 1 .. Len(Code(Top)) /\ Code(Top)[Top.pc].op = op /\ Step = Code(Top)[Top.pc]
      /\ n \in Nat /\ Len(Top.operands) \in Nat /\ n <= Len(Top.operands)
      /\ Len(Top.operands) = HeightAt(Top)
  BY CallAt
<1>2. /\ Top.pc \in Nat /\ Top.decls \in Scopes /\ Top.operands \in Seq(Exprs) /\ Top.rets \in Seq(AnyType)
  BY <1>1 DEF Frames
<1>3. rest \in Seq(Exprs) /\ Len(rest) = Len(Top.operands) - n
  <2>1. \A i \in 1 .. Len(Top.operands) - n : Top.operands[i] \in Exprs
    BY <1>1, <1>2, ElementOfSeq
  <2>2. 1 \in Int /\ Len(Top.operands) - n \in Int /\ Len(Top.operands) - n >= 0
    BY <1>1
  <2>3. rest \in Seq(Exprs)
        /\ Len(rest) = IF 1 <= Len(Top.operands) - n THEN Len(Top.operands) - n - 1 + 1 ELSE 0
    BY <2>1, <2>2, SubSeqProperties
  <2> QED
    BY <2>2, <2>3
<1>4. [ Top EXCEPT !.operands = SubSeq(@, 1, Len(@) - n) ] = c
  BY <1>1 DEF Changed, Frames
<1> HIDE DEF rest
<1>5. /\ c \in Frames /\ SameFrame(c, Top)
      /\ c.pc = Top.pc /\ c.decls = Top.decls /\ c.operands = rest /\ c.rets = Top.rets
  BY <1>1, <1>2, <1>3, ChangedFrame
<1> HIDE DEF c
<1>6. Code(c) = Code(Top) /\ HeightAt(c) = HeightAt(Top)
  BY <1>5 DEF SameFrame, Code, HeightAt, InBody, FragmentOf
<1>7. Waiting(c)
  BY <1>1, <1>3, <1>5, <1>6 DEF Waiting
<1> QED
  BY <1>4, <1>5, <1>7

IsFresh(f, inst, frag, args, prev, back) ==
  /\ f \in Frames
  /\ f.inst = inst /\ f.frag = frag /\ f.pc = 0 /\ f.args = args /\ f.prev = prev
  /\ f.back = back /\ f.decls = << >> /\ f.operands = << >> /\ f.rets = << >>

LEMMA NewFrame ==
  ASSUME NEW inst \in Nat, NEW frag \in Nat, NEW args \in Seq(AnyType), NEW prev \in Nat, NEW back \in Nat
  PROVE  IsFresh(Frame(inst, frag, args, prev, back), inst, frag, args, prev, back)
<1>1. << >> \in Seq(Exprs) /\ << >> \in Seq(AnyType)
  BY EmptySeq
<1>2. << >> \in Scopes
  <2>1. << >> \in Seq(Declarations) /\ Len(<< >>) = 0
    BY EmptySeq
  <2>2. << >> \in [ 1 .. 0 -> Declarations ]
    BY <2>1, LenProperties
  <2>3. 1 .. 0 \in SUBSET STRING
    BY 1 .. 0 = {}
  <2> QED
    BY <2>2, <2>3 DEF Scopes
<1> DEFINE Ops  == Seq(Exprs)
           Tys  == Seq(AnyType)
           none == << >>
<1>3. Frames = [ inst : Nat, frag : Nat, pc : Nat, args : Tys, prev : Nat, back : Nat,
                 decls : Scopes, operands : Ops, rets : Tys ]
  BY DEF Frames
<1>4. none \in Ops /\ none \in Tys /\ none \in Scopes /\ args \in Tys
  BY <1>1, <1>2
<1>5. Frame(inst, frag, args, prev, back) =
        [ inst |-> inst, frag |-> frag, pc |-> 0, args |-> args, prev |-> prev, back |-> back,
          decls |-> none, operands |-> none, rets |-> none ]
  BY DEF Frame
<1> DEFINE f == Frame(inst, frag, args, prev, back)
<1>6. none = << >>
  OBVIOUS
<1> HIDE DEF Ops, Tys, none
<1>7. /\ f \in Frames
      /\ f.inst = inst /\ f.frag = frag /\ f.pc = 0 /\ f.args = args /\ f.prev = prev
      /\ f.back = back /\ f.decls = << >> /\ f.operands = << >> /\ f.rets = << >>
  BY <1>3, <1>4, <1>5, <1>6
<1> QED
  BY <1>7 DEF IsFresh

(* A call of function fd with arguments tys that no instance is for: a new *)
(* instance, the frame of the caller and the frame of the instance.        *)
IsNew(new, fd) ==
  /\ new \in Instances
  /\ new.decl = fd /\ new.frags = FunctionDecls[fd].frags /\ new.frags # << >>
  /\ Len(new.ret) = Len(new.frags) /\ new.ret[1] = NoType
IsCaller(c) ==
  /\ c \in Frames /\ SameFrame(c, Top) /\ Waiting(c)
  /\ c.pc = Top.pc /\ c.decls = Top.decls /\ c.rets = Top.rets
IsCallee(f, s, tys) == IsFresh(f, Len(AllInstances) + 1, 1, tys, s, CurScope)
Starts(new, c, f) ==
  /\ AllInstances' = Append(AllInstances, new)
  /\ stack' = Append([ stack EXCEPT ![Len(stack)] = c ], f)
  /\ UNCHANGED << src, CurScope, FunctionDecls, status >>

LEMMA StartedStack ==
  ASSUME IInv, NEW new \in Instances, NEW c \in Frames, NEW f \in Frames, Starts(new, c, f)
  PROVE  /\ stack' \in Seq(Frames) /\ Len(stack') = Len(stack) + 1
         /\ \A k \in 1 .. Len(stack) : stack'[k] = IF k = Len(stack) THEN c ELSE stack[k]
         /\ stack'[Len(stack) + 1] = f /\ Top' = f
         /\ AllInstances' \in Seq(Instances) /\ Len(AllInstances') = Len(AllInstances) + 1
         /\ \A i \in 1 .. Len(AllInstances) : AllInstances'[i] = AllInstances[i]
         /\ AllInstances'[Len(AllInstances) + 1] = new
         /\ SameCodes
<1>1. stack \in Seq(Frames) /\ AllInstances \in Seq(Instances)
  BY DEF IInv, Typed
<1>2. Len(stack) \in 1 .. Len(stack) /\ Len(stack) \in Nat /\ Len(AllInstances) \in Nat
  BY StackFacts DEF IInv
<1> DEFINE mid == [ stack EXCEPT ![Len(stack)] = c ]
<1>3. /\ mid \in Seq(Frames) /\ Len(mid) = Len(stack)
      /\ \A k \in 1 .. Len(stack) : mid[k] = IF k = Len(stack) THEN c ELSE stack[k]
  BY <1>1, <1>2, ExceptSeq
<1> HIDE DEF mid
<1>4. stack' = Append(mid, f) /\ AllInstances' = Append(AllInstances, new) /\ src' = src
  BY DEF Starts, mid
<1>5. /\ stack' \in Seq(Frames) /\ Len(stack') = Len(stack) + 1
      /\ \A k \in 1 .. Len(stack) : stack'[k] = IF k = Len(stack) THEN c ELSE stack[k]
      /\ stack'[Len(stack) + 1] = f
  BY <1>3, <1>4, AppendProperties
<1>6. /\ AllInstances' \in Seq(Instances) /\ Len(AllInstances') = Len(AllInstances) + 1
      /\ \A i \in 1 .. Len(AllInstances) : AllInstances'[i] = AllInstances[i]
      /\ AllInstances'[Len(AllInstances) + 1] = new
  BY <1>1, <1>4, AppendProperties
<1>7. SameCodes
  BY <1>2, <1>4, <1>6 DEF SameCodes
<1>8. Top' = f
  BY <1>5 DEF Top
<1> QED
  BY <1>5, <1>6, <1>7, <1>8

LEMMA StartKeepsStack ==
  ASSUME IInv, NEW op \in { "call", "entry" }, At(op), Len(stack) # MaxDepth,
         NEW fd \in 1 .. Len(FunctionDecls), NEW s \in 1 .. CurScope, NEW tys,
         NEW new, IsNew(new, fd), NEW c, IsCaller(c), NEW f, IsCallee(f, s, tys), Starts(new, c, f)
  PROVE  Typed' /\ Sized' /\ Stacked'
<1>1. /\ stack' \in Seq(Frames) /\ Len(stack') = Len(stack) + 1
      /\ \A k \in 1 .. Len(stack) : stack'[k] = IF k = Len(stack) THEN c ELSE stack[k]
      /\ stack'[Len(stack) + 1] = f
      /\ AllInstances' \in Seq(Instances) /\ Len(AllInstances') = Len(AllInstances) + 1
      /\ \A i \in 1 .. Len(AllInstances) : AllInstances'[i] = AllInstances[i]
      /\ AllInstances'[Len(AllInstances) + 1] = new
      /\ SameCodes
  BY StartedStack DEF IsNew, IsCaller, IsCallee, IsFresh
<1>2. /\ CurScope = Len(stack) /\ Top = stack[Len(stack)] /\ Len(stack) \in 1 .. Len(stack)
      /\ Len(stack) \in Nat \ { 0 }
  BY CallAt
<1>3. /\ Len(AllInstances) \in Nat
      /\ \A k \in 1 .. Len(stack) : stack[k].inst \in 0 .. Len(AllInstances)
      /\ \A k \in 2 .. Len(stack) : stack[k].inst \in 1 .. Len(AllInstances)
  <2>1. \A k \in 2 .. Len(stack) : k \in 1 .. Len(stack) /\ k > 1
    BY <1>2
  <2> QED
    BY <2>1, StackFacts DEF IInv
<1>4. Typed'
  <2>1. src' \in Sources /\ FunctionDecls' \in Seq(FuncDecls)
        /\ status' \in { "running", "accepted", "crashed", "overflowed" } \cup Rejections
    BY DEF IInv, Typed, Starts
  <2>2. Len(stack) \in 1 .. MaxDepth /\ MaxDepth \in Nat /\ CurScope' = CurScope
    BY SourceAssumption, Zenon DEF IInv, Typed, Starts
  <2>3. Len(stack') \in 1 .. MaxDepth /\ CurScope' \in 1 .. Len(stack')
    BY <1>1, <1>2, <2>2
  <2> QED
    BY <1>1, <2>1, <2>3 DEF Typed
<1>5. Sized'
  <2>1. FunctionDecls' = FunctionDecls
    BY DEF Starts
  <2>2. \A i \in 1 .. Len(AllInstances') : i \in 1 .. Len(AllInstances) \/ i = Len(AllInstances) + 1
    BY <1>1, <1>3
  <2>3. /\ \A d \in 1 .. Len(FunctionDecls) : FunctionDecls[d].frags # << >>
        /\ \A i \in 1 .. Len(AllInstances) :
             /\ AllInstances[i].decl \in 1 .. Len(FunctionDecls)
             /\ AllInstances[i].frags # << >>
             /\ Len(AllInstances[i].ret) = Len(AllInstances[i].frags)
    BY DEF IInv, Sized
  <2>4. new.decl \in 1 .. Len(FunctionDecls) /\ new.frags # << >> /\ Len(new.ret) = Len(new.frags)
    BY DEF IsNew
  <2> QED
    BY <1>1, <2>1, <2>2, <2>3, <2>4 DEF Sized
<1>6. Stacked'
  <2>1. \A g : g.inst \in 0 .. Len(AllInstances) => (Waiting(g)' <=> Waiting(g))
    BY <1>1, <1>3, CodesKept
  <2>2. Waiting(c) /\ c.inst = Top.inst /\ c.frag = Top.frag /\ c.prev = Top.prev /\ c.back = Top.back
    BY DEF IsCaller, SameFrame
  <2>3. \A k \in 1 .. Len(stack) :
          /\ stack'[k].inst = stack[k].inst /\ stack'[k].frag = stack[k].frag
          /\ stack'[k].prev = stack[k].prev /\ stack'[k].back = stack[k].back
    BY <1>1, <1>2, <2>2
  <2>4. ASSUME NEW k \in 1 .. Len(stack) PROVE Placed(k)'
    <3>1. Placed(k)
      BY DEF IInv, Stacked
    <3>2. Waiting(stack[k])'
      <4>1. CASE k = Len(stack)
        BY <1>1, <1>2, <1>3, <2>1, <2>2, <4>1
      <4>2. CASE k # Len(stack)
        <5>1. Waiting(stack[k])
          BY <1>2, <3>1, <4>2 DEF Placed
        <5> QED
          BY <1>1, <1>3, <2>1, <4>2, <5>1
      <4> QED
        BY <4>1, <4>2
    <3>3. k > 1 => stack'[k].frag \in 1 .. Len(AllInstances'[stack'[k].inst].frags)
      <4> SUFFICES ASSUME k > 1 PROVE stack'[k].frag \in 1 .. Len(AllInstances'[stack'[k].inst].frags)
        OBVIOUS
      <4>1. stack[k].inst \in 1 .. Len(AllInstances)
        BY <1>2, <1>3
      <4> QED
        BY <1>1, <2>3, <3>1, <4>1 DEF Placed
    <3>4. \A j \in 1 .. k - 1 : stack'[j].inst # stack'[k].inst
      <4>1. \A j \in 1 .. k - 1 : j \in 1 .. Len(stack)
        BY <1>2
      <4> QED
        BY <2>3, <3>1, <4>1 DEF Placed
    <3>5. k # Len(stack') /\ stack'[k].inst <= Len(AllInstances')
      BY <1>1, <1>2, <1>3, <2>3
    <3> QED
      BY <1>1, <2>3, <3>1, <3>2, <3>3, <3>4, <3>5 DEF Placed
  <2>5. ASSUME NEW k, k = Len(stack) + 1 PROVE Placed(k)'
    <3>1. stack'[k] = f /\ k > 1 /\ k \in Nat /\ k = Len(stack')
      BY <1>1, <1>2, <2>5
    <3>2. /\ f.inst = Len(AllInstances) + 1 /\ f.frag = 1 /\ f.pc = 0 /\ f.prev = s
          /\ f.back = CurScope /\ f.operands = << >>
      BY DEF IsCallee, IsFresh
    <3>3. f.inst # 0 /\ f.inst <= Len(AllInstances')
      BY <1>1, <1>3, <3>2
    <3>4. f.frag \in 1 .. Len(AllInstances'[f.inst].frags)
      <4>1. new.frags \in Seq(AllFragments) /\ new.frags # << >>
        BY DEF IsNew, Instances
      <4>2. Len(new.frags) \in Nat \ { 0 }
        BY <4>1, EmptySeq
      <4> QED
        BY <1>1, <3>2, <4>2
    <3>5. f.prev < k /\ f.prev # 0 /\ f.back = k - 1
      BY <1>2, <2>5, <3>2
    <3>6. \A j \in 1 .. k - 1 : stack'[j].inst # f.inst
      BY <1>2, <1>3, <2>3, <2>5, <3>2
    <3> QED
      BY <3>1, <3>2, <3>3, <3>4, <3>5, <3>6 DEF Placed
  <2>6. \A k \in 1 .. Len(stack') : k \in 1 .. Len(stack) \/ k = Len(stack) + 1
    BY <1>1, <1>2
  <2> QED
    BY <2>4, <2>5, <2>6 DEF Stacked
<1> QED
  BY <1>4, <1>5, <1>6

LEMMA StartKeepsScopes ==
  ASSUME IInv, NEW op \in { "call", "entry" }, At(op),
         NEW fd \in 1 .. Len(FunctionDecls), NEW s \in 1 .. CurScope, Declares(s, fd), NEW tys,
         NEW new, IsNew(new, fd), NEW c, IsCaller(c), NEW f, IsCallee(f, s, tys), Starts(new, c, f)
  PROVE  Lexical'
<1>1. /\ Len(stack') = Len(stack) + 1
      /\ \A k \in 1 .. Len(stack) : stack'[k] = IF k = Len(stack) THEN c ELSE stack[k]
      /\ stack'[Len(stack) + 1] = f
      /\ \A i \in 1 .. Len(AllInstances) : AllInstances'[i] = AllInstances[i]
      /\ AllInstances'[Len(AllInstances) + 1] = new
      /\ SameCodes
  BY StartedStack DEF IsNew, IsCaller, IsCallee, IsFresh
<1>2. /\ CurScope = Len(stack) /\ Top = stack[Len(stack)] /\ Len(stack) \in 1 .. Len(stack)
      /\ Len(stack) \in Nat \ { 0 }
  BY CallAt
<1>3. /\ Len(AllInstances) \in Nat
      /\ \A k \in 1 .. Len(stack) : /\ stack[k].inst \in 0 .. Len(AllInstances)
                                    /\ stack[k].prev \in 0 .. k - 1
      /\ \A k \in 2 .. Len(stack) : stack[k].inst \in 1 .. Len(AllInstances)
  <2>1. \A k \in 2 .. Len(stack) : k \in 1 .. Len(stack) /\ k > 1
    BY <1>2
  <2> QED
    BY <2>1, StackFacts DEF IInv, Outwards
<1>4. c.inst = Top.inst /\ c.frag = Top.frag /\ c.prev = Top.prev /\ c.decls = Top.decls
  BY DEF IsCaller, SameFrame
<1>5. \A k \in 1 .. Len(stack) :
        /\ stack'[k].inst = stack[k].inst /\ stack'[k].frag = stack[k].frag
        /\ stack'[k].prev = stack[k].prev /\ stack'[k].decls = stack[k].decls
  BY <1>1, <1>2, <1>4
<1>6. ASSUME NEW k \in 1 .. Len(stack) PROVE Code(stack[k])' = Code(stack[k])
  <2>1. \A g : g.inst \in 0 .. Len(AllInstances) => Code(g)' = Code(g)
    BY <1>1, <1>3, CodesKept
  <2>2. Code(c) = Code(Top)
    BY <1>4 DEF Code
  <2>3. CASE k = Len(stack)
    BY <1>1, <1>2, <1>3, <1>4, <2>1, <2>2, <2>3
  <2>4. CASE k # Len(stack)
    BY <1>1, <1>3, <2>1, <2>4
  <2> QED
    BY <2>3, <2>4
<1>7. f.inst = Len(AllInstances) + 1 /\ f.prev = s /\ f.decls = << >>
  BY DEF IsCallee, IsFresh
<1>8. \A k \in 1 .. Len(stack) : \A d \in Nat : Declares(k, d) =>
        /\ d \in 1 .. Len(FunctionDecls)
        /\ \A j \in 1 .. Len(FunctionDecls[d].frags) : IsPartOf(Code(stack[k]), FunctionDecls[d].frags[j])
        /\ \A m \in 1 .. Len(stack) : Declares(m, d) => m = k
  BY DEF IInv, Lexical, FunctionsPlaced
<1>9. FunctionsPlaced'
  <2>1. \A k \in 1 .. Len(stack), d \in Nat : Declares(k, d)' <=> Declares(k, d)
    BY <1>5 DEF Declares
  <2>2. ASSUME NEW k, k = Len(stack) + 1, NEW d PROVE ~Declares(k, d)'
    <3>1. DOMAIN << >> = {}
      OBVIOUS
    <3> QED
      BY <1>1, <1>7, <2>2, <3>1 DEF Declares
  <2>3. \A k \in 1 .. Len(stack') : k \in 1 .. Len(stack) \/ k = Len(stack) + 1
    BY <1>1, <1>2
  <2>4. FunctionDecls' = FunctionDecls
    BY DEF Starts
  <2> SUFFICES ASSUME NEW k \in 1 .. Len(stack), NEW d \in Nat, Declares(k, d)
               PROVE  /\ d \in 1 .. Len(FunctionDecls)
                      /\ \A j \in 1 .. Len(FunctionDecls[d].frags) :
                           IsPartOf(Code(stack[k])', FunctionDecls[d].frags[j])
                      /\ \A m \in 1 .. Len(stack') : Declares(m, d)' => m = k
    BY <2>1, <2>2, <2>3, <2>4 DEF FunctionsPlaced, IsPartOf
  <2>5. /\ d \in 1 .. Len(FunctionDecls)
        /\ \A j \in 1 .. Len(FunctionDecls[d].frags) : IsPartOf(Code(stack[k]), FunctionDecls[d].frags[j])
        /\ \A m \in 1 .. Len(stack) : Declares(m, d) => m = k
    BY <1>8
  <2>6. Code(stack[k])' = Code(stack[k])
    BY <1>6
  <2>7. \A m \in 1 .. Len(stack') : Declares(m, d)' => m = k
    BY <2>1, <2>2, <2>3, <2>5
  <2> QED
    BY <2>5, <2>6, <2>7
<1>10. InstancesPlaced'
  <2> SUFFICES ASSUME NEW k \in 2 .. Len(stack'),
                      NEW j \in 1 .. Len(AllInstances'[stack'[k].inst].frags)
               PROVE  IsPartOf(Code(stack[stack[k].prev])', AllInstances'[stack'[k].inst].frags[j])
    BY DEF InstancesPlaced, IsPartOf
  <2>1. CASE k \in 2 .. Len(stack)
    <3>1. /\ stack'[k].inst = stack[k].inst /\ stack'[k].prev = stack[k].prev
          /\ AllInstances'[stack[k].inst] = AllInstances[stack[k].inst]
      BY <1>1, <1>2, <1>3, <1>5, <2>1
    <3>2. stack[k].prev \in 1 .. Len(stack)
      <4>1. Placed(k) /\ k \in 1 .. Len(stack)
        BY <1>2, <2>1 DEF IInv, Stacked
      <4> QED
        BY <1>2, <1>3, <2>1, <4>1 DEF Placed
    <3>3. IsPartOf(Code(stack[stack[k].prev]), AllInstances[stack[k].inst].frags[j])
      BY <2>1, <3>1 DEF IInv, Lexical, InstancesPlaced
    <3>4. \A x \in 1 .. Len(stack) : Code(stack[x])' = Code(stack[x])
      BY <1>6
    <3> QED
      BY <3>1, <3>2, <3>3, <3>4
  <2>2. CASE k = Len(stack) + 1
    <3>1. stack'[k] = f /\ AllInstances'[f.inst] = new /\ new.frags = FunctionDecls[fd].frags
      BY <1>1, <1>7, <2>2 DEF IsNew
    <3>2. s \in 1 .. Len(stack) /\ fd \in Nat /\ Len(FunctionDecls) \in Nat
      BY <1>2, StackFacts DEF IInv
    <3>3. IsPartOf(Code(stack[s]), new.frags[j])
      BY <1>8, <3>1, <3>2
    <3>4. Code(stack[s])' = Code(stack[s])
      BY <1>6, <3>2
    <3> QED
      BY <1>7, <3>1, <3>3, <3>4
  <2>3. k \in 2 .. Len(stack) \/ k = Len(stack) + 1
    BY <1>1, <1>2
  <2> QED
    BY <2>1, <2>2, <2>3
<1> QED
  BY <1>9, <1>10 DEF Lexical

LEMMA StartKeepsInstances ==
  ASSUME IInv, NEW op \in { "call", "entry" }, At(op),
         NEW fd \in 1 .. Len(FunctionDecls), NEW s \in 1 .. CurScope, NEW tys,
         \A i \in 1 .. Len(AllInstances) : AllInstances[i].decl = fd => AllInstances[i].params # tys,
         NEW new, IsNew(new, fd), NEW c, IsCaller(c), NEW f, IsCallee(f, s, tys), Starts(new, c, f)
  PROVE  Unique' /\ Undecided'
<1>1. /\ Len(stack') = Len(stack) + 1
      /\ \A k \in 1 .. Len(stack) : stack'[k] = IF k = Len(stack) THEN c ELSE stack[k]
      /\ stack'[Len(stack) + 1] = f /\ Top' = f
      /\ Len(AllInstances') = Len(AllInstances) + 1
      /\ \A i \in 1 .. Len(AllInstances) : AllInstances'[i] = AllInstances[i]
      /\ AllInstances'[Len(AllInstances) + 1] = new
      /\ SameCodes
  BY StartedStack DEF IsNew, IsCaller, IsCallee, IsFresh
<1>2. /\ Top = stack[Len(stack)] /\ Len(stack) \in 1 .. Len(stack)
      /\ Len(stack) \in Nat \ { 0 }
  BY CallAt
<1>3. /\ Len(AllInstances) \in Nat
      /\ \A k \in 1 .. Len(stack) : stack[k].inst \in 0 .. Len(AllInstances)
      /\ \A k \in 2 .. Len(stack) : stack[k].inst \in 1 .. Len(AllInstances)
  <2>1. \A k \in 2 .. Len(stack) : k \in 1 .. Len(stack) /\ k > 1
    BY <1>2
  <2> QED
    BY <2>1, StackFacts DEF IInv
<1>4. \A k \in 1 .. Len(stack) :
        /\ stack'[k].inst = stack[k].inst /\ stack'[k].frag = stack[k].frag
        /\ stack'[k].pc = stack[k].pc /\ stack'[k].rets = stack[k].rets
  BY <1>1, <1>2 DEF IsCaller, SameFrame
<1>5. /\ f.inst = Len(AllInstances) + 1 /\ f.frag = 1 /\ f.pc = 0 /\ f.args = tys /\ f.rets = << >>
      /\ new.decl = fd /\ new.ret[1] = NoType
  BY DEF IsCallee, IsFresh, IsNew
<1>6. \A k \in 1 .. Len(stack') : k \in 1 .. Len(stack) \/ k = Len(stack) + 1
  BY <1>1, <1>2
<1>7. \A i \in 1 .. Len(AllInstances') : i \in 1 .. Len(AllInstances) \/ i = Len(AllInstances) + 1
  BY <1>1, <1>3
<1>8. InstancesDiffer'
  <2>1. ASSUME NEW i \in 1 .. Len(AllInstances), Entered(i)' PROVE Entered(i)
    <3>1. \A k \in 1 .. Len(stack) : k \in 1 .. Len(stack')
      BY <1>1, <1>2
    <3> QED
      BY <1>4, <2>1, <3>1 DEF Entered
  <2>2. ASSUME NEW i, i = Len(AllInstances) + 1 PROVE ~Entered(i)'
    <3>1. Len(stack) + 1 \in 1 .. Len(stack')
      BY <1>1, <1>2
    <3> QED
      BY <1>1, <1>5, <2>2, <3>1 DEF Entered
  <2>3. InstancesDiffer
    BY DEF IInv, Unique
  <2> SUFFICES ASSUME NEW i \in 1 .. Len(AllInstances'), NEW j \in 1 .. Len(AllInstances'),
                      i # j, Entered(i)', Entered(j)',
                      AllInstances'[i].decl = AllInstances'[j].decl,
                      AllInstances'[i].params = AllInstances'[j].params
               PROVE  NoType \in { AllInstances'[i].params[p] : p \in 1 .. Len(AllInstances'[i].params) }
    BY DEF InstancesDiffer
  <2>4. i \in 1 .. Len(AllInstances) /\ j \in 1 .. Len(AllInstances)
    BY <1>7, <2>2
  <2>5. AllInstances'[i] = AllInstances[i] /\ AllInstances'[j] = AllInstances[j] /\ Entered(i) /\ Entered(j)
    BY <1>1, <2>1, <2>4
  <2> QED
    BY <2>3, <2>4, <2>5 DEF InstancesDiffer
<1>9. Unseen'
  <2> SUFFICES ASSUME NEW i \in 1 .. Len(AllInstances'), i # f.inst,
                      AllInstances'[i].decl = AllInstances'[f.inst].decl
               PROVE  AllInstances'[i].params # f.args
    BY <1>1 DEF Unseen
  <2>1. i \in 1 .. Len(AllInstances)
    BY <1>5, <1>7
  <2> QED
    BY <1>1, <1>5, <2>1
<1>10. Undecided'
  <2>1. \A g : g.inst \in 1 .. Len(AllInstances) =>
          /\ Returning(g)' <=> Returning(g)
          /\ InBody(g)' <=> InBody(g)
          /\ Returns(FragmentOf(g))' <=> Returns(FragmentOf(g))
          /\ FragmentOf(g)' = FragmentOf(g)
    BY <1>1, <1>3, CodesKept
  <2> SUFFICES ASSUME NEW k \in 2 .. Len(stack')
               PROVE  /\ ~Returning(stack[k])' => stack'[k].rets = << >>
                      /\ stack'[k].frag = 1 =>
                           \/ getReturnType(stack[k].inst)' = NoType
                           \/ InBody(stack[k])' /\ ~Returns(FragmentOf(stack[k]))'
    BY DEF Undecided
  <2>2. CASE k \in 2 .. Len(stack)
    <3>1. /\ ~Returning(stack[k]) => stack[k].rets = << >>
          /\ stack[k].frag = 1 =>
               \/ getReturnType(stack[k].inst) = NoType
               \/ InBody(stack[k]) /\ ~Returns(FragmentOf(stack[k]))
      BY <2>2 DEF IInv, Undecided
    <3>2. k \in 1 .. Len(stack) /\ stack[k].inst \in 1 .. Len(AllInstances)
      BY <1>2, <1>3, <2>2
    <3>3. getReturnType(stack[k].inst)' = getReturnType(stack[k].inst)
      BY <1>1, <1>4, <3>2 DEF getReturnType
    <3>4. /\ stack'[k].inst = stack[k].inst /\ stack'[k].frag = stack[k].frag
          /\ stack'[k].pc = stack[k].pc /\ stack'[k].rets = stack[k].rets
      BY <1>4, <3>2
    <3>5. /\ Returning(stack[k])' <=> Returning(stack[k])
          /\ InBody(stack[k])' <=> InBody(stack[k])
          /\ Returns(FragmentOf(stack[k]))' <=> Returns(FragmentOf(stack[k]))
      <4>1. \A g, h : g.inst = h.inst /\ g.frag = h.frag /\ g.pc = h.pc =>
              /\ FragmentOf(g) = FragmentOf(h) /\ (InBody(g) <=> InBody(h))
              /\ (Returning(g) <=> Returning(h))
        BY DEF FragmentOf, InBody, Returning
      <4>2. ASSUME NEW h, h = stack'[k]
            PROVE  /\ Returning(h)' <=> Returning(stack[k])
                   /\ InBody(h)' <=> InBody(stack[k])
                   /\ Returns(FragmentOf(h))' <=> Returns(FragmentOf(stack[k]))
        <5>1. h.inst \in 1 .. Len(AllInstances) /\ h.inst = stack[k].inst /\ h.frag = stack[k].frag
              /\ h.pc = stack[k].pc
          BY <3>2, <3>4, <4>2
        <5>2. FragmentOf(h) = FragmentOf(stack[k]) /\ (InBody(h) <=> InBody(stack[k]))
              /\ (Returning(h) <=> Returning(stack[k]))
          BY <4>1, <5>1
        <5>3. /\ Returning(h)' <=> Returning(h)
              /\ InBody(h)' <=> InBody(h)
              /\ Returns(FragmentOf(h))' <=> Returns(FragmentOf(h))
          BY <2>1, <5>1
        <5> QED
          BY <5>2, <5>3
      <4> QED
        BY <4>2
    <3> QED
      BY <3>1, <3>3, <3>4, <3>5
  <2>3. CASE k = Len(stack) + 1
    <3>1. stack'[k] = f
      BY <1>1, <2>3
    <3>2. getReturnType(stack[k].inst)' = NoType
      BY <1>1, <1>5, <3>1 DEF getReturnType
    <3> QED
      BY <1>5, <3>1, <3>2
  <2> QED
    BY <1>1, <1>2, <2>2, <2>3
<1> QED
  BY <1>8, <1>9, <1>10 DEF Unique

(* A new instance with a frame of its own, unless the stack is full. *)
LEMMA CreateStarts ==
  ASSUME IInv, NEW op \in { "call", "entry" }, At(op), NEW n, n = Arity(Step),
         NEW fd \in 1 .. Len(FunctionDecls), NEW tys \in Seq(AnyType),
         findScopeOfDecl(fd) \in 1 .. CurScope,
         CreateInstance(fd, tys, n)
  PROVE  \/ Stop("overflowed")
         \/ /\ Len(stack) # MaxDepth
            /\ \E new, c, f :
                 /\ IsNew(new, fd) /\ IsCaller(c) /\ IsCallee(f, findScopeOfDecl(fd), tys)
                 /\ c.operands = SubSeq(Top.operands, 1, Len(Top.operands) - n)
                 /\ Starts(new, c, f)
<1> DEFINE s    == findScopeOfDecl(fd)
           id   == makeFullScopeName(s) \o << << FunctionDecls[fd].id, Cardinality(InstancesOf(fd)) >> >>
           new  == Clone(fd, id)
           c    == [ Top EXCEPT !.operands = SubSeq(@, 1, Len(@) - n) ]
           f    == Frame(Len(AllInstances) + 1, 1, tys, s, CurScope)
<1>1. /\ CurScope = Len(stack) /\ Len(stack) \in 1 .. Len(stack) /\ Len(stack) \in Nat \ { 0 }
      /\ Top = stack[Len(stack)] /\ Len(AllInstances) \in Nat
  BY CallAt, StackFacts DEF IInv
<1>2. s # 0 /\ s \in 1 .. Len(stack) /\ s \in Nat
  BY <1>1
<1>3. CASE Len(stack) = MaxDepth
  BY <1>2, <1>3 DEF CreateInstance
<1>4. CASE Len(stack) # MaxDepth
  <2>1. /\ AllInstances' = Append(AllInstances, new)
        /\ stack' = Append([ stack EXCEPT ![Len(stack)].operands = SubSeq(@, 1, Len(@) - n) ], f)
        /\ UNCHANGED << src, CurScope, FunctionDecls, status >>
    BY <1>2, <1>4 DEF CreateInstance
  <2>2. [ stack EXCEPT ![Len(stack)].operands = SubSeq(@, 1, Len(@) - n) ]
          = [ stack EXCEPT ![Len(stack)] = c ]
    BY <1>1
  <2>3. Starts(new, c, f)
    BY <2>1, <2>2 DEF Starts
  <2>4. IsNew(new, fd)
    <3>1. id \in AnyId
      BY <1>2, NewName DEF IInv
    <3> HIDE DEF id
    <3>2. /\ new \in Instances
          /\ new.decl = fd /\ new.frags = FunctionDecls[fd].frags /\ new.frags # << >>
          /\ Len(new.ret) = Len(new.frags) /\ new.ret[1] = NoType
      BY <3>1, NewInstance DEF IInv
    <3> HIDE DEF new
    <3> QED
      BY <3>2 DEF IsNew
  <2>5. IsCaller(c)
    <3>1. /\ c \in Frames /\ SameFrame(c, Top) /\ Waiting(c)
          /\ c.pc = Top.pc /\ c.decls = Top.decls /\ c.rets = Top.rets
      BY CallerWaits
    <3> HIDE DEF c
    <3> QED
      BY <3>1 DEF IsCaller
  <2>6. IsCallee(f, s, tys)
    <3> HIDE DEF s
    <3>1. Len(AllInstances) + 1 \in Nat /\ 1 \in Nat /\ CurScope \in Nat
      BY <1>1
    <3> QED
      BY <1>2, <3>1, NewFrame DEF IsCallee
  <2>7. c.operands = SubSeq(Top.operands, 1, Len(Top.operands) - n)
    <3>1. Top \in Frames
      BY CallAt
    <3> QED
      BY <3>1 DEF Frames
  <2> HIDE DEF s, new, c, f
  <2> QED
    BY <1>4, <2>3, <2>4, <2>5, <2>6, <2>7 DEF s
<1> QED
  BY <1>3, <1>4

LEMMA CreateKeeps ==
  ASSUME IInv, NEW op \in { "call", "entry" }, At(op), NEW n, n = Arity(Step),
         NEW fd \in 1 .. Len(FunctionDecls), NEW tys \in Seq(AnyType),
         findScopeOfDecl(fd) \in 1 .. CurScope, Declares(findScopeOfDecl(fd), fd),
         { i \in InstancesOf(fd) : AllInstances[i].params = tys } = {},
         CreateInstance(fd, tys, n)
  PROVE  IInv'
<1>1. PICK s : s = findScopeOfDecl(fd)
  OBVIOUS
<1>2. CASE Stop("overflowed")
  BY <1>2, StopKeeps DEF Endings
<1>3. ASSUME Len(stack) # MaxDepth, NEW new, NEW c, NEW f,
             IsNew(new, fd), IsCaller(c), IsCallee(f, s, tys), Starts(new, c, f)
      PROVE  IInv'
  <2>1. s \in 1 .. CurScope /\ Declares(s, fd)
    BY <1>1
  <2>2. \A i \in 1 .. Len(AllInstances) : AllInstances[i].decl = fd => AllInstances[i].params # tys
    BY DEF InstancesOf
  <2>3. Typed' /\ Sized' /\ Stacked'
    BY <1>3, <2>1, StartKeepsStack
  <2>4. Lexical'
    BY <1>3, <2>1, StartKeepsScopes
  <2>5. Unique' /\ Undecided'
    BY <1>3, <2>1, <2>2, StartKeepsInstances
  <2> QED
    BY <2>3, <2>4, <2>5 DEF IInv
<1> QED
  BY <1>1, <1>2, <1>3, CreateStarts

LEMMA GetOrCreateKeeps ==
  ASSUME IInv, NEW op \in { "call", "entry" }, At(op), NEW n, n = Arity(Step),
         NEW fd \in 1 .. Len(FunctionDecls), NEW tys \in Seq(AnyType),
         findScopeOfDecl(fd) \in 1 .. CurScope, Declares(findScopeOfDecl(fd), fd),
         getOrCreateFunctionInstance(fd, tys, n)
  PROVE  IInv'
<1> DEFINE same == { i \in InstancesOf(fd) : AllInstances[i].params = tys }
<1>1. CASE \E i \in same : ReuseInstance(i, n)
  BY <1>1, ReuseKeeps DEF InstancesOf
<1>2. CASE same = {} /\ CreateInstance(fd, tys, n)
  BY <1>2, CreateKeeps
<1> QED
  BY <1>1, <1>2 DEF getOrCreateFunctionInstance

(* A name stands for a variable, a function or nothing. *)
LEMMA DeclKind ==
  ASSUME IInv, NEW id
  PROVE  findDecl(id).kind \in { "none", "variable", "function" }
<1> DEFINE d == findDecl(id)
<1>1. CASE d = Undeclared
  BY <1>1 DEF Undeclared
<1>2. CASE d # Undeclared
  <2>1. Outwards /\ CurScope \in 1 .. Len(stack)
    BY StackFacts DEF IInv
  <2>2. PICK k \in 1 .. Len(stack) : id \in DOMAIN stack[k].decls /\ d = stack[k].decls[id]
    BY <1>2, <2>1, DeclFound
  <2>3. stack[k].decls \in Scopes
    BY StackFacts DEF IInv, Frames
  <2> HIDE DEF d
  <2>4. d \in Declarations
    BY <2>2, <2>3 DEF Scopes
  <2>5. d.kind \in { "none", "variable", "function" }
    BY <2>4 DEF Declarations
  <2> QED
    BY <2>5 DEF d
<1> QED
  BY <1>1, <1>2

(* A call, with the function and the argument types it is of, or an error. *)
CallsOrEnds ==
  \/ \E how \in Endings : Stop(how)
  \/ \E op \in { "call", "entry" }, fd \in 1 .. Len(FunctionDecls), tys \in Seq(AnyType) :
       /\ At(op)
       /\ findScopeOfDecl(fd) \in 1 .. CurScope /\ Declares(findScopeOfDecl(fd), fd)
       /\ getOrCreateFunctionInstance(fd, tys, Arity(Step))

LEMMA FunctionCallOutcome == ASSUME IInv, actOnFunctionCall PROVE CallsOrEnds
<1> DEFINE d == findDecl(Step.id)
<1>1. At("call")
  BY DEF actOnFunctionCall
<1>2. /\ Step.op = "call" /\ Arity(Step) \in Nat /\ Arity(Step) <= Len(Top.operands) /\ Top \in Frames
  BY <1>1, OperandsThere
<1>3. Arity(Step) = Step.n
  BY <1>2 DEF Arity
<1>4. "rejected" \in Endings /\ "crashed" \in Endings
  BY DEF Endings, Rejections
<1>5. CASE d.kind = "none"
  <2>1. Stop("rejected")
    BY <1>5 DEF actOnFunctionCall
  <2> QED
    BY <1>4, <2>1 DEF CallsOrEnds
<1>6. CASE d.kind = "variable"
  <2>1. Stop("crashed")
    BY <1>6 DEF actOnFunctionCall
  <2> QED
    BY <1>4, <2>1 DEF CallsOrEnds
<1>7. CASE d.kind = "function"
  <2>1. Outwards /\ CurScope \in 1 .. Len(stack) /\ d # Undeclared
    BY <1>7, StackFacts DEF IInv, Undeclared
  <2>2. PICK k \in 1 .. Len(stack) : Step.id \in DOMAIN stack[k].decls /\ d = stack[k].decls[Step.id]
    BY <2>1, DeclFound
  <2>3. d = Function(d.fd) /\ d.fd \in 1 .. Len(FunctionDecls)
    BY <1>7, <2>2, DeclaredFunction
  <2>4. findScopeOfDecl(d.fd) \in 1 .. CurScope /\ Declares(findScopeOfDecl(d.fd), d.fd)
    BY <2>1, <2>3, ScopeOfDeclFound
  <2>5. Types(Step.n) \in Seq(AnyType)
    <3>1. \A i \in 1 .. Step.n : Operand(i, Step.n).type \in AnyType
      BY <1>2, <1>3, OperandIs
    <3>2. [ i \in 1 .. Step.n |-> Operand(i, Step.n).type ] \in Seq(AnyType)
      <4> DEFINE t(i) == Operand(i, Step.n).type
      <4>1. \A i \in 1 .. Step.n : t(i) \in AnyType
        BY <3>1
      <4>2. Step.n \in Nat
        BY <1>2, <1>3
      <4> HIDE DEF t
      <4>3. [ i \in 1 .. Step.n |-> t(i) ] \in Seq(AnyType)
        BY <4>1, <4>2, IsASeq
      <4> QED
        BY <4>3 DEF t
    <3> QED
      BY <3>2 DEF Types
  <2>6. getOrCreateFunctionInstance(d.fd, Types(Step.n), Arity(Step))
    BY <1>3, <1>7 DEF actOnFunctionCall
  <2> HIDE DEF d
  <2> QED
    BY <1>1, <2>3, <2>4, <2>5, <2>6, Zenon DEF CallsOrEnds
<1>8. d.kind \in { "none", "variable", "function" }
  BY DeclKind
<1> QED
  BY <1>5, <1>6, <1>7, <1>8

LEMMA EntryPointOutcome == ASSUME IInv, createEntryPoint PROVE CallsOrEnds
<1> DEFINE d == stack[CurScope].decls["main"]
<1>1. At("entry")
  BY DEF createEntryPoint
<1>2. CASE Declared("main") /\ d.kind = "function"
  <2>1. Outwards /\ CurScope \in 1 .. Len(stack) /\ "main" \in DOMAIN stack[CurScope].decls
    BY <1>2, StackFacts DEF IInv, Declared
  <2>2. d = Function(d.fd) /\ d.fd \in 1 .. Len(FunctionDecls)
    BY <1>2, <2>1, DeclaredFunction
  <2>3. findScopeOfDecl(d.fd) \in 1 .. CurScope /\ Declares(findScopeOfDecl(d.fd), d.fd)
    BY <2>1, <2>2, ScopeOfDeclFound
  <2>4. << >> \in Seq(AnyType)
    BY EmptySeq
  <2>5. Arity(Step) = 0
    BY <1>1, CallAt
  <2>6. getOrCreateFunctionInstance(d.fd, << >>, Arity(Step))
    BY <1>2, <2>5 DEF createEntryPoint
  <2> HIDE DEF d
  <2> QED
    BY <1>1, <2>2, <2>3, <2>4, <2>6, Zenon DEF CallsOrEnds
<1>3. CASE ~(Declared("main") /\ d.kind = "function")
  <2>1. Stop("rejected")
    BY <1>3 DEF createEntryPoint
  <2> QED
    BY <2>1 DEF CallsOrEnds, Endings, Rejections
<1> QED
  BY <1>2, <1>3

LEMMA FunctionCallKeeps == ASSUME IInv, actOnFunctionCall PROVE IInv'
BY FunctionCallOutcome, StopKeeps, GetOrCreateKeeps, Zenon DEF CallsOrEnds

LEMMA EntryPointKeeps == ASSUME IInv, createEntryPoint PROVE IInv'
BY EntryPointOutcome, StopKeeps, GetOrCreateKeeps, Zenon DEF CallsOrEnds

-----------------------------------------------------------------------------
(* The fragments of an instance                                            *)

(* What the steps that write types into the instance at work leave alone.  *)
LEMMA OthersUndecided ==
  ASSUME IInv, SameCodes, NEW g, g.inst = Top.inst, Len(stack) > 1,
         Len(stack') = Len(stack),
         \A k \in 1 .. Len(stack) : stack'[k] = IF k = Len(stack) THEN g ELSE stack[k],
         \A i \in 1 .. Len(AllInstances) : i # Top.inst => AllInstances'[i].ret = AllInstances[i].ret,
         ~Returning(g) => g.rets = << >>,
         g.frag = 1 => \/ AllInstances'[g.inst].ret[1] = NoType
                       \/ InBody(g) /\ ~Returns(FragmentOf(g))
  PROVE  Undecided'
<1>1. /\ Top = stack[Len(stack)] /\ Len(stack) \in Nat \ { 0 } /\ Len(AllInstances) \in Nat
      /\ \A k \in 1 .. Len(stack) : k > 1 => stack[k].inst \in 1 .. Len(AllInstances)
  BY StackFacts DEF IInv, Top
<1>2. \A f : f.inst \in 1 .. Len(AllInstances) =>
        /\ Returning(f)' <=> Returning(f)
        /\ InBody(f)' <=> InBody(f)
        /\ Returns(FragmentOf(f))' <=> Returns(FragmentOf(f))
        /\ FragmentOf(f)' = FragmentOf(f)
  BY <1>1, CodesKept
<1> SUFFICES ASSUME NEW k \in 2 .. Len(stack)
             PROVE  /\ ~Returning(stack[k])' => stack'[k].rets = << >>
                    /\ stack'[k].frag = 1 =>
                         \/ getReturnType(stack[k].inst)' = NoType
                         \/ InBody(stack[k])' /\ ~Returns(FragmentOf(stack[k]))'
  BY DEF Undecided
<1>3. k \in 1 .. Len(stack) /\ stack[k].inst \in 1 .. Len(AllInstances)
  BY <1>1
<1>4. CASE k = Len(stack)
  <2>1. stack'[k] = g /\ g.inst \in 1 .. Len(AllInstances)
    BY <1>1, <1>3, <1>4
  <2>2. /\ Returning(g)' <=> Returning(g)
        /\ InBody(g)' <=> InBody(g)
        /\ Returns(FragmentOf(g))' <=> Returns(FragmentOf(g))
    BY <1>2, <2>1
  <2>3. getReturnType(stack[k].inst)' = AllInstances'[g.inst].ret[1]
    BY <2>1 DEF getReturnType
  <2> QED
    BY <2>1, <2>2, <2>3
<1>5. CASE k # Len(stack)
  <2>1. stack'[k] = stack[k] /\ stack[k].inst # Top.inst
    <3>1. Placed(Len(stack)) /\ k \in 1 .. Len(stack) - 1
      BY <1>1, <1>5 DEF IInv, Stacked
    <3> QED
      BY <1>1, <1>3, <1>5, <3>1 DEF Placed
  <2>2. /\ ~Returning(stack[k]) => stack[k].rets = << >>
        /\ stack[k].frag = 1 =>
             \/ getReturnType(stack[k].inst) = NoType
             \/ InBody(stack[k]) /\ ~Returns(FragmentOf(stack[k]))
    BY DEF IInv, Undecided
  <2>3. getReturnType(stack[k].inst)' = getReturnType(stack[k].inst)
    BY <1>3, <2>1 DEF getReturnType
  <2>4. /\ Returning(stack[k])' <=> Returning(stack[k])
        /\ InBody(stack[k])' <=> InBody(stack[k])
        /\ Returns(FragmentOf(stack[k]))' <=> Returns(FragmentOf(stack[k]))
    BY <1>2, <1>3, <2>1
  <2> QED
    BY <2>1, <2>2, <2>3, <2>4
<1> QED
  BY <1>4, <1>5

(* Only the frame at the top is of the instance it is of. *)
LEMMA TopEntered ==
  ASSUME Stacked, Len(stack) \in Nat, Top.frag = 1 => Top.pc # 0
  PROVE  Entered(Top.inst)
<1> SUFFICES ASSUME NEW k \in 1 .. Len(stack), stack[k].inst = Top.inst, stack[k].frag = 1
             PROVE  stack[k].pc # 0
  BY DEF Entered
<1>1. CASE k = Len(stack)
  BY <1>1 DEF Top
<1>2. CASE k # Len(stack)
  <2>1. Placed(Len(stack)) /\ k \in 1 .. Len(stack) - 1
    BY <1>2 DEF Stacked
  <2> QED
    BY <2>1 DEF Placed, Top
<1> QED
  BY <1>1, <1>2

LEMMA ParametersKept ==
  ASSUME IInv, Len(AllInstances') = Len(AllInstances), Top.frag = 1 => Top.pc # 0,
         \A i \in 1 .. Len(AllInstances) :
           /\ AllInstances'[i].decl = AllInstances[i].decl
           /\ AllInstances'[i].params = AllInstances[i].params
           /\ i # Top.inst /\ Entered(i)' => Entered(i)
  PROVE  InstancesDiffer'
<1>1. Entered(Top.inst)
  BY StackFacts, TopEntered DEF IInv
<1>2. \A i \in 1 .. Len(AllInstances) : Entered(i)' => Entered(i)
  BY <1>1
<1> QED
  BY <1>2 DEF IInv, Unique, InstancesDiffer

(* A return type is written into an instance. *)
LEMMA ReturnTypeSet ==
  ASSUME Typed, Sized, src' = src, NEW i \in 1 .. Len(AllInstances),
         NEW k \in 1 .. Len(AllInstances[i].frags), NEW t \in AnyType,
         AllInstances' = [ AllInstances EXCEPT ![i].ret[k] = t ]
  PROVE  /\ KeepsCodes /\ Len(AllInstances') = Len(AllInstances)
         /\ \A j \in 1 .. Len(AllInstances) :
              /\ AllInstances'[j].decl = AllInstances[j].decl
              /\ AllInstances'[j].params = AllInstances[j].params
              /\ j # i => AllInstances'[j].ret = AllInstances[j].ret
         /\ AllInstances'[i].ret[1] = IF k = 1 THEN t ELSE AllInstances[i].ret[1]
<1> DEFINE old == AllInstances[i]
           ret == [ old.ret EXCEPT ![k] = t ]
           new == [ old EXCEPT !.ret = ret ]
<1>1. AllInstances \in Seq(Instances) /\ Len(AllInstances) \in Nat /\ old \in Instances
  BY ElementOfSeq, LenProperties DEF Typed
<1>2. Len(old.ret) = Len(old.frags)
  BY DEF Sized
<1>3. AllInstances' = [ AllInstances EXCEPT ![i] = new ]
  BY <1>1 DEF Instances
<1> HIDE DEF old
<1>4. old.ret \in Seq(AnyType) /\ k \in 1 .. Len(old.ret) /\ 1 \in 1 .. Len(old.ret)
  <2>1. old.ret \in Seq(AnyType)
    BY <1>1 DEF Instances
  <2>2. k \in 1 .. Len(old.ret)
    BY <1>2 DEF old
  <2>3. Len(old.ret) \in Nat
    BY <2>1, LenProperties
  <2> QED
    BY <2>1, <2>2, <2>3
<1>5. /\ ret \in Seq(AnyType) /\ Len(ret) = Len(old.ret)
      /\ \A j \in 1 .. Len(old.ret) : ret[j] = IF j = k THEN t ELSE old.ret[j]
  BY <1>4, ExceptSeq
<1> HIDE DEF ret
<1>6. /\ new \in Instances /\ new.ret = ret
      /\ new.decl = old.decl /\ new.params = old.params /\ new.frags = old.frags
  <2> DEFINE Tys == Seq(AnyType)
             Fs  == Seq(AllFragments)
  <2>1. ret \in Tys /\ Instances = [ decl : Nat, id : AnyId, frags : Fs, params : Tys, ret : Tys ]
    BY <1>5 DEF Instances
  <2> HIDE DEF Tys, Fs
  <2> QED
    BY <1>1, <2>1
<1> HIDE DEF new
<1>7. /\ AllInstances' \in Seq(Instances) /\ Len(AllInstances') = Len(AllInstances)
      /\ \A j \in 1 .. Len(AllInstances) : AllInstances'[j] = IF j = i THEN new ELSE AllInstances[j]
  BY <1>1, <1>3, <1>6, ExceptSeq
<1>8. SameCodes
  BY <1>1, <1>6, <1>7 DEF SameCodes, old
<1>9. KeepsCodes
  BY <1>5, <1>6, <1>7, <1>8 DEF KeepsCodes, old
<1> QED
  BY <1>4, <1>5, <1>6, <1>7, <1>9 DEF old

(* The parameters of an instance get their types. *)
LEMMA ParametersSet ==
  ASSUME Typed, src' = src, NEW i \in 1 .. Len(AllInstances), NEW tys \in Seq(AnyType),
         AllInstances' = [ AllInstances EXCEPT ![i].params = tys ]
  PROVE  /\ KeepsCodes /\ Len(AllInstances') = Len(AllInstances)
         /\ AllInstances'[i].params = tys
         /\ \A j \in 1 .. Len(AllInstances) :
              /\ AllInstances'[j].decl = AllInstances[j].decl
              /\ AllInstances'[j].ret = AllInstances[j].ret
              /\ j # i => AllInstances'[j].params = AllInstances[j].params
<1> DEFINE old == AllInstances[i]
           new == [ old EXCEPT !.params = tys ]
<1>1. AllInstances \in Seq(Instances) /\ Len(AllInstances) \in Nat /\ old \in Instances
  BY ElementOfSeq, LenProperties DEF Typed
<1>2. AllInstances' = [ AllInstances EXCEPT ![i] = new ]
  BY <1>1 DEF Instances
<1> HIDE DEF old
<1>3. /\ new \in Instances /\ new.ret = old.ret
      /\ new.decl = old.decl /\ new.params = tys /\ new.frags = old.frags
  <2> DEFINE Tys == Seq(AnyType)
             Fs  == Seq(AllFragments)
  <2>1. tys \in Tys /\ Instances = [ decl : Nat, id : AnyId, frags : Fs, params : Tys, ret : Tys ]
    BY DEF Instances
  <2> HIDE DEF Tys, Fs
  <2> QED
    BY <1>1, <2>1
<1> HIDE DEF new
<1>4. /\ AllInstances' \in Seq(Instances) /\ Len(AllInstances') = Len(AllInstances)
      /\ \A j \in 1 .. Len(AllInstances) : AllInstances'[j] = IF j = i THEN new ELSE AllInstances[j]
  <2> DEFINE all == [ AllInstances EXCEPT ![i] = new ]
  <2>1. /\ all \in Seq(Instances) /\ Len(all) = Len(AllInstances)
        /\ \A j \in 1 .. Len(AllInstances) : all[j] = IF j = i THEN new ELSE AllInstances[j]
    BY <1>1, <1>3, ExceptSeq
  <2> HIDE DEF all
  <2>2. AllInstances' = all
    BY <1>2 DEF all
  <2> QED
    BY <2>1, <2>2
<1>5. SameCodes
  BY <1>1, <1>3, <1>4 DEF SameCodes, old
<1>6. KeepsCodes
  BY <1>3, <1>4, <1>5 DEF KeepsCodes, old
<1> QED
  BY <1>3, <1>4, <1>6 DEF old

(* The first fragment of an instance gives it parameter types no other     *)
(* instance has, unless a parameter has no argument.                       *)
LEMMA ParametersDiffer ==
  ASSUME IInv, Len(stack) > 1, Top.pc = 0, Top.frag = 1, Len(AllInstances') = Len(AllInstances),
         \A i \in 1 .. Len(AllInstances) :
           /\ AllInstances'[i].decl = AllInstances[i].decl
           /\ i # Top.inst => AllInstances'[i].params = AllInstances[i].params
           /\ i # Top.inst /\ Entered(i)' => Entered(i),
         LET typed == AllInstances'[Top.inst].params IN
           typed = Top.args \/ NoType \in { typed[p] : p \in 1 .. Len(typed) }
  PROVE  InstancesDiffer'
<1>1. InstancesDiffer /\ Unseen
  BY DEF IInv, Unique
<1>2. Top.inst \in 1 .. Len(AllInstances)
  BY StackFacts DEF IInv, Top
<1> SUFFICES ASSUME NEW i \in 1 .. Len(AllInstances), NEW j \in 1 .. Len(AllInstances),
                    i # j, Entered(i)', Entered(j)',
                    AllInstances'[i].decl = AllInstances'[j].decl,
                    AllInstances'[i].params = AllInstances'[j].params
             PROVE  NoType \in { AllInstances'[i].params[p] : p \in 1 .. Len(AllInstances'[i].params) }
  BY DEF InstancesDiffer
<1>3. CASE i # Top.inst /\ j # Top.inst
  BY <1>1, <1>3 DEF InstancesDiffer
<1>4. CASE i = Top.inst
  <2>1. AllInstances'[j].params # Top.args
    BY <1>1, <1>4 DEF Unseen
  <2> QED
    BY <1>4, <2>1
<1>5. CASE j = Top.inst
  <2>1. AllInstances'[i].params # Top.args
    BY <1>1, <1>2, <1>5 DEF Unseen
  <2> QED
    BY <1>5, <2>1
<1> QED
  BY <1>3, <1>4, <1>5

(* At the head of a body: the first fragment has not decided what it       *)
(* returns.                                                                *)
LEMMA BodyAhead ==
  ASSUME IInv, At("body")
  PROVE  /\ Len(stack) > 1 /\ Top.inst \in 1 .. Len(AllInstances)
         /\ Top.frag \in 1 .. Len(AllInstances[Top.inst].frags)
         /\ Top.frag = 1 => getReturnType(Top.inst) = NoType
<1> DEFINE i == Top.inst
           g == Changed(Top, Top.pc + 1, Top.decls, Top.operands, Top.rets)
<1>1. /\ Top.pc \in 1 .. Len(Code(Top)) /\ Code(Top)[Top.pc].op = "body"
      /\ Top = stack[Len(stack)] /\ Len(stack) \in 1 .. Len(stack) /\ Len(stack) \in Nat \ { 0 }
      /\ Top \in Frames
  BY StackFacts DEF At, Step, IInv, Top
<1>2. Known(Top) /\ Top.pc \in Nat \ { 0 }
  BY <1>1, TopWalks DEF IInv
<1>3. Top.inst # 0 /\ ~InBody(Top)
  <2>1. /\ Top.decls \in Scopes /\ Top.pc + 1 \in Nat /\ Top.operands \in Seq(Exprs)
        /\ Top.rets \in Seq(AnyType)
    BY <1>1 DEF Frames
  <2>2. g.inst = Top.inst /\ g.frag = Top.frag /\ g.pc = Top.pc + 1
    BY <1>1, <2>1, ChangedFrame DEF SameFrame
  <2> HIDE DEF g
  <2> DEFINE s == Code(Top)[Top.pc]
  <2>3. s.op = "body" => Top.inst # 0 /\ ~InBody(Top)
    BY <1>1, <1>2, <2>2, StepOf
  <2> QED
    BY <1>1, <2>3
<1>4. Placed(Len(stack))
  BY <1>1 DEF IInv, Stacked
<1>5. Len(stack) > 1
  <2>1. Len(stack) # 1
    BY <1>1, <1>3, <1>4 DEF Placed
  <2>2. \A k \in Nat \ { 0 } : k # 1 => k > 1
    OBVIOUS
  <2> QED
    BY <1>1, <2>1, <2>2
<1>6. i \in 1 .. Len(AllInstances) /\ Top.frag \in 1 .. Len(AllInstances[i].frags)
  BY <1>1, <1>4, <1>5, StackFacts DEF IInv, Placed
<1>7. Top.frag = 1 => getReturnType(i) = NoType
  <2>1. Len(stack) \in 2 .. Len(stack)
    BY <1>1, <1>5
  <2> QED
    BY <1>1, <1>3, <2>1 DEF IInv, Undecided
<1> QED
  BY <1>5, <1>6, <1>7

LEMMA EnterBodyKeeps == ASSUME IInv, EnterBody PROVE IInv'
<1> DEFINE g == Changed(Top, Top.pc + 1, Top.decls, << >>, Top.rets)
           i == Top.inst
<1>1. /\ Top.pc \in 1 .. Len(Code(Top)) /\ Code(Top)[Top.pc].op = "body"
      /\ Top = stack[Len(stack)] /\ Len(stack) \in 1 .. Len(stack) /\ Len(stack) \in Nat
      /\ Top \in Frames
  BY StackFacts DEF EnterBody, At, Step, IInv, Top
<1>2. /\ CurScope = Len(stack) /\ Known(Top) /\ Top.pc \in Nat \ { 0 }
  BY <1>1, TopWalks DEF IInv
<1>3. /\ g \in Frames /\ SameFrame(g, Top)
      /\ g.pc = Top.pc + 1 /\ g.decls = Top.decls /\ g.operands = << >> /\ g.rets = Top.rets
  <2>1. /\ Top.decls \in Scopes /\ Top.pc + 1 \in Nat /\ << >> \in Seq(Exprs) /\ Top.rets \in Seq(AnyType)
    BY <1>1, EmptySeq DEF Frames
  <2>2. ASSUME NEW es \in Seq(Exprs)
        PROVE  LET h == Changed(Top, Top.pc + 1, Top.decls, es, Top.rets) IN
               /\ h \in Frames /\ SameFrame(h, Top)
               /\ h.pc = Top.pc + 1 /\ h.decls = Top.decls /\ h.operands = es /\ h.rets = Top.rets
    BY <1>1, <2>1, ChangedFrame
  <2> QED
    BY <2>1, <2>2
<1>4. /\ stack' = [ stack EXCEPT ![Len(stack)] = g ]
      /\ UNCHANGED << src, CurScope, FunctionDecls, status >>
  <2>1. g = [ Top EXCEPT !.pc = @ + 1, !.operands = << >> ]
    BY <1>1 DEF Changed, Frames
  <2> QED
    BY <2>1 DEF EnterBody, Advance
<1> HIDE DEF g
<1>5. /\ Code(g) = Code(Top) /\ Len(Code(Top)) \in Nat
      /\ HeightAt(g) = 0 /\ InBody(g) /\ Top.inst # 0 /\ ~InBody(Top)
  <2>1. g.inst = Top.inst /\ g.frag = Top.frag
    BY <1>3 DEF SameFrame
  <2> DEFINE s == Code(Top)[Top.pc]
  <2>2. /\ Code(g) = Code(Top) /\ Len(Code(Top)) \in Nat
        /\ s.op = "body" => HeightAt(g) = 0 /\ InBody(g) /\ Top.inst # 0 /\ ~InBody(Top)
    BY <1>1, <1>2, <1>3, <2>1, StepOf
  <2> QED
    BY <1>1, <2>2
<1>6. Walking(g)
  <2>1. g.pc \in 1 .. Len(Code(g)) + 1
    BY <1>1, <1>3, <1>5
  <2>2. Len(g.operands) = 0
    BY <1>3, EmptySeq
  <2> QED
    BY <1>5, <2>1, <2>2 DEF Walking
<1>7. /\ Len(stack) > 1 /\ i \in 1 .. Len(AllInstances) /\ Top.frag \in 1 .. Len(AllInstances[i].frags)
      /\ Len(AllInstances) \in Nat
  BY BodyAhead, StackFacts DEF EnterBody, IInv
<1>8. Replaces(g) /\ g.frag = Top.frag
  BY <1>3, <1>4 DEF Replaces, SameFrame
<1>9. Top.frag = 1 => getReturnType(i) = NoType
  BY BodyAhead DEF EnterBody
<1>10. Top.rets = << >>
  BY <1>1, <1>5, <1>7 DEF IInv, Undecided, Returning
<1>11. /\ KeepsCodes /\ Len(AllInstances') = Len(AllInstances)
       /\ \A j \in 1 .. Len(AllInstances) :
            /\ AllInstances'[j].decl = AllInstances[j].decl
            /\ AllInstances'[j].params = AllInstances[j].params
            /\ j # i => AllInstances'[j].ret = AllInstances[j].ret
       /\ Top.frag = 1 => AllInstances'[i].ret[1] = NoType \/ ~Returns(FragmentOf(Top))
  <2>1. CASE Returns(FragmentOf(Top))
    <3>1. AllInstances' = AllInstances
      BY <2>1 DEF EnterBody, Returns, FragmentOf
    <3>2. KeepsCodes
      BY <1>4, <1>7, <3>1 DEF KeepsCodes, SameCodes, IInv, Typed
    <3> QED
      BY <1>9, <3>1, <3>2 DEF getReturnType
  <2>2. CASE ~Returns(FragmentOf(Top))
    <3>1. AllInstances' = [ AllInstances EXCEPT ![i].ret[Top.frag] = VoidTy ]
      BY <2>2, Zenon DEF EnterBody, Returns, FragmentOf
    <3>2. VoidTy \in AnyType /\ src' = src
      BY <1>4, BasicTypes
    <3> QED
      BY <1>7, <2>2, <3>1, <3>2, ReturnTypeSet, Zenon DEF IInv
  <2> QED
    BY <2>1, <2>2
<1>12. KeepsFunctions
  BY <1>4, StackFacts DEF IInv, Typed, Sized, KeepsFunctions
<1>13. /\ Typed' /\ Sized' /\ Stacked' /\ InstancesPlaced'
       /\ Len(stack') = Len(stack)
       /\ \A k \in 1 .. Len(stack) : stack'[k] = IF k = Len(stack) THEN g ELSE stack[k]
       /\ Top' = g
  <2>1. InstancesPlaced
    BY DEF IInv, Lexical
  <2> QED
    BY <1>2, <1>3, <1>4, <1>6, <1>7, <1>8, <1>11, <1>12, <2>1, TopReplaced DEF IInv
<1>14. FunctionsPlaced'
  <2>1. \A fd : (\E id \in DOMAIN g.decls : g.decls[id] = Function(fd)) => Declares(Len(stack), fd)
    BY <1>1, <1>3 DEF Declares
  <2>2. SameCodes
    BY <1>11 DEF KeepsCodes
  <2> QED
    BY <1>4, <1>5, <1>8, <1>13, <2>1, <2>2, FunctionsStayPlaced, Zenon
<1>15. InstancesDiffer'
  <2>1. \A k \in 1 .. Len(stack) : stack'[k].inst = stack[k].inst /\ stack'[k].frag = stack[k].frag
                                   /\ (stack'[k].pc # 0 <=> stack[k].pc # 0)
    BY <1>1, <1>2, <1>3, <1>13 DEF SameFrame
  <2>2. \A j : Entered(j)' => Entered(j)
    BY <1>13, <2>1 DEF Entered
  <2> QED
    BY <1>2, <1>11, <2>2, ParametersKept
<1>16. Unseen'
  BY <1>2, <1>3, <1>13 DEF Unseen
<1>17. Undecided'
  <2>1. SameCodes /\ g.inst = Top.inst /\ g.frag = Top.frag
    BY <1>3, <1>11 DEF KeepsCodes, SameFrame
  <2>2. FragmentOf(g) = FragmentOf(Top)
    BY <2>1 DEF FragmentOf
  <2>3. g.frag = 1 => \/ AllInstances'[g.inst].ret[1] = NoType
                      \/ InBody(g) /\ ~Returns(FragmentOf(g))
    BY <1>5, <1>11, <2>1, <2>2
  <2>4. ~Returning(g) => g.rets = << >>
    BY <1>3, <1>10
  <2> QED
    BY <1>7, <1>11, <1>13, <2>1, <2>3, <2>4, OthersUndecided
<1> QED
  BY <1>13, <1>14, <1>15, <1>16, <1>17 DEF IInv, Lexical, Unique

(* The frame an instance has before a fragment: its scope is empty. *)
LEMMA BeforeFragment ==
  ASSUME IInv, Top.pc = 0, Len(stack) > 1
  PROVE  LET i == Top.inst IN
         /\ Top = stack[Len(stack)] /\ Len(stack) \in 1 .. Len(stack) /\ Len(stack) \in Nat
         /\ Top \in Frames /\ Top.operands = << >> /\ Top.rets = << >>
         /\ i \in 1 .. Len(AllInstances) /\ Len(AllInstances) \in Nat /\ i # 0
         /\ Top.frag \in 1 .. Len(AllInstances[i].frags)
         /\ FragmentOf(Top) \in AllFragments
         /\ Top.frag = 1 => getReturnType(i) = NoType
<1>1. /\ Top = stack[Len(stack)] /\ Len(stack) \in 1 .. Len(stack) /\ Len(stack) \in Nat
      /\ Top \in Frames /\ Top.inst \in 1 .. Len(AllInstances) /\ Len(AllInstances) \in Nat
      /\ FragmentOf(Top) \in AllFragments
  BY StackFacts DEF IInv, Top
<1>2. Placed(Len(stack))
  BY <1>1 DEF IInv, Stacked
<1>3. Top.operands = << >> /\ Top.frag \in 1 .. Len(AllInstances[Top.inst].frags)
  BY <1>1, <1>2 DEF Placed, Walking
<1>4. ~InBody(Top)
  <2>1. Len(FragmentOf(Top).domain) \in Nat
    BY <1>1, FragmentIsCode, CodeIsSequence
  <2> QED
    BY <2>1 DEF InBody
<1>5. Top.rets = << >> /\ (Top.frag = 1 => getReturnType(Top.inst) = NoType)
  BY <1>1, <1>4 DEF IInv, Undecided, Returning
<1> QED
  BY <1>1, <1>3, <1>5

LEMMA ParameterScope ==
  ASSUME NEW params \in Seq(STRING), NEW typed \in Seq(AnyType), Len(typed) = Len(params)
  PROVE  LET index(p) == CHOOSE i \in 1 .. Len(params) : params[i] = p
             names    == { params[i] : i \in 1 .. Len(params) }
             scope    == [ p \in names |-> Variable(typed[index(p)]) ]
         IN  scope \in Scopes /\ \A p \in DOMAIN scope : \E t : scope[p] = Variable(t)
<1> DEFINE index(p) == CHOOSE i \in 1 .. Len(params) : params[i] = p
           names    == { params[i] : i \in 1 .. Len(params) }
           scope    == [ p \in names |-> Variable(typed[index(p)]) ]
<1>1. names \in SUBSET STRING
  BY ElementOfSeq
<1>2. \A p \in names : index(p) \in 1 .. Len(params)
  OBVIOUS
<1>3. \A p \in names : Variable(typed[index(p)]) \in Declarations
  <2> HIDE DEF index
  <2>1. \A p \in names : typed[index(p)] \in AnyType
    BY <1>2, ElementOfSeq
  <2> QED
    BY <2>1, DeclarationsAre
<1> HIDE DEF index, names
<1>4. scope \in [ names -> Declarations ] /\ DOMAIN scope = names
      /\ \A p \in names : scope[p] = Variable(typed[index(p)])
  BY <1>3
<1>5. scope \in Scopes
  BY <1>1, <1>4 DEF Scopes
<1> QED
  BY <1>4, <1>5 DEF index, names

(* What a call has an argument for gets its type. *)
LEMMA ParameterTypes ==
  ASSUME NEW params \in Seq(STRING), NEW args \in Seq(AnyType), ~(Len(args) > Len(params))
  PROVE  LET typed == [ i \in 1 .. Len(params) |-> IF i <= Len(args) THEN args[i] ELSE NoType ] IN
         /\ typed \in Seq(AnyType) /\ Len(typed) = Len(params)
         /\ typed = args \/ NoType \in { typed[p] : p \in 1 .. Len(typed) }
<1> DEFINE e(i)  == IF i <= Len(args) THEN args[i] ELSE NoType
           typed == [ i \in 1 .. Len(params) |-> e(i) ]
<1>1. Len(params) \in Nat /\ Len(args) \in Nat
  BY LenProperties
<1>2. \A i \in 1 .. Len(params) : e(i) \in AnyType
  BY <1>1, BasicTypes, ElementOfSeq
<1>3. typed \in Seq(AnyType) /\ Len(typed) = Len(params) /\ \A i \in 1 .. Len(params) : typed[i] = e(i)
  <2> HIDE DEF e
  <2>1. [ i \in 1 .. Len(params) |-> e(i) ] \in Seq(AnyType)
    BY <1>1, <1>2, IsASeq
  <2> QED
    BY <1>1, <2>1
<1> HIDE DEF typed
<1>4. CASE Len(args) = Len(params)
  <2>1. \A i \in 1 .. Len(typed) : typed[i] = args[i]
    BY <1>1, <1>3, <1>4
  <2>2. Len(typed) = Len(args)
    BY <1>3, <1>4
  <2>3. typed = args
    BY <1>3, <2>1, <2>2, SeqEqual
  <2> QED
    BY <1>3, <2>3 DEF typed
<1>5. CASE Len(args) # Len(params)
  <2>1. Len(params) \in 1 .. Len(typed) /\ ~(Len(params) <= Len(args))
    BY <1>1, <1>3, <1>5
  <2>2. typed[Len(params)] = NoType
    BY <1>3, <2>1
  <2>3. NoType \in { typed[p] : p \in 1 .. Len(typed) }
    BY <2>1, <2>2
  <2> QED
    BY <1>3, <2>3 DEF typed
<1> QED
  BY <1>4, <1>5

LEMMA EnterFragmentKeeps == ASSUME IInv, EnterFragment PROVE IInv'
<1> DEFINE i        == Top.inst
           params   == AllInstances[Top.inst].frags[Top.frag].params
           typed    == [ x \in 1 .. Len(params) |-> IF x <= Len(Top.args) THEN Top.args[x] ELSE NoType ]
           index(p) == CHOOSE x \in 1 .. Len(params) : params[x] = p
           names    == { params[x] : x \in 1 .. Len(params) }
           scope    == [ p \in names |-> Variable(typed[index(p)]) ]
           g        == Changed(Top, 1, scope, Top.operands, Top.rets)
<1>1. /\ Top.pc = 0 /\ Len(stack) > 1
      /\ IF Len(Top.args) > Len(params) THEN Stop("crashed")
         ELSE IF Cardinality(names) < Len(params) THEN Stop("rejected")
         ELSE /\ AllInstances' = IF Top.frag = 1 THEN [ AllInstances EXCEPT ![i].params = typed ]
                                                 ELSE AllInstances
              /\ Advance([ Top EXCEPT !.pc = 1, !.decls = scope ])
              /\ CurScope' = Len(stack)
              /\ UNCHANGED << src, FunctionDecls, status >>
  BY Zenon DEF EnterFragment
<1>2. CASE Len(Top.args) > Len(params)
  BY <1>1, <1>2, StopKeeps, Zenon DEF Endings
<1>3. CASE ~(Len(Top.args) > Len(params)) /\ Cardinality(names) < Len(params)
  BY <1>1, <1>3, StopKeeps, Zenon DEF Endings, Rejections
<1>4. CASE ~(Len(Top.args) > Len(params)) /\ ~(Cardinality(names) < Len(params))
  <2>1. /\ AllInstances' = IF Top.frag = 1 THEN [ AllInstances EXCEPT ![i].params = typed ]
                                           ELSE AllInstances
        /\ stack' = [ stack EXCEPT ![Len(stack)] = [ Top EXCEPT !.pc = 1, !.decls = scope ] ]
        /\ CurScope' = Len(stack)
        /\ UNCHANGED << src, FunctionDecls, status >>
    BY <1>1, <1>4, Zenon DEF Advance
  <2>2. /\ Top = stack[Len(stack)] /\ Len(stack) \in 1 .. Len(stack) /\ Len(stack) \in Nat
        /\ Top \in Frames /\ Top.operands = << >> /\ Top.rets = << >>
        /\ i \in 1 .. Len(AllInstances) /\ Len(AllInstances) \in Nat /\ i # 0
        /\ Top.frag \in 1 .. Len(AllInstances[i].frags)
        /\ FragmentOf(Top) \in AllFragments
        /\ Top.frag = 1 => getReturnType(i) = NoType
    BY <1>1, BeforeFragment, Zenon
  <2>3. params \in Seq(STRING) /\ Top.args \in Seq(AnyType)
    BY <2>2, FragmentIsCode DEF FragmentOf, Frames
  <2>4. /\ typed \in Seq(AnyType) /\ Len(typed) = Len(params)
        /\ typed = Top.args \/ NoType \in { typed[p] : p \in 1 .. Len(typed) }
    <3> HIDE DEF params
    <3> QED
      BY <1>4, <2>3, ParameterTypes
  <2>5. scope \in Scopes /\ \A p \in DOMAIN scope : \E t : scope[p] = Variable(t)
    <3> HIDE DEF params, typed
    <3> QED
      BY <2>3, <2>4, ParameterScope
  <2> HIDE DEF params, typed, index, names, scope
  <2>6. /\ g \in Frames /\ SameFrame(g, Top)
        /\ g.pc = 1 /\ g.decls = scope /\ g.operands = Top.operands /\ g.rets = Top.rets
    <3>1. 1 \in Nat /\ Top.operands \in Seq(Exprs) /\ Top.rets \in Seq(AnyType)
      BY <2>2 DEF Frames
    <3>2. Top \in Frames
      BY <2>2
    <3>3. ASSUME NEW pc \in Nat, NEW es \in Seq(Exprs), NEW ts \in Seq(AnyType)
          PROVE  LET h == Changed(Top, pc, scope, es, ts) IN
                 /\ h \in Frames /\ SameFrame(h, Top)
                 /\ h.pc = pc /\ h.decls = scope /\ h.operands = es /\ h.rets = ts
      BY <2>5, <3>2, ChangedFrame
    <3> QED
      BY <3>1, <3>3
  <2>7. stack' = [ stack EXCEPT ![Len(stack)] = g ]
    <3>1. g = [ Top EXCEPT !.pc = 1, !.decls = scope ]
      BY <2>2 DEF Changed, Frames
    <3> QED
      BY <2>1, <3>1
  <2> HIDE DEF g
  <2>8. Replaces(g) /\ g.frag = Top.frag /\ g.inst = i
    BY <2>1, <2>6, <2>7 DEF Replaces, SameFrame
  <2>9. Code(g) = Code(Top) /\ FragmentOf(g) = FragmentOf(Top)
    BY <2>8 DEF Code, FragmentOf
  <2>10. Walking(g) /\ ~InBody(g)
    <3> DEFINE d == FragmentOf(g).domain
    <3>1. Len(d) \in Nat /\ Height(d)[1] = 0 /\ Len(Code(g)) \in Nat
      <4>1. d \in Codes
        BY <2>2, <2>9, FragmentIsCode
      <4>2. Len(Code(g)) \in Nat
        BY <2>2, <2>8, <2>9, FragmentCode, LenProperties
      <4> QED
        BY <4>1, <4>2, CodeIsSequence
    <3>2. ~InBody(g)
      BY <2>6, <3>1 DEF InBody
    <3>3. HeightAt(g) = 0
      BY <2>2, <2>6, <2>8, <3>1, <3>2 DEF HeightAt
    <3>4. Len(g.operands) = 0
      BY <2>2, <2>6, EmptySeq
    <3>5. g.pc \in 1 .. Len(Code(g)) + 1
      BY <2>6, <3>1
    <3> QED
      BY <3>2, <3>3, <3>4, <3>5 DEF Walking
  <2>11. /\ KeepsCodes /\ Len(AllInstances') = Len(AllInstances)
         /\ \A j \in 1 .. Len(AllInstances) :
              /\ AllInstances'[j].decl = AllInstances[j].decl
              /\ AllInstances'[j].ret = AllInstances[j].ret
              /\ j # i => AllInstances'[j].params = AllInstances[j].params
         /\ AllInstances'[i].params = IF Top.frag = 1 THEN typed ELSE AllInstances[i].params
    <3>1. CASE Top.frag = 1
      <4>1. src' = src /\ AllInstances' = [ AllInstances EXCEPT ![i].params = typed ]
        BY <2>1, <3>1
      <4>2. Typed /\ i \in 1 .. Len(AllInstances) /\ typed \in Seq(AnyType)
        BY <2>2, <2>4 DEF IInv
      <4> HIDE DEF i
      <4>3. /\ KeepsCodes /\ Len(AllInstances') = Len(AllInstances)
            /\ AllInstances'[i].params = typed
            /\ \A j \in 1 .. Len(AllInstances) :
                 /\ AllInstances'[j].decl = AllInstances[j].decl
                 /\ AllInstances'[j].ret = AllInstances[j].ret
                 /\ j # i => AllInstances'[j].params = AllInstances[j].params
        BY <4>1, <4>2, ParametersSet
      <4> QED
        BY <3>1, <4>3
    <3>2. CASE Top.frag # 1
      <4>1. AllInstances' = AllInstances /\ src' = src
        BY <2>1, <3>2
      <4>2. KeepsCodes
        BY <2>2, <4>1 DEF KeepsCodes, SameCodes, IInv, Typed
      <4> QED
        BY <3>2, <4>1, <4>2
    <3> QED
      BY <3>1, <3>2
  <2>12. KeepsFunctions
    BY <2>1, StackFacts DEF IInv, Typed, Sized, KeepsFunctions
  <2>13. /\ Typed' /\ Sized' /\ Stacked' /\ InstancesPlaced'
         /\ Len(stack') = Len(stack)
         /\ \A k \in 1 .. Len(stack) : stack'[k] = IF k = Len(stack) THEN g ELSE stack[k]
         /\ Top' = g
    <3>1. InstancesPlaced
      BY DEF IInv, Lexical
    <3>2. Len(stack) > 1 => g.frag \in 1 .. Len(AllInstances[Top.inst].frags)
      BY <2>2, <2>8
    <3> QED
      BY <2>1, <2>6, <2>8, <2>10, <2>11, <2>12, <3>1, <3>2, TopReplaced DEF IInv
  <2>14. FunctionsPlaced'
    <3>1. \A fd : (\E id \in DOMAIN g.decls : g.decls[id] = Function(fd)) => Declares(Len(stack), fd)
      BY <2>5, <2>6, DeclarationsAre
    <3>2. SameCodes
      BY <2>11 DEF KeepsCodes
    <3> QED
      BY <2>1, <2>8, <2>9, <2>13, <3>1, <3>2, FunctionsStayPlaced
  <2>15. \A j : j # i /\ Entered(j)' => Entered(j)
    BY <2>2, <2>8, <2>13 DEF Entered
  <2>16. InstancesDiffer'
    <3>1. CASE Top.frag = 1
      <4>1. LET all == AllInstances'[Top.inst].params IN
              all = Top.args \/ NoType \in { all[p] : p \in 1 .. Len(all) }
        BY <2>4, <2>11, <3>1
      <4> QED
        BY <1>1, <2>11, <2>15, <3>1, <4>1, ParametersDiffer
    <3>2. CASE Top.frag # 1
      <4>1. \A j \in 1 .. Len(AllInstances) : AllInstances'[j].params = AllInstances[j].params
        BY <2>11, <3>2
      <4> QED
        BY <2>11, <2>15, <3>2, <4>1, ParametersKept
    <3> QED
      BY <3>1, <3>2
  <2>17. Unseen'
    BY <2>6, <2>13 DEF Unseen
  <2>18. Undecided'
    <3>1. SameCodes
      BY <2>11 DEF KeepsCodes
    <3>2. g.frag = 1 => AllInstances'[g.inst].ret[1] = NoType
      BY <2>2, <2>8, <2>11 DEF getReturnType
    <3>3. g.rets = << >>
      BY <2>2, <2>6
    <3> QED
      BY <1>1, <2>8, <2>11, <2>13, <3>1, <3>2, <3>3, OthersUndecided
  <2> QED
    BY <2>13, <2>14, <2>16, <2>17, <2>18 DEF IInv, Lexical, Unique
<1> QED
  BY <1>2, <1>3, <1>4

(* The end of a fragment, where its return type is known. *)
LEMMA FragmentEnds ==
  ASSUME IInv, AtEnd
  PROVE  LET i == Top.inst IN
         /\ Top = stack[Len(stack)] /\ Len(stack) \in 1 .. Len(stack) /\ Len(stack) \in Nat
         /\ CurScope = Len(stack) /\ Top.pc # 0 /\ InBody(Top)
         /\ Top \in Frames
         /\ i \in 1 .. Len(AllInstances) /\ Len(AllInstances) \in Nat /\ i # 0
         /\ Top.frag \in 1 .. Len(AllInstances[i].frags)
         /\ AllInstances[i].frags \in Seq(AllFragments)
<1>1. /\ Top = stack[Len(stack)] /\ Len(stack) \in 1 .. Len(stack) /\ Len(stack) \in Nat
      /\ Top \in Frames /\ Top.inst \in 1 .. Len(AllInstances) /\ Len(AllInstances) \in Nat
      /\ FragmentOf(Top) \in AllFragments /\ AllInstances[Top.inst] \in Instances
      /\ Top.pc > Len(Code(Top))
  BY StackFacts DEF IInv, Top, AtEnd
<1>2. /\ Len(FragmentOf(Top).domain) \in Nat /\ Len(FragmentOf(Top).body) \in Nat
      /\ Len(Code(Top)) = Len(FragmentOf(Top).domain) + 1 + Len(FragmentOf(Top).body)
  <2>1. Top.inst # 0
    BY <1>1
  <2> QED
    BY <1>1, <2>1, FragmentCode
<1>3. Top.pc # 0 /\ InBody(Top)
  <2>1. Top.pc \in Nat
    BY <1>1 DEF Frames
  <2>2. \A d, b, pc \in Nat : pc > d + 1 + b => pc # 0 /\ pc > d + 1
    OBVIOUS
  <2> DEFINE d == Len(FragmentOf(Top).domain)
             b == Len(FragmentOf(Top).body)
  <2>3. d \in Nat /\ b \in Nat /\ Top.pc > d + 1 + b
    BY <1>1, <1>2
  <2>4. Top.pc # 0 /\ Top.pc > d + 1
    <3> HIDE DEF d, b
    <3> QED
      BY <2>1, <2>2, <2>3
  <2> QED
    BY <2>4 DEF InBody
<1>4. Placed(Len(stack)) /\ CurScope = Len(stack)
  BY <1>1, <1>3, TopWalks DEF IInv, Stacked
<1>5. Len(stack) > 1
  BY DEF AtEnd
<1> QED
  BY <1>1, <1>3, <1>4, <1>5 DEF Placed, Instances

LEMMA DeducedType ==
  ASSUME IInv, AtEnd
  PROVE  Deduced \in AnyType
<1> DEFINE i == Top.inst
<1>1. /\ Top \in Frames /\ i \in 1 .. Len(AllInstances)
      /\ Top.frag \in 1 .. Len(AllInstances[i].frags)
  BY FragmentEnds
<1>2. CASE TypedReturns = {}
  <2>1. AllInstances[i].ret \in Seq(AnyType) /\ Len(AllInstances[i].ret) = Len(AllInstances[i].frags)
    BY <1>1, StackFacts DEF IInv, Sized, Instances
  <2>2. AllInstances[i].ret[Top.frag] \in AnyType
    BY <1>1, <2>1, ElementOfSeq
  <2> QED
    BY <1>2, <2>2 DEF Deduced
<1>3. CASE TypedReturns # {}
  <2>1. Top.rets \in Seq(AnyType)
    BY <1>1 DEF Frames
  <2>2. TypedReturns \subseteq 1 .. Len(Top.rets)
    BY DEF TypedReturns
  <2>3. TypedReturns \subseteq Nat
    BY <2>2
  <2>4. Min(TypedReturns) \in 1 .. Len(Top.rets)
    BY <1>3, <2>2, <2>3, MinIsLeast
  <2>5. Top.rets[Min(TypedReturns)] \in AnyType
    BY <2>1, <2>4, ElementOfSeq
  <2> QED
    BY <1>3, <2>5 DEF Deduced
<1> QED
  BY <1>2, <1>3

LEMMA MismatchKeeps == ASSUME IInv, MismatchingReturns \/ MismatchingFragments PROVE IInv'
<1>1. \E ts : Reject(ts)
  BY DEF MismatchingReturns, MismatchingFragments
<1> QED
  BY <1>1, RejectStops, StopKeeps

LEMMA NextFragmentKeeps == ASSUME IInv, NextFragment PROVE IInv'
<1> DEFINE i == Top.inst
           g == Frame(Top.inst, Top.frag + 1, Top.args, Top.prev, Top.back)
<1>1. /\ Top = stack[Len(stack)] /\ Len(stack) \in 1 .. Len(stack) /\ Len(stack) \in Nat
      /\ CurScope = Len(stack) /\ Top.pc # 0
      /\ Top \in Frames
      /\ i \in 1 .. Len(AllInstances) /\ Len(AllInstances) \in Nat
      /\ Top.frag \in 1 .. Len(AllInstances[i].frags)
      /\ AllInstances[i].frags \in Seq(AllFragments)
  BY FragmentEnds DEF NextFragment
<1>2. /\ AllInstances' = [ AllInstances EXCEPT ![i].ret[Top.frag] = Deduced ]
      /\ stack' = [ stack EXCEPT ![Len(stack)] = g ]
      /\ UNCHANGED << src, CurScope, FunctionDecls, status >>
      /\ Top.frag < Len(AllInstances[i].frags) /\ Len(stack) > 1
  BY DEF NextFragment, setReturnType, Advance, Fragments, AtEnd
<1>3. Deduced \in AnyType
  BY DeducedType DEF NextFragment
<1>4. /\ KeepsCodes /\ Len(AllInstances') = Len(AllInstances)
      /\ \A j \in 1 .. Len(AllInstances) :
           /\ AllInstances'[j].decl = AllInstances[j].decl
           /\ AllInstances'[j].params = AllInstances[j].params
           /\ j # i => AllInstances'[j].ret = AllInstances[j].ret
  <2>1. Typed /\ Sized /\ src' = src
    BY <1>2 DEF IInv
  <2>2. AllInstances' = [ AllInstances EXCEPT ![i].ret[Top.frag] = Deduced ]
    BY <1>2
  <2> HIDE DEF i
  <2> QED
    BY <1>1, <1>3, <2>1, <2>2, ReturnTypeSet
<1>5. /\ g \in Frames
      /\ g.inst = i /\ g.frag = Top.frag + 1 /\ g.pc = 0 /\ g.prev = Top.prev /\ g.back = Top.back
      /\ g.decls = << >> /\ g.operands = << >> /\ g.rets = << >>
      /\ g.frag # 1 /\ g.frag \in 1 .. Len(AllInstances[i].frags)
  <2>1. /\ i \in Nat /\ Top.frag + 1 \in Nat /\ Top.args \in Seq(AnyType) /\ Top.prev \in Nat /\ Top.back \in Nat
    BY <1>1 DEF Frames
  <2>2. IsFresh(g, i, Top.frag + 1, Top.args, Top.prev, Top.back)
    BY <2>1, NewFrame
  <2>3. Len(AllInstances[i].frags) \in Nat
    BY <1>1, LenProperties
  <2>4. Top.frag + 1 # 1 /\ Top.frag + 1 \in 1 .. Len(AllInstances[i].frags)
    BY <1>1, <1>2, <2>3
  <2> HIDE DEF g
  <2> QED
    BY <2>2, <2>4 DEF IsFresh
<1> HIDE DEF g
<1>6. Replaces(g)
  BY <1>2, <1>5 DEF Replaces
<1>7. KeepsFunctions
  BY <1>2, StackFacts DEF IInv, Typed, Sized, KeepsFunctions
<1>8. /\ Typed' /\ Sized' /\ Stacked' /\ InstancesPlaced'
      /\ Len(stack') = Len(stack)
      /\ \A k \in 1 .. Len(stack) : stack'[k] = IF k = Len(stack) THEN g ELSE stack[k]
      /\ Top' = g
  <2>1. Typed /\ Sized /\ Stacked /\ InstancesPlaced
    BY DEF IInv, Lexical
  <2>2. Len(stack) > 1 => g.frag \in 1 .. Len(AllInstances[Top.inst].frags)
    BY <1>5
  <2>3. g.pc = 0 /\ Len(stack) > 1 /\ g.operands = << >> /\ CurScope' = CurScope
    BY <1>2, <1>5
  <2> QED
    BY <1>4, <1>5, <1>6, <1>7, <2>1, <2>2, <2>3, TopReplaced
<1>9. SameCodes
  BY <1>4 DEF KeepsCodes
<1>10. FunctionsPlaced'
  <2>1. DOMAIN g.decls = {}
    BY <1>5
  <2>2. \A fd : (\E id \in DOMAIN g.decls : g.decls[id] = Function(fd)) => Declares(Len(stack), fd)
    BY <2>1
  <2> QED
    BY <1>2, <1>6, <1>8, <1>9, <2>1, <2>2, FunctionsStayPlaced
<1>11. InstancesDiffer'
  <2>1. \A j : j # i /\ Entered(j)' => Entered(j)
    BY <1>1, <1>5, <1>8 DEF Entered
  <2> QED
    BY <1>1, <1>4, <2>1, ParametersKept
<1>12. Unseen'
  BY <1>5, <1>8 DEF Unseen
<1>13. Undecided'
  BY <1>2, <1>4, <1>5, <1>8, <1>9, OthersUndecided
<1> QED
  BY <1>8, <1>10, <1>11, <1>12, <1>13 DEF IInv, Lexical, Unique

LEMMA AcceptKeeps == ASSUME IInv, Accept PROVE IInv'
<1>1. Len(stack) = 1 /\ CurScope \in 1 .. Len(stack) /\ Placed(1)
  BY StackFacts DEF Accept, IInv, Stacked
<1>2. CurScope = 1
  BY <1>1
<1>3. stack[CurScope].prev = 0
  BY <1>1, <1>2 DEF Placed
<1>4. Stop("accepted")
  BY <1>3 DEF Accept
<1> QED
  BY <1>4, StopKeeps DEF Endings

(* An instance returns: its frame is gone, and the call has its value. *)
LEMMA Returned ==
  ASSUME IInv, ReturnInstance
  PROVE  \E g \in Frames :
           LET m == Len(stack) - 1
               f == stack[m]
           IN  /\ m \in 1 .. Len(stack) /\ m \in Nat /\ m < Len(stack)
               /\ SameFrame(g, f) /\ g.decls = f.decls /\ g.rets = f.rets /\ g.pc = f.pc + 1
               /\ Walking(g) /\ Waiting(f) /\ Code(g) = Code(f)
               /\ f.inst # 0 => (InBody(g) <=> InBody(f))
               /\ stack' \in Seq(Frames) /\ Len(stack') = m
               /\ \A k \in 1 .. m : stack'[k] = IF k = m THEN g ELSE stack[k]
               /\ CurScope' = m /\ Top' = g
<1> DEFINE m    == Len(stack) - 1
           f    == stack[m]
           type == IF Top.frag = 1 THEN Deduced ELSE getReturnType(Top.inst)
           g    == Used(f, 0, << Expr(type) >>)
           rest == SubSeq(stack, 1, m)
<1>1. /\ Len(stack) \in Nat /\ CurScope = Len(stack) /\ Top.inst \in 1 .. Len(AllInstances)
      /\ Top = stack[Len(stack)] /\ Len(stack) \in 1 .. Len(stack)
  BY FragmentEnds DEF ReturnInstance
<1>2. /\ stack' = [ rest EXCEPT ![m] = g ]
      /\ CurScope' = Top.back /\ Len(stack) > 1
  BY DEF ReturnInstance, AtEnd
<1>3. m \in 1 .. Len(stack) /\ m \in Nat /\ m < Len(stack) /\ m \in 1 .. m
  BY <1>1, <1>2
<1>4. Placed(m) /\ Placed(Len(stack)) /\ f \in Frames /\ Known(f)
  BY <1>1, <1>3, StackFacts DEF IInv, Stacked
<1>5. Waiting(f)
  BY <1>3, <1>4 DEF Placed
<1>6. Top.back = m
  BY <1>1, <1>4 DEF Placed
<1>7. type \in AnyType
  BY <1>1, DeducedType, ReturnTypes DEF IInv, ReturnInstance
<1> HIDE DEF type
<1>8. /\ g \in Frames /\ SameFrame(g, f)
      /\ g.pc = f.pc + 1 /\ g.decls = f.decls /\ g.rets = f.rets
      /\ Len(g.operands) = Len(f.operands) + 1
  <2>1. Expr(type) \in Exprs
    BY <1>7, Expressions
  <2>2. << Expr(type) >> \in Seq(Exprs) /\ Len(<< Expr(type) >>) = 1
    BY <2>1, OneElement
  <2>3. Len(f.operands) \in Nat
    BY <1>4, LenProperties DEF Frames
  <2> HIDE DEF f
  <2>4. ASSUME NEW es \in Seq(Exprs)
        PROVE  LET h == Used(f, 0, es) IN
               /\ h \in Frames /\ SameFrame(h, f)
               /\ h.pc = f.pc + 1 /\ h.decls = f.decls /\ h.rets = f.rets
               /\ Len(h.operands) = Len(f.operands) - 0 + Len(es)
    <3>1. 0 \in Nat /\ 0 <= Len(f.operands) /\ f \in Frames
      BY <1>4, <2>3
    <3> QED
      BY <3>1, UsedFrame
  <2>5. /\ g \in Frames /\ SameFrame(g, f)
        /\ g.pc = f.pc + 1 /\ g.decls = f.decls /\ g.rets = f.rets
        /\ Len(g.operands) = Len(f.operands) - 0 + Len(<< Expr(type) >>)
    BY <2>2, <2>4
  <2> HIDE DEF g
  <2> QED
    BY <2>2, <2>3, <2>5
<1> HIDE DEF f, g
<1>9. /\ Code(g) = Code(f) /\ Walking(g)
      /\ f.inst # 0 => (InBody(g) <=> InBody(f))
  <2> DEFINE s == Code(f)[f.pc]
  <2>1. f.pc \in 1 .. Len(Code(f)) /\ s.op \in { "call", "entry" } /\ Len(f.operands) = HeightAt(f) - Arity(s)
    BY <1>5 DEF Waiting
  <2>2. g.inst = f.inst /\ g.frag = f.frag /\ g.pc = f.pc + 1
    BY <1>8 DEF SameFrame
  <2>3. /\ Code(g) = Code(f) /\ Len(Code(f)) \in Nat
        /\ s.op # "body" =>
              /\ Arity(s) \in Nat
              /\ HeightAt(f) \in Nat /\ HeightAt(f) >= Arity(s)
              /\ HeightAt(g) = HeightAt(f) - Arity(s) + IF IsExpression(s.op) THEN 1 ELSE 0
        /\ s.op # "body" /\ f.inst # 0 => (InBody(g) <=> InBody(f))
    BY <1>4, <2>1, <2>2, StepOf
  <2>4. IsExpression(s.op) /\ s.op # "body"
    BY <2>1, EntryArity
  <2> HIDE DEF s
  <2>5. HeightAt(g) = HeightAt(f) - Arity(s) + 1 /\ HeightAt(f) \in Nat /\ Arity(s) \in Nat
    BY <2>3, <2>4
  <2>6. Len(g.operands) = HeightAt(g)
    BY <1>8, <2>1, <2>5
  <2>7. g.pc \in 1 .. Len(Code(g)) + 1
    BY <2>1, <2>2, <2>3
  <2> QED
    BY <2>3, <2>4, <2>6, <2>7 DEF Walking
<1>10. /\ rest \in Seq(Frames) /\ Len(rest) = m /\ \A k \in 1 .. m : rest[k] = stack[k]
  <2>1. \A k \in 1 .. m : stack[k] \in Frames
    BY <1>1, StackFacts DEF IInv
  <2>2. 1 \in Int /\ m \in Int /\ 1 <= m /\ m - 1 + 1 = m
    BY <1>3
  <2> HIDE DEF m
  <2>3. /\ SubSeq(stack, 1, m) \in Seq(Frames)
        /\ Len(SubSeq(stack, 1, m)) = IF 1 <= m THEN m - 1 + 1 ELSE 0
        /\ \A k \in 1 .. m - 1 + 1 : SubSeq(stack, 1, m)[k] = stack[1 + k - 1]
    BY <2>1, <2>2, SubSeqProperties
  <2>4. \A k \in 1 .. m : k \in 1 .. m - 1 + 1 /\ 1 + k - 1 = k
    BY <2>2
  <2> QED
    BY <2>2, <2>3, <2>4
<1> HIDE DEF rest
<1>11. /\ stack' \in Seq(Frames) /\ Len(stack') = m
       /\ \A k \in 1 .. m : stack'[k] = IF k = m THEN g ELSE stack[k]
  <2> HIDE DEF m
  <2> DEFINE all == [ rest EXCEPT ![m] = g ]
  <2>1. /\ all \in Seq(Frames) /\ Len(all) = Len(rest)
        /\ \A k \in 1 .. Len(rest) : all[k] = IF k = m THEN g ELSE rest[k]
    BY <1>3, <1>8, <1>10, ExceptSeq
  <2> HIDE DEF all
  <2>2. stack' = all
    BY <1>2 DEF all
  <2> QED
    BY <1>10, <2>1, <2>2
<1>12. Top' = g
  BY <1>3, <1>11 DEF Top
<1> QED
  BY <1>2, <1>3, <1>5, <1>6, <1>8, <1>9, <1>11, <1>12 DEF f

LEMMA ReturnInstanceKeeps == ASSUME IInv, ReturnInstance PROVE IInv'
<1> DEFINE i == Top.inst
           m == Len(stack) - 1
           f == stack[m]
<1>1. PICK g \in Frames :
        /\ m \in 1 .. Len(stack) /\ m \in Nat /\ m < Len(stack)
        /\ SameFrame(g, f) /\ g.decls = f.decls /\ g.rets = f.rets /\ g.pc = f.pc + 1
        /\ Walking(g) /\ Waiting(f) /\ Code(g) = Code(f)
        /\ f.inst # 0 => (InBody(g) <=> InBody(f))
        /\ stack' \in Seq(Frames) /\ Len(stack') = m
        /\ \A k \in 1 .. m : stack'[k] = IF k = m THEN g ELSE stack[k]
        /\ CurScope' = m /\ Top' = g
  BY Returned
<1>2. /\ Top.pc # 0 /\ i \in 1 .. Len(AllInstances) /\ Len(AllInstances) \in Nat
      /\ Top.frag \in 1 .. Len(AllInstances[i].frags)
      /\ Top = stack[Len(stack)] /\ Len(stack) \in 1 .. Len(stack) /\ Len(stack) \in Nat
  BY FragmentEnds DEF ReturnInstance
<1>3. \A k \in 1 .. Len(stack) :
        /\ stack[k] \in Frames /\ stack[k].inst \in 0 .. Len(AllInstances)
        /\ stack[k].prev \in 0 .. k - 1 /\ (k > 1 => stack[k].inst \in 1 .. Len(AllInstances))
        /\ Placed(k)
  BY StackFacts DEF IInv, Outwards, Stacked
<1>4. \A k \in 1 .. m : k \in 1 .. Len(stack) /\ k < Len(stack) /\ stack[k].inst # i
  <2>1. \A k \in 1 .. m : k \in 1 .. Len(stack) /\ k < Len(stack) /\ k \in 1 .. Len(stack) - 1
    BY <1>1, <1>2
  <2>2. Placed(Len(stack))
    BY <1>2, <1>3
  <2> QED
    BY <1>2, <2>1, <2>2 DEF Placed
<1>5. /\ UNCHANGED << src, FunctionDecls, status >>
      /\ AllInstances' = [ AllInstances EXCEPT ![i].ret[Top.frag] = Deduced ]
  BY DEF ReturnInstance, setReturnType
<1>6. /\ KeepsCodes /\ Len(AllInstances') = Len(AllInstances)
      /\ \A j \in 1 .. Len(AllInstances) :
           /\ AllInstances'[j].decl = AllInstances[j].decl
           /\ AllInstances'[j].params = AllInstances[j].params
           /\ j # i => AllInstances'[j].ret = AllInstances[j].ret
  <2>1. Typed /\ Sized /\ src' = src /\ Deduced \in AnyType
    BY <1>5, DeducedType DEF IInv, ReturnInstance
  <2> HIDE DEF i
  <2> QED
    BY <1>2, <1>5, <2>1, ReturnTypeSet
<1> HIDE DEF i, m
<1>7. /\ SameCodes /\ AllInstances' \in Seq(Instances)
      /\ \A j \in 1 .. Len(AllInstances) :
           /\ AllInstances'[j].frags = AllInstances[j].frags
           /\ Len(AllInstances'[j].ret) = Len(AllInstances[j].ret)
  BY <1>6 DEF KeepsCodes, SameCodes
<1>8. g.inst = f.inst /\ g.frag = f.frag /\ g.prev = f.prev /\ g.back = f.back
  BY <1>1 DEF SameFrame
<1>9. \A k \in 1 .. m :
        /\ stack'[k].inst = stack[k].inst /\ stack'[k].frag = stack[k].frag
        /\ stack'[k].prev = stack[k].prev /\ stack'[k].back = stack[k].back
        /\ stack'[k].decls = stack[k].decls /\ stack'[k].rets = stack[k].rets
  BY <1>1, <1>8
<1>10. \A h : h.inst \in 0 .. Len(AllInstances) =>
         /\ Code(h)' = Code(h) /\ (Waiting(h)' <=> Waiting(h)) /\ (Walking(h)' <=> Walking(h))
  BY <1>2, <1>7, CodesKept
<1>11. ASSUME NEW k \in 1 .. m PROVE Code(stack[k])' = Code(stack[k])
  BY <1>1, <1>3, <1>4, <1>8, <1>10
<1>12. Typed'
  <2>1. src' \in Sources /\ FunctionDecls' \in Seq(FuncDecls)
        /\ status' \in { "running", "accepted", "crashed", "overflowed" } \cup Rejections
        /\ Len(stack) \in 1 .. MaxDepth /\ MaxDepth \in Nat
    BY <1>5, SourceAssumption, Zenon DEF IInv, Typed
  <2>2. m \in 1 .. MaxDepth
    BY <1>1, <2>1
  <2>3. CurScope' \in 1 .. Len(stack') /\ Len(stack') \in 1 .. MaxDepth
    BY <1>1, <2>2
  <2> QED
    BY <1>1, <1>7, <2>1, <2>3 DEF Typed
<1>13. Sized'
  BY <1>5, <1>6, <1>7 DEF IInv, Sized
<1>14. Stacked'
  <2> SUFFICES ASSUME NEW k \in 1 .. m PROVE Placed(k)'
    BY <1>1 DEF Stacked
  <2>1. Placed(k) /\ k < Len(stack) /\ stack[k].inst \in 0 .. Len(AllInstances) /\ k \in 1 .. Len(stack)
    BY <1>3, <1>4
  <2>2. k < m => Waiting(stack[k])'
    <3>1. k # m /\ k < m => stack'[k] = stack[k]
      BY <1>1
    <3>2. Waiting(stack[k])
      BY <2>1 DEF Placed
    <3> QED
      BY <1>1, <1>10, <2>1, <3>1, <3>2
  <2>3. k = m => Walking(stack[k])'
    BY <1>1, <1>8, <1>10, <2>1
  <2>4. k > 1 => stack'[k].frag \in 1 .. Len(AllInstances'[stack'[k].inst].frags)
    <3> SUFFICES ASSUME k > 1 PROVE stack'[k].frag \in 1 .. Len(AllInstances'[stack'[k].inst].frags)
      OBVIOUS
    <3>1. stack[k].inst \in 1 .. Len(AllInstances)
      BY <1>3, <2>1
    <3> QED
      BY <1>7, <1>9, <2>1, <3>1 DEF Placed
  <2>5. \A j \in 1 .. k - 1 : stack'[j].inst # stack'[k].inst
    <3>1. \A j \in 1 .. k - 1 : j \in 1 .. m
      BY <1>1
    <3> QED
      BY <1>9, <2>1, <3>1 DEF Placed
  <2>6. /\ stack'[k].inst = 0 <=> k = 1
        /\ stack'[k].inst <= Len(AllInstances')
        /\ stack'[k].prev < k /\ (stack'[k].prev = 0 <=> k = 1)
        /\ stack'[k].back = k - 1
    BY <1>6, <1>9, <2>1 DEF Placed
  <2> QED
    BY <1>1, <2>2, <2>3, <2>4, <2>5, <2>6 DEF Placed
<1>15. FunctionsPlaced'
  <2>1. \A k \in 1 .. m, d \in Nat : Declares(k, d)' <=> Declares(k, d)
    BY <1>9 DEF Declares
  <2>2. \A k \in 1 .. Len(stack), d \in Nat : Declares(k, d) =>
          /\ d \in 1 .. Len(FunctionDecls)
          /\ \A j \in 1 .. Len(FunctionDecls[d].frags) : IsPartOf(Code(stack[k]), FunctionDecls[d].frags[j])
          /\ \A x \in 1 .. Len(stack) : Declares(x, d) => x = k
    BY DEF IInv, Lexical, FunctionsPlaced
  <2> SUFFICES ASSUME NEW k \in 1 .. m, NEW d \in Nat, Declares(k, d)
               PROVE  /\ d \in 1 .. Len(FunctionDecls)
                      /\ \A j \in 1 .. Len(FunctionDecls[d].frags) :
                           IsPartOf(Code(stack[k])', FunctionDecls[d].frags[j])
                      /\ \A x \in 1 .. m : Declares(x, d)' => x = k
    BY <1>1, <1>5, <2>1 DEF FunctionsPlaced, IsPartOf
  <2> QED
    BY <1>4, <1>11, <2>1, <2>2
<1>16. InstancesPlaced'
  <2> SUFFICES ASSUME NEW k \in 2 .. m,
                      NEW j \in 1 .. Len(AllInstances'[stack'[k].inst].frags)
               PROVE  IsPartOf(Code(stack[stack[k].prev])', AllInstances'[stack'[k].inst].frags[j])
    BY <1>1 DEF InstancesPlaced, IsPartOf
  <2>1. k \in 1 .. m /\ k > 1 /\ k \in 2 .. Len(stack)
    BY <1>1, <1>2
  <2>2. /\ stack'[k].inst = stack[k].inst /\ stack'[k].prev = stack[k].prev
        /\ AllInstances'[stack[k].inst].frags = AllInstances[stack[k].inst].frags
    BY <1>3, <1>4, <1>7, <1>9, <2>1
  <2>3. stack[k].prev \in 1 .. m
    <3>1. Placed(k) /\ stack[k].prev \in 0 .. k - 1
      BY <1>3, <1>4, <2>1
    <3>2. stack[k].prev # 0
      BY <2>1, <3>1 DEF Placed
    <3> QED
      BY <1>1, <2>1, <3>1, <3>2
  <2>4. IsPartOf(Code(stack[stack[k].prev]), AllInstances[stack[k].inst].frags[j])
    BY <2>1, <2>2 DEF IInv, Lexical, InstancesPlaced
  <2>5. \A x \in 1 .. m : Code(stack[x])' = Code(stack[x])
    BY <1>11
  <2> QED
    BY <2>2, <2>3, <2>4, <2>5
<1>17. InstancesDiffer'
  <2>1. \A j : j # i /\ Entered(j)' => Entered(j)
    <3> SUFFICES ASSUME NEW j, j # i, Entered(j)', NEW k \in 1 .. Len(stack), stack[k].inst = j,
                        stack[k].frag = 1
                 PROVE  stack[k].pc # 0
      BY DEF Entered
    <3>1. k # Len(stack)
      BY <1>2 DEF i
    <3>2. k \in 1 .. m
      BY <1>2, <3>1 DEF m
    <3>3. CASE k = m
      <4>1. f.pc \in 1 .. Len(Code(f))
        BY <1>1 DEF Waiting
      <4> QED
        BY <3>3, <4>1
    <3>4. CASE k # m
      BY <1>1, <3>2, <3>4 DEF Entered
    <3> QED
      BY <3>3, <3>4
  <2> QED
    BY <1>2, <1>6, <2>1, ParametersKept DEF i
<1>18. Unseen'
  <2>1. g.pc # 0
    BY <1>1 DEF Walking
  <2> QED
    BY <1>1, <2>1 DEF Unseen
<1>19. Undecided'
  <2>1. ASSUME NEW h, h.inst \in 1 .. Len(AllInstances)
        PROVE  /\ Returning(h)' <=> Returning(h)
               /\ InBody(h)' <=> InBody(h)
               /\ Returns(FragmentOf(h))' <=> Returns(FragmentOf(h))
    <3>1. h.inst \in 0 .. Len(AllInstances) /\ h.inst # 0
      BY <1>2, <2>1
    <3> QED
      BY <1>2, <1>7, <3>1, CodesKept
  <2> SUFFICES ASSUME NEW k \in 2 .. m
               PROVE  /\ ~Returning(stack[k])' => stack'[k].rets = << >>
                      /\ stack'[k].frag = 1 =>
                           \/ getReturnType(stack[k].inst)' = NoType
                           \/ InBody(stack[k])' /\ ~Returns(FragmentOf(stack[k]))'
    BY <1>1 DEF Undecided
  <2>2. k \in 1 .. m /\ k \in 2 .. Len(stack) /\ stack[k].inst \in 1 .. Len(AllInstances) /\ stack[k].inst # 0
    <3>1. k \in 1 .. m /\ k \in 2 .. Len(stack) /\ k > 1
      BY <1>1, <1>2
    <3>2. stack[k].inst \in 1 .. Len(AllInstances)
      BY <1>3, <1>4, <3>1
    <3> QED
      BY <3>1, <3>2
  <2>3. /\ ~Returning(stack[k]) => stack[k].rets = << >>
        /\ stack[k].frag = 1 =>
             \/ getReturnType(stack[k].inst) = NoType
             \/ InBody(stack[k]) /\ ~Returns(FragmentOf(stack[k]))
    BY <2>2 DEF IInv, Undecided
  <2>4. getReturnType(stack[k].inst)' = getReturnType(stack[k].inst)
    BY <1>4, <1>6, <1>9, <2>2 DEF getReturnType
  <2>5. ASSUME NEW h, h = stack'[k]
        PROVE  /\ Returning(h)' <=> Returning(stack[k])
               /\ InBody(h)' <=> InBody(stack[k])
               /\ Returns(FragmentOf(h))' <=> Returns(FragmentOf(stack[k]))
    <3>1. h.inst = stack[k].inst /\ h.frag = stack[k].frag
      BY <1>9, <2>2, <2>5
    <3>2. FragmentOf(h) = FragmentOf(stack[k])
      BY <3>1 DEF FragmentOf
    <3>3. InBody(h) <=> InBody(stack[k])
      <4>1. CASE k = m
        BY <1>1, <2>2, <2>5, <4>1
      <4>2. CASE k # m
        BY <1>1, <2>2, <2>5, <4>2
      <4> QED
        BY <4>1, <4>2
    <3>4. Returning(h) <=> Returning(stack[k])
      BY <3>2, <3>3 DEF Returning
    <3>5. /\ Returning(h)' <=> Returning(h)
          /\ InBody(h)' <=> InBody(h)
          /\ Returns(FragmentOf(h))' <=> Returns(FragmentOf(h))
      BY <2>1, <2>2, <3>1
    <3> QED
      BY <3>2, <3>3, <3>4, <3>5
  <2>6. /\ Returning(stack[k])' <=> Returning(stack[k])
        /\ InBody(stack[k])' <=> InBody(stack[k])
        /\ Returns(FragmentOf(stack[k]))' <=> Returns(FragmentOf(stack[k]))
    BY <2>5
  <2> QED
    BY <1>9, <2>2, <2>3, <2>4, <2>6
<1> QED
  BY <1>12, <1>13, <1>14, <1>15, <1>16, <1>17, <1>18, <1>19 DEF IInv, Lexical, Unique

-----------------------------------------------------------------------------
(* The analysis                                                            *)

LEMMA InitIInv == ASSUME Init PROVE IInv
<1> DEFINE f == Frame(0, 1, << >>, 0, 0)
           g == Changed(f, 1, f.decls, f.operands, f.rets)
<1>1. /\ src \in Sources /\ CurScope = 1 /\ FunctionDecls = << >> /\ AllInstances = << >>
      /\ status = "running" /\ stack = << [ f EXCEPT !.pc = 1 ] >>
  BY DEF Init
<1>2. /\ f \in Frames /\ f.inst = 0 /\ f.prev = 0 /\ f.back = 0 /\ f.decls = << >>
      /\ f.operands = << >> /\ f.rets = << >>
  <2>1. << >> \in Seq(AnyType)
    BY EmptySeq
  <2>2. ASSUME NEW args \in Seq(AnyType)
        PROVE  IsFresh(Frame(0, 1, args, 0, 0), 0, 1, args, 0, 0)
    <3>1. 0 \in Nat /\ 1 \in Nat
      OBVIOUS
    <3> QED
      BY <3>1, NewFrame
  <2>3. IsFresh(f, 0, 1, << >>, 0, 0)
    BY <2>1, <2>2
  <2> HIDE DEF f
  <2> QED
    BY <2>3 DEF IsFresh
<1> HIDE DEF f
<1>3. /\ g \in Frames /\ g.inst = 0 /\ g.prev = 0 /\ g.back = 0 /\ g.pc = 1 /\ g.decls = << >>
      /\ g.operands = << >>
  <2>1. 1 \in Nat /\ f.decls \in Scopes /\ f.operands \in Seq(Exprs) /\ f.rets \in Seq(AnyType)
    BY <1>2 DEF Frames
  <2>2. ASSUME NEW pc \in Nat, NEW decls \in Scopes, NEW es \in Seq(Exprs), NEW ts \in Seq(AnyType)
        PROVE  LET h == Changed(f, pc, decls, es, ts) IN
               /\ h \in Frames /\ SameFrame(h, f)
               /\ h.pc = pc /\ h.decls = decls /\ h.operands = es /\ h.rets = ts
    BY <1>2, ChangedFrame
  <2>3. /\ g \in Frames /\ SameFrame(g, f) /\ g.pc = 1 /\ g.decls = f.decls
        /\ g.operands = f.operands
    BY <2>1, <2>2
  <2> HIDE DEF g
  <2> QED
    BY <1>2, <2>3 DEF SameFrame
<1>4. [ f EXCEPT !.pc = 1 ] = g
  BY <1>2 DEF Changed, Frames
<1> HIDE DEF g
<1>5. /\ stack = << g >> /\ stack \in Seq(Frames) /\ Len(stack) = 1 /\ stack[1] = g /\ Top = g
  <2>1. << g >> \in Seq(Frames) /\ Len(<< g >>) = 1 /\ << g >>[1] = g
    BY <1>3, OneElement
  <2> QED
    BY <1>1, <1>4, <2>1 DEF Top
<1>6. FunctionDecls \in Seq(FuncDecls) /\ Len(FunctionDecls) = 0
      /\ AllInstances \in Seq(Instances) /\ Len(AllInstances) = 0
  BY <1>1, EmptySeq
<1>7. Typed
  <2>1. Len(stack) \in 1 .. MaxDepth /\ CurScope \in 1 .. Len(stack)
    <3>1. MaxDepth \in Nat \ { 0 }
      BY SourceAssumption, Zenon
    <3> QED
      BY <1>1, <1>5, <3>1
  <2> QED
    BY <1>1, <1>5, <1>6, <2>1 DEF Typed
<1>8. Sized
  BY <1>6 DEF Sized
<1>9. Walking(g)
  <2>1. Len(Code(g)) = Len(src) + 1 /\ Len(src) \in Nat /\ Height(src)[1] = 0
    BY <1>1, <1>3, SourceCode, CodeIsSequence DEF Codes
  <2>2. HeightAt(g) = 0
    BY <1>3, <2>1 DEF HeightAt
  <2>3. Len(g.operands) = 0
    BY <1>3, EmptySeq
  <2> QED
    BY <1>3, <2>1, <2>2, <2>3 DEF Walking
<1>10. Stacked
  <2>1. \A k \in 1 .. Len(stack) : k = 1 /\ stack[k] = g
    BY <1>5
  <2>2. ASSUME NEW k, k = 1, stack[k] = g PROVE Placed(k)
    BY <1>1, <1>3, <1>5, <1>6, <1>9, <2>2 DEF Placed
  <2> QED
    BY <2>1, <2>2 DEF Stacked
<1>11. Lexical
  <2>1. DOMAIN stack[1].decls = {}
    BY <1>3, <1>5
  <2>2. \A k \in 1 .. Len(stack) : \A fd : ~Declares(k, fd)
    BY <1>5, <2>1 DEF Declares
  <2>3. InstancesPlaced
    BY <1>5 DEF InstancesPlaced
  <2> QED
    BY <2>2, <2>3 DEF Lexical, FunctionsPlaced
<1>12. Unique
  BY <1>3, <1>5, <1>6 DEF Unique, InstancesDiffer, Unseen
<1>13. Undecided
  BY <1>5 DEF Undecided
<1> QED
  BY <1>7, <1>8, <1>10, <1>11, <1>12, <1>13 DEF IInv

LEMMA StepKeepsIInv == ASSUME IInv, [Next]_vars PROVE IInv'
<1>1. CASE Analysed \/ UNCHANGED vars
  <2>1. UNCHANGED << src, stack, CurScope, FunctionDecls, AllInstances, status >>
    BY <1>1 DEF Analysed, vars
  <2>2. status' \in { "running" } \cup Endings
    BY <2>1 DEF IInv, Typed, Endings
  <2> QED
    BY <2>1, <2>2, UnchangedKeeps
<1>2. CASE actOnVariableDecl \/ VariableGetsType \/ actOnFunctionFragment \/ actOnReturnStmt \/ Discard
  BY <1>2, VariableDeclKeeps, VariableTypeKeeps, FunctionFragmentKeeps, ReturnStmtKeeps, DiscardKeeps
<1>3. CASE Literal \/ actOnIdentifier \/ actOnBinaryOperator \/ actOnUnaryOperator \/ actOnArraySubscriptExpr
  BY <1>3, LiteralKeeps, IdentifierKeeps, BinaryOperatorKeeps, UnaryOperatorKeeps, ArraySubscriptKeeps
<1>4. CASE Cast \/ CallArray \/ CallAlloca \/ CallExtern \/ CallFunctionType \/ CallPrint \/ CallExpression
  BY <1>4, CastKeeps, CallArrayKeeps, CallAllocaKeeps, CallExternKeeps, CallFunctionTypeKeeps,
     CallPrintKeeps, CallExpressionKeeps
<1>5. CASE actOnFunctionCall \/ createEntryPoint
  BY <1>5, FunctionCallKeeps, EntryPointKeeps
<1>6. CASE EnterFragment \/ EnterBody
  BY <1>6, EnterFragmentKeeps, EnterBodyKeeps
<1>7. CASE MismatchingReturns \/ MismatchingFragments \/ NextFragment \/ ReturnInstance \/ Accept
  BY <1>7, MismatchKeeps, NextFragmentKeeps, ReturnInstanceKeeps, AcceptKeeps
<1> QED
  BY <1>1, <1>2, <1>3, <1>4, <1>5, <1>6, <1>7 DEF Next, Walk

(* The invariant holds of every program, at any depth of calls. *)
THEOREM Invariance == Spec => []IInv
<1>1. Init => IInv
  BY InitIInv
<1>2. IInv /\ [Next]_vars => IInv'
  BY StepKeepsIInv
<1> QED
  BY <1>1, <1>2, PTL DEF Spec

(* The types are right: a frame's scope lies inside an older one, the      *)
(* current scope is that of a function that has not returned, and the walk *)
(* has room on the stack, wherever Sema is in a program.                   *)
LEMMA TypesFollow == ASSUME IInv PROVE TypeOK
<1>1. ASSUME NEW k \in 1 .. Len(stack)
      PROVE  /\ stack[k].inst \in 0 .. Len(AllInstances)
             /\ stack[k].inst = 0 <=> k = 1
             /\ stack[k].prev \in 0 .. k - 1 /\ stack[k].back \in 0 .. k - 1
  <2>1. Placed(k) /\ stack[k] \in Frames /\ stack[k].prev \in 0 .. k - 1
        /\ stack[k].inst \in 0 .. Len(AllInstances)
    BY StackFacts DEF IInv, Stacked, Outwards
  <2>2. stack[k].back = k - 1 /\ k - 1 \in 0 .. k - 1
    BY <2>1, StackFacts DEF IInv, Placed
  <2> QED
    BY <2>1, <2>2 DEF Placed
<1>2. ASSUME NEW k \in 1 .. Len(stack)
      PROVE  stack[k].pc \in 0 .. Len(Code(stack[k])) + 1
  <2>1. Placed(k) /\ Known(stack[k]) /\ Len(stack) \in Nat
    BY StackFacts DEF IInv, Stacked
  <2>2. Len(Code(stack[k])) \in Nat
    <3>1. CASE stack[k].inst = 0
      BY <2>1, <3>1, SourceCode DEF Known
    <3>2. CASE stack[k].inst # 0
      BY <2>1, <3>2, FragmentCode DEF Known
    <3> QED
      BY <3>1, <3>2
  <2>3. Waiting(stack[k]) \/ Walking(stack[k]) \/ stack[k].pc = 0
    BY <2>1 DEF Placed
  <2> QED
    BY <2>2, <2>3 DEF Waiting, Walking
<1>3. ASSUME NEW k \in 1 .. Len(stack), NEW x \in DOMAIN stack[k].decls
      PROVE  LET d == stack[k].decls[x]
             IN  \/ d.kind = "variable" /\ d.type \in AnyType
                 \/ d.kind = "function" /\ d.fd \in 1 .. Len(FunctionDecls)
  <2>1. stack[k].decls \in Scopes
    BY StackFacts DEF IInv, Frames
  <2>2. stack[k].decls[x] \in Declarations
    BY <2>1 DEF Scopes
  <2>3. CASE stack[k].decls[x] \in [ kind : { "variable" }, type : AnyType ]
    BY <2>3
  <2>4. CASE stack[k].decls[x] \in [ kind : { "function" }, fd : Nat ]
    BY <2>4, DeclaredFunction
  <2> QED
    BY <2>2, <2>3, <2>4 DEF Declarations
<1>4. /\ Len(stack) \in 1 .. MaxDepth /\ CurScope \in 1 .. Len(stack)
      /\ Ended \/ status = "running"
  BY DEF IInv, Typed, Ended
<1>5. \A i \in 1 .. Len(AllInstances) : AllInstances[i].decl \in 1 .. Len(FunctionDecls)
  BY DEF IInv, Sized
<1> QED
  BY <1>1, <1>2, <1>3, <1>4, <1>5 DEF TypeOK

(* Whatever the program, the compiler's data are what their types say and  *)
(* no pointer to a scope outlives the scope.                               *)
THEOREM TypeCorrect == Spec => []TypeOK
<1>1. IInv => TypeOK
  BY TypesFollow
<1> QED
  BY <1>1, Invariance, PTL

(* The assertions about scopes in getOrCreateFunctionInstance and run hold *)
(* of every program: the declaration of a function that is called is in a  *)
(* scope around the call, and the walk ends in the global scope.           *)
THEOREM ScopesIntact == Spec => []ScopesNeverBroken
<1>1. IInv => ScopesNeverBroken
  BY DEF IInv, Typed, Rejections, ScopesNeverBroken
<1> QED
  BY <1>1, Invariance, PTL

(* The scope around each fragment in progress belongs to the text that     *)
(* contains the fragment, however the calls that led to it are nested.     *)
LEMMA ScopesFollow == ASSUME IInv PROVE LexicalScoping
<1> SUFFICES ASSUME NEW k \in 2 .. Len(stack)
             PROVE  IsPartOf(Code(stack[stack[k].prev]),
                             AllInstances[stack[k].inst].frags[stack[k].frag])
  BY DEF LexicalScoping
<1>1. k \in 1 .. Len(stack) /\ k > 1
  BY StackFacts DEF IInv
<1>2. stack[k].frag \in 1 .. Len(AllInstances[stack[k].inst].frags)
  BY <1>1 DEF IInv, Stacked, Placed
<1> QED
  BY <1>2 DEF IInv, Lexical, InstancesPlaced

(* Names are looked up where a function is written, in every program.      *)
THEOREM Scoping == Spec => []LexicalScoping
<1>1. IInv => LexicalScoping
  BY ScopesFollow
<1> QED
  BY <1>1, Invariance, PTL

-----------------------------------------------------------------------------
(* Return types                                                            *)

KeepsReturnTypes ==
  \A i \in 1 .. Len(AllInstances) :
    getReturnType(i) # NoType => AllInstances'[i].ret[1] = getReturnType(i)

LEMMA UnchangedReturnTypes ==
  ASSUME UNCHANGED AllInstances
  PROVE  KeepsReturnTypes
BY DEF KeepsReturnTypes, getReturnType

LEMMA JudgedReturnTypes ==
  ASSUME NEW ts, NEW crash, NEW valid, NEW n, NEW e, JudgeSpelling(ts, crash, valid, n, e)
  PROVE  UNCHANGED AllInstances
BY JudgeEnds DEF Stop, Eval

(* A return type is decided once. *)
LEMMA ReturnTypeDecided ==
  ASSUME Typed, Sized, src' = src, NEW i \in 1 .. Len(AllInstances),
         NEW k \in 1 .. Len(AllInstances[i].frags), NEW t \in AnyType,
         AllInstances' = [ AllInstances EXCEPT ![i].ret[k] = t ],
         k = 1 /\ getReturnType(i) # NoType => t = getReturnType(i)
  PROVE  KeepsReturnTypes
<1>1. /\ \A j \in 1 .. Len(AllInstances) : j # i => AllInstances'[j].ret = AllInstances[j].ret
      /\ AllInstances'[i].ret[1] = IF k = 1 THEN t ELSE AllInstances[i].ret[1]
  BY ReturnTypeSet
<1> QED
  BY <1>1 DEF KeepsReturnTypes, getReturnType

(* A fragment that ends with a return type its instance has already is one *)
(* without return statements.                                              *)
LEMMA DeducedAgain ==
  ASSUME IInv, AtEnd, Top.frag = 1, getReturnType(Top.inst) # NoType
  PROVE  Deduced = getReturnType(Top.inst)
<1>1. Top = stack[Len(stack)] /\ Len(stack) \in Nat /\ Len(stack) > 1
  BY FragmentEnds DEF AtEnd
<1>2. Len(stack) \in 2 .. Len(stack)
  BY <1>1
<1>3. ~Returns(FragmentOf(Top))
  BY <1>1, <1>2 DEF IInv, Undecided
<1>4. Top.rets = << >>
  BY <1>1, <1>2, <1>3 DEF IInv, Undecided, Returning
<1>5. TypedReturns = {}
  <2>1. Len(Top.rets) = 0
    BY <1>4, EmptySeq
  <2> QED
    BY <2>1 DEF TypedReturns
<1> QED
  BY <1>5 DEF Deduced, getReturnType

LEMMA EndReturnTypes ==
  ASSUME IInv, AtEnd, setReturnType, src' = src
  PROVE  KeepsReturnTypes
<1>1. /\ Top.inst \in 1 .. Len(AllInstances) /\ Top.frag \in 1 .. Len(AllInstances[Top.inst].frags)
  BY FragmentEnds
<1>2. Deduced \in AnyType
  BY DeducedType
<1>3. AllInstances' = [ AllInstances EXCEPT ![Top.inst].ret[Top.frag] = Deduced ]
  BY DEF setReturnType
<1>4. Top.frag = 1 /\ getReturnType(Top.inst) # NoType => Deduced = getReturnType(Top.inst)
  BY DeducedAgain
<1> DEFINE i == Top.inst
           k == Top.frag
           t == Deduced
<1>5. /\ i \in 1 .. Len(AllInstances) /\ k \in 1 .. Len(AllInstances[i].frags) /\ t \in AnyType
      /\ AllInstances' = [ AllInstances EXCEPT ![i].ret[k] = t ]
      /\ k = 1 /\ getReturnType(i) # NoType => t = getReturnType(i)
  BY <1>1, <1>2, <1>3, <1>4
<1> HIDE DEF i, k, t
<1> QED
  BY <1>5, ReturnTypeDecided DEF IInv

LEMMA BodyReturnTypes ==
  ASSUME IInv, EnterBody
  PROVE  KeepsReturnTypes
<1> DEFINE i == Top.inst
           k == Top.frag
<1>1. /\ i \in 1 .. Len(AllInstances) /\ k \in 1 .. Len(AllInstances[i].frags)
      /\ k = 1 => getReturnType(i) = NoType
  BY BodyAhead DEF EnterBody
<1>2. \/ AllInstances' = AllInstances
      \/ AllInstances' = [ AllInstances EXCEPT ![i].ret[k] = VoidTy ]
  BY DEF EnterBody
<1>3. src' = src /\ VoidTy \in AnyType
  BY BasicTypes DEF EnterBody
<1> HIDE DEF i, k
<1> QED
  BY <1>1, <1>2, <1>3, UnchangedReturnTypes, ReturnTypeDecided DEF IInv

(* The parameters of an instance are written, its return types are not. *)
LEMMA ParametersReturnTypes ==
  ASSUME IInv, EnterFragment
  PROVE  KeepsReturnTypes
<1> DEFINE i == Top.inst
<1>1. PICK params : \/ AllInstances' = AllInstances
                    \/ AllInstances' = [ AllInstances EXCEPT ![i].params = params ]
  <2>1. \/ AllInstances' = AllInstances
        \/ \E params : AllInstances' = [ AllInstances EXCEPT ![i].params = params ]
    BY Zenon DEF EnterFragment, Stop
  <2> QED
    BY <2>1
<1> HIDE DEF i
<1>2. \A j \in 1 .. Len(AllInstances) : AllInstances[j] \in Instances
  BY StackFacts DEF IInv
<1>3. AllInstances \in Seq(Instances)
  BY DEF IInv, Typed
<1>4. \A j \in 1 .. Len(AllInstances) : AllInstances'[j].ret = AllInstances[j].ret
  <2> SUFFICES ASSUME NEW j \in 1 .. Len(AllInstances), AllInstances' # AllInstances
               PROVE  AllInstances'[j].ret = AllInstances[j].ret
    OBVIOUS
  <2>1. AllInstances'[j] = IF j = i THEN [ AllInstances[i] EXCEPT !.params = params ]
                                    ELSE AllInstances[j]
    BY <1>1, <1>3
  <2> QED
    BY <1>2, <2>1 DEF Instances
<1> QED
  BY <1>4 DEF KeepsReturnTypes, getReturnType

(* A new instance is put behind the others. *)
LEMMA CallReturnTypes ==
  ASSUME IInv, actOnFunctionCall \/ createEntryPoint
  PROVE  KeepsReturnTypes
<1>1. \/ \E how : Stop(how)
      \/ \E fd, tys, n : getOrCreateFunctionInstance(fd, tys, n)
  <2>1. CASE actOnFunctionCall
    <3> DEFINE d == findDecl(Step.id)
    <3>1. CASE d.kind = "none"
      BY <2>1, <3>1 DEF actOnFunctionCall
    <3>2. CASE d.kind = "variable"
      BY <2>1, <3>2 DEF actOnFunctionCall
    <3>3. CASE d.kind = "function"
      BY <2>1, <3>3 DEF actOnFunctionCall
    <3>4. d.kind \in { "none", "variable", "function" }
      BY DeclKind
    <3> QED
      BY <3>1, <3>2, <3>3, <3>4
  <2>2. CASE createEntryPoint
    BY <2>2 DEF createEntryPoint
  <2> QED
    BY <2>1, <2>2
<1>2. CASE \E how : Stop(how)
  BY <1>2, UnchangedReturnTypes DEF Stop
<1>3. ASSUME NEW fd, NEW tys, NEW n, getOrCreateFunctionInstance(fd, tys, n)
      PROVE  KeepsReturnTypes
  <2>1. CASE \E i : ReuseInstance(i, n)
    BY <2>1, UnchangedReturnTypes DEF ReuseInstance, Stop, Eval
  <2>2. CASE CreateInstance(fd, tys, n)
    <3>1. CASE UNCHANGED AllInstances
      BY <3>1, UnchangedReturnTypes
    <3>2. CASE \E new : AllInstances' = Append(AllInstances, new)
      <4>1. AllInstances \in Seq(Instances)
        BY DEF IInv, Typed
      <4>2. \A j \in 1 .. Len(AllInstances) : AllInstances'[j] = AllInstances[j]
        BY <3>2, <4>1, AppendProperties
      <4> QED
        BY <4>2 DEF KeepsReturnTypes, getReturnType
    <3> QED
      BY <2>2, <3>1, <3>2 DEF CreateInstance, Stop
  <2> QED
    BY <1>3, <2>1, <2>2 DEF getOrCreateFunctionInstance
<1> QED
  BY <1>1, <1>2, <1>3

LEMMA StepKeepsReturnTypes ==
  ASSUME IInv, [Next]_vars
  PROVE  KeepsReturnTypes
<1>1. CASE Analysed \/ UNCHANGED vars
  BY <1>1, UnchangedReturnTypes DEF Analysed, vars
<1>2. CASE actOnVariableDecl \/ VariableGetsType \/ actOnFunctionFragment \/ actOnReturnStmt \/ Discard
  <2>1. UNCHANGED AllInstances
    BY <1>2, Zenon
       DEF actOnVariableDecl, VariableGetsType, actOnFunctionFragment, actOnReturnStmt, Discard, Stop
  <2> QED
    BY <2>1, UnchangedReturnTypes
<1>3. CASE Literal \/ actOnIdentifier \/ CallPrint
  BY <1>3, UnchangedReturnTypes DEF Literal, actOnIdentifier, CallPrint, Eval, Stop
<1>4. CASE actOnBinaryOperator \/ actOnUnaryOperator \/ actOnArraySubscriptExpr \/ Cast
           \/ CallArray \/ CallAlloca \/ CallExtern \/ CallFunctionType \/ CallExpression
  <2>1. UNCHANGED AllInstances
    BY <1>4, JudgedReturnTypes
       DEF Judge, actOnBinaryOperator, actOnUnaryOperator, actOnArraySubscriptExpr, Cast,
           CallArray, CallAlloca, CallExtern, CallFunctionType, CallExpression
  <2> QED
    BY <2>1, UnchangedReturnTypes
<1>5. CASE actOnFunctionCall \/ createEntryPoint
  BY <1>5, CallReturnTypes
<1>6. CASE EnterFragment \/ EnterBody
  BY <1>6, ParametersReturnTypes, BodyReturnTypes
<1>7. CASE NextFragment \/ ReturnInstance
  BY <1>7, EndReturnTypes DEF NextFragment, ReturnInstance
<1>8. CASE MismatchingReturns \/ MismatchingFragments \/ Accept
  <2>1. \E how : Stop(how)
    BY <1>8, RejectStops DEF MismatchingReturns, MismatchingFragments, Accept
  <2> QED
    BY <2>1, UnchangedReturnTypes DEF Stop
<1> QED
  BY <1>1, <1>2, <1>3, <1>4, <1>5, <1>6, <1>7, <1>8 DEF Next, Walk

(* The type a call was given is the type the function returns in the end:  *)
(* no step changes a return type that calls can see.                       *)
THEOREM ReturnFinal == Spec => ReturnTypeIsFinal
<1>1. IInv /\ [Next]_vars
        => [ \A i \in 1 .. Len(AllInstances) :
               getReturnType(i) # NoType => AllInstances'[i].ret[1] = getReturnType(i) ]_vars
  BY StepKeepsReturnTypes DEF KeepsReturnTypes
<1> QED
  BY <1>1, Invariance, PTL DEF Spec, ReturnTypeIsFinal

-----------------------------------------------------------------------------
(* The names of instances                                                  *)

(* Every function has a home: the fragment, of an instance, that declared  *)
(* it, or the translation unit, (0, 1).  While the frame of the home is on *)
(* the stack its scope is the one that has the function, and it declares   *)
(* no name twice.  An instance has the name of the home of its function,   *)
(* the name of the function and the number of its instances before.        *)
PlaceOf(k)  == << stack[k].inst, stack[k].frag >>
HomeName(p) == IF p = 0 THEN << >> ELSE AllInstances[p].id
Earlier(i)  == { j \in 1 .. i - 1 : AllInstances[j].decl = AllInstances[i].decl }

FunctionHomed(home, d) ==
  /\ home[d][1] <= Len(AllInstances)
  /\ home[d][1] = 0 => home[d][2] = 1
  /\ home[d][1] # 0 =>
       /\ home[d][2] \in 1 .. Len(AllInstances[home[d][1]].frags)
       /\ FunctionDecls[d].id \in LocalFunctions(AllInstances[home[d][1]].frags[home[d][2]])
  /\ \A k \in 1 .. Len(stack) :
       /\ Declares(k, d) => home[d] = PlaceOf(k)
       /\ home[d] = PlaceOf(k) =>
            stack[k].pc # 0 /\ FunctionDecls[d].id \in DOMAIN stack[k].decls
       /\ home[d][1] = stack[k].inst => home[d][2] <= stack[k].frag

InstanceNamed(home, i) ==
  LET d == AllInstances[i].decl IN
    /\ home[d][1] < i
    /\ AllInstances[i].id =
         HomeName(home[d][1]) \o << << FunctionDecls[d].id, Cardinality(Earlier(i)) >> >>
    /\ Len(AllInstances[i].frags) <= Len(FunctionDecls[d].frags)
    /\ \A j \in 1 .. Len(AllInstances[i].frags) :
         AllInstances[i].frags[j] = FunctionDecls[d].frags[j]

Homes == [ 1 .. Len(FunctionDecls) -> Nat \X Nat ]
Homed(home) ==
  /\ \A d \in 1 .. Len(FunctionDecls) : FunctionHomed(home, d)
  /\ \A d, e \in 1 .. Len(FunctionDecls) :
       home[d] = home[e] /\ FunctionDecls[d].id = FunctionDecls[e].id => d = e
  /\ \A i \in 1 .. Len(AllInstances) : InstanceNamed(home, i)

Named == stack[1].frag = 1 /\ \E home \in Homes : Homed(home)

(* What a step leaves alone: instances and functions keep their names and  *)
(* fragments, and a frame its place and scope, or it moves on to a later   *)
(* fragment with an empty one.                                             *)
KeepsPrograms ==
  /\ Len(AllInstances) <= Len(AllInstances')
  /\ \A i \in 1 .. Len(AllInstances) :
       /\ AllInstances'[i].decl = AllInstances[i].decl
       /\ AllInstances'[i].id = AllInstances[i].id
       /\ AllInstances'[i].frags = AllInstances[i].frags
  /\ Len(FunctionDecls) <= Len(FunctionDecls')
  /\ \A d \in 1 .. Len(FunctionDecls) :
       /\ FunctionDecls'[d].id = FunctionDecls[d].id
       /\ Len(FunctionDecls[d].frags) <= Len(FunctionDecls'[d].frags)
       /\ \A j \in 1 .. Len(FunctionDecls[d].frags) :
            FunctionDecls'[d].frags[j] = FunctionDecls[d].frags[j]

Stays(k, d) ==
  /\ stack'[k].frag = stack[k].frag
  /\ stack[k].pc # 0 =>
       stack'[k].pc # 0 /\ DOMAIN stack[k].decls \subseteq DOMAIN stack'[k].decls
  /\ Declares(k, d)' => Declares(k, d)
MovesOn(k, d) == stack'[k].frag > stack[k].frag /\ ~Declares(k, d)'
Settled(d) ==
  \A k \in 1 .. Len(stack') :
    \/ /\ k \in 1 .. Len(stack) /\ stack'[k].inst = stack[k].inst
       /\ Stays(k, d) \/ MovesOn(k, d)
    \/ stack'[k].inst > Len(AllInstances) /\ ~Declares(k, d)'
KeepsFrames ==
  stack'[1].frag = stack[1].frag /\ \A d \in 1 .. Len(FunctionDecls) : Settled(d)

LEMMA FunctionStaysHomed ==
  ASSUME IInv, IInv', KeepsPrograms, NEW d \in 1 .. Len(FunctionDecls), Settled(d),
         NEW home, home[d] \in Nat \X Nat, FunctionHomed(home, d)
  PROVE  FunctionHomed(home, d)'
<1>1. Len(AllInstances) \in Nat /\ Len(AllInstances') \in Nat
  BY StackFacts, IInv, IInv' DEF IInv, Typed
<1>2. home[d][1] \in Nat /\ home[d][2] \in Nat /\ home[d] = << home[d][1], home[d][2] >>
  OBVIOUS
<1> DEFINE p == home[d][1]
           q == home[d][2]
<1> HIDE DEF p, q
<1>3. p \in Nat /\ q \in Nat /\ home[d] = << p, q >> /\ home[d][1] = p /\ home[d][2] = q
  BY <1>2 DEF p, q
<1>4. /\ p <= Len(AllInstances)
      /\ p = 0 => q = 1
      /\ p # 0 => /\ q \in 1 .. Len(AllInstances[p].frags)
                  /\ FunctionDecls[d].id \in LocalFunctions(AllInstances[p].frags[q])
      /\ \A k \in 1 .. Len(stack) :
           /\ Declares(k, d) => home[d] = PlaceOf(k)
           /\ home[d] = PlaceOf(k) =>
                stack[k].pc # 0 /\ FunctionDecls[d].id \in DOMAIN stack[k].decls
           /\ p = stack[k].inst => q <= stack[k].frag
  BY <1>3 DEF FunctionHomed
<1>5. FunctionDecls'[d].id = FunctionDecls[d].id
  BY DEF KeepsPrograms
<1>6. p <= Len(AllInstances')
  BY <1>1, <1>3, <1>4 DEF KeepsPrograms
<1>7. p # 0 => AllInstances'[p].frags = AllInstances[p].frags
  BY <1>1, <1>3, <1>4 DEF KeepsPrograms
<1>8. ASSUME NEW k \in 1 .. Len(stack')
      PROVE  /\ Declares(k, d)' => home[d] = << stack'[k].inst, stack'[k].frag >>
             /\ home[d] = << stack'[k].inst, stack'[k].frag >> =>
                  stack'[k].pc # 0 /\ FunctionDecls[d].id \in DOMAIN stack'[k].decls
             /\ p = stack'[k].inst => q <= stack'[k].frag
  <2>1. CASE stack'[k].inst > Len(AllInstances) /\ ~Declares(k, d)'
    <3>1. stack'[k].inst \in Nat
      <4>1. stack' \in Seq(Frames)
        BY DEF IInv, Typed
      <4>2. stack'[k] \in Frames
        BY <4>1, ElementOfSeq
      <4> QED
        BY <4>2 DEF Frames
    <3>2. p # stack'[k].inst
      BY <1>1, <1>3, <1>4, <2>1, <3>1
    <3> QED
      BY <1>3, <2>1, <3>2
  <2>2. ASSUME k \in 1 .. Len(stack), stack'[k].inst = stack[k].inst
        PROVE  stack[k].frag \in Nat /\ (p = stack[k].inst => q <= stack[k].frag)
    BY <1>4, <2>2, StackFacts DEF IInv, Frames
  <2>3. CASE k \in 1 .. Len(stack) /\ stack'[k].inst = stack[k].inst /\ Stays(k, d)
    BY <1>4, <2>3 DEF Stays, PlaceOf
  <2>4. CASE k \in 1 .. Len(stack) /\ stack'[k].inst = stack[k].inst /\ MovesOn(k, d)
    <3>1. stack'[k].frag \in Nat
      <4>1. stack' \in Seq(Frames)
        BY DEF IInv, Typed
      <4>2. stack'[k] \in Frames
        BY <4>1, ElementOfSeq
      <4> QED
        BY <4>2 DEF Frames
    <3>2. p = stack'[k].inst => q < stack'[k].frag
      BY <1>3, <2>2, <2>4, <3>1 DEF MovesOn
    <3> QED
      BY <1>3, <2>4, <3>1, <3>2 DEF MovesOn
  <2> QED
    BY <2>1, <2>3, <2>4 DEF Settled
<1>9. /\ p <= Len(AllInstances')
      /\ p = 0 => q = 1
      /\ p # 0 => /\ q \in 1 .. Len(AllInstances'[p].frags)
                  /\ FunctionDecls'[d].id \in LocalFunctions(AllInstances'[p].frags[q])
  BY <1>4, <1>5, <1>6, <1>7
<1> QED
  BY <1>3, <1>5, <1>8, <1>9 DEF FunctionHomed, PlaceOf

LEMMA InstanceStaysNamed ==
  ASSUME Typed, Sized, Typed', KeepsPrograms, NEW i \in 1 .. Len(AllInstances),
         NEW home, NEW now, \A d \in 1 .. Len(FunctionDecls) : now[d] = home[d] /\ home[d] \in Nat \X Nat,
         InstanceNamed(home, i)
  PROVE  InstanceNamed(now, i)'
<1>0. PICK d \in 1 .. Len(FunctionDecls) : d = AllInstances[i].decl
  BY DEF Sized
<1>1. AllInstances'[i].decl = d /\ Len(AllInstances) \in Nat
  BY <1>0 DEF KeepsPrograms, Typed
<1>2. now[d] = home[d] /\ home[d][1] \in Nat /\ home[d][1] < i
  BY <1>0 DEF InstanceNamed
<1> DEFINE p == home[d][1]
<1>3. HomeName(p)' = HomeName(p)
  <2>0. p \in Nat /\ p < i
    BY <1>2
  <2> HIDE DEF p
  <2>1. p # 0 => p \in 1 .. Len(AllInstances)
    BY <1>1, <2>0
  <2>2. p # 0 => AllInstances'[p].id = AllInstances[p].id
    BY <2>1 DEF KeepsPrograms
  <2> QED
    BY <2>2 DEF HomeName
<1>4. Earlier(i)' = Earlier(i)
  <2>0. \A j \in 1 .. i - 1 : j \in 1 .. Len(AllInstances)
    BY <1>1
  <2>1. \A j \in 1 .. i - 1 : AllInstances'[j].decl = AllInstances[j].decl
    BY <2>0 DEF KeepsPrograms
  <2> QED
    BY <1>0, <1>1, <2>1 DEF Earlier
<1>5. /\ AllInstances[i].id = HomeName(home[d][1]) \o << << FunctionDecls[d].id, Cardinality(Earlier(i)) >> >>
      /\ Len(AllInstances[i].frags) <= Len(FunctionDecls[d].frags)
      /\ \A j \in 1 .. Len(AllInstances[i].frags) : AllInstances[i].frags[j] = FunctionDecls[d].frags[j]
  BY <1>0 DEF InstanceNamed
<1>6. /\ AllInstances'[i].id = AllInstances[i].id /\ AllInstances'[i].frags = AllInstances[i].frags
      /\ FunctionDecls'[d].id = FunctionDecls[d].id
  BY <1>1 DEF KeepsPrograms
<1>7. /\ Len(AllInstances[i].frags) <= Len(FunctionDecls'[d].frags)
      /\ \A j \in 1 .. Len(AllInstances[i].frags) : AllInstances[i].frags[j] = FunctionDecls'[d].frags[j]
  <2> DEFINE now2 == FunctionDecls'[d].frags
  <2>1. Len(FunctionDecls[d].frags) <= Len(now2)
        /\ \A j \in 1 .. Len(FunctionDecls[d].frags) : now2[j] = FunctionDecls[d].frags[j]
    BY <1>1 DEF KeepsPrograms
  <2>2. Len(AllInstances[i].frags) \in Nat /\ Len(FunctionDecls[d].frags) \in Nat
    <3>1. AllInstances[i] \in Instances /\ FunctionDecls[d] \in FuncDecls
      BY <1>1, ElementOfSeq DEF Typed
    <3> QED
      BY <3>1, LenProperties DEF Instances, FuncDecls
  <2>3. Len(now2) \in Nat
    <3>1. FunctionDecls' \in Seq(FuncDecls) /\ d \in 1 .. Len(FunctionDecls')
      BY <1>1 DEF KeepsPrograms, Typed
    <3> QED
      BY <3>1, ElementOfSeq, LenProperties DEF FuncDecls
  <2>4. Len(AllInstances[i].frags) <= Len(now2)
    BY <1>5, <2>1, <2>2, <2>3
  <2>5. \A j \in 1 .. Len(AllInstances[i].frags) : j \in 1 .. Len(FunctionDecls[d].frags)
    BY <1>5, <2>2
  <2> QED
    BY <1>5, <2>1, <2>4, <2>5
<1>8. now[d][1] = p /\ p < i
  BY <1>2
<1>9. AllInstances'[i].id = HomeName(p)' \o << << FunctionDecls'[d].id, Cardinality(Earlier(i)') >> >>
  BY <1>3, <1>4, <1>5, <1>6
<1> HIDE DEF p
<1> QED
  BY <1>1, <1>6, <1>7, <1>8, <1>9, Zenon DEF InstanceNamed

LEMMA NamesKept ==
  ASSUME IInv, IInv', Named, KeepsPrograms, KeepsFrames,
         Len(FunctionDecls') = Len(FunctionDecls), Len(AllInstances') = Len(AllInstances)
  PROVE  Named'
<1>1. PICK home \in Homes : Homed(home)
  BY DEF Named
<1>2. \A d \in 1 .. Len(FunctionDecls) : home[d] \in Nat \X Nat
  BY DEF Homes
<1>3. \A d \in 1 .. Len(FunctionDecls) : FunctionHomed(home, d)'
  BY <1>1, <1>2, FunctionStaysHomed DEF Homed, KeepsFrames
<1>4. \A i \in 1 .. Len(AllInstances) : InstanceNamed(home, i)'
  BY <1>1, <1>2, InstanceStaysNamed DEF Homed, IInv
<1>5. \A d, e \in 1 .. Len(FunctionDecls) :
        home[d] = home[e] /\ FunctionDecls'[d].id = FunctionDecls'[e].id => d = e
  BY <1>1 DEF Homed, KeepsPrograms
<1>6. Homed(home)'
  BY <1>3, <1>4, <1>5 DEF Homed
<1>7. home \in Homes' /\ stack'[1].frag = 1
  BY DEF Homes, KeepsFrames, Named
<1> QED
  BY <1>6, <1>7 DEF Named

(* Names of the form x.n differ in x or in n.                              *)
LEMMA LastOfName ==
  ASSUME NEW s \in AnyId, NEW t \in AnyId, NEW x, NEW y, s \o << x >> = t \o << y >>
  PROVE  s = t /\ x = y
<1> DEFINE S  == (STRING \X Nat) \cup { x, y }
           u  == s \o << x >>
           v  == t \o << y >>
<1>1. s \in Seq(S) /\ t \in Seq(S)
  BY SeqMonotonic DEF AnyId
<1>2. << x >> \in Seq(S) /\ << y >> \in Seq(S) /\ Len(<< x >>) = 1 /\ Len(<< y >>) = 1
      /\ << x >>[1] = x /\ << y >>[1] = y
  BY OneElement
<1> HIDE DEF S
<1>3. /\ Len(u) = Len(s) + 1
      /\ \A i \in 1 .. Len(s) + 1 : u[i] = IF i <= Len(s) THEN s[i] ELSE << x >>[i - Len(s)]
  BY <1>1, <1>2, ConcatProperties
<1>4. /\ Len(v) = Len(t) + 1
      /\ \A i \in 1 .. Len(t) + 1 : v[i] = IF i <= Len(t) THEN t[i] ELSE << y >>[i - Len(t)]
  BY <1>1, <1>2, ConcatProperties
<1>5. Len(s) \in Nat /\ Len(t) \in Nat /\ u = v
  BY <1>1, LenProperties
<1> HIDE DEF u, v
<1>6. Len(s) = Len(t)
  BY <1>3, <1>4, <1>5
<1>7. \A i \in 1 .. Len(s) : s[i] = t[i]
  BY <1>3, <1>4, <1>5, <1>6
<1>8. x = y
  <2>1. Len(s) + 1 \in 1 .. Len(s) + 1 /\ ~(Len(s) + 1 <= Len(s)) /\ Len(s) + 1 - Len(s) = 1
    BY <1>5
  <2> QED
    BY <1>2, <1>3, <1>4, <1>5, <1>6, <2>1
<1> QED
  BY <1>1, <1>6, <1>7, <1>8, SeqEqual

LEMMA FewerBefore ==
  ASSUME Len(AllInstances) \in Nat,
         NEW i \in 1 .. Len(AllInstances), NEW j \in 1 .. Len(AllInstances), i < j,
         AllInstances[i].decl = AllInstances[j].decl
  PROVE  Cardinality(Earlier(i)) # Cardinality(Earlier(j))
<1>1. Earlier(i) \subseteq Earlier(j) /\ i \in Earlier(j) /\ i \notin Earlier(i)
  BY DEF Earlier
<1>2. IsFiniteSet(Earlier(j))
  <2>1. Earlier(j) \in SUBSET (1 .. j - 1) /\ IsFiniteSet(1 .. j - 1)
    BY FS_Interval DEF Earlier
  <2> QED
    BY <2>1, FS_Subset
<1> QED
  BY <1>1, <1>2, FS_Subset

(* Two instances of one name would be of functions with one home, if the   *)
(* fragments of every function declare different functions: the first such *)
(* instance is the instance of one declaration, and was counted.           *)
LEMMA NamesDiffer == ASSUME IInv, Named PROVE IdsDistinct
<1> SUFFICES ASSUME SeparateLocals,
                    NEW a \in 1 .. Len(AllInstances), NEW b \in 1 .. Len(AllInstances), a # b,
                    AllInstances[a].id = AllInstances[b].id
             PROVE  FALSE
  BY DEF IdsDistinct
<1>1. PICK home \in Homes : Homed(home)
  BY DEF Named
<1>2. /\ Len(AllInstances) \in Nat
      /\ \A i \in 1 .. Len(AllInstances) : AllInstances[i] \in Instances
      /\ \A d \in 1 .. Len(FunctionDecls) : FunctionDecls[d] \in FuncDecls
  BY StackFacts DEF IInv
<1> DEFINE Twins(i, j) == i < j /\ AllInstances[i].id = AllInstances[j].id
           T == { i \in 1 .. Len(AllInstances) : \E j \in 1 .. Len(AllInstances) : Twins(i, j) }
<1>3. PICK i \in T : \A k \in T : i <= k
  <2>1. a \in T \/ b \in T
    BY <1>2
  <2>2. T \subseteq Nat
    OBVIOUS
  <2> HIDE DEF T
  <2> QED
    BY <2>1, <2>2, LeastNumber
<1>4. PICK j \in 1 .. Len(AllInstances) : i < j /\ AllInstances[i].id = AllInstances[j].id
  BY <1>3
<1>5. i \in 1 .. Len(AllInstances)
  BY <1>3
<1>6. PICK d \in 1 .. Len(FunctionDecls) : d = AllInstances[i].decl
  BY <1>5 DEF IInv, Sized
<1>7. PICK e \in 1 .. Len(FunctionDecls) : e = AllInstances[j].decl
  BY <1>4 DEF IInv, Sized
<1>8. home[d] \in Nat \X Nat /\ home[e] \in Nat \X Nat
  BY <1>1 DEF Homes
<1>pair. \A x \in Nat \X Nat : \E p, q \in Nat : x = << p, q >>
  OBVIOUS
<1>9. PICK p, q \in Nat : home[d] = << p, q >>
  BY <1>8, <1>pair
<1>10. PICK r, s \in Nat : home[e] = << r, s >>
  BY <1>8, <1>pair
<1>11. /\ p < i /\ AllInstances[i].id = HomeName(p) \o << << FunctionDecls[d].id, Cardinality(Earlier(i)) >> >>
       /\ r < j /\ AllInstances[j].id = HomeName(r) \o << << FunctionDecls[e].id, Cardinality(Earlier(j)) >> >>
  <2>1. InstanceNamed(home, i) /\ InstanceNamed(home, j)
    BY <1>1, <1>4, <1>5 DEF Homed
  <2>2. home[d][1] = p /\ home[e][1] = r
    BY <1>9, <1>10
  <2> QED
    BY <1>6, <1>7, <2>1, <2>2 DEF InstanceNamed
<1>12. /\ p # 0 => p \in 1 .. Len(AllInstances) /\ HomeName(p) = AllInstances[p].id /\ HomeName(p) \in AnyId
       /\ r # 0 => r \in 1 .. Len(AllInstances) /\ HomeName(r) = AllInstances[r].id /\ HomeName(r) \in AnyId
       /\ HomeName(0) = << >> /\ HomeName(0) \in AnyId
  <2>1. (p # 0 => p \in 1 .. Len(AllInstances)) /\ (r # 0 => r \in 1 .. Len(AllInstances))
    <3>1. \A m, n \in Nat : \A k \in 1 .. m : n < k /\ n # 0 => n \in 1 .. m
      OBVIOUS
    <3>2. p < i /\ r < j
      BY <1>11
    <3> QED
      BY <1>2, <1>4, <1>5, <3>1, <3>2
  <2>2. HomeName(0) = << >> /\ HomeName(0) \in AnyId
    BY EmptySeq DEF HomeName, AnyId
  <2> QED
    BY <1>2, <2>1, <2>2 DEF HomeName, Instances
<1>13. /\ HomeName(p) = HomeName(r) /\ FunctionDecls[d].id = FunctionDecls[e].id
       /\ Cardinality(Earlier(i)) = Cardinality(Earlier(j))
  <2> DEFINE x == << FunctionDecls[d].id, Cardinality(Earlier(i)) >>
             y == << FunctionDecls[e].id, Cardinality(Earlier(j)) >>
  <2>1. HomeName(p) \in AnyId /\ HomeName(r) \in AnyId /\ HomeName(p) \o << x >> = HomeName(r) \o << y >>
    BY <1>4, <1>11, <1>12
  <2>2. HomeName(p) = HomeName(r) /\ x = y
    <3> HIDE DEF x, y
    <3> QED
      BY <2>1, LastOfName
  <2> QED
    BY <2>2
<1>14. \A m \in 1 .. Len(AllInstances) : AllInstances[m].id # << >>
  <2> TAKE m \in 1 .. Len(AllInstances)
  <2>1. PICK c \in 1 .. Len(FunctionDecls) : c = AllInstances[m].decl
    BY DEF IInv, Sized
  <2>2. PICK n \in Nat : n = home[c][1]
    BY <1>1 DEF Homes
  <2> DEFINE x == << FunctionDecls[c].id, Cardinality(Earlier(m)) >>
  <2>3. n < m /\ AllInstances[m].id = HomeName(n) \o << x >>
    BY <1>1, <2>1, <2>2 DEF Homed, InstanceNamed
  <2>4. HomeName(n) \in AnyId
    <3>1. n # 0 => n \in 1 .. Len(AllInstances)
      BY <1>2, <2>3
    <3> QED
      BY <1>2, <1>12, <3>1 DEF HomeName, Instances
  <2> HIDE DEF x
  <2> DEFINE S == (STRING \X Nat) \cup { x }
  <2>5. HomeName(n) \in Seq(S) /\ << x >> \in Seq(S) /\ Len(<< x >>) = 1 /\ Len(HomeName(n)) \in Nat
    BY <2>4, SeqMonotonic, OneElement, LenProperties DEF AnyId
  <2> HIDE DEF S
  <2>6. Len(HomeName(n) \o << x >>) = Len(HomeName(n)) + 1
    BY <2>5, ConcatProperties
  <2> QED
    BY <2>3, <2>5, <2>6, EmptySeq
<1>15. p = r
  <2>1. CASE p = 0 \/ r = 0
    BY <1>12, <1>13, <1>14, <2>1
  <2>2. CASE p # 0 /\ r # 0 /\ p < r
    <3>1. p \in T
      BY <1>12, <1>13, <2>2
    <3> HIDE DEF T
    <3> QED
      BY <1>3, <1>5, <1>11, <3>1
  <2>3. CASE p # 0 /\ r # 0 /\ r < p
    <3>1. r \in T
      BY <1>12, <1>13, <2>3
    <3> HIDE DEF T
    <3> QED
      BY <1>3, <1>5, <1>11, <2>3, <3>1
  <2> QED
    BY <2>1, <2>2, <2>3
<1>16. q = s
  <2>1. FunctionHomed(home, d) /\ FunctionHomed(home, e)
    BY <1>1 DEF Homed
  <2>2. home[d][1] = p /\ home[d][2] = q /\ home[e][1] = r /\ home[e][2] = s
    BY <1>9, <1>10
  <2>3. CASE p = 0
    BY <1>15, <2>1, <2>2, <2>3 DEF FunctionHomed
  <2>4. CASE p # 0
    <3>1. p \in 1 .. Len(AllInstances)
      BY <1>12, <2>4
    <3>2. PICK c \in 1 .. Len(FunctionDecls) : c = AllInstances[p].decl
      BY <3>1 DEF IInv, Sized
    <3>3. /\ Len(AllInstances[p].frags) <= Len(FunctionDecls[c].frags)
          /\ \A k \in 1 .. Len(AllInstances[p].frags) :
               AllInstances[p].frags[k] = FunctionDecls[c].frags[k]
      BY <1>1, <3>1, <3>2 DEF Homed, InstanceNamed
    <3>4. /\ q \in 1 .. Len(AllInstances[p].frags) /\ s \in 1 .. Len(AllInstances[p].frags)
          /\ FunctionDecls[d].id \in LocalFunctions(AllInstances[p].frags[q])
          /\ FunctionDecls[e].id \in LocalFunctions(AllInstances[p].frags[s])
      BY <1>15, <2>1, <2>2, <2>4 DEF FunctionHomed
    <3>5. Len(AllInstances[p].frags) \in Nat /\ Len(FunctionDecls[c].frags) \in Nat
      BY <1>2, <3>1, LenProperties DEF Instances, FuncDecls
    <3>6. q \in 1 .. Len(FunctionDecls[c].frags) /\ s \in 1 .. Len(FunctionDecls[c].frags)
      <4>1. \A m, n \in Nat : \A k \in 1 .. m : m <= n => k \in 1 .. n
        OBVIOUS
      <4>2. Len(AllInstances[p].frags) <= Len(FunctionDecls[c].frags)
        BY <3>3
      <4> QED
        BY <3>4, <3>5, <4>1, <4>2
    <3>7. LocalFunctions(FunctionDecls[c].frags[q]) \cap LocalFunctions(FunctionDecls[c].frags[s]) # {}
      BY <1>13, <3>3, <3>4
    <3> QED
      BY <3>2, <3>6, <3>7 DEF SeparateLocals
  <2> QED
    BY <2>3, <2>4
<1>17. d = e
  BY <1>1, <1>9, <1>10, <1>13, <1>15, <1>16 DEF Homed
<1> QED
  BY <1>2, <1>4, <1>5, <1>6, <1>7, <1>13, <1>17, FewerBefore

LEMMA ProgramsKept ==
  ASSUME IInv, FunctionDecls' = FunctionDecls, Len(AllInstances') = Len(AllInstances),
         \A i \in 1 .. Len(AllInstances) :
           /\ AllInstances'[i].decl = AllInstances[i].decl
           /\ AllInstances'[i].id = AllInstances[i].id
           /\ AllInstances'[i].frags = AllInstances[i].frags
  PROVE  KeepsPrograms
<1>1. /\ Len(AllInstances) \in Nat /\ Len(FunctionDecls) \in Nat
      /\ \A d \in 1 .. Len(FunctionDecls) : Len(FunctionDecls[d].frags) \in Nat
  BY StackFacts, LenProperties DEF IInv, FuncDecls
<1> QED
  BY <1>1 DEF KeepsPrograms

LEMMA ReturnTypeWritten ==
  ASSUME IInv, FunctionDecls' = FunctionDecls,
         NEW i \in 1 .. Len(AllInstances), NEW k, NEW t,
         AllInstances' = [ AllInstances EXCEPT ![i].ret[k] = t ]
  PROVE  KeepsPrograms /\ Len(AllInstances') = Len(AllInstances)
<1>1. AllInstances \in Seq(Instances) /\ \A j \in 1 .. Len(AllInstances) : AllInstances[j] \in Instances
  BY StackFacts DEF IInv, Typed
<1>2. Len(AllInstances') = Len(AllInstances)
  BY <1>1
<1>4. \A j \in 1 .. Len(AllInstances) :
        AllInstances'[j] = IF j = i THEN [ AllInstances[i] EXCEPT !.ret[k] = t ]
                                    ELSE AllInstances[j]
  BY <1>1
<1> DEFINE new == [ AllInstances[i] EXCEPT !.ret[k] = t ]
<1>5. new.decl = AllInstances[i].decl /\ new.id = AllInstances[i].id /\ new.frags = AllInstances[i].frags
  BY <1>1 DEF Instances
<1>6. \A j \in 1 .. Len(AllInstances) : AllInstances'[j] = IF j = i THEN new ELSE AllInstances[j]
  BY <1>4
<1> HIDE DEF new
<1>3. \A j \in 1 .. Len(AllInstances) :
        /\ AllInstances'[j].decl = AllInstances[j].decl
        /\ AllInstances'[j].id = AllInstances[j].id
        /\ AllInstances'[j].frags = AllInstances[j].frags
  BY <1>5, <1>6
<1> QED
  BY <1>2, <1>3, ProgramsKept

LEMMA ParametersWritten ==
  ASSUME IInv, FunctionDecls' = FunctionDecls,
         NEW i \in 1 .. Len(AllInstances), NEW params,
         AllInstances' = [ AllInstances EXCEPT ![i].params = params ]
  PROVE  KeepsPrograms /\ Len(AllInstances') = Len(AllInstances)
<1>1. AllInstances \in Seq(Instances) /\ \A j \in 1 .. Len(AllInstances) : AllInstances[j] \in Instances
  BY StackFacts DEF IInv, Typed
<1>2. Len(AllInstances') = Len(AllInstances)
  BY <1>1
<1>4. \A j \in 1 .. Len(AllInstances) :
        AllInstances'[j] = IF j = i THEN [ AllInstances[i] EXCEPT !.params = params ]
                                    ELSE AllInstances[j]
  BY <1>1
<1> DEFINE new == [ AllInstances[i] EXCEPT !.params = params ]
<1>5. new.decl = AllInstances[i].decl /\ new.id = AllInstances[i].id /\ new.frags = AllInstances[i].frags
  BY <1>1 DEF Instances
<1> HIDE DEF new
<1>3. \A j \in 1 .. Len(AllInstances) :
        /\ AllInstances'[j].decl = AllInstances[j].decl
        /\ AllInstances'[j].id = AllInstances[j].id
        /\ AllInstances'[j].frags = AllInstances[j].frags
  BY <1>4, <1>5 DEF new
<1> QED
  BY <1>2, <1>3, ProgramsKept

(* A step that does not leave the frame at the top, and declares no        *)
(* function in it.                                                         *)
TopStays(g) ==
  /\ stack' = [ stack EXCEPT ![Len(stack)] = g ]
  /\ g.inst = Top.inst /\ g.frag = Top.frag /\ g.pc # 0
  /\ Top.pc # 0 => DOMAIN Top.decls \subseteq DOMAIN g.decls
  /\ \A x \in DOMAIN g.decls :
       (x \in DOMAIN Top.decls /\ g.decls[x] = Top.decls[x]) \/ \E t : g.decls[x] = Variable(t)

LEMMA TopReplacedAt ==
  ASSUME IInv, NEW g, stack' = [ stack EXCEPT ![Len(stack)] = g ]
  PROVE  /\ Len(stack') = Len(stack)
         /\ \A k \in 1 .. Len(stack) : stack'[k] = IF k = Len(stack) THEN g ELSE stack[k]
<1> DEFINE S == Frames \cup { g }
<1>1. stack \in Seq(S) /\ Len(stack) \in 1 .. Len(stack)
  BY StackFacts, SeqMonotonic DEF IInv, Typed
<1> HIDE DEF S
<1>2. g \in S
  BY DEF S
<1> QED
  BY <1>1, <1>2, ExceptSeq

LEMMA TopKeepsNames ==
  ASSUME IInv, IInv', Named, KeepsPrograms,
         Len(FunctionDecls') = Len(FunctionDecls), Len(AllInstances') = Len(AllInstances),
         NEW g, TopStays(g)
  PROVE  Named'
<1>1. /\ Len(stack') = Len(stack)
      /\ \A k \in 1 .. Len(stack) : stack'[k] = IF k = Len(stack) THEN g ELSE stack[k]
  BY TopReplacedAt DEF TopStays
<1>2. Top = stack[Len(stack)] /\ Len(stack) \in Nat \ { 0 } /\ 1 \in 1 .. Len(stack)
  BY StackFacts DEF IInv, Top
<1>3. ASSUME NEW k \in 1 .. Len(stack), NEW d
      PROVE  stack'[k].inst = stack[k].inst /\ stack'[k].frag = stack[k].frag /\ Stays(k, d)
  <2>1. CASE k = Len(stack)
    <3>1. Declares(k, d)' => Declares(k, d)
      BY <1>1, <1>2, <2>1, DeclarationsAre DEF TopStays, Declares
    <3> QED
      BY <1>1, <1>2, <2>1, <3>1 DEF TopStays, Stays
  <2>2. CASE k # Len(stack)
    <3>1. stack'[k] = stack[k]
      BY <1>1, <2>2
    <3> QED
      BY <3>1 DEF Stays, Declares
  <2> QED
    BY <2>1, <2>2
<1>4. KeepsFrames
  BY <1>1, <1>2, <1>3 DEF KeepsFrames, Settled
<1> QED
  BY <1>4, NamesKept

LEMMA NothingKeepsNames ==
  ASSUME Named, UNCHANGED << stack, FunctionDecls, AllInstances >>
  PROVE  Named'
<1>1. Homes' = Homes
  BY DEF Homes
<1>2. \A p : HomeName(p)' = HomeName(p)
  BY DEF HomeName
<1>3. ASSUME NEW home PROVE Homed(home)' <=> Homed(home)
  <2>1. \A d : FunctionHomed(home, d)' <=> FunctionHomed(home, d)
    BY DEF FunctionHomed, Declares, PlaceOf
  <2>2. ASSUME NEW i PROVE InstanceNamed(home, i)' <=> InstanceNamed(home, i)
    BY DEF InstanceNamed, HomeName, Earlier
  <2> QED
    BY <2>1, <2>2 DEF Homed
<1> QED
  BY <1>1, <1>3 DEF Named

LEMMA StopNames ==
  ASSUME Named, NEW how, Stop(how)
  PROVE  Named'
BY NothingKeepsNames DEF Stop

(* A frame that has used its operands is where it was. *)
HasUsed(g, f) ==
  /\ g.inst = f.inst /\ g.frag = f.frag /\ g.pc = f.pc + 1 /\ g.decls = f.decls
  /\ g.pc # 0 /\ g = [ f EXCEPT !.pc = g.pc, !.operands = g.operands ]

LEMMA UsedStays ==
  ASSUME NEW f \in Frames, NEW n, NEW es
  PROVE  HasUsed(Used(f, n, es), f)
<1>1. f.pc \in Nat
  BY DEF Frames
<1> QED
  BY <1>1 DEF Used, Frames, HasUsed

LEMMA EvalNames ==
  ASSUME IInv, IInv', Named, NEW n, NEW e, Eval(n, e)
  PROVE  Named'
<1> DEFINE g == Used(Top, n, << e >>)
<1>1. Top \in Frames
  BY StackFacts DEF IInv
<1>2. HasUsed(g, Top)
  BY <1>1, UsedStays
<1>3. /\ stack' = [ stack EXCEPT ![Len(stack)] = g ]
      /\ FunctionDecls' = FunctionDecls /\ AllInstances' = AllInstances
  BY DEF Eval, Advance
<1> HIDE DEF g
<1>4. TopStays(g)
  BY <1>2, <1>3 DEF TopStays, HasUsed
<1>5. KeepsPrograms
  BY <1>3, ProgramsKept
<1> QED
  BY <1>3, <1>4, <1>5, TopKeepsNames

LEMMA JudgedNames ==
  ASSUME IInv, IInv', Named,
         NEW ts, NEW crash, NEW valid, NEW n, NEW e, JudgeSpelling(ts, crash, valid, n, e)
  PROVE  Named'
BY JudgeEnds, StopNames, EvalNames

LEMMA StatementNames ==
  ASSUME IInv, IInv', Named, Discard \/ actOnReturnStmt \/ VariableGetsType
  PROVE  Named'
<1> DEFINE u == Used(Top, 1, << >>)
<1>1. Top \in Frames
  BY StackFacts DEF IInv
<1>2. HasUsed(u, Top)
  BY <1>1, UsedStays
<1>3. FunctionDecls' = FunctionDecls /\ AllInstances' = AllInstances
  BY DEF Discard, actOnReturnStmt, VariableGetsType
<1>4. KeepsPrograms
  BY <1>3, ProgramsKept
<1>5. CASE Discard
  <2>1. stack' = [ stack EXCEPT ![Len(stack)] = u ]
    BY <1>5 DEF Discard, Advance
  <2> HIDE DEF u
  <2>2. TopStays(u)
    BY <1>2, <2>1 DEF TopStays, HasUsed
  <2> QED
    BY <1>3, <1>4, <2>2, TopKeepsNames
<1>6. CASE actOnReturnStmt
  <2> DEFINE g == [ u EXCEPT !.rets = Append(@, Operand(1, 1).type) ]
  <2>1. stack' = [ stack EXCEPT ![Len(stack)] = g ]
    BY <1>6 DEF actOnReturnStmt, Advance
  <2> HIDE DEF u
  <2>2. g.inst = u.inst /\ g.frag = u.frag /\ g.decls = u.decls /\ g.pc = u.pc
    BY <1>1, <1>2 DEF Frames, HasUsed
  <2> HIDE DEF g
  <2>3. TopStays(g)
    BY <1>2, <2>1, <2>2 DEF TopStays, HasUsed
  <2> QED
    BY <1>3, <1>4, <2>3, TopKeepsNames
<1>7. CASE VariableGetsType
  <2> DEFINE g == [ u EXCEPT !.decls[Step.id] = Variable(Operand(1, 1).type) ]
  <2>1. stack' = [ stack EXCEPT ![Len(stack)] = g ]
    BY <1>7 DEF VariableGetsType, Advance
  <2> HIDE DEF u
  <2>2. g.inst = u.inst /\ g.frag = u.frag /\ g.pc = u.pc
        /\ g.decls = [ u.decls EXCEPT ![Step.id] = Variable(Operand(1, 1).type) ]
    BY <1>1, <1>2 DEF Frames, HasUsed
  <2>3. DOMAIN g.decls = DOMAIN u.decls
        /\ \A x \in DOMAIN g.decls :
             g.decls[x] = u.decls[x] \/ g.decls[x] = Variable(Operand(1, 1).type)
    <3> DEFINE now == [ u.decls EXCEPT ![Step.id] = Variable(Operand(1, 1).type) ]
    <3>1. PICK ids : u.decls \in [ ids -> Declarations ]
      BY <1>1, <1>2 DEF Frames, HasUsed, Scopes
    <3>2. DOMAIN now = DOMAIN u.decls
          /\ \A x \in DOMAIN now : now[x] = u.decls[x] \/ now[x] = Variable(Operand(1, 1).type)
      BY <3>1
    <3> QED
      BY <2>2, <3>2
  <2> HIDE DEF g
  <2>4. TopStays(g)
    BY <1>2, <2>1, <2>2, <2>3 DEF TopStays, HasUsed
  <2> QED
    BY <1>3, <1>4, <2>4, TopKeepsNames
<1> QED
  BY <1>5, <1>6, <1>7

LEMMA VariableNames == ASSUME IInv, IInv', Named, actOnVariableDecl PROVE Named'
<1>1. CASE Declared(Step.id)
  BY <1>1, StopNames DEF actOnVariableDecl
<1>2. CASE ~Declared(Step.id)
  <2> DEFINE id    == Step.id
             d     == Variable(NoType)
             decls == With(Top.decls, id, d)
             g     == [ Top EXCEPT !.decls = decls, !.pc = @ + 1 ]
  <2>1. CurScope = Len(stack) /\ Top = stack[Len(stack)] /\ Top \in Frames /\ stack \in Seq(Frames)
    BY TopSteps, StackFacts DEF actOnVariableDecl, IInv, Top, Typed
  <2>2. /\ stack' = [ stack EXCEPT ![CurScope].decls = With(@, id, d), ![Len(stack)].pc = @ + 1 ]
        /\ FunctionDecls' = FunctionDecls /\ AllInstances' = AllInstances
    BY <1>2 DEF actOnVariableDecl
  <2>3. stack' = [ stack EXCEPT ![Len(stack)] = g ]
    <3> HIDE DEF id, d
    <3> QED
      BY <2>1, <2>2 DEF Frames
  <2>4. /\ DOMAIN decls = DOMAIN Top.decls \cup { id }
        /\ \A x \in DOMAIN decls :
             (x \in DOMAIN Top.decls /\ decls[x] = Top.decls[x]) \/ decls[x] = d
    BY DEF With
  <2> HIDE DEF decls
  <2>5. g.inst = Top.inst /\ g.frag = Top.frag /\ g.decls = decls /\ g.pc # 0
    BY <2>1 DEF Frames
  <2> HIDE DEF g
  <2>6. TopStays(g)
    BY <2>3, <2>4, <2>5 DEF TopStays
  <2>7. KeepsPrograms
    BY <2>2, ProgramsKept
  <2> QED
    BY <2>2, <2>6, <2>7, TopKeepsNames
<1> QED
  BY <1>1, <1>2

(* A fragment is put behind those its function has. *)
(* A fragment is added to a function, or a function to those there are. *)
LEMMA FragmentAppended ==
  ASSUME IInv, AllInstances' = AllInstances, NEW f \in 1 .. Len(FunctionDecls), NEW s,
         FunctionDecls' = [ FunctionDecls EXCEPT ![f].frags = Append(@, s) ]
  PROVE  KeepsPrograms /\ Len(FunctionDecls') = Len(FunctionDecls)
<1>1. /\ FunctionDecls \in Seq(FuncDecls) /\ Len(FunctionDecls) \in Nat /\ Len(AllInstances) \in Nat
  BY StackFacts DEF IInv, Typed
<1>2. /\ Len(FunctionDecls') = Len(FunctionDecls)
      /\ \A c \in 1 .. Len(FunctionDecls) :
           FunctionDecls'[c] = IF c = f THEN [ FunctionDecls[f] EXCEPT !.frags = Append(@, s) ]
                                        ELSE FunctionDecls[c]
  BY <1>1
<1> DEFINE old == FunctionDecls[f].frags
<1>3. old \in Seq(AllFragments) /\ Len(old) \in Nat
  <2>1. FunctionDecls[f] \in FuncDecls
    BY <1>1, ElementOfSeq
  <2>2. FunctionDecls[f].frags \in Seq(AllFragments)
    BY <2>1 DEF FuncDecls
  <2> QED
    BY <2>2, LenProperties
<1>4. PICK all : all = Append(old, s) /\ Len(all) = Len(old) + 1 /\ \A j \in 1 .. Len(old) : all[j] = old[j]
  <2> DEFINE S == AllFragments \cup { s }
  <2>1. old \in Seq(S) /\ s \in S
    BY <1>3, SeqMonotonic
  <2> HIDE DEF S, old
  <2>2. Len(Append(old, s)) = Len(old) + 1 /\ \A j \in 1 .. Len(old) : Append(old, s)[j] = old[j]
    BY <2>1, AppendProperties
  <2> QED
    BY <2>2
<1>5. ASSUME NEW c \in 1 .. Len(FunctionDecls)
      PROVE  /\ FunctionDecls'[c].id = FunctionDecls[c].id
             /\ FunctionDecls'[c].frags = IF c = f THEN all ELSE FunctionDecls[c].frags
  <2>1. CASE c = f
    <3>1. FunctionDecls'[c] = [ FunctionDecls[f] EXCEPT !.frags = all ]
      BY <1>2, <1>4, <2>1
    <3>2. FunctionDecls[f] \in FuncDecls
      BY StackFacts DEF IInv
    <3> QED
      BY <2>1, <3>1, <3>2 DEF FuncDecls
  <2>2. CASE c # f
    BY <1>2, <2>2
  <2> QED
    BY <2>1, <2>2
<1>6. ASSUME NEW c \in 1 .. Len(FunctionDecls)
      PROVE  /\ FunctionDecls'[c].id = FunctionDecls[c].id
             /\ Len(FunctionDecls[c].frags) <= Len(FunctionDecls'[c].frags)
             /\ \A j \in 1 .. Len(FunctionDecls[c].frags) :
                  FunctionDecls'[c].frags[j] = FunctionDecls[c].frags[j]
  <2>1. CASE c = f
    BY <1>3, <1>4, <1>5, <2>1
  <2>2. CASE c # f
    <3>1. FunctionDecls'[c].frags = FunctionDecls[c].frags
      BY <1>5, <2>2
    <3>2. Len(FunctionDecls[c].frags) \in Nat
      BY StackFacts, LenProperties DEF IInv, FuncDecls
    <3> QED
      BY <1>5, <3>1, <3>2
  <2> QED
    BY <2>1, <2>2
<1> QED
  BY <1>1, <1>2, <1>6 DEF KeepsPrograms

LEMMA FunctionAppended ==
  ASSUME IInv, AllInstances' = AllInstances, NEW new, FunctionDecls' = Append(FunctionDecls, new)
  PROVE  /\ KeepsPrograms
         /\ Len(FunctionDecls') = Len(FunctionDecls) + 1
         /\ \A d \in 1 .. Len(FunctionDecls) : FunctionDecls'[d] = FunctionDecls[d]
         /\ FunctionDecls'[Len(FunctionDecls) + 1] = new
<1>1. /\ FunctionDecls \in Seq(FuncDecls) /\ Len(FunctionDecls) \in Nat /\ Len(AllInstances) \in Nat
      /\ \A d \in 1 .. Len(FunctionDecls) : Len(FunctionDecls[d].frags) \in Nat
  BY StackFacts, LenProperties DEF IInv, Typed, FuncDecls
<1>2. /\ Len(FunctionDecls') = Len(FunctionDecls) + 1
      /\ \A d \in 1 .. Len(FunctionDecls) : FunctionDecls'[d] = FunctionDecls[d]
      /\ FunctionDecls'[Len(FunctionDecls) + 1] = new
  <2> DEFINE S == FuncDecls \cup { new }
  <2>1. FunctionDecls \in Seq(S) /\ new \in S
    BY <1>1, SeqMonotonic
  <2> HIDE DEF S
  <2> QED
    BY <2>1, AppendProperties
<1>3. KeepsPrograms
  BY <1>1, <1>2 DEF KeepsPrograms
<1> QED
  BY <1>2, <1>3

LEMMA AnotherFragmentNames ==
  ASSUME IInv, IInv', Named, actOnFunctionFragment, Declared(Step.id)
  PROVE  Named'
<1> DEFINE d == stack[CurScope].decls[Step.id]
           f == d.fd
           g == Used(Top, 0, << >>)
<1>1. CASE d.kind # "function"
  BY <1>1, StopNames DEF actOnFunctionFragment
<1>2. CASE d.kind = "function"
  <2>1. /\ FunctionDecls' = [ FunctionDecls EXCEPT ![f].frags = Append(@, Step) ]
        /\ stack' = [ stack EXCEPT ![Len(stack)] = g ] /\ AllInstances' = AllInstances
    BY <1>2, Zenon DEF actOnFunctionFragment, Advance
  <2>2. Top \in Frames
    BY StackFacts DEF IInv
  <2>3. HasUsed(g, Top)
    BY <2>2, UsedStays
  <2>4. f \in 1 .. Len(FunctionDecls)
    BY <1>2, StackFacts, DeclaredFunction DEF IInv, Declared
  <2> HIDE DEF d, f, g
  <2>5. TopStays(g)
    BY <2>1, <2>3 DEF TopStays, HasUsed
  <2>6. PICK step : step = Step
    OBVIOUS
  <2>7. KeepsPrograms /\ Len(FunctionDecls') = Len(FunctionDecls)
    BY <2>1, <2>4, <2>6, FragmentAppended, Zenon
  <2> QED
    BY <2>1, <2>5, <2>7, TopKeepsNames
<1> QED
  BY <1>1, <1>2

LEMMA EnterFragmentNames == ASSUME IInv, IInv', Named, EnterFragment PROVE Named'
<1> DEFINE i        == Top.inst
           params   == AllInstances[Top.inst].frags[Top.frag].params
           typed    == [ x \in 1 .. Len(params) |-> IF x <= Len(Top.args) THEN Top.args[x] ELSE NoType ]
           index(p) == CHOOSE x \in 1 .. Len(params) : params[x] = p
           names    == { params[x] : x \in 1 .. Len(params) }
           scope    == [ p \in names |-> Variable(typed[index(p)]) ]
           g        == [ Top EXCEPT !.pc = 1, !.decls = scope ]
<1>1. /\ Top.pc = 0 /\ Len(stack) > 1
      /\ IF Len(Top.args) > Len(params) THEN Stop("crashed")
         ELSE IF Cardinality(names) < Len(params) THEN Stop("rejected")
         ELSE /\ AllInstances' = IF Top.frag = 1 THEN [ AllInstances EXCEPT ![i].params = typed ]
                                                 ELSE AllInstances
              /\ Advance(g)
              /\ CurScope' = Len(stack)
              /\ UNCHANGED << src, FunctionDecls, status >>
  BY Zenon DEF EnterFragment
<1>2. CASE Stop("crashed") \/ Stop("rejected")
  BY <1>2, StopNames
<1>3. CASE ~(Len(Top.args) > Len(params)) /\ ~(Cardinality(names) < Len(params))
  <2>1. /\ AllInstances' = IF Top.frag = 1 THEN [ AllInstances EXCEPT ![i].params = typed ]
                                           ELSE AllInstances
        /\ stack' = [ stack EXCEPT ![Len(stack)] = g ]
        /\ FunctionDecls' = FunctionDecls
    BY <1>1, <1>3, Zenon DEF Advance
  <2>2. \A x \in DOMAIN scope : \E t : scope[x] = Variable(t)
    BY Zenon
  <2>3. Top \in Frames /\ i \in 1 .. Len(AllInstances)
    BY <1>1, BeforeFragment, Zenon
  <2> HIDE DEF scope, typed
  <2>4. g.inst = Top.inst /\ g.frag = Top.frag /\ g.decls = scope /\ g.pc = 1
    BY <2>3 DEF Frames
  <2> HIDE DEF g
  <2>5. TopStays(g)
    BY <1>1, <2>1, <2>2, <2>4 DEF TopStays
  <2>6. KeepsPrograms /\ Len(AllInstances') = Len(AllInstances)
    <3> HIDE DEF i
    <3>1. CASE Top.frag = 1
      BY <2>1, <2>3, <3>1, ParametersWritten
    <3>2. CASE Top.frag # 1
      BY <2>1, <3>2, ProgramsKept
    <3> QED
      BY <3>1, <3>2
  <2> QED
    BY <2>1, <2>5, <2>6, TopKeepsNames
<1> QED
  BY <1>1, <1>2, <1>3, Zenon

LEMMA EnterBodyNames == ASSUME IInv, IInv', Named, EnterBody PROVE Named'
<1> DEFINE i == Top.inst
           k == Top.frag
           g == [ Top EXCEPT !.pc = @ + 1, !.operands = << >> ]
<1>1. /\ stack' = [ stack EXCEPT ![Len(stack)] = g ] /\ FunctionDecls' = FunctionDecls
      /\ \/ AllInstances' = AllInstances
         \/ AllInstances' = [ AllInstances EXCEPT ![i].ret[k] = VoidTy ]
  BY DEF EnterBody, Advance
<1>2. i \in 1 .. Len(AllInstances)
  BY BodyAhead DEF EnterBody
<1>3. KeepsPrograms /\ Len(AllInstances') = Len(AllInstances)
  <2> HIDE DEF i, k
  <2> QED
    BY <1>1, <1>2, ReturnTypeWritten, ProgramsKept
<1>4. Top \in Frames
  BY StackFacts DEF IInv
<1>5. g.inst = Top.inst /\ g.frag = Top.frag /\ g.decls = Top.decls /\ g.pc # 0
  BY <1>4 DEF Frames
<1> HIDE DEF g
<1>6. TopStays(g)
  BY <1>1, <1>5 DEF TopStays
<1> QED
  BY <1>1, <1>3, <1>6, TopKeepsNames

(* The next fragment has a scope of its own, with no function in it yet.   *)
LEMMA NextFragmentNames == ASSUME IInv, IInv', Named, NextFragment PROVE Named'
<1> DEFINE i == Top.inst
           k == Top.frag
           g == Frame(Top.inst, Top.frag + 1, Top.args, Top.prev, Top.back)
<1>1. /\ AllInstances' = [ AllInstances EXCEPT ![i].ret[k] = Deduced ]
      /\ stack' = [ stack EXCEPT ![Len(stack)] = g ]
      /\ FunctionDecls' = FunctionDecls /\ Len(stack) > 1
  BY DEF NextFragment, setReturnType, Advance, AtEnd
<1>2. /\ Top = stack[Len(stack)] /\ Len(stack) \in Nat /\ Top \in Frames
      /\ i \in 1 .. Len(AllInstances)
  BY FragmentEnds DEF NextFragment
<1>3. KeepsPrograms /\ Len(AllInstances') = Len(AllInstances)
  <2> HIDE DEF i, k
  <2> QED
    BY <1>1, <1>2, ReturnTypeWritten
<1>4. g.inst = Top.inst /\ g.frag = Top.frag + 1 /\ g.decls = << >> /\ Top.frag \in Nat
  BY <1>2 DEF Frame, Frames
<1> HIDE DEF g
<1>5. /\ Len(stack') = Len(stack)
      /\ \A m \in 1 .. Len(stack) : stack'[m] = IF m = Len(stack) THEN g ELSE stack[m]
  BY <1>1, TopReplacedAt
<1>6. ASSUME NEW m \in 1 .. Len(stack), NEW d
      PROVE  stack'[m].inst = stack[m].inst /\ (Stays(m, d) \/ MovesOn(m, d))
  <2>1. CASE m = Len(stack)
    <3>1. DOMAIN g.decls = {}
      BY <1>4
    <3>2. ~Declares(m, d)'
      BY <1>5, <2>1, <3>1 DEF Declares
    <3> QED
      BY <1>2, <1>4, <1>5, <2>1, <3>2 DEF MovesOn
  <2>2. CASE m # Len(stack)
    <3>1. stack'[m] = stack[m]
      BY <1>5, <2>2
    <3> QED
      BY <3>1 DEF Stays, Declares
  <2> QED
    BY <2>1, <2>2
<1>7. stack'[1].frag = stack[1].frag
  BY <1>1, <1>2, <1>5
<1>8. KeepsFrames
  BY <1>5, <1>6, <1>7 DEF KeepsFrames, Settled
<1> QED
  BY <1>1, <1>3, <1>8, NamesKept

LEMMA ReturnNames == ASSUME IInv, IInv', Named, ReturnInstance PROVE Named'
<1> DEFINE i == Top.inst
           k == Top.frag
           m == Len(stack) - 1
           f == stack[m]
<1>1. PICK g \in Frames :
        /\ m \in 1 .. Len(stack) /\ m \in Nat /\ m < Len(stack)
        /\ SameFrame(g, f) /\ g.decls = f.decls /\ g.pc = f.pc + 1
        /\ stack' \in Seq(Frames) /\ Len(stack') = m
        /\ \A x \in 1 .. m : stack'[x] = IF x = m THEN g ELSE stack[x]
  BY Returned
<1>2. AllInstances' = [ AllInstances EXCEPT ![i].ret[k] = Deduced ] /\ FunctionDecls' = FunctionDecls
  BY DEF ReturnInstance, setReturnType
<1>3. i \in 1 .. Len(AllInstances) /\ Len(stack) \in Nat
  BY FragmentEnds DEF ReturnInstance
<1>4. KeepsPrograms /\ Len(AllInstances') = Len(AllInstances)
  <2> HIDE DEF i, k
  <2> QED
    BY <1>2, <1>3, ReturnTypeWritten
<1>5. f \in Frames /\ f.pc \in Nat
  BY <1>1, StackFacts DEF IInv, Frames
<1>6. ASSUME NEW x \in 1 .. m, NEW d
      PROVE  x \in 1 .. Len(stack) /\ stack'[x].inst = stack[x].inst /\ Stays(x, d)
  <2>0. x \in 1 .. Len(stack)
    BY <1>1, <1>3
  <2>1. CASE x = m
    <3>1. /\ stack'[x] = g /\ stack[x] = f /\ g.inst = f.inst /\ g.frag = f.frag /\ g.decls = f.decls
          /\ g.pc # 0
      BY <1>1, <1>5, <2>1 DEF SameFrame
    <3> QED
      BY <2>0, <3>1 DEF Stays, Declares
  <2>2. CASE x # m
    <3>1. stack'[x] = stack[x]
      BY <1>1, <2>2
    <3> QED
      BY <2>0, <3>1 DEF Stays, Declares
  <2> QED
    BY <2>1, <2>2
<1>7. stack'[1].frag = stack[1].frag
  <2>1. 1 \in 1 .. m
    BY <1>1
  <2> QED
    BY <1>6, <2>1 DEF Stays
<1>8. KeepsFrames
  BY <1>1, <1>6, <1>7 DEF KeepsFrames, Settled
<1> QED
  BY <1>2, <1>4, <1>8, NamesKept

(* A new instance is named after the home of its function, where the scope *)
(* of the declaration is.                                                  *)
LEMMA StartNames ==
  ASSUME IInv, IInv', Named, NEW op \in { "call", "entry" }, At(op),
         NEW fd \in 1 .. Len(FunctionDecls), NEW s \in 1 .. CurScope, Declares(s, fd), NEW tys,
         NEW new, IsNew(new, fd), NEW c, IsCaller(c), NEW f, IsCallee(f, s, tys), Starts(new, c, f),
         new.id = makeFullScopeName(s)
                    \o << << FunctionDecls[fd].id, Cardinality(InstancesOf(fd)) >> >>
  PROVE  Named'
<1> DEFINE n == Len(AllInstances) + 1
<1>1. /\ Len(stack') = Len(stack) + 1
      /\ \A k \in 1 .. Len(stack) : stack'[k] = IF k = Len(stack) THEN c ELSE stack[k]
      /\ stack'[Len(stack) + 1] = f
      /\ Len(AllInstances') = n
      /\ \A i \in 1 .. Len(AllInstances) : AllInstances'[i] = AllInstances[i]
      /\ AllInstances'[n] = new
  BY StartedStack DEF IsNew, IsCaller, IsCallee, IsFresh
<1>2. /\ Top = stack[Len(stack)] /\ CurScope = Len(stack) /\ Len(stack) \in Nat \ { 0 }
      /\ Len(AllInstances) \in Nat /\ Len(FunctionDecls) \in Nat
      /\ \A d \in 1 .. Len(FunctionDecls) :
           FunctionDecls[d] \in FuncDecls /\ Len(FunctionDecls[d].frags) \in Nat
      /\ \A k \in 1 .. Len(stack) : stack[k].inst \in 0 .. Len(AllInstances)
  BY CallAt, StackFacts, LenProperties DEF IInv, FuncDecls
<1>3. FunctionDecls' = FunctionDecls
  BY DEF Starts
<1>4. KeepsPrograms
  BY <1>1, <1>2, <1>3 DEF KeepsPrograms
<1>5. ASSUME NEW k \in 1 .. Len(stack) + 1, NEW d
      PROVE  \/ /\ k \in 1 .. Len(stack) /\ stack'[k].inst = stack[k].inst
                /\ Stays(k, d) \/ MovesOn(k, d)
             \/ stack'[k].inst > Len(AllInstances) /\ ~Declares(k, d)'
  <2>1. CASE k = Len(stack) + 1
    <3>1. stack'[k] = f /\ f.inst = n /\ DOMAIN f.decls = {}
      BY <1>1, <2>1 DEF IsCallee, IsFresh
    <3> QED
      BY <1>2, <3>1 DEF Declares
  <2>2. CASE k = Len(stack)
    <3>1. stack'[k] = c /\ stack[k] = Top
      BY <1>1, <1>2, <2>2
    <3> QED
      BY <1>2, <2>2, <3>1 DEF IsCaller, SameFrame, Stays, Declares
  <2>3. CASE k \in 1 .. Len(stack) /\ k # Len(stack)
    <3>1. stack'[k] = stack[k]
      BY <1>1, <2>3
    <3> QED
      BY <2>3, <3>1 DEF Stays, Declares
  <2> QED
    BY <1>2, <2>1, <2>2, <2>3
<1>6. stack'[1].frag = stack[1].frag
  <2>1. stack'[1] = IF 1 = Len(stack) THEN c ELSE stack[1]
    BY <1>1, <1>2
  <2> QED
    BY <1>2, <2>1 DEF IsCaller, SameFrame
<1>7. \A d \in 1 .. Len(FunctionDecls) : Settled(d)
  BY <1>1, <1>5 DEF Settled
<1>8. PICK home \in Homes : Homed(home)
  BY DEF Named
<1>9. \A d \in 1 .. Len(FunctionDecls) : home[d] \in Nat \X Nat
  BY DEF Homes
<1>10. \A d \in 1 .. Len(FunctionDecls) : FunctionHomed(home, d)'
  BY <1>4, <1>7, <1>8, <1>9, FunctionStaysHomed DEF Homed
<1>11. \A i \in 1 .. Len(AllInstances) : InstanceNamed(home, i)'
  BY <1>4, <1>8, <1>9, InstanceStaysNamed DEF Homed, IInv
<1>12. ASSUME NEW i, i = n PROVE InstanceNamed(home, i)'
  <2>1. new.decl = fd /\ new.frags = FunctionDecls[fd].frags
    BY DEF IsNew
  <2>2. PICK p \in Nat : p = home[fd][1]
    BY <1>9
  <2>3. p = stack[s].inst
    <3>1. home[fd] = PlaceOf(s)
      BY <1>2, <1>8 DEF Homed, FunctionHomed
    <3> QED
      BY <2>2, <3>1 DEF PlaceOf
  <2>4. p \in 0 .. Len(AllInstances)
    BY <1>2, <2>3
  <2>5. HomeName(p)' = makeFullScopeName(s)
    <3>1. p # 0 => AllInstances'[p] = AllInstances[p]
      BY <1>1, <2>4
    <3> QED
      BY <2>3, <3>1 DEF HomeName, makeFullScopeName
  <2>6. Earlier(i)' = InstancesOf(fd)
    <3>1. AllInstances'[i].decl = fd /\ i - 1 = Len(AllInstances)
      BY <1>1, <1>2, <1>12, <2>1
    <3> QED
      BY <1>1, <3>1 DEF Earlier, InstancesOf
  <2>7. AllInstances'[i] = new
    BY <1>1, <1>12
  <2>8. p < i
    BY <1>2, <1>12, <2>4
  <2>9. new.id = HomeName(p)' \o << << FunctionDecls'[fd].id, Cardinality(Earlier(i)') >> >>
    BY <1>3, <2>5, <2>6
  <2>10. /\ Len(new.frags) <= Len(FunctionDecls'[fd].frags)
         /\ \A j \in 1 .. Len(new.frags) : new.frags[j] = FunctionDecls'[fd].frags[j]
    BY <1>2, <1>3, <2>1
  <2> QED
    BY <2>1, <2>2, <2>7, <2>8, <2>9, <2>10 DEF InstanceNamed
<1>13. \A i \in 1 .. Len(AllInstances') : i \in 1 .. Len(AllInstances) \/ i = n
  BY <1>1, <1>2
<1>14. \A i \in 1 .. Len(AllInstances') : InstanceNamed(home, i)'
  <2> HIDE DEF n
  <2> QED
    BY <1>11, <1>12, <1>13
<1>15. \A d, e \in 1 .. Len(FunctionDecls) :
         home[d] = home[e] /\ FunctionDecls[d].id = FunctionDecls[e].id => d = e
  BY <1>8 DEF Homed
<1>16. Homed(home)'
  BY <1>3, <1>10, <1>14, <1>15 DEF Homed
<1>17. home \in Homes' /\ stack'[1].frag = 1
  BY <1>3, <1>6 DEF Homes, Named
<1> QED
  BY <1>16, <1>17 DEF Named

LEMMA CreateNames ==
  ASSUME IInv, IInv', Named, NEW op \in { "call", "entry" }, At(op), NEW n, n = Arity(Step),
         NEW fd \in 1 .. Len(FunctionDecls), NEW tys \in Seq(AnyType),
         findScopeOfDecl(fd) \in 1 .. CurScope, Declares(findScopeOfDecl(fd), fd),
         CreateInstance(fd, tys, n)
  PROVE  Named'
<1> DEFINE s    == findScopeOfDecl(fd)
           id   == makeFullScopeName(s) \o << << FunctionDecls[fd].id, Cardinality(InstancesOf(fd)) >> >>
           new  == Clone(fd, id)
           c    == [ Top EXCEPT !.operands = SubSeq(@, 1, Len(@) - n) ]
           f    == Frame(Len(AllInstances) + 1, 1, tys, s, CurScope)
<1>1. /\ CurScope = Len(stack) /\ Len(stack) \in 1 .. Len(stack) /\ Len(stack) \in Nat \ { 0 }
      /\ Top = stack[Len(stack)] /\ Len(AllInstances) \in Nat
  BY CallAt, StackFacts DEF IInv
<1>2. s # 0 /\ s \in 1 .. Len(stack) /\ s \in Nat
  BY <1>1
<1>3. CASE Len(stack) = MaxDepth
  <2>1. Stop("overflowed")
    BY <1>2, <1>3 DEF CreateInstance
  <2> QED
    BY <2>1, StopNames
<1>4. CASE Len(stack) # MaxDepth
  <2>1. /\ AllInstances' = Append(AllInstances, new)
        /\ stack' = Append([ stack EXCEPT ![Len(stack)].operands = SubSeq(@, 1, Len(@) - n) ], f)
        /\ UNCHANGED << src, CurScope, FunctionDecls, status >>
    BY <1>2, <1>4 DEF CreateInstance
  <2>2. [ stack EXCEPT ![Len(stack)].operands = SubSeq(@, 1, Len(@) - n) ]
          = [ stack EXCEPT ![Len(stack)] = c ]
    BY <1>1
  <2>3. Starts(new, c, f)
    BY <2>1, <2>2 DEF Starts
  <2>4. IsNew(new, fd) /\ new.id = id
    <3>1. id \in AnyId
      BY <1>2, NewName DEF IInv
    <3> HIDE DEF id
    <3>2. /\ new \in Instances
          /\ new.decl = fd /\ new.frags = FunctionDecls[fd].frags /\ new.frags # << >>
          /\ Len(new.ret) = Len(new.frags) /\ new.ret[1] = NoType
      BY <3>1, NewInstance DEF IInv
    <3>3. new.id = id
      BY DEF Clone
    <3> HIDE DEF new
    <3> QED
      BY <3>2, <3>3 DEF IsNew
  <2>5. IsCaller(c)
    <3>1. /\ c \in Frames /\ SameFrame(c, Top) /\ Waiting(c)
          /\ c.pc = Top.pc /\ c.decls = Top.decls /\ c.rets = Top.rets
      BY CallerWaits
    <3> HIDE DEF c
    <3> QED
      BY <3>1 DEF IsCaller
  <2>6. IsCallee(f, s, tys)
    <3> HIDE DEF s
    <3>1. Len(AllInstances) + 1 \in Nat /\ 1 \in Nat /\ CurScope \in Nat
      BY <1>1
    <3> QED
      BY <1>2, <3>1, NewFrame DEF IsCallee
  <2>7. s \in 1 .. CurScope /\ Declares(s, fd)
    OBVIOUS
  <2> HIDE DEF s, new, c, f
  <2> QED
    BY <2>3, <2>4, <2>5, <2>6, <2>7, StartNames
<1> QED
  BY <1>3, <1>4

LEMMA GetOrCreateNames ==
  ASSUME IInv, IInv', Named, NEW op \in { "call", "entry" }, At(op), NEW n, n = Arity(Step),
         NEW fd \in 1 .. Len(FunctionDecls), NEW tys \in Seq(AnyType),
         findScopeOfDecl(fd) \in 1 .. CurScope, Declares(findScopeOfDecl(fd), fd),
         getOrCreateFunctionInstance(fd, tys, n)
  PROVE  Named'
<1>1. CASE \E i : ReuseInstance(i, n)
  BY <1>1, StopNames, EvalNames DEF ReuseInstance
<1>2. CASE CreateInstance(fd, tys, n)
  BY <1>2, CreateNames
<1> QED
  BY <1>1, <1>2 DEF getOrCreateFunctionInstance

LEMMA CallNames == ASSUME IInv, IInv', Named, CallsOrEnds PROVE Named'
BY StopNames, GetOrCreateNames, Zenon DEF CallsOrEnds

(* The fragment at hand is the text of the frame's own fragment. *)
LEMMA FragmentIsLocal ==
  ASSUME IInv, At("fragment"), Top.inst # 0
  PROVE  Step.id \in LocalFunctions(FragmentOf(Top))
<1> DEFINE d == FragmentOf(Top).domain
           b == FragmentOf(Top).body
<1>1. Top.pc \in 1 .. Len(Code(Top)) /\ Step = Code(Top)[Top.pc] /\ Step.op = "fragment"
  BY DEF At, Step
<1>2. Known(Top)
  BY TopSteps DEF IInv
<1>3. FragmentOf(Top) \in AllFragments
  BY <1>2 DEF Known
<1>4. /\ Len(d) \in Nat /\ Len(b) \in Nat
      /\ Len(Code(Top)) = Len(d) + 1 + Len(b)
      /\ \A i \in 1 .. Len(d) : Code(Top)[i] = d[i]
      /\ Code(Top)[Len(d) + 1] = [ op |-> "body" ]
      /\ \A i \in 1 .. Len(b) : Code(Top)[Len(d) + 1 + i] = b[i]
  BY <1>3, FragmentCode
<1>5. \A i \in 1 .. Len(d) : d[i].op # "fragment"
  BY <1>3, FragmentIsCode
<1> HIDE DEF d, b
<1>6. Top.pc \notin 1 .. Len(d) /\ Top.pc # Len(d) + 1
  <2>1. Top.pc \notin 1 .. Len(d)
    BY <1>1, <1>4, <1>5
  <2>2. [ op |-> "body" ].op # "fragment"
    OBVIOUS
  <2>3. Top.pc # Len(d) + 1
    BY <1>1, <1>4, <2>2
  <2> QED
    BY <2>1, <2>3
<1>7. PICK i \in 1 .. Len(b) : Step = b[i]
  <2>1. ASSUME NEW l \in Nat, NEW m \in Nat, NEW p \in 1 .. l + 1 + m, p \notin 1 .. l, p # l + 1
        PROVE  \E i \in 1 .. m : p = l + 1 + i
    <3>1. p - l - 1 \in 1 .. m /\ p = l + 1 + (p - l - 1)
      BY <2>1
    <3> QED
      BY <3>1
  <2> DEFINE l == Len(d)
             m == Len(b)
             p == Top.pc
  <2>2. l \in Nat /\ m \in Nat /\ p \in 1 .. l + 1 + m /\ p \notin 1 .. l /\ p # l + 1
    BY <1>1, <1>4, <1>6
  <2>3. \A i \in 1 .. m : p = l + 1 + i => Step = b[i]
    BY <1>1, <1>4
  <2> HIDE DEF l, p
  <2>4. PICK i \in 1 .. m : p = l + 1 + i
    <3> HIDE DEF m
    <3> QED
      BY <2>1, <2>2
  <2> QED
    BY <2>3, <2>4
<1> QED
  BY <1>1, <1>7 DEF LocalFunctions, b

LEMMA FirstFragmentNames ==
  ASSUME IInv, IInv', Named, actOnFunctionFragment, ~Declared(Step.id)
  PROVE  Named'
<1> DEFINE id    == Step.id
           n     == Len(FunctionDecls) + 1
           new   == [ id |-> id, frags |-> << Step >> ]
           decls == With(Top.decls, id, Function(n))
           g     == [ Top EXCEPT !.decls = decls, !.pc = @ + 1 ]
           top   == Len(stack)
<1>1. At("fragment")
  BY DEF actOnFunctionFragment
<1>2. /\ FunctionDecls' = Append(FunctionDecls, new)
      /\ stack' = [ stack EXCEPT ![CurScope].decls = With(@, id, Function(n)), ![Len(stack)].pc = @ + 1 ]
      /\ AllInstances' = AllInstances
  BY DEF actOnFunctionFragment
<1>3. /\ CurScope = Len(stack) /\ Top = stack[Len(stack)] /\ Len(stack) \in Nat \ { 0 }
      /\ Len(stack) \in 1 .. Len(stack) /\ Top \in Frames /\ stack \in Seq(Frames)
      /\ Len(AllInstances) \in Nat /\ Len(FunctionDecls) \in Nat
      /\ Step \in AllFragments /\ FunctionDecls \in Seq(FuncDecls)
      /\ \A d \in 1 .. Len(FunctionDecls) : Len(FunctionDecls[d].frags) \in Nat
      /\ \A k \in 1 .. Len(stack) : stack[k] \in Frames /\ stack[k].inst \in 0 .. Len(AllInstances)
  BY <1>1, FragmentAt, StackFacts, LenProperties DEF IInv, Typed, FuncDecls
<1>4. stack' = [ stack EXCEPT ![Len(stack)] = g ]
  <2> HIDE DEF id, n
  <2> QED
    BY <1>2, <1>3 DEF Frames
<1>5. DOMAIN decls = DOMAIN Top.decls \cup { id } /\ decls[id] = Function(n)
      /\ \A x \in DOMAIN decls : x = id \/ (x \in DOMAIN Top.decls /\ decls[x] = Top.decls[x])
  BY DEF With
<1> HIDE DEF decls
<1>6. g.inst = Top.inst /\ g.frag = Top.frag /\ g.decls = decls /\ g.pc # 0
  <2>1. Top \in Frames
    BY <1>3
  <2>2. Top.pc \in Nat
    BY <2>1 DEF Frames
  <2>3. g.inst = Top.inst /\ g.frag = Top.frag /\ g.decls = decls /\ g.pc = Top.pc + 1
    <3>1. PICK t \in Frames : t = Top
      BY <2>1
    <3>2. LET h == [ t EXCEPT !.decls = decls, !.pc = @ + 1 ]
          IN  h.inst = t.inst /\ h.frag = t.frag /\ h.decls = decls /\ h.pc = t.pc + 1
      BY DEF Frames
    <3> QED
      BY <3>1, <3>2
  <2> HIDE DEF g
  <2> QED
    BY <2>2, <2>3
<1> HIDE DEF g, new
<1>7. /\ KeepsPrograms
      /\ Len(FunctionDecls') = n
      /\ \A d \in 1 .. Len(FunctionDecls) : FunctionDecls'[d] = FunctionDecls[d]
      /\ FunctionDecls'[n] = new
  BY <1>2, FunctionAppended
<1>8. new.id = id
  BY DEF new
<1> HIDE DEF id
<1>10. /\ Len(stack') = Len(stack)
       /\ \A k \in 1 .. Len(stack) : stack'[k] = IF k = top THEN g ELSE stack[k]
  BY <1>4, TopReplacedAt
<1>11. ASSUME NEW k \in 1 .. Len(stack), NEW d, Declares(k, d)'
       PROVE  Declares(k, d) \/ (d = n /\ k = top)
  <2>1. CASE k = top
    <3>1. PICK x \in DOMAIN g.decls : g.decls[x] = Function(d)
      BY <1>10, <1>11, <2>1 DEF Declares
    <3>2. CASE x = id
      BY <1>5, <1>6, <2>1, <3>1, <3>2, DeclarationsAre
    <3>3. CASE x # id
      BY <1>3, <1>5, <1>6, <2>1, <3>1, <3>3 DEF Declares
    <3> QED
      BY <3>2, <3>3
  <2>2. CASE k # top
    BY <1>10, <1>11, <2>2 DEF Declares
  <2> QED
    BY <2>1, <2>2
<1>12. ASSUME NEW d \in 1 .. Len(FunctionDecls) PROVE Settled(d)
  <2>1. ASSUME NEW k \in 1 .. Len(stack) PROVE stack'[k].inst = stack[k].inst /\ Stays(k, d)
    <3>1. Declares(k, d)' => Declares(k, d)
      BY <1>3, <1>11
    <3>2. CASE k = top
      BY <1>3, <1>5, <1>6, <1>10, <3>1, <3>2 DEF Stays
    <3>3. CASE k # top
      <4>1. stack'[k] = stack[k]
        BY <1>10, <3>3
      <4> QED
        BY <3>1, <4>1 DEF Stays
    <3> QED
      BY <3>2, <3>3
  <2> QED
    BY <1>10, <2>1 DEF Settled
<1>13. PICK home \in Homes : Homed(home)
  BY DEF Named
<1>14. \A d \in 1 .. Len(FunctionDecls) : home[d] \in Nat \X Nat
  BY DEF Homes
<1> DEFINE place == PlaceOf(top)
           now == [ d \in 1 .. n |-> IF d = n THEN place ELSE home[d] ]
<1>15. place = << Top.inst, Top.frag >> /\ place \in Nat \X Nat
  BY <1>3 DEF PlaceOf, Frames
<1> HIDE DEF place
<1>16. /\ \A d \in 1 .. Len(FunctionDecls) : now[d] = home[d] /\ now[d] \in Nat \X Nat
       /\ now[n] = place /\ now \in [ 1 .. n -> Nat \X Nat ]
  <2>1. \A d \in 1 .. n : d = n \/ d \in 1 .. Len(FunctionDecls)
    BY <1>3
  <2>2. \A d \in 1 .. Len(FunctionDecls) : d \in 1 .. n /\ d # n
    BY <1>3
  <2>3. n \in 1 .. n
    BY <1>3
  <2> HIDE DEF n
  <2> QED
    BY <1>14, <1>15, <2>1, <2>2, <2>3
<1> HIDE DEF now
<1>17. PICK h : h = now
  OBVIOUS
<1>18. ASSUME NEW d \in 1 .. Len(FunctionDecls) PROVE FunctionHomed(h, d)'
  <2>1. FunctionHomed(home, d)
    BY <1>13 DEF Homed
  <2>2. FunctionHomed(h, d)
    <3>1. h[d] = home[d]
      BY <1>16, <1>17
    <3> QED
      BY <2>1, <3>1 DEF FunctionHomed
  <2>3. h[d] \in Nat \X Nat
    BY <1>16, <1>17
  <2> QED
    BY <1>7, <1>12, <2>2, <2>3, FunctionStaysHomed
<1>19. \A k \in 1 .. Len(stack) : k # top => stack[k].inst # Top.inst
  <2> SUFFICES ASSUME NEW k \in 1 .. Len(stack), k # top PROVE stack[k].inst # Top.inst
    OBVIOUS
  <2>1. Placed(Len(stack))
    BY <1>3 DEF IInv, Stacked
  <2>2. k \in 1 .. Len(stack) - 1
    BY <1>3
  <2> QED
    BY <1>3, <2>1, <2>2 DEF Placed
<1>20. ASSUME NEW d, d = n PROVE FunctionHomed(h, d)'
  <2>1. h[d] = << Top.inst, Top.frag >> /\ h[d][1] = Top.inst /\ h[d][2] = Top.frag
    BY <1>15, <1>16, <1>17, <1>20
  <2>2. PICK p \in Nat, q \in Nat : p = Top.inst /\ q = Top.frag
    BY <1>3 DEF Frames
  <2>3. FunctionDecls'[d].id = id
    BY <1>7, <1>8, <1>20
  <2>4. p <= Len(AllInstances)
    BY <1>3, <2>2
  <2>5. p = 0 => q = 1
    <3>1. Placed(Len(stack))
      BY <1>3 DEF IInv, Stacked
    <3> QED
      BY <1>3, <2>2, <3>1 DEF Placed, Named
  <2>6. p # 0 => q \in 1 .. Len(AllInstances[p].frags) /\ id \in LocalFunctions(AllInstances[p].frags[q])
    <3> SUFFICES ASSUME p # 0
                 PROVE  q \in 1 .. Len(AllInstances[p].frags) /\ id \in LocalFunctions(AllInstances[p].frags[q])
      OBVIOUS
    <3>1. Placed(Len(stack))
      BY <1>3 DEF IInv, Stacked
    <3>2. Len(stack) > 1
      BY <1>3, <2>2, <3>1 DEF Placed
    <3>3. q \in 1 .. Len(AllInstances[p].frags)
      BY <1>3, <2>2, <3>1, <3>2 DEF Placed
    <3>4. id \in LocalFunctions(FragmentOf(Top))
      BY <1>1, <2>2, FragmentIsLocal DEF id
    <3> QED
      BY <2>2, <3>3, <3>4 DEF FragmentOf
  <2>7. ASSUME NEW k \in 1 .. Len(stack')
        PROVE  /\ Declares(k, d)' => h[d] = << stack'[k].inst, stack'[k].frag >>
               /\ h[d] = << stack'[k].inst, stack'[k].frag >> =>
                    stack'[k].pc # 0 /\ id \in DOMAIN stack'[k].decls
               /\ p = stack'[k].inst => q <= stack'[k].frag
    <3>1. k \in 1 .. Len(stack)
      BY <1>10
    <3>2. CASE k = top
      BY <1>3, <1>5, <1>6, <1>10, <2>1, <2>2, <3>1, <3>2
    <3>3. CASE k # top
      <4>1. stack'[k] = stack[k] /\ stack[k].inst # Top.inst
        BY <1>10, <1>19, <3>1, <3>3
      <4>2. ~Declares(k, d)'
        <5>1. d \notin 1 .. Len(FunctionDecls) /\ d \in Nat
          BY <1>3, <1>20
        <5>2. ~Declares(k, d)
          BY <3>1, <5>1 DEF IInv, Lexical, FunctionsPlaced
        <5> QED
          BY <1>11, <3>1, <3>3, <5>2
      <4> QED
        BY <2>1, <2>2, <4>1, <4>2
    <3> QED
      BY <3>2, <3>3
  <2>8. h[d][1] = p /\ h[d][2] = q
    BY <2>1, <2>2
  <2> QED
    BY <1>2, <2>3, <2>4, <2>5, <2>6, <2>7, <2>8 DEF FunctionHomed, PlaceOf
<1>21. \A d \in 1 .. Len(FunctionDecls') : d \in 1 .. Len(FunctionDecls) \/ d = n
  BY <1>3, <1>7
<1>22. \A d \in 1 .. Len(FunctionDecls') : FunctionHomed(h, d)'
  <2> HIDE DEF n
  <2> QED
    BY <1>18, <1>20, <1>21
<1>23. ASSUME NEW e \in 1 .. Len(FunctionDecls), home[e] = place, FunctionDecls[e].id = id
       PROVE  FALSE
  <2>1. FunctionHomed(home, e)
    BY <1>13 DEF Homed
  <2>2. id \in DOMAIN stack[top].decls
    BY <1>3, <1>23, <2>1 DEF FunctionHomed, place
  <2> QED
    BY <1>3, <2>2 DEF Declared, id
<1>24. \A d, e \in 1 .. Len(FunctionDecls') :
         h[d] = h[e] /\ FunctionDecls'[d].id = FunctionDecls'[e].id => d = e
  <2> TAKE d, e \in 1 .. Len(FunctionDecls')
  <2>1. CASE d \in 1 .. Len(FunctionDecls) /\ e \in 1 .. Len(FunctionDecls)
    BY <1>7, <1>13, <1>16, <1>17, <2>1 DEF Homed
  <2>2. CASE d = n /\ e \in 1 .. Len(FunctionDecls)
    BY <1>7, <1>8, <1>16, <1>17, <1>23, <2>2
  <2>3. CASE d \in 1 .. Len(FunctionDecls) /\ e = n
    BY <1>7, <1>8, <1>16, <1>17, <1>23, <2>3
  <2>4. CASE d = n /\ e = n
    BY <2>4
  <2> QED
    BY <1>21, <2>1, <2>2, <2>3, <2>4
<1>25. \A i \in 1 .. Len(AllInstances') : InstanceNamed(h, i)'
  <2> SUFFICES ASSUME NEW i \in 1 .. Len(AllInstances) PROVE InstanceNamed(h, i)'
    BY <1>2
  <2>1. InstanceNamed(home, i)
    BY <1>13 DEF Homed
  <2>2. \A d \in 1 .. Len(FunctionDecls) : h[d] = home[d] /\ home[d] \in Nat \X Nat
    BY <1>14, <1>16, <1>17
  <2> QED
    BY <1>7, <2>1, <2>2, InstanceStaysNamed DEF IInv
<1>26. Homed(h)'
  BY <1>22, <1>24, <1>25 DEF Homed
<1>27. h \in Homes'
  BY <1>7, <1>16, <1>17 DEF Homes
<1>28. stack'[1].frag = 1
  <2>1. stack'[1] = IF 1 = top THEN g ELSE stack[1]
    BY <1>3, <1>10
  <2> QED
    BY <1>3, <1>6, <2>1 DEF Named
<1> QED
  BY <1>26, <1>27, <1>28 DEF Named

LEMMA StepKeepsNames == ASSUME IInv, IInv', Named, [Next]_vars PROVE Named'
<1>1. CASE Analysed \/ UNCHANGED vars
  BY <1>1, NothingKeepsNames DEF Analysed, vars
<1>2. CASE actOnVariableDecl
  BY <1>2, VariableNames
<1>3. CASE actOnFunctionFragment
  <2>1. CASE Declared(Step.id)
    BY <1>3, <2>1, AnotherFragmentNames
  <2>2. CASE ~Declared(Step.id)
    BY <1>3, <2>2, FirstFragmentNames
  <2> QED
    BY <2>1, <2>2
<1>4. CASE VariableGetsType \/ actOnReturnStmt \/ Discard
  BY <1>4, StatementNames
<1>5. CASE Literal \/ actOnIdentifier \/ CallPrint
  <2>1. (\E how : Stop(how)) \/ (\E n, e : Eval(n, e))
    BY <1>5 DEF Literal, actOnIdentifier, CallPrint
  <2> QED
    BY <2>1, StopNames, EvalNames
<1>6. CASE actOnBinaryOperator \/ actOnUnaryOperator \/ actOnArraySubscriptExpr \/ Cast
           \/ CallArray \/ CallAlloca \/ CallExtern \/ CallFunctionType \/ CallExpression
  BY <1>6, JudgedNames
     DEF Judge, actOnBinaryOperator, actOnUnaryOperator, actOnArraySubscriptExpr, Cast,
         CallArray, CallAlloca, CallExtern, CallFunctionType, CallExpression
<1>7. CASE actOnFunctionCall \/ createEntryPoint
  BY <1>7, FunctionCallOutcome, EntryPointOutcome, CallNames
<1>8. CASE EnterFragment \/ EnterBody
  BY <1>8, EnterFragmentNames, EnterBodyNames
<1>9. CASE NextFragment \/ ReturnInstance
  BY <1>9, NextFragmentNames, ReturnNames
<1>10. CASE MismatchingReturns \/ MismatchingFragments \/ Accept
  <2>1. \E how : Stop(how)
    BY <1>10, RejectStops DEF MismatchingReturns, MismatchingFragments, Accept
  <2> QED
    BY <2>1, StopNames
<1> QED
  BY <1>1, <1>2, <1>3, <1>4, <1>5, <1>6, <1>7, <1>8, <1>9, <1>10 DEF Next, Walk

LEMMA InitNames == ASSUME Init, IInv PROVE Named
<1>1. /\ Len(FunctionDecls) = 0 /\ Len(AllInstances) = 0
      /\ FunctionDecls = << >> /\ AllInstances = << >>
  BY EmptySeq DEF Init
<1>2. stack[1].frag = 1
  <2>1. Placed(1) /\ stack[1] \in Frames
    BY StackFacts DEF IInv, Stacked
  <2> QED
    BY <2>1 DEF Init, Frame
<1>3. PICK home : home = [ d \in 1 .. Len(FunctionDecls) |-> << 0, 1 >> ]
  OBVIOUS
<1>4. home \in Homes
  BY <1>3 DEF Homes
<1>5. Homed(home)
  BY <1>1 DEF Homed
<1> QED
  BY <1>2, <1>4, <1>5 DEF Named

(* Every function has a home and every instance is named after it, in      *)
(* every program.                                                          *)
THEOREM NameInvariance == Spec => [](IInv /\ Named)
<1>1. Init => IInv /\ Named
  BY InitIInv, InitNames
<1>2. IInv /\ Named /\ [Next]_vars => IInv' /\ Named'
  BY StepKeepsIInv, StepKeepsNames
<1> QED
  BY <1>1, <1>2, PTL DEF Spec

(* No two instances of one module have the same name, when no two          *)
(* fragments of a function have local functions of the same name: the name *)
(* says where the function is and which of its instances it is.            *)
THEOREM NamesDistinct == Spec => []IdsDistinct
<1>1. IInv /\ Named => IdsDistinct
  BY NamesDiffer
<1> QED
  BY <1>1, NameInvariance, PTL

-----------------------------------------------------------------------------
(* Programs of the core                                                    *)

AllTyped(types) == \A i \in 1 .. Len(types) : types[i] # NoType

(* Whatever a frame holds has a type, its instance has a parameter for each*)
(* argument, and so far one return type in all its fragments, the one a    *)
(* return statement gave it or void.                                       *)
Passed(f) == \E i \in 1 .. f.pc - 1 : Code(f)[i].op = "return"
FrameTyped(f) ==
  /\ \A i \in 1 .. Len(f.operands) : f.operands[i].type # NoType
  /\ AllTyped(f.args) /\ AllTyped(f.rets)
FrameReturns(f) ==
  /\ Passed(f) => f.rets # << >>
  /\ InBody(f) /\ ~Returns(FragmentOf(f)) => AllInstances[f.inst].ret[f.frag] = VoidTy
  /\ \A j \in 1 .. f.frag - 1 :
       AllInstances[f.inst].ret[j] # NoType /\ AllInstances[f.inst].ret[j] = getReturnType(f.inst)
FrameTakes(f) ==
  /\ \A j \in 1 .. Len(AllInstances[f.inst].frags) :
       Len(AllInstances[f.inst].frags[j].params) = Len(f.args)
  /\ f.pc # 0 \/ f.frag # 1 => AllTyped(AllInstances[f.inst].params)
FrameSound(f) == FrameTyped(f) /\ (f.inst # 0 => FrameReturns(f) /\ FrameTakes(f))

(* A name stands for the function it is the name of.                       *)
Labelled(f) ==
  \A x \in DOMAIN f.decls : \A d \in Nat :
    f.decls[x] = Function(d) => d \in 1 .. Len(FunctionDecls) /\ FunctionDecls[d].id = x

(* A variable without a type is one whose initializer is analysed now: it  *)
(* gets its type at step n, and there is neither a call before nor a use.  *)
Untyped(f, x) == f.decls[x] = Variable(NoType)
Between(s, x) ==
  IsExpression(s.op) /\ s.op \notin { "call", "entry" } /\ (s.op = "identifier" => s.id # x)
TypedAt(f, p, x, n) ==
  /\ Code(f)[n].op = "init" /\ Code(f)[n].id = x
  /\ \A j \in p .. n - 1 : Between(Code(f)[j], x)
UnderWay(f, p, x) == \E n \in p .. Len(Code(f)) : TypedAt(f, p, x, n)
AllSettled(f) == \A x \in DOMAIN f.decls : ~Untyped(f, x)

(* What a literal leaves is there at the next step.                        *)
LiteralLeft(f) ==
  f.pc > 1 /\ Code(f)[f.pc - 1].op = "literal" =>
    f.operands # << >> /\ f.operands[Len(f.operands)].type = Code(f)[f.pc - 1].type
TopSound(f) ==
  (\A x \in DOMAIN f.decls : Untyped(f, x) => UnderWay(f, f.pc, x)) /\ LiteralLeft(f)

(* An instance nobody works at is complete.                                *)
Complete(i) ==
  /\ AllTyped(AllInstances[i].params)
  /\ \A j \in 1 .. Len(AllInstances[i].ret) :
       AllInstances[i].ret[j] # NoType /\ AllInstances[i].ret[j] = getReturnType(i)

Sound ==
  /\ \A k \in 1 .. Len(stack) : FrameSound(stack[k]) /\ Labelled(stack[k])
  /\ \A k \in 1 .. Len(stack) - 1 : AllSettled(stack[k])
  /\ TopSound(Top)
  /\ \A i \in 1 .. Len(AllInstances) :
       (\A k \in 1 .. Len(stack) : stack[k].inst # i) => Complete(i)

-----------------------------------------------------------------------------
(* Code that is reached                                                    *)

LEMMA FragmentReached ==
  ASSUME NEW i \in 1 .. Len(AllInstances), NEW k \in 1 .. Len(AllInstances[i].frags)
  PROVE  AllInstances[i].frags[k].domain \in Reached /\ AllInstances[i].frags[k].body \in Reached
<1> DEFINE F(j) == { AllInstances[j].frags[m] : m \in 1 .. Len(AllInstances[j].frags) }
           C(j) == UNION { { f.domain, f.body } : f \in F(j) }
<1>1. AllInstances[i].frags[k] \in F(i)
  OBVIOUS
<1>2. AllInstances[i].frags[k].domain \in C(i) /\ AllInstances[i].frags[k].body \in C(i)
  BY <1>1
<1>3. Reached = { src } \cup UNION { C(j) : j \in 1 .. Len(AllInstances) }
  BY DEF Reached
<1> HIDE DEF C
<1> QED
  BY <1>2, <1>3

(* A step of a frame is one of the code it comes from.                     *)
IsFrom(f, p, c, o, i) ==
  /\ c \in Codes /\ c \in Reached /\ o \in Nat /\ i \in 1 .. Len(c) /\ p = o + i
  /\ \A j \in 1 .. Len(c) : o + j \in 1 .. Len(Code(f)) /\ Code(f)[o + j] = c[j]

LEMMA StepIsFrom ==
  ASSUME IInv, NEW op, At(op), op \notin { "entry", "body" }
  PROVE  \E c, o, i : IsFrom(Top, Top.pc, c, o, i) /\ c[i] = Step
<1> DEFINE p == Top.pc
<1>1. /\ p \in 1 .. Len(Code(Top)) /\ Step = Code(Top)[p] /\ Step.op = op /\ Known(Top)
      /\ Top = stack[Len(stack)] /\ Len(stack) \in 1 .. Len(stack)
      /\ Top \in Frames /\ src \in Sources
  BY TopSteps, StackFacts DEF IInv, At, Step, Top, Typed
<1> HIDE DEF p
<1>2. CASE Top.inst = 0
  <2>1. /\ Len(Code(Top)) = Len(src) + 1 /\ Len(src) \in Nat
        /\ \A i \in 1 .. Len(src) : Code(Top)[i] = src[i]
        /\ Code(Top)[Len(src) + 1] = [ op |-> "entry" ]
    BY <1>1, <1>2, SourceCode
  <2>2. [ op |-> "entry" ].op = "entry"
    OBVIOUS
  <2>3. p \in 1 .. Len(src)
    <3>1. p # Len(src) + 1
      BY <1>1, <2>1, <2>2
    <3> QED
      BY <1>1, <2>1, <3>1
  <2>4. src \in Codes /\ src \in Reached
    BY <1>1 DEF Codes, Reached
  <2>5. IsFrom(Top, p, src, 0, p)
    BY <2>1, <2>3, <2>4 DEF IsFrom
  <2> QED
    BY <1>1, <2>1, <2>3, <2>5 DEF p
<1>3. CASE Top.inst # 0
  <2> DEFINE f == FragmentOf(Top)
             d == f.domain
             b == f.body
  <2>1. FragmentOf(Top) \in AllFragments
    BY <1>1, <1>3 DEF Known
  <2>2. /\ Len(d) \in Nat /\ Len(b) \in Nat
        /\ Len(Code(Top)) = Len(d) + 1 + Len(b)
        /\ \A i \in 1 .. Len(d) : Code(Top)[i] = d[i]
        /\ Code(Top)[Len(d) + 1] = [ op |-> "body" ]
        /\ \A i \in 1 .. Len(b) : Code(Top)[Len(d) + 1 + i] = b[i]
    BY <1>3, <2>1, FragmentCode
  <2>3. d \in Codes /\ b \in Codes
    BY <2>1, FragmentIsCode
  <2>4. d \in Reached /\ b \in Reached
    <3>1. Placed(Len(stack)) /\ Top.inst \in 0 .. Len(AllInstances)
      BY <1>1, StackFacts DEF IInv, Stacked
    <3>2. Len(stack) > 1
      <4>1. Len(stack) \in Nat \ { 0 }
        BY StackFacts DEF IInv
      <4>2. Len(stack) # 1
        BY <1>1, <1>3, <3>1 DEF Placed
      <4>3. PICK h : h = Len(stack)
        OBVIOUS
      <4>4. h \in Nat \ { 0 } /\ h # 1
        BY <4>1, <4>2, <4>3
      <4>5. h > 1
        BY <4>4
      <4> QED
        BY <4>3, <4>5
    <3>3. Top.inst \in 1 .. Len(AllInstances) /\ Top.frag \in 1 .. Len(AllInstances[Top.inst].frags)
      BY <1>1, <1>3, <3>1, <3>2 DEF Placed
    <3> QED
      BY <3>3, FragmentReached DEF FragmentOf
  <2> HIDE DEF f, d, b
  <2>5. CASE p \in 1 .. Len(d)
    <3>1. IsFrom(Top, p, d, 0, p)
      BY <2>2, <2>3, <2>4, <2>5 DEF IsFrom
    <3> QED
      BY <1>1, <2>2, <2>5, <3>1 DEF p
  <2>6. CASE p \notin 1 .. Len(d)
    <3>1. [ op |-> "body" ].op = "body"
      OBVIOUS
    <3>2. p # Len(d) + 1
      BY <1>1, <2>2, <3>1
    <3>3. PICK o \in Nat, n \in Nat : o = Len(d) + 1 /\ n = Len(b)
      BY <2>2
    <3>4. p \in 1 .. o + n /\ p \notin 1 .. o
      BY <1>1, <2>2, <2>6, <3>2, <3>3
    <3>5. PICK i \in 1 .. n : p = o + i
      <4>1. p - o \in 1 .. n /\ p = o + (p - o)
        BY <3>4
      <4> QED
        BY <4>1
    <3>6. \A j \in 1 .. n : o + j \in 1 .. Len(Code(Top)) /\ Code(Top)[o + j] = b[j]
      <4>1. \A j \in 1 .. n : o + j \in 1 .. o + n
        OBVIOUS
      <4>2. Len(Code(Top)) = o + n
        BY <2>2, <3>3
      <4> QED
        BY <2>2, <3>3, <4>1, <4>2
    <3>7. IsFrom(Top, p, b, o, i)
      BY <2>3, <2>4, <3>3, <3>5, <3>6 DEF IsFrom
    <3>8. b[i] = Step
      BY <1>1, <3>5, <3>6
    <3> QED
      BY <3>7, <3>8 DEF p
  <2> QED
    BY <2>5, <2>6
<1> QED
  BY <1>2, <1>3

(* What is known of a step of a program of the core.                       *)
TakesAll(s) ==
  \A d \in 1 .. Len(FunctionDecls) : FunctionDecls[d].id = s.id =>
    \A k \in 1 .. Len(FunctionDecls[d].frags) : Len(FunctionDecls[d].frags[k].params) = s.n
InitializedFrom(f, p) ==
  \E n \in p + 1 .. Len(Code(f)) : TypedAt(f, p + 1, Code(f)[p].id, n)
CastsLiteral(f, p) ==
  /\ p > 1 /\ Code(f)[p].n = 1
  /\ Code(f)[p - 1].op = "literal" /\ isBuiltinType(Code(f)[p - 1].type)

LEMMA CoreStep ==
  ASSUME IInv, InCore, NEW op, At(op), op \notin { "entry", "body" }
  PROVE  /\ op \in CoreOps
         /\ op = "call" => TakesAll(Step)
         /\ op = "cast" => CastsLiteral(Top, Top.pc)
         /\ op = "let" => InitializedFrom(Top, Top.pc)
<1> DEFINE p == Top.pc
<1>1. PICK c, o, i : IsFrom(Top, p, c, o, i) /\ c[i] = Step
  BY StepIsFrom
<1>2. /\ c \in Codes /\ c \in Reached /\ o \in Nat /\ i \in 1 .. Len(c) /\ p = o + i
      /\ \A j \in 1 .. Len(c) : o + j \in 1 .. Len(Code(Top)) /\ Code(Top)[o + j] = c[j]
  BY <1>1 DEF IsFrom
<1>3. CoreCode(c) /\ Step.op = op
  BY <1>2 DEF InCore, At
<1>4. /\ Len(c) \in Nat /\ WellFormed(c[i])
      /\ Height(c)[1] = 0 /\ Height(c)[i] >= Arity(c[i])
  BY <1>2, CodeIsSequence
<1>5. op \in CoreOps /\ (op = "call" => TakesAll(Step))
  BY <1>1, <1>2, <1>3 DEF CoreCode, TakesAll
<1>6. ASSUME op = "cast" PROVE CastsLiteral(Top, Top.pc)
  <2>1. c[i].n = 1 /\ c[i - 1].op = "literal" /\ isBuiltinType(c[i - 1].type)
    BY <1>1, <1>2, <1>3, <1>6 DEF CoreCode
  <2>2. i # 1
    <3>1. Arity(c[i]) = 1
      BY <1>1, <1>3, <1>6, <2>1 DEF Arity
    <3>2. ~(0 >= 1)
      OBVIOUS
    <3> QED
      BY <1>4, <3>1, <3>2
  <2>3. i - 1 \in 1 .. Len(c) /\ i \in Nat
    BY <1>2, <1>4, <2>2
  <2>4. o + (i - 1) = p - 1 /\ p > 1
    BY <1>2, <2>3
  <2>5. Code(Top)[p] = c[i] /\ Code(Top)[p - 1] = c[i - 1]
    BY <1>2, <2>3, <2>4
  <2> QED
    BY <2>1, <2>4, <2>5 DEF CastsLiteral
<1>7. ASSUME op = "let" PROVE InitializedFrom(Top, Top.pc)
  <2>1. PICK n \in i + 1 .. Len(c) : InitializedAt(c, i, n)
    <3>1. c[i].op = "let"
      BY <1>1, <1>3, <1>7
    <3> QED
      BY <1>2, <3>1, SourceAssumption, Zenon
  <2>2. /\ c[n].op = "init" /\ c[n].id = c[i].id
        /\ \A j \in i + 1 .. n - 1 : IsExpression(c[j].op)
    BY <2>1 DEF InitializedAt
  <2>3. n \in 1 .. Len(c) /\ i \in Nat /\ n \in Nat
    BY <1>2, <1>4, <2>1
  <2>4. \A j \in i + 1 .. n - 1 : j \in 1 .. Len(c) /\ i < j /\ j < n
    BY <1>4, <2>1, <2>3
  <2>5. \A j \in i + 1 .. n - 1 : c[j].op \in CoreOps /\ c[j].op # "call"
                                  /\ (c[j].op = "identifier" => c[j].id # c[i].id)
    BY <1>1, <1>2, <1>3, <1>7, <2>2, <2>3, <2>4 DEF CoreCode
  <2>6. \A j \in i + 1 .. n - 1 : Between(c[j], c[i].id)
    <3>1. "entry" \notin CoreOps
      BY DEF CoreOps
    <3> QED
      BY <2>2, <2>5, <3>1 DEF Between
  <2>7. PICK m \in Nat : m = o + n
    BY <1>2, <2>3
  <2>8. Code(Top)[m] = c[n] /\ m \in p + 1 .. Len(Code(Top)) /\ Code(Top)[p] = c[i]
    <3>1. m \in 1 .. Len(Code(Top)) /\ Code(Top)[m] = c[n] /\ Code(Top)[p] = c[i]
      BY <1>2, <2>3, <2>7
    <3>2. m >= p + 1 /\ p + 1 \in Int
      BY <1>2, <2>1, <2>3, <2>7
    <3>3. \A l : m \in 1 .. l /\ m >= p + 1 /\ p + 1 \in Int => m \in p + 1 .. l
      BY <2>7
    <3> QED
      BY <3>1, <3>2, <3>3
  <2>9. ASSUME NEW j \in p + 1 .. m - 1 PROVE Between(Code(Top)[j], c[i].id)
    <3>1. PICK q : q = j - o
      OBVIOUS
    <3>2. q \in i + 1 .. n - 1 /\ o + q = j
      BY <1>2, <2>3, <2>7, <2>9, <3>1
    <3>3. Code(Top)[j] = c[q]
      BY <1>2, <2>4, <3>2
    <3> QED
      BY <2>6, <3>2, <3>3
  <2>10. TypedAt(Top, p + 1, Code(Top)[p].id, m)
    BY <2>2, <2>8, <2>9 DEF TypedAt
  <2> QED
    BY <2>8, <2>10 DEF InitializedFrom
<1> QED
  BY <1>5, <1>6, <1>7

-----------------------------------------------------------------------------
(* A program that is of the core was so before.                            *)

LEMMA CoreKept ==
  ASSUME KeepsPrograms, src' = src, InCore',
         Len(AllInstances) \in Nat, Len(AllInstances') \in Nat,
         Len(FunctionDecls) \in Nat, Len(FunctionDecls') \in Nat,
         \A d \in 1 .. Len(FunctionDecls) :
           Len(FunctionDecls[d].frags) \in Nat /\ Len(FunctionDecls'[d].frags) \in Nat
  PROVE  InCore
<1>1. \A i \in 1 .. Len(AllInstances) :
        i \in 1 .. Len(AllInstances') /\ AllInstances'[i].frags = AllInstances[i].frags
  BY DEF KeepsPrograms
<1>2. \A d \in 1 .. Len(FunctionDecls) :
        /\ d \in 1 .. Len(FunctionDecls') /\ FunctionDecls'[d].id = FunctionDecls[d].id
        /\ \A j \in 1 .. Len(FunctionDecls[d].frags) :
             /\ j \in 1 .. Len(FunctionDecls'[d].frags)
             /\ FunctionDecls'[d].frags[j] = FunctionDecls[d].frags[j]
  BY DEF KeepsPrograms
<1>3. MainHasNoParams
  BY <1>2 DEF InCore, MainHasNoParams
<1>4. Reached \subseteq Reached'
  <2> DEFINE F(fs) == UNION { { f.domain, f.body } : f \in { fs[k] : k \in 1 .. Len(fs) } }
  <2>1. /\ Reached = { src } \cup UNION { F(AllInstances[i].frags) : i \in 1 .. Len(AllInstances) }
        /\ Reached' = { src } \cup UNION { F(AllInstances'[i].frags) : i \in 1 .. Len(AllInstances') }
    BY DEF Reached
  <2> HIDE DEF F
  <2> QED
    BY <1>1, <2>1
<1>5. ASSUME NEW s \in Reached PROVE CoreCode(s)
  <2>1. CoreCode(s)'
    BY <1>4 DEF InCore
  <2>2. \A i \in 1 .. Len(s) :
          s[i].op = "call" =>
            \A d \in 1 .. Len(FunctionDecls) :
              FunctionDecls[d].id = s[i].id =>
                \A k \in 1 .. Len(FunctionDecls[d].frags) :
                  Len(FunctionDecls[d].frags[k].params) = s[i].n
    <3> SUFFICES ASSUME NEW i \in 1 .. Len(s), s[i].op = "call",
                        NEW d \in 1 .. Len(FunctionDecls), FunctionDecls[d].id = s[i].id,
                        NEW k \in 1 .. Len(FunctionDecls[d].frags)
                 PROVE  Len(FunctionDecls[d].frags[k].params) = s[i].n
      OBVIOUS
    <3>1. \A e \in 1 .. Len(FunctionDecls') :
            FunctionDecls'[e].id = s[i].id =>
              \A j \in 1 .. Len(FunctionDecls'[e].frags) :
                Len(FunctionDecls'[e].frags[j].params) = s[i].n
      BY <2>1 DEF CoreCode
    <3>2. /\ d \in 1 .. Len(FunctionDecls') /\ FunctionDecls'[d].id = s[i].id
          /\ k \in 1 .. Len(FunctionDecls'[d].frags)
          /\ FunctionDecls'[d].frags[k] = FunctionDecls[d].frags[k]
      BY <1>2
    <3>3. Len(FunctionDecls'[d].frags[k].params) = s[i].n
      BY <3>1, <3>2
    <3> QED
      BY <3>2, <3>3
  <2>3. \A i \in 1 .. Len(s) :
          /\ s[i].op \in CoreOps
          /\ s[i].op = "cast" =>
               s[i].n = 1 /\ s[i - 1].op = "literal" /\ isBuiltinType(s[i - 1].type)
    BY <2>1 DEF CoreCode
  <2>4. \A i, j, k \in 1 .. Len(s) :
          i < j /\ j < k /\ s[i].op = "let" /\ s[k].op = "init" /\ s[i].id = s[k].id
            => s[j].op # "call" /\ (s[j].op = "identifier" => s[j].id # s[i].id)
    BY <2>1 DEF CoreCode
  <2> QED
    BY <2>2, <2>3, <2>4 DEF CoreCode
<1> QED
  BY <1>3, <1>5 DEF InCore

-----------------------------------------------------------------------------
(* Steps of the frame at the top.                                          *)

(* What is known of an instance, and what a step leaves alone.             *)
SameInstance(i) ==
  AllInstances'[i].ret = AllInstances[i].ret /\ AllInstances'[i].params = AllInstances[i].params
KeepsIds ==
  /\ Len(FunctionDecls) <= Len(FunctionDecls') /\ Len(FunctionDecls') \in Nat
  /\ \A d \in 1 .. Len(FunctionDecls) : FunctionDecls'[d].id = FunctionDecls[d].id

LEMMA FrameKept ==
  ASSUME IInv, SameCodes, NEW f \in Frames, f.inst \in 0 .. Len(AllInstances), f.inst # 0 => SameInstance(f.inst)
  PROVE  /\ FrameSound(f)' <=> FrameSound(f)
         /\ TopSound(f)' <=> TopSound(f)
<1>1. Len(AllInstances) \in Nat
  BY StackFacts DEF IInv
<1>2. /\ Code(f)' = Code(f)
      /\ f.inst # 0 => FragmentOf(f)' = FragmentOf(f) /\ (InBody(f)' <=> InBody(f))
                       /\ (Returns(FragmentOf(f))' <=> Returns(FragmentOf(f)))
  BY <1>1, CodesKept
<1>3. TopSound(f)' <=> TopSound(f)
  BY <1>2 DEF TopSound, UnderWay, TypedAt, LiteralLeft, Untyped
<1>4. FrameTyped(f)' <=> FrameTyped(f)
  BY DEF FrameTyped, AllTyped
<1>5. ASSUME f.inst # 0
      PROVE  /\ FrameReturns(f)' <=> FrameReturns(f)
             /\ FrameTakes(f)' <=> FrameTakes(f)
  <2>1. /\ AllInstances'[f.inst].frags = AllInstances[f.inst].frags
        /\ AllInstances'[f.inst].ret = AllInstances[f.inst].ret
        /\ AllInstances'[f.inst].params = AllInstances[f.inst].params
    BY <1>1, <1>5 DEF SameCodes, SameInstance
  <2>2. Passed(f)' <=> Passed(f)
    BY <1>2 DEF Passed
  <2>3. FrameReturns(f)' <=> FrameReturns(f)
    BY <1>2, <1>5, <2>1, <2>2 DEF FrameReturns, getReturnType
  <2>4. FrameTakes(f)' <=> FrameTakes(f)
    BY <2>1 DEF FrameTakes, AllTyped
  <2> QED
    BY <2>3, <2>4
<1> QED
  BY <1>3, <1>4, <1>5 DEF FrameSound

LEMMA LabelsKept ==
  ASSUME KeepsIds, Len(FunctionDecls) \in Nat, NEW f, Labelled(f)
  PROVE  Labelled(f)'
BY DEF KeepsIds, Labelled

(* The frame at the top goes on, and with it only its instance.            *)
LEMMA TopGoesOn ==
  ASSUME IInv, Sound, SameCodes, Len(AllInstances') = Len(AllInstances), KeepsIds,
         NEW g, stack' = [ stack EXCEPT ![Len(stack)] = g ], g.inst = Top.inst,
         \A i \in 1 .. Len(AllInstances) : i # Top.inst => SameInstance(i),
         FrameSound(g)', TopSound(g)', Labelled(g)'
  PROVE  Sound'
<1>1. /\ Len(stack') = Len(stack)
      /\ \A k \in 1 .. Len(stack) : stack'[k] = IF k = Len(stack) THEN g ELSE stack[k]
  BY TopReplacedAt
<1>2. /\ Len(stack) \in Nat \ { 0 } /\ Len(stack) \in 1 .. Len(stack) /\ Top = stack[Len(stack)]
      /\ Len(AllInstances) \in Nat /\ Len(FunctionDecls) \in Nat
      /\ \A k \in 1 .. Len(stack) : stack[k] \in Frames /\ stack[k].inst \in 0 .. Len(AllInstances)
  BY StackFacts DEF IInv, Top
<1>3. ASSUME NEW k \in 1 .. Len(stack) PROVE FrameSound(stack[k])' /\ Labelled(stack[k])'
  <2>1. CASE k = Len(stack)
    BY <1>1, <2>1
  <2>2. CASE k # Len(stack)
    <3>1. Placed(Len(stack)) /\ k \in 1 .. Len(stack) - 1
      BY <1>2, <2>2 DEF IInv, Stacked
    <3>2. stack[k].inst # Top.inst
      BY <1>2, <3>1 DEF Placed
    <3>3. stack[k].inst # 0 => SameInstance(stack[k].inst)
      BY <1>2, <3>2
    <3>4. FrameSound(stack[k]) /\ Labelled(stack[k])
      BY DEF Sound
    <3>5. FrameSound(stack[k])'
      BY <1>2, <3>3, <3>4, FrameKept
    <3>6. Labelled(stack[k])'
      BY <1>2, <3>4, LabelsKept
    <3> QED
      BY <1>1, <2>2, <3>5, <3>6, Zenon
  <2> QED
    BY <2>1, <2>2
<1>4. \A k \in 1 .. Len(stack) - 1 : stack'[k] = stack[k] /\ AllSettled(stack[k])
  <2>1. \A k \in 1 .. Len(stack) - 1 : k \in 1 .. Len(stack) /\ k # Len(stack)
    BY <1>2
  <2> QED
    BY <1>1, <2>1, Zenon DEF Sound
<1>5. ASSUME NEW i \in 1 .. Len(AllInstances), \A k \in 1 .. Len(stack) : stack'[k].inst # i
      PROVE  Complete(i)'
  <2>1. \A k \in 1 .. Len(stack) : stack[k].inst # i
    BY <1>1, <1>2, <1>5, Zenon
  <2>2. i # Top.inst /\ Complete(i)
    BY <1>2, <2>1 DEF Sound
  <2> QED
    BY <2>2 DEF Complete, SameInstance, AllTyped, getReturnType
<1>6. Top' = g
  BY <1>1, <1>2 DEF Top
<1>7. \A k \in 1 .. Len(stack') - 1 : AllSettled(stack[k])'
  <2> SUFFICES ASSUME NEW k \in 1 .. Len(stack) - 1 PROVE AllSettled(stack[k])'
    BY <1>1, Zenon
  <2>1. stack'[k] = stack[k] /\ AllSettled(stack[k])
    BY <1>4
  <2> QED
    BY <2>1 DEF AllSettled, Untyped
<1>8. \A k \in 1 .. Len(stack') : FrameSound(stack[k])' /\ Labelled(stack[k])'
  BY <1>1, <1>3, Zenon
<1>9. \A i \in 1 .. Len(AllInstances') :
       (\A k \in 1 .. Len(stack') : stack'[k].inst # i) => Complete(i)'
  BY <1>1, <1>5, Zenon
<1> QED
  BY <1>6, <1>7, <1>8, <1>9 DEF Sound

(* A step inside a body or a domain. *)
LEMMA StepGoesOn ==
  ASSUME IInv, Sound, NEW op, At(op), op # "body",
         UNCHANGED << src, AllInstances >>, KeepsIds,
         NEW g \in Frames, stack' = [ stack EXCEPT ![Len(stack)] = g ],
         SameFrame(g, Top), g.pc = Top.pc + 1,
         FrameTyped(g), Top.rets # << >> \/ op = "return" => g.rets # << >>,
         TopSound(g), Labelled(g)'
  PROVE  Sound'
<1>1. /\ Len(stack) \in 1 .. Len(stack) /\ Top = stack[Len(stack)] /\ Len(AllInstances) \in Nat
      /\ Top.inst \in 0 .. Len(AllInstances) /\ Top \in Frames
      /\ FrameSound(Top)
  BY StackFacts DEF IInv, Top, Sound
<1>2. g.inst = Top.inst /\ g.frag = Top.frag /\ g.args = Top.args
  BY DEF SameFrame
<1>3. /\ Code(g) = Code(Top) /\ Top.pc \in Nat \ { 0 }
      /\ Top.inst # 0 => (InBody(g) <=> InBody(Top))
      /\ Step = Code(Top)[Top.pc] /\ Step.op = op
  BY <1>2, TopSteps DEF IInv, At, Step
<1>4. SameCodes /\ \A i \in 1 .. Len(AllInstances) : SameInstance(i)
  BY <1>1 DEF SameCodes, SameInstance
<1>5. ASSUME g.inst # 0 PROVE FrameReturns(g) /\ FrameTakes(g)
  <2>1. FrameReturns(Top) /\ FrameTakes(Top)
    BY <1>1, <1>2, <1>5 DEF FrameSound
  <2>2. Passed(g) => Passed(Top) \/ op = "return"
    <3>1. g.pc - 1 = Top.pc
      BY <1>3
    <3>2. \A i \in 1 .. Top.pc : i \in 1 .. Top.pc - 1 \/ i = Top.pc
      BY <1>3
    <3> QED
      BY <1>3, <3>1, <3>2 DEF Passed
  <2>3. FragmentOf(g) = FragmentOf(Top)
    BY <1>2 DEF FragmentOf
  <2>4. FrameReturns(g)
    BY <1>2, <1>3, <1>5, <2>1, <2>2, <2>3 DEF FrameReturns
  <2>5. FrameTakes(g)
    BY <1>2, <1>3, <2>1 DEF FrameTakes
  <2> QED
    BY <2>4, <2>5
<1>6. FrameSound(g)
  BY <1>5 DEF FrameSound
<1>7. FrameSound(g)' /\ TopSound(g)'
  BY <1>1, <1>2, <1>4, <1>6, FrameKept
<1> QED
  BY <1>2, <1>4, <1>7, TopGoesOn

(* How a step of a program of the core may end: it goes on, or the analysis*)
(* stops without a null type having been used.                             *)
Harmless == Rejections \cup { "overflowed", "broken" }
CoreOutcome ==
  \/ status' = "running" /\ Sound'
  \/ \E how \in Harmless : Stop(how)
  \/ Stop("crashed") /\ ~ \A s \in Reached : CallsFunctions(s)
  \/ Stop("accepted") /\ \A i \in 1 .. Len(AllInstances) : Complete(i)

LEMMA CodeLength ==
  ASSUME NEW f, Known(f)
  PROVE  Code(f) \in Seq(AnyStep) /\ Len(Code(f)) \in Nat
<1>1. CASE f.inst = 0
  BY <1>1, SourceCode, LenProperties DEF Known
<1>2. CASE f.inst # 0
  BY <1>2, FragmentCode, LenProperties DEF Known
<1> QED
  BY <1>1, <1>2

(* The initializer of x goes on. *)
LEMMA StillUnderWay ==
  ASSUME NEW f, NEW g, f.pc \in Nat, Len(Code(f)) \in Nat, Code(g) = Code(f), g.pc = f.pc + 1,
         NEW x, UnderWay(f, f.pc, x), Code(f)[f.pc].op # "init" \/ Code(f)[f.pc].id # x
  PROVE  UnderWay(g, g.pc, x)
<1>1. PICK n \in f.pc .. Len(Code(f)) : TypedAt(f, f.pc, x, n)
  BY DEF UnderWay
<1>2. /\ Code(f)[n].op = "init" /\ Code(f)[n].id = x
      /\ \A j \in f.pc .. n - 1 : Between(Code(f)[j], x)
  BY <1>1 DEF TypedAt
<1>3. PICK p \in Nat, l \in Nat : p = f.pc /\ l = Len(Code(f))
  OBVIOUS
<1>4. n # p /\ n \in p .. l
  BY <1>1, <1>2, <1>3
<1>5. n \in p + 1 .. l /\ \A j \in p + 1 .. n - 1 : j \in p .. n - 1
  BY <1>4
<1>6. \A j \in p + 1 .. n - 1 : Between(Code(g)[j], x)
  BY <1>2, <1>3, <1>5
<1>7. TypedAt(g, p + 1, x, n)
  BY <1>2, <1>6 DEF TypedAt
<1> QED
  BY <1>3, <1>5, <1>7 DEF UnderWay

(* The operands after a step have types, and the last is what it left. *)
AllOfType(es) == \A i \in 1 .. Len(es) : es[i].type # NoType

LEMMA OperandsLeft ==
  ASSUME NEW f \in Frames, NEW n \in Nat, n <= Len(f.operands)
  PROVE  LET rest == SubSeq(f.operands, 1, Len(f.operands) - n) IN
         /\ rest \in Seq(Exprs) /\ Len(rest) = Len(f.operands) - n /\ Len(f.operands) - n \in Nat
         /\ AllOfType(f.operands) => AllOfType(rest)
<1>1. f.operands \in Seq(Exprs) /\ Len(f.operands) \in Nat
  BY LenProperties DEF Frames
<1>2. PICK m \in Nat : m = Len(f.operands) - n /\ m <= Len(f.operands)
  <2>1. PICK l \in Nat : l = Len(f.operands)
    BY <1>1
  <2>2. l - n \in Nat /\ l - n <= l
    BY <2>1
  <2> QED
    BY <2>1, <2>2
<1>3. PICK rest : rest = SubSeq(f.operands, 1, m)
  OBVIOUS
<1>4. /\ rest \in Seq(Exprs) /\ Len(rest) = m
      /\ \A i \in 1 .. m : i \in 1 .. Len(f.operands) /\ rest[i] = f.operands[i]
  <2>1. \A i \in 1 .. m : f.operands[i] \in Exprs /\ i \in 1 .. Len(f.operands)
    BY <1>1, <1>2, ElementOfSeq
  <2>2. /\ SubSeq(f.operands, 1, m) \in Seq(Exprs)
        /\ Len(SubSeq(f.operands, 1, m)) = IF 1 <= m THEN m - 1 + 1 ELSE 0
        /\ \A i \in 1 .. m - 1 + 1 : SubSeq(f.operands, 1, m)[i] = f.operands[1 + i - 1]
    BY <1>2, <2>1, SubSeqProperties
  <2>3. Len(rest) = m
    BY <1>2, <1>3, <2>2
  <2>4. \A i \in 1 .. m : i \in 1 .. m - 1 + 1 /\ 1 + i - 1 = i
    BY <1>2
  <2> QED
    BY <1>3, <2>1, <2>2, <2>3, <2>4
<1>5. AllOfType(f.operands) => AllOfType(rest)
  BY <1>4 DEF AllOfType
<1> QED
  BY <1>2, <1>3, <1>4, <1>5

LEMMA OperandsAfter ==
  ASSUME NEW f \in Frames, NEW n \in Nat, n <= Len(f.operands), NEW es \in Seq(Exprs),
         AllOfType(f.operands), AllOfType(es)
  PROVE  LET now == Used(f, n, es).operands IN
         /\ AllOfType(now)
         /\ Len(es) = 1 => now # << >> /\ now[Len(now)] = es[1]
<1> DEFINE rest == SubSeq(f.operands, 1, Len(f.operands) - n)
           now  == Used(f, n, es).operands
<1>1. rest \in Seq(Exprs) /\ Len(rest) = Len(f.operands) - n /\ AllOfType(rest)
  BY OperandsLeft
<1>2. PICK m \in Nat : m = Len(rest)
  BY <1>1, LenProperties
<1>3. Len(rest) = m
  BY <1>2
<1>4. now = rest \o es
  BY DEF Used, Frames
<1> HIDE DEF rest, now
<1>5. Len(es) \in Nat
  BY LenProperties
<1>6. /\ now \in Seq(Exprs) /\ Len(now) = m + Len(es)
      /\ \A i \in 1 .. m + Len(es) : now[i] = IF i <= m THEN rest[i] ELSE es[i - m]
  <2>1. /\ rest \o es \in Seq(Exprs) /\ Len(rest \o es) = Len(rest) + Len(es)
        /\ \A i \in 1 .. Len(rest) + Len(es) : (rest \o es)[i] = IF i <= Len(rest) THEN rest[i] ELSE es[i - Len(rest)]
    BY <1>1, ConcatProperties
  <2> QED
    BY <1>3, <1>4, <2>1
<1>7. ASSUME NEW i \in 1 .. Len(now) PROVE now[i].type # NoType
  <2>1. CASE i <= m
    <3>1. PICK l \in Nat : l = Len(es)
      BY <1>5
    <3>2. i \in 1 .. m + l /\ i \in 1 .. m
      BY <1>6, <2>1, <3>1
    <3>3. now[i] = rest[i]
      BY <1>6, <2>1, <3>1, <3>2
    <3> QED
      BY <1>1, <1>3, <3>2, <3>3 DEF AllOfType
  <2>2. CASE ~(i <= m)
    <3>1. PICK l \in Nat : l = Len(es)
      BY <1>5
    <3>2. i \in 1 .. m + l /\ i - m \in 1 .. l
      BY <1>2, <1>6, <2>2, <3>1
    <3>3. i - m \in 1 .. Len(es) /\ now[i] = es[i - m]
      BY <1>6, <2>2, <3>1, <3>2
    <3> QED
      BY <3>3 DEF AllOfType
  <2> QED
    BY <2>1, <2>2
<1>8. ASSUME Len(es) = 1 PROVE now # << >> /\ now[Len(now)] = es[1]
  <2>1. m + 1 \in 1 .. m + 1 /\ ~(m + 1 <= m) /\ m + 1 - m = 1 /\ m + 1 # 0
    OBVIOUS
  <2>2. Len(now) = m + 1 /\ now[m + 1] = es[1]
    BY <1>6, <1>8, <2>1
  <2>3. now # << >>
    <3>1. Len(<< >>) = 0
      OBVIOUS
    <3> QED
      BY <2>1, <2>2, <3>1
  <2> QED
    BY <2>2, <2>3
<1>9. AllOfType(now)
  BY <1>7 DEF AllOfType
<1> QED
  BY <1>8, <1>9 DEF now

LEMMA EvalSound ==
  ASSUME IInv, Sound, NEW op, At(op), op \notin { "let", "init", "fragment", "return", "discard", "body" },
         NEW n, n = Arity(Step), NEW e \in Exprs, e.type # NoType, Eval(n, e),
         op = "literal" => e.type = Step.type
  PROVE  CoreOutcome
<1>0. PICK g : g = Used(Top, n, << e >>)
  OBVIOUS
<1>1. /\ Top \in Frames /\ n \in Nat /\ n <= Len(Top.operands)
      /\ << e >> \in Seq(Exprs) /\ Len(<< e >>) = 1 /\ << e >>[1] = e
  BY OperandsThere, OneElement
<1>2. /\ g \in Frames /\ SameFrame(g, Top)
      /\ g.pc = Top.pc + 1 /\ g.decls = Top.decls /\ g.rets = Top.rets
  BY <1>0, <1>1, UsedFrame
<1>3. /\ FrameSound(Top) /\ TopSound(Top) /\ Labelled(Top)
      /\ Len(FunctionDecls) \in Nat
  BY StackFacts DEF IInv, Sound, Top
<1>4. AllOfType(Top.operands) /\ AllOfType(<< e >>)
  BY <1>1, <1>3 DEF FrameSound, FrameTyped, AllOfType
<1>5. AllOfType(g.operands) /\ g.operands # << >> /\ g.operands[Len(g.operands)] = e
  BY <1>0, <1>1, <1>4, OperandsAfter
<1>6. /\ stack' = [ stack EXCEPT ![Len(stack)] = g ]
      /\ UNCHANGED << src, CurScope, FunctionDecls, AllInstances, status >>
  BY <1>0 DEF Eval, Advance
<1>7. /\ Code(g) = Code(Top) /\ Top.pc \in Nat \ { 0 } /\ Known(Top)
      /\ Step = Code(Top)[Top.pc] /\ Step.op = op
  BY <1>2, TopSteps DEF IInv, At, Step, SameFrame
<1>8. FrameTyped(g)
  BY <1>2, <1>3, <1>5 DEF FrameSound, FrameTyped, AllOfType, SameFrame
<1>9. TopSound(g)
  <2>1. ASSUME NEW x \in DOMAIN g.decls, Untyped(g, x) PROVE UnderWay(g, g.pc, x)
    <3>1. UnderWay(Top, Top.pc, x)
      BY <1>2, <1>3, <2>1 DEF TopSound, Untyped
    <3> QED
      BY <1>2, <1>7, <3>1, CodeLength, StillUnderWay
  <2>2. LiteralLeft(g)
    <3>1. g.pc - 1 = Top.pc
      BY <1>2, <1>7
    <3> QED
      BY <1>5, <1>7, <3>1 DEF LiteralLeft
  <2> QED
    BY <2>1, <2>2 DEF TopSound
<1>10. KeepsIds
  BY <1>3, <1>6 DEF KeepsIds
<1>11. Labelled(g)'
  <2>1. Labelled(g)
    BY <1>2, <1>3 DEF Labelled
  <2> QED
    BY <1>3, <1>10, <2>1, LabelsKept
<1>12. Sound'
  BY <1>2, <1>6, <1>8, <1>9, <1>10, <1>11, StepGoesOn
<1> QED
  BY <1>6, <1>12 DEF CoreOutcome, At

LEMMA JudgeSound ==
  ASSUME IInv, Sound, NEW op, At(op),
         op \notin { "let", "init", "fragment", "return", "discard", "body", "literal" },
         NEW ts, NEW crash, NEW valid, NEW n, NEW e,
         JudgeSpelling(ts, crash, valid, n, e),
         ~crash, NoType \notin ts,
         valid => n = Arity(Step) /\ e \in Exprs /\ e.type # NoType
  PROVE  CoreOutcome
<1>1. CASE valid
  BY <1>1, EvalSound DEF JudgeSpelling
<1>2. CASE ~valid
  BY <1>2 DEF JudgeSpelling, Reject, CoreOutcome, Harmless, Rejections
<1> QED
  BY <1>1, <1>2

-----------------------------------------------------------------------------
(* Expressions                                                             *)

LEMMA TypesNamed ==
  /\ VoidTy # NoType /\ BoolTy # NoType /\ IntTy # NoType /\ UintTy # NoType
  /\ StringTy # NoType /\ MetaTy # NoType
  /\ \A t : isBuiltinType(t) => t # NoType
  /\ \A t \in AnyType : FunctionType(t) # NoType
<1>1. \A w : << w >> # << >>
  <2> SUFFICES ASSUME NEW w PROVE << w >> # << >>
    OBVIOUS
  <2>1. Len(<< w >>) = 1 /\ Len(<< >>) = 0
    OBVIOUS
  <2> QED
    BY <2>1
<1>2. /\ VoidTy # NoType /\ BoolTy # NoType /\ IntTy # NoType /\ UintTy # NoType
      /\ StringTy # NoType /\ MetaTy # NoType
  BY <1>1 DEF VoidTy, BoolTy, IntTy, UintTy, StringTy, MetaTy, NoType
<1>3. \A t : isBuiltinType(t) => t # NoType
  BY <1>2 DEF isBuiltinType
<1>4. ASSUME NEW t \in AnyType PROVE FunctionType(t) # NoType
  <2>1. "function" \in Words
    BY DEF Words
  <2>2. Len(FunctionType(t)) = Len(t) + 1 /\ Len(t) \in Nat
    BY <2>1, Joined DEF FunctionType
  <2>3. Len(NoType) = 0
    BY DEF NoType
  <2> QED
    BY <2>2, <2>3
<1> QED
  BY <1>2, <1>3, <1>4

LEMMA OperandTyped ==
  ASSUME Sound, IInv, NEW n \in Nat, n <= Len(Top.operands), NEW i \in 1 .. n
  PROVE  Operand(i, n).type \in AnyType /\ Operand(i, n).type # NoType
<1>1. FrameTyped(Top) /\ Top \in Frames
  BY StackFacts DEF IInv, Sound, FrameSound, Top
<1>2. Top.operands \in Seq(Exprs) /\ Len(Top.operands) \in Nat
  BY <1>1, LenProperties DEF Frames
<1>3. Len(Top.operands) - n + i \in 1 .. Len(Top.operands)
  BY <1>2
<1> QED
  BY <1>1, <1>3, OperandIs DEF FrameTyped, Operand

LEMMA LiteralSound == ASSUME IInv, InCore, Sound, Literal PROVE CoreOutcome
<1>1. At("literal") /\ Eval(0, Constexpr(Step.type, Step.value))
  BY DEF Literal
<1>2. Step.op = "literal" /\ WellFormed(Step)
  BY <1>1, OperandsThere
<1>3. Arity(Step) = 0
  BY <1>2 DEF Arity
<1>4. Constexpr(Step.type, Step.value) \in Exprs
  BY <1>2, Expressions, WrittenTypes
<1>5. Constexpr(Step.type, Step.value).type = Step.type /\ Step.type # NoType
  BY <1>2, TypesNamed DEF WellFormed, Constexpr
<1> QED
  BY <1>1, <1>3, <1>4, <1>5, EvalSound

LEMMA IdentifierSound == ASSUME IInv, InCore, Sound, actOnIdentifier PROVE CoreOutcome
<1>0. PICK d : d = findDecl(Step.id)
  OBVIOUS
<1> DEFINE t == IF d.kind = "function" THEN FunctionType(NoType) ELSE d.type
<1>1. At("identifier") /\ IF d = Undeclared THEN Stop("rejected") ELSE Eval(0, LValue(t))
  BY <1>0 DEF actOnIdentifier
<1>2. CASE d = Undeclared
  BY <1>1, <1>2 DEF CoreOutcome, Harmless, Rejections
<1>3. CASE d # Undeclared
  <2>1. PICK k \in 1 .. Len(stack) : Step.id \in DOMAIN stack[k].decls /\ d = stack[k].decls[Step.id]
    BY <1>0, <1>3, StackFacts, DeclFound DEF IInv
  <2>2. d \in Declarations
    <3>1. stack[k].decls \in Scopes
      BY StackFacts DEF IInv, Frames
    <3> QED
      BY <2>1, <3>1 DEF Scopes
  <2>3. /\ Step.op = "identifier" /\ Top.pc \in Nat \ { 0 } /\ Step = Code(Top)[Top.pc]
        /\ Len(stack) \in Nat
    BY <1>1, TopSteps, StackFacts DEF IInv, At, Step
  <2>4. Arity(Step) = 0
    BY <2>3 DEF Arity
  <2>5. d # Variable(NoType)
    <3>1. CASE k # Len(stack)
      <4>1. AllSettled(stack[k])
        BY <2>3, <3>1 DEF Sound
      <4> QED
        BY <2>1, <4>1 DEF AllSettled, Untyped
    <3>2. CASE k = Len(stack)
      <4> SUFFICES ASSUME d = Variable(NoType) PROVE FALSE
        OBVIOUS
      <4>1. UnderWay(Top, Top.pc, Step.id)
        BY <2>1, <3>2 DEF Sound, TopSound, Untyped, Top
      <4>2. PICK n \in Top.pc .. Len(Code(Top)) : TypedAt(Top, Top.pc, Step.id, n)
        BY <4>1 DEF UnderWay
      <4>3. Code(Top)[n].op = "init" /\ \A j \in Top.pc .. n - 1 : Between(Code(Top)[j], Step.id)
        BY <4>2 DEF TypedAt
      <4>4. Top.pc \in Top.pc .. n - 1
        <5>1. n # Top.pc
          BY <2>3, <4>3
        <5>2. PICK p \in Nat : p = Top.pc
          BY <2>3
        <5>3. n \in Int /\ n >= p
          BY <4>2, <5>2
        <5>4. p \in p .. n - 1
          BY <5>1, <5>2, <5>3
        <5> QED
          BY <5>2, <5>4
      <4>5. Between(Step, Step.id)
        BY <2>3, <4>3, <4>4
      <4> QED
        BY <2>3, <4>5 DEF Between
    <3> QED
      BY <3>1, <3>2
  <2>6. t \in AnyType /\ t # NoType
    <3>1. CASE d.kind = "function"
      BY <3>1, BasicTypes, BuiltTypes, TypesNamed
    <3>2. CASE d.kind # "function"
      <4>1. d \in [ kind : { "variable" }, type : AnyType ]
        BY <2>2, <3>2 DEF Declarations
      <4>2. d = Variable(d.type) /\ d.type \in AnyType
        BY <4>1 DEF Variable
      <4> QED
        BY <2>5, <3>2, <4>2
    <3> QED
      BY <3>1, <3>2
  <2> HIDE DEF t
  <2>7. LValue(t) \in Exprs /\ LValue(t).type # NoType
    BY <2>6, Expressions DEF LValue
  <2> QED
    BY <1>1, <1>3, <2>4, <2>7, EvalSound
<1> QED
  BY <1>2, <1>3

LEMMA BinaryOperatorSound == ASSUME IInv, InCore, Sound, actOnBinaryOperator PROVE CoreOutcome
<1> DEFINE l     == Operand(1, 2)
           r     == Operand(2, 2)
           kind  == Step.kind
           crash == l.type = NoType \/ (isBuiltinType(l.type) /\ r.type = NoType)
           valid == /\ isBuiltinType(l.type)
                    /\ l.type = r.type
                    /\ kind = "assign" => l.lvalue
                    /\ kind = "logical" => l.type = BoolTy
                    /\ kind \in { "bit", "compare", "arithmetic" } => isInteger(l.type)
                    /\ kind = "bit" => l.type = UintTy
           t     == IF kind \in { "compare", "logical" } THEN BoolTy ELSE l.type
<1>1. At("binary") /\ JudgeSpelling({}, crash, valid, 2, Expr(t))
  BY DEF actOnBinaryOperator, Judge
<1>2. Step.op = "binary" /\ Arity(Step) <= Len(Top.operands)
  BY <1>1, OperandsThere
<1>3. Arity(Step) = 2
  BY <1>2 DEF Arity
<1>4. l.type \in AnyType /\ l.type # NoType /\ r.type # NoType
  BY <1>2, <1>3, OperandTyped
<1>5. Expr(t) \in Exprs /\ Expr(t).type # NoType
  <2>1. t \in AnyType /\ t # NoType
    BY <1>4, BasicTypes, TypesNamed
  <2> HIDE DEF t
  <2> QED
    BY <2>1, Expressions DEF Expr
<1>6. ~crash
  BY <1>4
<1> HIDE DEF crash, valid, t
<1> QED
  BY <1>1, <1>3, <1>5, <1>6, JudgeSound

LEMMA UnaryOperatorSound == ASSUME IInv, InCore, Sound, actOnUnaryOperator PROVE CoreOutcome
<1>1. At("not") /\ JudgeSpelling({}, FALSE, Operand(1, 1).type = BoolTy, 1, Expr(BoolTy))
  BY DEF actOnUnaryOperator, Judge
<1>2. Step.op = "not"
  BY <1>1, OperandsThere
<1>3. Arity(Step) = 1
  BY <1>2 DEF Arity
<1>4. Expr(BoolTy) \in Exprs /\ Expr(BoolTy).type # NoType
  BY BasicTypes, Expressions, TypesNamed DEF Expr
<1> QED
  BY <1>1, <1>3, <1>4, JudgeSound

(* What is converted is a literal, so its type is no null pointer, nor one *)
(* that is not built in.                                                   *)
LEMMA CastSound == ASSUME IInv, InCore, Sound, Cast PROVE CoreOutcome
<1> DEFINE arg   == Operand(1, 1).type
           ts    == IF Step.n = 1 THEN { arg, Step.type } ELSE { Step.type }
           crash == Step.n = 1 /\ ~isBuiltinType(arg)
           valid == Step.n = 1 /\ isInteger(arg) /\ isInteger(Step.type)
<1>1. At("cast") /\ JudgeSpelling(ts, crash, valid, Step.n, Expr(Step.type))
  BY DEF Cast
<1>2. Step.op = "cast" /\ WellFormed(Step) /\ Top \in Frames
  BY <1>1, OperandsThere
<1>3. Arity(Step) = Step.n
  BY <1>2 DEF Arity
<1>4. Expr(Step.type) \in Exprs /\ Step.type # NoType /\ Expr(Step.type).type = Step.type
  BY <1>2, Expressions, WrittenTypes, TypesNamed DEF WellFormed, Expr
<1>5. isBuiltinType(arg)
  <2>1. CastsLiteral(Top, Top.pc)
    BY <1>1, CoreStep
  <2>2. LiteralLeft(Top) /\ Len(Top.operands) \in Nat
    BY <1>2, LenProperties DEF Sound, TopSound, Frames
  <2>3. isBuiltinType(Top.operands[Len(Top.operands)].type)
    BY <2>1, <2>2 DEF CastsLiteral, LiteralLeft
  <2>4. Len(Top.operands) - 1 + 1 = Len(Top.operands)
    BY <2>2
  <2> QED
    BY <2>3, <2>4 DEF Operand
<1>6. NoType \notin ts /\ ~crash
  BY <1>4, <1>5, TypesNamed
<1> HIDE DEF crash, valid, ts
<1> QED
  BY <1>1, <1>3, <1>4, <1>6, JudgeSound

LEMMA CallPrintSound == ASSUME IInv, InCore, Sound, CallPrint PROVE CoreOutcome
<1>1. At("print") /\ Eval(Step.n, Expr(VoidTy))
  BY DEF CallPrint
<1>2. Step.op = "print"
  BY <1>1, OperandsThere
<1>3. Arity(Step) = Step.n
  BY <1>2 DEF Arity
<1>4. Expr(VoidTy) \in Exprs /\ Expr(VoidTy).type # NoType
  BY BasicTypes, Expressions, TypesNamed DEF Expr
<1> QED
  BY <1>1, <1>3, <1>4, EvalSound

(* Programs of the core have no other expressions. *)
LEMMA NoOthers ==
  ASSUME IInv, InCore,
         \/ actOnArraySubscriptExpr \/ CallArray \/ CallAlloca \/ CallExtern
         \/ CallFunctionType \/ CallExpression
  PROVE  FALSE
<1>1. PICK op \in { "subscript", "array", "alloca", "extern", "function_type", "callee" } : At(op)
  BY DEF actOnArraySubscriptExpr, CallArray, CallAlloca, CallExtern, CallFunctionType, CallExpression
<1>2. op \in CoreOps
  BY <1>1, CoreStep
<1> QED
  BY <1>1, <1>2 DEF CoreOps

-----------------------------------------------------------------------------
(* Statements                                                              *)

LEMMA UsedUpTyped ==
  ASSUME IInv, Sound, NEW op \in { "init", "return", "discard" }, At(op)
  PROVE  AllOfType(Used(Top, 1, << >>).operands) /\ Operand(1, 1).type # NoType
<1>1. Arity(Step) = 1 /\ Top \in Frames /\ Arity(Step) <= Len(Top.operands)
  BY OperandsThere, UsedUp
<1>2. AllOfType(Top.operands) /\ Operand(1, 1).type # NoType
  BY <1>1, OperandTyped, StackFacts DEF Sound, IInv, Top, FrameSound, FrameTyped, AllOfType
<1>3. << >> \in Seq(Exprs) /\ AllOfType(<< >>)
  BY EmptySeq DEF AllOfType
<1> QED
  BY <1>1, <1>2, <1>3, OperandsAfter

LEMMA StatementSound ==
  ASSUME IInv, Sound, NEW op \in { "let", "init", "return", "discard", "fragment" }, At(op),
         UNCHANGED << src, AllInstances, status >>, KeepsIds,
         NEW g \in Frames, stack' = [ stack EXCEPT ![Len(stack)] = g ],
         SameFrame(g, Top), g.pc = Top.pc + 1, AllOfType(g.operands),
         \/ g.rets = Top.rets /\ op # "return"
         \/ op = "return" /\ g.rets # << >> /\ AllTyped(g.rets),
         Labelled(g)',
         \A x \in DOMAIN g.decls : Untyped(g, x) =>
           \/ UnderWay(g, g.pc, x)
           \/ UnderWay(Top, Top.pc, x) /\ (op = "init" => x # Step.id)
  PROVE  CoreOutcome
<1>1. /\ FrameSound(Top) /\ Top \in Frames
  BY StackFacts DEF IInv, Sound, Top
<1>2. /\ Code(g) = Code(Top) /\ Top.pc \in Nat \ { 0 } /\ Known(Top)
      /\ Step = Code(Top)[Top.pc] /\ Step.op = op
  BY TopSteps DEF IInv, At, Step, SameFrame
<1>3. FrameTyped(g)
  BY <1>1 DEF FrameSound, FrameTyped, AllOfType, SameFrame
<1>4. TopSound(g)
  <2>1. ASSUME NEW x \in DOMAIN g.decls, Untyped(g, x) PROVE UnderWay(g, g.pc, x)
    <3>1. CASE UnderWay(Top, Top.pc, x) /\ (op = "init" => x # Step.id)
      BY <1>2, <3>1, CodeLength, StillUnderWay
    <3> QED
      BY <2>1, <3>1
  <2>2. LiteralLeft(g)
    <3>1. g.pc - 1 = Top.pc
      BY <1>2
    <3> QED
      BY <1>2, <3>1 DEF LiteralLeft
  <2> QED
    BY <2>1, <2>2 DEF TopSound
<1>5. Top.rets # << >> \/ op = "return" => g.rets # << >>
  OBVIOUS
<1>6. Sound'
  BY <1>3, <1>4, <1>5, StepGoesOn
<1> QED
  BY <1>6 DEF CoreOutcome, At

(* What the frame at the top declares. *)
LEMMA TopDeclares ==
  ASSUME IInv, Sound
  PROVE  /\ Labelled(Top) /\ Len(FunctionDecls) \in Nat
         /\ \A x \in DOMAIN Top.decls : Untyped(Top, x) => UnderWay(Top, Top.pc, x)
         /\ FunctionDecls' = FunctionDecls => KeepsIds
         /\ AllOfType(Top.operands) /\ AllTyped(Top.rets)
BY StackFacts DEF IInv, Sound, Top, TopSound, KeepsIds, FrameSound, FrameTyped, AllOfType

LEMMA DiscardSound == ASSUME IInv, InCore, Sound, Discard PROVE CoreOutcome
<1>1. PICK g : g = Used(Top, 1, << >>)
  OBVIOUS
<1>2. /\ At("discard") /\ stack' = [ stack EXCEPT ![Len(stack)] = g ]
      /\ UNCHANGED << src, CurScope, FunctionDecls, AllInstances, status >>
  BY <1>1 DEF Discard, Advance
<1>3. /\ g \in Frames /\ SameFrame(g, Top)
      /\ g.pc = Top.pc + 1 /\ g.decls = Top.decls /\ g.rets = Top.rets
  BY <1>1, <1>2, UsedUp
<1>4. AllOfType(g.operands)
  BY <1>1, <1>2, UsedUpTyped
<1>5. Labelled(g)'
  <2>1. Labelled(g)
    BY <1>3, TopDeclares DEF Labelled
  <2> QED
    BY <1>2, <2>1, TopDeclares, LabelsKept
<1>6. \A x \in DOMAIN g.decls : Untyped(g, x) => UnderWay(Top, Top.pc, x)
  BY <1>3, TopDeclares DEF Untyped
<1> QED
  BY <1>2, <1>3, <1>4, <1>5, <1>6, TopDeclares, StatementSound

LEMMA ReturnStmtSound == ASSUME IInv, InCore, Sound, actOnReturnStmt PROVE CoreOutcome
<1>0. PICK u, t : u = Used(Top, 1, << >>) /\ t = Operand(1, 1).type
  OBVIOUS
<1>1. PICK g : g = [ u EXCEPT !.rets = Append(@, t) ]
  OBVIOUS
<1>2. /\ At("return") /\ stack' = [ stack EXCEPT ![Len(stack)] = g ]
      /\ UNCHANGED << src, CurScope, FunctionDecls, AllInstances, status >>
  BY <1>0, <1>1 DEF actOnReturnStmt, Advance
<1>3. /\ u \in Frames /\ SameFrame(u, Top)
      /\ u.pc = Top.pc + 1 /\ u.decls = Top.decls /\ u.rets = Top.rets /\ t \in AnyType
      /\ u.operands \in Seq(Exprs) /\ u.rets \in Seq(AnyType) /\ u.decls \in Scopes /\ u.pc \in Nat
  BY <1>0, <1>2, UsedUp
<1>4. AllOfType(u.operands) /\ t # NoType
  BY <1>0, <1>2, UsedUpTyped
<1>5. PICK rets : rets = Append(u.rets, t)
  OBVIOUS
<1>6. /\ rets \in Seq(AnyType) /\ rets # << >> /\ AllTyped(rets)
  <2>1. /\ rets \in Seq(AnyType) /\ Len(rets) = Len(u.rets) + 1 /\ rets[Len(u.rets) + 1] = t
        /\ \A i \in 1 .. Len(u.rets) : rets[i] = u.rets[i]
    BY <1>3, <1>5, AppendProperties
  <2>2. Len(u.rets) \in Nat /\ AllTyped(u.rets)
    BY <1>3, LenProperties, TopDeclares
  <2>3. PICK n \in Nat : n = Len(u.rets)
    BY <2>2
  <2>4. ASSUME NEW i \in 1 .. Len(rets) PROVE rets[i] # NoType
    <3>1. i \in 1 .. n \/ i = n + 1
      BY <2>1, <2>3
    <3> QED
      BY <1>4, <2>1, <2>2, <2>3, <3>1 DEF AllTyped
  <2>5. rets # << >>
    <3>1. Len(<< >>) = 0 /\ n + 1 # 0
      OBVIOUS
    <3> QED
      BY <2>1, <2>3, <3>1
  <2> QED
    BY <2>1, <2>4, <2>5 DEF AllTyped
<1>7. /\ g \in Frames /\ SameFrame(g, u)
      /\ g.pc = u.pc /\ g.decls = u.decls /\ g.operands = u.operands /\ g.rets = rets
  <2>1. g = Changed(u, u.pc, u.decls, u.operands, rets)
    BY <1>1, <1>3, <1>5 DEF Frames, Changed
  <2> QED
    BY <1>3, <1>6, <2>1, ChangedFrame
<1>8. Labelled(g)'
  <2>1. Labelled(g)
    BY <1>3, <1>7, TopDeclares DEF Labelled
  <2> QED
    BY <1>2, <2>1, TopDeclares, LabelsKept
<1>9. \A x \in DOMAIN g.decls : Untyped(g, x) => UnderWay(Top, Top.pc, x)
  BY <1>3, <1>7, TopDeclares DEF Untyped
<1>10. SameFrame(g, Top) /\ g.pc = Top.pc + 1 /\ AllOfType(g.operands)
  BY <1>3, <1>4, <1>7 DEF SameFrame
<1> QED
  BY <1>2, <1>6, <1>7, <1>8, <1>9, <1>10, TopDeclares, StatementSound

(* The variable gets its type, and it was the only one without. *)
LEMMA VariableTypeSound == ASSUME IInv, InCore, Sound, VariableGetsType PROVE CoreOutcome
<1>0. PICK u, id, d : u = Used(Top, 1, << >>) /\ id = Step.id /\ d = Variable(Operand(1, 1).type)
  OBVIOUS
<1>1. PICK g : g = [ u EXCEPT !.decls[id] = d ]
  OBVIOUS
<1>2. /\ At("init") /\ stack' = [ stack EXCEPT ![Len(stack)] = g ]
      /\ UNCHANGED << src, CurScope, FunctionDecls, AllInstances, status >>
  BY <1>0, <1>1 DEF VariableGetsType, Advance
<1>3. /\ u \in Frames /\ SameFrame(u, Top)
      /\ u.pc = Top.pc + 1 /\ u.decls = Top.decls /\ u.rets = Top.rets /\ Operand(1, 1).type \in AnyType
      /\ u.operands \in Seq(Exprs) /\ u.rets \in Seq(AnyType) /\ u.decls \in Scopes /\ u.pc \in Nat
  BY <1>0, <1>2, UsedUp
<1>4. AllOfType(u.operands) /\ Operand(1, 1).type # NoType
  BY <1>0, <1>2, UsedUpTyped
<1>5. d \in Declarations /\ d # Variable(NoType) /\ \A fd : d # Function(fd)
  <2>1. d.type # NoType
    BY <1>0, <1>4 DEF Variable
  <2> QED
    BY <1>0, <1>3, <2>1, DeclarationsAre DEF Variable
<1>6. id \in STRING
  <2>1. Step.op = "init" /\ WellFormed(Step)
    BY <1>2, OperandsThere
  <2> QED
    BY <1>0, <2>1 DEF WellFormed
<1>7. PICK decls : decls = [ u.decls EXCEPT ![id] = d ]
  OBVIOUS
<1>8. /\ decls \in Scopes /\ DOMAIN decls = DOMAIN u.decls
      /\ \A x \in DOMAIN u.decls : decls[x] = IF x = id THEN d ELSE u.decls[x]
  BY <1>3, <1>5, <1>6, <1>7, ScopeExcept
<1>9. /\ g \in Frames /\ SameFrame(g, u)
      /\ g.pc = u.pc /\ g.decls = decls /\ g.operands = u.operands /\ g.rets = u.rets
  <2>1. g = Changed(u, u.pc, decls, u.operands, u.rets)
    BY <1>1, <1>3, <1>7 DEF Frames, Changed
  <2> QED
    BY <1>3, <1>8, <2>1, ChangedFrame
<1>10. Labelled(g)'
  <2>1. Labelled(g)
    BY <1>3, <1>5, <1>8, <1>9, TopDeclares DEF Labelled
  <2> QED
    BY <1>2, <2>1, TopDeclares, LabelsKept
<1>11. \A x \in DOMAIN g.decls : Untyped(g, x) => UnderWay(Top, Top.pc, x) /\ x # Step.id
  BY <1>0, <1>3, <1>5, <1>8, <1>9, TopDeclares DEF Untyped
<1>12. SameFrame(g, Top) /\ g.pc = Top.pc + 1 /\ AllOfType(g.operands) /\ g.rets = Top.rets
  BY <1>3, <1>4, <1>9 DEF SameFrame
<1> QED
  BY <1>2, <1>9, <1>10, <1>11, <1>12, TopDeclares, StatementSound

(* The declared name is the only one that is new. *)
LEMMA DeclaresAt ==
  ASSUME IInv, NEW op \in { "let", "fragment" }, At(op), NEW d \in Declarations,
         stack' = [ stack EXCEPT ![CurScope].decls = With(@, Step.id, d), ![Len(stack)].pc = @ + 1 ]
  PROVE  \E g \in Frames :
           /\ stack' = [ stack EXCEPT ![Len(stack)] = g ]
           /\ SameFrame(g, Top) /\ g.pc = Top.pc + 1
           /\ g.operands = Top.operands /\ g.rets = Top.rets
           /\ DOMAIN g.decls = DOMAIN Top.decls \cup { Step.id } /\ g.decls[Step.id] = d
           /\ \A x \in DOMAIN Top.decls : x # Step.id => g.decls[x] = Top.decls[x]
<1>1. /\ CurScope = Len(stack) /\ Step.op = op /\ WellFormed(Step)
      /\ Top \in Frames /\ Top = stack[Len(stack)] /\ Len(stack) \in 1 .. Len(stack)
  BY TopSteps, OperandsThere, StackFacts DEF IInv, Top
<1>2. Step.id \in STRING
  BY <1>1 DEF WellFormed
<1>3. PICK id \in STRING : id = Step.id
  BY <1>2
<1>4. PICK decls : decls = With(Top.decls, id, d)
  OBVIOUS
<1>5. PICK g : g = Changed(Top, Top.pc + 1, decls, Top.operands, Top.rets)
  OBVIOUS
<1>6. /\ Top.decls \in Scopes /\ Top.pc + 1 \in Nat /\ Top.operands \in Seq(Exprs) /\ Top.rets \in Seq(AnyType)
  BY <1>1 DEF Frames
<1>7. /\ decls \in Scopes /\ DOMAIN decls = DOMAIN Top.decls \cup { id } /\ decls[id] = d
      /\ \A x \in DOMAIN Top.decls : x # id => decls[x] = Top.decls[x]
  BY <1>4, <1>6, ScopeWith
<1>8. stack' = [ stack EXCEPT ![Len(stack)] = g ]
  <2>1. stack \in Seq(Frames)
    BY DEF IInv, Typed
  <2>2. g = [ Top EXCEPT !.decls = decls, !.pc = Top.pc + 1 ]
    BY <1>1, <1>5 DEF Changed, Frames
  <2>3. stack' = [ stack EXCEPT ![Len(stack)] = [ Top EXCEPT !.decls = decls, !.pc = Top.pc + 1 ] ]
    BY <1>1, <1>3, <1>4, <2>1 DEF Frames
  <2> QED
    BY <2>2, <2>3
<1>9. /\ g \in Frames /\ SameFrame(g, Top)
      /\ g.pc = Top.pc + 1 /\ g.decls = decls /\ g.operands = Top.operands /\ g.rets = Top.rets
  BY <1>1, <1>5, <1>6, <1>7, ChangedFrame
<1> QED
  BY <1>3, <1>7, <1>8, <1>9

LEMMA VariableDeclSound == ASSUME IInv, InCore, Sound, actOnVariableDecl PROVE CoreOutcome
<1>1. At("let")
  BY DEF actOnVariableDecl
<1>2. CASE Declared(Step.id)
  BY <1>2 DEF actOnVariableDecl, CoreOutcome, Harmless, Rejections
<1>3. CASE ~Declared(Step.id)
  <2>1. /\ stack' = [ stack EXCEPT ![CurScope].decls = With(@, Step.id, Variable(NoType)),
                                   ![Len(stack)].pc = @ + 1 ]
        /\ UNCHANGED << src, CurScope, FunctionDecls, AllInstances, status >>
    BY <1>3 DEF actOnVariableDecl
  <2>2. Variable(NoType) \in Declarations /\ \A fd : Variable(NoType) # Function(fd)
    BY BasicTypes, DeclarationsAre
  <2>3. PICK g \in Frames :
           /\ stack' = [ stack EXCEPT ![Len(stack)] = g ]
           /\ SameFrame(g, Top) /\ g.pc = Top.pc + 1
           /\ g.operands = Top.operands /\ g.rets = Top.rets
           /\ DOMAIN g.decls = DOMAIN Top.decls \cup { Step.id } /\ g.decls[Step.id] = Variable(NoType)
           /\ \A x \in DOMAIN Top.decls : x # Step.id => g.decls[x] = Top.decls[x]
    BY <1>1, <2>1, <2>2, DeclaresAt
  <2>4. Labelled(g)'
    <3>1. Labelled(g)
      BY <2>2, <2>3, TopDeclares DEF Labelled
    <3> QED
      BY <2>1, <3>1, TopDeclares, LabelsKept
  <2>5. UnderWay(g, g.pc, Step.id)
    <3>1. /\ Code(g) = Code(Top) /\ Step = Code(Top)[Top.pc]
      BY <1>1, <2>3, TopSteps DEF IInv, SameFrame, Step
    <3>2. InitializedFrom(Top, Top.pc)
      BY <1>1, CoreStep
    <3> QED
      BY <2>3, <3>1, <3>2 DEF InitializedFrom, UnderWay, TypedAt
  <2>6. \A x \in DOMAIN g.decls : Untyped(g, x) => UnderWay(g, g.pc, x) \/ UnderWay(Top, Top.pc, x)
    BY <2>3, <2>5, TopDeclares DEF Untyped
  <2> QED
    BY <1>1, <2>1, <2>3, <2>4, <2>6, TopDeclares, StatementSound
<1> QED
  BY <1>2, <1>3

LEMMA FirstFragmentSound ==
  ASSUME IInv, InCore, Sound, actOnFunctionFragment, ~Declared(Step.id) PROVE CoreOutcome
<1>1. PICK n, now : n = Len(FunctionDecls) + 1 /\ now = [ id |-> Step.id, frags |-> << Step >> ]
  OBVIOUS
<1>2. /\ At("fragment") /\ FunctionDecls' = Append(FunctionDecls, now)
      /\ stack' = [ stack EXCEPT ![CurScope].decls = With(@, Step.id, Function(n)),
                                 ![Len(stack)].pc = @ + 1 ]
      /\ UNCHANGED << src, CurScope, AllInstances, status >>
  BY <1>1 DEF actOnFunctionFragment
<1>3. FunctionDecls \in Seq(FuncDecls) /\ Len(FunctionDecls) \in Nat
  BY <1>2, FragmentAt
<1>4. n \in Nat /\ n \notin 1 .. Len(FunctionDecls) /\ Function(n) \in Declarations
      /\ Function(n) # Variable(NoType) /\ \A fd : Function(fd) = Function(n) => fd = n
  BY <1>1, <1>3, DeclarationsAre
<1>5. PICK g \in Frames :
         /\ stack' = [ stack EXCEPT ![Len(stack)] = g ]
         /\ SameFrame(g, Top) /\ g.pc = Top.pc + 1
         /\ g.operands = Top.operands /\ g.rets = Top.rets
         /\ DOMAIN g.decls = DOMAIN Top.decls \cup { Step.id } /\ g.decls[Step.id] = Function(n)
         /\ \A x \in DOMAIN Top.decls : x # Step.id => g.decls[x] = Top.decls[x]
  BY <1>2, <1>4, DeclaresAt
<1>6. /\ Len(FunctionDecls') = n
      /\ \A d \in 1 .. Len(FunctionDecls) : FunctionDecls'[d] = FunctionDecls[d]
      /\ FunctionDecls'[n].id = Step.id
  <2>1. \A T, e : FunctionDecls \in Seq(T) /\ e \in T =>
          /\ Len(Append(FunctionDecls, e)) = Len(FunctionDecls) + 1
          /\ \A d \in 1 .. Len(FunctionDecls) : Append(FunctionDecls, e)[d] = FunctionDecls[d]
          /\ Append(FunctionDecls, e)[Len(FunctionDecls) + 1] = e
    BY AppendProperties
  <2>2. FunctionDecls \in Seq(FuncDecls \cup { now }) /\ now \in FuncDecls \cup { now }
    BY <1>3, SeqMonotonic
  <2> QED
    BY <1>1, <1>2, <2>1, <2>2
<1>7. KeepsIds
  BY <1>1, <1>3, <1>4, <1>6 DEF KeepsIds
<1>8. Labelled(g)'
  <2>1. ASSUME NEW x \in DOMAIN g.decls, NEW d \in Nat, g.decls[x] = Function(d)
        PROVE  d \in 1 .. Len(FunctionDecls') /\ FunctionDecls'[d].id = x
    <3>1. CASE x = Step.id
      <4>1. d = n /\ n \in 1 .. n
        BY <1>1, <1>3, <1>4, <1>5, <2>1, <3>1
      <4> QED
        BY <1>6, <3>1, <4>1
    <3>2. CASE x # Step.id
      <4>1. x \in DOMAIN Top.decls /\ Top.decls[x] = Function(d)
        BY <1>5, <2>1, <3>2
      <4>2. d \in 1 .. Len(FunctionDecls) /\ FunctionDecls[d].id = x
        BY <4>1, TopDeclares DEF Labelled
      <4>3. d \in 1 .. n
        BY <1>1, <1>3, <4>2
      <4> QED
        BY <1>6, <4>2, <4>3
    <3> QED
      BY <3>1, <3>2
  <2> QED
    BY <2>1 DEF Labelled
<1>9. \A x \in DOMAIN g.decls : Untyped(g, x) => UnderWay(Top, Top.pc, x)
  BY <1>4, <1>5, TopDeclares DEF Untyped
<1> QED
  BY <1>2, <1>5, <1>7, <1>8, <1>9, TopDeclares, StatementSound

LEMMA AnotherFragmentSound ==
  ASSUME IInv, InCore, Sound, actOnFunctionFragment, Declared(Step.id) PROVE CoreOutcome
<1>1. PICK d : d = stack[CurScope].decls[Step.id]
  OBVIOUS
<1>2. At("fragment")
  BY Zenon DEF actOnFunctionFragment
<1>3. CASE d.kind # "function"
  BY <1>1, <1>3 DEF actOnFunctionFragment, CoreOutcome, Harmless, Rejections
<1>4. CASE d.kind = "function"
  <2>1. PICK g : g = Used(Top, 0, << >>)
    OBVIOUS
  <2>2. /\ FunctionDecls' = [ FunctionDecls EXCEPT ![d.fd].frags = Append(@, Step) ]
        /\ stack' = [ stack EXCEPT ![Len(stack)] = g ]
        /\ UNCHANGED << src, CurScope, AllInstances, status >>
    BY <1>1, <1>4, <2>1, Zenon DEF actOnFunctionFragment, Advance
  <2>3. /\ Top \in Frames /\ Len(Top.operands) \in Nat
        /\ FunctionDecls \in Seq(FuncDecls) /\ Len(FunctionDecls) \in Nat
    BY <1>2, FragmentAt
  <2>4. << >> \in Seq(Exprs) /\ 0 \in Nat /\ 0 <= Len(Top.operands) /\ AllOfType(<< >>)
    BY <2>3, EmptySeq DEF AllOfType
  <2>5. /\ g \in Frames /\ SameFrame(g, Top)
        /\ g.pc = Top.pc + 1 /\ g.decls = Top.decls /\ g.rets = Top.rets
    BY <2>1, <2>3, <2>4, UsedFrame
  <2>6. AllOfType(g.operands)
    BY <2>1, <2>3, <2>4, TopDeclares, OperandsAfter
  <2>7. KeepsIds
    <3>1. /\ Len(FunctionDecls') = Len(FunctionDecls)
          /\ \A e \in 1 .. Len(FunctionDecls) : FunctionDecls[e] \in FuncDecls
      BY <2>2, <2>3, ElementOfSeq
    <3>2. \A e \in 1 .. Len(FunctionDecls) : FunctionDecls'[e].id = FunctionDecls[e].id
      <4> SUFFICES ASSUME NEW e \in 1 .. Len(FunctionDecls)
                   PROVE  FunctionDecls'[e].id = FunctionDecls[e].id
        OBVIOUS
      <4>1. PICK f, frags : f = d.fd /\ frags = Append(FunctionDecls[f].frags, Step)
        OBVIOUS
      <4>2. FunctionDecls' = [ FunctionDecls EXCEPT ![f] = [ FunctionDecls[f] EXCEPT !.frags = frags ] ]
        BY <2>2, <4>1
      <4>3. e \in DOMAIN FunctionDecls
        BY <2>3
      <4>4. FunctionDecls'[e] = IF e = f THEN [ FunctionDecls[e] EXCEPT !.frags = frags ] ELSE FunctionDecls[e]
        BY <4>2, <4>3
      <4> QED
        BY <3>1, <4>4 DEF FuncDecls
    <3> QED
      BY <2>3, <3>1, <3>2 DEF KeepsIds
  <2>8. Labelled(g)'
    <3>1. Labelled(g)
      BY <2>5, TopDeclares DEF Labelled
    <3> QED
      BY <2>3, <2>7, <3>1, LabelsKept
  <2>9. \A x \in DOMAIN g.decls : Untyped(g, x) => UnderWay(Top, Top.pc, x)
    BY <2>5, TopDeclares DEF Untyped
  <2> QED
    BY <1>2, <2>2, <2>5, <2>6, <2>7, <2>8, <2>9, StatementSound
<1> QED
  BY <1>3, <1>4

-----------------------------------------------------------------------------
(* Calls                                                                   *)

(* Nothing that a frame declares has no type when a call is made. *)
LEMMA SettledAtCall ==
  ASSUME IInv, Sound, NEW op \in { "call", "entry" }, At(op)
  PROVE  AllSettled(Top)
<1> SUFFICES ASSUME NEW x \in DOMAIN Top.decls, Untyped(Top, x) PROVE FALSE
  BY DEF AllSettled
<1>1. Top.pc \in Nat /\ Code(Top)[Top.pc].op = op
  BY CallAt DEF Frames
<1>2. UnderWay(Top, Top.pc, x)
  BY TopDeclares
<1>3. PICK n \in Top.pc .. Len(Code(Top)) : TypedAt(Top, Top.pc, x, n)
  BY <1>2 DEF UnderWay
<1>4. Code(Top)[n].op = "init" /\ \A j \in Top.pc .. n - 1 : Between(Code(Top)[j], x)
  BY <1>3 DEF TypedAt
<1>5. Top.pc \in Top.pc .. n - 1
  <2>1. PICK p \in Nat : p = Top.pc
    BY <1>1
  <2>2. n \in Int /\ n >= p /\ n # p
    BY <1>1, <1>3, <1>4, <2>1
  <2>3. p \in p .. n - 1
    BY <2>2
  <2> QED
    BY <2>1, <2>3
<1> QED
  BY <1>1, <1>4, <1>5 DEF Between

(* Every fragment takes the arguments, all of which have a type. *)
Suits(fd, tys) ==
  /\ AllTyped(tys)
  /\ \A k \in 1 .. Len(FunctionDecls[fd].frags) : Len(FunctionDecls[fd].frags[k].params) = Len(tys)

LEMMA StartSound ==
  ASSUME IInv, IInv', Sound, NEW op \in { "call", "entry" }, At(op), NEW n, n = Arity(Step),
         NEW fd \in 1 .. Len(FunctionDecls), NEW tys \in Seq(AnyType), Suits(fd, tys),
         NEW s, NEW new, IsNew(new, fd), NEW c, IsCaller(c), NEW f, IsCallee(f, s, tys), Starts(new, c, f),
         c.operands = SubSeq(Top.operands, 1, Len(Top.operands) - n)
  PROVE  CoreOutcome
<1>1. /\ Len(stack') = Len(stack) + 1
      /\ \A k \in 1 .. Len(stack) : stack'[k] = IF k = Len(stack) THEN c ELSE stack[k]
      /\ stack'[Len(stack) + 1] = f /\ Top' = f
      /\ Len(AllInstances') = Len(AllInstances) + 1
      /\ \A i \in 1 .. Len(AllInstances) : AllInstances'[i] = AllInstances[i]
      /\ AllInstances'[Len(AllInstances) + 1] = new
      /\ SameCodes
  BY StartedStack DEF IsNew, IsCaller, IsCallee, IsFresh
<1>2. /\ Len(stack) \in Nat \ { 0 } /\ Len(stack) \in 1 .. Len(stack) /\ Top = stack[Len(stack)]
      /\ Len(AllInstances) \in Nat /\ Top \in Frames
      /\ \A k \in 1 .. Len(stack) : stack[k] \in Frames /\ stack[k].inst \in 0 .. Len(AllInstances)
      /\ n \in Nat /\ n <= Len(Top.operands)
  BY CallAt, StackFacts DEF IInv
<1>3. /\ FunctionDecls' = FunctionDecls /\ status' = status
  BY DEF Starts
<1>4. \A i \in 1 .. Len(AllInstances) : SameInstance(i)
  BY <1>1 DEF SameInstance
<1>5. /\ c \in Frames /\ SameFrame(c, Top) /\ c.pc = Top.pc /\ c.decls = Top.decls /\ c.rets = Top.rets
  BY DEF IsCaller
<1>6. /\ f.inst = Len(AllInstances) + 1 /\ f.frag = 1 /\ f.pc = 0 /\ f.args = tys
      /\ f.decls = << >> /\ f.operands = << >> /\ f.rets = << >>
  BY DEF IsCallee, IsFresh
<1>7. FrameSound(c)
  <2>1. FrameSound(Top)
    BY <1>2 DEF Sound
  <2>2. AllOfType(c.operands)
    BY <1>2, OperandsLeft, TopDeclares
  <2>3. FrameTyped(c)
    BY <1>5, <2>1, <2>2 DEF FrameSound, FrameTyped, AllOfType, SameFrame
  <2>4. c.inst = Top.inst /\ c.frag = Top.frag /\ c.args = Top.args
    BY <1>5 DEF SameFrame
  <2>5. Code(c) = Code(Top) /\ FragmentOf(c) = FragmentOf(Top)
    BY <2>4 DEF Code, FragmentOf
  <2>6. c.inst # 0 => FrameReturns(c)
    BY <1>5, <2>1, <2>4, <2>5 DEF FrameSound, FrameReturns, Passed, InBody
  <2>7. c.inst # 0 => FrameTakes(c)
    BY <1>5, <2>1, <2>4 DEF FrameSound, FrameTakes
  <2> QED
    BY <2>3, <2>6, <2>7 DEF FrameSound
<1>8. ASSUME NEW k \in 1 .. Len(stack) PROVE FrameSound(stack[k])' /\ Labelled(stack[k])' /\ AllSettled(stack[k])'
  <2>1. CASE k = Len(stack)
    <3>1. stack'[k] = c /\ c.inst \in 0 .. Len(AllInstances)
      BY <1>1, <1>2, <1>5, <2>1 DEF SameFrame
    <3>2. FrameSound(c)'
      BY <1>1, <1>4, <1>5, <1>7, <3>1, FrameKept
    <3>3. AllSettled(c) /\ Labelled(c)
      BY <1>5, SettledAtCall, TopDeclares DEF AllSettled, Untyped, Labelled
    <3>4. Labelled(c)'
      BY <1>3, <3>3 DEF Labelled
    <3> QED
      BY <3>1, <3>2, <3>3, <3>4 DEF AllSettled, Untyped
  <2>2. CASE k # Len(stack)
    <3>1. stack'[k] = stack[k] /\ k \in 1 .. Len(stack) - 1
      BY <1>1, <1>2, <2>2
    <3>2. FrameSound(stack[k]) /\ Labelled(stack[k]) /\ AllSettled(stack[k])
      BY <3>1 DEF Sound
    <3>3. PICK h : h = stack[k]
      OBVIOUS
    <3>4. FrameSound(h)'
      <4>1. h \in Frames /\ h.inst \in 0 .. Len(AllInstances) /\ FrameSound(h)
        BY <1>2, <3>2, <3>3
      <4>2. h.inst # 0 => SameInstance(h.inst)
        BY <1>2, <1>4, <4>1
      <4> QED
        BY <1>1, <4>1, <4>2, FrameKept
    <3>5. Labelled(h)'
      BY <1>3, <3>2, <3>3 DEF Labelled
    <3>6. stack'[k] = h /\ AllSettled(h)
      BY <3>1, <3>2, <3>3
    <3> QED
      BY <3>4, <3>5, <3>6 DEF AllSettled, Untyped
  <2> QED
    BY <2>1, <2>2
<1>9. FrameSound(f)' /\ Labelled(f)' /\ TopSound(f)'
  <2>1. Len(<< >>) = 0 /\ DOMAIN << >> = {}
    OBVIOUS
  <2>2. AllInstances'[f.inst] = new /\ new.frags = FunctionDecls[fd].frags
    BY <1>1, <1>6 DEF IsNew
  <2>3. FrameTyped(f)'
    <3>1. FrameTyped(f)
      BY <1>6, <2>1 DEF FrameTyped, AllTyped, Suits
    <3> QED
      BY <3>1 DEF FrameTyped, AllTyped
  <2>4. FrameTakes(f)'
    BY <1>6, <2>2 DEF FrameTakes, Suits
  <2>5. FrameReturns(f)'
    <3>1. ~Passed(f)'
      BY <1>6 DEF Passed
    <3>2. ~InBody(f)'
      <4>1. FragmentOf(f)' \in AllFragments
        <5>1. new.frags \in Seq(AllFragments) /\ new.frags # << >>
          BY DEF IsNew, Instances
        <5>2. 1 \in 1 .. Len(new.frags)
          BY <5>1, EmptySeq
        <5>3. new.frags[1] \in AllFragments
          BY <5>1, <5>2, ElementOfSeq
        <5> QED
          BY <1>6, <2>2, <5>3 DEF FragmentOf
      <4>2. Len(FragmentOf(f)'.domain) \in Nat
        BY <4>1, FragmentIsCode, CodeIsSequence
      <4> QED
        BY <1>6, <4>2 DEF InBody
    <3> QED
      BY <1>6, <3>1, <3>2 DEF FrameReturns
  <2>6. Labelled(f)'
    BY <1>6, <2>1 DEF Labelled
  <2>7. TopSound(f)'
    BY <1>6, <2>1 DEF TopSound, LiteralLeft
  <2> QED
    BY <2>3, <2>4, <2>5, <2>6, <2>7 DEF FrameSound
<1>10. ASSUME NEW k \in 1 .. Len(stack') PROVE FrameSound(stack[k])' /\ Labelled(stack[k])'
  <2>1. CASE k \in 1 .. Len(stack)
    BY <1>8, <2>1
  <2>2. CASE k \notin 1 .. Len(stack)
    <3>1. stack'[k] = f
      BY <1>1, <1>2, <2>2
    <3> QED
      BY <1>9, <3>1
  <2> QED
    BY <2>1, <2>2
<1>11. \A k \in 1 .. Len(stack') - 1 : AllSettled(stack[k])'
  BY <1>1, <1>2, <1>8
<1>12. ASSUME NEW i \in 1 .. Len(AllInstances'), \A k \in 1 .. Len(stack') : stack'[k].inst # i
       PROVE  Complete(i)'
  <2>1. i # Len(AllInstances) + 1
    <3>1. Len(stack) + 1 \in 1 .. Len(stack')
      BY <1>1, <1>2
    <3> QED
      BY <1>1, <1>6, <1>12, <3>1
  <2>2. i \in 1 .. Len(AllInstances)
    BY <1>1, <1>2, <2>1
  <2>3. \A k \in 1 .. Len(stack) : stack[k].inst # i
    <3>1. \A k \in 1 .. Len(stack) : k \in 1 .. Len(stack')
      BY <1>1, <1>2
    <3> QED
      BY <1>1, <1>2, <1>5, <1>12, <3>1 DEF SameFrame
  <2>4. Complete(i)
    BY <2>2, <2>3 DEF Sound
  <2> QED
    BY <1>4, <2>2, <2>4 DEF Complete, SameInstance, AllTyped, getReturnType
<1>13. TopSound(Top)'
  BY <1>1, <1>9
<1>14. Sound'
  BY <1>10, <1>11, <1>12, <1>13 DEF Sound
<1> QED
  BY <1>3, <1>14 DEF CoreOutcome, At

LEMMA GetOrCreateSound ==
  ASSUME IInv, IInv', Sound, NEW op \in { "call", "entry" }, At(op), NEW n, n = Arity(Step),
         NEW fd \in 1 .. Len(FunctionDecls), NEW tys \in Seq(AnyType), Suits(fd, tys),
         findScopeOfDecl(fd) \in 1 .. CurScope,
         getOrCreateFunctionInstance(fd, tys, n)
  PROVE  CoreOutcome
<1> DEFINE same == { i \in InstancesOf(fd) : AllInstances[i].params = tys }
<1>1. CASE \E i \in same : ReuseInstance(i, n)
  <2>1. PICK i \in 1 .. Len(AllInstances) : ReuseInstance(i, n)
    BY <1>1 DEF InstancesOf
  <2>2. CASE getReturnType(i) = NoType
    BY <2>1, <2>2 DEF ReuseInstance, CoreOutcome, Harmless, Rejections
  <2>3. CASE getReturnType(i) # NoType
    <3>1. PICK t \in AnyType : t = getReturnType(i)
      BY ReturnTypes DEF IInv
    <3>2. Eval(n, Expr(t)) /\ t # NoType
      BY <2>1, <2>3, <3>1 DEF ReuseInstance
    <3>3. Expr(t) \in Exprs /\ Expr(t).type # NoType
      BY <3>2, Expressions DEF Expr
    <3> QED
      BY <3>2, <3>3, EvalSound
  <2> QED
    BY <2>2, <2>3
<1>2. CASE same = {} /\ CreateInstance(fd, tys, n)
  <2>1. CASE Stop("overflowed")
    BY <2>1 DEF CoreOutcome, Harmless
  <2>2. CASE ~Stop("overflowed")
    <3>1. PICK new, c, f :
                 /\ IsNew(new, fd) /\ IsCaller(c) /\ IsCallee(f, findScopeOfDecl(fd), tys)
                 /\ c.operands = SubSeq(Top.operands, 1, Len(Top.operands) - n)
                 /\ Starts(new, c, f)
      BY <1>2, <2>2, CreateStarts
    <3>2. PICK s : s = findScopeOfDecl(fd)
      OBVIOUS
    <3> QED
      BY <3>1, <3>2, StartSound
  <2> QED
    BY <2>1, <2>2
<1> QED
  BY <1>1, <1>2 DEF getOrCreateFunctionInstance

LEMMA FunctionCallSound ==
  ASSUME IInv, IInv', InCore, Sound, actOnFunctionCall PROVE CoreOutcome
<1>0. PICK d : d = findDecl(Step.id)
  OBVIOUS
<1>1. At("call") /\ CASE d.kind = "none"     -> Stop("rejected")
                      [] d.kind = "variable" -> Stop("crashed")
                      [] d.kind = "function" ->
                           getOrCreateFunctionInstance(d.fd, Types(Step.n), Step.n)
  BY <1>0 DEF actOnFunctionCall
<1>2. /\ Step.op = "call" /\ Arity(Step) \in Nat /\ Arity(Step) <= Len(Top.operands) /\ Top \in Frames
  BY <1>1, OperandsThere
<1>3. Arity(Step) = Step.n
  BY <1>2 DEF Arity
<1>4. d.kind \in { "none", "variable", "function" }
  BY <1>0, DeclKind
<1>5. CASE d.kind = "none"
  BY <1>1, <1>5 DEF CoreOutcome, Harmless, Rejections
<1>6. ASSUME d.kind # "none"
      PROVE  \E k \in 1 .. Len(stack) : Step.id \in DOMAIN stack[k].decls /\ d = stack[k].decls[Step.id]
  <2>1. d # Undeclared
    BY <1>6 DEF Undeclared
  <2> QED
    BY <1>0, <2>1, StackFacts, DeclFound DEF IInv
<1>7. CASE d.kind = "variable"
  <2>1. PICK k \in 1 .. Len(stack) : Step.id \in DOMAIN stack[k].decls /\ d = stack[k].decls[Step.id]
    BY <1>6, <1>7
  <2>2. PICK c, o, i : IsFrom(Top, Top.pc, c, o, i) /\ c[i] = Step
    BY <1>1, StepIsFrom
  <2>3. c \in Reached /\ i \in 1 .. Len(c)
    BY <2>2 DEF IsFrom
  <2>4. ~CallsFunctions(c)
    BY <1>2, <1>7, <2>1, <2>2, <2>3 DEF CallsFunctions
  <2> QED
    BY <1>1, <1>7, <2>3, <2>4 DEF CoreOutcome
<1>8. CASE d.kind = "function"
  <2>1. PICK k \in 1 .. Len(stack) : Step.id \in DOMAIN stack[k].decls /\ d = stack[k].decls[Step.id]
    BY <1>6, <1>8
  <2>2. PICK fd : fd = d.fd
    OBVIOUS
  <2>3. d = Function(fd) /\ fd \in Nat /\ fd \in 1 .. Len(FunctionDecls)
    BY <1>8, <2>1, <2>2, DeclaredFunction
  <2>4. findScopeOfDecl(fd) \in 1 .. CurScope
    BY <1>0, <2>3, StackFacts, ScopeOfDeclFound DEF IInv
  <2>5. FunctionDecls[fd].id = Step.id
    <3>1. Labelled(stack[k])
      BY <2>1 DEF Sound
    <3>2. stack[k].decls[Step.id] = Function(fd)
      BY <2>1, <2>3
    <3> QED
      BY <2>1, <2>3, <3>1, <3>2 DEF Labelled
  <2>6. PICK n \in Nat : n = Step.n
    BY <1>2, <1>3
  <2>10. PICK tys : tys = Types(n)
    OBVIOUS
  <2>7. tys \in Seq(AnyType) /\ Len(tys) = n /\ AllTyped(tys)
    <3> DEFINE t(i) == Operand(i, n).type
    <3>1. \A i \in 1 .. n : t(i) \in AnyType /\ t(i) # NoType
      BY <1>2, <1>3, <2>6, OperandTyped
    <3>2. tys = [ i \in 1 .. n |-> t(i) ]
      BY <2>10 DEF Types
    <3> HIDE DEF t
    <3>3. tys \in Seq(AnyType) /\ Len(tys) = n
      BY <3>1, <3>2, IsASeq
    <3> QED
      BY <3>1, <3>2, <3>3 DEF AllTyped
  <2>8. Suits(fd, tys)
    <3>1. TakesAll(Step)
      BY <1>1, CoreStep
    <3> QED
      BY <2>3, <2>5, <2>6, <2>7, <3>1 DEF TakesAll, Suits
  <2>9. getOrCreateFunctionInstance(fd, tys, n)
    BY <1>1, <1>8, <2>2, <2>6, <2>10
  <2> QED
    BY <1>1, <1>3, <2>3, <2>4, <2>6, <2>7, <2>8, <2>9, GetOrCreateSound
<1> QED
  BY <1>4, <1>5, <1>7, <1>8

LEMMA EntryPointSound ==
  ASSUME IInv, IInv', InCore, Sound, createEntryPoint PROVE CoreOutcome
<1>0. PICK d : d = stack[CurScope].decls["main"]
  OBVIOUS
<1>1. At("entry")
  BY DEF createEntryPoint
<1>2. CASE ~(Declared("main") /\ d.kind = "function")
  BY <1>0, <1>2 DEF createEntryPoint, CoreOutcome, Harmless, Rejections
<1>3. CASE Declared("main") /\ d.kind = "function"
  <2>1. Outwards /\ CurScope \in 1 .. Len(stack) /\ "main" \in DOMAIN stack[CurScope].decls
    BY <1>3, StackFacts DEF IInv, Declared
  <2>2. PICK fd : fd = d.fd
    OBVIOUS
  <2>3. d = Function(fd) /\ fd \in Nat /\ fd \in 1 .. Len(FunctionDecls)
    BY <1>0, <1>3, <2>1, <2>2, DeclaredFunction
  <2>4. findScopeOfDecl(fd) \in 1 .. CurScope
    BY <1>0, <2>1, <2>3, ScopeOfDeclFound
  <2>5. FunctionDecls[fd].id = "main"
    <3>1. Labelled(stack[CurScope])
      BY <2>1 DEF Sound
    <3>2. stack[CurScope].decls["main"] = Function(fd)
      BY <1>0, <2>3
    <3> QED
      BY <2>1, <2>3, <3>1, <3>2 DEF Labelled
  <2>6. << >> \in Seq(AnyType) /\ Len(<< >>) = 0
    BY EmptySeq
  <2>7. PICK tys \in Seq(AnyType), n \in Nat : tys = << >> /\ n = 0
    BY <2>6
  <2>8. Suits(fd, tys)
    <3>1. \A k \in 1 .. Len(FunctionDecls[fd].frags) : FunctionDecls[fd].frags[k].params = << >>
      BY <2>3, <2>5 DEF InCore, MainHasNoParams
    <3> QED
      BY <2>7, <3>1 DEF Suits, AllTyped
  <2>9. n = Arity(Step)
    BY <1>1, <2>7, CallAt
  <2>10. getOrCreateFunctionInstance(fd, tys, n)
    BY <1>0, <1>3, <2>2, <2>7 DEF createEntryPoint
  <2> QED
    BY <1>1, <2>3, <2>4, <2>8, <2>9, <2>10, GetOrCreateSound
<1> QED
  BY <1>2, <1>3

-----------------------------------------------------------------------------
(* Fragments                                                               *)

(* At the end of a fragment its return statements have given it a type, or *)
(* it has none and returns nothing.                                        *)
LEMMA DeducedTyped ==
  ASSUME IInv, Sound, AtEnd
  PROVE  Deduced # NoType
<1> DEFINE b == FragmentOf(Top).body
           d == FragmentOf(Top).domain
<1>1. /\ Top = stack[Len(stack)] /\ Len(stack) \in 1 .. Len(stack) /\ Len(stack) \in Nat
      /\ InBody(Top) /\ Top \in Frames /\ Top.inst # 0
      /\ Top.pc > Len(Code(Top))
  BY FragmentEnds DEF AtEnd
<1>2. FrameReturns(Top) /\ AllTyped(Top.rets)
  BY <1>1 DEF Sound, FrameSound, FrameTyped
<1>3. CASE TypedReturns = {}
  <2>1. Top.rets = << >>
    <3>1. Top.rets \in Seq(AnyType) /\ Len(Top.rets) \in Nat
      BY <1>1 DEF Frames
    <3>2. \A k \in 1 .. Len(Top.rets) : FALSE
      BY <1>2, <1>3 DEF AllTyped, TypedReturns
    <3>3. Len(Top.rets) = 0
      <4>1. PICK n \in Nat : n = Len(Top.rets)
        BY <3>1
      <4>2. n # 0 => 1 \in 1 .. n
        OBVIOUS
      <4> QED
        BY <3>2, <4>1, <4>2
    <3> QED
      BY <3>1, <3>3
  <2>2. ~Passed(Top)
    BY <1>2, <2>1 DEF FrameReturns
  <2>3. /\ Len(d) \in Nat /\ Len(b) \in Nat
        /\ Len(Code(Top)) = Len(d) + 1 + Len(b)
        /\ \A i \in 1 .. Len(b) : Code(Top)[Len(d) + 1 + i] = b[i]
    <3>1. FragmentOf(Top) \in AllFragments
      BY <1>1, StackFacts DEF IInv, AtEnd
    <3> QED
      BY <1>1, <3>1, FragmentCode
  <2>4. ~Returns(FragmentOf(Top))
    <3> SUFFICES ASSUME NEW i \in 1 .. Len(b), b[i].op = "return" PROVE FALSE
      BY DEF Returns
    <3>0. Top.pc \in Nat /\ Top.pc > Len(d) + 1 + Len(b)
      BY <1>1, <2>3 DEF Frames
    <3>1. PICK o \in Nat, n \in Nat, p \in Nat : o = Len(d) + 1 /\ n = Len(b) /\ p = Top.pc
      BY <2>3, <3>0
    <3>2. i \in 1 .. n /\ p > o + n
      BY <3>0, <3>1
    <3>3. o + i \in 1 .. p - 1
      BY <3>2
    <3>4. Code(Top)[o + i].op = "return"
      BY <2>3, <3>1
    <3> QED
      BY <2>2, <3>1, <3>3, <3>4 DEF Passed
  <2>5. AllInstances[Top.inst].ret[Top.frag] = VoidTy
    BY <1>1, <1>2, <2>4 DEF FrameReturns
  <2> QED
    BY <1>3, <2>5, TypesNamed DEF Deduced
<1>4. CASE TypedReturns # {}
  <2>1. TypedReturns \subseteq Nat
    BY DEF TypedReturns
  <2>2. Min(TypedReturns) \in TypedReturns
    BY <1>4, <2>1, MinIsLeast
  <2>3. Top.rets[Min(TypedReturns)] # NoType
    BY <2>2 DEF TypedReturns
  <2> QED
    BY <1>4, <2>3 DEF Deduced
<1> QED
  BY <1>3, <1>4

(* A diagnostic about a mismatch spells no null type. *)
LEMMA MismatchSound ==
  ASSUME IInv, Sound, MismatchingReturns \/ MismatchingFragments
  PROVE  CoreOutcome
<1>1. /\ AtEnd /\ Deduced # NoType
      /\ Top = stack[Len(stack)] /\ Len(stack) \in 1 .. Len(stack)
      /\ Top.inst # 0 /\ Top.frag \in 1 .. Len(AllInstances[Top.inst].frags) /\ Top.frag \in Nat
  BY DeducedTyped, FragmentEnds DEF MismatchingReturns, MismatchingFragments, Frames
<1>2. FrameReturns(Top) /\ AllTyped(Top.rets)
  BY <1>1 DEF Sound, FrameSound, FrameTyped
<1>3. ASSUME NEW ts, NoType \notin ts, Reject(ts) PROVE CoreOutcome
  BY <1>3 DEF Reject, CoreOutcome, Harmless, Rejections
<1>4. CASE MismatchingReturns
  <2>1. PICK j \in Mismatches : Reject({ Top.rets[j], Top.rets[Min(TypedReturns)] })
    BY <1>4 DEF MismatchingReturns
  <2>2. Top.rets[j] # NoType
    BY <1>2 DEF Mismatches, AllTyped
  <2>3. TypedReturns # {} /\ TypedReturns \subseteq Nat
    BY <1>2, <2>2 DEF Mismatches, TypedReturns
  <2>4. Top.rets[Min(TypedReturns)] # NoType
    <3>1. Min(TypedReturns) \in TypedReturns
      BY <2>3, MinIsLeast
    <3> QED
      BY <3>1 DEF TypedReturns
  <2> QED
    BY <1>3, <2>1, <2>2, <2>4
<1>5. CASE MismatchingFragments
  <2>1. Top.frag # 1 /\ Reject({ Deduced, getReturnType(Top.inst) })
    BY <1>5 DEF MismatchingFragments, Agrees
  <2>2. getReturnType(Top.inst) # NoType
    <3>1. 1 \in 1 .. Top.frag - 1
      BY <1>1, <2>1
    <3> QED
      BY <1>2, <3>1 DEF FrameReturns
  <2> QED
    BY <1>1, <1>3, <2>1, <2>2
<1> QED
  BY <1>4, <1>5

(* One of the return types of an instance is set. *)
LEMMA ReturnTypesAre ==
  ASSUME Typed, Sized, src' = src, NEW i \in 1 .. Len(AllInstances),
         NEW k \in 1 .. Len(AllInstances[i].frags), NEW t \in AnyType,
         AllInstances' = [ AllInstances EXCEPT ![i].ret[k] = t ]
  PROVE  /\ SameCodes /\ Len(AllInstances') = Len(AllInstances)
         /\ \A j \in 1 .. Len(AllInstances) : j # i => SameInstance(j)
         /\ AllInstances'[i].params = AllInstances[i].params
         /\ AllInstances'[i].frags = AllInstances[i].frags
         /\ Len(AllInstances'[i].ret) = Len(AllInstances[i].frags)
         /\ \A j \in 1 .. Len(AllInstances[i].frags) :
              AllInstances'[i].ret[j] = IF j = k THEN t ELSE AllInstances[i].ret[j]
<1>1. /\ KeepsCodes /\ Len(AllInstances') = Len(AllInstances)
      /\ \A j \in 1 .. Len(AllInstances) :
           /\ AllInstances'[j].params = AllInstances[j].params
           /\ j # i => AllInstances'[j].ret = AllInstances[j].ret
  BY ReturnTypeSet
<1>2. SameCodes /\ AllInstances'[i].frags = AllInstances[i].frags
  BY <1>1 DEF KeepsCodes, SameCodes
<1>3. /\ AllInstances[i] \in Instances /\ AllInstances \in Seq(Instances)
      /\ Len(AllInstances[i].ret) = Len(AllInstances[i].frags)
  BY ElementOfSeq DEF Typed, Sized
<1>4. AllInstances'[i].ret = [ AllInstances[i].ret EXCEPT ![k] = t ]
  <2>1. AllInstances' = [ AllInstances EXCEPT ![i] = [ AllInstances[i] EXCEPT !.ret = [ AllInstances[i].ret EXCEPT ![k] = t ] ] ]
    OBVIOUS
  <2>2. AllInstances'[i] = [ AllInstances[i] EXCEPT !.ret = [ AllInstances[i].ret EXCEPT ![k] = t ] ]
    BY <1>3, <2>1
  <2> QED
    BY <1>3, <2>2 DEF Instances
<1>5. /\ Len(AllInstances'[i].ret) = Len(AllInstances[i].ret)
      /\ \A j \in 1 .. Len(AllInstances[i].ret) :
           AllInstances'[i].ret[j] = IF j = k THEN t ELSE AllInstances[i].ret[j]
  <2>1. AllInstances[i].ret \in Seq(AnyType)
    BY <1>3 DEF Instances
  <2>2. k \in 1 .. Len(AllInstances[i].ret)
    BY <1>3
  <2>3. PICK s \in Seq(AnyType) : s = AllInstances[i].ret
    BY <2>1
  <2>4. /\ [ s EXCEPT ![k] = t ] \in Seq(AnyType) /\ Len([ s EXCEPT ![k] = t ]) = Len(s)
        /\ \A j \in 1 .. Len(s) : [ s EXCEPT ![k] = t ][j] = IF j = k THEN t ELSE s[j]
    BY <2>2, <2>3, ExceptSeq
  <2> QED
    BY <1>4, <2>3, <2>4
<1>6. \A j \in 1 .. Len(AllInstances) : j # i => SameInstance(j)
  BY <1>1 DEF SameInstance
<1> QED
  BY <1>1, <1>2, <1>3, <1>5, <1>6

LEMMA EnterFragmentSound == ASSUME IInv, Sound, EnterFragment PROVE CoreOutcome
<1> DEFINE i        == Top.inst
           params   == AllInstances[Top.inst].frags[Top.frag].params
           typed    == [ x \in 1 .. Len(params) |-> IF x <= Len(Top.args) THEN Top.args[x] ELSE NoType ]
           index(p) == CHOOSE x \in 1 .. Len(params) : params[x] = p
           names    == { params[x] : x \in 1 .. Len(params) }
           scope    == [ p \in names |-> Variable(typed[index(p)]) ]
<1>1. /\ status = "running" /\ Top.pc = 0 /\ Len(stack) > 1
      /\ IF Len(Top.args) > Len(params) THEN Stop("crashed")
         ELSE IF Cardinality(names) < Len(params) THEN Stop("rejected")
         ELSE /\ AllInstances' = IF Top.frag = 1 THEN [ AllInstances EXCEPT ![i].params = typed ]
                                                 ELSE AllInstances
              /\ Advance([ Top EXCEPT !.pc = 1, !.decls = scope ])
              /\ CurScope' = Len(stack)
              /\ UNCHANGED << src, FunctionDecls, status >>
  BY Zenon DEF EnterFragment
<1>2. /\ Top = stack[Len(stack)] /\ Len(stack) \in 1 .. Len(stack) /\ Len(stack) \in Nat
      /\ Top \in Frames /\ Top.operands = << >> /\ Top.rets = << >>
      /\ i \in 1 .. Len(AllInstances) /\ Len(AllInstances) \in Nat /\ i # 0
      /\ Top.frag \in 1 .. Len(AllInstances[i].frags)
      /\ FragmentOf(Top) \in AllFragments
  BY <1>1, BeforeFragment, Zenon
<1>3. FrameTyped(Top) /\ FrameReturns(Top) /\ FrameTakes(Top)
  BY <1>2 DEF Sound, FrameSound
<1>4. params \in Seq(STRING) /\ Top.args \in Seq(AnyType)
  BY <1>2, FragmentIsCode DEF FragmentOf, Frames
<1>5. Len(params) = Len(Top.args) /\ Len(Top.args) \in Nat
  BY <1>2, <1>3, <1>4, LenProperties DEF FrameTakes
<1>6. ~(Len(Top.args) > Len(params))
  <2> HIDE DEF params
  <2> QED
    BY <1>5
<1>7. CASE Cardinality(names) < Len(params)
  BY <1>1, <1>6, <1>7, Zenon DEF CoreOutcome, Harmless, Rejections
<1>8. CASE ~(Cardinality(names) < Len(params))
  <2>1. /\ AllInstances' = IF Top.frag = 1 THEN [ AllInstances EXCEPT ![i].params = typed ]
                                           ELSE AllInstances
        /\ stack' = [ stack EXCEPT ![Len(stack)] = [ Top EXCEPT !.pc = 1, !.decls = scope ] ]
        /\ UNCHANGED << src, FunctionDecls, status >>
    BY <1>1, <1>6, <1>8, Zenon DEF Advance
  <2>2. typed \in Seq(AnyType) /\ typed = Top.args
    <3>1. PICK n \in Nat : n = Len(params) /\ n = Len(Top.args)
      BY <1>5
    <3> HIDE DEF params
    <3>2. /\ typed \in Seq(AnyType) /\ Len(typed) = Len(params)
      BY <1>4, <1>6, ParameterTypes
    <3>3. \A x \in 1 .. n : x <= n
      OBVIOUS
    <3>4. \A x \in 1 .. Len(typed) : typed[x] = Top.args[x]
      BY <3>1, <3>2, <3>3
    <3>5. Len(typed) = Len(Top.args)
      BY <3>1, <3>2
    <3> HIDE DEF typed
    <3> QED
      BY <1>4, <3>2, <3>4, <3>5, SeqEqual
  <2>3. scope \in Scopes
    <3> HIDE DEF params, typed
    <3>1. Len(typed) = Len(params)
      BY <1>5, <2>2
    <3> QED
      BY <1>4, <2>2, <3>1, ParameterScope
  <2>4. \A x \in DOMAIN scope : \E t : scope[x] = Variable(t) /\ t # NoType
    <3>1. \A x \in names : index(x) \in 1 .. Len(params)
      OBVIOUS
    <3> HIDE DEF params, index
    <3>2. \A x \in names : index(x) \in 1 .. Len(Top.args)
      BY <1>5, <3>1
    <3>3. \A x \in names : Top.args[index(x)] # NoType
      BY <1>3, <3>2 DEF FrameTyped, AllTyped
    <3> HIDE DEF typed
    <3>4. \A x \in names : typed[index(x)] # NoType
      BY <2>2, <3>3
    <3> HIDE DEF names
    <3> QED
      BY <3>4
  <2> HIDE DEF params, typed, index, names, scope
  <2>5. PICK g : g = [ Top EXCEPT !.pc = 1, !.decls = scope ]
    OBVIOUS
  <2>6. /\ g.inst = i /\ g.frag = Top.frag /\ g.args = Top.args /\ g.pc = 1
        /\ g.decls = scope /\ g.operands = << >> /\ g.rets = << >>
    BY <1>2, <2>5 DEF Frames
  <2>7. /\ SameCodes /\ Len(AllInstances') = Len(AllInstances)
        /\ \A j \in 1 .. Len(AllInstances) :
             /\ AllInstances'[j].ret = AllInstances[j].ret
             /\ AllInstances'[j].frags = AllInstances[j].frags
             /\ j # i => AllInstances'[j].params = AllInstances[j].params
        /\ AllInstances'[i].params = IF Top.frag = 1 THEN Top.args ELSE AllInstances[i].params
    <3>1. CASE Top.frag = 1
      <4>1. src' = src /\ AllInstances' = [ AllInstances EXCEPT ![i].params = typed ]
        BY <2>1, <3>1
      <4>2. Typed /\ i \in 1 .. Len(AllInstances) /\ typed \in Seq(AnyType)
        BY <1>2, <2>2 DEF IInv
      <4> HIDE DEF i
      <4>3. /\ KeepsCodes /\ Len(AllInstances') = Len(AllInstances)
            /\ AllInstances'[i].params = typed
            /\ \A j \in 1 .. Len(AllInstances) :
                 /\ AllInstances'[j].decl = AllInstances[j].decl
                 /\ AllInstances'[j].ret = AllInstances[j].ret
                 /\ j # i => AllInstances'[j].params = AllInstances[j].params
        BY <4>1, <4>2, ParametersSet
      <4> QED
        BY <2>2, <3>1, <4>3 DEF KeepsCodes, SameCodes
    <3>2. CASE Top.frag # 1
      <4>1. AllInstances' = AllInstances /\ src' = src
        BY <2>1, <3>2
      <4> QED
        BY <1>2, <3>2, <4>1 DEF SameCodes
    <3> QED
      BY <3>1, <3>2
  <2>8. FrameSound(g)'
    <3>1. FrameTyped(g)'
      <4>1. Len(<< >>) = 0
        OBVIOUS
      <4>2. AllTyped(Top.args) /\ AllTyped(<< >>)
        BY <1>3, <4>1 DEF FrameTyped, AllTyped
      <4> QED
        BY <2>6, <4>1, <4>2 DEF FrameTyped, AllTyped
    <3>2. FrameReturns(g)'
      <4>1. ~Passed(g)'
        BY <2>6 DEF Passed
      <4>2. ~InBody(g)'
        <5>1. FragmentOf(g)' = FragmentOf(Top)
          BY <1>2, <2>6, <2>7 DEF FragmentOf
        <5>2. Len(FragmentOf(Top).domain) \in Nat
          BY <1>2, FragmentIsCode, CodeIsSequence
        <5> QED
          BY <2>6, <5>1, <5>2 DEF InBody
      <4>3. \A j \in 1 .. Top.frag - 1 :
              AllInstances[i].ret[j] # NoType /\ AllInstances[i].ret[j] = AllInstances[i].ret[1]
        BY <1>3 DEF FrameReturns, getReturnType
      <4> QED
        BY <1>2, <2>6, <2>7, <4>1, <4>2, <4>3 DEF FrameReturns, getReturnType
    <3>3. FrameTakes(g)'
      <4>1. AllTyped(AllInstances'[i].params)
        BY <1>2, <1>3, <2>7 DEF FrameTakes, FrameTyped
      <4>2. \A j \in 1 .. Len(AllInstances'[i].frags) : Len(AllInstances'[i].frags[j].params) = Len(Top.args)
        BY <1>2, <1>3, <2>7 DEF FrameTakes
      <4> QED
        BY <2>6, <4>1, <4>2 DEF FrameTakes, AllTyped
    <3> QED
      BY <3>1, <3>2, <3>3 DEF FrameSound
  <2>9. TopSound(g)'
    <3>1. \A x \in DOMAIN g.decls : ~Untyped(g, x)
      BY <2>4, <2>6 DEF Untyped, Variable
    <3> QED
      BY <2>6, <3>1 DEF TopSound, Untyped, LiteralLeft
  <2>10. Labelled(g)'
    <3>1. \A x \in DOMAIN g.decls : \A e : g.decls[x] # Function(e)
      BY <2>4, <2>6, DeclarationsAre
    <3> QED
      BY <3>1 DEF Labelled
  <2>11. /\ KeepsIds /\ stack' = [ stack EXCEPT ![Len(stack)] = g ]
         /\ \A j \in 1 .. Len(AllInstances) : j # i => SameInstance(j)
    BY <2>1, <2>5, <2>7, StackFacts DEF KeepsIds, SameInstance, IInv
  <2>12. Sound'
    BY <2>6, <2>7, <2>8, <2>9, <2>10, <2>11, TopGoesOn
  <2> QED
    BY <1>1, <2>1, <2>12 DEF CoreOutcome
<1> QED
  BY <1>7, <1>8

LEMMA EnterBodySound == ASSUME IInv, Sound, EnterBody PROVE CoreOutcome
<1> DEFINE i == Top.inst
<1>1. /\ status = "running" /\ Top.pc \in 1 .. Len(Code(Top)) /\ Code(Top)[Top.pc].op = "body"
      /\ Top = stack[Len(stack)] /\ Len(stack) \in 1 .. Len(stack) /\ Len(stack) \in Nat
      /\ Top \in Frames /\ Top.pc \in Nat \ { 0 } /\ Len(AllInstances) \in Nat
  <2>1. At("body") /\ Typed /\ Sized /\ Stacked
    BY DEF EnterBody, IInv
  <2>2. status = "running" /\ Top.pc \in 1 .. Len(Code(Top)) /\ Code(Top)[Top.pc].op = "body"
    BY <2>1 DEF At, Step
  <2>3. /\ Top \in Frames /\ Len(AllInstances) \in Nat
        /\ Len(stack) \in Nat /\ Len(stack) \in 1 .. Len(stack)
    BY <2>1, StackFacts
  <2>4. Top.pc \in Nat
    BY <2>3 DEF Frames
  <2> QED
    BY <2>2, <2>3, <2>4 DEF Top
<1>2. /\ Len(stack) > 1 /\ i \in 1 .. Len(AllInstances) /\ Top.frag \in 1 .. Len(AllInstances[i].frags)
  BY BodyAhead DEF EnterBody
<1>3. PICK g : g = [ Top EXCEPT !.pc = @ + 1, !.operands = << >> ]
  OBVIOUS
<1>4. /\ stack' = [ stack EXCEPT ![Len(stack)] = g ]
      /\ UNCHANGED << src, CurScope, FunctionDecls, status >>
  BY <1>3 DEF EnterBody, Advance
<1>5. /\ g.inst = i /\ g.frag = Top.frag /\ g.args = Top.args /\ g.pc = Top.pc + 1
      /\ g.decls = Top.decls /\ g.operands = << >> /\ g.rets = Top.rets
  BY <1>1, <1>3 DEF Frames
<1>6. i # 0 /\ FrameTyped(Top) /\ FrameReturns(Top) /\ FrameTakes(Top) /\ TopSound(Top) /\ Labelled(Top)
  BY <1>1, <1>2 DEF Sound, FrameSound
<1>7. /\ SameCodes /\ Len(AllInstances') = Len(AllInstances)
      /\ \A j \in 1 .. Len(AllInstances) : j # i => SameInstance(j)
      /\ AllInstances'[i].params = AllInstances[i].params
      /\ AllInstances'[i].frags = AllInstances[i].frags
      /\ \A j \in 1 .. Len(AllInstances[i].frags) :
           j # Top.frag => AllInstances'[i].ret[j] = AllInstances[i].ret[j]
      /\ ~Returns(FragmentOf(Top)) => AllInstances'[i].ret[Top.frag] = VoidTy
  <2>1. CASE Returns(FragmentOf(Top))
    <3>1. AllInstances' = AllInstances
      BY <2>1 DEF EnterBody, Returns, FragmentOf
    <3> QED
      BY <1>1, <1>4, <2>1, <3>1 DEF SameCodes, SameInstance
  <2>2. CASE ~Returns(FragmentOf(Top))
    <3>1. AllInstances' = [ AllInstances EXCEPT ![i].ret[Top.frag] = VoidTy ]
      BY <2>2, Zenon DEF EnterBody, Returns, FragmentOf
    <3>2. PICK t \in AnyType, h \in 1 .. Len(AllInstances) : t = VoidTy /\ h = i
      BY <1>2, BasicTypes
    <3>3. AllInstances' = [ AllInstances EXCEPT ![h].ret[Top.frag] = t ]
      BY <3>1, <3>2
    <3>4. Typed /\ Sized /\ src' = src /\ h \in 1 .. Len(AllInstances) /\ Top.frag \in 1 .. Len(AllInstances[h].frags)
      BY <1>2, <1>4, <3>2 DEF IInv
    <3>5. /\ SameCodes /\ Len(AllInstances') = Len(AllInstances)
          /\ \A j \in 1 .. Len(AllInstances) : j # h => SameInstance(j)
          /\ AllInstances'[h].params = AllInstances[h].params
          /\ AllInstances'[h].frags = AllInstances[h].frags
          /\ Len(AllInstances'[h].ret) = Len(AllInstances[h].frags)
          /\ \A j \in 1 .. Len(AllInstances[h].frags) :
               AllInstances'[h].ret[j] = IF j = Top.frag THEN t ELSE AllInstances[h].ret[j]
      BY <3>3, <3>4, ReturnTypesAre
    <3> QED
      BY <3>2, <3>4, <3>5
  <2> QED
    BY <2>1, <2>2
<1>8. FragmentOf(g)' = FragmentOf(Top) /\ Code(g)' = Code(Top) /\ Code(g) = Code(Top)
  BY <1>2, <1>4, <1>5, <1>7 DEF FragmentOf, Code
<1>9. FrameTyped(g)'
  <2>1. Len(<< >>) = 0
    OBVIOUS
  <2> QED
    BY <1>5, <1>6, <2>1 DEF FrameTyped, AllTyped
<1>10. FrameReturns(g)'
  <2>1. Passed(g)' => g.rets # << >>
    <3>1. g.pc - 1 = Top.pc
      BY <1>1, <1>5
    <3>2. \A j \in 1 .. Top.pc : j \in 1 .. Top.pc - 1 \/ j = Top.pc
      BY <1>1
    <3>3. Passed(g)' => Passed(Top)
      BY <1>1, <1>8, <3>1, <3>2 DEF Passed
    <3> QED
      BY <1>5, <1>6, <3>3 DEF FrameReturns
  <2>2. ~Returns(FragmentOf(g))' => AllInstances'[g.inst].ret[g.frag] = VoidTy
    <3>1. Returns(FragmentOf(g))' <=> Returns(FragmentOf(Top))
      BY <1>8 DEF Returns
    <3> QED
      BY <1>5, <1>7, <3>1
  <2>3. \A j \in 1 .. g.frag - 1 :
          AllInstances'[g.inst].ret[j] # NoType /\ AllInstances'[g.inst].ret[j] = AllInstances'[g.inst].ret[1]
    <3> SUFFICES ASSUME NEW j \in 1 .. Top.frag - 1
                 PROVE  AllInstances'[i].ret[j] # NoType /\ AllInstances'[i].ret[j] = AllInstances'[i].ret[1]
      BY <1>5
    <3>1. AllInstances[i].ret[j] # NoType /\ AllInstances[i].ret[j] = AllInstances[i].ret[1]
      BY <1>6 DEF FrameReturns, getReturnType
    <3>2. /\ j \in 1 .. Len(AllInstances[i].frags) /\ j # Top.frag
          /\ 1 \in 1 .. Len(AllInstances[i].frags) /\ 1 # Top.frag
      <4>1. Len(AllInstances[i].frags) \in Nat
        BY <1>2, StackFacts, LenProperties DEF IInv, Instances
      <4>2. PICK n \in Nat, h \in 1 .. Len(AllInstances[i].frags) :
              n = Len(AllInstances[i].frags) /\ h = Top.frag
        BY <1>2, <4>1
      <4>3. h \in 1 .. n /\ j \in 1 .. h - 1
        BY <1>2, <4>2
      <4>4. j \in 1 .. n /\ j # h /\ 1 \in 1 .. n /\ 1 # h
        BY <4>3
      <4> QED
        BY <4>2, <4>4
    <3> QED
      BY <1>7, <3>1, <3>2
  <2> QED
    BY <2>1, <2>2, <2>3 DEF FrameReturns, getReturnType
<1>11. FrameTakes(g)'
  BY <1>1, <1>5, <1>6, <1>7 DEF FrameTakes, AllTyped
<1>12. TopSound(g)'
  <2>1. ASSUME NEW x \in DOMAIN g.decls, Untyped(g, x) PROVE UnderWay(g, g.pc, x)'
    <3>1. UnderWay(Top, Top.pc, x)
      BY <1>5, <1>6, <2>1 DEF TopSound, Untyped
    <3>2. Len(Code(Top)) \in Nat
      BY StackFacts, CodeLength, <1>1 DEF IInv
    <3>3. UnderWay(g, g.pc, x)
      <4>1. Top.pc \in Nat /\ Code(g) = Code(Top) /\ g.pc = Top.pc + 1 /\ Code(Top)[Top.pc].op # "init"
        BY <1>1, <1>5, <1>8
      <4> QED
        BY <3>1, <3>2, <4>1, StillUnderWay
    <3> QED
      BY <1>8, <3>3 DEF UnderWay, TypedAt
  <2>2. LiteralLeft(g)'
    <3>1. g.pc - 1 = Top.pc
      BY <1>1, <1>5
    <3> QED
      BY <1>1, <1>8, <3>1 DEF LiteralLeft
  <2> QED
    BY <2>1, <2>2 DEF TopSound, Untyped
<1>13. KeepsIds /\ Labelled(g)'
  <2>1. KeepsIds
    BY <1>4, StackFacts DEF KeepsIds, IInv
  <2> QED
    BY <1>4, <1>5, <1>6, <2>1 DEF Labelled
<1>14. FrameSound(g)'
  BY <1>9, <1>10, <1>11 DEF FrameSound
<1>15. Sound'
  BY <1>4, <1>5, <1>7, <1>12, <1>13, <1>14, TopGoesOn
<1> QED
  BY <1>1, <1>4, <1>15 DEF CoreOutcome

(* What the end of a fragment leaves of its instance. *)
LEMMA EndedFragment ==
  ASSUME IInv, Sound, AtEnd, Agrees, setReturnType, src' = src,
         NEW i, i = Top.inst
  PROVE  /\ i \in 1 .. Len(AllInstances) /\ Top.frag \in 1 .. Len(AllInstances[i].frags) /\ i # 0
         /\ SameCodes /\ Len(AllInstances') = Len(AllInstances)
         /\ \A j \in 1 .. Len(AllInstances) : j # i => SameInstance(j)
         /\ AllInstances'[i].frags = AllInstances[i].frags
         /\ AllTyped(AllInstances'[i].params)
         /\ Len(AllInstances'[i].ret) = Len(AllInstances[i].frags)
         /\ Len(AllInstances[i].frags) \in Nat
         /\ \A j \in 1 .. Top.frag :
              AllInstances'[i].ret[j] # NoType /\ AllInstances'[i].ret[j] = AllInstances'[i].ret[1]
<1>1. /\ Top = stack[Len(stack)] /\ Len(stack) \in 1 .. Len(stack)
      /\ Top.pc # 0 /\ i \in 1 .. Len(AllInstances) /\ i # 0
      /\ Top.frag \in 1 .. Len(AllInstances[i].frags)
      /\ Len(AllInstances[i].frags) \in Nat
  BY FragmentEnds, LenProperties
<1>2. FrameReturns(Top) /\ FrameTakes(Top)
  BY <1>1 DEF Sound, FrameSound
<1>3. PICK t \in AnyType : t = Deduced /\ t # NoType
  BY DeducedType, DeducedTyped
<1>4. AllInstances' = [ AllInstances EXCEPT ![i].ret[Top.frag] = t ]
  BY <1>3 DEF setReturnType
<1>5. /\ SameCodes /\ Len(AllInstances') = Len(AllInstances)
      /\ \A j \in 1 .. Len(AllInstances) : j # i => SameInstance(j)
      /\ AllInstances'[i].params = AllInstances[i].params
      /\ AllInstances'[i].frags = AllInstances[i].frags
      /\ Len(AllInstances'[i].ret) = Len(AllInstances[i].frags)
      /\ \A j \in 1 .. Len(AllInstances[i].frags) :
           AllInstances'[i].ret[j] = IF j = Top.frag THEN t ELSE AllInstances[i].ret[j]
  <2>1. Typed /\ Sized
    BY DEF IInv
  <2> QED
    BY <1>1, <1>4, <2>1, ReturnTypesAre, Zenon
<1>6. PICK n \in Nat : n = Len(AllInstances[i].frags)
  BY <1>1
<1>12. PICK h \in 1 .. n : h = Top.frag
  BY <1>1, <1>6
<1>7. \A j \in 1 .. n : AllInstances'[i].ret[j] = IF j = h THEN t ELSE AllInstances[i].ret[j]
  BY <1>5, <1>6, <1>12
<1>8. \A j \in 1 .. h - 1 : AllInstances[i].ret[j] # NoType /\ AllInstances[i].ret[j] = AllInstances[i].ret[1]
  BY <1>1, <1>2, <1>12 DEF FrameReturns, getReturnType
<1>9. h # 1 => AllInstances[i].ret[1] = t
  BY <1>1, <1>3, <1>12 DEF Agrees, getReturnType
<1>10. ASSUME NEW j \in 1 .. h
       PROVE  AllInstances'[i].ret[j] # NoType /\ AllInstances'[i].ret[j] = AllInstances'[i].ret[1]
  <2>1. /\ j \in 1 .. n /\ 1 \in 1 .. n /\ (j # h => j \in 1 .. h - 1) /\ (h # 1 => 1 \in 1 .. h - 1)
    OBVIOUS
  <2>2. AllInstances'[i].ret[1] = t
    BY <1>7, <1>9, <2>1
  <2>3. CASE j = h
    BY <1>3, <1>7, <2>1, <2>2, <2>3
  <2>4. CASE j # h
    <3>1. AllInstances'[i].ret[j] = AllInstances[i].ret[j]
      BY <1>7, <2>1, <2>4
    <3>2. AllInstances[i].ret[j] # NoType /\ AllInstances[i].ret[j] = AllInstances[i].ret[1]
      BY <1>8, <2>1, <2>4
    <3>3. h # 1
      BY <2>4
    <3> QED
      BY <1>9, <2>2, <3>1, <3>2, <3>3
  <2> QED
    BY <2>3, <2>4
<1>11. AllTyped(AllInstances'[i].params)
  BY <1>1, <1>2, <1>5 DEF FrameTakes
<1> QED
  BY <1>1, <1>5, <1>10, <1>11, <1>12

LEMMA NextFragmentSound == ASSUME IInv, Sound, NextFragment PROVE CoreOutcome
<1>1. /\ status = "running" /\ AtEnd /\ Agrees /\ setReturnType
      /\ Top.frag < Len(AllInstances[Top.inst].frags)
      /\ stack' = [ stack EXCEPT ![Len(stack)] = Frame(Top.inst, Top.frag + 1, Top.args, Top.prev, Top.back) ]
      /\ UNCHANGED << src, CurScope, FunctionDecls, status >>
  BY DEF NextFragment, Fragments, AtEnd, Advance
<1>2. /\ Top = stack[Len(stack)] /\ Len(stack) \in 1 .. Len(stack) /\ Top \in Frames /\ Top.pc # 0
  BY <1>1, FragmentEnds
<1>3. PICK i : i = Top.inst
  OBVIOUS
<1>4. /\ i \in 1 .. Len(AllInstances) /\ Top.frag \in 1 .. Len(AllInstances[i].frags) /\ i # 0
      /\ SameCodes /\ Len(AllInstances') = Len(AllInstances)
      /\ \A j \in 1 .. Len(AllInstances) : j # i => SameInstance(j)
      /\ AllInstances'[i].frags = AllInstances[i].frags
      /\ AllTyped(AllInstances'[i].params)
      /\ Len(AllInstances'[i].ret) = Len(AllInstances[i].frags)
      /\ Len(AllInstances[i].frags) \in Nat
      /\ \A j \in 1 .. Top.frag :
           AllInstances'[i].ret[j] # NoType /\ AllInstances'[i].ret[j] = AllInstances'[i].ret[1]
  BY <1>1, <1>3, EndedFragment
<1>5. FrameTyped(Top) /\ FrameTakes(Top)
  BY <1>2, <1>3, <1>4 DEF Sound, FrameSound
<1>6. PICK g : g = Frame(Top.inst, Top.frag + 1, Top.args, Top.prev, Top.back)
  OBVIOUS
<1>7. /\ g.inst = i /\ g.frag = Top.frag + 1 /\ g.pc = 0 /\ g.args = Top.args
      /\ g.decls = << >> /\ g.operands = << >> /\ g.rets = << >>
  BY <1>3, <1>6 DEF Frame
<1>8. Len(<< >>) = 0 /\ DOMAIN << >> = {}
  OBVIOUS
<1>9. FrameTyped(g)'
  BY <1>5, <1>7, <1>8 DEF FrameTyped, AllTyped
<1>10. FrameReturns(g)'
  <2>1. ~Passed(g)'
    BY <1>7 DEF Passed
  <2>2. ~InBody(g)'
    <3>1. FragmentOf(g)' \in AllFragments
      <4>1. AllInstances[i].frags \in Seq(AllFragments)
        BY <1>4, StackFacts DEF IInv, Instances
      <4>2. Top.frag + 1 \in 1 .. Len(AllInstances[i].frags)
        BY <1>1, <1>3, <1>4
      <4>3. AllInstances[i].frags[Top.frag + 1] \in AllFragments
        BY <4>1, <4>2, ElementOfSeq
      <4> QED
        BY <1>4, <1>7, <4>3 DEF FragmentOf
    <3>2. Len(FragmentOf(g)'.domain) \in Nat
      BY <3>1, FragmentIsCode, CodeIsSequence
    <3> QED
      BY <1>7, <3>2 DEF InBody
  <2>3. \A j \in 1 .. g.frag - 1 :
          AllInstances'[g.inst].ret[j] # NoType /\ AllInstances'[g.inst].ret[j] = AllInstances'[g.inst].ret[1]
    <3>1. Top.frag \in Nat
      BY <1>2 DEF Frames
    <3>2. g.frag - 1 = Top.frag
      BY <1>7, <3>1
    <3> QED
      BY <1>4, <1>7, <3>2
  <2> QED
    BY <2>1, <2>2, <2>3 DEF FrameReturns, getReturnType
<1>11. FrameTakes(g)'
  <2>1. \A j \in 1 .. Len(AllInstances'[i].frags) : Len(AllInstances'[i].frags[j].params) = Len(Top.args)
    BY <1>3, <1>4, <1>5 DEF FrameTakes
  <2> QED
    BY <1>4, <1>7, <2>1 DEF FrameTakes, AllTyped
<1>12. FrameSound(g)'
  BY <1>9, <1>10, <1>11 DEF FrameSound
<1>13. TopSound(g)' /\ Labelled(g)'
  BY <1>7, <1>8 DEF TopSound, LiteralLeft, Labelled
<1>14. KeepsIds
  BY <1>1, StackFacts DEF KeepsIds, IInv
<1>15. Sound'
  <2>1. /\ stack' = [ stack EXCEPT ![Len(stack)] = g ] /\ g.inst = Top.inst
        /\ \A j \in 1 .. Len(AllInstances) : j # Top.inst => SameInstance(j)
    BY <1>1, <1>3, <1>4, <1>6, <1>7
  <2> QED
    BY <1>4, <1>12, <1>13, <1>14, <2>1, TopGoesOn
<1> QED
  BY <1>1, <1>15 DEF CoreOutcome

LEMMA ReturnInstanceSound == ASSUME IInv, Sound, ReturnInstance PROVE CoreOutcome
<1> DEFINE type == IF Top.frag = 1 THEN Deduced ELSE getReturnType(Top.inst)
<1>1. /\ status = "running" /\ AtEnd /\ Agrees /\ setReturnType
      /\ Top.frag = Len(AllInstances[Top.inst].frags)
      /\ UNCHANGED << src, FunctionDecls, status >>
  BY DEF ReturnInstance, Fragments, AtEnd
<1>2. /\ Top = stack[Len(stack)] /\ Len(stack) \in 1 .. Len(stack) /\ Top \in Frames /\ Top.pc # 0
      /\ Len(stack) \in Nat /\ Len(stack) > 1 /\ Len(AllInstances) \in Nat
      /\ \A k \in 1 .. Len(stack) : stack[k] \in Frames /\ stack[k].inst \in 0 .. Len(AllInstances)
  BY <1>1, FragmentEnds, StackFacts DEF IInv, AtEnd
<1>3. PICK i, m : i = Top.inst /\ m = Len(stack) - 1
  OBVIOUS
<1>4. /\ i \in 1 .. Len(AllInstances) /\ Top.frag \in 1 .. Len(AllInstances[i].frags) /\ i # 0
      /\ SameCodes /\ Len(AllInstances') = Len(AllInstances)
      /\ \A j \in 1 .. Len(AllInstances) : j # i => SameInstance(j)
      /\ AllInstances'[i].frags = AllInstances[i].frags
      /\ AllTyped(AllInstances'[i].params)
      /\ Len(AllInstances'[i].ret) = Len(AllInstances[i].frags)
      /\ Len(AllInstances[i].frags) \in Nat
      /\ \A j \in 1 .. Top.frag :
           AllInstances'[i].ret[j] # NoType /\ AllInstances'[i].ret[j] = AllInstances'[i].ret[1]
  BY <1>1, <1>3, EndedFragment
<1>5. PICK f : f = stack[m]
  OBVIOUS
<1>6. PICK g \in Frames :
        /\ m \in 1 .. Len(stack) /\ m \in Nat /\ m < Len(stack)
        /\ SameFrame(g, f) /\ g.decls = f.decls /\ g.rets = f.rets /\ g.pc = f.pc + 1
        /\ Waiting(f) /\ Code(g) = Code(f)
        /\ f.inst # 0 => (InBody(g) <=> InBody(f))
        /\ stack' \in Seq(Frames) /\ Len(stack') = m
        /\ \A k \in 1 .. m : stack'[k] = IF k = m THEN g ELSE stack[k]
        /\ Top' = g
  BY <1>3, <1>5, Returned
<1>7. g = Used(f, 0, << Expr(type) >>)
  <2>1. PICK u, s : u = Used(f, 0, << Expr(type) >>) /\ s = SubSeq(stack, 1, m)
    OBVIOUS
  <2>2. stack' = [ s EXCEPT ![m] = u ]
    BY <1>3, <1>5, <2>1 DEF ReturnInstance
  <2>3. m \in DOMAIN stack'
    <3>1. DOMAIN stack' = 1 .. m
      BY <1>6
    <3> QED
      BY <1>2, <1>3, <3>1
  <2>4. m \in 1 .. m
    BY <1>2, <1>3
  <2>5. stack'[m] = u
    BY <2>2, <2>3
  <2> QED
    BY <1>6, <2>1, <2>4, <2>5
<1>8. type \in AnyType /\ type # NoType
  <2>1. Deduced \in AnyType /\ Deduced # NoType
    BY <1>1, DeducedType, DeducedTyped
  <2>2. getReturnType(Top.inst) \in AnyType
    BY <1>3, <1>4, ReturnTypes DEF IInv
  <2>3. Top.frag # 1 => getReturnType(Top.inst) = Deduced
    BY <1>1 DEF Agrees
  <2> QED
    BY <2>1, <2>2, <2>3
<1> HIDE DEF type
<1>9. /\ f \in Frames /\ f.inst \in 0 .. Len(AllInstances)
      /\ FrameSound(f) /\ Labelled(f) /\ AllSettled(f)
  <2>1. m \in 1 .. Len(stack) - 1
    BY <1>2, <1>3
  <2> QED
    BY <1>2, <1>5, <1>6, <2>1 DEF Sound
<1>10. \A k \in 1 .. m : k \in 1 .. Len(stack) - 1 /\ k \in 1 .. Len(stack) /\ stack[k].inst # i
  <2>1. Placed(Len(stack))
    BY <1>2 DEF IInv, Stacked
  <2>2. \A k \in 1 .. m : k \in 1 .. Len(stack) - 1 /\ k \in 1 .. Len(stack)
    BY <1>2, <1>3
  <2> QED
    BY <1>2, <1>3, <2>1, <2>2 DEF Placed
<1>11. /\ g.inst = f.inst /\ g.frag = f.frag /\ g.args = f.args
       /\ f.pc \in 1 .. Len(Code(f)) /\ Code(f)[f.pc].op \in { "call", "entry" } /\ f.pc \in Nat
       /\ g.pc - 1 = f.pc
  <2>1. f.pc \in Nat
    BY <1>9 DEF Frames
  <2> QED
    BY <1>6, <2>1 DEF SameFrame, Waiting
<1>12. FrameTyped(g)
  <2>0. Expr(type) \in Exprs /\ Expr(type).type # NoType
    BY <1>8, Expressions DEF Expr
  <2>1. PICK e, n : e \in Exprs /\ e = Expr(type) /\ e.type # NoType /\ n = 0
    BY <2>0
  <2>2. << e >> \in Seq(Exprs) /\ AllOfType(<< e >>)
    BY <2>1, OneElement DEF AllOfType
  <2>3. AllOfType(f.operands) /\ AllTyped(f.args) /\ AllTyped(f.rets)
    BY <1>9 DEF FrameSound, FrameTyped, AllOfType
  <2>4. n \in Nat /\ n <= Len(f.operands)
    <3>1. Len(f.operands) \in Nat
      BY <1>9, LenProperties DEF Frames
    <3> QED
      BY <2>1, <3>1
  <2>5. PICK es \in Seq(Exprs) : es = << e >>
    BY <2>2
  <2>6. AllOfType(Used(f, n, es).operands)
    BY <1>9, <2>2, <2>3, <2>4, <2>5, OperandsAfter
  <2>7. g = Used(f, n, es)
    BY <1>7, <2>1, <2>5
  <2> QED
    BY <1>6, <1>11, <2>3, <2>6, <2>7 DEF FrameTyped, AllOfType
<1>13. FrameSound(g)
  <2>1. ASSUME g.inst # 0 PROVE FrameReturns(g) /\ FrameTakes(g)
    <3>1. FrameReturns(f) /\ FrameTakes(f)
      BY <1>9, <1>11, <2>1 DEF FrameSound
    <3>2. FragmentOf(g) = FragmentOf(f)
      BY <1>11 DEF FragmentOf
    <3>3. \A j \in 1 .. g.pc - 1 : j \in 1 .. f.pc - 1 \/ j = f.pc
      BY <1>11
    <3>4. Passed(g) => Passed(f)
      BY <1>6, <1>11, <3>3 DEF Passed
    <3>5. f.pc # 0
      BY <1>11
    <3> QED
      BY <1>6, <1>11, <2>1, <3>1, <3>2, <3>4, <3>5 DEF FrameReturns, FrameTakes
  <2> QED
    BY <1>12, <2>1 DEF FrameSound
<1>14. FrameSound(g)' /\ (TopSound(g)' <=> TopSound(g))
  <2>1. f.inst # i
    <3>1. m \in 1 .. m
      BY <1>2, <1>3
    <3> QED
      BY <1>5, <1>10, <3>1
  <2>2. g.inst # 0 => SameInstance(g.inst)
    BY <1>2, <1>4, <1>9, <1>11, <2>1
  <2> QED
    BY <1>4, <1>6, <1>9, <1>11, <1>13, <2>2, FrameKept
<1>15. TopSound(g)
  <2>1. \A x \in DOMAIN g.decls : ~Untyped(g, x)
    BY <1>6, <1>9 DEF AllSettled, Untyped
  <2>2. LiteralLeft(g)
    BY <1>6, <1>11 DEF LiteralLeft
  <2> QED
    BY <2>1, <2>2 DEF TopSound
<1>16. Labelled(g)'
  BY <1>1, <1>6, <1>9 DEF Labelled
<1>17. ASSUME NEW k \in 1 .. m, k # m
       PROVE  FrameSound(stack[k])' /\ Labelled(stack[k])' /\ AllSettled(stack[k])'
  <2>1. PICK h : h = stack[k]
    OBVIOUS
  <2>2. /\ h \in Frames /\ h.inst \in 0 .. Len(AllInstances) /\ h.inst # i
        /\ FrameSound(h) /\ Labelled(h) /\ AllSettled(h)
    BY <1>2, <1>10, <2>1 DEF Sound
  <2>3. h.inst # 0 => SameInstance(h.inst)
    BY <1>2, <1>4, <2>2
  <2>4. FrameSound(h)'
    BY <1>4, <2>2, <2>3, FrameKept
  <2>5. Labelled(h)' /\ AllSettled(h)'
    BY <1>1, <2>2 DEF Labelled, AllSettled, Untyped
  <2>6. stack'[k] = h
    BY <1>6, <1>17, <2>1
  <2> QED
    BY <2>4, <2>5, <2>6 DEF AllSettled, Untyped
<1>18. \A k \in 1 .. Len(stack') : FrameSound(stack[k])' /\ Labelled(stack[k])'
  <2> SUFFICES ASSUME NEW k \in 1 .. m PROVE FrameSound(stack[k])' /\ Labelled(stack[k])'
    BY <1>6
  <2>1. CASE k = m
    <3>1. stack'[k] = g
      BY <1>6, <2>1
    <3> QED
      BY <1>14, <1>16, <3>1
  <2> QED
    BY <1>17, <2>1
<1>19. \A k \in 1 .. Len(stack') - 1 : AllSettled(stack[k])'
  <2> SUFFICES ASSUME NEW k \in 1 .. m - 1 PROVE AllSettled(stack[k])'
    BY <1>6
  <2>1. k \in 1 .. m /\ k # m
    BY <1>2, <1>3
  <2> QED
    BY <1>17, <2>1
<1>20. ASSUME NEW j \in 1 .. Len(AllInstances'), \A k \in 1 .. Len(stack') : stack'[k].inst # j
       PROVE  Complete(j)'
  <2>1. CASE j = i
    <3>1. \A k \in 1 .. Len(AllInstances'[i].ret) :
            AllInstances'[i].ret[k] # NoType /\ AllInstances'[i].ret[k] = AllInstances'[i].ret[1]
      BY <1>1, <1>3, <1>4
    <3> QED
      BY <1>4, <2>1, <3>1 DEF Complete, getReturnType, AllTyped
  <2>2. CASE j # i
    <3>1. \A k \in 1 .. m : stack[k].inst # j
      <4>1. \A k \in 1 .. m : stack'[k].inst = stack[k].inst
        BY <1>5, <1>6, <1>11
      <4> QED
        BY <1>6, <1>20, <4>1
    <3>2. \A k \in 1 .. Len(stack) : stack[k].inst # j
      <4>1. \A k \in 1 .. Len(stack) : k \in 1 .. m \/ k = Len(stack)
        BY <1>2, <1>3
      <4> QED
        BY <1>2, <1>3, <2>2, <3>1, <4>1
    <3>3. j \in 1 .. Len(AllInstances) /\ Complete(j) /\ SameInstance(j)
      BY <1>4, <2>2, <3>2 DEF Sound
    <3> QED
      BY <3>3 DEF Complete, SameInstance, AllTyped, getReturnType
  <2> QED
    BY <2>1, <2>2
<1>21. TopSound(Top)'
  BY <1>6, <1>14, <1>15
<1>22. Sound'
  BY <1>18, <1>19, <1>20, <1>21 DEF Sound
<1> QED
  BY <1>1, <1>22 DEF CoreOutcome

LEMMA AcceptSound == ASSUME IInv, Sound, Accept PROVE CoreOutcome
<1>1. Len(stack) = 1 /\ CurScope \in 1 .. Len(stack) /\ Placed(1)
  BY StackFacts DEF Accept, IInv, Stacked
<1>2. CurScope = 1
  BY <1>1
<1>3. Stop("accepted")
  BY <1>1, <1>2 DEF Accept, Placed
<1>4. ASSUME NEW i \in 1 .. Len(AllInstances) PROVE Complete(i)
  <2>1. \A k \in 1 .. Len(stack) : stack[k].inst # i
    BY <1>1 DEF Placed
  <2> QED
    BY <2>1 DEF Sound
<1> QED
  BY <1>3, <1>4 DEF CoreOutcome

-----------------------------------------------------------------------------
(* What has been written stays                                             *)

LEMMA FragmentKeepsPrograms ==
  ASSUME IInv, actOnFunctionFragment
  PROVE  KeepsPrograms
<1> DEFINE d == stack[CurScope].decls[Step.id]
           f == d.fd
<1>1. CASE FunctionDecls' = FunctionDecls /\ AllInstances' = AllInstances
  BY <1>1, ProgramsKept
<1>2. CASE Declared(Step.id) /\ d.kind = "function"
  <2>1. FunctionDecls' = [ FunctionDecls EXCEPT ![f].frags = Append(@, Step) ] /\ AllInstances' = AllInstances
    BY <1>2, Zenon DEF actOnFunctionFragment
  <2>2. f \in 1 .. Len(FunctionDecls)
    BY <1>2, StackFacts, DeclaredFunction DEF IInv, Declared
  <2> HIDE DEF f
  <2>3. PICK s : s = Step
    OBVIOUS
  <2> QED
    BY <2>1, <2>2, <2>3, FragmentAppended, Zenon
<1>3. CASE ~Declared(Step.id)
  BY <1>3, FunctionAppended DEF actOnFunctionFragment
<1> QED
  BY <1>1, <1>2, <1>3, Zenon DEF actOnFunctionFragment, Stop

LEMMA CallKeepsPrograms ==
  ASSUME IInv, actOnFunctionCall \/ createEntryPoint
  PROVE  KeepsPrograms /\ src' = src
<1>1. \/ \E how : Stop(how)
      \/ \E fd, tys, n : getOrCreateFunctionInstance(fd, tys, n)
  <2>1. CASE actOnFunctionCall
    <3> DEFINE d == findDecl(Step.id)
    <3>1. CASE d.kind = "none"
      BY <2>1, <3>1 DEF actOnFunctionCall
    <3>2. CASE d.kind = "variable"
      BY <2>1, <3>2 DEF actOnFunctionCall
    <3>3. CASE d.kind = "function"
      BY <2>1, <3>3 DEF actOnFunctionCall
    <3>4. d.kind \in { "none", "variable", "function" }
      BY DeclKind
    <3> QED
      BY <3>1, <3>2, <3>3, <3>4
  <2>2. CASE createEntryPoint
    BY <2>2 DEF createEntryPoint
  <2> QED
    BY <2>1, <2>2
<1>2. \/ UNCHANGED << src, FunctionDecls, AllInstances >>
      \/ (\E new : AllInstances' = Append(AllInstances, new)) /\ UNCHANGED << src, FunctionDecls >>
  BY <1>1 DEF Stop, getOrCreateFunctionInstance, ReuseInstance, Eval, CreateInstance
<1>3. CASE UNCHANGED << src, FunctionDecls, AllInstances >>
  BY <1>3, ProgramsKept
<1>4. ASSUME NEW new, AllInstances' = Append(AllInstances, new), UNCHANGED << src, FunctionDecls >>
      PROVE  KeepsPrograms
  <2>1. /\ AllInstances \in Seq(Instances) /\ Len(AllInstances) \in Nat /\ Len(FunctionDecls) \in Nat
        /\ \A d \in 1 .. Len(FunctionDecls) : Len(FunctionDecls[d].frags) \in Nat
    BY StackFacts, LenProperties DEF IInv, Typed, FuncDecls
  <2>2. Len(AllInstances') = Len(AllInstances) + 1
        /\ \A j \in 1 .. Len(AllInstances) : AllInstances'[j] = AllInstances[j]
    <3> DEFINE S == Instances \cup { new }
    <3>1. AllInstances \in Seq(S) /\ new \in S
      BY <2>1, SeqMonotonic
    <3> HIDE DEF S
    <3> QED
      BY <1>4, <3>1, AppendProperties
  <2> QED
    BY <1>4, <2>1, <2>2 DEF KeepsPrograms
<1> QED
  BY <1>2, <1>3, <1>4

LEMMA FrameKeepsPrograms ==
  ASSUME IInv, EnterFragment \/ EnterBody \/ NextFragment \/ ReturnInstance
  PROVE  KeepsPrograms /\ src' = src
<1>1. PICK i : i = Top.inst
  OBVIOUS
<1>2. FunctionDecls' = FunctionDecls /\ src' = src
  BY Zenon DEF EnterFragment, EnterBody, NextFragment, ReturnInstance, Stop
<1>3. i \in 1 .. Len(AllInstances)
  <2>1. CASE EnterFragment
    BY <1>1, <2>1, BeforeFragment, Zenon DEF EnterFragment
  <2>2. CASE EnterBody
    BY <1>1, <2>2, BodyAhead DEF EnterBody
  <2>3. CASE NextFragment \/ ReturnInstance
    BY <1>1, <2>3, FragmentEnds DEF NextFragment, ReturnInstance
  <2> QED
    BY <2>1, <2>2, <2>3
<1>4. \/ AllInstances' = AllInstances
      \/ \E t : AllInstances' = [ AllInstances EXCEPT ![i].params = t ]
      \/ \E k, t : AllInstances' = [ AllInstances EXCEPT ![i].ret[k] = t ]
  <2>1. CASE EnterFragment
    BY <1>1, <2>1, Zenon DEF EnterFragment, Stop
  <2>2. CASE EnterBody
    BY <1>1, <2>2, Zenon DEF EnterBody
  <2>3. CASE NextFragment \/ ReturnInstance
    BY <1>1, <2>3 DEF NextFragment, ReturnInstance, setReturnType
  <2> QED
    BY <2>1, <2>2, <2>3
<1>5. CASE AllInstances' = AllInstances
  BY <1>2, <1>5, ProgramsKept
<1>6. CASE \E t : AllInstances' = [ AllInstances EXCEPT ![i].params = t ]
  BY <1>2, <1>3, <1>6, ParametersWritten
<1>7. CASE \E k, t : AllInstances' = [ AllInstances EXCEPT ![i].ret[k] = t ]
  BY <1>2, <1>3, <1>7, ReturnTypeWritten
<1> QED
  BY <1>2, <1>4, <1>5, <1>6, <1>7, Zenon

(* No step takes back a fragment, a function or an instance. *)
LEMMA StepKeepsPrograms ==
  ASSUME IInv, [Next]_vars
  PROVE  KeepsPrograms /\ src' = src
<1>0. CASE UNCHANGED << src, FunctionDecls, AllInstances >>
  BY <1>0, ProgramsKept
<1>1. CASE Analysed \/ UNCHANGED vars
  BY <1>0, <1>1 DEF Analysed, vars
<1>2. CASE actOnVariableDecl \/ VariableGetsType \/ actOnReturnStmt \/ Discard
  BY <1>0, <1>2, Zenon DEF actOnVariableDecl, VariableGetsType, actOnReturnStmt, Discard, Stop
<1>3. CASE actOnFunctionFragment
  <2>1. src' = src
    BY <1>3, Zenon DEF actOnFunctionFragment, Stop
  <2> QED
    BY <1>3, <2>1, FragmentKeepsPrograms
<1>4. CASE Literal \/ actOnIdentifier \/ CallPrint
  BY <1>0, <1>4 DEF Literal, actOnIdentifier, CallPrint, Eval, Stop
<1>5. CASE actOnBinaryOperator \/ actOnUnaryOperator \/ actOnArraySubscriptExpr \/ Cast
           \/ CallArray \/ CallAlloca \/ CallExtern \/ CallFunctionType \/ CallExpression
  <2>1. ASSUME NEW ts, NEW crash, NEW valid, NEW n, NEW e, JudgeSpelling(ts, crash, valid, n, e)
        PROVE  UNCHANGED << src, FunctionDecls, AllInstances >>
    BY <2>1, Zenon DEF JudgeSpelling, Reject, Eval, Stop
  <2>2. UNCHANGED << src, FunctionDecls, AllInstances >>
    BY <1>5, <2>1
       DEF Judge, actOnBinaryOperator, actOnUnaryOperator, actOnArraySubscriptExpr, Cast,
           CallArray, CallAlloca, CallExtern, CallFunctionType, CallExpression
  <2> QED
    BY <1>0, <2>2
<1>6. CASE actOnFunctionCall \/ createEntryPoint
  BY <1>6, CallKeepsPrograms
<1>7. CASE EnterFragment \/ EnterBody \/ NextFragment \/ ReturnInstance
  BY <1>7, FrameKeepsPrograms
<1>8. CASE MismatchingReturns \/ MismatchingFragments \/ Accept
  <2>1. \E how : Stop(how)
    BY <1>8, RejectStops DEF MismatchingReturns, MismatchingFragments, Accept
  <2> QED
    BY <1>0, <2>1 DEF Stop
<1> QED
  BY <1>1, <1>2, <1>3, <1>4, <1>5, <1>6, <1>7, <1>8 DEF Next, Walk

-----------------------------------------------------------------------------
(* The invariant                                                           *)

CoreSound == InCore => Sound

LEMMA NothingChanged ==
  ASSUME UNCHANGED << src, stack, FunctionDecls, AllInstances >>
  PROVE  /\ InCore' <=> InCore
         /\ IsCore' <=> IsCore
         /\ Sound' <=> Sound
<1>1. Reached' = Reached
  BY DEF Reached
<1>2. \A s : CoreCode(s)' <=> CoreCode(s)
  BY DEF CoreCode
<1>3. \A s : CallsFunctions(s)' <=> CallsFunctions(s)
  BY DEF CallsFunctions
<1>4. MainHasNoParams' <=> MainHasNoParams
  BY DEF MainHasNoParams
<1>5. InCore' <=> InCore
  BY <1>1, <1>2, <1>4 DEF InCore
<1>6. IsCore' <=> IsCore
  BY <1>1, <1>3, <1>5 DEF IsCore
<1>7. \A f : FrameSound(f)' <=> FrameSound(f)
  <2>1. \A f : (FrameTyped(f)' <=> FrameTyped(f)) /\ (FrameTakes(f)' <=> FrameTakes(f))
    BY DEF FrameTyped, FrameTakes, AllTyped
  <2>2. \A f : /\ FragmentOf(f)' = FragmentOf(f) /\ (InBody(f)' <=> InBody(f))
               /\ (Passed(f)' <=> Passed(f)) /\ (Returns(FragmentOf(f))' <=> Returns(FragmentOf(f)))
    BY DEF FragmentOf, InBody, Passed, Returns, Code
  <2>3. \A f : FrameReturns(f)' <=> FrameReturns(f)
    BY <2>2 DEF FrameReturns, getReturnType
  <2> QED
    BY <2>1, <2>3 DEF FrameSound
<1>8. \A f : Labelled(f)' <=> Labelled(f)
  BY DEF Labelled
<1>9. \A f : TopSound(f)' <=> TopSound(f)
  BY DEF TopSound, UnderWay, TypedAt, LiteralLeft, Code, Untyped
<1>10. \A f : AllSettled(f)' <=> AllSettled(f)
  BY DEF AllSettled, Untyped
<1>11. \A i : Complete(i)' <=> Complete(i)
  BY DEF Complete, AllTyped, getReturnType
<1>12. Top' = Top
  BY DEF Top
<1>13. Sound' <=> Sound
  BY <1>7, <1>8, <1>9, <1>10, <1>11, <1>12 DEF Sound
<1> QED
  BY <1>5, <1>6, <1>13

LEMMA WalkSound == ASSUME IInv, IInv', InCore, Sound, Walk PROVE CoreOutcome
<1>1. CASE actOnVariableDecl \/ VariableGetsType \/ actOnReturnStmt \/ Discard
  BY <1>1, VariableDeclSound, VariableTypeSound, ReturnStmtSound, DiscardSound
<1>2. CASE actOnFunctionFragment
  BY <1>2, FirstFragmentSound, AnotherFragmentSound
<1>3. CASE Literal \/ actOnIdentifier \/ CallPrint \/ actOnBinaryOperator \/ actOnUnaryOperator \/ Cast
  BY <1>3, LiteralSound, IdentifierSound, CallPrintSound, BinaryOperatorSound, UnaryOperatorSound, CastSound
<1>4. CASE actOnArraySubscriptExpr \/ CallArray \/ CallAlloca \/ CallExtern
           \/ CallFunctionType \/ CallExpression
  BY <1>4, NoOthers
<1>5. CASE actOnFunctionCall \/ createEntryPoint
  BY <1>5, FunctionCallSound, EntryPointSound
<1>6. CASE EnterFragment \/ EnterBody \/ MismatchingReturns \/ MismatchingFragments
           \/ NextFragment \/ ReturnInstance \/ Accept
  BY <1>6, EnterFragmentSound, EnterBodySound, MismatchSound, NextFragmentSound,
     ReturnInstanceSound, AcceptSound
<1> QED
  BY <1>1, <1>2, <1>3, <1>4, <1>5, <1>6 DEF Walk

LEMMA InCoreBefore == ASSUME IInv, IInv', [Next]_vars, InCore' PROVE InCore
<1>1. KeepsPrograms /\ src' = src
  BY StepKeepsPrograms
<1>2. /\ Len(AllInstances) \in Nat /\ Len(FunctionDecls) \in Nat
      /\ \A d \in 1 .. Len(FunctionDecls) : Len(FunctionDecls[d].frags) \in Nat
  BY StackFacts, LenProperties DEF IInv, FuncDecls
<1>3. AllInstances' \in Seq(Instances) /\ FunctionDecls' \in Seq(FuncDecls)
  BY DEF IInv, Typed
<1>4. Len(AllInstances') \in Nat /\ Len(FunctionDecls') \in Nat
  BY <1>3, LenProperties
<1>5. ASSUME NEW d \in 1 .. Len(FunctionDecls) PROVE Len(FunctionDecls'[d].frags) \in Nat
  <2>1. d \in 1 .. Len(FunctionDecls')
    BY <1>1, <1>2, <1>4 DEF KeepsPrograms
  <2>2. FunctionDecls'[d] \in FuncDecls
    BY <1>3, <2>1, ElementOfSeq
  <2> QED
    BY <2>2, LenProperties DEF FuncDecls
<1> QED
  BY <1>1, <1>2, <1>4, <1>5, CoreKept

LEMMA StepKeepsCore ==
  ASSUME IInv, IInv', CoreSound, CoreIsSound, [Next]_vars
  PROVE  CoreSound' /\ CoreIsSound'
<1>1. CASE Analysed \/ UNCHANGED vars
  <2>1. UNCHANGED << src, stack, FunctionDecls, AllInstances, status >>
    BY <1>1 DEF Analysed, vars
  <2>2. CoreSound'
    BY <2>1, NothingChanged DEF CoreSound
  <2>3. CoreIsSound'
    <3>1. IsCore' => IsCore
      BY <2>1, NothingChanged
    <3> QED
      BY <2>1, <3>1 DEF CoreIsSound, getReturnType
  <2> QED
    BY <2>2, <2>3
<1>2. CASE Walk
  <2>1. ASSUME InCore' PROVE CoreOutcome
    <3>1. InCore
      BY <2>1, InCoreBefore
    <3> QED
      BY <1>2, <3>1, WalkSound DEF CoreSound
  <2>2. ASSUME InCore' PROVE Sound' /\ CoreIsSound'
    <3>1. CASE status' = "running" /\ Sound'
      BY <3>1 DEF CoreIsSound
    <3>2. ASSUME NEW how, Stop(how)
          PROVE  /\ Sound' /\ status' = how
                 /\ IsCore' <=> IsCore
                 /\ AllInstances' = AllInstances
      <4>1. UNCHANGED << src, stack, FunctionDecls, AllInstances >> /\ status' = how
        BY <3>2 DEF Stop
      <4>2. Sound
        <5>1. InCore
          BY <2>2, InCoreBefore
        <5> QED
          BY <5>1 DEF CoreSound
      <4> QED
        BY <4>1, <4>2, NothingChanged
    <3>3. CASE \E how \in Harmless : Stop(how)
      BY <3>2, <3>3 DEF CoreIsSound, Harmless, Rejections
    <3>4. CASE Stop("crashed") /\ ~ \A s \in Reached : CallsFunctions(s)
      BY <3>2, <3>4 DEF CoreIsSound, IsCore
    <3>5. CASE Stop("accepted") /\ \A i \in 1 .. Len(AllInstances) : Complete(i)
      <4>1. Sound' /\ status' = "accepted" /\ AllInstances' = AllInstances
        BY <3>2, <3>5
      <4>2. ASSUME NEW i \in 1 .. Len(AllInstances)
            PROVE  /\ \A k \in 1 .. Len(AllInstances[i].ret) : AllInstances[i].ret[k] = getReturnType(i)
                   /\ getReturnType(i) # NoType
                   /\ \A p \in 1 .. Len(AllInstances[i].params) : AllInstances[i].params[p] # NoType
        <5>1. Complete(i)
          BY <3>5
        <5>2. 1 \in 1 .. Len(AllInstances[i].ret)
          BY ReturnTypes DEF IInv
        <5> QED
          BY <5>1, <5>2 DEF Complete, AllTyped
      <4> QED
        BY <4>1, <4>2 DEF CoreIsSound, getReturnType
    <3> QED
      BY <2>1, <2>2, <3>1, <3>3, <3>4, <3>5 DEF CoreOutcome
  <2>3. CoreSound'
    BY <2>2 DEF CoreSound
  <2>4. CoreIsSound'
    BY <2>2 DEF CoreIsSound, IsCore
  <2> QED
    BY <2>3, <2>4
<1> QED
  BY <1>1, <1>2 DEF Next

LEMMA InitCore == ASSUME Init, IInv PROVE CoreSound /\ CoreIsSound
<1>1. PICK f : f = [ Frame(0, 1, << >>, 0, 0) EXCEPT !.pc = 1 ]
  OBVIOUS
<1>2. /\ stack = << f >> /\ AllInstances = << >> /\ FunctionDecls = << >> /\ status = "running"
  BY <1>1 DEF Init
<1>3. /\ f.inst = 0 /\ f.pc = 1 /\ f.args = << >> /\ f.decls = << >> /\ f.operands = << >> /\ f.rets = << >>
  BY <1>1 DEF Frame
<1>4. Len(<< f >>) = 1 /\ << f >>[1] = f /\ Len(<< >>) = 0 /\ DOMAIN << >> = {}
  OBVIOUS
<1>5. FrameSound(f) /\ Labelled(f) /\ TopSound(f)
  BY <1>3, <1>4 DEF FrameSound, FrameTyped, AllTyped, Labelled, TopSound, LiteralLeft
<1>6. Top = f
  BY <1>2, <1>4 DEF Top
<1>7. Sound
  BY <1>2, <1>4, <1>5, <1>6 DEF Sound
<1> QED
  BY <1>2, <1>7 DEF CoreSound, CoreIsSound

(* A program that uses only operators and functions, and passes every      *)
(* function the arguments of all its fragments, never makes the compiler   *)
(* use a null type, and if it is accepted every instance has parameter     *)
(* types and one return type in all its fragments.                         *)
THEOREM CoreSoundness == Spec => []CoreIsSound
<1>1. Init => IInv /\ CoreSound /\ CoreIsSound
  BY InitIInv, InitCore
<1>2. IInv /\ CoreSound /\ CoreIsSound /\ [Next]_vars => IInv' /\ CoreSound' /\ CoreIsSound'
  BY StepKeepsIInv, StepKeepsCore
<1> QED
  BY <1>1, <1>2, PTL DEF Spec

(* No two instances of a function that have been entered have the same     *)
(* argument types, recursive as the calls may be.  An instance with a      *)
(* parameter the call had no argument for is found by no call, so that     *)
(* InstancesDiffer excepts it.  In a program of the core, where every call *)
(* has as many arguments as the function has parameters, there is none:    *)
(* each function is analysed once for each list of argument types.         *)
AnalysedOnce ==
  \A i, j \in 1 .. Len(AllInstances) :
    /\ i # j /\ Entered(i) /\ Entered(j)
    /\ AllInstances[i].decl = AllInstances[j].decl
    => AllInstances[i].params # AllInstances[j].params

LEMMA EnteredTyped ==
  ASSUME Sound, NEW i \in 1 .. Len(AllInstances), Entered(i)
  PROVE  AllTyped(AllInstances[i].params)
<1>1. CASE \E k \in 1 .. Len(stack) : stack[k].inst = i
  <2>1. PICK k \in 1 .. Len(stack) : stack[k].inst = i
    BY <1>1
  <2>2. FrameTakes(stack[k])
    BY <2>1 DEF Sound, FrameSound
  <2>3. stack[k].pc # 0 \/ stack[k].frag # 1
    BY <2>1 DEF Entered
  <2> QED
    BY <2>1, <2>2, <2>3 DEF FrameTakes
<1>2. CASE \A k \in 1 .. Len(stack) : stack[k].inst # i
  BY <1>2 DEF Sound, Complete
<1> QED
  BY <1>1, <1>2

THEOREM OneInstance == Spec => [](InstancesDiffer /\ (InCore => AnalysedOnce))
<1>1. IInv => InstancesDiffer
  BY DEF IInv, Unique
<1>2. InstancesDiffer /\ Sound => AnalysedOnce
  BY EnteredTyped DEF InstancesDiffer, AnalysedOnce, AllTyped
<1>3. Init => IInv /\ CoreSound /\ CoreIsSound
  BY InitIInv, InitCore
<1>4. IInv /\ CoreSound /\ CoreIsSound /\ [Next]_vars => IInv' /\ CoreSound' /\ CoreIsSound'
  BY StepKeepsIInv, StepKeepsCore
<1>5. IInv /\ CoreSound => InstancesDiffer /\ (InCore => AnalysedOnce)
  BY <1>1, <1>2 DEF CoreSound
<1> QED
  BY <1>3, <1>4, <1>5, PTL DEF Spec

-----------------------------------------------------------------------------
(* The compiler                                                            *)

(* Code generation reads what Sema has made and changes nothing of it.     *)
LEMMA YieldReads ==
  ASSUME NEW n, NEW ok, NEW instrs, NEW v, Yield(n, ok, instrs, v)
  PROVE  UNCHANGED vars
BY Zenon DEF Yield, Fail

LEMMA GenerateReads == ASSUME Generate PROVE UNCHANGED vars
<1>1. CASE EmitGlobals \/ BeginInstance \/ BeginFragment \/ BranchOnDomain \/ NoDomain
  BY <1>1, Zenon
     DEF EmitGlobals, BeginInstance, BeginFragment, BranchOnDomain, NoDomain, Fail, Skip
<1>2. CASE emitLiteral \/ emitIdentifier \/ emitBinaryOperator \/ emitUnaryOperator \/ emitCast
  BY <1>2, YieldReads, Zenon
     DEF emitLiteral, emitIdentifier, emitBinaryOperator, emitUnaryOperator, emitCast, YieldInstr
<1>3. CASE emitArraySubscriptExpr \/ emitArray \/ emitAlloca \/ emitExtern \/ emitFunctionType
  BY <1>3, YieldReads, Zenon
     DEF emitArraySubscriptExpr, emitArray, emitAlloca, emitExtern, emitFunctionType, YieldInstr
<1>4. CASE emitPrint \/ emitFunctionCall \/ emitExternCall
  BY <1>4, YieldReads, Zenon DEF emitPrint, emitFunctionCall, emitExternCall, YieldInstr, Fail
<1>5. CASE emitStatement \/ emitNothing \/ emitVariableDecl \/ InitGlobal \/ emitReturnStmt \/ RetVoid
  BY <1>5, Zenon
     DEF emitStatement, emitNothing, emitVariableDecl, InitGlobal, emitReturnStmt, RetVoid, Fail, Skip
<1>6. CASE MoveToNextDomain \/ EndInstance \/ CreateMain \/ CallEntryPoint \/ verifyModule
  BY <1>6, Zenon
     DEF MoveToNextDomain, EndInstance, CreateMain, CallEntryPoint, verifyModule, Fail
<1> QED
  BY <1>1, <1>2, <1>3, <1>4, <1>5, <1>6 DEF Generate

LEMMA CompilerSteps == ASSUME [CompilerNext]_allVars PROVE [Next]_vars
BY GenerateReads DEF CompilerNext, Analyse, Next, allVars

(* A run of the compiler is one of Sema, with steps of the generator in    *)
(* which Sema's data stay as they are.                                     *)
THEOREM CompilerAnalyses == CompilerSpec => Init /\ [][Next]_vars
<1>1. CompilerInit => Init
  BY DEF CompilerInit
<1>2. [CompilerNext]_allVars => [Next]_vars
  BY CompilerSteps
<1> QED
  BY <1>1, <1>2, PTL DEF CompilerSpec

(* So what holds of Sema holds until the module is written: the generator  *)
(* finds the types, scopes, instances and names Sema has made.             *)
THEOREM CompilerSafe ==
  CompilerSpec => [](TypeOK /\ ScopesNeverBroken /\ LexicalScoping /\ InstancesDiffer /\ IdsDistinct)
<1>1. Init => IInv /\ Named
  BY InitIInv, InitNames
<1>2. IInv /\ Named /\ [Next]_vars => IInv' /\ Named'
  BY StepKeepsIInv, StepKeepsNames
<1>3. IInv /\ Named
        => TypeOK /\ ScopesNeverBroken /\ LexicalScoping /\ InstancesDiffer /\ IdsDistinct
  BY TypesFollow, ScopesFollow, NamesDiffer DEF IInv, Typed, Rejections, ScopesNeverBroken, Unique
<1> QED
  BY <1>1, <1>2, <1>3, CompilerAnalyses, PTL

(* The type that a call was given while it was analysed is the return type *)
(* of the instance when the generator declares it.                         *)
THEOREM CompilerReturnsFinal == CompilerSpec => ReturnTypeIsFinal
<1>1. Init => IInv
  BY InitIInv
<1>2. IInv /\ [Next]_vars => IInv'
  BY StepKeepsIInv
<1>3. IInv /\ [Next]_vars
        => [ \A i \in 1 .. Len(AllInstances) :
               getReturnType(i) # NoType => AllInstances'[i].ret[1] = getReturnType(i) ]_vars
  BY StepKeepsReturnTypes DEF KeepsReturnTypes
<1> QED
  BY <1>1, <1>2, <1>3, CompilerAnalyses, PTL DEF ReturnTypeIsFinal

(* So the generator is given such instances. *)
THEOREM CompilerCoreSoundness == CompilerSpec => []CoreIsSound
<1>1. Init => IInv /\ CoreSound /\ CoreIsSound
  BY InitIInv, InitCore
<1>2. IInv /\ CoreSound /\ CoreIsSound /\ [Next]_vars => IInv' /\ CoreSound' /\ CoreIsSound'
  BY StepKeepsIInv, StepKeepsCore
<1> QED
  BY <1>1, <1>2, CompilerAnalyses, PTL

=============================================================================
