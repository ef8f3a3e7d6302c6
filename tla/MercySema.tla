----------------------------- MODULE MercySema -----------------------------
(***************************************************************************)
(* Semantic analysis of the mercy compiler (mercy/src/Sema.cpp): scopes,   *)
(* the types of expressions, and the instances of functions, each of which *)
(* is a template that is analysed anew for every list of argument types.   *)
(*                                                                         *)
(* Sema walks the syntax tree by recursion, and a call to a function not   *)
(* yet instantiated for its arguments starts a walk of that function.  The *)
(* tree is given in the order it is visited: a step per node, operands     *)
(* before their operator, "let" before and "init" after an initializer.    *)
(* The C++ stack is the variable stack: a frame per instance in progress,  *)
(* with the Scope that is a local variable of getOrCreateFunctionInstance, *)
(* and the global scope of run at the bottom.  A pointer to a scope is an  *)
(* index into the stack, 0 the null pointer.                               *)
(*                                                                         *)
(* A type is a sequence of words, so that equal types are equal pointers   *)
(* as Type.cpp interns them.  The widths of the integers are abstracted    *)
(* (int is signed, uint unsigned), and so is the wording of diagnostics but*)
(* for the types they spell.  The parameter types of function types are    *)
(* dropped: types that differ in them alone are one type here, and two in  *)
(* the program where it compares them: the elements of an array, arguments *)
(* with those of an instance, and what several statements return.          *)
(***************************************************************************)
EXTENDS Integers, SequencesExt

CONSTANTS
  Sources,    \* translation units to analyse: sequences of steps
  Parts,      \* bodies and domains of their fragments
  Height(_),  \* operands there are before each step of such a code
  MaxDepth    \* frames the compiler's own stack has room for

(* The operands a step takes, and whether it leaves its value as one.      *)
Arity(s) ==
  CASE s.op \in { "binary", "subscript" } -> 2
    [] s.op \in { "not", "return", "discard", "init", "body" } -> 1
    [] s.op \in { "cast", "array", "alloca", "extern", "function_type", "print", "call" } -> s.n
    [] s.op = "callee" -> s.n + 1
    [] OTHER -> 0

IsExpression(op) ==
  op \notin { "let", "init", "fragment", "return", "discard", "body" }

-----------------------------------------------------------------------------
(* Types *)

Words == { "void", "bool", "int", "uint", "string", "meta", "array", "function",
           "type", "extern" }

NoType          == << >>
VoidTy          == << "void" >>
BoolTy          == << "bool" >>
IntTy           == << "int" >>
UintTy          == << "uint" >>
StringTy        == << "string" >>
MetaTy          == << "meta" >>
ArrayType(t)    == << "array" >> \o t
FunctionType(t) == << "function" >> \o t

isBuiltinType(t)  == t \in { VoidTy, BoolTy, IntTy, UintTy, StringTy }
isInteger(t)      == t \in { IntTy, UintTy }
isArrayType(t)    == t # NoType /\ Head(t) = "array"
isFunctionType(t) == t # NoType /\ Head(t) = "function"

(* toString knows no name for string, and dereferences what an array or a  *)
(* function type is made of, which may be null.                            *)
HasName(t) == << Last(t) >> \in { VoidTy, BoolTy, IntTy, UintTy, MetaTy }

(* What Sema knows of an expression: its type, whether isLValue, and its   *)
(* compile-time value if it has one.                                       *)
NoValue       == << >>
TypeValue(t)  == << "type" >> \o t
ExternFunc(t) == << "extern" >> \o t
isValueOf(what, v) == v # NoValue /\ Head(v) = what

Expr(t)         == [ type |-> t, lvalue |-> FALSE, value |-> NoValue ]
LValue(t)       == [ type |-> t, lvalue |-> TRUE,  value |-> NoValue ]
Constexpr(t, v) == [ type |-> t, lvalue |-> FALSE, value |-> v ]

-----------------------------------------------------------------------------
(* What the parser makes of a program: every step has its operands, the    *)
(* body and the domain of a fragment are codes themselves, a domain is an  *)
(* expression, and so is the initializer every variable has.  Compile-time *)
(* values are types, numbers and strings.                                  *)
Codes    == Sources \cup Parts
AnyType  == Seq(Words)
AnyValue == { v \in Seq(Words) : isValueOf("extern", v) => Len(v) > 1 }

FragmentsIn(c) == { c[i] : i \in { j \in 1 .. Len(c) : c[j].op = "fragment" } }

WellFormed(s) ==
  /\ s.op \in { "let", "init", "fragment", "identifier", "call" } => s.id \in STRING
  /\ s.op = "literal" => s.type \in { IntTy, StringTy, MetaTy } /\ s.value \in AnyValue
  /\ s.op = "cast" => isBuiltinType(s.type)
  /\ s.op = "callee" => s.n \in Nat
  /\ s.op \notin { "entry", "body" }
  /\ Arity(s) \in Nat

(* The variable of a let gets its value at n. *)
InitializedAt(c, i, n) ==
  /\ c[n].op = "init" /\ c[n].id = c[i].id
  /\ \A j \in i + 1 .. n - 1 : IsExpression(c[j].op)

ASSUME SourceAssumption ==
  /\ MaxDepth \in Nat \ { 0 }
  /\ \A c \in Codes :
       LET height == Height(c) IN
         /\ Len(c) \in Nat /\ c = [ i \in 1 .. Len(c) |-> c[i] ]
         /\ height[1] = 0
         /\ \A i \in 1 .. Len(c) :
              /\ WellFormed(c[i])
              /\ c[i].op = "let" => \E n \in i + 1 .. Len(c) : InitializedAt(c, i, n)
              /\ height[i] \in Nat /\ height[i] >= Arity(c[i])
              /\ height[i + 1] = height[i] - Arity(c[i])
                                   + IF IsExpression(c[i].op) THEN 1 ELSE 0
  /\ \A f \in UNION { FragmentsIn(c) : c \in Codes } :
       /\ f.params \in Seq(STRING)
       /\ f.body \in Parts /\ f.domain \in Parts
       /\ \A i \in 1 .. Len(f.domain) : IsExpression(f.domain[i].op)

VARIABLES
  src,            \* the translation unit
  stack,          \* frames of the walk, the translation unit first
  CurScope,       \* the scope names are looked up from
  FunctionDecls,  \* functions: their name and the fragments seen so far
  AllInstances,   \* instances, in the order they were created
  status          \* "running", or how the analysis ended

vars == << src, stack, CurScope, FunctionDecls, AllInstances, status >>

(* "rejected" is emitError, "unnamed" the same where the diagnostic would  *)
(* spell a type that has no name (toString does not return), "crashed" a   *)
(* null type that is dereferenced, a failed cast or assertion about an     *)
(* unimplemented feature, "overflowed" a full stack, "broken" a failed     *)
(* assertion about the scopes themselves.                                  *)
Rejections == { "rejected", "unnamed" }
Ended == status \in { "accepted", "crashed", "overflowed", "broken" } \cup Rejections

(* The frame of fragment frag of an instance; pc 0 is the loop's head.     *)
Frame(inst, frag, args, prev, back) ==
  [ inst |-> inst, frag |-> frag, pc |-> 0, args |-> args,
    prev |-> prev,         \* the enclosing scope
    back |-> back,         \* PrevScope, to return to
    decls |-> << >>,       \* names declared in the scope
    operands |-> << >>,    \* expressions analysed and not yet used
    rets |-> << >> ]       \* types of the return statements so far

Variable(t)  == [ kind |-> "variable", type |-> t ]
Function(fd) == [ kind |-> "function", fd |-> fd ]
Undeclared   == [ kind |-> "none" ]

Top == stack[Len(stack)]

(* The steps of a frame: a fragment's domain, where it has one, its body   *)
(* and before it the look ahead for return statements.                     *)
Code(frame) ==
  IF frame.inst = 0
    THEN src \o << [ op |-> "entry" ] >>
    ELSE LET f == AllInstances[frame.inst].frags[frame.frag]
         IN  f.domain \o << [ op |-> "body" ] >> \o f.body

Step == Code(Top)[Top.pc]
At(op) ==
  /\ status = "running"
  /\ Top.pc \in 1 .. Len(Code(Top))
  /\ Step.op = op

(* Operand i of the n of this step. *)
Operand(i, n) == Top.operands[Len(Top.operands) - n + i]
Types(n)      == [ i \in 1 .. n |-> Operand(i, n).type ]

Stop(how) ==
  /\ status' = how
  /\ UNCHANGED << src, stack, CurScope, FunctionDecls, AllInstances >>

(* The frame after a step that used n operands and produced es. *)
Used(frame, n, es) ==
  [ frame EXCEPT !.pc = @ + 1,
                 !.operands = SubSeq(@, 1, Len(@) - n) \o es ]

Advance(frame) == stack' = [ stack EXCEPT ![Len(stack)] = frame ]

Eval(n, e) ==
  /\ Advance(Used(Top, n, << e >>))
  /\ UNCHANGED << src, CurScope, FunctionDecls, AllInstances, status >>

-----------------------------------------------------------------------------
(* Scopes *)

(* The first of the scopes S from the current one outwards, or the null    *)
(* pointer.                                                                *)
Search(S) ==
  LET from[s \in 0 .. Len(stack)] ==
        IF s = 0 \/ s \in S THEN s ELSE from[stack[s].prev]
  IN  from[CurScope]

findScope(id) == Search({ s \in 1 .. Len(stack) : id \in DOMAIN stack[s].decls })

findDecl(id) ==
  LET s == findScope(id)
  IN  IF s = 0 THEN Undeclared ELSE stack[s].decls[id]

(* Seeded faults: the enclosing scope taken for the one of the caller, and *)
(* looked for in the current scope alone.                                  *)
findScopeOfCaller(fd) == CurScope
findScopeNearby(fd) ==
  IF \E id \in DOMAIN stack[CurScope].decls : stack[CurScope].decls[id] = Function(fd)
    THEN CurScope ELSE 0

findScopeOfDecl(fd) ==
  Search({ s \in 1 .. Len(stack) :
             \E id \in DOMAIN stack[s].decls : stack[s].decls[id] = Function(fd) })

(* Seeded fault: local functions named like global ones. *)
makeNoScopeName(s) == << >>

(* Full names are sequences of (name, number) pairs: the scope of f.0 in   *)
(* the global scope has the name of its instance, ".f.0".                  *)
makeFullScopeName(s) == IF stack[s].inst = 0 THEN << >> ELSE AllInstances[stack[s].inst].id

Declared(id) == id \in DOMAIN stack[CurScope].decls

With(decls, id, d) ==
  [ x \in DOMAIN decls \cup { id } |-> IF x = id THEN d ELSE decls[x] ]

(* insertDecl comes before the initializer, whose type the variable takes  *)
(* when it is known.                                                       *)
actOnVariableDecl ==
  /\ At("let")
  /\ IF Declared(Step.id)
       THEN Stop("rejected")
       ELSE /\ stack' = [ stack EXCEPT
                            ![CurScope].decls = With(@, Step.id, Variable(NoType)),
                            ![Len(stack)].pc = @ + 1 ]
            /\ UNCHANGED << src, CurScope, FunctionDecls, AllInstances, status >>

VariableGetsType ==
  /\ At("init")
  /\ Advance([ Used(Top, 1, << >>) EXCEPT !.decls[Step.id] = Variable(Operand(1, 1).type) ])
  /\ UNCHANGED << src, CurScope, FunctionDecls, AllInstances, status >>

(* Another fragment of a function declared in the same scope, or the first.*)
actOnFunctionFragment ==
  /\ At("fragment")
  /\ IF Declared(Step.id)
       THEN LET d == stack[CurScope].decls[Step.id]
            IN  IF d.kind = "function"
                  THEN /\ FunctionDecls' = [ FunctionDecls EXCEPT
                                               ![d.fd].frags = Append(@, Step) ]
                       /\ Advance(Used(Top, 0, << >>))
                       /\ UNCHANGED << src, CurScope, AllInstances, status >>
                  ELSE Stop("rejected")
       ELSE /\ FunctionDecls' = Append(FunctionDecls,
                                       [ id |-> Step.id, frags |-> << Step >> ])
            /\ stack' = [ stack EXCEPT
                            ![CurScope].decls =
                               With(@, Step.id, Function(Len(FunctionDecls) + 1)),
                            ![Len(stack)].pc = @ + 1 ]
            /\ UNCHANGED << src, CurScope, AllInstances, status >>

-----------------------------------------------------------------------------
(* Expressions *)

(* emitError with a diagnostic that spells the types ts. *)
Reject(ts) ==
  Stop(IF NoType \in ts THEN "crashed"
       ELSE IF \A t \in ts : HasName(t) THEN "rejected" ELSE "unnamed")

(* The outcome of checking a node: undefined, an error, or its value e.    *)
JudgeSpelling(ts, crash, valid, n, e) ==
  IF crash THEN Stop("crashed") ELSE IF valid THEN Eval(n, e) ELSE Reject(ts)
Judge(crash, valid, n, e) == JudgeSpelling({}, crash, valid, n, e)

(* Literals, strings and type names, which Sema skips. *)
Literal == At("literal") /\ Eval(0, Constexpr(Step.type, Step.value))

actOnIdentifier ==
  /\ At("identifier")
  /\ LET d == findDecl(Step.id)
     IN  IF d = Undeclared
           THEN Stop("rejected")
           ELSE Eval(0, LValue(IF d.kind = "function" THEN FunctionType(NoType) ELSE d.type))

actOnBinaryOperator ==
  /\ At("binary")
  /\ LET l    == Operand(1, 2)
         r    == Operand(2, 2)
         kind == Step.kind
     IN  Judge(l.type = NoType \/ (isBuiltinType(l.type) /\ r.type = NoType),
               /\ isBuiltinType(l.type)
               /\ l.type = r.type
               /\ kind = "assign" => l.lvalue
               /\ kind = "logical" => l.type = BoolTy
               /\ kind \in { "bit", "compare", "arithmetic" } => isInteger(l.type)
               /\ kind = "bit" => l.type = UintTy,
               2, Expr(IF kind \in { "compare", "logical" } THEN BoolTy ELSE l.type))

actOnUnaryOperator ==
  /\ At("not")
  /\ Judge(FALSE, Operand(1, 1).type = BoolTy, 1, Expr(BoolTy))

actOnArraySubscriptExpr ==
  /\ At("subscript")
  /\ LET arr == Operand(1, 2).type
         idx == Operand(2, 2).type
     IN  JudgeSpelling({ IF isArrayType(arr) THEN idx ELSE arr },
                       arr = NoType \/ (isArrayType(arr) /\ idx = NoType),
                       isArrayType(arr) /\ isInteger(idx),
                       2, LValue(Tail(arr)))

actOnReturnStmt ==
  /\ At("return")
  /\ Advance([ Used(Top, 1, << >>) EXCEPT !.rets = Append(@, Operand(1, 1).type) ])
  /\ UNCHANGED << src, CurScope, FunctionDecls, AllInstances, status >>

(* The value of an expression statement is not used. *)
Discard ==
  /\ At("discard")
  /\ Advance(Used(Top, 1, << >>))
  /\ UNCHANGED << src, CurScope, FunctionDecls, AllInstances, status >>

(* Calls that actOnFunctionCall answers itself: a conversion, the builtin  *)
(* functions, and the callee that is an expression, visited last.          *)
Cast ==
  /\ At("cast")
  /\ LET arg == Operand(1, 1).type
     IN  JudgeSpelling(IF Step.n = 1 THEN { arg, Step.type } ELSE { Step.type },
                       Step.n = 1 /\ ~isBuiltinType(arg),
                       Step.n = 1 /\ isInteger(arg) /\ isInteger(Step.type),
                       Step.n, Expr(Step.type))

CallArray ==
  /\ At("array")
  /\ Judge(FALSE,
           Step.n > 0 /\ \A i \in 1 .. Step.n : Types(Step.n)[i] = Types(Step.n)[1],
           Step.n, Expr(ArrayType(Operand(1, Step.n).type)))

CallAlloca ==
  /\ At("alloca")
  /\ LET elem == Operand(1, 2)
     IN  Judge(Step.n = 2 /\ ~(elem.type = MetaTy /\ elem.value # NoValue),
               Step.n = 2 /\ isBuiltinType(Tail(elem.value)) /\ elem.value # TypeValue(VoidTy),
               Step.n, Expr(ArrayType(Tail(elem.value))))

CallExtern ==
  /\ At("extern")
  /\ LET symbol == Operand(1, 2).value
         type   == Operand(2, 2).value
         T      == Tail(type)
         named  == Step.n = 2 /\ isValueOf("string", symbol)
     IN  Judge(named /\ type # NoValue /\ ~isValueOf("type", type),
               named /\ type # NoValue /\ (isBuiltinType(T) \/ isFunctionType(T)),
               Step.n, IF isFunctionType(T) THEN Constexpr(T, ExternFunc(T)) ELSE Expr(T))

(* The call has a value and, as its node is made, no type. *)
CallFunctionType ==
  /\ At("function_type")
  /\ LET n     == Step.n
         other == { i \in 1 .. n : Operand(i, n).type # MetaTy }
         null  == { i \in other : Operand(i, n).type = NoType }
     IN  Judge(IF other = {}
                 THEN \E i \in 1 .. n : Operand(i, n).value = NoValue
                 ELSE \E i \in null : \A j \in other : i <= j,
               n > 0 /\ other = {},
               n, Constexpr(NoType, TypeValue(FunctionType(Tail(Operand(1, n).value)))))

CallPrint == At("print") /\ Eval(Step.n, Expr(VoidTy))

CallExpression ==
  /\ At("callee")
  /\ LET callee == Operand(Step.n + 1, Step.n + 1).value
     IN  Judge(callee # NoValue /\ ~isValueOf("extern", callee),
               callee # NoValue,
               Step.n + 1, Expr(Tail(Tail(callee))))

-----------------------------------------------------------------------------
(* Instances of functions *)

InstancesOf(fd) == { i \in 1 .. Len(AllInstances) : AllInstances[i].decl = fd }
getReturnType(i) == AllInstances[i].ret[1]

(* Seeded faults: the return type not looked at, and the call tried again  *)
(* until it is known.                                                      *)
ReuseAnyInstance(i, n) == Eval(n, Expr(getReturnType(i)))
ReuseInstanceLater(i, n) ==
  IF getReturnType(i) # NoType THEN Eval(n, Expr(getReturnType(i)))
  ELSE /\ Advance([ Top EXCEPT !.pc = @ - n, !.operands = SubSeq(@, 1, Len(@) - n) ])
       /\ UNCHANGED << src, CurScope, FunctionDecls, AllInstances, status >>

(* An instance in progress is found too, and refused until its return type *)
(* is known.                                                               *)
ReuseInstance(i, n) ==
  IF getReturnType(i) = NoType THEN Stop("rejected") ELSE Eval(n, Expr(getReturnType(i)))

(* A clone has none of the types that Sema has written into the original. *)
Clone(fd, id) ==
  LET frags    == FunctionDecls[fd].frags
      nulls(s) == [ i \in 1 .. Len(s) |-> NoType ]
  IN  [ decl |-> fd, id |-> id, frags |-> frags,
        params |-> nulls(frags[1].params), ret |-> nulls(frags) ]

CreateInstance(fd, tys, n) ==
  LET FDScope == findScopeOfDecl(fd)
      name    == << FunctionDecls[fd].id, Cardinality(InstancesOf(fd)) >>
  IN  IF FDScope = 0 THEN Stop("broken")
      ELSE IF Len(stack) = MaxDepth THEN Stop("overflowed")
      ELSE
        /\ AllInstances' =
             Append(AllInstances, Clone(fd, makeFullScopeName(FDScope) \o << name >>))
        /\ stack' = Append([ stack EXCEPT ![Len(stack)].operands =
                               SubSeq(@, 1, Len(@) - n) ],
                           Frame(Len(AllInstances) + 1, 1, tys, FDScope, CurScope))
        /\ UNCHANGED << src, CurScope, FunctionDecls, status >>

(* Seeded fault: only the latest instance is compared. *)
getLatestFunctionInstance(fd, tys, n) ==
  LET same == { i \in InstancesOf(fd) : AllInstances[i].params = tys
                                         /\ \A j \in InstancesOf(fd) : j <= i }
  IN  \/ \E i \in same : ReuseInstance(i, n)
      \/ same = {} /\ CreateInstance(fd, tys, n)

getOrCreateFunctionInstance(fd, tys, n) ==
  LET same == { i \in InstancesOf(fd) : AllInstances[i].params = tys }
  IN  \/ \E i \in same : ReuseInstance(i, n)
      \/ same = {} /\ CreateInstance(fd, tys, n)

actOnFunctionCall ==
  /\ At("call")
  /\ LET d == findDecl(Step.id)
     IN  CASE d.kind = "none"     -> Stop("rejected")
           [] d.kind = "variable" -> Stop("crashed")
           [] d.kind = "function" ->
                getOrCreateFunctionInstance(d.fd, Types(Step.n), Step.n)

createEntryPoint ==
  /\ At("entry")
  /\ IF Declared("main") /\ stack[CurScope].decls["main"].kind = "function"
       THEN getOrCreateFunctionInstance(stack[CurScope].decls["main"].fd, << >>, 0)
       ELSE Stop("rejected")

(* The head of the loop over fragments: the parameters get their types, and*)
(* a new scope, inside the one of the declaration, holds them.  A parameter*)
(* the call has no argument for has no type.                               *)
EnterFragment ==
  /\ status = "running" /\ Top.pc = 0 /\ Len(stack) > 1
  /\ LET params == AllInstances[Top.inst].frags[Top.frag].params
         typed  == [ i \in 1 .. Len(params) |->
                       IF i <= Len(Top.args) THEN Top.args[i] ELSE NoType ]
         index(p) == CHOOSE i \in 1 .. Len(params) : params[i] = p
         names  == { params[i] : i \in 1 .. Len(params) }
     IN  IF Len(Top.args) > Len(params) THEN Stop("crashed")
         ELSE IF Cardinality(names) < Len(params) THEN Stop("rejected")
         ELSE
           /\ AllInstances' = IF Top.frag = 1
                                THEN [ AllInstances EXCEPT ![Top.inst].params = typed ]
                                ELSE AllInstances
           /\ Advance([ Top EXCEPT
                          !.pc = 1,
                          !.decls = [ p \in names |-> Variable(typed[index(p)]) ] ])
           /\ CurScope' = Len(stack)
           /\ UNCHANGED << src, FunctionDecls, status >>

(* Seeded fault: no look ahead, every function starts out as void. *)
EnterBodyAsVoid ==
  /\ At("body")
  /\ AllInstances' = [ AllInstances EXCEPT ![Top.inst].ret[Top.frag] = VoidTy ]
  /\ Advance([ Top EXCEPT !.pc = @ + 1, !.operands = << >> ])
  /\ UNCHANGED << src, CurScope, FunctionDecls, status >>

(* actOnFunctionBody looks ahead: without a return statement the function  *)
(* returns nothing, which recursive calls in its body may rely on.         *)
EnterBody ==
  /\ At("body")
  /\ LET body == AllInstances[Top.inst].frags[Top.frag].body
         HasReturnStmt == \E i \in 1 .. Len(body) : body[i].op = "return"
     IN  AllInstances' = IF HasReturnStmt
                           THEN AllInstances
                           ELSE [ AllInstances EXCEPT ![Top.inst].ret[Top.frag] = VoidTy ]
  /\ Advance([ Top EXCEPT !.pc = @ + 1, !.operands = << >> ])
  /\ UNCHANGED << src, CurScope, FunctionDecls, status >>

(* The end of actOnFunctionBody: the return statements must agree, and the *)
(* first that has a type gives it to the fragment.                         *)
AtEnd == status = "running" /\ Len(stack) > 1 /\ Top.pc > Len(Code(Top))

TypedReturns == { i \in 1 .. Len(Top.rets) : Top.rets[i] # NoType }
Deduced ==
  IF TypedReturns = {} THEN AllInstances[Top.inst].ret[Top.frag]
                       ELSE Top.rets[Min(TypedReturns)]

Mismatches ==
  { j \in 1 .. Len(Top.rets) :
      \E i \in 1 .. j - 1 : Top.rets[i] # NoType /\ Top.rets[i] # Top.rets[j] }

MismatchingReturns ==
  /\ AtEnd
  /\ \E j \in Mismatches :
       /\ \A k \in Mismatches : j <= k
       /\ Reject({ Top.rets[j], Top.rets[Min(TypedReturns)] })

(* Fragments after the first must return what the first does. *)
Agrees == Top.frag = 1 \/ Deduced = getReturnType(Top.inst)

MismatchingFragments ==
  /\ AtEnd /\ Mismatches = {} /\ ~Agrees
  /\ Reject({ Deduced, getReturnType(Top.inst) })

setReturnType == AllInstances' = [ AllInstances EXCEPT ![Top.inst].ret[Top.frag] = Deduced ]

Fragments == Len(AllInstances[Top.inst].frags)

NextFragment ==
  /\ AtEnd /\ Mismatches = {} /\ Agrees /\ Top.frag < Fragments
  /\ setReturnType
  /\ Advance(Frame(Top.inst, Top.frag + 1, Top.args, Top.prev, Top.back))
  /\ UNCHANGED << src, CurScope, FunctionDecls, status >>

(* Seeded fault: PrevScope not restored. *)
ReturnInDeadScope ==
  /\ AtEnd /\ Mismatches = {} /\ Agrees /\ Top.frag = Fragments
  /\ setReturnType
  /\ stack' = [ SubSeq(stack, 1, Len(stack) - 1) EXCEPT
                   ![Len(stack) - 1] =
                      Used(stack[Len(stack) - 1], 0, << Expr(getReturnType(Top.inst)) >>) ]
  /\ UNCHANGED << src, CurScope, FunctionDecls, status >>

(* The instance is complete and the call that asked for it has its type.   *)
ReturnInstance ==
  /\ AtEnd /\ Mismatches = {} /\ Agrees /\ Top.frag = Fragments
  /\ setReturnType
  /\ LET caller == stack[Len(stack) - 1]
         type   == IF Top.frag = 1 THEN Deduced ELSE getReturnType(Top.inst)
     IN  stack' = [ SubSeq(stack, 1, Len(stack) - 1) EXCEPT
                      ![Len(stack) - 1] = Used(caller, 0, << Expr(type) >>) ]
  /\ CurScope' = Top.back
  /\ UNCHANGED << src, FunctionDecls, status >>

(* run asserts that the walk is back in the global scope.                  *)
Accept ==
  /\ status = "running" /\ Len(stack) = 1 /\ Top.pc > Len(Code(Top))
  /\ Stop(IF stack[CurScope].prev = 0 THEN "accepted" ELSE "broken")

-----------------------------------------------------------------------------
Init ==
  /\ src \in Sources
  /\ stack = << [ Frame(0, 1, << >>, 0, 0) EXCEPT !.pc = 1 ] >>
  /\ CurScope = 1
  /\ FunctionDecls = << >>
  /\ AllInstances = << >>
  /\ status = "running"

Walk ==
  \/ actOnVariableDecl \/ VariableGetsType \/ actOnFunctionFragment
  \/ Literal \/ actOnIdentifier \/ actOnBinaryOperator \/ actOnUnaryOperator
  \/ actOnArraySubscriptExpr \/ actOnReturnStmt \/ Discard
  \/ Cast \/ CallArray \/ CallAlloca \/ CallExtern \/ CallFunctionType
  \/ CallPrint \/ CallExpression
  \/ actOnFunctionCall \/ createEntryPoint
  \/ EnterFragment \/ EnterBody
  \/ MismatchingReturns \/ MismatchingFragments \/ NextFragment \/ ReturnInstance
  \/ Accept

Analysed == Ended /\ UNCHANGED vars

Next == Walk \/ Analysed

(* The analysis is a sequential walk: it takes every step it can.          *)
Spec == Init /\ [][Next]_vars /\ WF_vars(Walk)

-----------------------------------------------------------------------------
(* The type invariant.  A frame's scope lies inside an older one, and the  *)
(* current scope is that of a function that has not returned: no pointer   *)
(* to a scope outlives it.                                                 *)
TypeOK ==
  /\ Len(stack) \in 1 .. MaxDepth
  /\ CurScope \in 1 .. Len(stack)
  /\ \A k \in 1 .. Len(stack) :
       /\ stack[k].inst \in 0 .. Len(AllInstances)
       /\ stack[k].inst = 0 <=> k = 1
       /\ stack[k].pc \in 0 .. Len(Code(stack[k])) + 1
       /\ stack[k].prev \in 0 .. k - 1 /\ stack[k].back \in 0 .. k - 1
       /\ \A x \in DOMAIN stack[k].decls :
            LET d == stack[k].decls[x]
            IN  \/ d.kind = "variable" /\ d.type \in AnyType
                \/ d.kind = "function" /\ d.fd \in 1 .. Len(FunctionDecls)
  /\ \A i \in 1 .. Len(AllInstances) :
       AllInstances[i].decl \in 1 .. Len(FunctionDecls)
  /\ Ended \/ status = "running"

(* Names are looked up where a function is written, never where it is      *)
(* called from: the scope around each fragment in progress belongs to the  *)
(* fragment, or the translation unit, whose text contains it.              *)
IsPartOf(code, step) == \E i \in 1 .. Len(code) : code[i] = step
LexicalScoping ==
  \A k \in 2 .. Len(stack) :
    IsPartOf(Code(stack[stack[k].prev]), AllInstances[stack[k].inst].frags[stack[k].frag])

(* A function is analysed once for each list of argument types, however    *)
(* often and from wherever, itself included, it is called: no two of its   *)
(* instances that have been given their argument types have the same.  But *)
(* an instance with a parameter that no argument was passed for is found by*)
(* no call: f(x) is analysed anew each time it is called without arguments.*)
Entered(i) ==
  \A k \in 1 .. Len(stack) :
    stack[k].inst = i /\ stack[k].frag = 1 => stack[k].pc # 0
InstancesDiffer ==
  \A i, j \in 1 .. Len(AllInstances) :
    /\ i # j /\ Entered(i) /\ Entered(j)
    /\ AllInstances[i].decl = AllInstances[j].decl
    /\ AllInstances[i].params = AllInstances[j].params
    => NoType \in { AllInstances[i].params[p] : p \in 1 .. Len(AllInstances[i].params) }

(* Two instances have one name only if two fragments of one function each  *)
(* declare a function of that name.                                        *)
LocalFunctions(f) == { f.body[i].id : i \in { j \in 1 .. Len(f.body) : f.body[j].op = "fragment" } }
SeparateLocals ==
  \A d \in 1 .. Len(FunctionDecls) :
    LET frags == FunctionDecls[d].frags
    IN  \A i, j \in 1 .. Len(frags) :
          i # j => LocalFunctions(frags[i]) \cap LocalFunctions(frags[j]) = {}
IdsDistinct ==
  SeparateLocals =>
    \A i, j \in 1 .. Len(AllInstances) :
      i # j => AllInstances[i].id # AllInstances[j].id

(* The type a call was given is the type the function returns in the end:  *)
(* a return type, once visible to calls, does not change.                  *)
ReturnTypeIsFinal ==
  [][ \A i \in 1 .. Len(AllInstances) :
        getReturnType(i) # NoType => AllInstances'[i].ret[1] = getReturnType(i) ]_vars

(* Programs that use only operators and functions, convert only what is no *)
(* name of a type, pass every function the parameters of all its fragments *)
(* and read no variable that has no type yet: the parts of the program that*)
(* were reached are looked at.                                             *)
CoreOps == { "let", "init", "fragment", "literal", "identifier", "binary", "not",
             "return", "discard", "call", "print", "cast" }

Reached == { src } \cup UNION { UNION { { f.domain, f.body } :
             f \in { AllInstances[i].frags[k] : k \in 1 .. Len(AllInstances[i].frags) } } :
             i \in 1 .. Len(AllInstances) }

CoreCode(s) ==
  /\ \A i \in 1 .. Len(s) :
       /\ s[i].op \in CoreOps
       /\ s[i].op = "cast" =>
            s[i].n = 1 /\ s[i - 1].op = "literal" /\ isBuiltinType(s[i - 1].type)
       /\ s[i].op = "call" =>
            \A d \in 1 .. Len(FunctionDecls) :
              FunctionDecls[d].id = s[i].id =>
                \A k \in 1 .. Len(FunctionDecls[d].frags) :
                  Len(FunctionDecls[d].frags[k].params) = s[i].n
  /\ \A i, j, k \in 1 .. Len(s) :
       i < j /\ j < k /\ s[i].op = "let" /\ s[k].op = "init" /\ s[i].id = s[k].id
         => s[j].op # "call" /\ (s[j].op = "identifier" => s[j].id # s[i].id)

(* No call finds a variable, nor main parameters without an argument.      *)
CallsFunctions(s) ==
  \A i \in 1 .. Len(s) : s[i].op = "call" =>
    \A k \in 1 .. Len(stack) :
      s[i].id \in DOMAIN stack[k].decls => stack[k].decls[s[i].id].kind = "function"

MainHasNoParams ==
  \A d \in 1 .. Len(FunctionDecls) : FunctionDecls[d].id = "main" =>
    \A k \in 1 .. Len(FunctionDecls[d].frags) : FunctionDecls[d].frags[k].params = << >>

InCore == MainHasNoParams /\ \A s \in Reached : CoreCode(s)
IsCore == InCore /\ \A s \in Reached : CallsFunctions(s)

(* Such a program never makes the compiler use a null type, but perhaps in *)
(* spelling one, and if it is accepted every instance has parameter types  *)
(* and one return type in all its fragments.                               *)
CoreIsSound ==
  IsCore =>
    /\ status # "crashed"
    /\ status = "accepted" =>
         \A i \in 1 .. Len(AllInstances) :
           /\ \A k \in 1 .. Len(AllInstances[i].ret) :
                AllInstances[i].ret[k] = getReturnType(i)
           /\ getReturnType(i) # NoType
           /\ \A p \in 1 .. Len(AllInstances[i].params) : AllInstances[i].params[p] # NoType

(* Nor is its stack full, recursive as its functions may be.               *)
CoreFitsStack == InCore => status # "overflowed"

(* The assertions about scopes in getOrCreateFunctionInstance and run hold.*)
ScopesNeverBroken == status # "broken"

(* mercy.md, ODR and scope: "Each parameter and declaration in the body is *)
(* visible from the point of declaration until the end of function".  So   *)
(* functions that are declared apart are compiled apart, under two names.  *)
DocDeclarationsCompiledApart ==
  \A i, j \in 1 .. Len(AllInstances) :
    AllInstances[i].decl # AllInstances[j].decl => AllInstances[i].id # AllInstances[j].id

(* mercy.md: "If a function is called with arguments which are not part of *)
(* any domain, "domain error" is emited": an instance knows every domain.  *)
DocInstancesHaveEveryDomain ==
  status = "accepted" =>
    \A i \in 1 .. Len(AllInstances) :
      AllInstances[i].frags = FunctionDecls[AllInstances[i].decl].frags
=============================================================================
