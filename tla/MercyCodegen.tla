---------------------------- MODULE MercyCodegen ----------------------------
(***************************************************************************)
(* The mercy compiler from semantic analysis to the verifier of LLVM:      *)
(* MercySema, then code generation (mercy/src/Codegen.cpp), which walks the*)
(* instances that Sema has made, and the end of main in mercy.cpp.         *)
(*                                                                         *)
(* What Sema writes into its clones of the syntax tree is the variable     *)
(* links: of each expression its type, of an identifier its declaration,   *)
(* of a call its instance.  A node is named by its instance, its fragment  *)
(* and its place in the code, in the order both passes visit.              *)
(*                                                                         *)
(* An LLVM function is a sequence of blocks, a block of instructions,      *)
(* with the values they use.  Constant folding, the widths of integers and *)
(* the elements of an array are abstracted: storing them is one            *)
(* instruction.                                                            *)
(***************************************************************************)
EXTENDS MercySema

VARIABLES
  links,        \* what Sema has told about the nodes
  funcs,        \* the functions of the module, by name
  Addr,         \* the addresses of the declarations that have one
  InsertPoint,  \* the function and the block Builder appends to
  NextBB,       \* the block after the domain, 0 without a condition
  cur,          \* the node the generator is at: instance, fragment and pc
  values,       \* of the expressions emitted and not yet used, with their type
  verdict       \* "waiting" for Sema, "emitting", or how the compilation ended

genVars == << funcs, Addr, InsertPoint, NextBB, cur, values, verdict >>
allVars == << vars, links, genVars >>

-----------------------------------------------------------------------------
(* Sema's annotations *)

Declaration(id) ==
  LET s == findScope(id)
  IN  IF findDecl(id).kind = "variable"
        THEN << stack[s].inst, stack[s].frag, id >> ELSE << >>

Callee(id, n) ==
  LET same == { i \in InstancesOf(findDecl(id).fd) : AllInstances[i].params = Types(n) }
  IN  IF same = {} THEN Len(AllInstances) + 1 ELSE CHOOSE i \in same : \A j \in same : i <= j

Annotation ==
  [ type |-> IF Step.op \in { "call", "entry" } THEN NoType ELSE Last(Last(stack').operands).type,
    decl |-> IF Step.op = "identifier" THEN Declaration(Step.id) ELSE << >>,
    inst |-> CASE Step.op = "call"  -> Callee(Step.id, Step.n)
               [] Step.op = "entry" -> Callee("main", 0)
               [] OTHER             -> 0 ]

Analyse ==
  /\ Walk
  /\ links' = IF /\ status' = "running"
                 /\ Top.pc \in 1 .. Len(Code(Top))
                 /\ IsExpression(Step.op)
                THEN With(links, << Top.inst, Top.frag, Top.pc >>, Annotation)
                ELSE links
  /\ UNCHANGED genVars

-----------------------------------------------------------------------------
(* LLVM *)

Null     == << "null" >>
Const    == << "const" >>
Extern   == << "global" >>
Argument == << "argument" >>
MainFunc == << >>            \* "main", the instances have longer names

(* Types that a variable can have.  The others have no LLVM type, or one   *)
(* that an alloca, a parameter or a load refuses by an assertion.          *)
Storable(t) ==
  /\ t # NoType
  /\ << Last(t) >> \in { BoolTy, IntTy, UintTy, StringTy }
  /\ \A k \in 1 .. Len(t) - 1 : t[k] = "array"

Instr(op, uses)    == [ op |-> op, uses |-> uses, node |-> cur, to |-> << >> ]
Goto(op, uses, to) == [ Instr(op, uses) EXCEPT !.to = to ]
IsTerminator(I)    == I.op \in { "ret", "br", "unreachable" }

Block(fs) == fs[InsertPoint[1]].blocks[InsertPoint[2]]
Emit(fs, instrs) ==
  [ fs EXCEPT ![InsertPoint[1]].blocks[InsertPoint[2]] = @ \o instrs ]

(* The value of the k-th instruction emitted next. *)
Result(k) == << "instr", InsertPoint[1], InsertPoint[2], Len(Block(funcs)) + k >>

UsesNull(instrs) ==
  \E k \in 1 .. Len(instrs) : \E u \in 1 .. Len(instrs[k].uses) : instrs[k].uses[u] = Null

(* A function without a body, for an instance. *)
Signature(i) ==
  [ params |-> AllInstances[i].params, ret |-> getReturnType(i), blocks |-> << >> ]

HasLLVMType(i) ==
  /\ \A p \in 1 .. Len(Signature(i).params) : Storable(Signature(i).params[p])
  /\ Signature(i).ret = VoidTy \/ Storable(Signature(i).ret)

(* A function that is there already is found by its name alone. *)
getOrInsertInstanceDecl(i) ==
  IF AllInstances[i].id \in DOMAIN funcs THEN funcs
  ELSE With(funcs, AllInstances[i].id, Signature(i))

Fits(i) ==
  /\ HasLLVMType(i)
  /\ getOrInsertInstanceDecl(i)[AllInstances[i].id].params = Signature(i).params

-----------------------------------------------------------------------------
(* The walk *)

GenCode  == Code([ inst |-> cur[1], frag |-> cur[2] ])
GenStep  == GenCode[cur[3]]
GenAt(op) ==
  /\ verdict = "emitting"
  /\ cur[3] \in 1 .. Len(GenCode)
  /\ GenStep.op = op

After == << cur[1], cur[2], cur[3] + 1 >>

Fail(how) ==
  /\ verdict' = how
  /\ UNCHANGED << vars, links, funcs, Addr, InsertPoint, NextBB, cur, values >>

(* Operand i of the n of this step. *)
Value(i, n)  == values[Len(values) - n + i].v
TypeOf(i, n) == values[Len(values) - n + i].type
Values(n)    == [ i \in 1 .. n |-> Value(i, n) ]
Rest(n)     == SubSeq(values, 1, Len(values) - n)

(* The step that takes the value of the expression that ends here. *)
Consumer ==
  LET from[k \in 1 .. Len(GenCode), above \in 0 .. Len(GenCode)] ==
        IF Arity(GenCode[k]) > above THEN k
        ELSE from[k + 1, above - Arity(GenCode[k])
                           + IF IsExpression(GenCode[k].op) THEN 1 ELSE 0]
  IN  from[cur[3] + 1, 0]

(* emitAsRValue: not for a statement, nor for what is assigned to, which   *)
(* does not come right before the assignment.                              *)
AsRValue ==
  LET user == GenCode[Consumer]
  IN  /\ user.op # "discard"
      /\ user.op = "binary" /\ user.kind = "assign" => Consumer = cur[3] + 1

(* The type of an expression, which a call has from its instance. *)
ValueType(node) ==
  IF links[node].inst # 0 THEN getReturnType(links[node].inst) ELSE links[node].type

(* Take n operands, emit instrs and yield v, which is loaded if it is the  *)
(* address of a value.                                                     *)
Yield(n, ok, instrs, v) ==
  LET call == GenStep.op = "call"
      type == ValueType(cur)
      load == GenStep.op \in { "identifier", "subscript" } /\ AsRValue
      all  == IF load THEN Append(instrs, Instr("load", << v >>)) ELSE instrs
      fs   == IF call THEN getOrInsertInstanceDecl(links[cur].inst) ELSE funcs
  IN  IF ~ok \/ UsesNull(all) \/ (load /\ ~Storable(type))
        THEN Fail("crashed")
        ELSE /\ funcs' = Emit(fs, all)
             /\ values' = Append(Rest(n), [ v |-> IF load THEN Result(Len(all)) ELSE v,
                                             type |-> type ])
             /\ cur' = After
             /\ UNCHANGED << vars, links, Addr, InsertPoint, NextBB, verdict >>

(* The same for one instruction that is the value. *)
YieldInstr(n, ok, op, uses) == Yield(n, ok, << Instr(op, uses) >>, Result(1))

(* Nothing to emit. *)
Skip(n) ==
  /\ values' = Rest(n)
  /\ cur' = After
  /\ UNCHANGED << vars, links, funcs, Addr, InsertPoint, NextBB, verdict >>

emitLiteral ==
  /\ GenAt("literal")
  /\ Yield(0, TRUE, << >>, IF GenStep.type = MetaTy THEN Null ELSE Const)

emitIdentifier ==
  /\ GenAt("identifier")
  /\ LET d == links[cur].decl
     IN  Yield(0, TRUE, << >>, IF d \in DOMAIN Addr THEN Addr[d] ELSE Null)

emitBinaryOperator ==
  /\ GenAt("binary")
  /\ IF GenStep.kind = "assign"
       THEN Yield(2, TRUE, << Instr("store", << Value(2, 2), Value(1, 2) >>) >>, Value(2, 2))
       ELSE YieldInstr(2, TRUE, GenStep.kind, Values(2))

emitUnaryOperator == GenAt("not") /\ YieldInstr(1, TRUE, "not", Values(1))

emitCast == GenAt("cast") /\ YieldInstr(1, TRUE, "cast", Values(1))

emitArraySubscriptExpr ==
  /\ GenAt("subscript")
  /\ YieldInstr(2, isBuiltinType(links[cur].type) /\ links[cur].type # VoidTy, "gep", Values(2))

emitArray ==
  /\ GenAt("array")
  /\ LET n == GenStep.n
     IN  Yield(n, isBuiltinType(TypeOf(n, n)) /\ TypeOf(n, n) # VoidTy,
               << Instr("alloca", << >>), Instr("store", Append(Values(n), Result(1))) >>,
               Result(1))

emitAlloca == GenAt("alloca") /\ YieldInstr(2, TRUE, "alloca", << Value(2, 2) >>)

(* Names of externs are one value: an extern that is called like a global  *)
(* of the program is not known to be that global.                          *)
emitExtern ==
  /\ GenAt("extern")
  /\ IF isFunctionType(links[cur].type)
       THEN Yield(2, TRUE, << >>, Null)
       ELSE YieldInstr(2, Storable(links[cur].type), "load", << Extern >>)

emitFunctionType == GenAt("function_type") /\ Yield(GenStep.n, TRUE, << >>, Null)

emitPrint ==
  /\ GenAt("print")
  /\ IF GenStep.n = 1 /\ TypeOf(1, 1) # NoType /\ ~isBuiltinType(TypeOf(1, 1))
       THEN Fail("rejected")
       ELSE YieldInstr(GenStep.n, GenStep.n = 1 /\ Storable(TypeOf(1, 1)), "call", Values(1))

emitFunctionCall ==
  /\ GenAt("call")
  /\ LET i == links[cur].inst
     IN  Yield(GenStep.n, Fits(i),
               << Goto("call", Values(GenStep.n), AllInstances[i].id) >>, Result(1))

(* A call of an extern function, the callee itself is no operand. *)
emitExternCall ==
  /\ GenAt("callee")
  /\ YieldInstr(GenStep.n + 1, TRUE, "call", SubSeq(Values(GenStep.n + 1), 1, GenStep.n))

emitStatement == GenAt("discard") /\ Skip(1)
emitNothing   == (GenAt("let") \/ GenAt("fragment")) /\ Skip(0)

(* Seeded fault: constants are thought to be there. *)
StoreIfNotConst(addr) ==
  IF Value(1, 1) = Const THEN << >> ELSE << Instr("store", << Value(1, 1), addr >>) >>

Store(addr) == << Instr("store", << Value(1, 1), addr >>) >>

(* A variable: of a function, or global.  Variables are no references here *)
(* (let &x): the generator refuses them by an assertion.                   *)
emitVariableDecl ==
  /\ GenAt("init") /\ cur[1] # 0
  /\ LET store == << Instr("alloca", << >>) >> \o Store(Result(1))
     IN  IF UsesNull(store) \/ ~Storable(TypeOf(1, 1))
           THEN Fail("crashed")
           ELSE /\ funcs' = Emit(funcs, store)
                /\ Addr' = With(Addr, << cur[1], cur[2], GenStep.id >>, Result(1))
                /\ values' = Rest(1)
                /\ cur' = After
                /\ UNCHANGED << vars, links, InsertPoint, NextBB, verdict >>

InitGlobal ==
  /\ GenAt("init") /\ cur[1] = 0
  /\ LET store == Store(Addr[<< 0, 1, GenStep.id >>])
     IN  IF UsesNull(store) THEN Fail("crashed")
         ELSE /\ funcs' = Emit(funcs, store)
              /\ values' = Rest(1)
              /\ cur' = After
              /\ UNCHANGED << vars, links, Addr, InsertPoint, NextBB, verdict >>

-----------------------------------------------------------------------------
(* emitTemplateInstance *)

Fragment == AllInstances[cur[1]].frags[cur[2]]
FrontFragment == AllInstances[cur[1]].frags[1]
isCustom(f) == f.domain # << >>
Func == AllInstances[cur[1]].id

ParamAddr(frag, p) == << cur[1], frag, AllInstances[cur[1]].frags[frag].params[p] >>

(* pc -1: the function, its entry block and copies of its parameters.      *)
BeginInstance ==
  /\ verdict = "emitting" /\ cur[3] = -1
  /\ LET n     == Len(FrontFragment.params)
         fs    == getOrInsertInstanceDecl(cur[1])
         entry == Len(fs[Func].blocks) + 1
         copy(p) == << Instr("alloca", << >>),
                       Instr("store", << Argument, << "instr", Func, entry, 2 * p - 1 >> >>) >>
     IN  IF ~Fits(cur[1]) THEN Fail("crashed")
         ELSE /\ funcs' = [ fs EXCEPT ![Func].blocks =
                              Append(@, FlattenSeq([ p \in 1 .. n |-> copy(p) ])) ]
              /\ InsertPoint' = << Func, entry >>
              /\ Addr' = [ d \in DOMAIN Addr \cup { ParamAddr(1, p) : p \in 1 .. n } |->
                            IF d \in DOMAIN Addr THEN Addr[d]
                            ELSE << "instr", Func, entry,
                                    2 * (CHOOSE p \in 1 .. n : ParamAddr(1, p) = d) - 1 >> ]
              /\ cur' = << cur[1], 1, 0 >>
              /\ UNCHANGED << vars, links, NextBB, values, verdict >>

(* pc 0: the fragment's parameters are bound to the copies. *)
BeginFragment ==
  /\ verdict = "emitting" /\ cur[1] # 0 /\ cur[3] = 0
  /\ LET n == Len(FrontFragment.params)
         bound == { ParamAddr(cur[2], p) : p \in 1 .. n }
     IN  IF Len(Fragment.params) < n THEN Fail("crashed")
         ELSE /\ Addr' = [ d \in DOMAIN Addr \cup bound |->
                            IF d \in bound
                              THEN Addr[ParamAddr(1, CHOOSE p \in 1 .. n : ParamAddr(cur[2], p) = d)]
                              ELSE Addr[d] ]
              /\ NextBB' = 0
              /\ cur' = After
              /\ UNCHANGED << vars, links, funcs, InsertPoint, values, verdict >>

(* Seeded fault: the body is executed where the condition does not hold. *)
CondBrSwapped(TrueBB, FalseBB) == Goto("br", Values(1), << FalseBB, TrueBB >>)

CondBr(TrueBB, FalseBB) == Goto("br", Values(1), << TrueBB, FalseBB >>)

(* The condition of a domain, then the body in a block of its own. *)
BranchOnDomain ==
  /\ GenAt("body") /\ isCustom(Fragment)
  /\ LET TrueBB == Len(funcs[Func].blocks) + 1
         br == << CondBr(TrueBB, TrueBB + 1) >>
     IN  IF UsesNull(br) \/ TypeOf(1, 1) # BoolTy THEN Fail("crashed")
         ELSE /\ funcs' = [ Emit(funcs, br) EXCEPT ![Func].blocks = @ \o << << >>, << >> >> ]
              /\ InsertPoint' = << Func, TrueBB >>
              /\ NextBB' = TrueBB + 1
              /\ values' = << >>
              /\ cur' = After
              /\ UNCHANGED << vars, links, Addr, verdict >>

NoDomain == GenAt("body") /\ ~isCustom(Fragment) /\ Skip(0)

(* The first return statement ends the body, whatever follows it. *)
emitReturnStmt ==
  /\ GenAt("return")
  /\ LET uses == IF TypeOf(1, 1) = VoidTy THEN << >> ELSE Values(1)
     IN  IF UsesNull(<< Instr("ret", uses) >>) THEN Fail("crashed")
         ELSE /\ funcs' = Emit(funcs, << Instr("ret", uses) >>)
              /\ values' = << >>
              /\ cur' = << cur[1], cur[2], Len(GenCode) + 2 >>
              /\ UNCHANGED << vars, links, Addr, InsertPoint, NextBB, verdict >>

RetVoid ==
  /\ verdict = "emitting" /\ cur[1] # 0 /\ cur[3] = Len(GenCode) + 1
  /\ funcs' = Emit(funcs, << Instr("ret", << >>) >>)
  /\ cur' = After
  /\ UNCHANGED << vars, links, Addr, InsertPoint, NextBB, values, verdict >>

(* The next instance, or main after the last. *)
NextInstance ==
  IF cur[1] < Len(AllInstances) THEN << cur[1] + 1, 1, -1 >> ELSE << 0, 1, 0 >>

(* Seeded fault: the next fragment goes on in the block of this one. *)
StayInDomain == InsertPoint

NextDomain == IF NextBB # 0 THEN << Func, NextBB >> ELSE InsertPoint

AtEndOfFragment == verdict = "emitting" /\ cur[1] # 0 /\ cur[3] = Len(GenCode) + 2

MoveToNextDomain ==
  /\ AtEndOfFragment /\ cur[2] < Len(AllInstances[cur[1]].frags)
  /\ InsertPoint' = NextDomain
  /\ cur' = << cur[1], cur[2] + 1, 0 >>
  /\ UNCHANGED << vars, links, funcs, Addr, NextBB, values, verdict >>

EndInstance ==
  /\ AtEndOfFragment /\ cur[2] = Len(AllInstances[cur[1]].frags)
  /\ IF isCustom(Fragment) /\ ~isBuiltinType(getReturnType(cur[1])) THEN Fail("crashed")
     ELSE /\ InsertPoint' = NextDomain
          /\ funcs' = IF isCustom(Fragment)
                        THEN [ funcs EXCEPT ![Func].blocks[NextBB] =
                                 @ \o << Instr("puts", << Const >>), Instr("exit", << Const >>),
                                         Instr("unreachable", << >>) >> ]
                        ELSE funcs
          /\ cur' = NextInstance
          /\ UNCHANGED << vars, links, Addr, NextBB, values, verdict >>

-----------------------------------------------------------------------------
(* run *)

GlobalVars == { n \in 1 .. Len(src) : src[n].op = "init" }

EmitGlobals ==
  /\ status = "accepted" /\ verdict = "waiting"
  /\ IF \E n \in GlobalVars : ~Storable(stack[1].decls[src[n].id].type)
       THEN Fail("crashed")
       ELSE /\ Addr' = [ d \in { << 0, 1, src[n].id >> : n \in GlobalVars } |-> << "global", d[3] >> ]
            /\ cur' = << 1, 1, -1 >>
            /\ verdict' = "emitting"
            /\ UNCHANGED << vars, links, funcs, InsertPoint, NextBB, values >>

CreateMain ==
  /\ verdict = "emitting" /\ cur = << 0, 1, 0 >>
  /\ funcs' = With(funcs, MainFunc, [ params |-> << >>, ret |-> IntTy, blocks |-> << << >> >> ])
  /\ InsertPoint' = << MainFunc, 1 >>
  /\ cur' = After
  /\ UNCHANGED << vars, links, Addr, NextBB, values, verdict >>

CallEntryPoint ==
  /\ GenAt("entry")
  /\ funcs' = Emit(funcs, << Goto("call", << >>, AllInstances[links[cur].inst].id),
                             Instr("ret", << Const >>) >>)
  /\ verdict' = "emitted"
  /\ UNCHANGED << vars, links, Addr, InsertPoint, NextBB, cur, values >>

(* The blocks of a function form trees: a block is entered from one other. *)
Parents(blocks, b) ==
  { c \in 1 .. Len(blocks) : /\ blocks[c] # << >>
                             /\ Last(blocks[c]).op = "br"
                             /\ \E t \in 1 .. 2 : Last(blocks[c]).to[t] = b }
Dominators(blocks) ==
  LET of[b \in 1 .. Len(blocks)] == { b } \cup UNION { of[c] : c \in Parents(blocks, b) }
  IN  of

IsAvailable(f, u, b, k) ==
  u[1] = "instr" =>
    LET dom == Dominators(funcs[f].blocks)
    IN  /\ u[2] = f
        /\ 1 \in dom[b] => (u[3] = b /\ u[4] < k) \/ u[3] \in dom[b] \ { b }

verifyFunction(f) ==
  \A b \in 1 .. Len(funcs[f].blocks) :
    LET B == funcs[f].blocks[b]
    IN  /\ B # << >>
        /\ \A k \in 1 .. Len(B) :
             /\ IsTerminator(B[k]) <=> k = Len(B)
             /\ B[k].op = "ret" => (B[k].uses = << >> <=> funcs[f].ret = VoidTy)
             /\ \A u \in 1 .. Len(B[k].uses) : IsAvailable(f, B[k].uses[u], b, k)

(* For -emit-llvm only, and without consequences. *)
verifyModule ==
  /\ verdict = "emitted"
  /\ verdict' = IF \A f \in DOMAIN funcs : verifyFunction(f) THEN "valid" ELSE "invalid"
  /\ UNCHANGED << vars, links, funcs, Addr, InsertPoint, NextBB, cur, values >>

-----------------------------------------------------------------------------
CompilerInit ==
  /\ Init
  /\ links = << >>
  /\ funcs = << >>
  /\ Addr = << >>
  /\ InsertPoint = << MainFunc, 0 >>
  /\ NextBB = 0
  /\ cur = << 0, 1, 0 >>
  /\ values = << >>
  /\ verdict = "waiting"

Generate ==
  \/ EmitGlobals \/ BeginInstance \/ BeginFragment \/ BranchOnDomain \/ NoDomain
  \/ emitLiteral \/ emitIdentifier \/ emitBinaryOperator \/ emitUnaryOperator \/ emitCast
  \/ emitArraySubscriptExpr \/ emitArray \/ emitAlloca \/ emitExtern \/ emitFunctionType
  \/ emitPrint \/ emitFunctionCall \/ emitExternCall \/ emitStatement \/ emitNothing
  \/ emitVariableDecl \/ InitGlobal \/ emitReturnStmt \/ RetVoid
  \/ MoveToNextDomain \/ EndInstance \/ CreateMain \/ CallEntryPoint \/ verifyModule

Compiled ==
  \/ status \in { "crashed", "overflowed", "broken" } \cup Rejections
  \/ verdict \in { "valid", "invalid", "crashed", "rejected" }

CompilerNext == Analyse \/ Generate \/ (Compiled /\ UNCHANGED allVars)

(* Sema, then Codegen: a sequential program. *)
CompilerSpec == CompilerInit /\ [][CompilerNext]_allVars /\ WF_allVars(Analyse \/ Generate)

-----------------------------------------------------------------------------
(* What the generator, which checks nothing, expects of a program that Sema*)
(* has accepted, beyond that it is in the core:                            *)
(* only the last fragment of a function lacks a condition of type bool,    *)
LastFragmentOnly ==
  \A i \in 1 .. Len(AllInstances) : \A k \in 1 .. Len(AllInstances[i].frags) :
    LET f == AllInstances[i].frags[k]
    IN  IF isCustom(f) THEN ValueType(<< i, k, Len(f.domain) >>) = BoolTy
                       ELSE k = Len(AllInstances[i].frags)

(* functions use the variables of no other function,                       *)
NoCaptures ==
  \A n \in DOMAIN links : links[n].decl # << >> => links[n].decl[1] \in { 0, n[1] }

(* and values are integers, bools or strings, or nothing that is discarded *)
(* or returned.                                                            *)
OnlyPlainValues ==
  \A n \in DOMAIN links :
    LET code == Code([ inst |-> n[1], frag |-> n[2] ])
    IN  \/ ValueType(n) \in { BoolTy, IntTy, UintTy, StringTy }
        \/ code[n[3]].op = "entry"
        \/ ValueType(n) = VoidTy /\ code[n[3] + 1].op \in { "discard", "return" }

(* The module of such a program is one that LLVM accepts: every block ends *)
(* where its terminator is, every address belongs to the function that uses*)
(* it, and the generator, which reads addresses and types that others were *)
(* to set before, meets no null pointer.  And no function with a fragment  *)
(* behind one that lacks a condition, where the generator goes on after a  *)
(* return, is in a module that the verifier accepts.                       *)
ModulesAreValid ==
  /\ /\ verdict # "waiting"
     /\ IsCore /\ SeparateLocals
     /\ LastFragmentOnly /\ NoCaptures /\ OnlyPlainValues
     => verdict \in { "emitting", "emitted", "valid" }
  /\ verdict = "valid" =>
       \A i \in 1 .. Len(AllInstances) :
         \A k \in 1 .. Len(AllInstances[i].frags) - 1 : isCustom(AllInstances[i].frags[k])

(* What a function does, as a sequence of the nodes with an effect, if the *)
(* conditions of its fragments are as holds says: what LLVM executes, ...  *)
Effects(block) ==
  LET effective == SelectSeq(block, LAMBDA I : I.op \in { "store", "call", "ret" } /\ I.node[3] > 0)
  IN  [ k \in 1 .. Len(effective) |-> effective[k].node ]

Executed(i, holds) ==
  LET blocks == funcs[AllInstances[i].id].blocks
      from[b \in 1 .. Len(blocks)] ==
        LET end == Last(blocks[b])
        IN  Effects(blocks[b]) \o
              CASE end.op = "br"  -> from[end.to[IF holds[end.node[2]] THEN 1 ELSE 2]]
                [] end.op = "ret" -> << >>
                [] OTHER          -> << "domain error" >>
  IN  from[1]

(* ... and what the language says: the first fragment on whose domain the  *)
(* arguments are, up to its first return statement.  As in C, the right    *)
(* operand of && or || is not evaluated where the left one decides: at the *)
(* operators in decided.                                                   *)
IsEffect(s) ==
  s.op \in { "array", "init", "print", "call", "callee", "return" }
    \/ (s.op = "binary" /\ s.kind = "assign")

IsLogical(s) == s.op = "binary" /\ s.kind = "logical"

RightOperand(code, p) ==
  LET height == Height(code)
  IN  (CHOOSE s \in 1 .. p - 1 : /\ height[s] = height[p] - 1
                                 /\ \A t \in s + 1 .. p - 1 : height[t] >= height[p]) .. p - 1

(* Of a domain or a body that comes after `before' steps of its fragment.  *)
EffectsOf(i, k, code, before, decided) ==
  LET cut == { p \in 1 .. Len(code) : IsLogical(code[p]) /\ << i, k, before + p >> \in decided }
      skipped == UNION { RightOperand(code, p) : p \in cut }
      places == SelectSeq([ p \in 1 .. Len(code) |-> p ],
                          LAMBDA p : IsEffect(code[p]) /\ p \notin skipped)
  IN  [ n \in 1 .. Len(places) |-> << i, k, before + places[n] >> ]

Meaning(i, holds, decided) ==
  LET frags == AllInstances[i].frags
      domain(k) == EffectsOf(i, k, frags[k].domain, 0, decided)
      body(k) ==
        LET code    == frags[k].body
            before  == Len(frags[k].domain) + 1
            effects == EffectsOf(i, k, code, before, decided)
            returns == { p \in 1 .. Len(code) : code[p].op = "return" }
        IN  IF returns = {} THEN Append(effects, << i, k, before + Len(code) + 1 >>)
            ELSE SelectSeq(effects, LAMBDA n : \A p \in returns : n[3] <= before + p)
      from[k \in 1 .. Len(frags) + 1] ==
        IF k > Len(frags) THEN << "domain error" >>
        ELSE IF ~isCustom(frags[k]) THEN body(k)
        ELSE domain(k) \o (IF holds[k] THEN body(k) ELSE from[k + 1])
  IN  from[1]

Logicals(i) ==
  UNION { LET code == Code([ inst |-> i, frag |-> k ])
          IN  { << i, k, p >> : p \in { q \in 1 .. Len(code) : IsLogical(code[q]) } } :
          k \in 1 .. Len(AllInstances[i].frags) }

(* Whatever the conditions of the domains and the left operands yield.     *)
MeansWhatItSays(i) ==
  \A holds \in [ 1 .. Len(AllInstances[i].frags) -> BOOLEAN ], decided \in SUBSET Logicals(i) :
    Executed(i, holds) = Meaning(i, holds, decided)

(* The generator evaluates both operands of && and ||, which is what C does*)
(* where the right one has no effect.                                      *)
RightOperandsArePure(i) ==
  \A k \in 1 .. Len(AllInstances[i].frags) :
    LET f == AllInstances[i].frags[k]
    IN  \A code \in { f.domain, f.body } : \A p \in 1 .. Len(code) :
          IsLogical(code[p]) => \A q \in RightOperand(code, p) : ~IsEffect(code[q])

(* A valid module means what the program says: whatever the conditions of  *)
(* the domains yield, a call evaluates them in the order of the fragments, *)
(* executes the body of the first that holds and no other, in the order of *)
(* its statements, or ends with a domain error.  Only functions with a call*)
(* or another effect on the right of && or || are excepted.                *)
DispatchIsMeaning ==
  verdict = "valid" /\ SeparateLocals =>
    \A i \in 1 .. Len(AllInstances) : RightOperandsArePure(i) => MeansWhatItSays(i)

(* mercy.md, Expressions, of operators: "The syntax and meaning is the same*)
(* as in C", so that what is on the right of && or || takes effect only    *)
(* where the left operand does not decide.                                 *)
DocOperatorsAsInC ==
  verdict = "valid" /\ SeparateLocals =>
    \A i \in 1 .. Len(AllInstances) : MeansWhatItSays(i)

(* The globals that a function or one that it calls may read. *)
Instrs(f) == UNION { { funcs[f].blocks[b][k] : k \in 1 .. Len(funcs[f].blocks[b]) } :
                     b \in 1 .. Len(funcs[f].blocks) }
Called(f) ==
  LET reach[n \in 0 .. Cardinality(DOMAIN funcs)] ==
        IF n = 0 THEN { f }
        ELSE reach[n - 1] \cup
               { g \in DOMAIN funcs : \E h \in reach[n - 1] : \E I \in Instrs(h) :
                   I.op = "call" /\ I.to = g /\ g # MainFunc }
  IN  reach[Cardinality(DOMAIN funcs)]

Reads(f) ==
  { I.uses[1] : I \in { J \in UNION { Instrs(g) : g \in Called(f) } :
                        J.op = "load" /\ J.uses[1][1] = "global" /\ J.uses[1] # Extern } }

(* Functions are emitted before main, where globals get their values one   *)
(* after the other from initializers that call such functions: no call,    *)
(* however deep, reads a global that has not got its value yet.            *)
GlobalsReadAfterInit ==
  verdict = "valid" =>
    LET B == funcs[MainFunc].blocks[1]
    IN  \A k \in 1 .. Len(B) :
          /\ B[k].op = "call" /\ B[k].to # << >> =>
               \A g \in Reads(B[k].to) :
                 \E j \in 1 .. k - 1 : B[j].op = "store" /\ B[j].uses[2] = g
          /\ B[k].op = "load" /\ B[k].uses[1] # Extern /\ B[k].uses[1][1] = "global" =>
               \E j \in 1 .. k - 1 : B[j].op = "store" /\ B[j].uses[2] = B[k].uses[1]

(* Liveness: the compiler ends, whatever calls whatever: the walks over the*)
(* instances are finite, if only because the stack is full, as it never is *)
(* when a program of the core is compiled.                                 *)
CompilationEnds == <>(Compiled /\ CoreFitsStack)

(* mercy.md, Memory management: "OK, x is alive until the end of bar()",   *)
(* of a variable that a local function of bar prints: what a function uses *)
(* lives where it runs.                                                    *)
DocCapturedVariableIsAlive ==
  verdict = "emitted" =>
    \A f \in DOMAIN funcs : \A I \in Instrs(f) : \A u \in 1 .. Len(I.uses) :
      I.uses[u][1] = "instr" => I.uses[u][2] = f
=============================================================================
