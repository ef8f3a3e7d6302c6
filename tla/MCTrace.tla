------------------------------ MODULE MCTrace ------------------------------
(***************************************************************************)
(* Instances of Trace for TLC: three programs with loops, calls, values    *)
(* without names, a switch and a call of exit.                             *)
(***************************************************************************)
EXTENDS Trace

Op(op, value, refs) == [ op |-> op, value |-> value, refs |-> refs, callee |-> 0 ]
Add(refs)    == Op("add", TRUE, refs)
Phi(refs)    == Op("phi", TRUE, refs)
Store(refs)  == Op("store", FALSE, refs)
Br(refs)     == Op("br", FALSE, refs)
Switch(refs) == Op("switch", FALSE, refs)
Ret          == Op("ret", FALSE, << >>)
ExitCall     == Op("exit", FALSE, << >>)
CallOf(f)    == [ Op("call", TRUE, << >>) EXCEPT !.callee = f ]

(* Instructions get their identities from where they are. *)
Placed(code) ==
  [ b \in 1 .. Len(code) |->
      [ k \in 1 .. Len(code[b]) |->
          [ op |-> code[b][k].op, value |-> code[b][k].value, refs |-> code[b][k].refs,
            callee |-> code[b][k].callee, id |-> << b, k >> ] ] ]
Fn(params, code) == [ params |-> params, blocks |-> Placed(code) ]

To(b) == << b, 0 >>

(* A loop with two phi nodes that calls a function of one block. *)
Loop ==
  << Fn(0, << << Store(<< >>), Br(<< To(2) >>) >>,
              << Phi(<< << 2, 3 >> >>), Phi(<< << 2, 1 >> >>), CallOf(2),
                 Br(<< << 2, 3 >>, To(2), To(3) >>) >>,
              << Ret >> >>),
     Fn(1, << << Add(<< >>), Ret >> >>) >>

(* A switch with a case that exits in the middle of two calls. *)
Cases ==
  << Fn(0, << << CallOf(2), Ret >> >>),
     Fn(1, << << Add(<< >>), Switch(<< To(2), To(3), To(4) >>) >>,
              << Add(<< << 1, 1 >> >>), Br(<< To(4) >>) >>,
              << ExitCall, Ret >>,
              << Phi(<< << 1, 1 >>, << 2, 1 >> >>), Ret >> >>) >>

(* A function that calls itself. *)
Recursive ==
  << Fn(0, << << CallOf(2), Ret >> >>),
     Fn(2, << << Add(<< >>), Br(<< << 1, 1 >>, To(2), To(3) >>) >>,
              << CallOf(2), Store(<< << 2, 1 >> >>), Br(<< To(3) >>) >>,
              << Ret >> >>) >>

MCPrograms == { Loop, Cases, Recursive }
=============================================================================
