----------------------------- MODULE Arithmetic -----------------------------
(***************************************************************************)
(* The arithmetic of Tolza, which the code generator does in two places:   *)
(* Static_Evaluator folds the operations of a constant expression          *)
(* (codegen/eval.cpp) and Tools emits the instructions for the others      *)
(* (codegen/tool.cpp).  A folded literal is a 128-bit integer of the       *)
(* syntax tree, which some operations write while they read it; a unit     *)
(* evaluates the expression of a variable for the variable itself and once *)
(* more for every table type whose size names it.                          *)
(*                                                                         *)
(* A word of w bits is a number in 0 .. 2^w - 1.  A float is a whole       *)
(* number of its last place: sums, products and remainders are exact.      *)
(*                                                                         *)
(* The specification is called FoldingSpec: another module can extend this *)
(* one together with a specification of its own.                           *)
(***************************************************************************)
EXTENDS Integers, FiniteSetsExt

CONSTANTS
  Units,         \* the compilation units that name the variable
  Wide,          \* the bits of a literal: 128 in the code
  Int32,         \* the bits of llvm's i32
  Expressions,   \* the variables and their expressions
  Operands(_),   \* the pairs of words tried in an expression
  Unwritten      \* the operations that leave their literals as they are

\* The evaluation of a power and of a minus writes into its literals.
ASSUME ArithmeticAssumption ==
  /\ Unwritten \cap {"pow", "minus"} = {}
  /\ \A e \in Expressions : e.variable \in {"global_const", "global", "local_const", "local"}

VARIABLES
  expr,      \* the variable's kind, its type, the operation, the kinds of the operands
  written,   \* the words of the operands as they are in the source
  asserts,   \* whether the build checks its assertions
  cells,     \* the words of the two literals now
  generated, \* what each unit has for the variable
  sizes      \* what each unit has for the size of a table of that many items

foldingVars == <<expr, written, asserts, cells, generated, sizes>>

NotYet == [is |-> "not_yet", value |-> 0, bits |-> 0]
Const(v, b) == [is |-> "const", value |-> v, bits |-> b]
Computed(v, b) == [is |-> "value", value |-> v, bits |-> b]
Divided(n, d) == [is |-> "divided", value |-> n, bits |-> d]
Raised(n, d) == [is |-> "raised", value |-> n, bits |-> d]
Error(id) == [is |-> "error", value |-> id, bits |-> 0]
Undefined == [is |-> "undefined", value |-> 0, bits |-> 0]
Crash == [is |-> "crash", value |-> 0, bits |-> 0]

(***************************************************************************)
(* Words: what APInt and the instructions of LLVM do.                      *)
(***************************************************************************)
Wrap(n, w) == n % 2^w
Signed(x, w) == IF x >= 2^(w - 1) THEN x - 2^w ELSE x
BitsOf(x, w) == {i \in 0 .. w - 1 : (x \div 2^i) % 2 = 1}
Word(bits) == MapThenSumSet(LAMBDA i : 2^i, bits)
Ones(w) == 2^w - 1
AbsOf(n) == IF n < 0 THEN -n ELSE n

\* Division truncates towards zero, and the remainder has the dividend's sign.
Quotient(a, b) == IF (a < 0) = (b < 0) THEN AbsOf(a) \div AbsOf(b) ELSE -(AbsOf(a) \div AbsOf(b))
\* A remainder with the sign of the divisor.
RemainderFloored(a, b) == IF b > 0 THEN a % b ELSE -((-a) % (-b))
Remainder(a, b) == a - b * Quotient(a, b)

ShiftLeft(x, n, w) == IF n >= w THEN 0 ELSE Wrap(x * 2^n, w)
ShiftRight(x, n) == IF n > 30 THEN 0 ELSE x \div 2^n
ShiftSigned(x, n, w) == Wrap(Signed(x, w) \div 2^(IF n >= w THEN w ELSE n), w)
Rotated(x, n, w) == Word({(i + n) % w : i \in BitsOf(x, w)})
PowerOf(b, e, w) ==
  LET p[k \in 0 .. e] == IF k = 0 THEN 1 ELSE Wrap(b * p[k - 1], w) IN p[e]

BitsAnd(x, y, w) == Word(BitsOf(x, w) \cap BitsOf(y, w))
BitsOr(x, y, w) == Word(BitsOf(x, w) \cup BitsOf(y, w))
BitsXor(x, y, w) == x + y - 2 * BitsAnd(x, y, w)
\* The complement taken as the negative number, one too many.
BitsNegated(x, w) == Wrap(-x, w)
BitsNot(x, w) == Ones(w) - x
Bool(b) == Const(IF b THEN 1 ELSE 0, 1)

(***************************************************************************)
(* The kinds of primitive types.                                           *)
(***************************************************************************)
is_signed(t) == t.kind \in {"signed", "float", "decimal"}
is_integral(t) == t.kind \in {"signed", "unsigned"}
is_byte(t) == t.kind = "byte"
is_fixed(t) == t.kind \in {"decimal", "udecimal"}

\* The numbers two words stand for in a type.
Number(x, t, w) == IF is_signed(t) THEN Signed(x, w) ELSE x

(***************************************************************************)
(* Folding.  An outcome is the constant and what is left in the literals.  *)
(***************************************************************************)
Outcome(result, l, r) == [result |-> result, cells |-> <<l, r>>]

\* EPrimitiveTypeKind_is_integral: the arithmetic and the comparisons.
IntegralResult(op, t, l, r) ==
  LET a == Number(l, t, Wide)
      b == Number(r, t, Wide)
      Whole(n) == Const(Wrap(n, Wide), Wide)
      Floor == Remainder(a, b) < 0
  IN CASE op = "add" -> Whole(l + r)
       [] op = "sub" -> Whole(l - r)
       [] op = "mul" -> Whole(l * r)
       [] op = "pow" -> Whole(PowerOf(l, r, Wide))
       [] op = "div" -> Crash
       [] op \in {"mod", "quo", "rem"} /\ r = 0 -> IF l = 0 /\ ~asserts THEN Whole(0) ELSE Crash
       [] op = "mod" /\ r # 0 -> Whole(l % r)
       [] op = "quo" /\ r # 0 -> Whole(IF Floor THEN Remainder(a, b) + AbsOf(b) ELSE Remainder(a, b))
       [] op = "rem" /\ r # 0 -> Whole(Quotient(a, b) + (IF ~Floor THEN 0 ELSE IF b < 0 THEN 1 ELSE -1))
       [] op = "divrem" -> Error(170)
       [] op = "gre" -> Bool(a > b)
       [] op = "low" -> Bool(a < b)
       [] op = "gre_eq" -> Bool(a >= b)
       [] op = "low_eq" -> Bool(a <= b)
       [] op \in {"eq", "eqs", "is", "in"} -> Bool(l = r)
       [] op \in {"neq", "neqs", "nis", "nin"} -> Bool(l # r)
       [] OTHER -> Error(171)

\* EPrimitiveTypeKind_is_byte: the bitwise operations, on all the bits of the
\* literal.  A shift to the left with the top bit is the shift to the right.
ByteResult(op, l, r) ==
  LET Whole(n) == Const(n, Wide)
      Too == r > Wide /\ asserts
  IN CASE op \in {"and", "b_and"} -> Whole(BitsAnd(l, r, Wide))
       [] op \in {"nand", "b_nand"} -> Whole(BitsNot(BitsAnd(l, r, Wide), Wide))
       [] op \in {"or", "b_or"} -> Whole(BitsOr(l, r, Wide))
       [] op \in {"xor", "b_xor"} -> Whole(BitsXor(l, r, Wide))
       [] op \in {"nor", "b_nor"} -> Whole(BitsNot(BitsOr(l, r, Wide), Wide))
       [] op \in {"xnor", "b_xnor"} -> Whole(BitsNot(BitsXor(l, r, Wide), Wide))
       [] op \in {"b_shl_0", "b_shl_1", "b_shl_a", "b_shr_0", "b_shr_1", "b_shr_a"} /\ Too -> Crash
       [] op = "b_shl_0" /\ ~Too -> Whole(ShiftLeft(l, r, Wide))
       [] op = "b_shl_1" /\ ~Too ->
            Whole(BitsOr(ShiftLeft(l, r, Wide), IF r > Wide THEN 0 ELSE ShiftRight(Ones(Wide), Wide - r), Wide))
       [] op \in {"b_shl_a", "b_shr_0"} /\ ~Too -> Whole(ShiftRight(l, r))
       [] op = "b_shr_1" /\ ~Too ->
            Whole(BitsOr(ShiftRight(l, r), IF r > Wide THEN 0 ELSE ShiftLeft(Ones(Wide), Wide - r, Wide), Wide))
       [] op = "b_shr_a" /\ ~Too -> Whole(ShiftSigned(l, r, Wide))
       [] op = "b_rol" -> Whole(Rotated(l, r, Wide))
       [] op = "b_ror" -> Whole(Rotated(l, Wide - (r % Wide), Wide))
       [] OTHER -> Error(172)

\* A product that is written into its left operand, as the power is.
WrittenByProduct(op, l, r) == IF op \in {"mul", "pow"} THEN <<Wrap(l * r, Wide), r>> ELSE <<l, r>>

\* What evaluating the operation writes into the literals: the power squares
\* its base and shifts its exponent out in place.
Overwritten(op, l, r) ==
  IF op = "pow"
  THEN LET len == CHOOSE k \in 0 .. Wide : 2^k > r /\ (k = 0 \/ 2^(k - 1) <= r)
       IN <<PowerOf(l, 2^len, Wide), 0>>
  ELSE <<l, r>>

integral(op, t, l, r) ==
  LET w == Overwritten(op, l, r)
  IN IF is_integral(t) THEN {Outcome(IntegralResult(op, t, l, r), w[1], w[2])}
     ELSE IF is_byte(t) THEN {Outcome(ByteResult(op, l, r), l, r)}
     ELSE {Outcome(Error(173), l, r)}
(***************************************************************************)
(* Floats.  The equality of the fold lets four last places pass; the       *)
(* quotient reports an error and goes on with the remainder.               *)
(***************************************************************************)
float_almost_eq_ULP(a, b) == IF AbsOf(a - b) <= 4 THEN {TRUE} ELSE {FALSE, a = b}

floating(op, l, r) ==
  LET a == Signed(l, Wide)
      b == Signed(r, Wide)
      Fp(n) == Outcome(Const(Wrap(n, Wide), Wide), l, r)
      Test(p) == Outcome(Bool(p), l, r)
  IN CASE op \in {"add", "sub", "mul"} ->
            {Fp(IF op = "add" THEN a + b ELSE IF op = "sub" THEN a - b ELSE a * b)}
       [] op = "div" -> {Outcome(Divided(a, b), l, r)}
       [] op = "pow" -> {Outcome(IF a = 0 /\ b = 0 THEN Error(0) ELSE Raised(a, b), l, r)}
       [] op \in {"mod", "quo", "rem"} /\ b = 0 -> {Outcome(Undefined, l, r)}
       [] op = "mod" /\ b # 0 -> {Fp(IF Remainder(a, b) < 0 THEN Remainder(a, b) + AbsOf(b) ELSE Remainder(a, b))}
       [] op \in {"quo", "rem"} /\ b # 0 -> {Fp(Remainder(a, b))}
       [] op = "divrem" -> {Outcome(Error(175), l, r)}
       [] op = "gre" -> {Test(a > b)}
       [] op = "low" -> {Test(a < b)}
       [] op = "gre_eq" -> {Test(a >= b)}
       [] op = "low_eq" -> {Test(a <= b)}
       [] op \in {"eq", "in"} -> {Test(p) : p \in float_almost_eq_ULP(a, b)}
       [] op \in {"neq", "nin"} -> {Test(~p) : p \in float_almost_eq_ULP(a, b)}
       [] op \in {"eqs", "is"} -> {Test(a = b)}
       [] op \in {"neqs", "nis"} -> {Test(a # b)}
       [] OTHER -> {Outcome(Error(176), l, r)}

(***************************************************************************)
(* Decimals: an integer and a scale.  Scales are aligned by powers of two, *)
(* in copies of the literals; a constant of another width than its type is *)
(* refused by the checks of llvm.                                          *)
(***************************************************************************)
OfType(v, t) == IF asserts /\ t.bits # Wide THEN Crash ELSE Const(Wrap(v, Wide), Wide)

decimal(op, t, left, right, l, r) ==
  LET scale == IF left.scale > right.scale THEN left.scale ELSE right.scale
      al == ShiftLeft(l, scale - left.scale, Wide)
      ar == ShiftLeft(r, scale - right.scale, Wide)
      a == Number(l, t, Wide)
      b == Number(r, t, Wide)
      dividend == Number(ShiftLeft(l, scale, Wide), t, Wide)
      product == Signed(l, Wide) * Signed(r, Wide)
  IN CASE op \in {"add", "sub"} -> OfType(IF op = "add" THEN al + ar ELSE al - ar, t)
       [] op = "mul" -> OfType(product \div 2^scale, t)
       [] op \in {"div", "quo", "rem"} /\ b = 0 -> IF l = 0 /\ ~asserts THEN OfType(0, t) ELSE Crash
       [] op = "div" /\ b # 0 -> OfType(Quotient(dividend, b), t)
       [] op = "quo" /\ b # 0 -> OfType(Quotient(a, b), t)
       [] op = "rem" /\ b # 0 -> OfType(Remainder(a, b), t)
       [] op \in {"eq", "neq"} -> Bool((op = "eq") = (al = ar))
       [] OTHER -> Error(0)

boolean(op, l, r) ==
  LET p == l = 1
      q == r = 1
  IN CASE op \in {"eq", "is"} -> Bool(p = q)
       [] op \in {"neq", "nis"} -> Bool(p # q)
       [] op \in {"and", "b_and"} -> Bool(p /\ q)
       [] op \in {"nand", "b_nand"} -> Bool(~(p /\ q))
       [] op \in {"or", "b_or"} -> Bool(p \/ q)
       [] op \in {"nor", "b_nor"} -> Bool(~(p \/ q))
       [] OTHER -> Error(178)

\* A minus negates the literal itself, so that the next evaluation negates it back.
scalar_minus(t, kind, l, r) ==
  IF kind \in {"integral", "floating", "fixed"}
  THEN Outcome(IF kind = "floating" THEN Const(Wrap(-l, Wide), Wide) ELSE OfType(-l, t), Wrap(-l, Wide), r)
  ELSE Outcome(Error(180), l, r)

scalar_plus(t, kind, l, r) ==
  IF kind \in {"integral", "floating", "fixed"}
  THEN Outcome(IF kind = "floating" THEN Const(l, Wide) ELSE OfType(l, t), l, r)
  ELSE Outcome(Error(180), l, r)

boolean_not(kind, l, r) ==
  Outcome(IF kind = "boolean" THEN Bool(l = 0) ELSE Error(179), l, r)

(***************************************************************************)
(* create_constant: a literal is written out in decimal and read again at  *)
(* the width of its type, which only the length of the text is checked     *)
(* against.                                                                *)
(***************************************************************************)
Digits(n) == CHOOSE d \in 1 .. 10 : n < 10^d /\ (d = 1 \/ n >= 10^(d - 1))

get_int_constant(x, t) ==
  LET n == Signed(x, Wide)
      long == ((Digits(AbsOf(n)) - 1) * 64) \div 22 > t.bits
  IN IF asserts /\ long THEN Crash ELSE Const(Wrap(n, t.bits), t.bits)

create_constant(operand, t, x) ==
  CASE operand.kind \in {"integral", "fixed"} -> get_int_constant(x, t)
    [] operand.kind = "floating" -> Const(x, Wide)
    [] operand.kind = "boolean" -> Const(x, 1)
    [] OTHER -> Error(169)

Unary == {"not", "plus", "minus", "invert_sign"}

\* evaluate_expression of a binary operation: both operands are evaluated
\* first, then the kind of the left literal chooses the fold, whatever the
\* kind of the right one, which is read through a null pointer if it is another.
evaluate_binary(e, l, r) ==
  LET read == <<create_constant(e.left, e.type, l), create_constant(e.right, e.type, r)>>
  IN IF \E i \in 1 .. 2 : read[i] = Crash THEN {Outcome(Crash, l, r)}
     ELSE IF \E i \in 1 .. 2 : read[i].is = "error" THEN {Outcome(Error(169), l, r)}
     ELSE IF e.right.kind # e.left.kind THEN {Outcome(Crash, l, r)}
     ELSE CASE e.left.kind = "integral" -> integral(e.op, e.type, l, r)
            [] e.left.kind = "floating" -> floating(e.op, l, r)
            [] e.left.kind = "fixed" -> {Outcome(decimal(e.op, e.type, e.left, e.right, l, r), l, r)}
            [] e.left.kind = "boolean" -> {Outcome(boolean(e.op, l, r), l, r)}

evaluate_expression(e, l, r) ==
  CASE e.op = "literal" -> {Outcome(create_constant(e.left, e.type, l), l, r)}
    [] e.op = "as" -> {Outcome(Error(169), l, r)}
    [] e.op = "minus" -> {scalar_minus(e.type, e.left.kind, l, r)}
    [] e.op = "plus" -> {scalar_plus(e.type, e.left.kind, l, r)}
    [] e.op \in {"not", "invert_sign"} -> {boolean_not(e.left.kind, l, r)}
    [] OTHER -> evaluate_binary(e, l, r)

(***************************************************************************)
(* The generated code, by the value it computes at run time.               *)
(***************************************************************************)
\* codegen_binary_op, `arith`: floats, integers and characters.  The modulo
\* adds the divisor to what compares as negative, even when it is unsigned,
\* and the quotient divides as signed.
arith(op, t, l, r) ==
  LET w == t.bits
      a == Number(l, t, w)
      b == Number(r, t, w)
      Whole(n) == Computed(Wrap(n, w), w)
      rem == Wrap(Remainder(a, b), w)
      mod == IF Signed(rem, w) < 0 THEN Wrap(rem + r, w) ELSE rem
      float == t.kind = "float"
      Test(p) == Computed(IF p THEN 1 ELSE 0, 1)
  IN CASE op = "add" -> Whole(l + r)
       [] op = "sub" -> Whole(l - r)
       [] op = "mul" -> Whole(a * b)
       [] op = "div" -> Divided(a, b)
       [] op = "pow" -> IF float THEN Raised(a, b) ELSE Crash
       [] op \in {"mod", "quo"} /\ float -> Error(207)
       [] op \in {"mod", "quo", "rem"} /\ r = 0 -> Undefined
       [] op = "mod" /\ ~float /\ r # 0 -> Whole(mod)
       [] op = "quo" /\ ~float /\ r # 0 -> Whole(Quotient(Signed(Wrap(l - mod, w), w), Signed(r, w)))
       [] op = "rem" /\ r # 0 -> Whole(Remainder(a, b))
       [] op = "gre" -> Test(a > b)
       [] op = "low" -> Test(a < b)
       [] op = "gre_eq" -> Test(a >= b)
       [] op = "low_eq" -> Test(a <= b)
       [] op \in {"eq", "eqs", "is", "in"} -> Test(l = r)
       [] op \in {"neq", "neqs", "nis", "nin"} -> Test(l # r)
       [] OTHER -> Error(207)

\* codegen_binary_op, `byte`: booleans and bytes.
byte(op, t, l, r) ==
  LET w == t.bits
      Whole(n) == Computed(n, w)
      Test(p) == Computed(IF p THEN 1 ELSE 0, 1)
  IN CASE op = "gre" -> Test(l > r)
       [] op = "low" -> Test(l < r)
       [] op = "gre_eq" -> Test(l >= r)
       [] op = "low_eq" -> Test(l <= r)
       [] op \in {"eq", "eqs", "is", "in"} -> Test(l = r)
       [] op \in {"neq", "neqs", "nis", "nin"} -> Test(l # r)
       [] op \in {"and", "b_and"} -> Whole(BitsAnd(l, r, w))
       [] op \in {"nand", "b_nand"} -> Whole(BitsNot(BitsAnd(l, r, w), w))
       [] op \in {"or", "b_or"} -> Whole(BitsOr(l, r, w))
       [] op \in {"xor", "b_xor"} -> Whole(BitsXor(l, r, w))
       [] op \in {"nor", "b_nor"} -> Whole(BitsNot(BitsOr(l, r, w), w))
       [] op \in {"xnor", "b_xnor"} -> Whole(BitsNot(BitsXor(l, r, w), w))
       [] op \in {"b_shl_0", "b_shr_0", "b_shr_a"} /\ r >= w -> Undefined
       [] op = "b_shl_0" /\ r < w -> Whole(ShiftLeft(l, r, w))
       [] op = "b_shr_0" /\ r < w -> Whole(ShiftRight(l, r))
       [] op = "b_shr_a" /\ r < w -> Whole(ShiftSigned(l, r, w))
       [] op = "b_rol" -> Whole(Rotated(l, r, w))
       [] op = "b_ror" -> Whole(Rotated(l, w - (r % w), w))
       [] OTHER -> Error(207)

\* The shifts that fill with ones are for words of 32 bits and any type; by
\* zero places they shift their mask out of the word.
fill_ones(op, t, l, r) ==
  IF t.bits # Int32 \/ t.kind = "float" THEN Crash
  ELSE IF r = 0 \/ r >= Int32 THEN Undefined
  ELSE IF op = "b_shl_1"
       THEN Computed(BitsOr(ShiftLeft(l, r, Int32), ShiftRight(Ones(Int32), Int32 - r), Int32), Int32)
       ELSE Computed(BitsOr(ShiftRight(l, r), ShiftLeft(Ones(Int32), Int32 - r, Int32), Int32), Int32)

codegen_binary_op(op, t, l, r) ==
  IF op \in {"b_shl_1", "b_shr_1"} THEN fill_ones(op, t, l, r)
  ELSE IF is_byte(t) \/ t.kind = "bool" THEN byte(op, t, l, r)
  ELSE IF is_fixed(t) THEN Error(207)
  ELSE arith(op, t, l, r)

\* codegen_unary_op: the sign operations work on the bits below the top one.
codegen_unary_op(op, t, x) ==
  LET w == t.bits
      inv == 2^(w - 1) - 1
  IN CASE op = "not" -> IF is_byte(t) \/ t.kind = "bool" THEN Computed(BitsNot(x, w), w) ELSE Error(207)
       [] op # "not" /\ t.kind = "float" -> Crash
       [] op # "not" /\ ~is_integral(t) /\ t.kind # "float" -> Error(207)
       [] op = "plus" /\ is_integral(t) -> Computed(BitsAnd(x, inv, w), w)
       [] op = "minus" /\ is_integral(t) -> Computed(BitsOr(x, inv, w), w)
       [] op = "invert_sign" /\ is_integral(t) -> Computed(BitsXor(x, inv, w), w)

\* primitive_coerce: an integer is widened with its sign, whatever its type.
primitive_coerce(x, from, to) ==
  IF from.bits = to.bits /\ (from.kind = "float") = (to.kind = "float") THEN Computed(x, to.bits)
  ELSE IF from.kind = "bool" /\ to.kind # "float" THEN Computed(x, to.bits)
  ELSE Computed(Wrap(Signed(x, from.bits), to.bits), to.bits)

Generate(e, l, r) ==
  LET x == Wrap(l, e.type.bits)
      y == Wrap(r, e.type.bits)
  IN CASE e.op = "literal" -> Computed(x, e.type.bits)
       [] e.op = "as" -> primitive_coerce(x, e.type, e.to)
       [] e.op \in Unary -> codegen_unary_op(e.op, e.type, x)
       [] OTHER -> codegen_binary_op(e.op, e.type, x, y)

(***************************************************************************)
(* The variable, in each unit that names it.                               *)
(***************************************************************************)
FoldingInit ==
  /\ expr \in Expressions
  /\ asserts \in BOOLEAN
  /\ written \in Operands(expr)
  /\ cells = written
  /\ generated = [u \in Units |-> NotYet]
  /\ sizes = [u \in Units |-> NotYet]

Crashed == \E u \in Units : Crash \in {generated[u], sizes[u]}

\* codegen_Global_Variable and codegen_Local_Variable: a constant is folded,
\* and so is what initialises a global variable; a local constant that does
\* not fold, a global that does not and every other local is generated.
Settle(e, result, run) ==
  CASE e.variable = "global_const" -> IF result.is = "error" THEN Error(278) ELSE result
    [] e.variable = "global" ->
         IF result.is = "error" THEN run
         ELSE IF asserts /\ result.is = "const" /\ result.bits # e.type.bits THEN Crash ELSE result
    [] e.variable = "local_const" -> IF result.is = "error" THEN run ELSE result
    [] e.variable = "local" -> run

\* A local variable is named in one unit.
Home(u) ==
  expr.variable \in {"local", "local_const"} =>
    \A v \in Units \ {u} : generated[v] = NotYet /\ sizes[v] = NotYet

Codegen_Variable(u) ==
  /\ ~Crashed
  /\ generated[u] = NotYet
  /\ Home(u)
  /\ IF expr.variable = "local"
     THEN /\ generated' = [generated EXCEPT ![u] = Generate(expr, cells[1], cells[2])]
          /\ UNCHANGED cells
     ELSE \E o \in evaluate_expression(expr, cells[1], cells[2]) :
            /\ generated' = [generated EXCEPT
                               ![u] = Settle(expr, o.result, Generate(expr, o.cells[1], o.cells[2]))]
            /\ cells' = o.cells
  /\ UNCHANGED <<expr, written, asserts, sizes>>

\* codegen_Array: the size is what the expression of the variable evaluates
\* to now, when that is an integer.
IsInteger(result) == result.is = "const" /\ (expr.left.kind = "floating" => result.bits = 1)

Codegen_Array(u) ==
  /\ ~Crashed
  /\ sizes[u] = NotYet
  /\ Home(u)
  /\ \E o \in evaluate_expression(expr, cells[1], cells[2]) :
       /\ sizes' = [sizes EXCEPT ![u] = IF o.result = Crash \/ IsInteger(o.result) THEN o.result ELSE Error(279)]
       /\ cells' = o.cells
  /\ UNCHANGED <<expr, written, asserts, generated>>

FoldingNext == \E u \in Units : Codegen_Variable(u) \/ Codegen_Array(u)
FoldingSpec == FoldingInit /\ [][FoldingNext]_foldingVars

(***************************************************************************)
(* What docs/wiki/language/operators.md promises of an operation on the    *)
(* words l and r of a type, where it promises something.                   *)
(***************************************************************************)
Documented(e, l, r) ==
  LET t == e.type
      w == t.bits
      a == Number(l, t, w)
      b == Number(r, t, w)
      top == (l \div 2^(w - 1)) % 2
      Truth(p) == {IF p THEN 1 ELSE 0}
      Promised(p, v) == IF p THEN {Wrap(v, w)} ELSE 0 .. Ones(w)
      And == BitsAnd(l, r, w)
      Or == BitsOr(l, r, w)
      Ends == Word({i \in 0 .. w - 1 : i < r})
      Starts == Word({i \in 0 .. w - 1 : i >= w - r})
  IN CASE e.op \in {"literal", "as"} -> {Wrap(a, e.to.bits)}
       [] e.op = "minus" -> {Wrap(-a, w)}
       [] e.op = "not" -> {Ones(w) - l}
       [] e.op = "add" -> {Wrap(a + b, w)}
       [] e.op = "sub" -> {Wrap(a - b, w)}
       [] e.op = "mul" -> {Wrap(a * b, w)}
       [] e.op = "pow" -> {PowerOf(l, r, w)}
       [] e.op = "mod" -> Promised(b > 0, IF b > 0 THEN a % b ELSE 0)
       [] e.op = "quo" -> Promised(b > 0, IF b > 0 THEN a \div b ELSE 0)
       [] e.op = "rem" -> Promised(b # 0, IF b = 0 THEN 0 ELSE IF a < 0 THEN -((-a) % AbsOf(b)) ELSE a % AbsOf(b))
       [] e.op = "gre" -> Truth(a > b)
       [] e.op = "low" -> Truth(a < b)
       [] e.op = "gre_eq" -> Truth(a >= b)
       [] e.op = "low_eq" -> Truth(a <= b)
       [] e.op = "eq" -> Truth(a = b)
       [] e.op = "neq" -> Truth(a # b)
       [] e.op \in {"and", "b_and"} -> {And}
       [] e.op \in {"nand", "b_nand"} -> {Ones(w) - And}
       [] e.op \in {"or", "b_or"} -> {Or}
       [] e.op \in {"nor", "b_nor"} -> {Ones(w) - Or}
       [] e.op \in {"xor", "b_xor"} -> {Or - And}
       [] e.op \in {"xnor", "b_xnor"} -> {Ones(w) - (Or - And)}
       [] e.op = "b_shl_0" -> Promised(r < w, l * 2^r)
       [] e.op = "b_shl_1" -> Promised(r < w, l * 2^r + Ends)
       [] e.op = "b_shl_a" -> Promised(r < w, l * 2^r + top * Ends)
       [] e.op = "b_shr_0" -> Promised(r < w, l \div 2^r)
       [] e.op = "b_shr_1" -> Promised(r < w, l \div 2^r + Starts)
       [] e.op = "b_shr_a" -> Promised(r < w, l \div 2^r + top * Starts)
       [] e.op = "b_rol" -> Promised(r < w, l * 2^r + l \div 2^(w - r))
       [] e.op = "b_ror" -> Promised(r < w, l \div 2^r + (l % 2^r) * 2^(w - r))
       [] OTHER -> 0 .. Ones(w)

\* A number of the expression's type, written without a sign.
Fits(e, x) == x < 2^(IF is_signed(e.type) THEN e.type.bits - 1 ELSE e.type.bits)
Key == <<expr.op, expr.type.kind>>

\* What an operation folds to is, in the bits of its type, what the
\* documentation promises of the numbers that were written: for the
\* operations of FoldedAs and literals that fit their type.
FoldDocumented(FoldedAs) ==
  Key \in FoldedAs /\ (\A i \in 1 .. 2 : Fits(expr, written[i])) =>
    \A u \in Units : generated[u].is = "const" =>
      Wrap(generated[u].value, expr.type.bits) \in Documented(expr, written[1], written[2])

\* The generated code computes what the documentation promises, for the
\* operations of GeneratedAs and every pair of operands.
GeneratedDocumented(GeneratedAs) ==
  Key \in GeneratedAs =>
    \A u \in Units : generated[u].is = "value" =>
      generated[u].value \in Documented(expr, Wrap(written[1], expr.type.bits), Wrap(written[2], expr.type.bits))

\* Every unit and every table has the same constant for a variable, in
\* whatever order they evaluate its expression, when the operation leaves its
\* literals alone.
SameEverywhere ==
  LET results == {generated[u] : u \in Units} \cup {sizes[u] : u \in Units}
      constants == {c \in results : c.is = "const"}
  IN expr.op \in Unwritten /\ expr.left.kind # "floating" => \A c, d \in constants : c = d
=============================================================================
