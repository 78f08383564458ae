----------------------------- MODULE LuaOpcodes -----------------------------
(* The instruction set of the Lua 5.1 virtual machine: lopcodes.h, lopcodes.c. *)
(* An instruction is a record of its opcode and its operands; the operand Bx   *)
(* (or sBx) of the formats iABx and iAsBx is kept in the field b.              *)
EXTENDS Integers, Sequences

CONSTANTS
    MAXINDEXRK,        \* largest constant index an RK operand can hold (255)
    MAXARG_C,          \* largest value of operand C (511)
    MAXSTACK,          \* limit of the registers of a function (250)
    LFIELDS_PER_FLUSH, \* array items stored by one SETLIST (50)
    LUAI_MAXCCALLS     \* limit of nested C calls and syntactic levels (200)

ASSUME OpcodeAssumption ==
    /\ {MAXINDEXRK, MAXARG_C, MAXSTACK, LFIELDS_PER_FLUSH} \subseteq Nat \ {0}
    /\ MAXINDEXRK < 256 /\ MAXSTACK <= 250

NO_REG  == 255
NO_JUMP == -1
BITRK   == 256
LUA_MULTRET == -1

ISK(x)    == x >= BITRK
INDEXK(x) == x - BITRK
RKASK(x)  == x + BITRK

CREATE_ABC(o, a, b, c) == [op |-> o, a |-> a, b |-> b, c |-> c]
CREATE_ABx(o, a, bc)   == CREATE_ABC(o, a, bc, 0)

\* For each opcode: is a test, sets register A, mode of B, mode of C, format.
luaP_opmodes ==
  LET arith == <<FALSE, TRUE, "K", "K", "iABC">>
      unary == <<FALSE, TRUE, "R", "N", "iABC">>
      compare == <<TRUE, FALSE, "K", "K", "iABC">>
      call == <<FALSE, TRUE, "U", "U", "iABC">>
      loop == <<FALSE, TRUE, "R", "N", "iAsBx">>
  IN [MOVE |-> unary, LOADK |-> <<FALSE, TRUE, "K", "N", "iABx">>,
      LOADBOOL |-> call, LOADNIL |-> unary,
      GETUPVAL |-> <<FALSE, TRUE, "U", "N", "iABC">>,
      GETGLOBAL |-> <<FALSE, TRUE, "K", "N", "iABx">>,
      GETTABLE |-> <<FALSE, TRUE, "R", "K", "iABC">>,
      SETGLOBAL |-> <<FALSE, FALSE, "K", "N", "iABx">>,
      SETUPVAL |-> <<FALSE, FALSE, "U", "N", "iABC">>,
      SETTABLE |-> <<FALSE, FALSE, "K", "K", "iABC">>,
      NEWTABLE |-> call, SELF |-> <<FALSE, TRUE, "R", "K", "iABC">>,
      ADD |-> arith, SUB |-> arith, MUL |-> arith, DIV |-> arith,
      MOD |-> arith, POW |-> arith, UNM |-> unary, NOT |-> unary, LEN |-> unary,
      CONCAT |-> <<FALSE, TRUE, "R", "R", "iABC">>,
      JMP |-> <<FALSE, FALSE, "R", "N", "iAsBx">>,
      EQ |-> compare, LT |-> compare, LE |-> compare,
      TEST |-> <<TRUE, TRUE, "R", "U", "iABC">>,
      TESTSET |-> <<TRUE, TRUE, "R", "U", "iABC">>,
      CALL |-> call, TAILCALL |-> call,
      RETURN |-> <<FALSE, FALSE, "U", "N", "iABC">>,
      FORLOOP |-> loop, FORPREP |-> loop,
      TFORLOOP |-> <<TRUE, FALSE, "N", "U", "iABC">>,
      SETLIST |-> <<FALSE, FALSE, "U", "U", "iABC">>,
      CLOSE |-> <<FALSE, FALSE, "N", "N", "iABC">>,
      CLOSURE |-> <<FALSE, TRUE, "U", "N", "iABx">>,
      VARARG |-> <<FALSE, TRUE, "U", "N", "iABC">>]

luaP_opnames ==
  <<"MOVE", "LOADK", "LOADBOOL", "LOADNIL", "GETUPVAL", "GETGLOBAL", "GETTABLE",
    "SETGLOBAL", "SETUPVAL", "SETTABLE", "NEWTABLE", "SELF", "ADD", "SUB", "MUL",
    "DIV", "MOD", "POW", "UNM", "NOT", "LEN", "CONCAT", "JMP", "EQ", "LT", "LE",
    "TEST", "TESTSET", "CALL", "TAILCALL", "RETURN", "FORLOOP", "FORPREP",
    "TFORLOOP", "SETLIST", "CLOSE", "CLOSURE", "VARARG">>

\* An integer stored in the code where an instruction is expected: the fields of
\* the instruction those bits spell. (Only words below 2^14 whose
\* low six bits name an opcode occur.)
RawWord(n) ==
  [op |-> luaP_opnames[(n % 64) + 1], a |-> n \div 64, b |-> 0, c |-> 0]
RawValue(i) ==
  (CHOOSE n \in 1..Len(luaP_opnames) : luaP_opnames[n] = i.op) - 1 + 64 * i.a

testTMode(op) == luaP_opmodes[op][1]
testAMode(op) == luaP_opmodes[op][2]
getBMode(op)  == luaP_opmodes[op][3]
getCMode(op)  == luaP_opmodes[op][4]
getOpMode(op) == luaP_opmodes[op][5]
-----------------------------------------------------------------------------
\* Lua's arithmetic on the integers the programs of the model use; a result no
\* integer represents (a division by zero, a fraction) is not defined.
FloorDiv(a, b) == IF b > 0 THEN a \div b ELSE (-a) \div (-b)
NumDefined(op, a, b) ==
  CASE op = "DIV" -> b # 0 /\ a = b * FloorDiv(a, b)
    [] op = "MOD" -> b # 0
    [] op = "POW" -> b >= 0
    [] OTHER -> TRUE
NumArith(op, a, b) ==
  CASE op = "ADD" -> a + b
    [] op = "SUB" -> a - b
    [] op = "MUL" -> a * b
    [] op = "DIV" -> FloorDiv(a, b)
    [] op = "MOD" -> a - b * FloorDiv(a, b)
    [] op = "POW" -> a ^ b
    [] op = "UNM" -> -a
=============================================================================
