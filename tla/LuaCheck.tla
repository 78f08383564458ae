------------------------------- MODULE LuaCheck -------------------------------
(* The code checker of ldebug.c, which every loaded binary chunk must pass and  *)
(* which also finds the names the error messages give to values, and the binary *)
(* chunks of ldump.c and lundump.c. A chunk is a sequence of items: an integer, *)
(* a byte, a number or a block of bytes.                                         *)
EXTENDS LuaParser

at(p, pc) == p.code[pc + 1]
size(p)   == Len(p.code)
VARARG_(p, flag) == flag \in p.is_vararg

precheck(p) ==
  /\ p.maxstacksize <= MAXSTACK
  /\ p.numparams + (IF VARARG_(p, "HASARG") THEN 1 ELSE 0) <= p.maxstacksize
  /\ VARARG_(p, "NEEDSARG") => VARARG_(p, "HASARG")
  /\ Len(p.upnames) <= p.nups
  /\ Len(p.lineinfo) \in {0, size(p)}
  /\ size(p) > 0 /\ Last(p.code).op = "RETURN"

luaG_checkopenop(i) == i.op \in {"CALL", "TAILCALL", "RETURN", "SETLIST"} /\ i.b = 0

checkArgMode(p, r, mode) ==
  CASE mode = "N" -> r = 0
    [] mode = "U" -> TRUE
    [] mode = "R" -> r < p.maxstacksize
    [] mode = "K" -> IF ISK(r) THEN INDEXK(r) < Len(p.k) ELSE r < p.maxstacksize

\* A jump must not land on a word that is the batch number of a SETLIST. The word
\* before it may look like a SETLIST and be itself a batch number, and so on.
checkjump(p, dest) ==
  LET raw(j) == at(p, dest - 1 - j).op = "SETLIST" /\ at(p, dest - 1 - j).c = 0
      j == CHOOSE n \in 0..dest : (\A m \in 0..(n - 1) : raw(m)) /\ (n < dest => ~ raw(n))
  IN 0 <= dest /\ dest < size(p) /\ j % 2 = 0

checkoperands(p, pc, i) ==
  /\ i.a < p.maxstacksize
  /\ CASE getOpMode(i.op) = "iABC" -> checkArgMode(p, i.b, getBMode(i.op))
                                      /\ checkArgMode(p, i.c, getCMode(i.op))
       [] getOpMode(i.op) = "iABx" -> getBMode(i.op) = "K" => i.b < Len(p.k)
       [] getOpMode(i.op) = "iAsBx" -> getBMode(i.op) = "R" => checkjump(p, pc + 1 + i.b)
  /\ testTMode(i.op) => pc + 2 < size(p) /\ at(p, pc + 1).op = "JMP"

checkopcode(p, pc, i) ==
  LET op == i.op
      reg(n) == n < p.maxstacksize
      open == luaG_checkopenop(at(p, pc + 1))
  IN /\ op = "LOADBOOL" /\ i.c = 1 =>
          pc + 2 < size(p) /\ (at(p, pc + 1).op # "SETLIST" \/ at(p, pc + 1).c # 0)
     /\ op \in {"GETUPVAL", "SETUPVAL"} => i.b < p.nups
     /\ op \in {"GETGLOBAL", "SETGLOBAL"} => p.k[i.b + 1][1] = "string"
     /\ op = "SELF" => reg(i.a + 1)
     /\ op = "CONCAT" => i.b < i.c
     /\ op = "TFORLOOP" => i.c >= 1 /\ reg(i.a + 2 + i.c)
     /\ op \in {"FORLOOP", "FORPREP"} => reg(i.a + 3)
     /\ op \in {"CALL", "TAILCALL"} =>
          /\ i.b # 0 => reg(i.a + i.b - 1)
          /\ IF i.c = 0 THEN open ELSE i.c > 1 => reg(i.a + i.c - 2)
     /\ op = "RETURN" /\ i.b > 1 => reg(i.a + i.b - 2)
     /\ op = "SETLIST" => (i.b > 0 => reg(i.a + i.b)) /\ (i.c = 0 => pc + 1 < size(p) - 1)
     /\ op = "CLOSURE" =>
          /\ i.b < Len(p.p)
          /\ pc + p.p[i.b + 1].nups < size(p)
          /\ \A j \in 1..p.p[i.b + 1].nups : at(p, pc + j).op \in {"GETUPVAL", "MOVE"}
     /\ op = "VARARG" =>
          /\ VARARG_(p, "ISVARARG") /\ ~ VARARG_(p, "NEEDSARG")
          /\ i.b = 0 => open
          /\ reg(i.a + i.b - 2)

changes(i, reg) ==
  \/ testAMode(i.op) /\ i.a = reg
  \/ i.op = "LOADNIL" /\ i.a <= reg /\ reg <= i.b
  \/ i.op = "SELF" /\ reg = i.a + 1
  \/ i.op = "TFORLOOP" /\ reg >= i.a + 2
  \/ i.op \in {"CALL", "TAILCALL"} /\ reg >= i.a

\* Where the check goes on: when it traces a register it follows the jumps forward.
following(p, pc, i, lastpc, reg) ==
  LET dest == pc + 1 + i.b
  IN CASE i.op \in {"FORLOOP", "FORPREP", "JMP"} /\ reg # NO_REG /\ pc < dest /\ dest <= lastpc -> dest
       [] i.op = "SETLIST" /\ i.c = 0 -> pc + 2
       [] i.op = "CLOSURE" /\ reg # NO_REG -> pc + 1 + p.p[i.b + 1].nups
       [] OTHER -> pc + 1

\* The last instruction before lastpc that changes the register, -1 for bad code.
RECURSIVE symbexec_(_, _, _, _, _)
symbexec_(p, lastpc, reg, pc, last) ==
  LET i == at(p, pc)
      r == IF reg = NO_REG THEN -1 ELSE reg
  IN IF pc >= lastpc THEN last
     ELSE IF ~ (checkoperands(p, pc, i) /\ checkopcode(p, pc, i)) THEN -1
     ELSE symbexec_(p, lastpc, reg, following(p, pc, i, lastpc, reg),
                    IF changes(i, r) THEN pc ELSE last)
symbexec(p, lastpc, reg) == IF precheck(p) THEN symbexec_(p, lastpc, reg, 0, size(p) - 1) ELSE -1
luaG_checkcode(p) == symbexec(p, size(p), NO_REG) # -1

\* The n-th local variable that is active at pc.
luaF_getlocalname(p, n, pc) ==
  LET live == SelectSeq(p.locvars, LAMBDA v : v.startpc <= pc /\ pc < v.endpc)
  IN IF n <= Len(live) THEN live[n].name ELSE ""
kname(p, c) == IF ISK(c) /\ p.k[INDEXK(c) + 1][1] = "string" THEN p.k[INDEXK(c) + 1][2] ELSE "?"

\* The kind and name of the variable a register holds the value of.
RECURSIVE getobjname(_, _, _)
getobjname(p, pc, reg) ==
  LET name == luaF_getlocalname(p, reg + 1, pc)
      i == at(p, symbexec(p, pc, reg))
  IN CASE name # "" -> <<"local", name>>
       [] name = "" /\ i.op = "GETGLOBAL" -> <<"global", p.k[i.b + 1][2]>>
       [] name = "" /\ i.op = "MOVE" /\ i.b < i.a -> getobjname(p, pc, i.b)
       [] name = "" /\ i.op = "GETTABLE" -> <<"field", kname(p, i.c)>>
       [] name = "" /\ i.op = "GETUPVAL" -> <<"upvalue", p.upnames[i.b + 1]>>
       [] name = "" /\ i.op = "SELF" -> <<"method", kname(p, i.c)>>
       [] OTHER -> <<>>
-----------------------------------------------------------------------------
(* Binary chunks.                                                               *)
header == <<"LUAC_HEADER">>
DumpVector(items) == <<Len(items)>> \o items
DumpString(s) == <<Len(s) + 1, <<"bytes", s>> >>     \* with the trailing zero
DumpConstant(v) ==
  <<v[1]>> \o (CASE v[1] = "nil" -> <<>>
                 [] v[1] \in {"boolean", "number"} -> <<v[2]>>
                 [] v[1] = "string" -> DumpString(v[2]))
DumpAll(items) == <<Len(items)>> \o FlattenSeq(items)
DumpConstants(p, functions) ==
  DumpAll([n \in DOMAIN p.k |-> DumpConstant(p.k[n])]) \o DumpAll(functions)
\* Wrong: a stripped function has no count of names of upvalues.
DumpDebugShort(p, strip) ==
  IF strip THEN <<0, 0>>
  ELSE DumpVector(p.lineinfo)
       \o DumpAll([n \in DOMAIN p.locvars |-> DumpString(p.locvars[n].name)
                      \o <<p.locvars[n].startpc, p.locvars[n].endpc>>])
       \o DumpAll([n \in DOMAIN p.upnames |-> DumpString(p.upnames[n])])
DumpDebug(p, strip) ==
  IF strip THEN <<0, 0, 0>>
  ELSE DumpVector(p.lineinfo)
       \o DumpAll([n \in DOMAIN p.locvars |-> DumpString(p.locvars[n].name)
                      \o <<p.locvars[n].startpc, p.locvars[n].endpc>>])
       \o DumpAll([n \in DOMAIN p.upnames |-> DumpString(p.upnames[n])])
RECURSIVE DumpFunction(_, _)
DumpFunction(p, strip) ==
  <<p.nups, p.numparams, p.is_vararg, p.maxstacksize>> \o DumpVector(p.code)
  \o DumpConstants(p, [n \in DOMAIN p.p |-> DumpFunction(p.p[n], strip)])
  \o DumpDebug(p, strip)
luaU_dump(p, strip) == <<header>> \o DumpFunction(p, strip)

(* The loader: its state has the rest of the chunk z, the result r, the nesting *)
(* depth and the first error.                                                    *)
loaderror(L, why) == [L EXCEPT !.z = <<>>, !.err = IF @ = "" THEN why ELSE @]
\* Reads n items; an integer read after an error is 0, so that loops end.
LoadBlock(L, n) ==
  IF Len(L.z) < n THEN [loaderror(L, "unexpected end") EXCEPT !.r = [j \in 1..n |-> 0]]
  ELSE [L EXCEPT !.z = SubSeq(@, n + 1, Len(@)), !.r = SubSeq(L.z, 1, n)]
LoadVar(L)    == LET s == LoadBlock(L, 1) IN [s EXCEPT !.r = s.r[1]]
natural(L)    == IF L.err = "" /\ L.r < 0 THEN [loaderror(L, "bad integer") EXCEPT !.r = 0] ELSE L
\* Wrong: a count that is missing is zero.
LoadIntAtEnd(L) == IF L.z = <<>> THEN [L EXCEPT !.r = 0] ELSE natural(LoadVar(L))
LoadInt(L)    == natural(LoadVar(L))
LoadVector(L) == LET n == LoadInt(L) IN IF n.err # "" THEN [n EXCEPT !.r = <<>>] ELSE LoadBlock(n, n.r)
LoadString(L) ==
  LET n == LoadVar(L)
      s == LoadBlock(n, 1)
  IN IF n.r = 0 THEN [n EXCEPT !.r = ""] ELSE [s EXCEPT !.r = IF s.err = "" THEN s.r[1][2] ELSE ""]
LoadConstant(L) ==
  LET t == LoadVar(L)
      v == LoadVar(t)
      s == LoadString(t)
  IN CASE t.err # "" -> t
       [] t.err = "" /\ t.r = "nil" -> [t EXCEPT !.r = <<"nil">>]
       [] t.err = "" /\ t.r \in {"boolean", "number"} -> [v EXCEPT !.r = <<t.r, v.r>>]
       [] t.err = "" /\ t.r = "string" -> [s EXCEPT !.r = <<"string", s.r>>]
       [] OTHER -> loaderror(t, "bad constant")
\* Loads a counted sequence, stopping at an error.
RECURSIVE LoadItems(_, _, _, _)
LoadItems(L, Load(_), n, items) ==
  LET s == Load(L)
  IN IF n = 0 \/ L.err # "" THEN [L EXCEPT !.r = items] ELSE LoadItems(s, Load, n - 1, Append(items, s.r))
LoadAll(L, Load(_)) == LET n == LoadInt(L) IN LoadItems(n, Load, n.r, <<>>)
LoadLocVar(L) ==
  LET name == LoadString(L)
      startpc == LoadInt(name)
      endpc == LoadInt(startpc)
  IN [endpc EXCEPT !.r = [name |-> name.r, startpc |-> startpc.r, endpc |-> endpc.r]]
RECURSIVE LoadFunction(_)
LoadFunction(L) ==
  LET deep == [L EXCEPT !.depth = @ + 1]
      nups == LoadVar(deep)
      numparams == LoadVar(nups)
      vararg_ == LoadVar(numparams)
      maxstack == LoadVar(vararg_)
      code == LoadVector(maxstack)
      k == LoadAll(code, LoadConstant)
      p == LoadAll(k, LoadFunction)
      lineinfo == LoadVector(p)
      locvars == LoadAll(lineinfo, LoadLocVar)
      upnames == LoadAll(locvars, LoadString)
      f == [code |-> code.r, lineinfo |-> lineinfo.r, k |-> k.r, p |-> p.r, nups |-> nups.r,
            upnames |-> upnames.r, locvars |-> locvars.r, numparams |-> numparams.r,
            is_vararg |-> vararg_.r, maxstacksize |-> maxstack.r]
  IN IF deep.depth > LUAI_MAXCCALLS THEN loaderror(deep, "code too deep")
     ELSE IF upnames.err # "" THEN upnames
     ELSE IF ~ luaG_checkcode(f) THEN loaderror(upnames, "bad code")
     ELSE [upnames EXCEPT !.depth = L.depth, !.r = f]
\* The thread that loads the chunk has no C calls, as a new one of the host.
luaU_undump(z) ==
  LET h == LoadVar([z |-> z, r |-> 0, depth |-> 0, err |-> ""])
      f == LoadFunction(h)
  IN IF h.err # "" THEN h ELSE IF h.r # header THEN loaderror(h, "bad header") ELSE f
=============================================================================
