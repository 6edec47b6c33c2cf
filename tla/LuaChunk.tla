------------------------------ MODULE LuaChunk ------------------------------
(***************************************************************************)
(* Precompiled chunks: how 3rd/lua/ldump.c writes a function and the functions in it,      *)
(* and 3rd/lua/lundump.c reads them again.  A chunk is the sequence of the values written, *)
(* a number, an instruction or the characters of a string each one of them; where one      *)
(* ends only the reader's own order tells.                                            *)
(*                                                                          *)
(* Lines and local variables are not in the functions of LuaCode; upvalues have names.       *)
(* A chunk of another build, and one cut short, which is an error, are left out.          *)
(***************************************************************************)
EXTENDS Integers, Sequences, SequencesExt, TLC

CONSTANT MaxSize      (* 0xFF: a string of this size or longer has it written apart           *)

NULL == "NULL"        \* no string: unknown names, the source of a function in another
Source == "=stdin"

-----------------------------------------------------------------------------
(* Writing.                                                                        *)

Header == <<"signature", "version", "format", "data", "sizes", "integer", "number">>

DumpString(s) ==
  IF s = NULL THEN <<0>>
  ELSE LET size == Len(s) + 1
       IN  (IF size < MaxSize THEN <<size>> ELSE <<MaxSize, size>>) \o <<s>>

DumpVector(v) == <<Len(v)>> \o v
DumpEach(Dump(_), v) == <<Len(v)>> \o FlattenSeq([i \in DOMAIN v |-> Dump(v[i])])

DumpConstant(o) == IF o[1] = "str" THEN <<"str">> \o DumpString(o[2]) ELSE o
DumpUpvalue(u) == <<u.instack, u.idx>>

(* Debug information: the names of upvalues.                                            *)
DumpDebug(p, strip) ==
  IF strip THEN <<0>> ELSE DumpEach(LAMBDA u : DumpString(u.name), p.upvalues)

RECURSIVE DumpFunction(_, _, _)
DumpFunction(p, psource, strip) ==
  DumpString(IF strip \/ psource = Source THEN NULL ELSE Source)
  \o <<p.numparams, p.is_vararg, p.maxstacksize>>
  \o DumpVector(p.code)
  \o DumpEach(DumpConstant, p.k)
  \o DumpEach(DumpUpvalue, p.upvalues)
  \o DumpEach(LAMBDA f : DumpFunction(f, Source, strip), p.p)
  \o DumpDebug(p, strip)

luaU_dump(p, strip) == Header \o <<Len(p.upvalues)>> \o DumpFunction(p, NULL, strip)

-----------------------------------------------------------------------------
(* Reading: what was read, and the rest of the chunk.                                     *)

Read(v, z) == [v |-> v, z |-> z]
LoadByte(z) == Read(Head(z), Tail(z))
LoadBlock(z, n) == Read(SubSeq(z, 1, n), SubSeq(z, n + 1, Len(z)))

LoadString(z) ==
  LET short == LoadByte(z)
      size == IF short.v = MaxSize THEN LoadByte(short.z) ELSE short
  IN  IF size.v = 0 THEN Read(NULL, size.z) ELSE LoadByte(size.z)

LoadVector(z) == LoadBlock(Tail(z), Head(z))
LoadEach(Load(_), z) ==
  FoldLeft(LAMBDA r, i : LET one == Load(r.z) IN Read(Append(r.v, one.v), one.z),
           Read(<<>>, Tail(z)), [i \in 1..Head(z) |-> i])

LoadConstant(z) ==
  CASE z[1] = "nil" -> LoadBlock(z, 1)
    [] z[1] = "str" -> LET s == LoadString(Tail(z)) IN Read(<<"str", s.v>>, s.z)
    [] OTHER -> LoadBlock(z, 2)
LoadUpvalue(z) == Read([name |-> NULL, instack |-> z[1], idx |-> z[2]], SubSeq(z, 3, Len(z)))

(* As many names as were written, for the first upvalues.                               *)
LoadDebug(upvalues, z) ==
  LET names == LoadEach(LoadString, z)
  IN  Read([i \in DOMAIN upvalues |->
              IF i <= Len(names.v) THEN [upvalues[i] EXCEPT !.name = names.v[i]] ELSE upvalues[i]],
           names.z)

RECURSIVE LoadFunction(_)
LoadFunction(chunk) ==
  LET z == LoadString(chunk).z                      \* the source
      code == LoadVector(SubSeq(z, 4, Len(z)))
      k == LoadEach(LoadConstant, code.z)
      upvalues == LoadEach(LoadUpvalue, k.z)
      p == LoadEach(LAMBDA y : LoadFunction(y), upvalues.z)
      named == LoadDebug(upvalues.v, p.z)
  IN  Read([numparams |-> z[1], is_vararg |-> z[2], maxstacksize |-> z[3], code |-> code.v,
            k |-> k.v, upvalues |-> named.v, p |-> p.v],
           named.z)

luaU_undump(chunk) == LoadFunction(SubSeq(chunk, Len(Header) + 2, Len(chunk))).v

-----------------------------------------------------------------------------
(* lua_clonefunction(): a file is compiled in a state of its own; the function gets its own *)
(* constants and inner functions, and shares the code and what describes it.              *)
RECURSIVE cloneproto(_)
cloneproto(p) ==
  [i \in {"numparams", "is_vararg", "maxstacksize", "code", "upvalues"} |-> p[i]]
  @@ [k |-> [n \in DOMAIN p.k |-> p.k[n]], p |-> [n \in DOMAIN p.p |-> cloneproto(p.p[n])]]
=============================================================================
