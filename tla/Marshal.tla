------------------------------- MODULE Marshal -------------------------------
(***************************************************************************)
(* mar_encode and mar_decode (src/kernel/extra/lmarshal.c) as operators.   *)
(*                                                                         *)
(* A heap is a function from numbers to objects. An object has a type, the *)
(* entries a traversal meets, in the order of lua_next (keys and values of *)
(* a table, numbers and upvalues of a function, without those that are     *)
(* nil), and for the hooks __wrap and __persist of its metatable the       *)
(* function they return, or 0 where there is no hook. What userdata is, is *)
(* what that function captures. A value is nil, a number, another datum, a *)
(* pointer (light userdata) or an object.                                  *)
(*                                                                         *)
(* Code is a tree: lengths and type bytes only delimit it.  Encoding an    *)
(* object gives it the next index; a later visit writes the index.  The    *)
(* decoder counts the objects it rebuilds, which comes to the same except  *)
(* where a hook is involved.                                               *)
(***************************************************************************)
EXTENDS Integers, Sequences, FiniteSets, SequencesExt

Nil == <<"nil">>
Datum(x) == <<"datum", x>>
Number(n) == <<"number", n>>
Pointer(p) == <<"pointer", p>>
Obj(o) == <<"obj", o>>

Object(type, entries) == [type |-> type, entries |-> entries, wrap |-> 0, persist |-> 0]

(* An object as a table with the object as its only element: what hooks    *)
(* return is encoded in this way.                                          *)
Callback(f) == << <<Number(1), Obj(f)>> >>

-----------------------------------------------------------------------------
(* The state of an encoder: seen maps objects to indices (0: not seen),    *)
(* idx is the next index, log the objects written in full so far, and      *)
(* error whether a Lua error was raised, after which nothing is written.   *)
EncoderOf(h) == [seen |-> [o \in DOMAIN h |-> 0], idx |-> 1, log |-> <<>>, error |-> FALSE]

Register(st, o) == [st EXCEPT !.seen[o] = st.idx, !.idx = @ + 1, !.log = Append(@, o)]

Raise(st) == [code |-> Nil, st |-> [st EXCEPT !.error = TRUE]]

RECURSIVE EncodeValue(_, _, _, _)
RECURSIVE EncodeEntries(_, _, _, _)

EncodeTable(h, o, st, nowrap) ==
    IF h[o].persist # 0
    THEN LET r == EncodeEntries(h, Callback(h[o].persist), [st EXCEPT !.log = Append(@, o)], nowrap)
         IN [code |-> <<"usr", "table", r.code>>, st |-> r.st]
    ELSE LET r == EncodeEntries(h, h[o].entries, Register(st, o), nowrap)
         IN [code |-> <<"val", "table", r.code>>, st |-> r.st]

(* The dump of a function stands for its code; the table of upvalues       *)
(* follows.                                                                *)
EncodeFunction(h, o, st, nowrap) ==
    LET r == EncodeEntries(h, h[o].entries, Register(st, o), nowrap)
    IN [code |-> <<"val", "function", r.code>>, st |-> r.st]

(* Mutant: __wrap is used for other processes too.                         *)
HookAlwaysWrap(h, o, nowrap) == IF h[o].wrap # 0 THEN h[o].wrap ELSE h[o].persist

(* Within the process __wrap goes before __persist; elsewhere it is not    *)
(* permitted.                                                              *)
Hook(h, o, nowrap) == IF ~nowrap /\ h[o].wrap # 0 THEN h[o].wrap ELSE h[o].persist

(* Mutant: userdata is not entered in the table of seen objects.           *)
EncodeUserdataUnseen(h, o, st, nowrap) ==
    IF Hook(h, o, nowrap) = 0
    THEN Raise(st)
    ELSE LET r == EncodeEntries(h, Callback(Hook(h, o, nowrap)),
                                [st EXCEPT !.idx = @ + 1, !.log = Append(@, o)], nowrap)
         IN [code |-> <<"usr", "userdata", r.code>>, st |-> r.st]

EncodeUserdata(h, o, st, nowrap) ==
    IF Hook(h, o, nowrap) = 0
    THEN Raise(st)
    ELSE LET r == EncodeEntries(h, Callback(Hook(h, o, nowrap)), Register(st, o), nowrap)
         IN [code |-> <<"usr", "userdata", r.code>>, st |-> r.st]

EncodeValue(h, v, st, nowrap) ==
    CASE v[1] \in {"nil", "datum", "number"} -> [code |-> v, st |-> st]
      [] v[1] = "pointer" -> IF nowrap THEN Raise(st) ELSE [code |-> v, st |-> st]
      [] v[1] = "obj" ->
           LET o == v[2] IN
           CASE h[o].type \in {"thread", "cfunction"} -> Raise(st)
             [] st.seen[o] # 0 -> [code |-> <<"ref", st.seen[o]>>, st |-> st]
             [] h[o].type = "table" -> EncodeTable(h, o, st, nowrap)
             [] h[o].type = "function" -> EncodeFunction(h, o, st, nowrap)
             [] h[o].type = "userdata" -> EncodeUserdata(h, o, st, nowrap)

(* mar_encode_table: every key and its value, until an error is raised.    *)
EncodeEntries(h, es, st, nowrap) ==
    IF es = <<>> \/ st.error
    THEN [code |-> <<>>, st |-> st]
    ELSE LET k == EncodeValue(h, es[1][1], st, nowrap)
             v == EncodeValue(h, es[1][2], k.st, nowrap)
             rest == EncodeEntries(h, Tail(es), v.st, nowrap)
         IN [code |-> << <<k.code, v.code>> >> \o rest.code, st |-> rest.st]

(* mar_encode without constants.                                           *)
MarEncode(h, v, nowrap) == EncodeValue(h, v, EncoderOf(h), nowrap)

-----------------------------------------------------------------------------
(* The state of a decoder: the heap it builds, the objects by index, and   *)
(* whether an error was raised.                                            *)
DecoderOf(h) == [heap |-> h, seen |-> <<>>, error |-> FALSE]

Fail(st) == [v |-> Nil, st |-> [st EXCEPT !.error = TRUE]]

(* lua_rawgeti of the table of seen objects.                               *)
Lookup(st, ref) == IF ref \in DOMAIN st.seen THEN st.seen[ref] ELSE Nil

Allocate(st, object) == [st EXCEPT !.heap = Append(@, object)]
Remember(st, v) == [st EXCEPT !.seen = Append(@, v)]

(* lua_settable: a key that is nil is an error, a value that is nil leaves *)
(* no entry, and a key that is there already gets the new value.           *)
SetEntry(st, o, k, v) ==
    IF st.error \/ k = Nil
    THEN [st EXCEPT !.error = TRUE]
    ELSE [st EXCEPT !.heap[o].entries =
            LET others == SelectSeq(@, LAMBDA e : e[1] # k)
            IN IF v = Nil THEN others ELSE Append(others, <<k, v>>)]

(* lua_objlen of the table of upvalues: up to the first that is nil.  Those *)
(* after it are not set in the new function.                               *)
Border(es) == CHOOSE n \in 0..Len(es) :
    /\ \A m \in 1..n : \E i \in DOMAIN es : es[i][1] = Number(m)
    /\ \A i \in DOMAIN es : es[i][1] # Number(n + 1)

SetUpvalues(st, f, t) ==
    IF st.error THEN st
    ELSE LET es == st.heap[t].entries
         IN [st EXCEPT !.heap[f].entries =
               SelectSeq(es, LAMBDA e : e[1] \in {Number(n) : n \in 1..Border(es)})]

(* The first element of a decoded table.                                   *)
FirstOf(st, t) ==
    LET es == SelectSeq(st.heap[t].entries, LAMBDA e : e[1] = Number(1))
    IN IF es = <<>> THEN Nil ELSE es[1][2]

(* Calling what a hook returned gives a new object, made of what the       *)
(* function captured; anything else cannot be called.                      *)
CallHook(st, type, t) ==
    LET f == FirstOf(st, t) IN
    IF st.error \/ f = Nil \/ f[1] # "obj"
    THEN Fail(st)
    ELSE IF st.heap[f[2]].type # "function"
    THEN Fail(st)
    ELSE LET new == Allocate(st, Object(type, st.heap[f[2]].entries))
             v == Obj(Len(new.heap))
         IN [v |-> v, st |-> Remember(new, v)]

RECURSIVE DecodeValue(_, _)
RECURSIVE DecodeEntries(_, _, _)

(* Mutant: a table is entered after its entries.                           *)
DecodeTableLate(code, st) ==
    LET new == Allocate(st, Object("table", <<>>))
        v == Obj(Len(new.heap))
    IN [v |-> v, st |-> Remember(DecodeEntries(code, Len(new.heap), new), v)]

(* A table is entered before its entries, which may refer to it.           *)
DecodeTable(code, st) ==
    LET new == Allocate(st, Object("table", <<>>))
        v == Obj(Len(new.heap))
    IN [v |-> v, st |-> DecodeEntries(code, Len(new.heap), Remember(new, v))]

(* lua_load, and then the upvalues from a table of their own.              *)
DecodeFunction(code, st) ==
    LET f == Len(st.heap) + 1
        new == Allocate(Remember(Allocate(st, Object("function", <<>>)), Obj(f)),
                        Object("table", <<>>))
    IN [v |-> Obj(f), st |-> SetUpvalues(DecodeEntries(code, f + 1, new), f, f + 1)]

(* MAR_TUSR: unlike the encoder, the decoder enters the object after what  *)
(* its hook captured.                                                      *)
DecodeHooked(type, code, st) ==
    LET t == Len(st.heap) + 1
        new == Allocate(st, Object("table", <<>>))
    IN CallHook(DecodeEntries(code, t, new), type, t)

DecodeValue(code, st) ==
    CASE st.error -> Fail(st)
      [] code[1] \in {"nil", "datum", "number", "pointer"} -> [v |-> code, st |-> st]
      [] code[1] = "ref" -> [v |-> Lookup(st, code[2]), st |-> st]
      [] code[1] = "usr" -> DecodeHooked(code[2], code[3], st)
      [] code[1] = "val" -> IF code[2] = "table" THEN DecodeTable(code[3], st)
                                                 ELSE DecodeFunction(code[3], st)

DecodeEntries(code, t, st) ==
    IF code = <<>> \/ st.error
    THEN st
    ELSE LET k == DecodeValue(code[1][1], st)
             v == DecodeValue(code[1][2], k.st)
         IN DecodeEntries(Tail(code), t, SetEntry(v.st, t, k.v, v.v))

(* mar_decode into a heap.                                                 *)
MarDecode(h, code) == DecodeValue(code, DecoderOf(h))
=============================================================================
