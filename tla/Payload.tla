------------------------------- MODULE Payload -------------------------------
(***************************************************************************)
(* How the arguments of an event get from one Lua state to another         *)
(* (src/kernel/event.c).  There are three paths: "pending", as an event    *)
(* that waits in a queue, where each argument is copied or encoded by      *)
(* itself (extract_event_from_lua_state, restore_event_to_lua_state);      *)
(* "direct", to an instance at hand (copy_values_directly); and "remote",  *)
(* as one encoded table (emmit_remote_sync) that arrives as a packed event. *)
(***************************************************************************)
EXTENDS Marshal, Functions, FiniteSetsExt

CONSTANTS Payloads   \* pairs of a heap and the arguments that are sent

VARIABLES
    heap, args,   \* the sender's Lua state and the arguments
    path, phase,
    event,        \* what is on its way: encoded elements, or one code if packed
    logs,         \* for each encoding, the objects it wrote in full
    out           \* the receiver's Lua state and the values pushed on its stack

vars == <<heap, args, path, phase, event, logs, out>>

Nothing == [heap |-> <<>>, vals |-> <<>>]

Init ==
    /\ \E p \in Payloads : heap = p.heap /\ args = p.args
    /\ path \in {"pending", "direct", "remote"}
    /\ phase = "args"
    /\ event = <<>> /\ logs = <<>> /\ out = Nothing

(* Data and pointers are copied as they are; the rest is encoded, and a    *)
(* value that cannot be raises an error.                                   *)
Element(h, v) == MarEncode(h, v, FALSE)
Elements(h, vs) == [n \in DOMAIN vs |-> Element(h, vs[n])]
Bad(elements) == \E n \in DOMAIN elements : elements[n].st.error

(* copy_event_element for each argument.                                   *)
ExtractEvent ==
    LET es == Elements(heap, args) IN
    /\ phase = "args" /\ path = "pending"
    /\ IF Bad(es)
       THEN phase' = "error" /\ UNCHANGED <<event, logs>>
       ELSE /\ phase' = "event"
            /\ event' = [n \in DOMAIN es |-> es[n].code]
            /\ logs' = [n \in DOMAIN es |-> es[n].st.log]
    /\ UNCHANGED <<heap, args, path, out>>

(* The elements are decoded one after another into the same Lua state.     *)
RECURSIVE Push(_, _)
Push(codes, result) ==
    IF codes = <<>> \/ result.error
    THEN result
    ELSE LET r == MarDecode(result.heap, codes[1])
         IN Push(Tail(codes), [heap |-> r.st.heap, vals |-> Append(result.vals, r.v),
                               error |-> r.st.error])

Receive(result) ==
    /\ out' = [heap |-> result.heap, vals |-> result.vals]
    /\ phase' = IF result.error THEN "panic" ELSE "done"

RestoreEvent ==
    /\ phase = "event" /\ path = "pending"
    /\ Receive(Push(event, [heap |-> <<>>, vals |-> <<>>, error |-> FALSE]))
    /\ UNCHANGED <<heap, args, path, event, logs>>

(* To an idle instance: every value is encoded and decoded at once.  The   *)
(* code does so value by value; those before one that cannot be encoded    *)
(* are in the other Lua state when the error is raised, where nothing uses *)
(* them.                                                                   *)
CopyValuesDirectly ==
    LET es == Elements(heap, args) IN
    /\ phase = "args" /\ path = "direct"
    /\ IF Bad(es)
       THEN phase' = "error" /\ UNCHANGED <<logs, out>>
       ELSE /\ logs' = [n \in DOMAIN es |-> es[n].st.log]
            /\ Receive(Push([n \in DOMAIN es |-> es[n].code],
                            [heap |-> <<>>, vals |-> <<>>, error |-> FALSE]))
    /\ UNCHANGED <<heap, args, path, event>>

(* A table with the arguments, of which those that are nil leave no entry. *)
ArgsTable(vs) ==
    Object("table", SelectSeq([n \in DOMAIN vs |-> <<Number(n), vs[n]>>], LAMBDA e : e[2] # Nil))

(* Mutant: pointers and __wrap are permitted.                              *)
EncodeArgsWrapped(h, vs) == MarEncode(Append(h, ArgsTable(vs)), Obj(Len(h) + 1), FALSE)

EncodeArgs(h, vs) == MarEncode(Append(h, ArgsTable(vs)), Obj(Len(h) + 1), TRUE)

EmmitRemote ==
    LET r == EncodeArgs(heap, args) IN
    /\ phase = "args" /\ path = "remote"
    /\ IF r.st.error
       THEN phase' = "error" /\ UNCHANGED <<event, logs>>
       ELSE phase' = "event" /\ event' = r.code /\ logs' = <<r.st.log>>
    /\ UNCHANGED <<heap, args, path, out>>

(* The packed event is decoded and unpacked, up to the border of the table. *)
RestorePackedEvent ==
    LET r == MarDecode(<<>>, event)
        es == r.st.heap[r.v[2]].entries
    IN
    /\ phase = "event" /\ path = "remote"
    /\ IF r.st.error
       THEN Receive([heap |-> r.st.heap, vals |-> <<>>, error |-> TRUE])
       ELSE Receive([heap |-> r.st.heap, error |-> FALSE,
                     vals |-> [n \in 1..Border(es) |->
                                 LET i == CHOOSE i \in DOMAIN es : es[i][1] = Number(n) IN es[i][2]]])
    /\ UNCHANGED <<heap, args, path, event, logs>>

(* destroy_event: the queue of the stage is full.                          *)
DestroyEvent ==
    /\ phase = "event"
    /\ phase' = "destroyed"
    /\ event' = <<>>
    /\ UNCHANGED <<heap, args, path, logs, out>>

Next ==
    \/ ExtractEvent \/ RestoreEvent \/ CopyValuesDirectly
    \/ EmmitRemote \/ RestorePackedEvent \/ DestroyEvent

Spec == Init /\ [][Next]_vars

-----------------------------------------------------------------------------
(* The reference: what the sender's values are.                            *)

Nowrap == path = "remote"

(* What a traversal of an object meets: its entries, or what the hook in   *)
(* use captures.                                                           *)
HookOf(h, o) ==
    IF h[o].type = "userdata" /\ h[o].wrap # 0 /\ ~Nowrap THEN h[o].wrap
    ELSE IF h[o].type \in {"userdata", "table"} THEN h[o].persist ELSE 0

ContentOf(h, o) == IF HookOf(h, o) # 0 THEN h[HookOf(h, o)].entries ELSE h[o].entries

ObjectsIn(vs) == {v[2] : v \in {w \in vs : w[1] = "obj"}}
Values(es) == UNION {{es[n][1], es[n][2]} : n \in DOMAIN es}

RECURSIVE Reach(_, _)
Reach(h, objects) ==
    LET next == objects \cup UNION {ObjectsIn(Values(ContentOf(h, o))) : o \in objects}
    IN IF next = objects THEN objects ELSE Reach(h, next)

Reachable == Reach(heap, ObjectsIn(Range(args)))

Different == <<0, 0>>

(* Pairs of objects that must correspond when v and w are equal, or        *)
(* Different when they cannot be.                                          *)
Match(h, v, g, w) ==
    IF v[1] = "obj" /\ w[1] = "obj" THEN {<<v[2], w[2]>>}
    ELSE IF v = w THEN {} ELSE {Different}

Children(h, o, g, p) ==
    LET a == ContentOf(h, o)
        b == g[p].entries
    IN IF h[o].type # g[p].type \/ Len(a) # Len(b) THEN {Different}
       ELSE UNION {Match(h, a[n][1], g, b[n][1]) \cup Match(h, a[n][2], g, b[n][2]) : n \in DOMAIN a}

RECURSIVE Correspondence(_, _, _)
Correspondence(h, g, pairs) ==
    LET next == pairs \cup UNION {Children(h, p[1], g, p[2]) : p \in pairs \ {Different}}
    IN IF next = pairs \/ Different \in next THEN next ELSE Correspondence(h, g, next)

(* v in heap h and w in heap g are the same up to renaming of objects:     *)
(* same shape, same data, same sharing, same cycles.                       *)
Same(h, v, g, w) ==
    LET r == Correspondence(h, g, Match(h, v, g, w))
    IN /\ Different \notin r
       /\ \A p, q \in r : (p[1] = q[1]) <=> (p[2] = q[2])

(* Occurrences of an object in what an encoding reads.                     *)
References(o) ==
    Cardinality({n \in DOMAIN args : args[n] = Obj(o)})
      + FoldSet(LAMBDA p, sum : sum + Cardinality({n \in DOMAIN ContentOf(heap, p) :
                                                      ContentOf(heap, p)[n][1] = Obj(o)})
                                  + Cardinality({n \in DOMAIN ContentOf(heap, p) :
                                                      ContentOf(heap, p)[n][2] = Obj(o)}),
                0, Reachable)
      + Cardinality({p \in Reachable : HookOf(heap, p) = o})

Shared(o) == References(o) > 1

(* The payloads that survive: no hole among the upvalues of a function, no *)
(* sharing of hooked userdata or of what its hook captures (encoder and    *)
(* decoder number them in different orders), no sharing at all beside a    *)
(* table with __persist (which the encoder does not number), and for other *)
(* processes no nil among the arguments.                                   *)
Plain ==
    /\ \A o \in Reachable :
         heap[o].type = "function" => Border(heap[o].entries) = Len(heap[o].entries)
    /\ \A o \in Reachable :
         heap[o].type = "userdata" =>
            \A p \in Reach(heap, {o}) \cup {HookOf(heap, o)} : p # 0 => ~Shared(p)
    /\ (\E o \in Reachable : heap[o].type = "table" /\ heap[o].persist # 0)
         => \A o \in Reachable : ~Shared(o)
    /\ path = "remote" => \A n \in DOMAIN args : args[n] # Nil

(* The arguments arrive: as many, each the same as what was sent, with its *)
(* sharing and cycles, and decoding them raises no error (which would      *)
(* reach the panic function, scheduler.c:126).                             *)
PayloadKept ==
    Plain =>
      /\ phase # "panic"
      /\ phase = "done" =>
           /\ Len(out.vals) = Len(args)
           /\ \A n \in DOMAIN args : Same(heap, args[n], out.heap, out.vals[n])

Unsupported(o) ==
    \/ heap[o].type \in {"thread", "cfunction"}
    \/ heap[o].type = "userdata" /\ HookOf(heap, o) = 0
    \/ Nowrap /\ \E v \in Values(ContentOf(heap, o)) : v[1] = "pointer"

(* An event is given up exactly when something in it cannot travel on its  *)
(* path, however deep it is.                                               *)
ErrorExact ==
    phase # "args" =>
      (phase = "error" <=> \/ \E o \in Reachable : Unsupported(o)
                           \/ Nowrap /\ \E n \in DOMAIN args : args[n][1] = "pointer")

(* No pointer of this process is sent to another one.                      *)
RECURSIVE HasPointer(_)
HasPointer(code) ==
    CASE code[1] = "pointer" -> TRUE
      [] code[1] \in {"val", "usr"} -> \E n \in DOMAIN code[3] :
                                          HasPointer(code[3][n][1]) \/ HasPointer(code[3][n][2])
      [] OTHER -> FALSE

NoForeignPointer == path = "remote" /\ phase = "event" => ~HasPointer(event)

(* An encoding writes an object once and calls the hook of userdata once:  *)
(* for hooks that give something away (memarray, sockets) a second call    *)
(* would fail.                                                             *)
WrittenOnce ==
    \A n \in DOMAIN logs :
      LET full == SelectSeq(logs[n], LAMBDA o :
                     o > Len(heap) \/ ~(heap[o].type = "table" /\ heap[o].persist # 0))
      IN IsInjective(full)
=============================================================================
