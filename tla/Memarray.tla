------------------------------ MODULE Memarray ------------------------------
(***************************************************************************)
(* Arrays of numbers outside the Lua heap (src/kernel/extra/memarray.c     *)
(* with the hooks of src/leda/memarray.lua).  An array is a userdata of    *)
(* one Lua state; its buffer comes from malloc.  An event inside a process *)
(* carries the buffer itself (__wrap: to_ptr, then from_ptr), an event to  *)
(* another process carries a copy (__persist: to_str, then from_str).      *)
(* realloc with an address makes an array a view of memory it does not own.*)
(*                                                                         *)
(* A buffer is the sequence of its bytes.  What the program would call the *)
(* value of an array is kept beside it, in val, and moves with the events; *)
(* only the properties read it.                                            *)
(***************************************************************************)
EXTENDS Integers, Sequences, FiniteSets

CONSTANTS
    States,        \* Lua states
    Arrays,        \* userdata
    Buffers,       \* addresses malloc returns
    MaxLength,     \* bound on the length of an array
    ItemSize,      \* bytes of an item: 1, 2, 4 or 8
    Items,         \* the items that programs write and that malloc leaves
    SizeBits,      \* width of size_t
    MaxMessages,   \* bound on the events and strings in flight
    NULL

ASSUME MemarrayAssumption ==
    /\ ItemSize \in {1, 2, 4, 8} /\ SizeBits \in Nat /\ MaxLength \in Nat
    /\ 2^SizeBits \in Nat \ {0} /\ 2^SizeBits % ItemSize = 0   \* a size_t is no smaller than an item
    /\ Items \subseteq [1..ItemSize -> 0..1] /\ Items # {}
    /\ NULL \notin Arrays \cup Buffers

VARIABLES
    array,     \* the arrays, NULL for none
    heap,      \* the content of each allocated buffer, NULL for none
    inbox,     \* events and strings in flight
    exposed,   \* ghost: addresses about which C gives no guarantee
    lost,      \* ghost: buffers whose address went down with an event
    fault      \* undefined behaviour that was met, NULL for none

vars == <<array, heap, inbox, exposed, lost, fault>>

Byte == 0..1
Lengths == 0..MaxLength

(* The fields of an array.                                                 *)
ArrayRecord == [state : States, own : BOOLEAN, data : Buffers \cup {NULL}, length : Lengths,
                val : Seq(Byte)]

ASSUME NullAssumption == NULL \notin Seq(Byte) /\ NULL \notin ArrayRecord

(* What n bytes from malloc contain.                                       *)
Uninitialized(n) == {[k \in 1..n |-> item[((k - 1) % ItemSize) + 1]] : item \in Items}

Init ==
    /\ array = [a \in Arrays |-> NULL]
    /\ heap = [b \in Buffers |-> NULL]
    /\ inbox = {} /\ exposed = {} /\ lost = {}
    /\ fault = NULL

-----------------------------------------------------------------------------
(* size = length * m_types[type].size, in a size_t.                        *)
Size(n) == (n * ItemSize) % 2^SizeBits
Overflows(n) == n * ItemSize >= 2^SizeBits

Made(st, own, data, n, val) ==
    [state |-> st, own |-> own, data |-> data, length |-> n, val |-> val]

(* Mutant: views are checked for data, arrays that own theirs are not.     *)
MemarrayGetSwapped(a) == array[a] # NULL /\ (~array[a].own => array[a].data # NULL)

(* memarray_get raises an error for an array that has lost its data.       *)
MemarrayGet(a) == array[a] # NULL /\ (array[a].own => array[a].data # NULL)

(* The first n bytes at an address can be used.                            *)
Usable(b, n) == n = 0 \/ (b # NULL /\ heap[b] # NULL /\ Len(heap[b]) >= n)

Undefined(b) ==
    /\ fault' = [at |-> b]
    /\ UNCHANGED <<array, heap, inbox, exposed, lost>>

(* The byte order of every item reversed, as on a little endian machine.   *)
Swap(bytes) ==
    [i \in DOMAIN bytes |->
        bytes[((i - 1) \div ItemSize) * ItemSize + ItemSize - ((i - 1) % ItemSize)]]

(* memarray_delete: what is left of the heap.                              *)
MemarrayDelete(a) ==
    IF array[a].own /\ array[a].data # NULL
    THEN [heap EXCEPT ![array[a].data] = NULL]
    ELSE heap

FreesTwice(a) == array[a].own /\ array[a].data # NULL /\ heap[array[a].data] = NULL

(* The addresses without guarantee once malloc has returned b for an array *)
(* of length n: those of which there is a view, or that the array exceeds. *)
Exposed(b, n) ==
    LET known == \/ \E a \in Arrays : array[a] # NULL /\ array[a].data = b
                 \/ \E m \in inbox : m.kind = "wrap" /\ \E i \in DOMAIN m.parts : m.parts[i].data = b
    IN {x \in exposed : x # b \/ known} \cup (IF Overflows(n) THEN {b} ELSE {})

-----------------------------------------------------------------------------
(* memarray(type, n): a new array.  When malloc fails an error is raised   *)
(* and nothing is left.                                                    *)
Call(st, a, n) ==
    /\ array[a] = NULL
    /\ \E b \in Buffers, content \in Uninitialized(Size(n)) :
         /\ heap[b] = NULL
         /\ heap' = [heap EXCEPT ![b] = content]
         /\ array' = [array EXCEPT ![a] = Made(st, TRUE, b, n, content)]
         /\ exposed' = Exposed(b, n)
    /\ UNCHANGED <<inbox, lost, fault>>

(* Mutant: the array keeps its old length.                                 *)
ReallocOldLength(a, n) ==
    /\ MemarrayGet(a)
    /\ IF FreesTwice(a) THEN Undefined(array[a].data)
       ELSE \E b \in Buffers, content \in Uninitialized(Size(n)) :
              LET left == MemarrayDelete(a) IN
              /\ left[b] = NULL
              /\ heap' = [left EXCEPT ![b] = content]
              /\ array' = [array EXCEPT ![a] = Made(@.state, TRUE, b, @.length, content)]
              /\ exposed' = Exposed(b, n)
              /\ UNCHANGED <<inbox, lost, fault>>

(* a:realloc(type, n): the old content is gone.                            *)
Realloc(a, n) ==
    /\ MemarrayGet(a)
    /\ IF FreesTwice(a) THEN Undefined(array[a].data)
       ELSE \E b \in Buffers, content \in Uninitialized(Size(n)) :
              LET left == MemarrayDelete(a) IN
              /\ left[b] = NULL
              /\ heap' = [left EXCEPT ![b] = content]
              /\ array' = [array EXCEPT ![a] = Made(@.state, TRUE, b, n, content)]
              /\ exposed' = Exposed(b, n)
              /\ UNCHANGED <<inbox, lost, fault>>

(* malloc fails: an empty array that owns nothing is left.                 *)
ReallocFails(a, n) ==
    /\ MemarrayGet(a) /\ ~FreesTwice(a)
    /\ Size(n) # 0
    /\ heap' = MemarrayDelete(a)
    /\ array' = [array EXCEPT ![a] = Made(@.state, FALSE, NULL, 0, <<>>)]
    /\ UNCHANGED <<inbox, exposed, lost, fault>>

(* v:realloc(type, n, a:ptr()): v becomes a view of the buffer of a.       *)
Inherit(v, a, n) ==
    /\ MemarrayGet(v) /\ MemarrayGet(a)
    /\ array[v].state = array[a].state
    /\ array[a].length > 0
    /\ IF FreesTwice(v) THEN Undefined(array[v].data)
       ELSE /\ heap' = MemarrayDelete(v)
            /\ array' = [array EXCEPT ![v] = Made(@.state, FALSE, array[a].data, n, <<>>)]
            /\ exposed' = exposed \cup {array[a].data}
            /\ UNCHANGED <<inbox, lost, fault>>

(* a[i] and a[i] = item.                                                   *)
IndexFault(a, i) ==
    /\ MemarrayGet(a) /\ i <= array[a].length
    /\ ~Usable(array[a].data, i * ItemSize)
    /\ Undefined(array[a].data)

Put(bytes, i, item) ==
    [k \in DOMAIN bytes |->
        IF k \in ((i - 1) * ItemSize + 1)..(i * ItemSize) THEN item[k - (i - 1) * ItemSize] ELSE bytes[k]]

NewIndex(a, i, item) ==
    /\ MemarrayGet(a) /\ i <= array[a].length
    /\ Usable(array[a].data, i * ItemSize)
    /\ heap' = [heap EXCEPT ![array[a].data] = Put(@, i, item)]
    /\ array' = [array EXCEPT ![a].val = IF array[a].own THEN Put(@, i, item) ELSE @]
    /\ UNCHANGED <<inbox, exposed, lost, fault>>

(* __gc, some time after the program has dropped the array.                *)
Collect(a) ==
    /\ array[a] # NULL
    /\ IF FreesTwice(a) THEN Undefined(array[a].data)
       ELSE /\ heap' = MemarrayDelete(a)
            /\ array' = [array EXCEPT ![a] = NULL]
            /\ UNCHANGED <<inbox, exposed, lost, fault>>

-----------------------------------------------------------------------------
(* Events inside a process.  The arguments are wrapped one after another.  *)
Before(args, i) == {args[j] : j \in 1..(i - 1)}

(* Mutant: the array still has the buffer after to_ptr.                    *)
ToPtrKept(arr) == arr

(* to_ptr keeps the flags and the length.                                  *)
ToPtr(arr) == Made(arr.state, arr.own, NULL, arr.length, <<>>)

Part(args, i) ==
    [data |-> IF args[i] \in Before(args, i) THEN NULL ELSE array[args[i]].data,
     length |-> array[args[i]].length, val |-> array[args[i]].val]

(* type() refuses an array without data, also one that has just lost it.   *)
Refuses(args, i) ==
    ~MemarrayGet(args[i]) \/ (array[args[i]].own /\ args[i] \in Before(args, i))

Emit(args) ==
    LET parts == [i \in DOMAIN args |-> Part(args, i)]
        done == {i \in DOMAIN args : \A j \in 1..i : ~Refuses(args, j)}
        wrapped == {args[i] : i \in done}
    IN /\ \A i \in DOMAIN args : array[args[i]] # NULL /\ array[args[i]].state = array[args[1]].state
       /\ Cardinality(inbox) < MaxMessages
       /\ array' = [a \in Arrays |-> IF a \in wrapped THEN ToPtr(array[a]) ELSE array[a]]
       /\ exposed' = IF \E a \in wrapped : ~array[a].own THEN exposed \cup {NULL} ELSE exposed
       /\ IF done = DOMAIN args
          THEN inbox' = inbox \cup {[kind |-> "wrap", parts |-> parts]} /\ UNCHANGED lost
          ELSE /\ lost' = lost \cup ({parts[i].data : i \in done} \ (exposed \cup {NULL}))
               /\ UNCHANGED inbox
       /\ UNCHANGED <<heap, fault>>

FromPtr(st, part) == Made(st, TRUE, part.data, part.length, part.val)

Receive(st, m, slot) ==
    /\ m \in inbox /\ m.kind = "wrap"
    /\ DOMAIN slot = DOMAIN m.parts
    /\ \A i, j \in DOMAIN slot : array[slot[i]] = NULL /\ (i # j => slot[i] # slot[j])
    /\ array' = [a \in Arrays |->
                    IF \E i \in DOMAIN slot : slot[i] = a
                    THEN FromPtr(st, m.parts[CHOOSE i \in DOMAIN slot : slot[i] = a])
                    ELSE array[a]]
    /\ inbox' = inbox \ {m}
    /\ UNCHANGED <<heap, exposed, lost, fault>>

(* The event is refused or destroyed: nobody knows of the pointer in it.   *)
Drop(m) ==
    /\ m \in inbox
    /\ inbox' = inbox \ {m}
    /\ lost' = IF m.kind = "wrap"
               THEN lost \cup ({m.parts[i].data : i \in DOMAIN m.parts} \ (exposed \cup {NULL}))
               ELSE lost
    /\ UNCHANGED <<array, heap, exposed, fault>>

-----------------------------------------------------------------------------
(* Copies.                                                                 *)

(* to_str of the array a.                                                  *)
ToStr(a) == IF Size(array[a].length) = 0 THEN <<>>
            ELSE SubSeq(heap[array[a].data], 1, Size(array[a].length))

(* The value of a copy: of exposed memory, what was read.                  *)
Value(a) == IF array[a].data \in exposed THEN ToStr(a) ELSE array[a].val

Write(kind, a, bytes) ==
    /\ inbox' = inbox \cup {[kind |-> kind, length |-> array[a].length, bytes |-> bytes,
                             val |-> Value(a)]}
    /\ UNCHANGED <<array, heap, exposed, lost, fault>>

(* Emission to another process.                                            *)
Persist(a) ==
    /\ MemarrayGet(a) /\ Cardinality(inbox) < MaxMessages
    /\ IF ~Usable(array[a].data, Size(array[a].length)) THEN Undefined(array[a].data)
       ELSE Write("persist", a, ToStr(a))

(* A new array of length n whose content is copied from a string.          *)
FromStr(st, a, n, bytes, val) ==
    /\ array[a] = NULL
    /\ \E b \in Buffers :
         /\ heap[b] = NULL
         /\ heap' = [heap EXCEPT ![b] = bytes]
         /\ array' = [array EXCEPT ![a] = Made(st, TRUE, b, n, val)]
         /\ exposed' = Exposed(b, n)

Restore(st, m, a) ==
    /\ m \in inbox /\ m.kind = "persist"
    /\ FromStr(st, a, m.length, m.bytes, m.val)
    /\ inbox' = inbox \ {m}
    /\ UNCHANGED <<lost, fault>>

Clone(a, new) ==
    /\ MemarrayGet(a)
    /\ IF ~Usable(array[a].data, Size(array[a].length)) THEN Undefined(array[a].data)
       ELSE /\ FromStr(array[a].state, new, array[a].length, ToStr(a), Value(a))
            /\ UNCHANGED <<inbox, lost, fault>>

(* to_netstr and from_netstr divide the size by the length to get the size *)
(* of an item.  For a size that wrapped around it is another one, and an   *)
(* error is raised (a quotient that is 1, 2 or 4 by chance is left out).   *)
ToNetstr(a) ==
    /\ MemarrayGet(a) /\ Cardinality(inbox) < MaxMessages
    /\ array[a].length # 0 /\ ~Overflows(array[a].length)
    /\ IF ~Usable(array[a].data, Size(array[a].length)) THEN Undefined(array[a].data)
       ELSE Write("net", a, Swap(ToStr(a)))

(* The heap after bytes were copied to the address b.                      *)
Copied(b, bytes) ==
    IF Len(bytes) = 0 THEN heap
    ELSE [heap EXCEPT ![b] = [k \in DOMAIN @ |-> IF k \in DOMAIN bytes THEN bytes[k] ELSE @[k]]]

(* Mutant: the items are taken for items of this machine.                  *)
FromNetstrHostOrder(a, m) ==
    /\ MemarrayGet(a)
    /\ m \in inbox /\ m.kind = "net"
    /\ array[a].length # 0 /\ ~Overflows(array[a].length)
    /\ Size(array[a].length) = Len(m.bytes)
    /\ IF ~Usable(array[a].data, Len(m.bytes)) THEN Undefined(array[a].data)
       ELSE /\ heap' = Copied(array[a].data, m.bytes)
            /\ array' = [array EXCEPT ![a].val = m.val]
            /\ inbox' = inbox \ {m}
            /\ UNCHANGED <<exposed, lost, fault>>

FromNetstr(a, m) ==
    /\ MemarrayGet(a)
    /\ m \in inbox /\ m.kind = "net"
    /\ array[a].length # 0 /\ ~Overflows(array[a].length)
    /\ Size(array[a].length) = Len(m.bytes)
    /\ IF ~Usable(array[a].data, Len(m.bytes)) THEN Undefined(array[a].data)
       ELSE /\ heap' = Copied(array[a].data, Swap(m.bytes))
            /\ array' = [array EXCEPT ![a].val = m.val]
            /\ inbox' = inbox \ {m}
            /\ UNCHANGED <<exposed, lost, fault>>

DividesByZero(a) ==
    /\ MemarrayGet(a) /\ array[a].length = 0
    /\ fault' = [at |-> "length"]
    /\ UNCHANGED <<array, heap, inbox, exposed, lost>>

(* What the arrays of a program may do until something undefined happens.  *)
ArrayStep(a) ==
    \/ \E st \in States, n \in Lengths : Call(st, a, n)
    \/ \E n \in Lengths : Realloc(a, n) \/ ReallocFails(a, n)
    \/ \E b \in Arrays, n \in Lengths : Inherit(a, b, n)
    \/ \E i \in 1..MaxLength : IndexFault(a, i)
    \/ \E i \in 1..MaxLength, item \in Items : NewIndex(a, i, item)
    \/ Collect(a)
    \/ Emit(<<a>>) \/ \E b \in Arrays : Emit(<<a, b>>)
    \/ Persist(a) \/ ToNetstr(a) \/ DividesByZero(a)
    \/ \E b \in Arrays : Clone(a, b)

MessageStep(m) ==
    \/ Drop(m)
    \/ \E st \in States, slot \in UNION {[1..k -> Arrays] : k \in 1..2} : Receive(st, m, slot)
    \/ \E st \in States, a \in Arrays : Restore(st, m, a)
    \/ \E a \in Arrays : FromNetstr(a, m)

Next == fault = NULL /\ ((\E a \in Arrays : ArrayStep(a)) \/ (\E m \in inbox : MessageStep(m)))

Spec == Init /\ [][Next]_vars

-----------------------------------------------------------------------------
(* The values of the variables.  A buffer has the size its array believes  *)
(* it has, unless the array is a view or its size wrapped around.          *)
TypeOK ==
    /\ \A a \in Arrays : array[a] # NULL =>
         /\ array[a].state \in States /\ array[a].data \in Buffers \cup {NULL}
         /\ array[a].own /\ array[a].data \notin exposed \cup {NULL} =>
              Len(heap[array[a].data]) = Size(array[a].length)
    /\ \A b \in Buffers : heap[b] # NULL => heap[b] \in Seq(Byte)
    /\ exposed \subseteq Buffers \cup {NULL} /\ lost \subseteq Buffers

(* The arrays, and the events that carry the address, that will free b.    *)
Owners(b) ==
    {a \in Arrays : array[a] # NULL /\ array[a].own /\ array[a].data = b}
      \cup UNION {{<<m, i>> : i \in {j \in DOMAIN m.parts : m.parts[j].data = b}} :
                     m \in {x \in inbox : x.kind = "wrap"}}

(* Every allocated buffer has exactly one owner, an array of one Lua state *)
(* or an event on its way, and a freed one has none: no buffer is freed    *)
(* twice, shared by two states, or left behind.  The exceptions are buffers*)
(* of which realloc made a view, and those that went down with an event    *)
(* that was refused or could not be encoded to its end: these leak.        *)
OneOwner ==
    \A b \in Buffers \ exposed :
      Cardinality(Owners(b)) = IF heap[b] = NULL \/ b \in lost THEN 0 ELSE 1

(* An array is a private value: whatever is sent, received, copied or      *)
(* collected elsewhere, it holds what was last written to it or came with  *)
(* it, and an event on its way does not change.                            *)
ValuesPrivate ==
    /\ \A a \in Arrays :
         array[a] # NULL /\ array[a].own /\ array[a].data \notin exposed \cup {NULL} =>
           heap[array[a].data] = array[a].val
    /\ \A m \in inbox :
         CASE m.kind = "wrap" -> \A i \in DOMAIN m.parts :
                m.parts[i].data \notin exposed \cup {NULL} => heap[m.parts[i].data] = m.parts[i].val
           [] m.kind = "persist" -> m.bytes = m.val
           [] m.kind = "net" -> Swap(m.bytes) = m.val

(* No access through an array is undefined: not after its data was sent    *)
(* away, not out of bounds, not to freed memory.  The exceptions are views *)
(* and the arrays they were made of, lengths whose size in bytes wraps     *)
(* around, and network strings of empty arrays.                            *)
NoFault == fault # NULL => fault.at \in exposed \cup {"length"}
=============================================================================
