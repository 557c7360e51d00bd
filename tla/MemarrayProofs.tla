--------------------------- MODULE MemarrayProofs ----------------------------
(***************************************************************************)
(* Proofs about Memarray, for any number of Lua states, arrays, buffers    *)
(* and events in flight, and any length: every buffer has one owner        *)
(* (OneOwner), arrays are private values (ValuesPrivate), and no access is *)
(* undefined but for the exceptions stated there (NoFault).                *)
(***************************************************************************)
EXTENDS Memarray, FiniteSetTheorems, SequenceTheorems, TLAPS

(* The types of everything, the contents of messages included.             *)
PartRecord == [data : Buffers \cup {NULL}, length : Lengths, val : Seq(Byte)]
WrapMessage == [kind : {"wrap"}, parts : Seq(PartRecord)]
CopyMessage == [kind : {"persist", "net"}, length : Lengths, bytes : Seq(Byte), val : Seq(Byte)]

Shape ==
    /\ array \in [Arrays -> ArrayRecord \cup {NULL}]
    /\ heap \in [Buffers -> Seq(Byte) \cup {NULL}]
    /\ inbox \subseteq WrapMessage \cup CopyMessage
    /\ exposed \subseteq Buffers \cup {NULL} /\ lost \subseteq Buffers

(* Who will free the buffer b: an array, or the event m by its argument i. *)
HoldsArray(a, b) == array[a] # NULL /\ array[a].own /\ array[a].data = b
HoldsEvent(m, i, b) == m \in inbox /\ m.kind = "wrap" /\ i \in DOMAIN m.parts /\ m.parts[i].data = b

(* b is allocated, of the size that n items need, and holds val.           *)
Content(b, n, val) ==
    /\ heap[b] = val /\ heap[b] # NULL /\ b \notin lost
    /\ ~Overflows(n) /\ Len(val) = Size(n)

(* An array that does not own its data is a view of exposed memory, or was *)
(* left empty by a realloc that failed.                                    *)
Emptied(r) == r.data = NULL /\ r.length = 0 /\ r.val = <<>>

Views ==
    \A a \in Arrays : array[a] # NULL /\ ~array[a].own =>
      array[a].data \in exposed \/ Emptied(array[a])

ArraysGood ==
    \A a \in Arrays, b \in Buffers \ exposed :
      HoldsArray(a, b) => Content(b, array[a].length, array[a].val)

EventsGood ==
    \A b \in Buffers \ exposed : \A m, i :
      HoldsEvent(m, i, b) => Content(b, m.parts[i].length, m.parts[i].val)

(* No buffer has two owners, and none is left behind.                      *)
Unique ==
    \A b \in Buffers \ exposed :
      /\ \A a, c \in Arrays : HoldsArray(a, b) /\ HoldsArray(c, b) => a = c
      /\ \A a \in Arrays : \A m, i : ~(HoldsArray(a, b) /\ HoldsEvent(m, i, b))
      /\ \A m, n, i, j : HoldsEvent(m, i, b) /\ HoldsEvent(n, j, b) => m = n /\ i = j

Kept ==
    \A b \in Buffers \ exposed : heap[b] # NULL /\ b \notin lost =>
      (\E a \in Arrays : HoldsArray(a, b)) \/ (\E m, i : HoldsEvent(m, i, b))

LostKept == lost \cap exposed = {} /\ \A b \in lost : heap[b] # NULL

CopiesGood ==
    \A m \in inbox :
      /\ m.kind = "persist" => m.bytes = m.val /\ Len(m.bytes) = Size(m.length)
      /\ m.kind = "net" => Swap(m.bytes) = m.val /\ Len(m.bytes) = Size(m.length)

IInv == /\ Shape /\ Views /\ ArraysGood /\ EventsGood
        /\ Unique /\ Kept /\ LostKept /\ CopiesGood

-----------------------------------------------------------------------------
(* Sizes: a number of bytes that is a multiple of the item size, and as    *)
(* many as the items need unless the product overflows.                    *)
LEMMA Division ==
    ASSUME NEW x \in Nat, NEW M \in Nat \ {0}
    PROVE  x % M \in Nat /\ \E q \in Int : x = M * q + (x % M)
<1>1. x = M * (x \div M) + (x % M) /\ x \div M \in Int /\ x % M \in Nat
  OBVIOUS
<1> QED BY <1>1

(* A size is a multiple of the item size, wrapped or not.                  *)
LEMMA ModMultiple ==
    ASSUME NEW n \in Nat, NEW I \in {1, 2, 4, 8}, NEW M \in Nat \ {0}, M % I = 0
    PROVE  ((n * I) % M) % I = 0
<1>1. PICK k \in Nat : M = I * k
  <2>1. M = I * (M \div I) /\ M \div I \in Nat
    OBVIOUS
  <2> QED BY <2>1
<1>2. PICK x \in Nat : x = n * I
  OBVIOUS
<1>3. x % M \in Int
  BY Division
<1>4. PICK q \in Int : x = M * q + (x % M)
  BY Division
<1>5. PICK w \in Int : w = k * q
  OBVIOUS
<1>6. M * q = I * w
  BY <1>1, <1>5
<1>7. PICK z \in Int : z = x % M
  BY <1>3
<1>8. z = I * (n - w)
  BY <1>2, <1>4, <1>6, <1>7
<1>9. z % I = 0
  BY <1>8
<1> QED BY <1>2, <1>7, <1>9

(* What Size returns.                                                      *)
LEMMA SizeFacts ==
    ASSUME NEW n \in Nat
    PROVE  /\ Size(n) \in Nat /\ Size(n) % ItemSize = 0
           /\ ~Overflows(n) => Size(n) = n * ItemSize
           /\ n = 0 => Size(n) = 0
<1>1. PICK M \in Nat \ {0} : M = 2^SizeBits
  BY MemarrayAssumption, Zenon
<1>2. M % ItemSize = 0
  BY <1>1, MemarrayAssumption, Zenon
<1>3. Size(n) = (n * ItemSize) % M /\ (Overflows(n) <=> n * ItemSize >= M)
  BY <1>1, Zenon DEF Size, Overflows
<1>4. n * ItemSize \in Nat /\ ItemSize \in {1, 2, 4, 8} /\ (n = 0 => n * ItemSize = 0)
  BY MemarrayAssumption
<1>5. ((n * ItemSize) % M) % ItemSize = 0
  BY <1>2, <1>4, ModMultiple
<1> QED BY <1>3, <1>4, <1>5

(* Swapping the bytes of items twice gives them back.                      *)
Mirror(i) == ((i - 1) \div ItemSize) * ItemSize + ItemSize - ((i - 1) % ItemSize)

(* The mirrored position of a mirrored position.                           *)
LEMMA MirrorTwice ==
    ASSUME NEW n \in Nat, n % ItemSize = 0, NEW i \in 1..n
    PROVE  Mirror(i) \in 1..n /\ Mirror(Mirror(i)) = i
<1>1. CASE ItemSize = 1 BY <1>1 DEF Mirror
<1>2. CASE ItemSize = 2 BY <1>2 DEF Mirror
<1>3. CASE ItemSize = 4 BY <1>3 DEF Mirror
<1>4. CASE ItemSize = 8 BY <1>4 DEF Mirror
<1> QED BY <1>1, <1>2, <1>3, <1>4, MemarrayAssumption

(* Swap is its own inverse on whole items.                                 *)
LEMMA SwapTwice ==
    ASSUME NEW bytes \in Seq(Byte), Len(bytes) % ItemSize = 0
    PROVE  /\ Swap(bytes) \in Seq(Byte) /\ Len(Swap(bytes)) = Len(bytes)
           /\ Swap(Swap(bytes)) = bytes
<1> DEFINE n == Len(bytes)
<1>1. n \in Nat /\ DOMAIN bytes = 1..n /\ bytes \in [1..n -> Byte]
  OBVIOUS
<1>2. Swap(bytes) = [i \in 1..n |-> bytes[Mirror(i)]]
  BY <1>1 DEF Swap, Mirror
<1>3. \A i \in 1..n : Mirror(i) \in 1..n /\ Mirror(Mirror(i)) = i
  BY <1>1, MirrorTwice
<1>4. Swap(bytes) \in [1..n -> Byte]
  BY <1>1, <1>2, <1>3
<1>5. Swap(bytes) \in Seq(Byte) /\ Len(Swap(bytes)) = n
  BY <1>1, <1>4
<1>6. Swap(Swap(bytes)) = [i \in 1..n |-> Swap(bytes)[Mirror(i)]]
  <2>1. DOMAIN Swap(bytes) = 1..n
    BY <1>4
  <2> QED BY <2>1 DEF Swap, Mirror
<1>7. \A i \in 1..n : Swap(bytes)[Mirror(i)] = bytes[i]
  BY <1>2, <1>3
<1>8. Swap(Swap(bytes)) = [i \in 1..n |-> bytes[i]]
  BY <1>6, <1>7
<1>9. bytes = [i \in 1..n |-> bytes[i]]
  BY <1>1
<1> QED BY <1>5, <1>8, <1>9

(* malloc returns as many bytes as it was asked for.                       *)
LEMMA UninitializedType ==
    ASSUME NEW n \in Nat, NEW content \in Uninitialized(n)
    PROVE  content \in Seq(Byte) /\ Len(content) = n
<1>1. PICK item \in Items : content = [k \in 1..n |-> item[((k - 1) % ItemSize) + 1]]
  BY DEF Uninitialized
<1>2. item \in [1..ItemSize -> 0..1] /\ ItemSize \in {1, 2, 4, 8}
  BY MemarrayAssumption
<1>3. \A k \in 1..n : ((k - 1) % ItemSize) + 1 \in 1..ItemSize
  BY <1>2
<1>4. content \in [1..n -> Byte]
  BY <1>1, <1>2, <1>3 DEF Byte
<1> QED BY <1>4

(* Writing an item keeps the size.                                         *)
LEMMA PutType ==
    ASSUME NEW bytes \in Seq(Byte), NEW i \in Nat \ {0}, NEW item \in Items
    PROVE  Put(bytes, i, item) \in Seq(Byte) /\ Len(Put(bytes, i, item)) = Len(bytes)
<1>1. item \in [1..ItemSize -> 0..1] /\ ItemSize \in {1, 2, 4, 8}
  BY MemarrayAssumption
<1>2. DOMAIN bytes = 1..Len(bytes) /\ Len(bytes) \in Nat
  OBVIOUS
<1>3. \A k \in Nat : k \in ((i - 1) * ItemSize + 1)..(i * ItemSize) => k - (i - 1) * ItemSize \in 1..ItemSize
  BY <1>1
<1>4. Put(bytes, i, item) \in [1..Len(bytes) -> Byte]
  BY <1>1, <1>2, <1>3 DEF Put, Byte
<1> QED BY <1>2, <1>4

-----------------------------------------------------------------------------
(* The invariant holds before there is an array.                           *)
LEMMA InitIInv == Init => IInv
<1> SUFFICES ASSUME Init PROVE IInv
  OBVIOUS
<1> USE DEF Init
<1>1. Shape
  BY DEF Shape
<1>2. Views /\ ArraysGood /\ EventsGood /\ Unique /\ Kept /\ LostKept /\ CopiesGood
  BY DEF Views, ArraysGood, EventsGood, Unique, Kept, LostKept, CopiesGood, HoldsArray, HoldsEvent
<1> QED BY <1>1, <1>2 DEF IInv

(* A buffer that is lost is nobody's.                                      *)
LEMMA NotLost ==
    ASSUME IInv
    PROVE  /\ \A a \in Arrays : array[a] # NULL => array[a].data \notin lost
           /\ \A m, i : m \in inbox /\ m.kind = "wrap" /\ i \in DOMAIN m.parts =>
                          m.parts[i].data \notin lost
<1>0. NULL \notin lost /\ lost \subseteq Buffers /\ lost \cap exposed = {}
  BY MemarrayAssumption DEF IInv, Shape, LostKept
<1>1. ASSUME NEW a \in Arrays, array[a] # NULL, array[a].data \in lost PROVE FALSE
  <2> QED BY <1>0, <1>1 DEF IInv, Views, Emptied, ArraysGood, HoldsArray, Content
<1>2. ASSUME NEW m, NEW i, m \in inbox, m.kind = "wrap", i \in DOMAIN m.parts, m.parts[i].data \in lost
      PROVE  FALSE
  BY <1>0, <1>2 DEF IInv, EventsGood, HoldsEvent, Content
<1> QED BY <1>1, <1>2

(* The heap once the array a has given back what it owns.                  *)
Left(a) == IF array[a] # NULL THEN MemarrayDelete(a) ELSE heap

(* memarray_delete frees what the array owns and nothing else.             *)
LEMMA LeftHeap ==
    ASSUME IInv, NEW a \in Arrays
    PROVE  /\ Left(a) \in [Buffers -> Seq(Byte) \cup {NULL}]
           /\ \A x \in Buffers : Left(a)[x] = IF HoldsArray(a, x) THEN NULL ELSE heap[x]
<1>1. heap \in [Buffers -> Seq(Byte) \cup {NULL}] /\ array[a] \in ArrayRecord \cup {NULL}
  BY DEF IInv, Shape
<1>2. CASE array[a] = NULL
  BY <1>1, <1>2 DEF Left, HoldsArray
<1>3. CASE array[a] # NULL
  <2>1. array[a].data \in Buffers \cup {NULL} /\ NULL \notin Buffers
    BY <1>1, <1>3, MemarrayAssumption DEF ArrayRecord
  <2>2. CASE array[a].own /\ array[a].data # NULL
    <3>1. Left(a) = [heap EXCEPT ![array[a].data] = NULL]
      BY <1>3, <2>2 DEF Left, MemarrayDelete
    <3> QED BY <1>1, <1>3, <2>1, <2>2, <3>1 DEF HoldsArray
  <2>3. CASE ~(array[a].own /\ array[a].data # NULL)
    <3>1. Left(a) = heap
      BY <1>3, <2>3 DEF Left, MemarrayDelete
    <3> QED BY <1>1, <2>1, <2>3, <3>1 DEF HoldsArray
  <2> QED BY <2>2, <2>3
<1> QED BY <1>2, <1>3

(* What copies carry only depends on themselves.                           *)
LEMMA EventsKept ==
    ASSUME inbox' \subseteq inbox, \A m \in inbox : m.kind = "wrap" => m \in inbox'
    PROVE  \A m, i, x : HoldsEvent(m, i, x)' <=> HoldsEvent(m, i, x)
BY DEF HoldsEvent

(* malloc, for an array that gave back what it had: the new buffer belongs *)
(* to the array and to nobody else.                                        *)
LEMMA Allocate ==
    ASSUME IInv, NEW a \in Arrays, NEW st \in States, NEW b \in Buffers, NEW n \in Lengths,
           NEW content \in Seq(Byte), Len(content) = Size(n), Left(a)[b] = NULL,
           heap' = [Left(a) EXCEPT ![b] = content],
           array' = [array EXCEPT ![a] = Made(st, TRUE, b, n, content)],
           exposed' = Exposed(b, n), lost' = lost,
           inbox' \subseteq inbox, \A m \in inbox : m.kind = "wrap" => m \in inbox'
    PROVE  IInv'
<1> DEFINE r == Made(st, TRUE, b, n, content)
<1>1. r \in ArrayRecord /\ r # NULL /\ r.own /\ r.data = b /\ r.length = n /\ r.val = content
  <2>1. r \in ArrayRecord
    BY DEF Made, ArrayRecord
  <2>2. r.own /\ r.data = b /\ r.length = n /\ r.val = content
    BY DEF Made
  <2> QED BY <2>1, <2>2, NullAssumption
<1> HIDE DEF r
<1>2. /\ array'[a] = r /\ \A c \in Arrays \ {a} : array'[c] = array[c]
      /\ array' \in [Arrays -> ArrayRecord \cup {NULL}]
  BY <1>1 DEF IInv, Shape, r
<1>3. /\ heap' \in [Buffers -> Seq(Byte) \cup {NULL}] /\ heap'[b] = content /\ content # NULL
      /\ \A x \in Buffers \ {b} : heap'[x] = IF HoldsArray(a, x) THEN NULL ELSE heap[x]
  BY LeftHeap, NullAssumption
<1>4. /\ exposed' \subseteq Buffers \cup {NULL} /\ exposed' \subseteq exposed \cup {b}
      /\ \A x \in exposed \ {b} : x \in exposed'
      /\ Overflows(n) => b \in exposed'
  BY DEF Exposed, IInv, Shape
<1>5. /\ \A c \in Arrays \ {a} : \A x : HoldsArray(c, x)' <=> HoldsArray(c, x)
      /\ \A x : HoldsArray(a, x)' <=> x = b
  BY <1>1, <1>2 DEF HoldsArray
<1>6. \A m, i, x : HoldsEvent(m, i, x)' <=> HoldsEvent(m, i, x)
  BY EventsKept
<1>7. ASSUME b \in exposed, b \notin exposed'
      PROVE  (\A c \in Arrays : array[c] # NULL => array[c].data # b) /\ \A m, i : ~HoldsEvent(m, i, b)
  BY <1>7 DEF Exposed, HoldsEvent
<1>8. ASSUME b \notin exposed'
      PROVE  (\A c \in Arrays \ {a} : ~HoldsArray(c, b)) /\ \A m, i : ~HoldsEvent(m, i, b)
  <2>1. CASE b \in exposed
    BY <1>7, <1>8, <2>1 DEF HoldsArray
  <2>2. CASE b \notin exposed
    <3>1. heap[b] = NULL \/ HoldsArray(a, b)
      BY LeftHeap
    <3> QED BY <2>2, <3>1 DEF IInv, ArraysGood, EventsGood, Unique, Content
  <2> QED BY <2>1, <2>2
<1>9. b \notin lost
  <2>1. heap[b] = NULL \/ HoldsArray(a, b)
    BY LeftHeap
  <2> QED BY <2>1, NotLost DEF IInv, LostKept, HoldsArray
<1>10. Shape'
  BY <1>2, <1>3, <1>4 DEF IInv, Shape
<1>11. Views'
  <2> SUFFICES ASSUME NEW c \in Arrays, array'[c] # NULL, ~array'[c].own
               PROVE  array'[c].data \in exposed' \/ Emptied(array'[c])
    BY DEF Views
  <2>1. c # a /\ array'[c] = array[c]
    BY <1>1, <1>2
  <2>2. array[c].data \in exposed \/ Emptied(array[c])
    BY <2>1 DEF IInv, Views
  <2>3. CASE array[c].data = b
    <3>1. b \in exposed
      BY <2>2, <2>3, MemarrayAssumption DEF Emptied
    <3> QED BY <1>7, <2>1, <2>3, <3>1
  <2>4. CASE array[c].data # b
    BY <1>4, <2>1, <2>2, <2>4 DEF Emptied
  <2> QED BY <2>3, <2>4
<1>12. ASSUME NEW x \in Buffers \ exposed', x # b
       PROVE  x \notin exposed /\ (HoldsArray(a, x) \/ heap'[x] = heap[x])
  BY <1>3, <1>4, <1>12
<1>13. ArraysGood'
  <2> SUFFICES ASSUME NEW c \in Arrays, NEW x \in Buffers \ exposed', HoldsArray(c, x)'
               PROVE  Content(x, array[c].length, array[c].val)'
    BY DEF ArraysGood
  <2>1. CASE c = a
    <3>1. x = b
      BY <1>5, <2>1
    <3> QED BY <1>1, <1>2, <1>3, <1>4, <1>9, <2>1, <3>1 DEF Content
  <2>2. CASE c # a
    <3>1. HoldsArray(c, x) /\ x # b
      BY <1>5, <1>8, <2>2
    <3>2. x \notin exposed
      BY <1>12, <3>1
    <3>3. Content(x, array[c].length, array[c].val) /\ ~HoldsArray(a, x)
      BY <2>2, <3>1, <3>2 DEF IInv, ArraysGood, Unique
    <3> QED BY <1>2, <1>3, <2>2, <3>1, <3>3 DEF Content
  <2> QED BY <2>1, <2>2
<1>14. EventsGood'
  <2> SUFFICES ASSUME NEW x \in Buffers \ exposed', NEW m, NEW i, HoldsEvent(m, i, x)'
               PROVE  Content(x, m.parts[i].length, m.parts[i].val)'
    BY DEF EventsGood
  <2>1. HoldsEvent(m, i, x) /\ x # b
    BY <1>6, <1>8
  <2>2. x \notin exposed
    BY <1>12, <2>1
  <2>3. Content(x, m.parts[i].length, m.parts[i].val) /\ ~HoldsArray(a, x)
    BY <2>1, <2>2 DEF IInv, EventsGood, Unique
  <2> QED BY <1>3, <2>1, <2>3 DEF Content
<1>15. Unique'
  <2> SUFFICES ASSUME NEW x \in Buffers \ exposed'
               PROVE  /\ \A c, d \in Arrays : HoldsArray(c, x)' /\ HoldsArray(d, x)' => c = d
                      /\ \A c \in Arrays : \A m, i : ~(HoldsArray(c, x)' /\ HoldsEvent(m, i, x)')
                      /\ \A m, k, i, j : HoldsEvent(m, i, x)' /\ HoldsEvent(k, j, x)' => m = k /\ i = j
    BY DEF Unique
  <2>1. CASE x = b
    BY <1>5, <1>6, <1>8, <2>1
  <2>2. CASE x # b
    <3>1. x \notin exposed
      BY <1>12, <2>2
    <3> QED BY <1>5, <1>6, <2>2, <3>1 DEF IInv, Unique
  <2> QED BY <2>1, <2>2
<1>16. Kept'
  <2> SUFFICES ASSUME NEW x \in Buffers \ exposed', heap'[x] # NULL, x \notin lost
               PROVE  (\E c \in Arrays : HoldsArray(c, x)') \/ (\E m, i : HoldsEvent(m, i, x)')
    BY DEF Kept
  <2>1. CASE x = b
    BY <1>5, <2>1
  <2>2. CASE x # b
    <3>1. x \notin exposed /\ ~HoldsArray(a, x) /\ heap[x] # NULL
      BY <1>3, <1>12, <2>2
    <3>2. (\E c \in Arrays : HoldsArray(c, x)) \/ (\E m, i : HoldsEvent(m, i, x))
      BY <3>1 DEF IInv, Kept
    <3> QED BY <1>5, <1>6, <3>1, <3>2
  <2> QED BY <2>1, <2>2
<1>17. LostKept'
  <2>1. \A x \in lost : x \in Buffers \ {b} /\ ~HoldsArray(a, x)
    BY <1>9, NotLost DEF IInv, Shape, HoldsArray
  <2> QED BY <1>3, <1>4, <1>9, <2>1 DEF IInv, LostKept
<1>18. CopiesGood'
  BY DEF IInv, CopiesGood
<1> QED BY <1>10, <1>11, <1>13, <1>14, <1>15, <1>16, <1>17, <1>18 DEF IInv

(* An array gives back what it owns and becomes a view, empty, or nothing. *)
LEMMA GiveBack ==
    ASSUME IInv, NEW a \in Arrays, NEW r \in ArrayRecord \cup {NULL},
           heap' = Left(a), array' = [array EXCEPT ![a] = r],
           r # NULL => /\ ~r.own
                       /\ r.data \in exposed' \/ Emptied(r),
           exposed \subseteq exposed', exposed' \subseteq Buffers \cup {NULL}, lost \cap exposed' = {},
           lost' = lost, inbox' = inbox
    PROVE  IInv'
<1>1. /\ array'[a] = r /\ \A c \in Arrays \ {a} : array'[c] = array[c]
      /\ array' \in [Arrays -> ArrayRecord \cup {NULL}]
  BY DEF IInv, Shape
<1>2. /\ heap' \in [Buffers -> Seq(Byte) \cup {NULL}]
      /\ \A x \in Buffers : heap'[x] = IF HoldsArray(a, x) THEN NULL ELSE heap[x]
  BY LeftHeap
<1>3. /\ \A c \in Arrays \ {a} : \A x : HoldsArray(c, x)' <=> HoldsArray(c, x)
      /\ \A x : ~HoldsArray(a, x)'
  BY <1>1 DEF HoldsArray
<1>4. \A m, i, x : HoldsEvent(m, i, x)' <=> HoldsEvent(m, i, x)
  BY DEF HoldsEvent
<1>5. Shape' /\ Views'
  BY <1>1, <1>2 DEF IInv, Shape, Views
<1>6. ArraysGood'
  <2> SUFFICES ASSUME NEW c \in Arrays, NEW x \in Buffers \ exposed', HoldsArray(c, x)'
               PROVE  Content(x, array[c].length, array[c].val)'
    BY DEF ArraysGood
  <2>1. c # a /\ HoldsArray(c, x) /\ x \notin exposed
    BY <1>3
  <2>2. Content(x, array[c].length, array[c].val) /\ ~HoldsArray(a, x)
    BY <2>1 DEF IInv, ArraysGood, Unique
  <2> QED BY <1>1, <1>2, <2>1, <2>2 DEF Content
<1>7. EventsGood'
  <2> SUFFICES ASSUME NEW x \in Buffers \ exposed', NEW m, NEW i, HoldsEvent(m, i, x)'
               PROVE  Content(x, m.parts[i].length, m.parts[i].val)'
    BY DEF EventsGood
  <2>1. HoldsEvent(m, i, x) /\ x \notin exposed
    BY <1>4
  <2>2. Content(x, m.parts[i].length, m.parts[i].val) /\ ~HoldsArray(a, x)
    BY <2>1 DEF IInv, EventsGood, Unique
  <2> QED BY <1>2, <2>2 DEF Content
<1>8. Unique'
  <2> SUFFICES ASSUME NEW x \in Buffers \ exposed'
               PROVE  /\ \A c, d \in Arrays : HoldsArray(c, x)' /\ HoldsArray(d, x)' => c = d
                      /\ \A c \in Arrays : \A m, i : ~(HoldsArray(c, x)' /\ HoldsEvent(m, i, x)')
                      /\ \A m, k, i, j : HoldsEvent(m, i, x)' /\ HoldsEvent(k, j, x)' => m = k /\ i = j
    BY DEF Unique
  <2> QED BY <1>3, <1>4 DEF IInv, Unique
<1>9. Kept'
  <2> SUFFICES ASSUME NEW x \in Buffers \ exposed', heap'[x] # NULL, x \notin lost
               PROVE  (\E c \in Arrays : HoldsArray(c, x)') \/ (\E m, i : HoldsEvent(m, i, x)')
    BY DEF Kept
  <2>1. ~HoldsArray(a, x) /\ heap[x] # NULL /\ x \notin exposed
    BY <1>2
  <2>2. (\E c \in Arrays : HoldsArray(c, x)) \/ (\E m, i : HoldsEvent(m, i, x))
    BY <2>1 DEF IInv, Kept
  <2> QED BY <1>3, <1>4, <2>1, <2>2
<1>10. LostKept'
  <2>1. \A x \in lost : x \in Buffers /\ ~HoldsArray(a, x)
    BY NotLost DEF IInv, Shape, HoldsArray
  <2> QED BY <1>2, <2>1 DEF IInv, LostKept
<1>11. CopiesGood'
  BY DEF IInv, CopiesGood
<1> QED BY <1>5, <1>6, <1>7, <1>8, <1>9, <1>10, <1>11 DEF IInv

(* An array is written to: the value follows if the memory is its own.     *)
LEMMA WriteTo ==
    ASSUME IInv, NEW a \in Arrays, array[a] # NULL, array[a].length # 0,
           NEW val \in Seq(Byte), array' = [array EXCEPT ![a].val = val],
           heap' \in [Buffers -> Seq(Byte) \cup {NULL}],
           \A x \in Buffers \ {array[a].data} : heap'[x] = heap[x],
           \A x \in Buffers : heap'[x] = NULL <=> heap[x] = NULL,
           array[a].own /\ array[a].data \in Buffers \ exposed =>
             heap'[array[a].data] = val /\ Len(val) = Len(heap[array[a].data]),
           exposed' = exposed, lost' = lost,
           inbox' \subseteq inbox, \A m \in inbox : m.kind = "wrap" => m \in inbox'
    PROVE  IInv'
<1> DEFINE d == array[a].data
<1>0. array[a] \in ArrayRecord /\ d \in Buffers \cup {NULL} /\ NULL \notin Buffers
  BY MemarrayAssumption DEF IInv, Shape, ArrayRecord
<1>1. /\ array' \in [Arrays -> ArrayRecord \cup {NULL}]
      /\ \A c \in Arrays \ {a} : array'[c] = array[c]
      /\ array'[a] \in ArrayRecord /\ array'[a] # NULL /\ array'[a].val = val
      /\ array'[a].own = array[a].own /\ array'[a].data = d /\ array'[a].length = array[a].length
  <2>1. /\ array'[a] \in ArrayRecord /\ array'[a].val = val
        /\ array'[a].own = array[a].own /\ array'[a].data = d /\ array'[a].length = array[a].length
    BY <1>0 DEF IInv, Shape, ArrayRecord
  <2>2. \A c \in Arrays \ {a} : array'[c] = array[c]
    BY DEF IInv, Shape
  <2>3. array' \in [Arrays -> ArrayRecord \cup {NULL}]
    BY <2>1, <2>2 DEF IInv, Shape
  <2> QED BY <2>1, <2>2, <2>3, NullAssumption
<1>2. /\ \A x \in Buffers \ {d} : heap'[x] = heap[x]
      /\ val # NULL
  BY NullAssumption
<1> HIDE DEF d
<1>3. \A c \in Arrays : \A x : HoldsArray(c, x)' <=> HoldsArray(c, x)
  BY <1>1 DEF HoldsArray, d
<1>4. \A m, i, x : HoldsEvent(m, i, x)' <=> HoldsEvent(m, i, x)
  BY EventsKept
<1>5. Shape'
  BY <1>1, <1>2 DEF IInv, Shape
<1>6. Views'
  BY <1>1 DEF IInv, Views, d, Emptied
<1>7. ASSUME NEW x \in Buffers \ exposed, x = d
      PROVE  \/ HoldsArray(a, x)
             \/ (\A c \in Arrays : ~HoldsArray(c, x)) /\ (\A m, i : ~HoldsEvent(m, i, x))
  <2>1. array[a].own
    BY <1>0, <1>7 DEF IInv, Views, d, Emptied
  <2> QED BY <1>7, <2>1 DEF HoldsArray, d
<1>8. ArraysGood'
  <2> SUFFICES ASSUME NEW c \in Arrays, NEW x \in Buffers \ exposed, HoldsArray(c, x)'
               PROVE  Content(x, array[c].length, array[c].val)'
    BY DEF ArraysGood
  <2>1. HoldsArray(c, x)
    BY <1>3
  <2>2. Content(x, array[c].length, array[c].val)
    BY <2>1 DEF IInv, ArraysGood
  <2>3. CASE x = d
    <3>1. c = a
      BY <1>7, <2>1, <2>3 DEF IInv, Unique
    <3> QED BY <1>1, <1>2, <2>1, <2>2, <2>3, <3>1 DEF Content, HoldsArray, d
  <2>4. CASE x # d
    <3>1. c # a
      BY <2>1, <2>4 DEF HoldsArray, d
    <3> QED BY <1>1, <1>2, <2>2, <2>4, <3>1 DEF Content
  <2> QED BY <2>3, <2>4
<1>9. EventsGood'
  <2> SUFFICES ASSUME NEW x \in Buffers \ exposed, NEW m, NEW i, HoldsEvent(m, i, x)'
               PROVE  Content(x, m.parts[i].length, m.parts[i].val)'
    BY DEF EventsGood
  <2>1. HoldsEvent(m, i, x)
    BY <1>4
  <2>2. x # d
    BY <1>7, <2>1 DEF IInv, Unique
  <2> QED BY <1>2, <2>1, <2>2 DEF IInv, EventsGood, Content
<1>10. Unique'
  BY <1>3, <1>4 DEF IInv, Unique
<1>11. Kept'
  <2> SUFFICES ASSUME NEW x \in Buffers \ exposed, heap'[x] # NULL, x \notin lost
               PROVE  (\E c \in Arrays : HoldsArray(c, x)') \/ (\E m, i : HoldsEvent(m, i, x)')
    BY DEF Kept
  <2>1. heap[x] # NULL
    BY <1>2 DEF d
  <2>2. (\E c \in Arrays : HoldsArray(c, x)) \/ (\E m, i : HoldsEvent(m, i, x))
    BY <2>1 DEF IInv, Kept
  <2> QED BY <1>3, <1>4, <2>2
<1>12. LostKept'
  BY <1>2 DEF IInv, LostKept, Shape
<1>13. CopiesGood'
  BY DEF IInv, CopiesGood
<1> QED BY <1>5, <1>6, <1>8, <1>9, <1>10, <1>11, <1>12, <1>13 DEF IInv

(* A copy is sent.                                                         *)
LEMMA SendCopy ==
    ASSUME IInv, NEW m \in CopyMessage, inbox' = inbox \cup {m},
           m.kind = "persist" => m.bytes = m.val, m.kind = "net" => Swap(m.bytes) = m.val,
           Len(m.bytes) = Size(m.length),
           UNCHANGED <<array, heap, exposed, lost>>
    PROVE  IInv'
<1>1. m.kind # "wrap"
  BY DEF CopyMessage
<1>2. \A k, i, x : HoldsEvent(k, i, x)' <=> HoldsEvent(k, i, x)
  BY <1>1 DEF HoldsEvent
<1>3. \A a, x : HoldsArray(a, x)' <=> HoldsArray(a, x)
  BY DEF HoldsArray
<1>4. \A b, n, val : Content(b, n, val)' <=> Content(b, n, val)
  BY DEF Content
<1>5. Shape' /\ Views' /\ LostKept'
  BY DEF IInv, Shape, Views, LostKept
<1>6. ArraysGood'
  BY <1>3, <1>4 DEF IInv, ArraysGood
<1>7. EventsGood'
  BY <1>2, <1>4 DEF IInv, EventsGood
<1>8. Unique' /\ Kept'
  BY <1>2, <1>3 DEF IInv, Unique, Kept
<1>9. CopiesGood'
  BY DEF IInv, CopiesGood
<1> QED BY <1>5, <1>6, <1>7, <1>8, <1>9 DEF IInv

-----------------------------------------------------------------------------
(* What is read from an array has the size the array believes in, and is   *)
(* its value.                                                              *)
LEMMA ReadArray ==
    ASSUME IInv, NEW a \in Arrays, array[a] # NULL, Usable(array[a].data, Size(array[a].length))
    PROVE  /\ ToStr(a) \in Seq(Byte) /\ Len(ToStr(a)) = Size(array[a].length)
           /\ MemarrayGet(a) => Value(a) = ToStr(a)
<1> DEFINE d == array[a].data
           n == array[a].length
<1>0. array[a] \in ArrayRecord /\ d \in Buffers \cup {NULL} /\ n \in Nat /\ NULL \notin Buffers
  BY MemarrayAssumption DEF IInv, Shape, ArrayRecord, Lengths
<1>1. Size(n) \in Nat
  BY <1>0, SizeFacts
<1>2. CASE Size(n) = 0
  <2>1. ToStr(a) = <<>>
    BY <1>2 DEF ToStr
  <2>2. ASSUME MemarrayGet(a), d \notin exposed PROVE array[a].val = <<>>
    <3>1. CASE array[a].own
      <4>1. HoldsArray(a, d) /\ d \in Buffers
        BY <1>0, <2>2, <3>1 DEF MemarrayGet, HoldsArray
      <4> QED BY <1>0, <1>2, <2>2, <4>1 DEF IInv, ArraysGood, Content, ArrayRecord
    <3>2. CASE ~array[a].own
      BY <2>2, <3>2 DEF IInv, Views, Emptied
    <3> QED BY <3>1, <3>2
  <2>3. Value(a) = ToStr(a) \/ (d \notin exposed /\ Value(a) = array[a].val)
    BY DEF Value
  <2>4. <<>> \in Seq(Byte) /\ Len(<<>>) = 0
    OBVIOUS
  <2> QED BY <1>2, <2>1, <2>2, <2>3, <2>4
<1>3. CASE Size(n) # 0
  <2>1. d # NULL /\ heap[d] # NULL /\ Len(heap[d]) >= Size(n)
    BY <1>3 DEF Usable
  <2>2. heap[d] \in Seq(Byte) /\ d \in Buffers
    BY <1>0, <2>1 DEF IInv, Shape
  <2>3. ToStr(a) = SubSeq(heap[d], 1, Size(n))
    BY <1>3 DEF ToStr
  <2>4. ToStr(a) \in Seq(Byte) /\ Len(ToStr(a)) = Size(n)
    BY <1>1, <1>3, <2>1, <2>2, <2>3
  <2>5. ASSUME MemarrayGet(a), d \notin exposed PROVE array[a].val = ToStr(a)
    <3>1. array[a].own
      BY <1>0, <1>3, <2>5, SizeFacts DEF IInv, Views, Emptied
    <3>2. heap[d] = array[a].val /\ Len(heap[d]) = Size(n)
      BY <2>2, <2>5, <3>1 DEF HoldsArray, IInv, ArraysGood, Content
    <3>3. SubSeq(heap[d], 1, Len(heap[d])) = heap[d]
      BY <2>2
    <3> QED BY <2>3, <3>2, <3>3
  <2> QED BY <2>4, <2>5 DEF Value
<1> QED BY <1>2, <1>3

(* Nothing changes where undefined behaviour is met.                       *)
LEMMA StepNothing ==
    ASSUME IInv, UNCHANGED <<array, heap, inbox, exposed, lost>>
    PROVE  IInv'
<1>1. \A a, x : HoldsArray(a, x)' <=> HoldsArray(a, x)
  BY DEF HoldsArray
<1>2. \A m, i, x : HoldsEvent(m, i, x)' <=> HoldsEvent(m, i, x)
  BY DEF HoldsEvent
<1>3. \A b, n, val : Content(b, n, val)' <=> Content(b, n, val)
  BY DEF Content
<1>4. Shape' /\ Views' /\ LostKept' /\ CopiesGood'
  BY DEF IInv, Shape, Views, LostKept, CopiesGood
<1>5. ArraysGood' /\ EventsGood'
  BY <1>1, <1>2, <1>3 DEF IInv, ArraysGood, EventsGood
<1>6. Unique' /\ Kept'
  BY <1>1, <1>2 DEF IInv, Unique, Kept
<1> QED BY <1>4, <1>5, <1>6 DEF IInv

(* Undefined behaviour ends the run as it is.                              *)
LEMMA StepUndefined ==
    ASSUME IInv, NEW b, Undefined(b)
    PROVE  IInv'
BY StepNothing DEF Undefined

(* The size of every length is a number of whole items.                    *)
LEMMA SizeOfLength ==
    ASSUME NEW n \in Lengths
    PROVE  n \in Nat /\ Size(n) \in Nat /\ Size(n) % ItemSize = 0
BY SizeFacts, MemarrayAssumption, SMTT(30) DEF Lengths

(* One lemma for each operation on an array.                               *)
LEMMA StepCall ==
    ASSUME IInv, NEW st \in States, NEW a \in Arrays, NEW n \in Lengths, Call(st, a, n)
    PROVE  IInv'
<1>1. PICK b \in Buffers, content \in Uninitialized(Size(n)) :
        /\ heap[b] = NULL /\ heap' = [heap EXCEPT ![b] = content]
        /\ array' = [array EXCEPT ![a] = Made(st, TRUE, b, n, content)]
        /\ exposed' = Exposed(b, n)
  BY DEF Call
<1>2. content \in Seq(Byte) /\ Len(content) = Size(n)
  BY SizeOfLength, UninitializedType
<1>3. Left(a) = heap /\ inbox' = inbox /\ lost' = lost
  BY DEF Left, Call
<1> QED BY <1>1, <1>2, <1>3, Allocate

(* a:realloc(type, n).                                                     *)
LEMMA StepRealloc ==
    ASSUME IInv, NEW a \in Arrays, NEW n \in Lengths, Realloc(a, n)
    PROVE  IInv'
<1>0. array[a] # NULL /\ Left(a) = MemarrayDelete(a)
  BY DEF Realloc, MemarrayGet, Left
<1>1. CASE FreesTwice(a)
  BY <1>1, StepUndefined DEF Realloc
<1>2. CASE ~FreesTwice(a)
  <2>1. PICK b \in Buffers, content \in Uninitialized(Size(n)) :
          /\ Left(a)[b] = NULL
          /\ heap' = [Left(a) EXCEPT ![b] = content]
          /\ array' = [array EXCEPT ![a] = Made(array[a].state, TRUE, b, n, content)]
          /\ exposed' = Exposed(b, n)
          /\ UNCHANGED <<inbox, lost, fault>>
    BY <1>0, <1>2 DEF Realloc
  <2>2. content \in Seq(Byte) /\ Len(content) = Size(n)
    BY SizeOfLength, UninitializedType
  <2>3. array[a].state \in States
    BY <1>0 DEF IInv, Shape, ArrayRecord
  <2> QED BY <2>1, <2>2, <2>3, Allocate
<1> QED BY <1>1, <1>2

(* a:realloc(type, n) without memory.                                      *)
LEMMA StepReallocFails ==
    ASSUME IInv, NEW a \in Arrays, NEW n \in Lengths, ReallocFails(a, n)
    PROVE  IInv'
<1>0. array[a] # NULL /\ Left(a) = MemarrayDelete(a) /\ array[a].state \in States
  BY DEF ReallocFails, MemarrayGet, Left, IInv, Shape, ArrayRecord
<1> DEFINE r == Made(array[a].state, FALSE, NULL, 0, <<>>)
<1>1. r \in ArrayRecord /\ ~r.own /\ Emptied(r)
  BY <1>0, MemarrayAssumption DEF Made, ArrayRecord, Emptied, Lengths
<1>2. heap' = Left(a) /\ array' = [array EXCEPT ![a] = r] /\ UNCHANGED <<inbox, exposed, lost>>
  BY <1>0 DEF ReallocFails
<1> HIDE DEF r
<1>3. exposed' \subseteq Buffers \cup {NULL} /\ lost \cap exposed' = {}
  BY <1>2 DEF IInv, Shape, LostKept
<1> QED BY <1>1, <1>2, <1>3, GiveBack

(* v:realloc(type, n, a:ptr()): the buffer is exposed from now on.         *)
LEMMA StepInherit ==
    ASSUME IInv, NEW v \in Arrays, NEW a \in Arrays, NEW n \in Lengths, Inherit(v, a, n)
    PROVE  IInv'
<1>0. /\ array[v] # NULL /\ Left(v) = MemarrayDelete(v) /\ array[v].state \in States
      /\ array[a] # NULL /\ array[a].data \in Buffers \cup {NULL}
  BY DEF Inherit, MemarrayGet, Left, IInv, Shape, ArrayRecord
<1>1. CASE FreesTwice(v)
  BY <1>1, StepUndefined DEF Inherit
<1>2. CASE ~FreesTwice(v)
  <2> DEFINE r == Made(array[v].state, FALSE, array[a].data, n, <<>>)
  <2>1. r \in ArrayRecord /\ ~r.own /\ r.data = array[a].data
    BY <1>0 DEF Made, ArrayRecord
  <2>2. heap' = Left(v) /\ array' = [array EXCEPT ![v] = r] /\ UNCHANGED <<inbox, lost>>
        /\ exposed' = exposed \cup {array[a].data}
    BY <1>0, <1>2 DEF Inherit
  <2> HIDE DEF r
  <2>3. exposed' \subseteq Buffers \cup {NULL} /\ lost \cap exposed' = {}
    BY <1>0, <2>2, NotLost DEF IInv, Shape, LostKept
  <2> QED BY <2>1, <2>2, <2>3, GiveBack
<1> QED BY <1>1, <1>2

(* __gc.                                                                   *)
LEMMA StepCollect ==
    ASSUME IInv, NEW a \in Arrays, Collect(a)
    PROVE  IInv'
<1>0. array[a] # NULL /\ Left(a) = MemarrayDelete(a)
  BY DEF Collect, Left
<1>1. CASE FreesTwice(a)
  BY <1>1, StepUndefined DEF Collect
<1>2. CASE ~FreesTwice(a)
  <2>1. heap' = Left(a) /\ array' = [array EXCEPT ![a] = NULL] /\ UNCHANGED <<inbox, lost, exposed>>
    BY <1>0, <1>2 DEF Collect
  <2>2. exposed' \subseteq Buffers \cup {NULL} /\ lost \cap exposed' = {}
    BY <2>1 DEF IInv, Shape, LostKept
  <2> QED BY <2>1, <2>2, GiveBack
<1> QED BY <1>1, <1>2

(* a[i] = item.                                                            *)
LEMMA StepNewIndex ==
    ASSUME IInv, NEW a \in Arrays, NEW i \in 1..MaxLength, NEW item \in Items, NewIndex(a, i, item)
    PROVE  IInv'
<1> DEFINE d == array[a].data
           bytes == Put(heap[d], i, item)
           val == IF array[a].own THEN Put(array[a].val, i, item) ELSE array[a].val
<1>0. /\ array[a] # NULL /\ array[a] \in ArrayRecord /\ array[a].length # 0 /\ i \in Nat \ {0}
      /\ d \in Buffers \cup {NULL} /\ array[a].val \in Seq(Byte) /\ NULL \notin Buffers
  BY MemarrayAssumption DEF NewIndex, MemarrayGet, IInv, Shape, ArrayRecord, Lengths
<1>1. i * ItemSize # 0
  BY <1>0, MemarrayAssumption
<1>2. d \in Buffers /\ heap[d] # NULL /\ heap[d] \in Seq(Byte)
  BY <1>0, <1>1 DEF NewIndex, Usable, IInv, Shape
<1>3. bytes \in Seq(Byte) /\ Len(bytes) = Len(heap[d]) /\ val \in Seq(Byte)
  BY <1>0, <1>2, PutType
<1>4. heap' = [heap EXCEPT ![d] = bytes] /\ array' = [array EXCEPT ![a].val = val]
      /\ UNCHANGED <<inbox, exposed, lost>>
  BY DEF NewIndex
<1>5. array[a].own /\ d \notin exposed => bytes = val
  BY <1>0, <1>2 DEF HoldsArray, IInv, ArraysGood, Content
<1> HIDE DEF bytes, val
<1>6. bytes # NULL
  BY <1>3, NullAssumption
<1>7. /\ heap' \in [Buffers -> Seq(Byte) \cup {NULL}] /\ heap'[d] = bytes
      /\ \A x \in Buffers \ {d} : heap'[x] = heap[x]
      /\ \A x \in Buffers : heap'[x] = NULL <=> heap[x] = NULL
  BY <1>2, <1>3, <1>4, <1>6 DEF IInv, Shape
<1> QED BY <1>0, <1>2, <1>3, <1>4, <1>5, <1>7, WriteTo

(* to_str for another process.                                             *)
LEMMA StepPersist ==
    ASSUME IInv, NEW a \in Arrays, Persist(a)
    PROVE  IInv'
<1>1. CASE ~Usable(array[a].data, Size(array[a].length))
  BY <1>1, StepUndefined DEF Persist
<1>2. CASE Usable(array[a].data, Size(array[a].length))
  <2>1. array[a] # NULL /\ array[a].length \in Lengths
    BY DEF Persist, MemarrayGet, IInv, Shape, ArrayRecord
  <2>2. /\ ToStr(a) \in Seq(Byte) /\ Len(ToStr(a)) = Size(array[a].length)
        /\ Value(a) = ToStr(a)
    BY <1>2, <2>1, ReadArray DEF Persist
  <2> DEFINE m == [kind |-> "persist", length |-> array[a].length, bytes |-> ToStr(a), val |-> Value(a)]
  <2>3. m \in CopyMessage /\ m.kind = "persist" /\ m.bytes = m.val /\ Len(m.bytes) = Size(m.length)
    BY <2>1, <2>2 DEF CopyMessage
  <2>4. inbox' = inbox \cup {m} /\ UNCHANGED <<array, heap, exposed, lost>>
    BY <1>2 DEF Persist, Write
  <2> HIDE DEF m
  <2> QED BY <2>3, <2>4, SendCopy
<1> QED BY <1>1, <1>2

(* to_netstr.                                                              *)
LEMMA StepToNetstr ==
    ASSUME IInv, NEW a \in Arrays, ToNetstr(a)
    PROVE  IInv'
<1>1. CASE ~Usable(array[a].data, Size(array[a].length))
  BY <1>1, StepUndefined DEF ToNetstr
<1>2. CASE Usable(array[a].data, Size(array[a].length))
  <2>1. array[a] # NULL /\ array[a].length \in Lengths
    BY DEF ToNetstr, MemarrayGet, IInv, Shape, ArrayRecord
  <2>2. /\ ToStr(a) \in Seq(Byte) /\ Len(ToStr(a)) = Size(array[a].length)
        /\ Value(a) = ToStr(a)
    BY <1>2, <2>1, ReadArray DEF ToNetstr
  <2>3. Swap(ToStr(a)) \in Seq(Byte) /\ Len(Swap(ToStr(a))) = Size(array[a].length)
        /\ Swap(Swap(ToStr(a))) = ToStr(a)
    BY <2>1, <2>2, SizeOfLength, SwapTwice
  <2> DEFINE m == [kind |-> "net", length |-> array[a].length, bytes |-> Swap(ToStr(a)), val |-> Value(a)]
  <2>4. m \in CopyMessage /\ m.kind = "net" /\ Swap(m.bytes) = m.val /\ Len(m.bytes) = Size(m.length)
    BY <2>1, <2>2, <2>3 DEF CopyMessage
  <2>5. inbox' = inbox \cup {m} /\ UNCHANGED <<array, heap, exposed, lost>>
    BY <1>2 DEF ToNetstr, Write
  <2> HIDE DEF m
  <2> QED BY <2>4, <2>5, SendCopy
<1> QED BY <1>1, <1>2

(* A new array with the content of a string.                               *)
LEMMA StepFromStr ==
    ASSUME IInv, NEW st \in States, NEW a \in Arrays, NEW n \in Lengths, NEW bytes \in Seq(Byte),
           Len(bytes) = Size(n), FromStr(st, a, n, bytes, bytes), lost' = lost,
           inbox' \subseteq inbox, \A m \in inbox : m.kind = "wrap" => m \in inbox'
    PROVE  IInv'
<1>1. PICK b \in Buffers : /\ heap[b] = NULL /\ heap' = [heap EXCEPT ![b] = bytes]
                           /\ array' = [array EXCEPT ![a] = Made(st, TRUE, b, n, bytes)]
                           /\ exposed' = Exposed(b, n)
  BY DEF FromStr
<1>2. Left(a) = heap
  BY DEF Left, FromStr
<1> QED BY <1>1, <1>2, Allocate

(* from_str in the other process.                                          *)
LEMMA StepRestore ==
    ASSUME IInv, NEW st \in States, NEW m \in inbox, NEW a \in Arrays, Restore(st, m, a)
    PROVE  IInv'
<1>1. m.kind = "persist" /\ m \in CopyMessage
  BY DEF Restore, IInv, Shape, WrapMessage
<1>2. m.length \in Lengths /\ m.bytes \in Seq(Byte) /\ m.bytes = m.val /\ Len(m.bytes) = Size(m.length)
  BY <1>1 DEF CopyMessage, IInv, CopiesGood
<1>3. /\ FromStr(st, a, m.length, m.bytes, m.bytes) /\ lost' = lost /\ inbox' \subseteq inbox
      /\ \A k \in inbox : k.kind = "wrap" => k \in inbox'
  BY <1>1, <1>2 DEF Restore
<1> QED BY <1>2, <1>3, StepFromStr

(* A copy in the same state.                                               *)
LEMMA StepClone ==
    ASSUME IInv, NEW a \in Arrays, NEW new \in Arrays, Clone(a, new)
    PROVE  IInv'
<1>1. CASE ~Usable(array[a].data, Size(array[a].length))
  BY <1>1, StepUndefined DEF Clone
<1>2. CASE Usable(array[a].data, Size(array[a].length))
  <2>1. array[a] # NULL /\ array[a].length \in Lengths /\ array[a].state \in States
    BY DEF Clone, MemarrayGet, IInv, Shape, ArrayRecord
  <2>2. /\ ToStr(a) \in Seq(Byte) /\ Len(ToStr(a)) = Size(array[a].length)
        /\ Value(a) = ToStr(a)
    BY <1>2, <2>1, ReadArray DEF Clone
  <2>3. FromStr(array[a].state, new, array[a].length, ToStr(a), ToStr(a)) /\ UNCHANGED <<inbox, lost>>
    BY <1>2, <2>2 DEF Clone
  <2> QED BY <2>1, <2>2, <2>3, StepFromStr
<1> QED BY <1>1, <1>2

(* from_netstr undoes the swap of to_netstr.                               *)
LEMMA StepFromNetstr ==
    ASSUME IInv, NEW a \in Arrays, NEW m \in inbox, FromNetstr(a, m)
    PROVE  IInv'
<1>1. m.kind = "net" /\ m \in CopyMessage
  BY DEF FromNetstr, IInv, Shape, WrapMessage
<1> DEFINE d == array[a].data
           s == Swap(m.bytes)
<1>2. m.length \in Lengths /\ m.bytes \in Seq(Byte) /\ s = m.val /\ Len(m.bytes) = Size(m.length)
  BY <1>1 DEF CopyMessage, IInv, CopiesGood
<1>3. s \in Seq(Byte) /\ Len(s) = Len(m.bytes)
  BY <1>2, SizeOfLength, SwapTwice
<1>4. /\ array[a] # NULL /\ array[a] \in ArrayRecord /\ array[a].length # 0 /\ array[a].length \in Lengths
      /\ d \in Buffers \cup {NULL} /\ NULL \notin Buffers /\ Size(array[a].length) = Len(m.bytes)
  BY MemarrayAssumption DEF FromNetstr, MemarrayGet, IInv, Shape, ArrayRecord
<1>5. CASE ~Usable(d, Len(m.bytes))
  BY <1>5, StepUndefined DEF FromNetstr
<1>6. CASE Usable(d, Len(m.bytes))
  <2>1. /\ heap' = Copied(d, s) /\ array' = [array EXCEPT ![a].val = m.val] /\ exposed' = exposed
        /\ lost' = lost /\ inbox' \subseteq inbox /\ \A k \in inbox : k.kind = "wrap" => k \in inbox'
    BY <1>1, <1>6 DEF FromNetstr
  <2> HIDE DEF d, s
  <2>2. PICK n \in Nat : n = Len(s) /\ DOMAIN s = 1..n
    BY <1>3
  <2>3. CASE Len(s) # 0
    <3>1. d \in Buffers /\ heap[d] # NULL /\ heap[d] \in Seq(Byte) /\ Len(heap[d]) >= Len(s)
      BY <1>3, <1>4, <1>6, <2>3 DEF Usable, IInv, Shape
    <3> DEFINE bytes == [k \in DOMAIN heap[d] |-> IF k \in DOMAIN s THEN s[k] ELSE heap[d][k]]
    <3>2. heap' = [heap EXCEPT ![d] = bytes]
      BY <2>1, <2>3 DEF Copied
    <3>3. bytes \in Seq(Byte) /\ Len(bytes) = Len(heap[d])
      <4>1. bytes \in [1..Len(heap[d]) -> Byte] /\ Len(heap[d]) \in Nat
        BY <1>3, <3>1
      <4> QED BY <4>1
    <3>4. ASSUME array[a].own, d \notin exposed PROVE bytes = m.val
      <4>1. Len(heap[d]) = Len(s)
        BY <1>3, <1>4, <3>1, <3>4 DEF HoldsArray, IInv, ArraysGood, Content, d
      <4>2. DOMAIN heap[d] = DOMAIN s
        BY <1>3, <3>1, <4>1
      <4>3. bytes = [k \in DOMAIN s |-> s[k]]
        BY <4>2
      <4>4. s = [k \in DOMAIN s |-> s[k]]
        BY <1>3
      <4> QED BY <1>2, <4>3, <4>4
    <3> HIDE DEF bytes
    <3>5. m.val \in Seq(Byte)
      BY <1>2, <1>3
    <3>6. bytes # NULL
      BY <3>3, NullAssumption
    <3>7. /\ heap' \in [Buffers -> Seq(Byte) \cup {NULL}] /\ heap'[d] = bytes
          /\ \A x \in Buffers \ {d} : heap'[x] = heap[x]
          /\ \A x \in Buffers : heap'[x] = NULL <=> heap[x] = NULL
      BY <3>1, <3>2, <3>3, <3>6 DEF IInv, Shape
    <3> QED BY <1>4, <2>1, <3>1, <3>3, <3>4, <3>5, <3>7, WriteTo DEF d
  <2>4. CASE Len(s) = 0
    <3>1. heap' = heap /\ heap' \in [Buffers -> Seq(Byte) \cup {NULL}]
      BY <2>1, <2>4 DEF Copied, IInv, Shape
    <3>2. m.val \in Seq(Byte) /\ Len(m.val) = 0
      BY <1>2, <1>3, <2>4
    <3>3. ASSUME array[a].own, d \in Buffers \ exposed PROVE heap[d] = m.val /\ Len(m.val) = Len(heap[d])
      <4>1. Len(heap[d]) = 0 /\ heap[d] # NULL
        BY <1>3, <1>4, <2>4, <3>3 DEF HoldsArray, IInv, ArraysGood, Content, d
      <4>2. heap[d] \in Seq(Byte)
        BY <3>3, <4>1 DEF IInv, Shape
      <4> QED BY <3>2, <4>1, <4>2, EmptySeq
    <3> QED BY <1>4, <2>1, <3>1, <3>2, <3>3, WriteTo DEF d
  <2> QED BY <2>3, <2>4
<1> QED BY <1>5, <1>6

-----------------------------------------------------------------------------
(* The parts of an event, and the arguments that are wrapped: all, or those*)
(* before the first that is refused.                                       *)
Parts(args) == [i \in DOMAIN args |-> Part(args, i)]
Done(args) == {i \in DOMAIN args : \A j \in 1..i : ~Refuses(args, j)}
Wrapped(args) == {args[i] : i \in Done(args)}

(* A part with a buffer takes it from the array that owns it, and no other *)
(* part takes the same; an array that is wrapped gives its buffer to one.  *)
LEMMA PartFacts ==
    ASSUME IInv, NEW args \in Seq(Arrays), \A i \in DOMAIN args : array[args[i]] # NULL
    PROVE  /\ Parts(args) \in Seq(PartRecord) /\ DOMAIN Parts(args) = DOMAIN args
           /\ Done(args) \subseteq DOMAIN args
           /\ \A i \in DOMAIN args, x \in Buffers \ exposed :
                Parts(args)[i].data = x =>
                  /\ HoldsArray(args[i], x) /\ Parts(args)[i].length = array[args[i]].length
                  /\ Parts(args)[i].val = array[args[i]].val
           /\ \A i, j \in DOMAIN args, x \in Buffers \ exposed :
                Parts(args)[i].data = x /\ Parts(args)[j].data = x => i = j
           /\ \A a \in Wrapped(args), x \in Buffers :
                HoldsArray(a, x) => \E i \in Done(args) : args[i] = a /\ Parts(args)[i].data = x
<1>1. PICK n \in Nat : DOMAIN args = 1..n /\ args \in [1..n -> Arrays]
  OBVIOUS
<1>2. ASSUME NEW i \in 1..n
      PROVE  /\ array[args[i]] \in ArrayRecord /\ args[i] \in Arrays /\ Part(args, i) \in PartRecord
             /\ Part(args, i).length = array[args[i]].length /\ Part(args, i).val = array[args[i]].val
             /\ Part(args, i).data = IF args[i] \in Before(args, i) THEN NULL ELSE array[args[i]].data
  <2>1. array[args[i]] \in ArrayRecord /\ args[i] \in Arrays
    BY <1>1 DEF IInv, Shape
  <2> QED BY <2>1 DEF Part, PartRecord, ArrayRecord
<1>3. /\ DOMAIN Parts(args) = 1..n /\ Parts(args) \in Seq(PartRecord)
      /\ \A i \in 1..n : Parts(args)[i] = Part(args, i)
  BY <1>1, <1>2 DEF Parts
<1>4. Done(args) \subseteq DOMAIN args
  BY DEF Done
<1>5. ASSUME NEW i \in 1..n, NEW x \in Buffers \ exposed, Part(args, i).data = x
      PROVE  HoldsArray(args[i], x) /\ args[i] \notin Before(args, i)
  <2>1. args[i] \notin Before(args, i) /\ array[args[i]].data = x
    BY <1>2, <1>5, MemarrayAssumption
  <2>2. array[args[i]].own
    BY <1>1, <1>2, <2>1, MemarrayAssumption DEF IInv, Views, Emptied
  <2> QED BY <1>1, <2>1, <2>2 DEF HoldsArray
<1>6. ASSUME NEW i \in 1..n, NEW j \in 1..n, NEW x \in Buffers \ exposed,
             Part(args, i).data = x, Part(args, j).data = x
      PROVE  i = j
  <2>1. args[i] = args[j]
    BY <1>2, <1>5, <1>6 DEF IInv, Unique
  <2>2. args[i] \notin Before(args, i) /\ args[j] \notin Before(args, j)
    BY <1>5, <1>6
  <2>3. ~(i < j) /\ ~(j < i)
    BY <2>1, <2>2 DEF Before
  <2> QED BY <2>3
<1>7. ASSUME NEW a \in Wrapped(args), NEW x \in Buffers, HoldsArray(a, x)
      PROVE  \E i \in Done(args) : args[i] = a /\ Part(args, i).data = x
  <2>1. PICK i \in Done(args) : a = args[i]
    BY DEF Wrapped
  <2>2. i \in 1..n /\ ~Refuses(args, i)
    BY <1>1 DEF Done
  <2>3. args[i] \notin Before(args, i)
    BY <1>7, <2>1, <2>2 DEF Refuses, HoldsArray
  <2> QED BY <1>2, <1>7, <2>1, <2>2, <2>3 DEF HoldsArray
<1> QED BY <1>1, <1>2, <1>3, <1>4, <1>5, <1>6, <1>7

(* What wrapping does to the arrays.                                       *)
LEMMA WrappedArrays ==
    ASSUME IInv, NEW args \in Seq(Arrays), Emit(args)
    PROVE  /\ array' \in [Arrays -> ArrayRecord \cup {NULL}]
           /\ \A a \in Arrays \ Wrapped(args) : array'[a] = array[a]
           /\ \A a \in Arrays \cap Wrapped(args) :
                /\ array'[a] # NULL /\ array'[a].data = NULL /\ array'[a].own = array[a].own
           /\ \A a \in Arrays, x \in Buffers :
                HoldsArray(a, x)' <=> a \notin Wrapped(args) /\ HoldsArray(a, x)
           /\ Views'
<1>1. /\ array' = [a \in Arrays |-> IF a \in Wrapped(args) THEN ToPtr(array[a]) ELSE array[a]]
      /\ exposed' = IF \E a \in Wrapped(args) : ~array[a].own THEN exposed \cup {NULL} ELSE exposed
      /\ \A i \in DOMAIN args : array[args[i]] # NULL
  BY DEF Emit, Parts, Done, Wrapped
<1>2. ASSUME NEW a \in Arrays \cap Wrapped(args)
      PROVE  /\ array'[a] \in ArrayRecord /\ array'[a] # NULL /\ array'[a].data = NULL
             /\ array'[a].own = array[a].own
  <2>1. array[a] \in ArrayRecord
    BY <1>1 DEF Wrapped, Done, IInv, Shape
  <2>2. array'[a] = Made(array[a].state, array[a].own, NULL, array[a].length, <<>>)
    BY <1>1 DEF ToPtr
  <2>3. /\ array[a].state \in States /\ array[a].own \in BOOLEAN /\ array[a].length \in Lengths
        /\ <<>> \in Seq(Byte)
    BY <2>1 DEF ArrayRecord
  <2>4. array'[a] \in ArrayRecord
    BY <2>2, <2>3 DEF ArrayRecord, Made
  <2>5. array'[a].data = NULL /\ array'[a].own = array[a].own
    BY <2>2 DEF Made
  <2> QED BY <2>4, <2>5, NullAssumption
<1>3. \A a \in Arrays \ Wrapped(args) : array'[a] = array[a]
  BY <1>1
<1>4. array' \in [Arrays -> ArrayRecord \cup {NULL}]
  BY <1>1, <1>2, <1>3 DEF IInv, Shape
<1>5. \A a \in Arrays, x \in Buffers : HoldsArray(a, x)' <=> a \notin Wrapped(args) /\ HoldsArray(a, x)
  BY <1>2, <1>3, MemarrayAssumption DEF HoldsArray
<1>6. Views'
  <2> SUFFICES ASSUME NEW a \in Arrays, array'[a] # NULL, ~array'[a].own
               PROVE  array'[a].data \in exposed' \/ Emptied(array'[a])
    BY DEF Views
  <2>1. CASE a \in Wrapped(args)
    BY <1>1, <1>2, <2>1
  <2>2. CASE a \notin Wrapped(args)
    <3>1. array'[a] = array[a] /\ exposed \subseteq exposed'
      BY <1>1, <1>3, <2>2
    <3> QED BY <3>1 DEF IInv, Views
  <2> QED BY <2>1, <2>2
<1> QED BY <1>2, <1>3, <1>4, <1>5, <1>6

(* Emission to the same process: the buffers change hands, or, when an     *)
(* argument is refused, those of the arguments before it are lost.         *)
LEMMA StepEmit ==
    ASSUME IInv, NEW args \in Seq(Arrays), Emit(args)
    PROVE  IInv'
<1> DEFINE D == DOMAIN args
           P == Parts(args)
           done == Done(args)
           W == Wrapped(args)
           m == [kind |-> "wrap", parts |-> P]
<1>1. /\ \A i \in D : array[args[i]] # NULL
      /\ exposed' = exposed \/ exposed' = exposed \cup {NULL}
      /\ heap' = heap
      /\ \/ done = D /\ inbox' = inbox \cup {m} /\ lost' = lost
         \/ inbox' = inbox /\ lost' = lost \cup ({P[i].data : i \in done} \ (exposed \cup {NULL}))
  BY DEF Emit, Parts, Done, Wrapped
<1>2. /\ P \in Seq(PartRecord) /\ DOMAIN P = D /\ done \subseteq D
      /\ \A i \in D, x \in Buffers \ exposed : P[i].data = x =>
           /\ HoldsArray(args[i], x) /\ P[i].length = array[args[i]].length
           /\ P[i].val = array[args[i]].val
      /\ \A i, j \in D, x \in Buffers \ exposed : P[i].data = x /\ P[j].data = x => i = j
      /\ \A a \in W, x \in Buffers : HoldsArray(a, x) => \E i \in done : args[i] = a /\ P[i].data = x
  BY <1>1, PartFacts
<1>3. /\ array' \in [Arrays -> ArrayRecord \cup {NULL}]
      /\ \A a \in Arrays \ W : array'[a] = array[a]
      /\ \A a \in Arrays, x \in Buffers : HoldsArray(a, x)' <=> a \notin W /\ HoldsArray(a, x)
      /\ Views'
  BY WrappedArrays
<1>4. m \in WrapMessage /\ m.kind = "wrap" /\ m.parts = P
  BY <1>2 DEF WrapMessage
<1>5. \A i \in done : args[i] \in W
  BY DEF Wrapped
<1>6. \A i \in D : args[i] \in Arrays /\ P[i].data \in Buffers \cup {NULL}
  <2>1. \A i \in D : args[i] \in Arrays /\ P[i] \in PartRecord
    BY <1>2
  <2> QED BY <2>1 DEF PartRecord
<1>7. /\ exposed' \subseteq Buffers \cup {NULL} /\ Buffers \ exposed' = Buffers \ exposed
      /\ NULL \notin Buffers
  BY <1>1, MemarrayAssumption DEF IInv, Shape
<1> HIDE DEF P, done, W, m, D
<1>8. CASE done = D /\ inbox' = inbox \cup {m} /\ lost' = lost
  <2>1. \A k, i, x : HoldsEvent(k, i, x)' <=> HoldsEvent(k, i, x) \/ (k = m /\ i \in D /\ P[i].data = x)
    BY <1>2, <1>4, <1>8 DEF HoldsEvent
  <2>2. \A b, n, val : Content(b, n, val)' <=> Content(b, n, val)
    BY <1>1, <1>8 DEF Content
  <2>3. Shape' /\ LostKept'
    BY <1>1, <1>3, <1>4, <1>7, <1>8 DEF IInv, Shape, LostKept
  <2>4. ArraysGood'
    <3> SUFFICES ASSUME NEW c \in Arrays, NEW x \in Buffers \ exposed, HoldsArray(c, x)'
                 PROVE  Content(x, array[c].length, array[c].val)'
      BY <1>7 DEF ArraysGood
    <3>1. array'[c] = array[c] /\ HoldsArray(c, x)
      BY <1>3
    <3>2. Content(x, array[c].length, array[c].val)
      BY <3>1 DEF IInv, ArraysGood
    <3> QED BY <1>1, <1>8, <3>1, <3>2 DEF Content
  <2>5. EventsGood'
    <3> SUFFICES ASSUME NEW x \in Buffers \ exposed, NEW k, NEW i, HoldsEvent(k, i, x)'
                 PROVE  Content(x, k.parts[i].length, k.parts[i].val)'
      BY <1>7 DEF EventsGood
    <3>1. CASE HoldsEvent(k, i, x)
      BY <2>2, <3>1 DEF IInv, EventsGood
    <3>2. CASE k = m /\ i \in D /\ P[i].data = x
      <4>1. Content(x, array[args[i]].length, array[args[i]].val)
        BY <1>2, <1>6, <3>2 DEF IInv, ArraysGood
      <4> QED BY <1>2, <1>4, <2>2, <3>2, <4>1
    <3> QED BY <2>1, <3>1, <3>2
  <2>6. Unique'
    <3> SUFFICES ASSUME NEW x \in Buffers \ exposed
                 PROVE  /\ \A c, d \in Arrays : HoldsArray(c, x)' /\ HoldsArray(d, x)' => c = d
                        /\ \A c \in Arrays : \A k, i : ~(HoldsArray(c, x)' /\ HoldsEvent(k, i, x)')
                        /\ \A k, l, i, j : HoldsEvent(k, i, x)' /\ HoldsEvent(l, j, x)' => k = l /\ i = j
      BY <1>7 DEF Unique
    <3>1. \A i \in D : P[i].data = x => HoldsArray(args[i], x) /\ args[i] \in W /\ args[i] \in Arrays
      BY <1>2, <1>5, <1>6, <1>8
    <3>2. /\ \A c, d \in Arrays : HoldsArray(c, x) /\ HoldsArray(d, x) => c = d
          /\ \A c \in Arrays : \A k, i : ~(HoldsArray(c, x) /\ HoldsEvent(k, i, x))
          /\ \A k, l, i, j : HoldsEvent(k, i, x) /\ HoldsEvent(l, j, x) => k = l /\ i = j
      BY DEF IInv, Unique
    <3>3. \A c, d \in Arrays : HoldsArray(c, x)' /\ HoldsArray(d, x)' => c = d
      BY <1>3, <3>2
    <3>4. \A c \in Arrays : \A k, i : ~(HoldsArray(c, x)' /\ HoldsEvent(k, i, x)')
      BY <1>3, <2>1, <3>1, <3>2
    <3>5. \A k, l, i, j : HoldsEvent(k, i, x)' /\ HoldsEvent(l, j, x)' => k = l /\ i = j
      BY <1>2, <2>1, <3>1, <3>2
    <3> QED BY <3>3, <3>4, <3>5
  <2>7. Kept'
    <3> SUFFICES ASSUME NEW x \in Buffers \ exposed, heap'[x] # NULL, x \notin lost'
                 PROVE  (\E c \in Arrays : HoldsArray(c, x)') \/ (\E k, i : HoldsEvent(k, i, x)')
      BY <1>7 DEF Kept
    <3>1. (\E c \in Arrays : HoldsArray(c, x)) \/ (\E k, i : HoldsEvent(k, i, x))
      BY <1>1, <1>8 DEF IInv, Kept
    <3>2. CASE \E k, i : HoldsEvent(k, i, x)
      BY <2>1, <3>2
    <3>3. CASE \E c \in Arrays : HoldsArray(c, x)
      <4>1. PICK c \in Arrays : HoldsArray(c, x)
        BY <3>3
      <4>2. CASE c \in W
        <5>1. PICK i \in D : P[i].data = x
          BY <1>2, <1>8, <4>1, <4>2
        <5>2. PICK k : k = m
          OBVIOUS
        <5>3. HoldsEvent(k, i, x)'
          BY <2>1, <5>1, <5>2
        <5> QED BY <5>3
      <4>3. CASE c \notin W
        BY <1>3, <4>1, <4>3
      <4> QED BY <4>2, <4>3
    <3> QED BY <3>1, <3>2, <3>3
  <2>8. CopiesGood'
    BY <1>4, <1>8 DEF IInv, CopiesGood
  <2> QED BY <1>3, <2>3, <2>4, <2>5, <2>6, <2>7, <2>8 DEF IInv
<1>9. CASE inbox' = inbox /\ lost' = lost \cup ({P[i].data : i \in done} \ (exposed \cup {NULL}))
  <2>1. \A k, i, x : HoldsEvent(k, i, x)' <=> HoldsEvent(k, i, x)
    BY <1>9 DEF HoldsEvent
  <2>2. ASSUME NEW x \in lost' \ lost
        PROVE  x \in Buffers \ exposed /\ \E c \in Arrays \cap W : HoldsArray(c, x)
    <3>1. PICK i \in done : P[i].data = x /\ x \notin exposed /\ x # NULL
      BY <1>9
    <3>2. x \in Buffers /\ i \in D
      BY <1>2, <1>6, <3>1
    <3> QED BY <1>2, <1>5, <1>6, <3>1, <3>2
  <2>3. ASSUME NEW x \in Buffers \ exposed, NEW n, NEW val, Content(x, n, val),
               (\E c \in Arrays \ W : HoldsArray(c, x)) \/ (\E k, i : HoldsEvent(k, i, x))
        PROVE  Content(x, n, val)'
    <3>1. x \notin lost'
      BY <2>2, <2>3 DEF IInv, Unique, Content
    <3> QED BY <1>1, <2>3, <3>1 DEF Content
  <2>4. Shape'
    BY <1>1, <1>3, <1>7, <1>9, <2>2 DEF IInv, Shape
  <2>5. LostKept'
    <3>1. ASSUME NEW x \in lost' \ lost PROVE heap[x] # NULL /\ x \notin exposed'
      BY <1>7, <2>2, <3>1 DEF IInv, ArraysGood, Content
    <3>2. \A x \in lost : x \notin exposed' /\ heap[x] # NULL
      BY <1>7 DEF IInv, LostKept, Shape
    <3> QED BY <1>1, <3>1, <3>2 DEF LostKept
  <2>6. ArraysGood'
    <3> SUFFICES ASSUME NEW c \in Arrays, NEW x \in Buffers \ exposed, HoldsArray(c, x)'
                 PROVE  Content(x, array[c].length, array[c].val)'
      BY <1>7 DEF ArraysGood
    <3>1. array'[c] = array[c] /\ HoldsArray(c, x) /\ c \notin W
      BY <1>3
    <3>2. PICK n, val : n = array[c].length /\ val = array[c].val /\ Content(x, n, val)
      BY <3>1 DEF IInv, ArraysGood
    <3>3. Content(x, n, val)'
      BY <2>3, <3>1, <3>2
    <3> QED BY <3>1, <3>2, <3>3 DEF Content
  <2>7. EventsGood'
    <3> SUFFICES ASSUME NEW x \in Buffers \ exposed, NEW k, NEW i, HoldsEvent(k, i, x)'
                 PROVE  Content(x, k.parts[i].length, k.parts[i].val)'
      BY <1>7 DEF EventsGood
    <3>1. HoldsEvent(k, i, x) /\ Content(x, k.parts[i].length, k.parts[i].val)
      BY <2>1 DEF IInv, EventsGood
    <3> QED BY <2>3, <3>1
  <2>8. Unique'
    BY <1>3, <1>7, <2>1 DEF IInv, Unique
  <2>9. Kept'
    <3> SUFFICES ASSUME NEW x \in Buffers \ exposed, heap'[x] # NULL, x \notin lost'
                 PROVE  (\E c \in Arrays : HoldsArray(c, x)') \/ (\E k, i : HoldsEvent(k, i, x)')
      BY <1>7 DEF Kept
    <3>1. (\E c \in Arrays : HoldsArray(c, x)) \/ (\E k, i : HoldsEvent(k, i, x))
      BY <1>1, <1>9 DEF IInv, Kept
    <3>2. ASSUME NEW c \in Arrays, HoldsArray(c, x) PROVE c \notin W
      BY <1>2, <1>7, <1>9, <3>2
    <3> QED BY <1>3, <2>1, <3>1, <3>2
  <2>10. CopiesGood'
    BY <1>9 DEF IInv, CopiesGood
  <2> QED BY <1>3, <2>4, <2>5, <2>6, <2>7, <2>8, <2>9, <2>10 DEF IInv
<1> QED BY <1>1, <1>8, <1>9

(* The receiver becomes the owner of every buffer of the event.            *)
LEMMA StepReceive ==
    ASSUME IInv, NEW st \in States, NEW m \in inbox, NEW n \in Nat, NEW slot \in [1..n -> Arrays],
           Receive(st, m, slot)
    PROVE  IInv'
<1>1. /\ m.kind = "wrap" /\ m \in WrapMessage /\ DOMAIN m.parts = 1..n
      /\ inbox' = inbox \ {m} /\ UNCHANGED <<heap, exposed, lost>>
      /\ \A i, j \in 1..n : array[slot[i]] = NULL /\ (i # j => slot[i] # slot[j])
  BY DEF Receive, IInv, Shape, CopyMessage
<1>2. \A i \in 1..n : m.parts[i] \in PartRecord
  <2>1. m.parts \in Seq(PartRecord)
    BY <1>1 DEF WrapMessage
  <2> QED BY <1>1, <2>1
<1>3. ASSUME NEW i \in 1..n
      PROVE  /\ array'[slot[i]] \in ArrayRecord /\ array'[slot[i]] # NULL /\ array'[slot[i]].own
             /\ array'[slot[i]].data = m.parts[i].data /\ array'[slot[i]].length = m.parts[i].length
             /\ array'[slot[i]].val = m.parts[i].val
  <2>1. \A j \in 1..n : slot[j] = slot[i] => j = i
    BY <1>1
  <2>2. (CHOOSE j \in 1..n : slot[j] = slot[i]) = i
    BY <2>1
  <2>3. array'[slot[i]] = Made(st, TRUE, m.parts[i].data, m.parts[i].length, m.parts[i].val)
    BY <2>2 DEF Receive, FromPtr
  <2>4. m.parts[i].data \in Buffers \cup {NULL} /\ m.parts[i].length \in Lengths /\ m.parts[i].val \in Seq(Byte)
    BY <1>2 DEF PartRecord
  <2>5. array'[slot[i]] \in ArrayRecord
    BY <2>3, <2>4 DEF ArrayRecord, Made
  <2>6. /\ array'[slot[i]].own /\ array'[slot[i]].data = m.parts[i].data
        /\ array'[slot[i]].length = m.parts[i].length /\ array'[slot[i]].val = m.parts[i].val
    BY <2>3 DEF Made
  <2> QED BY <2>5, <2>6, NullAssumption
<1>4. \A a \in Arrays : (\A i \in 1..n : slot[i] # a) => array'[a] = array[a]
  BY DEF Receive
<1>5. array' \in [Arrays -> ArrayRecord \cup {NULL}]
  <2>1. \A a \in Arrays : array'[a] \in ArrayRecord \cup {NULL}
    BY <1>3, <1>4 DEF IInv, Shape
  <2>2. array' = [a \in Arrays |-> array'[a]]
    BY DEF Receive
  <2> QED BY <2>1, <2>2
<1>6. ASSUME NEW a \in Arrays, NEW x
      PROVE  HoldsArray(a, x)' <=> HoldsArray(a, x) \/ \E i \in 1..n : slot[i] = a /\ m.parts[i].data = x
  <2>1. CASE \E i \in 1..n : slot[i] = a
    <3>1. PICK i \in 1..n : slot[i] = a
      BY <2>1
    <3>2. \A j \in 1..n : slot[j] = a => j = i
      BY <1>1, <3>1
    <3> QED BY <1>1, <1>3, <3>1, <3>2 DEF HoldsArray
  <2>2. CASE \A i \in 1..n : slot[i] # a
    BY <1>4, <2>2 DEF HoldsArray
  <2> QED BY <2>1, <2>2
<1>7. \A k, i, x : HoldsEvent(k, i, x)' <=> k # m /\ HoldsEvent(k, i, x)
  BY <1>1 DEF HoldsEvent
<1>8. \A i, x : HoldsEvent(m, i, x) <=> i \in 1..n /\ m.parts[i].data = x
  BY <1>1 DEF HoldsEvent
<1>9. \A b, k, val : Content(b, k, val)' <=> Content(b, k, val)
  BY <1>1 DEF Content
<1>10. Shape' /\ LostKept' /\ CopiesGood'
  BY <1>1, <1>5 DEF IInv, Shape, LostKept, CopiesGood
<1>11. Views'
  <2> SUFFICES ASSUME NEW a \in Arrays, array'[a] # NULL, ~array'[a].own
               PROVE  array'[a].data \in exposed \/ Emptied(array'[a])
    BY <1>1 DEF Views
  <2>1. array'[a] = array[a]
    BY <1>3, <1>4
  <2> QED BY <2>1 DEF IInv, Views
<1>12. ArraysGood'
  <2> SUFFICES ASSUME NEW c \in Arrays, NEW x \in Buffers \ exposed, HoldsArray(c, x)'
               PROVE  Content(x, array[c].length, array[c].val)'
    BY <1>1 DEF ArraysGood
  <2>1. CASE HoldsArray(c, x)
    <3>1. array'[c] = array[c]
      BY <1>1, <1>4, <2>1 DEF HoldsArray
    <3>2. Content(x, array[c].length, array[c].val)
      BY <2>1 DEF IInv, ArraysGood
    <3> QED BY <1>1, <3>1, <3>2 DEF Content
  <2>2. CASE \E i \in 1..n : slot[i] = c /\ m.parts[i].data = x
    <3>1. PICK i \in 1..n : slot[i] = c /\ m.parts[i].data = x
      BY <2>2
    <3>2. Content(x, m.parts[i].length, m.parts[i].val)
      BY <1>8, <3>1 DEF IInv, EventsGood
    <3> QED BY <1>1, <1>3, <3>1, <3>2 DEF Content
  <2> QED BY <1>6, <2>1, <2>2
<1>13. EventsGood'
  <2> SUFFICES ASSUME NEW x \in Buffers \ exposed, NEW k, NEW i, HoldsEvent(k, i, x)'
               PROVE  Content(x, k.parts[i].length, k.parts[i].val)'
    BY <1>1 DEF EventsGood
  <2>1. Content(x, k.parts[i].length, k.parts[i].val)
    BY <1>7 DEF IInv, EventsGood
  <2> QED BY <1>9, <2>1
<1>14. Unique'
  <2> SUFFICES ASSUME NEW x \in Buffers \ exposed
               PROVE  /\ \A c, d \in Arrays : HoldsArray(c, x)' /\ HoldsArray(d, x)' => c = d
                      /\ \A c \in Arrays : \A k, i : ~(HoldsArray(c, x)' /\ HoldsEvent(k, i, x)')
                      /\ \A k, l, i, j : HoldsEvent(k, i, x)' /\ HoldsEvent(l, j, x)' => k = l /\ i = j
    BY <1>1 DEF Unique
  <2>1. /\ \A c, d \in Arrays : HoldsArray(c, x) /\ HoldsArray(d, x) => c = d
        /\ \A c \in Arrays : \A k, i : ~(HoldsArray(c, x) /\ HoldsEvent(k, i, x))
        /\ \A k, l, i, j : HoldsEvent(k, i, x) /\ HoldsEvent(l, j, x) => k = l /\ i = j
    BY DEF IInv, Unique
  <2>2. ASSUME NEW c \in Arrays, HoldsArray(c, x)'
        PROVE  HoldsArray(c, x) \/ \E i \in 1..n : slot[i] = c /\ HoldsEvent(m, i, x)
    BY <1>6, <1>8, <2>2
  <2>3. \A c, d \in Arrays : HoldsArray(c, x)' /\ HoldsArray(d, x)' => c = d
    BY <2>1, <2>2
  <2>4. \A c \in Arrays : \A k, i : ~(HoldsArray(c, x)' /\ HoldsEvent(k, i, x)')
    BY <1>7, <2>1, <2>2
  <2>5. \A k, l, i, j : HoldsEvent(k, i, x)' /\ HoldsEvent(l, j, x)' => k = l /\ i = j
    BY <1>7, <2>1
  <2> QED BY <2>3, <2>4, <2>5
<1>15. Kept'
  <2> SUFFICES ASSUME NEW x \in Buffers \ exposed, heap[x] # NULL, x \notin lost
               PROVE  (\E c \in Arrays : HoldsArray(c, x)') \/ (\E k, i : HoldsEvent(k, i, x)')
    BY <1>1 DEF Kept
  <2>1. (\E c \in Arrays : HoldsArray(c, x)) \/ (\E k, i : HoldsEvent(k, i, x))
    BY DEF IInv, Kept
  <2>2. ASSUME NEW i, HoldsEvent(m, i, x) PROVE \E c \in Arrays : HoldsArray(c, x)'
    BY <1>6, <1>8, <2>2
  <2> QED BY <1>6, <1>7, <2>1, <2>2
<1> QED BY <1>10, <1>11, <1>12, <1>13, <1>14, <1>15 DEF IInv

(* The buffers of an event that is destroyed are lost.                     *)
LEMMA StepDrop ==
    ASSUME IInv, NEW m \in inbox, Drop(m)
    PROVE  IInv'
<1>1. inbox' = inbox \ {m} /\ UNCHANGED <<array, heap, exposed>>
  BY DEF Drop
<1>2. \A a, x : HoldsArray(a, x)' <=> HoldsArray(a, x)
  BY <1>1 DEF HoldsArray
<1>3. \A k, i, x : HoldsEvent(k, i, x)' <=> k # m /\ HoldsEvent(k, i, x)
  BY <1>1 DEF HoldsEvent
<1>4. ASSUME NEW x PROVE x \in lost' <=> x \in lost \/ (x \in Buffers \ exposed /\ \E i : HoldsEvent(m, i, x))
  <2>1. CASE m.kind = "wrap"
    <3>1. lost' = lost \cup ({m.parts[i].data : i \in DOMAIN m.parts} \ (exposed \cup {NULL}))
      BY <2>1 DEF Drop
    <3>2. m.parts \in Seq(PartRecord)
      BY <2>1 DEF IInv, Shape, WrapMessage, CopyMessage
    <3>3. \A i \in DOMAIN m.parts : m.parts[i].data \in Buffers \cup {NULL}
      <4>1. \A i \in DOMAIN m.parts : m.parts[i] \in PartRecord
        BY <3>2
      <4> QED BY <4>1 DEF PartRecord
    <3> QED BY <2>1, <3>1, <3>3, MemarrayAssumption DEF HoldsEvent
  <2>2. CASE m.kind # "wrap"
    BY <2>2 DEF Drop, HoldsEvent
  <2> QED BY <2>1, <2>2
<1>5. ASSUME NEW x \in Buffers \ exposed, NEW n, NEW val, Content(x, n, val),
             (\E c \in Arrays : HoldsArray(c, x)) \/ (\E k, i : k # m /\ HoldsEvent(k, i, x))
      PROVE  Content(x, n, val)'
  <2>1. x \notin lost'
    BY <1>4, <1>5 DEF IInv, Unique, Content
  <2> QED BY <1>1, <1>5, <2>1 DEF Content
<1>6. Shape'
  <2>1. lost' \subseteq Buffers
    BY <1>4 DEF IInv, Shape
  <2> QED BY <1>1, <2>1 DEF IInv, Shape
<1>7. LostKept'
  <2>1. ASSUME NEW x \in lost' PROVE x \notin exposed /\ heap[x] # NULL
    BY <1>4 DEF IInv, LostKept, EventsGood, Content
  <2> QED BY <1>1, <2>1 DEF LostKept
<1>8. Views' /\ CopiesGood'
  BY <1>1 DEF IInv, Views, CopiesGood
<1>9. ArraysGood'
  <2> SUFFICES ASSUME NEW c \in Arrays, NEW x \in Buffers \ exposed, HoldsArray(c, x)'
               PROVE  Content(x, array[c].length, array[c].val)'
    BY <1>1 DEF ArraysGood
  <2>1. PICK n, val : n = array[c].length /\ val = array[c].val
    OBVIOUS
  <2>2. HoldsArray(c, x) /\ Content(x, n, val)
    BY <1>2, <2>1 DEF IInv, ArraysGood
  <2>3. Content(x, n, val)'
    BY <1>5, <2>2
  <2> QED BY <1>1, <2>1, <2>3
<1>10. EventsGood'
  <2> SUFFICES ASSUME NEW x \in Buffers \ exposed, NEW k, NEW i, HoldsEvent(k, i, x)'
               PROVE  Content(x, k.parts[i].length, k.parts[i].val)'
    BY <1>1 DEF EventsGood
  <2>1. HoldsEvent(k, i, x) /\ k # m /\ Content(x, k.parts[i].length, k.parts[i].val)
    BY <1>3 DEF IInv, EventsGood
  <2> QED BY <1>5, <2>1
<1>11. Unique'
  BY <1>1, <1>2, <1>3 DEF IInv, Unique
<1>12. Kept'
  <2> SUFFICES ASSUME NEW x \in Buffers \ exposed, heap[x] # NULL, x \notin lost'
               PROVE  (\E c \in Arrays : HoldsArray(c, x)') \/ (\E k, i : HoldsEvent(k, i, x)')
    BY <1>1 DEF Kept
  <2>1. x \notin lost /\ \A i : ~HoldsEvent(m, i, x)
    BY <1>4
  <2>2. (\E c \in Arrays : HoldsArray(c, x)) \/ (\E k, i : HoldsEvent(k, i, x))
    BY <2>1 DEF IInv, Kept
  <2> QED BY <1>2, <1>3, <2>1, <2>2
<1> QED BY <1>6, <1>7, <1>8, <1>9, <1>10, <1>11, <1>12 DEF IInv

-----------------------------------------------------------------------------
(* Where undefined behaviour can be met: an array that frees twice, or     *)
(* reads or writes what it may not, does it at an exposed address.         *)
LEMMA FreedTwice ==
    ASSUME IInv, NEW a \in Arrays, array[a] # NULL, FreesTwice(a)
    PROVE  array[a].data \in exposed
<1>1. array[a].data \in Buffers /\ HoldsArray(a, array[a].data) /\ heap[array[a].data] = NULL
  BY DEF FreesTwice, HoldsArray, IInv, Shape, ArrayRecord
<1> QED BY <1>1 DEF IInv, ArraysGood, Content

(* An array that cannot use k of its bytes has an exposed address.         *)
LEMMA Unusable ==
    ASSUME IInv, NEW a \in Arrays, MemarrayGet(a), NEW k \in Nat,
           array[a].length = 0 => k = 0, ~Usable(array[a].data, k),
           ~Overflows(array[a].length) => k <= Size(array[a].length)
    PROVE  array[a].data \in exposed
<1>1. array[a] # NULL /\ k # 0
  BY DEF MemarrayGet, Usable
<1>2. array[a].data \in Buffers \cup {NULL} /\ array[a].length \in Lengths
  BY <1>1 DEF IInv, Shape, ArrayRecord
<1>3. CASE ~array[a].own
  BY <1>1, <1>3 DEF IInv, Views, Emptied
<1>4. CASE array[a].own
  <2> SUFFICES ASSUME array[a].data \notin exposed PROVE FALSE
    OBVIOUS
  <2>1. array[a].data \in Buffers /\ array[a].data # NULL /\ HoldsArray(a, array[a].data)
    BY <1>1, <1>2, <1>4 DEF HoldsArray, MemarrayGet
  <2>2. Content(array[a].data, array[a].length, array[a].val)
    BY <2>1 DEF IInv, ArraysGood
  <2>3. Size(array[a].length) \in Nat
    BY <1>2, SizeOfLength
  <2> QED BY <2>1, <2>2, <2>3 DEF Content, Usable
<1> QED BY <1>3, <1>4

(* The same for all of its bytes.                                          *)
LEMMA UnreadableWhole ==
    ASSUME IInv, NEW a \in Arrays, MemarrayGet(a), ~Usable(array[a].data, Size(array[a].length))
    PROVE  array[a].data \in exposed
<1>1. array[a].length \in Nat
  BY MemarrayAssumption DEF MemarrayGet, IInv, Shape, ArrayRecord, Lengths
<1>2. PICK k \in Nat : k = Size(array[a].length)
  BY <1>1, SizeFacts
<1>3. array[a].length = 0 => k = 0
  BY <1>1, <1>2, SizeFacts
<1> QED BY <1>2, <1>3, Unusable

(* The same for an item within its length.                                 *)
LEMMA IndexOutside ==
    ASSUME IInv, NEW a \in Arrays, NEW i \in 1..MaxLength, IndexFault(a, i)
    PROVE  array[a].data \in exposed
<1>1. array[a].length \in Nat /\ i \in Nat \ {0} /\ i <= array[a].length /\ MemarrayGet(a)
  BY MemarrayAssumption DEF IndexFault, MemarrayGet, IInv, Shape, ArrayRecord, Lengths
<1>2. i * ItemSize \in Nat /\ i * ItemSize <= array[a].length * ItemSize /\ array[a].length # 0
  <2>1. CASE ItemSize = 1 BY <1>1, <2>1
  <2>2. CASE ItemSize = 2 BY <1>1, <2>2
  <2>3. CASE ItemSize = 4 BY <1>1, <2>3
  <2>4. CASE ItemSize = 8 BY <1>1, <2>4
  <2> QED BY <2>1, <2>2, <2>3, <2>4, MemarrayAssumption
<1>3. ~Overflows(array[a].length) => i * ItemSize <= Size(array[a].length)
  BY <1>1, <1>2, SizeFacts
<1>4. ~Usable(array[a].data, i * ItemSize)
  BY DEF IndexFault
<1> QED BY <1>1, <1>2, <1>3, <1>4, Unusable

(* A step meets nothing undefined, or does so at an exposed address.       *)
Met == exposed' = exposed /\ fault'.at \in exposed \cup {"length"}

(* Undefined behaviour at an exposed address is an exception.              *)
LEMMA MetAt ==
    ASSUME NEW b \in exposed, Undefined(b)
    PROVE  Met
<1>1. fault'.at = b
  BY DEF Undefined
<1> QED BY <1>1 DEF Met, Undefined

(* Every step keeps the invariant.                                         *)
LEMMA ArrayStepIInv ==
    ASSUME IInv, fault = NULL, NEW a \in Arrays, ArrayStep(a)
    PROVE  IInv' /\ (fault' = NULL \/ Met)
<1>1. ASSUME NEW st \in States, NEW n \in Lengths, Call(st, a, n)
      PROVE  IInv' /\ fault' = NULL
  BY <1>1, StepCall DEF Call
<1>2. ASSUME NEW n \in Lengths, Realloc(a, n)
      PROVE  IInv' /\ (fault' = NULL \/ Met)
  <2>1. CASE FreesTwice(a)
    BY <1>2, <2>1, StepRealloc, FreedTwice, MetAt DEF Realloc, MemarrayGet
  <2>2. CASE ~FreesTwice(a)
    BY <1>2, <2>2, StepRealloc DEF Realloc
  <2> QED BY <2>1, <2>2
<1>3. ASSUME NEW n \in Lengths, ReallocFails(a, n)
      PROVE  IInv' /\ fault' = NULL
  BY <1>3, StepReallocFails DEF ReallocFails
<1>4. ASSUME NEW b \in Arrays, NEW n \in Lengths, Inherit(a, b, n)
      PROVE  IInv' /\ (fault' = NULL \/ Met)
  <2>1. CASE FreesTwice(a)
    BY <1>4, <2>1, StepInherit, FreedTwice, MetAt DEF Inherit, MemarrayGet
  <2>2. CASE ~FreesTwice(a)
    BY <1>4, <2>2, StepInherit DEF Inherit
  <2> QED BY <2>1, <2>2
<1>5. ASSUME NEW i \in 1..MaxLength, IndexFault(a, i)
      PROVE  IInv' /\ Met
  BY <1>5, IndexOutside, StepUndefined, MetAt DEF IndexFault
<1>6. ASSUME NEW i \in 1..MaxLength, NEW item \in Items, NewIndex(a, i, item)
      PROVE  IInv' /\ fault' = NULL
  BY <1>6, StepNewIndex DEF NewIndex
<1>7. ASSUME Collect(a)
      PROVE  IInv' /\ (fault' = NULL \/ Met)
  <2>1. CASE FreesTwice(a)
    BY <1>7, <2>1, StepCollect, FreedTwice, MetAt DEF Collect
  <2>2. CASE ~FreesTwice(a)
    BY <1>7, <2>2, StepCollect DEF Collect
  <2> QED BY <2>1, <2>2
<1>8. ASSUME NEW args \in Seq(Arrays), Emit(args)
      PROVE  IInv' /\ fault' = NULL
  BY <1>8, StepEmit DEF Emit
<1>9. ASSUME Persist(a)
      PROVE  IInv' /\ (fault' = NULL \/ Met)
  <2>1. CASE Usable(array[a].data, Size(array[a].length))
    BY <1>9, <2>1, StepPersist DEF Persist, Write
  <2>2. CASE ~Usable(array[a].data, Size(array[a].length))
    BY <1>9, <2>2, StepPersist, UnreadableWhole, MetAt DEF Persist
  <2> QED BY <2>1, <2>2
<1>10. ASSUME ToNetstr(a)
       PROVE  IInv' /\ (fault' = NULL \/ Met)
  <2>1. CASE Usable(array[a].data, Size(array[a].length))
    BY <1>10, <2>1, StepToNetstr DEF ToNetstr, Write
  <2>2. CASE ~Usable(array[a].data, Size(array[a].length))
    BY <1>10, <2>2, StepToNetstr, UnreadableWhole, MetAt DEF ToNetstr
  <2> QED BY <2>1, <2>2
<1>11. ASSUME DividesByZero(a)
       PROVE  IInv' /\ Met
  <2>1. fault'.at = "length" /\ UNCHANGED <<array, heap, inbox, exposed, lost>>
    BY <1>11 DEF DividesByZero
  <2> QED BY <2>1, StepNothing DEF Met
<1>12. ASSUME NEW b \in Arrays, Clone(a, b)
       PROVE  IInv' /\ (fault' = NULL \/ Met)
  <2>1. CASE Usable(array[a].data, Size(array[a].length))
    BY <1>12, <2>1, StepClone DEF Clone
  <2>2. CASE ~Usable(array[a].data, Size(array[a].length))
    BY <1>12, <2>2, StepClone, UnreadableWhole, MetAt DEF Clone
  <2> QED BY <2>1, <2>2
<1>13. <<a>> \in Seq(Arrays) /\ \A b \in Arrays : <<a, b>> \in Seq(Arrays)
  OBVIOUS
<1> QED BY <1>1, <1>2, <1>3, <1>4, <1>5, <1>6, <1>7, <1>8, <1>9, <1>10, <1>11, <1>12, <1>13 DEF ArrayStep

(* The same for the steps of an event.                                     *)
LEMMA MessageStepIInv ==
    ASSUME IInv, fault = NULL, NEW m \in inbox, MessageStep(m)
    PROVE  IInv' /\ (fault' = NULL \/ Met)
<1>1. ASSUME Drop(m)
      PROVE  IInv' /\ fault' = NULL
  BY <1>1, StepDrop DEF Drop
<1>2. ASSUME NEW st \in States, NEW n \in 1..2, NEW slot \in [1..n -> Arrays], Receive(st, m, slot)
      PROVE  IInv' /\ fault' = NULL
  <2>1. n \in Nat
    OBVIOUS
  <2> QED BY <1>2, <2>1, StepReceive DEF Receive
<1>3. ASSUME NEW st \in States, NEW a \in Arrays, Restore(st, m, a)
      PROVE  IInv' /\ fault' = NULL
  BY <1>3, StepRestore DEF Restore
<1>4. ASSUME NEW a \in Arrays, FromNetstr(a, m)
      PROVE  IInv' /\ (fault' = NULL \/ Met)
  <2>1. Size(array[a].length) = Len(m.bytes) /\ MemarrayGet(a)
    BY <1>4 DEF FromNetstr
  <2>2. CASE Usable(array[a].data, Len(m.bytes))
    BY <1>4, <2>2, StepFromNetstr DEF FromNetstr
  <2>3. CASE ~Usable(array[a].data, Len(m.bytes))
    <3>1. array[a].data \in exposed
      BY <2>1, <2>3, UnreadableWhole
    <3> QED BY <1>4, <2>3, <3>1, StepFromNetstr, MetAt DEF FromNetstr
  <2> QED BY <2>2, <2>3
<1> QED BY <1>1, <1>2, <1>3, <1>4 DEF MessageStep

(* The same for every step.                                                *)
LEMMA NextIInv ==
    ASSUME IInv, Next
    PROVE  IInv' /\ (fault' = NULL \/ Met)
BY ArrayStepIInv, MessageStepIInv DEF Next

(* The invariant holds in every state the arrays and events reach.         *)
THEOREM Invariance == Spec => [](IInv /\ NoFault)
<1>1. Init => IInv /\ NoFault
  BY InitIInv DEF Init, NoFault
<1>2. IInv /\ NoFault /\ [Next]_vars => IInv' /\ NoFault'
  <2> SUFFICES ASSUME IInv, NoFault, [Next]_vars PROVE IInv' /\ NoFault'
    OBVIOUS
  <2>1. CASE Next
    BY <2>1, NextIInv DEF NoFault, Met
  <2>2. CASE UNCHANGED vars
    <3>1. IInv'
      BY <2>2, StepNothing DEF vars
    <3> QED BY <2>2, <3>1 DEF vars, NoFault
  <2> QED BY <2>1, <2>2
<1> QED BY <1>1, <1>2, PTL DEF Spec

(* No access through an array is undefined, whatever the program does with *)
(* its arrays and in whatever order their events are delivered, refused or *)
(* destroyed: only memory of which realloc made a view, sizes that wrap    *)
(* around, and network strings of empty arrays (memarray.c:452) are unsafe.*)
THEOREM NoFaultAlways == Spec => []NoFault
BY Invariance, PTL

(* An array is a private value: __wrap and __persist, whose events may be  *)
(* in flight together, never show a receiver anything but what the sender  *)
(* last wrote, for arrays of any length.                                   *)
THEOREM ValuesPrivateAlways == Spec => []ValuesPrivate
<1>1. IInv => ValuesPrivate
  <2> SUFFICES ASSUME IInv PROVE ValuesPrivate
    OBVIOUS
  <2>1. ASSUME NEW a \in Arrays, array[a] # NULL, array[a].own, array[a].data \notin exposed \cup {NULL}
        PROVE  heap[array[a].data] = array[a].val
    BY <2>1 DEF IInv, Shape, ArrayRecord, ArraysGood, HoldsArray, Content
  <2>2. ASSUME NEW m \in inbox, m.kind = "wrap", NEW i \in DOMAIN m.parts,
               m.parts[i].data \notin exposed \cup {NULL}
        PROVE  heap[m.parts[i].data] = m.parts[i].val
    <3>1. m.parts \in Seq(PartRecord)
      BY <2>2 DEF IInv, Shape, WrapMessage, CopyMessage
    <3>2. m.parts[i] \in PartRecord
      BY <2>2, <3>1
    <3> QED BY <2>2, <3>2 DEF PartRecord, IInv, EventsGood, HoldsEvent, Content
  <2>3. ASSUME NEW m \in inbox
        PROVE  \/ m.kind = "wrap"
               \/ m.kind = "persist" /\ m.bytes = m.val
               \/ m.kind = "net" /\ Swap(m.bytes) = m.val
    BY DEF IInv, Shape, WrapMessage, CopyMessage, CopiesGood
  <2>4. ASSUME NEW m \in inbox
        PROVE  CASE m.kind = "wrap" -> \A i \in DOMAIN m.parts :
                      m.parts[i].data \notin exposed \cup {NULL} => heap[m.parts[i].data] = m.parts[i].val
                 [] m.kind = "persist" -> m.bytes = m.val
                 [] m.kind = "net" -> Swap(m.bytes) = m.val
    BY <2>2, <2>3
  <2> QED BY <2>1, <2>4 DEF ValuesPrivate
<1> QED BY <1>1, Invariance, PTL

(* Every allocated buffer has exactly one owner, and a freed one none: the *)
(* buffer changes hands in to_ptr and from_ptr and is never freed twice,   *)
(* shared or forgotten, except where OneOwner says so.                     *)
THEOREM OneOwnerAlways == Spec => []OneOwner
<1>1. IInv => OneOwner
  <2> SUFFICES ASSUME IInv, NEW b \in Buffers \ exposed
               PROVE  Cardinality(Owners(b)) = IF heap[b] = NULL \/ b \in lost THEN 0 ELSE 1
    BY DEF OneOwner
  <2>1. ASSUME NEW o
        PROVE  o \in Owners(b) <=> \/ o \in Arrays /\ HoldsArray(o, b)
                                   \/ \E m, i : o = <<m, i>> /\ HoldsEvent(m, i, b)
    BY DEF Owners, HoldsArray, HoldsEvent
  <2>2. CASE heap[b] = NULL \/ b \in lost
    <3>1. (\A a \in Arrays : ~HoldsArray(a, b)) /\ (\A m, i : ~HoldsEvent(m, i, b))
      BY <2>2 DEF IInv, ArraysGood, EventsGood, Content
    <3>2. Owners(b) = {}
      BY <2>1, <3>1
    <3> QED BY <2>2, <3>2, FS_EmptySet
  <2>3. CASE heap[b] # NULL /\ b \notin lost
    <3>1. PICK o : o \in Owners(b)
      BY <2>1, <2>3 DEF IInv, Kept
    <3>2. \A p \in Owners(b) : p = o
      BY <2>1, <3>1 DEF IInv, Unique
    <3>3. Owners(b) = {o}
      BY <3>1, <3>2
    <3> QED BY <2>3, <3>3, FS_Singleton
  <2> QED BY <2>2, <2>3
<1> QED BY <1>1, Invariance, PTL

(* A buffer always has the size that the length of its array stands for.   *)
THEOREM TypeCorrect == Spec => []TypeOK
<1>1. IInv => TypeOK
  <2> SUFFICES ASSUME IInv PROVE TypeOK
    OBVIOUS
  <2>1. ASSUME NEW a \in Arrays, array[a] # NULL
        PROVE  array[a].state \in States /\ array[a].data \in Buffers \cup {NULL}
    BY <2>1 DEF IInv, Shape, ArrayRecord
  <2>2. ASSUME NEW a \in Arrays, array[a] # NULL, array[a].own, array[a].data \notin exposed \cup {NULL}
        PROVE  Len(heap[array[a].data]) = Size(array[a].length)
    BY <2>1, <2>2 DEF IInv, ArraysGood, HoldsArray, Content
  <2>3. \A b \in Buffers : heap[b] # NULL => heap[b] \in Seq(Byte)
    BY DEF IInv, Shape
  <2> QED BY <2>1, <2>2, <2>3 DEF TypeOK, IInv, Shape
<1> QED BY <1>1, Invariance, PTL
=============================================================================
