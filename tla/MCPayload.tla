------------------------------ MODULE MCPayload ------------------------------
(***************************************************************************)
(* Heaps of four objects: a table that may refer to itself and to the      *)
(* others; an object of every kind; a function, which also serves as the   *)
(* hook of the second; and a table or something that cannot be encoded.    *)
(***************************************************************************)
EXTENDS Payload

a == Datum("a")

Entry(k, v) == <<k, v>>

Roots ==
    LET vals == {a, Obj(1), Obj(2), Obj(4)} IN
    {<<>>} \cup {<<Entry(Number(1), v)>> : v \in vals}
           \cup {<<Entry(k, v), Entry(Number(2), w)>> : k \in {Number(1), Obj(2)}, v \in vals, w \in vals}

Seconds ==
    LET vals == {a, Obj(1), Obj(3), Obj(4)} IN
         {Object("table", <<>>)}
    \cup {Object("table", <<Entry(Number(1), v)>>) : v \in vals}
    \cup {Object("function", <<Entry(Number(n), v)>>) : n \in 1..2, v \in vals}
    \cup {[Object("userdata", <<>>) EXCEPT !.wrap = w, !.persist = p] : w \in {0, 3}, p \in {0, 3}}
    \cup {[Object("table", <<>>) EXCEPT !.persist = 3]}

Thirds == {Object("function", <<Entry(Number(1), v)>>) : v \in {a, Pointer("p"), Obj(1), Obj(4)}}

Fourths ==
    {Object("table", <<>>), Object("table", <<Entry(Number(1), Obj(4))>>),
     Object("table", <<Entry(Number(1), Pointer("p"))>>),
     Object("thread", <<>>), Object("cfunction", <<>>)}

Heaps == {<<Object("table", r), o, f, x>> : r \in Roots, o \in Seconds, f \in Thirds, x \in Fourths}

MCPayloads ==
    {[heap |-> h, args |-> <<Obj(1)>>] : h \in Heaps}
    \cup {[heap |-> h, args |-> vs] :
            h \in {g \in Heaps : g[1].entries = <<>>},
            vs \in {<<>>, <<Obj(2), Obj(2)>>, <<Nil, Obj(2)>>, <<Obj(1), a, Obj(4)>>,
                    <<Pointer("p"), Obj(2)>>}}
=============================================================================
