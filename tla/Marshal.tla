------------------------------- MODULE Marshal -------------------------------
(***************************************************************************)
(* The marshalling engine (marshal.h, spec 4.1) and the BSD TAILQ it      *)
(* carries.  Memory is a heap: a function from addresses to objects       *)
(* [type, data, mem], where mem maps the byte offset of each pointer      *)
(* field to an address or 0 (NULL).  Every pointer of the TAILQs here     *)
(* points at offset 0 of its target: tqe_next and tqh_first are the first *)
(* members of lldpd_vlan and struct vlans, so &elm->v_entries.tqe_next is *)
(* elm and &head->tqh_first is head.                                      *)
(*                                                                         *)
(* The schema is built by translations of the MARSHAL_* macros; the       *)
(* serializer and unserializer (marshal.c, not in src/) follow spec 4.1:  *)
(* an identity map from address to first-seen index, a NULL sentinel, a  *)
(* back-reference or an inline body followed by the body's sub-entries.   *)
(***************************************************************************)
EXTENDS Integers, Sequences, FiniteSets, Functions, TLC

\* Struct layouts: the byte offset (in pointer-sized words) of each member.
Layout ==
    [vlans      |-> ("tqh_first" :> 0) @@ ("tqh_last" :> 1),
     lldpd_vlan |-> ("v_entries.tqe_next" :> 0) @@ ("v_entries.tqe_prev" :> 1)]

\* MARSHAL_ADD(_kind, type, subtype, member): a sub-entry at
\* offsetof(struct type, member) whose referent has the schema of subtype.
MarshalAdd(kind, type, subtype, member) ==
    [offset |-> Layout[type][member], kind |-> kind, mi |-> subtype]

\* Mutant of MarshalAddTQE: the entry declares the next pointer only.
MarshalAddTQENextOnly(type, field) ==
    << MarshalAdd("pointer", type, type, field \o ".tqe_next") >>

\* MARSHAL_ADD_TQE(type, field): the element's next and prev pointers.
MarshalAddTQE(type, field) ==
    << MarshalAdd("pointer", type, type, field \o ".tqe_next"),
       MarshalAdd("pointer", type, type, field \o ".tqe_prev") >>

\* MARSHAL_ADD_TQH(type, subtype): the head's first and last pointers, both
\* declared with the element's schema.
MarshalAddTQH(type, subtype) ==
    << MarshalAdd("pointer", type, subtype, "tqh_first"),
       MarshalAdd("pointer", type, subtype, "tqh_last") >>

\* MARSHAL_DECLARE_BEGIN ... MARSHAL_DECLARE_END: the name and the list of
\* sub-entries, whose { .mi = NULL } terminator is the end of the sequence.
MarshalDeclare(type, entries) == [name |-> type, pointers |-> entries]

\* MARSHAL_DECLARE_TQ(type, subtype): a list head and nothing else.
MarshalDeclareTQ(type, subtype) == MarshalDeclare(type, MarshalAddTQH(type, subtype))

\* The schemas of the VLAN list (declared in lldpd.h, outside src/).
Info ==
    [vlans      |-> MarshalDeclareTQ("vlans", "lldpd_vlan"),
     lldpd_vlan |-> MarshalDeclare("lldpd_vlan", MarshalAddTQE("lldpd_vlan", "v_entries"))]

-----------------------------------------------------------------------------
(* The TAILQ macros of sys/queue.h on the heap. *)

\* TAILQ_INIT(head): first = NULL, last = &head->tqh_first.
TailqInit(head) ==
    head :> [type |-> "vlans", data |-> 0, mem |-> (0 :> 0) @@ (1 :> head)]

\* TAILQ_INSERT_TAIL(head, elm, field) of a fresh element elm carrying vid:
\* elm.next = NULL; elm.prev = head.last; *head.last = elm; head.last = elm.
TailqInsertTail(h, head, elm, vid) ==
    LET last == h[head].mem[1]
    IN  (elm :> [type |-> "lldpd_vlan", data |-> vid,
                 mem |-> (0 :> 0) @@ (1 :> last)])
        @@ [h EXCEPT ![last].mem[0] = elm, ![head].mem[1] = elm]

\* The port's VLAN list as lldpd_ifh_vlan builds it: one TAILQ_INSERT_TAIL
\* per VLAN, in the order the interfaces come; the head is at address 1.
RECURSIVE InsertAll(_, _)
InsertAll(h, vids) ==
    IF vids = <<>> THEN h
    ELSE InsertAll(TailqInsertTail(h, 1, 1 + Cardinality(DOMAIN h), Head(vids)),
                   Tail(vids))
PortVlans(vids) == InsertAll(TailqInit(1), vids)

\* The data met by TAILQ_FOREACH from the first element p, following next;
\* bounded by the number of objects, so that a cycle cannot hide.
RECURSIVE Foreach(_, _, _)
Foreach(h, p, n) ==
    IF p = 0 \/ p \notin DOMAIN h \/ n = 0 THEN <<>>
    ELSE <<h[p].data>> \o Foreach(h, h[p].mem[0], n - 1)

-----------------------------------------------------------------------------
(* Serialization (spec 4.1).  st.seen is the identity map: the k-th body  *)
(* emitted is the object at address st.seen[k]; st.out the frames.        *)

RECURSIVE SerPtr(_, _, _, _), SerSubs(_, _, _, _, _, _)
SerPtr(h, p, mi, st) ==
    CASE p = 0 ->
            [st EXCEPT !.out = Append(@, [k |-> "null"])]
      [] p \in Range(st.seen) ->
            [st EXCEPT !.out = Append(@, [k |-> "ref",
                          idx |-> CHOOSE j \in DOMAIN st.seen : st.seen[j] = p])]
      [] OTHER ->
            SerSubs(h, p, 0, mi, 1,
                    [seen |-> Append(st.seen, p),
                     out  |-> Append(st.out, [k |-> "body", data |-> h[p].data,
                                              mem |-> h[p].mem])])

\* The j-th and later sub-entries of schema mi, for the object at p, at
\* offset base within it (base > 0 inside an inline substruct).
SerSubs(h, p, base, mi, j, st) ==
    IF j > Len(Info[mi].pointers) THEN st
    ELSE LET e == Info[mi].pointers[j]
             st1 == IF e.kind = "pointer"
                    THEN SerPtr(h, h[p].mem[base + e.offset], e.mi, st)
                    ELSE SerSubs(h, p, base + e.offset, e.mi, 1, st)
         IN  SerSubs(h, p, base, mi, j + 1, st1)

Serialize(h, root, mi) == SerPtr(h, root, mi, [seen |-> <<>>, out |-> <<>>]).out

-----------------------------------------------------------------------------
(* Unserialization: each body gets fresh storage in the receiver, whose   *)
(* addresses start above ClientBase; rs.addrs maps the index of a body to *)
(* its new address.  A body is copied as sent, and each declared pointer  *)
(* field is then rewritten with the address its frame resolves to.        *)

ClientBase == 100

RECURSIVE UnPtr(_, _, _), UnSubs(_, _, _, _, _, _)
UnPtr(toks, mi, rs) ==
    LET t == toks[rs.pos]
        rs1 == [rs EXCEPT !.pos = @ + 1]
        a == ClientBase + Len(rs.addrs) + 1
    IN  CASE t.k = "null" -> [rs1 EXCEPT !.val = 0]
          [] t.k = "ref"  -> [rs1 EXCEPT !.val = rs.addrs[t.idx]]
          [] OTHER ->
               LET rs2 == [rs1 EXCEPT !.addrs = Append(@, a),
                                      !.heap = (a :> [type |-> mi, data |-> t.data,
                                                      mem |-> t.mem]) @@ @]
               IN  [UnSubs(toks, a, 0, mi, 1, rs2) EXCEPT !.val = a]

UnSubs(toks, a, base, mi, j, rs) ==
    IF j > Len(Info[mi].pointers) THEN rs
    ELSE LET e == Info[mi].pointers[j]
             rs1 == IF e.kind = "pointer"
                    THEN LET r == UnPtr(toks, e.mi, rs)
                         IN  [r EXCEPT !.heap[a].mem[base + e.offset] = r.val]
                    ELSE UnSubs(toks, a, base + e.offset, e.mi, 1, rs)
         IN  UnSubs(toks, a, base, mi, j + 1, rs1)

\* The receiver's heap and the address of the root object.
Unserialize(toks, mi) ==
    LET r == UnPtr(toks, mi, [pos |-> 1, addrs |-> <<>>, heap |-> <<>>, val |-> 0])
    IN  [heap |-> r.heap, root |-> r.val]

-----------------------------------------------------------------------------
(* Structural isomorphism of two pointer graphs (spec 8, properties 1-2). *)

\* The objects of h reachable from r through any pointer field.
Reach(h, r) ==
    LET RECURSIVE Close(_)
        Close(S) ==
            LET N == S \cup (UNION {Range(h[a].mem) : a \in S} \cap DOMAIN h)
            IN  IF N = S THEN S ELSE Close(N)
    IN  IF r \in DOMAIN h THEN Close({r}) ELSE {}

\* A bijection between the reachable objects that maps root to root, keeps
\* type and data, and maps every pointer field to the image of its target:
\* shared targets stay shared, cycles stay cycles, and no field of the copy
\* points outside the copy.
Iso(h1, r1, h2, r2) ==
    LET R1 == Reach(h1, r1)
        R2 == Reach(h2, r2)
    IN  \E f \in Bijection(R1, R2) :
            /\ f[r1] = r2
            /\ \A a \in R1 :
                 /\ h2[f[a]].type = h1[a].type
                 /\ h2[f[a]].data = h1[a].data
                 /\ DOMAIN h2[f[a]].mem = DOMAIN h1[a].mem
                 /\ \A o \in DOMAIN h1[a].mem :
                      \/ h1[a].mem[o] = 0 /\ h2[f[a]].mem[o] = 0
                      \/ h1[a].mem[o] \in R1 /\ h2[f[a]].mem[o] = f[h1[a].mem[o]]

=============================================================================
