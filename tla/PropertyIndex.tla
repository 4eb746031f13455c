--------------------------- MODULE PropertyIndex ---------------------------
(***************************************************************************)
(* The property indexes of maharit-core/src/property_index.rs.  A property *)
(* value is a pair <<type, payload>>; a float k stands for k / 2, so that  *)
(* 1.0 and 1 are different values of the same size.                        *)
(*                                                                         *)
(* The definitions say which (label, property) pairs are indexed, but the  *)
(* entries are kept per property alone: pi.exact maps <<property, value>>  *)
(* to nodes, pi.keys is its inverse, pi.ints and pi.floats are the ordered *)
(* entries of the numbers.  The float vector may hold an entry twice; its  *)
(* readers drop duplicates, so it is a set here.                           *)
(***************************************************************************)
EXTENDS Integers, FiniteSets, Functions

Null == <<"null", 0>>
IntV(n) == <<"int", n>>
FloatV(k) == <<"float", k>>
StrV(s) == <<"str", s>>
BoolV(b) == <<"bool", b>>

IsNumber(v) == v[1] \in {"int", "float"}
Doubled(v) == IF v[1] = "int" THEN 2 * v[2] ELSE v[2]

EmptyIndex ==
    [defs |-> {}, exact |-> [k \in {} |-> {}], keys |-> [n \in {} |-> {}],
     ints |-> {}, floats |-> {}]

HasIndex(pi, l, p) == <<l, p>> \in pi.defs
HasAnyIndex(pi) == pi.defs # {}
CreateIndexDef(pi, l, p) == [pi EXCEPT !.defs = @ \cup {<<l, p>>}]

(* Only the definition goes: the entries stay. *)
DropIndexDef(pi, l, p) == [pi EXCEPT !.defs = @ \ {<<l, p>>}]

EntriesAt(f, k) == IF k \in DOMAIN f THEN f[k] ELSE {}
AddEntry(f, k, x) ==
    [i \in DOMAIN f \cup {k} |-> IF i = k THEN EntriesAt(f, k) \cup {x} ELSE f[i]]
(* A key whose set becomes empty is removed. *)
DropEntry(f, k, x) ==
    IF k \notin DOMAIN f THEN f
    ELSE IF f[k] \subseteq {x} THEN Restrict(f, DOMAIN f \ {k})
    ELSE [f EXCEPT ![k] = @ \ {x}]

IndexProperty(pi, n, p, v) ==
    [pi EXCEPT !.exact = AddEntry(@, <<p, v>>, n),
               !.keys = AddEntry(@, n, <<p, v>>),
               !.ints = IF v[1] = "int" THEN @ \cup {<<p, v[2], n>>} ELSE @,
               !.floats = IF v[1] = "float" THEN @ \cup {<<p, v[2], n>>} ELSE @]

UnindexProperty(pi, n, p, v) ==
    [pi EXCEPT !.exact = DropEntry(@, <<p, v>>, n),
               !.keys = IF n \in DOMAIN @ THEN [@ EXCEPT ![n] = @ \ {<<p, v>>}] ELSE @,
               !.ints = IF v[1] = "int" THEN @ \ {<<p, v[2], n>>} ELSE @,
               !.floats = IF v[1] = "float" THEN @ \ {<<p, v[2], n>>} ELSE @]

(* Everything the inverse map knows of the node. *)
RemoveNodeEntries(pi, n) ==
    IF n \notin DOMAIN pi.keys THEN pi
    ELSE LET ks == pi.keys[n] IN
         [pi EXCEPT
            !.exact = [k \in {k \in DOMAIN @ : ~ (k \in ks /\ @[k] \subseteq {n})} |->
                         IF k \in ks THEN @[k] \ {n} ELSE @[k]],
            !.keys = Restrict(@, DOMAIN @ \ {n}),
            !.ints = {e \in @ : ~ (e[3] = n /\ <<e[1], IntV(e[2])>> \in ks)},
            !.floats = {e \in @ : ~ (e[3] = n /\ <<e[1], FloatV(e[2])>> \in ks)}]

FindByProperty(pi, p, v) == EntriesAt(pi.exact, <<p, v>>)

(* Inclusive ranges; the bounds are doubled numbers, and an integer range  *)
(* starts at the floor and ends at the ceiling of its bound.               *)
FindFrom(pi, p, d) ==
    {e[3] : e \in {e \in pi.ints : e[1] = p /\ e[2] >= d \div 2}}
      \cup {e[3] : e \in {e \in pi.floats : e[1] = p /\ e[2] >= d}}
FindUpTo(pi, p, d) ==
    {e[3] : e \in {e \in pi.ints : e[1] = p /\ e[2] <= (d + 1) \div 2}}
      \cup {e[3] : e \in {e \in pi.floats : e[1] = p /\ e[2] <= d}}

=============================================================================
