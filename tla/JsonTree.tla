------------------------------ MODULE JsonTree ------------------------------
(***************************************************************************)
(* The json values of src/cosmic_json.c: trees of heap nodes that the      *)
(* caller builds, takes apart, copies and frees.                           *)
(*                                                                         *)
(* json maps the allocated nodes to their type, scalar value and items; an *)
(* object is the map of MapSpec, a list the list of ListSpec, both as the  *)
(* sequence of their items.  The caller owns the nodes in held: it gives   *)
(* away and frees only those, and never puts a value into itself.  Calls   *)
(* that change a value take any node it can reach; those that only read    *)
(* are no steps, and cosmic_json_equals is the operator Equal.  The        *)
(* strings that strdup makes for keys are counted.                         *)
(***************************************************************************)
EXTENDS Integers, Sequences, FiniteSets, SequencesExt

CONSTANTS
  Node,        (* the addresses malloc can return for a cosmic_json_t      *)
  Key,         (* keys, compared by strcmp                                 *)
  Atom,        (* the values of scalars                                    *)
  Scalar,      (* the scalar types in use                                  *)
  NONE,        (* no key, no value, no node                                *)
  MaxRefused   (* bound: keys refused in a history                         *)

ASSUME JsonTreeAssumption ==
  /\ Scalar \subseteq {"null", "number", "string", "bool"}
  /\ IsFiniteSet(Node) /\ NONE \notin Node \cup Key \cup Atom
  /\ MaxRefused \in Nat

VARIABLES
  json,        (* allocated nodes: type, val, items                        *)
  held,        (* the nodes the caller owns                                *)
  strings,     (* key strings allocated and not freed                      *)
  refused,     (* history: keys that add_kv refused                        *)
  ret          (* the last call and its answer                             *)

vars == <<json, held, strings, refused, ret>>

Container == {"object", "list"}
Item(k, v) == [k |-> k, v |-> v]
Json(t, x, items) == [type |-> t, val |-> x, items |-> items]
Answer(call, ok, out) == [call |-> call, ok |-> ok, out |-> out]

Live == DOMAIN json
Type(n) == json[n].type
Children(tree, n) == {tree[n].items[i].v : i \in DOMAIN tree[n].items}

(* A node and all that is below it, as copy and free walk them.            *)
Below(tree, n) ==
  LET below[m \in DOMAIN tree] == {m} \cup UNION {below[c] : c \in Children(tree, m)}
  IN  below[n]

(* The places for a value in the nodes ns: a node and a position.          *)
Slots(tree, ns) == UNION {{n} \X DOMAIN tree[n].items : n \in ns}

(* The key strings of the objects among ns.                                *)
Strings(tree, ns) == Cardinality(Slots(tree, {n \in ns : tree[n].type = "object"}))

KeysOf(n) == {json[n].items[i].k : i \in DOMAIN json[n].items}
IndexOf(n, k) == CHOOSE i \in DOMAIN json[n].items : json[n].items[i].k = k

(* The scalar values of a type: null has none. *)
Values(t) == IF t = "null" THEN {NONE} ELSE Atom

(* The caller can give v away to j: it owns v, and j is not inside v.      *)
Gives(v, j) == v \in held /\ j \in Live \ Below(json, v)

-----------------------------------------------------------------------------
Init ==
  /\ json = [n \in {} |-> NONE]
  /\ held = {}
  /\ strings = 0
  /\ refused = 0
  /\ ret = Answer(<<"start">>, TRUE, NONE)

(* What a call answers, with its arguments when a property looks back at   *)
(* them; sizes and positions are left to MapSpec and ListSpec.             *)
Done(call, out) == ret' = Answer(call, TRUE, out)

Fail(call) ==
  /\ ret' = Answer(call, FALSE, NONE)
  /\ UNCHANGED <<json, held, strings, refused>>

(* malloc gives any free address.                                          *)
Make(call, j) ==
  \E n \in Node \ Live :
    /\ json' = [m \in Live \cup {n} |-> IF m = n THEN j ELSE json[m]]
    /\ held' = held \cup {n}
    /\ Done(call, n)
    /\ UNCHANGED <<strings, refused>>

NewScalar(t, x) == x \in Values(t) /\ Make(<<"new">>, Json(t, x, <<>>))
NewContainer(t) == Make(<<"new">>, Json(t, NONE, <<>>))

(* The reader answers with an error value. *)
NewError == Make(<<"new">>, Json("error", NONE, <<>>))

(* The nodes ns are freed, with the key strings of the objects among them. *)
Release(tree, ns) == [m \in DOMAIN tree \ ns |-> tree[m]]

Free(n) ==
  /\ n \in held
  /\ json' = Release(json, Below(json, n))
  /\ held' = held \ {n}
  /\ strings' = strings - Strings(json, Below(json, n))
  /\ Done(<<"free">>, NONE)
  /\ UNCHANGED refused

-----------------------------------------------------------------------------
(* The key is copied before the map is asked, and the copy is not freed    *)
(* when the map has the key already (:374).                                *)
Refuse ==
  /\ refused < MaxRefused
  /\ strings' = strings + 1
  /\ refused' = refused + 1
  /\ ret' = Answer(<<"add">>, FALSE, NONE)
  /\ UNCHANGED <<json, held>>

AddKv(j, k, v) ==
  /\ Gives(v, j)
  /\ IF Type(j) # "object" \/ Type(v) = "error" THEN Fail(<<"add">>)
     ELSE IF k \in KeysOf(j) THEN Refuse
     ELSE /\ json' = [json EXCEPT ![j].items = Append(@, Item(k, v))]
          /\ held' = held \ {v}
          /\ strings' = strings + 1
          /\ Done(<<"add">>, NONE)
          /\ UNCHANGED refused

(* add_kv_n, add_kv_s, add_kv_b: the value is made here, and freed again   *)
(* when add_kv refuses it.                                                 *)
AddKvNew(j, k, t, x) ==
  /\ j \in Live /\ t # "null" /\ x \in Values(t)
  /\ Live # Node
  /\ IF Type(j) # "object" THEN Fail(<<"add">>)
     ELSE IF k \in KeysOf(j) THEN Refuse
     ELSE \E n \in Node \ Live :
            /\ json' = [m \in Live \cup {n} |->
                          IF m = n THEN Json(t, x, <<>>)
                          ELSE IF m = j THEN [json[j] EXCEPT !.items = Append(@, Item(k, n))]
                          ELSE json[m]]
            /\ strings' = strings + 1
            /\ Done(<<"add">>, NONE)
            /\ UNCHANGED <<held, refused>>

(* cosmic_json_add is an insert behind the last item. *)
Insert(l, i, v) ==
  /\ Gives(v, l)
  /\ IF Type(l) # "list" \/ Type(v) = "error" \/ i > Len(json[l].items) THEN Fail(<<"add">>)
     ELSE /\ json' = [json EXCEPT ![l].items = InsertAt(@, i + 1, Item(NONE, v))]
          /\ held' = held \ {v}
          /\ Done(<<"add">>, NONE)
          /\ UNCHANGED <<strings, refused>>

Add(l, v) ==
  /\ l \in Live
  /\ Insert(l, Len(json[l].items), v)

(* The nodes that go when v leaves its place, unless the caller keeps it.  *)
Dropped(v, keep) == IF keep THEN {} ELSE Below(json, v)

(* Mutant: the item goes, but what is below its value stays allocated. *)
TakeOutShallow(j, i, keep) ==
  LET v == json[j].items[i].v
      key == IF Type(j) = "object" THEN 1 ELSE 0
  IN  /\ json' = Release([json EXCEPT ![j].items = RemoveAt(@, i)], IF keep THEN {} ELSE {v})
      /\ held' = held \cup IF keep THEN {v} ELSE {}
      /\ strings' = strings - key - Strings(json, Dropped(v, keep))

(* An item leaves its container; its value goes to the caller or is freed. *)
TakeOut(j, i, keep) ==
  LET v == json[j].items[i].v
      key == IF Type(j) = "object" THEN 1 ELSE 0
  IN  /\ json' = Release([json EXCEPT ![j].items = RemoveAt(@, i)], Dropped(v, keep))
      /\ held' = held \cup IF keep THEN {v} ELSE {}
      /\ strings' = strings - key - Strings(json, Dropped(v, keep))

RemoveKey(j, k, keep) ==
  /\ j \in Live
  /\ IF Type(j) # "object" \/ k \notin KeysOf(j) THEN Fail(<<"remove">>)
     ELSE /\ TakeOut(j, IndexOf(j, k), keep)
          /\ Done(<<"remove">>, NONE)
          /\ UNCHANGED refused

RemoveItem(l, i, keep) ==
  /\ l \in Live
  /\ IF Type(l) # "list" \/ i >= Len(json[l].items) THEN Fail(<<"remove">>)
     ELSE /\ TakeOut(l, i + 1, keep)
          /\ Done(<<"remove">>, NONE)
          /\ UNCHANGED refused

(* The value under k makes room for r, which is added at the end.          *)
Swap(call, j, k, r, keep) ==
  LET i == IndexOf(j, k)
      old == json[j].items[i].v
  IN  /\ json' = Release([json EXCEPT ![j].items = Append(RemoveAt(@, i), Item(k, r))],
                         Dropped(old, keep))
      /\ held' = (held \ {r}) \cup IF keep THEN {old} ELSE {}
      /\ strings' = strings - Strings(json, Dropped(old, keep))
      /\ Done(call, IF keep THEN old ELSE NONE)
      /\ UNCHANGED refused

(* Mutant: the new value is looked at only after the old one is removed. *)
ReplaceLate(j, k, r, keep) ==
  LET call == <<"replace_key", j, k, r>>
  IN  /\ Gives(r, j)
      /\ IF Type(j) # "object" \/ k \notin KeysOf(j) THEN Fail(call)
         ELSE IF Type(r) # "error" THEN Swap(call, j, k, r, keep)
         ELSE /\ TakeOut(j, IndexOf(j, k), keep)
              /\ ret' = Answer(call, FALSE, NONE)
              /\ UNCHANGED refused

(* remove_key and then add_kv.                                             *)
ReplaceKey(j, k, r, keep) ==
  LET call == <<"replace_key", j, k, r>>
  IN  /\ Gives(r, j)
      /\ IF Type(r) = "error" \/ Type(j) # "object" \/ k \notin KeysOf(j) THEN Fail(call)
         ELSE Swap(call, j, k, r, keep)

(* set_number, set_string, set_bool. *)
Set(t, n, x) ==
  /\ n \in Live /\ t # "null" /\ x \in Values(t)
  /\ IF Type(n) # t THEN Fail(<<"set">>)
     ELSE /\ json' = [json EXCEPT ![n].val = x]
          /\ Done(<<"set">>, NONE)
          /\ UNCHANGED <<held, strings, refused>>

-----------------------------------------------------------------------------
(* Mutant: the items of a copy are those of the original. *)
CopyShallow(n) ==
  /\ n \in Live
  /\ Type(n) # "error"
  /\ Make(<<"copy", n>>, json[n])

(* A copy has a node of its own for every node below n.  There are none    *)
(* for errors.                                                             *)
Copy(n) ==
  /\ n \in Live
  /\ IF Type(n) = "error" THEN Fail(<<"copy", n>>)
     ELSE LET ns == Below(json, n)
          IN  \E f \in [ns -> Node \ Live] :
                /\ \A a, b \in ns : f[a] = f[b] => a = b
                /\ json' = [m \in Live \cup {f[a] : a \in ns} |->
                              IF m \in Live THEN json[m]
                              ELSE LET a == CHOOSE b \in ns : f[b] = m
                                   IN  [json[a] EXCEPT !.items =
                                          [i \in DOMAIN @ |-> Item(@[i].k, f[@[i].v])]]]
                /\ held' = held \cup {f[n]}
                /\ strings' = strings + Strings(json, ns)
                /\ Done(<<"copy", n>>, f[n])
                /\ UNCHANGED refused

(* Mutant: two objects of different size can be equal. *)
SameObjectAnySize(eq, a, b) ==
  \A i \in DOMAIN json[a].items :
    /\ json[a].items[i].k \in KeysOf(b)
    /\ eq[json[a].items[i].v][json[b].items[IndexOf(b, json[a].items[i].k)].v]

(* Two objects have the same keys with equal values, in any order.         *)
SameObject(eq, a, b) ==
  /\ Len(json[a].items) = Len(json[b].items)
  /\ \A i \in DOMAIN json[a].items :
       /\ json[a].items[i].k \in KeysOf(b)
       /\ eq[json[a].items[i].v][json[b].items[IndexOf(b, json[a].items[i].k)].v]

SameList(eq, a, b) ==
  /\ Len(json[a].items) = Len(json[b].items)
  /\ \A i \in DOMAIN json[a].items : eq[json[a].items[i].v][json[b].items[i].v]

(* cosmic_json_equals: two errors are equal only if they are one, since it *)
(* is their pointers that are compared.                                    *)
Equal ==
  LET eq[a \in Live] ==
        [b \in Live |->
           /\ Type(a) = Type(b)
           /\ CASE Type(a) = "object" -> SameObject(eq, a, b)
                [] Type(a) = "list" -> SameList(eq, a, b)
                [] Type(a) = "error" -> a = b
                [] OTHER -> json[a].val = json[b].val]
  IN  eq

Index == 0 .. Cardinality(Node)

Next ==
  \/ NewError
  \/ \E t \in Container : NewContainer(t)
  \/ \E t \in Scalar, x \in Atom \cup {NONE} : NewScalar(t, x)
  \/ \E n \in Node : Free(n) \/ Copy(n)
  \/ \E l, v \in Node : Add(l, v)
  \/ \E t \in Scalar, n \in Node, x \in Atom : Set(t, n, x)
  \/ \E j \in Node, k \in Key, keep \in BOOLEAN : RemoveKey(j, k, keep)
  \/ \E j, v \in Node, k \in Key :
       AddKv(j, k, v) \/ \E keep \in BOOLEAN : ReplaceKey(j, k, v, keep)
  \/ \E j \in Node, k \in Key, t \in Scalar, x \in Atom : AddKvNew(j, k, t, x)
  \/ \E l \in Node, i \in Index, keep \in BOOLEAN : RemoveItem(l, i, keep)
  \/ \E l, v \in Node, i \in Index : Insert(l, i, v)

Spec == Init /\ [][Next]_vars
-----------------------------------------------------------------------------
(* Every variable has its type.                                            *)
TypeOK ==
  /\ Live \subseteq Node
  /\ \A n \in Live :
       /\ Type(n) \in Scalar \cup Container \cup {"error"}
       /\ json[n].val \in Atom \cup {NONE}
       /\ json[n].items \in Seq([k : Key \cup {NONE}, v : Node])
  /\ held \subseteq Live
  /\ strings \in Nat
  /\ refused \in 0 .. MaxRefused
  /\ ret.ok \in BOOLEAN
  /\ ret.out \in Node \cup {NONE}

Places(n) == {p \in Slots(json, Live) : json[p[1]].items[p[2]].v = n}

(* The key strings that are allocated are the keys of the objects there    *)
(* are, and one for every key that was refused (:374, :435, :460).         *)
KeysCounted == strings = Strings(json, Live) + refused

(* Every value has one owner, the caller or one place in one container, so *)
(* that it is freed once; none dangles, none is in itself, none is lost;   *)
(* no object has a key twice; and every key string is freed with its pair  *)
(* (:354-461, :463-480).                                                   *)
OneOwner ==
  /\ TypeOK
  /\ KeysCounted
  /\ \A n \in Live :
       /\ Cardinality(Places(n)) = IF n \in held THEN 0 ELSE 1
       /\ Children(json, n) \subseteq Live
       /\ Cardinality(KeysOf(n)) = (IF Type(n) = "object" THEN Len(json[n].items)
                                    ELSE Cardinality(KeysOf(n) \cap {NONE}))
       /\ Type(n) = "error" => n \in held
  /\ Live = UNION {Below(json, n) : n \in held}

(* What a value stands for: an object is a function of its keys.           *)
Document ==
  LET doc[n \in Live] ==
        LET items == json[n].items
        IN  CASE Type(n) = "object" ->
                   <<"object", {<<items[i].k, doc[items[i].v]>> : i \in DOMAIN items}>>
              [] Type(n) = "list" -> <<"list", [i \in DOMAIN items |-> doc[items[i].v]]>>
              [] Type(n) = "error" -> <<"error", n>>
              [] OTHER -> <<Type(n), json[n].val>>
  IN  doc

(* cosmic_json_equals says of two values whether they stand for the same   *)
(* document, whichever comes first and in whatever order their keys were   *)
(* added (:40-104).                                                        *)
EqualsDocuments ==
  LET eq == Equal
      doc == Document
  IN  \A a, b \in Live : eq[a][b] <=> doc[a] = doc[b]

(* A copy is equal to its original, shares nothing with it, and leaves     *)
(* every other value as it is (:252-311).                                  *)
CopyApart ==
  ret'.call[1] = "copy" /\ ret'.out # NONE =>
    LET n == ret'.call[2]
        c == ret'.out
    IN  /\ Equal'[n][c]
        /\ Below(json', n) \cap Below(json', c) = {}
        /\ \A m \in Live : m \in DOMAIN json' /\ json'[m] = json[m]

CopyIsEqual == [][CopyApart]_vars

(* replace_key puts the new value in the place of the old one and hands    *)
(* the old one back or frees it, or it does nothing: it never stops        *)
(* between its remove and its add (:445-461).                              *)
ReplacedOrNot ==
  ret'.call[1] = "replace_key" =>
    LET j == ret'.call[2]
        k == ret'.call[3]
        r == ret'.call[4]
    IN  IF ~ ret'.ok THEN UNCHANGED <<json, held, strings>>
        ELSE LET old == json[j].items[IndexOf(j, k)].v
             IN  /\ Range(json'[j].items) = (Range(json[j].items) \ {Item(k, old)}) \cup {Item(k, r)}
                 /\ Len(json'[j].items) = Len(json[j].items)
                 /\ r \notin held'
                 /\ IF ret'.out = NONE THEN old \notin DOMAIN json' ELSE old \in held'

ReplaceAllOrNothing == [][ReplacedOrNot]_vars
=============================================================================
