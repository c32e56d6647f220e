------------------------------ MODULE Protobuf ------------------------------
(***************************************************************************)
(* The message classes protoc generated for the servers' framework         *)
(* (framework/message/*.pb.h and *.pb.cc), two objects of one class at a   *)
(* time.  Table holds what each method of each class does (see             *)
(* ProtobufTables); the operators below say what the statements of such    *)
(* methods mean.  A message is its _has_bits_, its members and the fields  *)
(* it could not recognise.  A pointer to a message is <<>> or <<message>>, *)
(* the wire is a sequence of tagged fields.                                *)
(***************************************************************************)
EXTENDS CommonProto, MessageProto, PlayerProto, PlayerPushProto, SequencesExt

CONSTANT MaxCalls       \* bound: calls in a behaviour

\* The classes, and the values *_IsValid accepts for each enumeration.
Table == CommonProtos @@ MessageProtos @@ PlayerProtos @@ PlayerPushProtos @@ DbProtos
Valid == [enMessageCmd |-> enMessageCmd, ReconnectState |-> ReconnectState,
          SQLTYPE |-> SQLTYPE, CALLBACK |-> CALLBACK, BLOB |-> BLOB]

VARIABLES
    class,          \* the class of both objects
    types,          \* it and the classes of the messages inside, as Table has them
    default,        \* their _default_instance_
    msg,            \* the objects "a" and "b"
    calls           \* how many calls have been made

pbVars == <<class, types, default, msg, calls>>

-----------------------------------------------------------------------------
(* Members. *)

\* A class with its members found by name.
Described(row) ==
    LET names == {row.members[i].name : i \in DOMAIN row.members}
        at(f) == CHOOSE i \in DOMAIN row.members : row.members[i].name = f
    IN [names |-> names, place |-> [f \in names |-> at(f)]] @@ row

\* The classes of S and of the messages inside them.
RECURSIVE Within(_)
Within(S) ==
    LET inner == UNION {{Table[C].members[i].kind : i \in DOMAIN Table[C].members} : C \in S}
        all == S \cup (inner \cap DOMAIN Table)
    IN IF all = S THEN S ELSE Within(all)

Classes == DOMAIN types
Members(C) == types[C].names
KindOf(C, f) == types[C].members[types[C].place[f]].kind
IsRep(C, f) == types[C].members[types[C].place[f]].rep
IsMessage(C, f) == KindOf(C, f) \in Classes
Listed(C, f) == IsRep(C, f) \/ IsMessage(C, f)
IsString(C, f) == KindOf(C, f) \in {"string", "bytes"}
Single(C) == {f \in Members(C) : ~IsRep(C, f)}
Between(C, first, last) ==
    LET at == types[C].place IN {f \in Members(C) : at[f] \in at[first]..at[last]}

has_(C, m, f) == types[C].bits[f] \in m.has
With(m, f, x) == [m EXCEPT !.val[f] = x]

\* Zeroed memory: a null pointer, an empty string, 0.  And memory as the
\* constructor finds it.
ZeroOf(C, f) == IF Listed(C, f) THEN <<>> ELSE 0
Garbage(C, f) == IF IsRep(C, f) THEN <<>> ELSE IF IsMessage(C, f) THEN <<"garbage">> ELSE -1

-----------------------------------------------------------------------------
(* Constructors, Clear, MergeFrom, Swap. *)

Fires(mask, m) == mask = Always \/ mask \cap m.has # {}

RECURSIVE Clear_(_, _)
RECURSIVE MergeFrom_(_, _, _)
RECURSIVE CopyConstructor(_, _)

\* What a statement of SharedCtor or Clear does to a member, if anything.
Touches(C, m, s, f) ==
    /\ Fires(s.mask, m)
    /\ CASE s.op = "put"  -> f \in DOMAIN s.values
         [] s.op = "zero" -> f \in Between(C, s.first, s.last)
         [] s.op = "each" -> f \in DOMAIN s.bits /\ s.bits[f] \in m.has
Outcome(C, m, s, f) ==
    CASE s.op = "put" /\ ~Listed(C, f)  -> s.values[f]
      [] s.op = "each" /\ IsMessage(C, f) -> <<Clear_(KindOf(C, f), m.val[f][1])>>
      [] OTHER -> ZeroOf(C, f)

\* The member after all statements: the last one to touch it counts.
After(C, m, statements, f) ==
    LET on == {i \in DOMAIN statements : Touches(C, m, statements[i], f)}
    IN IF on = {} THEN m.val[f] ELSE Outcome(C, m, statements[Max(on)], f)

\* The constructor, on memory as it finds it; and what it makes.
Constructed(C) ==
    LET raw == [has |-> {}, val |-> [f \in Members(C) |-> Garbage(C, f)], unknown |-> <<>>]
    IN [raw EXCEPT !.val = [f \in Members(C) |-> After(C, raw, types[C].reset.ctor, f)]]
New(C) == default[C]

\* Mutant: the bits are reset first.
clears_bits_first(C, m) ==
    LET n == [m EXCEPT !.has = {}]
    IN [n EXCEPT !.unknown = <<>>,
                 !.val = [f \in Members(C) |-> After(C, n, types[C].reset.clear, f)]]

Clear_(C, m) == [has |-> {}, val |-> [f \in Members(C) |-> After(C, m, types[C].reset.clear, f)],
                 unknown |-> <<>>]

\* What a getter returns for a pointer: the default instance if it is null.
Deref(K, p) == IF p = <<>> THEN New(K) ELSE p[1]

CopyConstructor(C, from) ==
    LET c == types[C].reset.copy
        span == IF c.span = <<>> THEN {} ELSE Between(C, c.span[1], c.span[2])
        to(f) == CASE f \in c.all \cup span -> from.val[f]
                   [] f \in c.ifhas /\ ~has_(C, from, f) -> ZeroOf(C, f)
                   [] f \in c.ifhas /\ has_(C, from, f) ->
                        IF IsMessage(C, f) THEN <<CopyConstructor(KindOf(C, f), from.val[f][1])>>
                        ELSE from.val[f]
                   [] OTHER -> Garbage(C, f)
    IN [from EXCEPT !.val = [f \in Members(C) |-> to(f)]]

\* MergeFrom: the groups it looks into, and the single members it takes.
Fired(C, from) ==
    LET g == types[C].merge.groups IN {g[i] : i \in {j \in DOMAIN g : Fires(g[j].mask, from)}}
Taken(C, from) ==
    UNION {{f \in DOMAIN g.bits : g.bits[f] \in from.has} : g \in Fired(C, from)}

\* Mutant: the bits of a block are not set.
bits_one_by_one(C, m, from) ==
    m.has \cup {types[C].bits[f] : f \in {x \in Taken(C, from) : IsMessage(C, x) \/ IsString(C, x)}}

\* The bits it sets: of strings, messages and members in no block one by one,
\* those of a block at its end.
MergedBits(C, m, from) ==
    LET fired == Fired(C, from)
        alone(f) == \/ IsMessage(C, f) \/ IsString(C, f)
                    \/ \E g \in fired : f \in DOMAIN g.bits /\ ~g.ored
    IN m.has \cup {types[C].bits[f] : f \in {x \in Taken(C, from) : alone(x)}}
             \cup (IF \E g \in fired : g.ored THEN from.has ELSE {})

MergeFrom_(C, m, from) ==
    LET taken == Taken(C, from)
        inner(K, p, q) == <<MergeFrom_(K, Deref(K, p), Deref(K, q))>>
        to(f) == CASE f \in types[C].merge.all -> m.val[f] \o from.val[f]
                   [] f \in taken /\ IsMessage(C, f) -> inner(KindOf(C, f), m.val[f], from.val[f])
                   [] f \in taken /\ ~IsMessage(C, f) -> from.val[f]
                   [] OTHER -> m.val[f]
    IN [has |-> MergedBits(C, m, from), val |-> [f \in Members(C) |-> to(f)],
        unknown |-> m.unknown \o from.unknown]

\* InternalSwap, as it leaves the first object.
Swapped(C, m, other) ==
    LET swap == types[C].merge.swap
    IN [other EXCEPT !.val = [f \in Members(C) |-> IF f \in swap THEN @[f] ELSE m.val[f]]]

-----------------------------------------------------------------------------
(* The wire. *)

\* WireFormatLite: the low three bits of a tag.
Numeric == {"int32", "uint32", "int64", "uint64", "bool"} \cup DOMAIN Valid
WireType(kind) == CASE kind \in Numeric -> 0 [] kind = "fixed64" -> 1 [] OTHER -> 2
Tag(num, kind) == num * 8 + WireType(kind)

RECURSIVE Write_(_, _)

\* SerializeWithCachedSizes and InternalSerializeWithCachedSizesToArray.
Write_(C, m) ==
    LET field(w, v) == [tag |-> Tag(w.num, KindOf(C, w.name)),
                        val |-> IF IsMessage(C, w.name) THEN Write_(KindOf(C, w.name), v) ELSE v]
        of(w, v) == CASE IsRep(C, w.name) -> [i \in DOMAIN v |-> field(w, v[i])]
                      [] ~IsRep(C, w.name) /\ w.bit \notin m.has -> <<>>
                      [] OTHER -> <<field(w, IF IsMessage(C, w.name) THEN v[1] ELSE v)>>
        fields == types[C].write
    IN FlattenSeq([i \in DOMAIN fields |-> of(fields[i], m.val[fields[i].name])]) \o m.unknown

RECURSIVE Parse_(_, _, _)

\* MergePartialFromCodedStream: one field after the other.  Numbers come one by
\* one or packed; values an enumeration does not have are kept as unknown.
Parse_(C, m, w) ==
    LET read(n, x) ==
          LET f == types[C].parse[x.tag]
              K == KindOf(C, f)
              unknown == \/ x.tag \notin DOMAIN types[C].parse
                         \/ K \in DOMAIN Valid /\ x.val \notin Valid[K]
              packed == x.tag # Tag(x.tag \div 8, K)
              new == CASE packed -> x.val
                       [] ~packed /\ IsMessage(C, f) ->
                            <<Parse_(K, IF IsRep(C, f) THEN New(K) ELSE Deref(K, n.val[f]), x.val)>>
                       [] OTHER -> IF IsRep(C, f) THEN <<x.val>> ELSE x.val
          IN CASE unknown -> [n EXCEPT !.unknown = Append(@, x)]
               [] ~unknown /\ IsRep(C, f) -> With(n, f, n.val[f] \o new)
               [] OTHER -> [With(n, f, new) EXCEPT !.has = @ \cup {types[C].bits[f]}]
        reads[i \in 0..Len(w)] == IF i = 0 THEN m ELSE read(reads[i - 1], w[i])
    IN reads[Len(w)]

\* ByteSizeLong: how many fields of each member it counts.
ByteSize(C, m) ==
    LET s == types[C].size
        there(S) == {f \in S : has_(C, m, f)}
        required == IF s.required \subseteq m.has THEN s.whole ELSE there(s.fallback)
        groups == UNION {there(g[2]) : g \in {h \in s.groups : h[1] \cap m.has # {}}}
        alone == there(s.alone)
    IN [f \in Members(C) |-> IF f \in s.reps THEN Len(m.val[f])
                             ELSE IF f \in required \cup groups \cup alone THEN 1 ELSE 0]

RECURSIVE IsInitialized(_, _)

IsInitialized(C, m) ==
    /\ types[C].merge.req \subseteq m.has
    /\ \A f \in types[C].merge.inner :
          /\ IsRep(C, f) => \A i \in DOMAIN m.val[f] : IsInitialized(KindOf(C, f), m.val[f][i])
          /\ ~IsRep(C, f) /\ has_(C, m, f) => IsInitialized(KindOf(C, f), m.val[f][1])

-----------------------------------------------------------------------------
(* What a program does with two messages of a class. *)

Objects == {"a", "b"}
Other(o) == IF o = "a" THEN "b" ELSE "a"

RECURSIVE Filled(_, _, _)

\* A message in which the members of S have been set: numbers to v, messages
\* and repeated members to ones with the same inside.
Filled(C, S, v) ==
    LET inside(f) == IF IsMessage(C, f) THEN Filled(KindOf(C, f), Members(KindOf(C, f)), v) ELSE v
    IN [New(C) EXCEPT !.has = {types[C].bits[f] : f \in S \cap Single(C)},
                      !.val = [f \in Members(C) |-> IF f \notin S THEN @[f]
                                                    ELSE IF Listed(C, f) THEN <<inside(f)>> ELSE v]]

Becomes(o, m) == /\ calls < MaxCalls /\ calls' = calls + 1
                 /\ msg' = [msg EXCEPT ![o] = m] /\ UNCHANGED <<class, types, default>>

\* set_, add_ and set_allocated_.  "assert(X_IsValid(value))".
Set(o, f, v) ==
    /\ KindOf(class, f) \in DOMAIN Valid => v \in Valid[KindOf(class, f)]
    /\ LET m == Filled(class, {f}, v)
       IN Becomes(o, [msg[o] EXCEPT !.has = @ \cup m.has,
                                    !.val[f] = IF IsRep(class, f) THEN @ \o m.val[f] ELSE m.val[f]])

\* mutable_: a message that is not there is made.
Mutable(o, f) ==
    /\ IsMessage(class, f) /\ ~IsRep(class, f)
    /\ Becomes(o, [msg[o] EXCEPT !.has = @ \cup {types[class].bits[f]},
                                 !.val[f] = <<Deref(KindOf(class, f), @)>>])

\* clear_ empties a message that is there, release_ gives it away.
Unset(o, f, to) ==
    Becomes(o, [msg[o] EXCEPT !.val[f] = to,
                              !.has = IF IsRep(class, f) THEN @ ELSE @ \ {types[class].bits[f]}])
ClearMember(o, f) ==
    LET kept == IsMessage(class, f) /\ ~IsRep(class, f) /\ msg[o].val[f] # <<>>
    IN Unset(o, f, IF kept THEN <<Clear_(KindOf(class, f), msg[o].val[f][1])>>
                   ELSE New(class).val[f])
Release(o, f) == /\ ~IsRep(class, f) /\ (IsMessage(class, f) \/ IsString(class, f))
                 /\ Unset(o, f, New(class).val[f])

Clear(o) == Becomes(o, Clear_(class, msg[o]))
MergeFrom(o) == Becomes(o, MergeFrom_(class, msg[o], msg[Other(o)]))
CopyFrom(o) == Becomes(o, MergeFrom_(class, Clear_(class, msg[o]), msg[Other(o)]))
Copy_(o) == Becomes(o, CopyConstructor(class, msg[Other(o)]))

Swap == /\ calls < MaxCalls /\ calls' = calls + 1 /\ UNCHANGED <<class, types, default>>
        /\ msg' = [o \in Objects |-> Swapped(class, msg[o], msg[Other(o)])]

\* ParseFromString: Clear, then the fields one by one.
ParseFrom(o, wire) == Becomes(o, Parse_(class, Clear_(class, msg[o]), wire))

\* The other object's message comes over the wire.
Sent(o) == ParseFrom(o, Write_(class, msg[Other(o)]))

\* A peer's message comes: all of it, all but a member, or one member only;
\* perhaps broken off, or with a field this class does not have.
Unrecognised == [tag |-> 120, val |-> 1]
Portions(C) == UNION {{Members(C), {f}, Members(C) \ {f}} : f \in Members(C)}
Received(o, S, v) == ParseFrom(o, Write_(class, Filled(class, S, v)))
ReceivedPart(o, v) ==
    LET wire == Append(Write_(class, Filled(class, Members(class), v)), Unrecognised)
    IN \E n \in 0..Len(wire) : ParseFrom(o, SubSeq(wire, 1, n))

PbInit == /\ class \in DOMAIN Table /\ calls = 0
          /\ types = [C \in Within({class}) |-> Described(Table[C])]
          /\ default = [C \in Classes |-> Constructed(C)]
          /\ msg = [o \in Objects |-> New(class)]

PbNext ==
    \/ \E o \in Objects :
          \/ \E f \in Members(class) :
                Set(o, f, 1) \/ Mutable(o, f) \/ ClearMember(o, f) \/ Release(o, f)
          \/ Clear(o) \/ MergeFrom(o) \/ CopyFrom(o) \/ Copy_(o) \/ Sent(o)
          \/ \E S \in Portions(class) : Received(o, S, 2)
          \/ ReceivedPart(o, 9)
    \/ Swap

PbSpec == PbInit /\ [][PbNext]_pbVars

-----------------------------------------------------------------------------
(* Properties. *)

RECURSIVE Sound(_, _)
RECURSIVE Blank(_, _, _)

\* What a getter returns of a member that is not there is its default.
Blank(C, f, x) ==
    LET K == KindOf(C, f)
    IN CASE K \in DOMAIN Valid -> x = CHOOSE v \in Valid[K] : \A w \in Valid[K] : v <= w
         [] IsMessage(C, f) -> \/ x = <<>>
                            \/ /\ x[1].has = {} /\ x[1].unknown = <<>>
                               /\ \A g \in Members(K) : IF IsRep(K, g) THEN x[1].val[g] = <<>>
                                                         ELSE Blank(K, g, x[1].val[g])
         [] OTHER -> x = 0

Sound(C, m) ==
    /\ m.has \subseteq {types[C].bits[f] : f \in Single(C)}
    /\ \A f \in Single(C) :
          IF ~has_(C, m, f) THEN Blank(C, f, m.val[f])
          ELSE IsMessage(C, f) => m.val[f] # <<>> /\ Sound(KindOf(C, f), m.val[f][1])
    /\ \A f \in Members(C) \ Single(C) :
          IsMessage(C, f) => \A i \in DOMAIN m.val[f] : Sound(KindOf(C, f), m.val[f][i])

\* Whatever has been set, cleared, merged, copied, swapped and read in part, a
\* member without its bit in _has_bits_ shows its default and a message with its
\* bit is there: Clear, the constructors and MergeFrom reset and take exactly
\* the members whose bits they test.
FieldsKept == Sound(class, msg["a"])

RECURSIVE Alike(_, _, _)
Alike(C, m, n) ==
    /\ m.has = n.has /\ m.unknown = n.unknown
    /\ \A f \in Members(C) :
          LET K == KindOf(C, f)
              same == /\ Len(m.val[f]) = Len(n.val[f])
                      /\ \A i \in DOMAIN m.val[f] : Alike(K, m.val[f][i], n.val[f][i])
          IN IsRep(C, f) \/ has_(C, m, f) => IF IsMessage(C, f) THEN same ELSE m.val[f] = n.val[f]

RECURSIVE Complete(_, _)
Complete(C, m) ==
    \A i \in DOMAIN types[C].members :
        LET x == types[C].members[i]
        IN /\ x.req => has_(C, m, x.name)
           /\ x.kind \in Classes /\ (x.rep \/ has_(C, m, x.name)) =>
                 \A j \in DOMAIN m.val[x.name] : Complete(x.kind, m.val[x.name][j])

\* What is written is what ByteSizeLong counted and reads back as the same
\* message; copies and merges into a new message are the same too; and
\* IsInitialized says whether every required field is there.  (The objects are
\* interchangeable: one of them is looked at.)
MessagesKept ==
    LET m == msg["a"]
        C == class
        wire == Write_(C, m)
        known == SubSeq(wire, 1, Len(wire) - Len(m.unknown))
        written(f) == Len(SelectSeq(known, LAMBDA x : types[C].parse[x.tag] = f))
    IN /\ Alike(C, m, Parse_(C, New(C), wire))
       /\ ByteSize(C, m) = [f \in Members(C) |-> written(f)]
       /\ Alike(C, m, MergeFrom_(C, New(C), m)) /\ Alike(C, m, CopyConstructor(C, m))
       /\ IsInitialized(C, m) = Complete(C, m)
=============================================================================
