--------------------------- MODULE ProtobufTables ---------------------------
(***************************************************************************)
(* What the tables of the generated message classes (CommonProto,          *)
(* MessageProto, PlayerProto, PlayerPushProto) are made of.  A table holds,*)
(* method by method, what the method does to which member and under which  *)
(* bits of _has_bits_; Protobuf gives the methods their meaning.           *)
(***************************************************************************)
EXTENDS Integers, Sequences, TLC

\* Members of the class: required, optional, repeated.
Req(name, kind) == [name |-> name, kind |-> kind, req |-> TRUE, rep |-> FALSE]
Opt(name, kind) == [name |-> name, kind |-> kind, req |-> FALSE, rep |-> FALSE]
Rep(name, kind) == [name |-> name, kind |-> kind, req |-> FALSE, rep |-> TRUE]

\* Statements of SharedCtor and Clear, each done when a bit of `mask' is set:
\* members get values, the memory from one member to another is zeroed, or each
\* member is cleared whose own bit is set.
Always == {-1}
Put(mask, values)       == [op |-> "put", mask |-> mask, values |-> values]
Zero(mask, first, last) == [op |-> "zero", mask |-> mask, first |-> first, last |-> last]
Each(mask, bits)        == [op |-> "each", mask |-> mask, bits |-> bits]

\* The copy constructor: members copied always, those copied if present, and
\* the members whose memory is copied.
Copy(all, ifhas, span) == [all |-> all, ifhas |-> ifhas, span |-> span]

Reset(ctor, copy, clear) == [ctor |-> ctor, copy |-> copy, clear |-> clear]

\* Fields written: a single one if its bit is set, a repeated one element by
\* element; the same by both writers.
W(num, name, bit) == [num |-> num, name |-> name, bit |-> bit]
All(num, name)    == [num |-> num, name |-> name, bit |-> -1]
Both(fields)      == fields

\* ByteSizeLong: what is counted when all bits of `required' are set and what
\* otherwise; single members; members counted when a bit of their group is set;
\* repeated members.
Size(required, whole, fallback, alone, groups, reps) ==
    [required |-> required, whole |-> whole, fallback |-> fallback, alone |-> alone,
     groups |-> groups, reps |-> reps]

\* MergeFrom: repeated members appended; groups of single members, in a block
\* that ends by or-ing in all bits or not.  IsInitialized: the bits it requires
\* and the members it looks into.  InternalSwap: the members it swaps.
Ored(mask, bits) == [mask |-> mask, bits |-> bits, ored |-> TRUE]
Own(mask, bits)  == [mask |-> mask, bits |-> bits, ored |-> FALSE]
Merge(all, groups, req, inner, swap) ==
    [all |-> all, groups |-> groups, req |-> req, inner |-> inner, swap |-> swap]

\* The table of one class.
Row(members, bits, reset, parse, write, size, merge) ==
    [members |-> members, bits |-> bits, reset |-> reset, parse |-> parse,
     write |-> write, size |-> size, merge |-> merge]
=============================================================================
