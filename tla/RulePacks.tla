------------------------------ MODULE RulePacks ------------------------------
(***************************************************************************)
(* What each rule of rules/packs reports at a node of the syntax tree: the *)
(* matcher it registers and the checks of its callback, as one predicate.  *)
(* A node is a record of the features that the rules look at; its text,    *)
(* its line and the words of the messages are left out.                    *)
(*                                                                         *)
(* above    the constructs around a statement, innermost first: "loop",    *)
(*          "switch", "lambda", "method" (of a class declared in a         *)
(*          function) and "decl" (the declaration it initialises)          *)
(* type     form ("integral", "float", "enum", "bool", "void", "pointer",  *)
(*          "reference", "record"), name (as it is written), begins (the   *)
(*          prefixes of ErrorLike that a record's name begins with), and   *)
(*          what else its rule asks                                        *)
(* fields   of a struct or a class: type, bits (of a bit-field, else 0),   *)
(*          named.  head is what base classes and the vtable pointer take  *)
(*                                                                         *)
(* The rules for shared_ptr copies, container copies and string parameters *)
(* are left out: which types they match depends on how Clang writes a type *)
(* that has been named through an alias.                                   *)
(***************************************************************************)
EXTENDS Integers, Sequences, FiniteSets, SequencesExt

High   == 0
Medium == 1
Low    == 2

Constructs == {"loop", "switch", "lambda", "method", "decl"}

\* At most one finding, about the node as a whole.
Report(fires, level) == IF fires THEN <<[level |-> level, about |-> 0]>> ELSE <<>>

\* hasAncestor(stmt(anyOf(forStmt(), ...))): it looks through lambdas and
\* through initialisers, and takes a loop's header for its body.
InLoop(n) == \E i \in DOMAIN n.above : n.above[i] = "loop"

-----------------------------------------------------------------------------
(* Functions and their parameters.                                         *)

NoexceptMoveOps(n) ==
  Report(/\ n.kind = "function" /\ n.defined /\ ~n.deleted /\ ~n.implicit
         /\ n.is \in {"move constructor", "move assignment"}
         /\ ~n.nothrow, High)

\* A pointer that is counted: neither restrict, nor void, nor to const.
FreePointer(t) == t.form = "pointer" /\ ~t.restrict /\ t.to # "void" /\ ~t.toConst

VecAliasing(n) ==
  Report(/\ n.kind = "function" /\ n.defined
         /\ \E i, j \in DOMAIN n.params :
              /\ i # j /\ FreePointer(n.params[i]) /\ FreePointer(n.params[j])
              /\ n.params[i].to = n.params[j].to, Medium)

\* Names of which the beginning is enough.
ErrorPrefixes == {"std::expected", "std::optional", "absl::Status", "absl::StatusOr"}

\* std::errc is among the names and an enumeration, which is never a record.
ErrorLike(t) ==
  \/ t.form = "bool"
  \/ /\ t.form = "record"
     /\ \/ t.name \in {"std::error_code", "std::error_condition", "std::errc"}
        \/ t.begins \cap ErrorPrefixes # {}

NodiscardReturn(n) ==
  Report(/\ n.kind = "function" /\ n.defined /\ ~n.implicit /\ ~n.overrides
         /\ ~n.nodiscard /\ ErrorLike(n.returns), Medium)

Scalar(t) == t.form \in {"integral", "float", "enum", "bool", "pointer"}

PromotionFunction(n) ==
  Report(/\ n.kind = "function" /\ n.defined /\ ~n.constexpr /\ ~n.implicit /\ ~n.virtual
         /\ n.body = "one return without calls"
         /\ Scalar(n.returns) \/ n.returns.form = "void"
         /\ \A i \in DOMAIN n.params : Scalar(n.params[i]), Low)

-----------------------------------------------------------------------------
(* Variables, parameters and fields.                                       *)

Declarators == {"var", "loop variable", "parameter", "field"}

RangeForCopy(n) ==
  Report(n.kind = "loop variable" /\ n.type.form = "record" /\ ~n.type.trivial, High)

StdFunction(n) ==
  Report(n.kind \in Declarators /\ n.type.name = "std::function", Medium)

\* A parameter's initialiser is its default argument.
PromotionVariable(n) ==
  Report(/\ n.kind \in Declarators \ {"field"} /\ n.defined /\ n.const /\ ~n.constexpr
         /\ n.type.form \in {"integral", "bool", "float", "enum"}
         /\ n.init = "constant", High)

MinFields == 4

\* A vector's type says how many fields its complete element type has.
AosToSoa(n) ==
  Report(n.kind \in Declarators /\ n.type.name = "std::vector"
         /\ n.type.elementFields >= MinFields, Low)

-----------------------------------------------------------------------------
(* Statements and expressions.                                             *)

\* os << std::endl names the manipulator and does not call it.
EndlFlush(n) == Report(n.kind = "call" /\ n.callee = "std::endl", High)

\* The second look of the rule climbs from statement to statement and gives up
\* at a declaration.
HasLoopAncestor(n) ==
  \E i \in DOMAIN n.above :
    /\ n.above[i] = "loop"
    /\ \A j \in 1..(i - 1) : n.above[j] \notin {"decl", "lambda", "method"}

VectorNoReserve(n) ==
  Report(/\ n.kind = "member call" /\ n.class = "vector"
         /\ n.callee \in {"push_back", "emplace_back"}
         /\ InLoop(n) /\ HasLoopAncestor(n), Medium)

VirtualDispatch(n) ==
  Report(n.kind = "member call" /\ n.virtual /\ ~n.final /\ InLoop(n), Medium)

MapInLoop(n) ==
  Report(/\ n.kind = "member call"
         /\ n.class \in {"map", "set", "multimap", "multiset"}
         /\ n.callee \in {"find", "count", "contains", "lower_bound", "upper_bound"}
         /\ InLoop(n), Medium)

UnorderedMapNoReserve(n) ==
  Report(/\ n.kind = "member call"
         /\ n.class \in {"unordered_map", "unordered_set", "unordered_multimap",
                         "unordered_multiset"}
         /\ n.callee \in {"insert", "emplace", "emplace_hint", "try_emplace"}
         /\ InLoop(n), Medium)

AllocationInLoop(n) ==
  Report(/\ \/ n.kind = "new"
            \/ /\ n.kind \in {"call", "member call"}
               /\ n.callee \in {"make_unique", "make_shared", "malloc", "calloc",
                                "realloc", "operator new"}
         /\ InLoop(n), Medium)

\* Mutant: a break that belongs to a switch counts.
ComplexCf_InSwitch(n) ==
  Report(/\ n.kind \in {"return", "break"} /\ InLoop(n)
         /\ n.kind = "return" => ~Contains(n.above, "lambda"), Low)

\* A lambda excludes a return, and a switch a break, wherever they stand.
ComplexCf(n) ==
  Report(/\ n.kind \in {"return", "break"} /\ InLoop(n)
         /\ n.kind = "return" => ~Contains(n.above, "lambda")
         /\ n.kind = "break"  => ~Contains(n.above, "switch"), Low)

ReductionFp(n) ==
  Report(/\ n.kind = "binary" /\ n.operator \in {"+=", "-="}
         /\ n.left = "float" /\ InLoop(n), Low)

\* The condition compares a signed with an unsigned operand.
SignedLoopBound(n) ==
  Report(n.kind = "for" /\ {n.left, n.right} = {"signed", "unsigned"}, High)
-----------------------------------------------------------------------------
(* Records and their layout.                                               *)

UpTo(x, step) == ((x + step - 1) \div step) * step

\* The bits of a field.
Width(f) == IF f.bits > 0 THEN f.bits ELSE 8 * f.type.size

\* Where Clang puts a field behind what is placed already, in bits: a bit-field
\* shares the storage unit of its type if it does not cross its end.
Place(placed, f) ==
  LET unit == 8 * f.type.size
      fits == f.bits > 0 /\ placed.end \div unit = (placed.end + f.bits - 1) \div unit
      at   == IF fits THEN placed.end ELSE UpTo(placed.end, 8 * f.type.align)
  IN [end   |-> at + Width(f),
      align |-> IF f.type.align > placed.align THEN f.type.align ELSE placed.align,
      at    |-> Append(placed.at, at)]

\* ASTRecordLayout: the offset of each field in bits, the size in bytes.
Layout(n) ==
  LET placed[i \in 0..Len(n.fields)] ==
        IF i = 0 THEN [end |-> 8 * n.head, align |-> IF n.head = 0 THEN 1 ELSE 8,
                       at |-> <<>>]
                 ELSE Place(placed[i - 1], n.fields[i])
      all == placed[Len(n.fields)]
  IN [at |-> all.at, size |-> UpTo(all.end, 8 * all.align) \div 8]

\* Mutant: a bit-field counts as much as its type.
PackedSize_WholeTypes(n) ==
  FoldLeft(LAMBDA sum, f : sum + f.type.size, 0, n.fields)

\* The bits of the fields, rounded up to bytes.
PackedSize(n) ==
  LET total[i \in 0..Len(n.fields)] ==
        IF i = 0 THEN 0 ELSE total[i - 1] + Width(n.fields[i])
  IN (total[Len(n.fields)] + 7) \div 8

\* Only what is declared with the word struct; about is the number of bytes.
PaddingDetected(n) ==
  IF n.kind = "record" /\ n.tag = "struct" /\ n.fields # <<>>
    THEN LET wasted == Layout(n).size - PackedSize(n) IN
           IF wasted < 4 THEN <<>> ELSE <<[level |-> High, about |-> wasted]>>
    ELSE <<>>

CacheLine == 64

\* A field at this bit, of a type of this many bytes, begins and ends in
\* different lines.
Straddles(bit, size) ==
  (bit \div 8) \div CacheLine # (bit \div 8 + size - 1) \div CacheLine

\* One finding a field that has a name and a size, in their order; about is the
\* field.  A bit-field is taken to be as long as its type.
CacheLineStraddle(n) ==
  IF n.kind # "record" THEN <<>>
  ELSE FlattenSeq([i \in DOMAIN n.fields |->
         IF /\ n.fields[i].named /\ n.fields[i].type.size > 0
            /\ Straddles(Layout(n).at[i], n.fields[i].type.size)
           THEN <<[level |-> Medium, about |-> i]>> ELSE <<>>])

MutexTypes == {"std::mutex", "std::recursive_mutex", "std::timed_mutex"}

MutexWhereAtomic(n) ==
  IF n.kind # "record" THEN <<>>
  ELSE LET members == {i \in DOMAIN n.fields : n.fields[i].named}
           mutexes == {i \in members : n.fields[i].type.name \in MutexTypes}
           data    == members \ mutexes
       IN Report(/\ Cardinality(mutexes) = 1 /\ Cardinality(data) \in {1, 2}
                 /\ \A i \in data : n.fields[i].type.form \in
                                      {"integral", "bool", "enum", "pointer"}, Low)

-----------------------------------------------------------------------------

\* The rules in the order in which the engine has them.
Rules ==
  <<"noexcept.move-ops", "stl.range-for-copy", "stl.endl-in-hot",
    "hotpath.vector-no-reserve", "hotpath.std-function", "hotpath.virtual-dispatch",
    "padding.detected", "constexpr.promotion-variable", "vec.aliasing",
    "vec.complex-cf", "vec.reduction-fp", "concurrency.mutex-where-atomic",
    "hotpath.allocation-in-loop", "nodiscard.error-return", "ub.signed-loop-bound",
    "padding.cache-line-straddle", "memory_layout.aos-to-soa",
    "constexpr.promotion-function", "hotpath.map-in-loop",
    "hotpath.unordered-map-no-reserve">>

\* What they report at a node, in the same order.  Each looks first whether the
\* node is in the file itself and not in one that it includes.
Verdicts(n) ==
  IF ~n.main THEN [r \in DOMAIN Rules |-> <<>>]
  ELSE <<NoexceptMoveOps(n), RangeForCopy(n), EndlFlush(n),
         VectorNoReserve(n), StdFunction(n), VirtualDispatch(n),
         PaddingDetected(n), PromotionVariable(n), VecAliasing(n),
         ComplexCf(n), ReductionFp(n), MutexWhereAtomic(n),
         AllocationInLoop(n), NodiscardReturn(n), SignedLoopBound(n),
         CacheLineStraddle(n), AosToSoa(n),
         PromotionFunction(n), MapInLoop(n), UnorderedMapNoReserve(n)>>
===============================================================================
