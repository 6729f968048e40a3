---------------------------- MODULE MCRuleEngine ----------------------------
EXTENDS RuleEngine

Home == <<"/", "work">>

HomeFile == Home \o <<"/", "a.cpp">>
TwoSlashes == Home \o <<"/", "/", "b.cpp">>
Others == {<<"/", "work", "2", "/", "b.cpp">>, <<"/", "usr", "/", "b.cpp">>, TwoSlashes}

\* One file of the workspace and one beside it, outside it, or in it by two
\* slashes.
TwoFiles == {<<HomeFile, other>> : other \in Others}

-----------------------------------------------------------------------------
(* Types.                                                                  *)

Sized(form, name, size, align) ==
  [form |-> form, name |-> name, size |-> size, align |-> align]

TChar == Sized("integral", "char", 1, 1)
TInt == Sized("integral", "int", 4, 4)
TLong == Sized("integral", "long", 8, 8)
TSevenLongs == Sized("array", "long[7]", 56, 8)
TMutex == Sized("record", "std::mutex", 40, 8)

Pointer(to, const, restrict) ==
  [form |-> "pointer", name |-> "", to |-> to, toConst |-> const, restrict |-> restrict]

Class(name) == [form |-> "record", name |-> name, begins |-> {}, trivial |-> FALSE]
Vector(fields) == Class("std::vector") @@ [elementFields |-> fields]

-----------------------------------------------------------------------------
(* Nodes: for each rule some that it reports and some that it nearly does. *)

Plain(kind) == [kind |-> kind, main |-> TRUE]

Function(is, returns, params) ==
  Plain("function") @@
  [is |-> is, defined |-> TRUE, deleted |-> FALSE, implicit |-> FALSE, nothrow |-> FALSE,
   params |-> params, returns |-> returns, body |-> "other", overrides |-> FALSE,
   nodiscard |-> FALSE, constexpr |-> FALSE, virtual |-> FALSE]

Move == Function("move constructor", [form |-> "void", name |-> "void"], <<>>)
Simple == [Function("other", TInt, <<TInt>>) EXCEPT !.body = "one return without calls"]
ToInt == Pointer("int", FALSE, FALSE)

Functions ==
  {Move, [Move EXCEPT !.nothrow = TRUE],
   Simple, [Simple EXCEPT !.virtual = TRUE],
   Function("other", [Class("absl::StatusOr") EXCEPT
                        !.begins = {"absl::Status", "absl::StatusOr"}], <<>>),
   Function("other", [Class("absl::StatusBuilder") EXCEPT !.begins = {"absl::Status"}], <<>>),
   [Function("other", [form |-> "bool", name |-> "bool"], <<>>) EXCEPT !.overrides = TRUE]}
  \cup {Function("other", Class("any"), <<ToInt, second>>) :
          second \in {ToInt, Pointer("int", FALSE, TRUE), Pointer("char", FALSE, FALSE)}}

Variable(kind, type) ==
  Plain(kind) @@ [type |-> type, defined |-> TRUE, const |-> TRUE, constexpr |-> FALSE,
                  init |-> "constant"]

Variables ==
  {Variable("var", TInt), [Variable("var", TInt) EXCEPT !.constexpr = TRUE],
   Variable("parameter", Class("std::function")),
   Variable("field", Vector(MinFields)), Variable("var", Vector(MinFields - 1)),
   Variable("loop variable", Class("any")), Variable("parameter", TInt),
   [Variable("loop variable", TInt) EXCEPT !.init = "other"]}

MemberCall(class, callee, above) ==
  Plain("member call") @@ [class |-> class, callee |-> callee, above |-> above,
                           virtual |-> class = "any", final |-> FALSE]

Expressions ==
  {Plain("call") @@ [callee |-> callee, above |-> <<"loop">>] :
     callee \in {"std::endl", "malloc"}}
  \cup {MemberCall("vector", "push_back", above) :
          above \in {<<>>, <<"loop">>, <<"decl", "loop">>}}
  \cup {MemberCall("any", "run", <<"lambda", "loop">>),
        MemberCall("map", "find", <<"loop">>),
        MemberCall("unordered_set", "insert", <<"loop">>),
        Plain("new") @@ [above |-> <<"decl", "loop">>],
        Plain("binary") @@ [operator |-> "+=", left |-> "float", above |-> <<"loop">>]}
  \cup {Plain("for") @@ [left |-> left, right |-> "unsigned"] :
          left \in {"signed", "unsigned"}}

Nest == UNION {[1..k -> {"loop", "switch", "lambda", "method"}] : k \in 0..3}

\* A break belongs to a loop or a switch of its own function.
Exits ==
  {Plain("return") @@ [above |-> above] : above \in Nest}
  \cup {Plain("break") @@ [above |-> above] :
          above \in {nest \in Nest : Len(nest) > 0 /\ nest[1] \in {"loop", "switch"}}}

Field(type) == [type |-> type, bits |-> 0, named |-> TRUE]
Fields ==
  {Field(TChar), Field(TLong), Field(TSevenLongs), [type |-> TInt, bits |-> 3, named |-> TRUE]}

\* An anonymous member, and an array without elements.
Anonymous == [type |-> TSevenLongs, bits |-> 0, named |-> FALSE]
Empty == Field(Sized("array", "long[0]", 0, 8))

Record(tag, head, fields) ==
  Plain("record") @@ [tag |-> tag, head |-> head, fields |-> fields]

Records ==
  {Record("struct", 0, fields) : fields \in UNION {[1..k -> Fields] : k \in 0..3}}
  \cup {Record("struct", 8, fields) : fields \in [1..2 -> Fields]}
  \cup {Record("struct", 0, <<Field(TSevenLongs), field, Field(TLong)>>) :
          field \in {Anonymous, Empty}}
  \cup {Record("class", 0, <<Field(TMutex), Field(TInt)>>)}

Header == [Simple EXCEPT !.main = FALSE]

\* Something for each of the rules that keep their findings, and for two others.
Few == {Function("other", Class("any"), <<ToInt, ToInt>>),
        Variable("parameter", Class("std::function")),
        MemberCall("any", "run", <<"loop">>),
        Record("class", 0, <<Field(TMutex), Field(TInt)>>),
        Move, Record("struct", 8, <<Field(TSevenLongs), Field(TChar)>>)}

AllNodes ==
  Few \cup {Header} \cup Functions \cup Variables \cup Expressions \cup Exits \cup Records

\* The file of the workspace has each of the nodes, or two of a few; the other
\* file at most one of these, and the one with two slashes a certain one.
FileTrees ==
  [f \in Others \cup {HomeFile} |->
     CASE f = HomeFile   -> {<<>>} \cup {<<n>> : n \in AllNodes} \cup Few \X Few
       [] f = TwoSlashes -> {<<Move>>}
       [] OTHER          -> {<<>>} \cup {<<n>> : n \in Few}]
=============================================================================
