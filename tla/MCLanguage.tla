------------------------------ MODULE MCLanguage ------------------------------
(* Sessions of the compiler.  The lines are trees written out by Written(), *)
(* the grammar that the parser is held against, and the beginnings of such  *)
(* texts, as a prompt that reads line by line gets them.                    *)
EXTENDS OmnixCompiler, SequencesExt

CONSTANT MaxLines       \* lines of a session

VARIABLES
    lines,          \* lines entered so far
    whole,          \* whether the last line was a whole program
    meant           \* its words, those of members nothing reads left blank

vars == <<compilerVars, lines, whole, meant>>

--------------------------------------------------------------------------------
(* How a tree is written.                                                   *)

Word(n) == CASE n = 0 -> "0" [] n = 1 -> "1" [] n = 2 -> "2" [] OTHER -> "3"

\* How tightly an expression binds: a vote less than any operator.
Strength(node) ==
    CASE node[1] = "consensus" -> 0
      [] node[1] = "binary" -> CHOOSE level \in DOMAIN Level : node[2] \in Level[level]
      [] node[1] = "unary" -> Len(Level) + 1
      [] OTHER -> Len(Level) + 2

Separated(texts) ==
    FlattenSeq([i \in DOMAIN texts |-> IF i = 1 THEN texts[i] ELSE <<",">> \o texts[i]])

Parameters(names) == Separated([i \in DOMAIN names |-> <<names[i], ":", "u64">>])

RECURSIVE Written(_), Operand(_, _), Properties(_)

\* Parentheses only where the operand would be torn apart without them.
Operand(node, strength) ==
    IF Strength(node) < strength THEN <<"(">> \o Written(node) \o <<")">> ELSE Written(node)

Properties(properties) ==
    Separated([i \in DOMAIN properties |->
                 <<properties[i][1], ":">> \o Written(properties[i][2])])

Written(node) ==
    LET Texts(nodes) == [i \in DOMAIN nodes |-> Written(nodes[i])]
        Body(nodes) == <<"{">> \o FlattenSeq(Texts(nodes)) \o <<"}">>
        kind == node[1]
    IN
    CASE kind = "int" -> <<Word(node[2])>>
      [] kind \in {"string", "name"} -> <<node[2]>>
      [] kind = "bool" -> <<IF node[2] THEN "true" ELSE "false">>
      [] kind = "null" -> <<"null">>
      [] kind = "time" -> <<"2s">>
      [] kind = "static" -> <<node[2], "::", node[3]>>
      [] kind = "binary" -> Operand(node[3], Strength(node)) \o <<node[2]>> \o
                            Operand(node[4], Strength(node) + 1)
      [] kind = "unary" -> <<node[2]>> \o Operand(node[3], Strength(node))
      [] kind = "call" -> Operand(node[2], 8) \o <<"(">> \o Separated(Texts(node[3])) \o <<")">>
      [] kind = "member" -> Operand(node[2], 8) \o <<".", node[3]>>
      [] kind = "index" -> Operand(node[2], 8) \o <<"[">> \o Written(node[3]) \o <<"]">>
      [] kind = "array" -> <<"[">> \o Separated(Texts(node[2])) \o <<"]">>
      [] kind = "object" -> <<"{">> \o Properties(node[2]) \o <<"}">>
      [] kind = "consensus" ->
           Operand(node[2], 1) \o <<node[3], "{">> \o Properties(node[4]) \o <<"}">>
      [] kind = "let" -> <<"let", node[2], "=">> \o Written(node[3]) \o <<";">>
      [] kind = "assign" -> <<node[2], "=">> \o Written(node[3]) \o <<";">>
      [] kind = "return" ->
           <<"return">> \o (IF node[2] = None THEN <<>> ELSE Written(node[2])) \o <<";">>
      [] kind = "expression" -> Written(node[2]) \o <<";">>
      [] kind = "broadcast" -> <<"broadcast", "(">> \o Written(node[2]) \o <<")", ";">>
      [] kind = "phase" -> <<"phase", node[2]>> \o Written(node[3])
      [] kind \in {"when", "while"} -> <<kind>> \o Written(node[2]) \o Written(node[3])
      [] kind = "if" -> <<"if">> \o Written(node[2]) \o Written(node[3]) \o
                        (IF node[4] = None THEN <<>> ELSE <<"else">> \o Written(node[4]))
      [] kind = "for" -> <<"for", node[2], "on">> \o Written(node[3]) \o Written(node[4])
      [] kind = "block" -> Body(node[2])
      [] kind = "state" -> <<"state", node[2], ":", "Vec", "<", "u64", ">">> \o
                           (IF node[3] = None THEN <<>> ELSE <<"=">> \o Written(node[3])) \o <<";">>
      [] kind = "function" -> <<"function", node[2], "(">> \o Parameters(node[3]) \o
                              <<")", "->", "u64">> \o Written(node[4])
      [] kind = "cluster" -> <<"consensus", "cluster", node[2]>> \o Body(node[3])
      [] kind \in {"node", "contract", "pipeline"} -> <<kind, node[2]>> \o Body(node[3])
      [] kind = "cross_chain" -> <<"cross_chain", "(", "[">> \o
                                 Separated([i \in DOMAIN node[3] |-> <<node[3][i]>>]) \o
                                 <<"]", ")", "contract", node[2]>> \o Body(node[4])
      [] kind = "import" -> <<"import", node[2], ";">>
      [] kind = "export" -> <<"export">> \o Written(node[2])
      \* Members of a body: a property named by a keyword or by a name.
      [] kind = "keyword" -> <<node[2], ":">> \o Written(node[3])
      [] kind = "blank" -> [i \in 1 .. node[2] |-> ";"]
      [] OTHER -> <<node[1], ":">> \o Written(node[2])

Text(body) == FlattenSeq([i \in DOMAIN body |-> Written(body[i])])

--------------------------------------------------------------------------------
(* What a program says that nothing reads.                                  *)

\* The members that the parser has a case for, in the body of each kind.
Reads(kind) ==
    CASE kind = "cluster" -> {"replicas", "zones", "state", "function"}
      [] kind = "node" -> {"state", "function"}
      [] kind \in {"contract", "cross_chain"} -> {"function"}
      [] kind = "pipeline" -> {}

\* The declaration with its other members blank.
Meant(node) ==
    IF node[1] \notin {"cluster", "node", "contract", "cross_chain", "pipeline"} THEN node
    ELSE [node EXCEPT ![Len(node)] =
            [i \in DOMAIN @ |-> IF @[i][1] \in Reads(node[1]) THEN @[i]
                               ELSE <<"blank", Len(Written(@[i]))>>]]

MeantText(body) == Text([i \in DOMAIN body |-> Meant(body[i])])

--------------------------------------------------------------------------------
(* The programs.                                                            *)

One == <<"int", 1>>
X == <<"name", "x">>
Let(name, value) == <<"let", name, value>>
Binary(operator, left, right) == <<"binary", operator, left, right>>
Call(name, args) == <<"expression", <<"call", <<"name", name>>, args>>>>
Do(statements) == <<"block", statements>>
Less == Binary("<", X, <<"int", 3>>)
Count == <<"assign", "x", Binary("+", X, One)>>
Vote == <<"consensus", X, "<!>", << <<"validators", <<"int", 2>>>> >> >>
Method == <<"function", "m", <<"a">>, Do(<< <<"return", <<"name", "a">>>> >>)>>

\* An object of the program with the field that marks a return.
Marked == <<"object", << <<"type", <<"string", "'return'">>>>, <<"value", One>> >> >>

\* Expressions of every strength inside expressions of every strength.
Operands ==
    {Binary(operator, X, One) : operator \in {"||", "&&", "==", "<", "+", "-", "*"}} \cup
    {Vote, <<"unary", "!", X>>, <<"array", <<One, X>>>>, <<"time", 2, "s">>, <<"null">>,
     <<"call", X, <<One, Vote>>>>, <<"member", X, "y">>, <<"index", X, One>>, Marked}

Expressions ==
    {Binary(operator, a, b) : operator \in {"||", "==", "-", "*"}, a, b \in Operands} \cup
    {<<"unary", "-", a>> : a \in Operands} \cup {<<"index", a, a>> : a \in Operands} \cup
    {<<"call", a, <<a>>>> : a \in Operands} \cup {<<"member", a, "y">> : a \in Operands}

\* Programs that leave something for the next ones.
Programs ==
    { <<Let("x", One)>>,
      <<Let("r", Vote), <<"when", <<"name", "r">>, Do(<<Count>>)>> >>,
      \* A local variable with the name of an outer one, and a return in a loop.
      << <<"function", "f", <<"a">>,
           Do(<<Let("x", <<"name", "a">>), Let("t", X),
                <<"while", <<"bool", TRUE>>, Do(<<Count, <<"return", X>>>>)>> >>)>> >>,
      <<Call("f", <<One>>), Let("y", One)>>,
      \* Recursion, and two branches that return.
      << <<"function", "f", <<"n">>,
           Do(<< <<"if", Binary("<", <<"name", "n">>, One),
                   Do(<< <<"return", One>> >>),
                   Do(<< <<"return", <<"call", <<"name", "f">>,
                           <<Binary("-", <<"name", "n">>, One)>> >> >> >>)>> >>)>> >>,
      <<Let("x", <<"int", 0>>), <<"while", Less, Do(<<Let("t", X), Count>>)>> >>,
      \* What follows an if without an else.
      << <<"function", "g", <<>>,
           Do(<< <<"if", <<"bool", TRUE>>, Do(<<Count>>), None>>, Let("x", One)>>)>>,
         Call("g", <<>>)>>,
      <<Let("o", Marked), Let("z", One)>>,
      << <<"for", "i", <<"array", <<One, X>>>>,
           Do(<< <<"broadcast", <<"name", "i">>>> >>)>>,
         <<"phase", "p", Do(<< Call("assert", <<X>>) >>)>> >>,
      << <<"cross_chain", "C", <<"'a'", "'b'">>, <<Method>>>>,
         Let("c", <<"call", <<"member", <<"member", <<"name", "C">>, "methods">>, "m">>, <<One>>>>),
         Let("y", <<"member", <<"name", "c">>, "results">>)>>,
      \* `consensus` and `input` are keywords, so that the properties of that
      \* name are skipped; a node has no replicas, and a contract no state.
      << <<"node", "N", << <<"state", "x", One>>, <<"replicas", One>>, Method>>>>,
         <<"cluster", "K", << <<"replicas", One>>, <<"keyword", "consensus", <<"string", "PBFT">>>>,
                              <<"state", "k", None>>, Method>>>>,
         <<"pipeline", "P", << <<"keyword", "input", <<"string", "'a'">>>>,
                               <<"keyword", "output", <<"string", "'b'">>>> >> >>,
         Let("d", <<"member", <<"call", <<"static", "P", "execute">>, <<One>>>>, "data">>)>>,
      << <<"import", "'a'">>, <<"contract", "D", << <<"state", "x", None>>, Method>>>>, <<"export", Method>>, Call("m", <<One>>)>> }

\* Programs of the examples that are refused: `in` is no keyword, and
\* `new` and `stage` are, so that the parser takes neither the one for a name
\* nor the other for a member; and no line may start with a bracket.
Unsupported ==
    { <<"for", "v", "in", "x", "{", "}">>,
      <<"N", "::", "new", "(", ")", ";">>,
      <<"pipeline", "P", "{", "stage", "s", "{", "workers", ":", "2", "}", "}">>,
      <<"(", "x", ")", ";">> }

\* A line: its words, what it means, and whether it is a whole program.
Line(words, means, isWhole) == [words |-> words, meant |-> means, whole |-> isWhole]

\* Programs, lines that end before their program does, and an expression of
\* which the value is kept.
Whole == {Line(Text(body), MeantText(body), TRUE) : body \in Programs}
Refused == {Line(words, words, TRUE) : words \in Unsupported}
Beginnings ==
    UNION {{Line(SubSeq(l.words, 1, n), SubSeq(l.meant, 1, n), FALSE) : n \in 1 .. Len(l.words) - 1} :
             l \in Whole}
Values == {Line(Written(Let("y", e)), Written(Let("y", e)), TRUE) : e \in Expressions}

--------------------------------------------------------------------------------

Init == CompilerInit /\ lines = 0 /\ whole = FALSE /\ meant = <<>>

\* Only a first line ends before its time.  An expression ends the session,
\* with or without a program before it.
Lines ==
    Whole \cup Refused \cup
    (IF lines = 0 THEN Beginnings ELSE {}) \cup
    (IF lines <= 1 /\ answer \in {"none", "done"} THEN Values ELSE {})

Enter ==
    /\ lines < MaxLines
    /\ \E entered \in Lines :
         /\ run(entered.words)
         /\ whole' = entered.whole
         /\ meant' = entered.meant
         /\ lines' = IF entered \in Values THEN MaxLines ELSE lines + 1

Next == Enter

Spec == Init /\ [][Next]_vars

--------------------------------------------------------------------------------
(* What is checked.                                                         *)

\* The environments form a tree under the global one, every function was made
\* in one of them, and no more statements ran than there are.
LanguageTypeOK ==
    /\ answer \in Verdict
    /\ lines \in 0 .. MaxLines /\ whole \in BOOLEAN
    /\ ran \in 0 .. Len(lastAst)
    /\ \A i \in DOMAIN store.envs :
         /\ store.envs[i].parent \in IF i = GlobalEnv THEN {0} ELSE 1 .. i - 1
         /\ \A name \in DOMAIN store.envs[i].variables :
              LET value == store.envs[i].variables[name] IN
              value[1] = "function" => value[4] \in DOMAIN store.envs
    /\ Range(store.consensusLogs) \subseteq consensusOps

\* The keywords a line loses: each one that follows the block of an if and is
\* no else.  The condition of an if has no brace in these programs.
ClosesIf(words, at) ==
    /\ words[at] = "}"
    /\ \E open \in 1 .. at :
         /\ words[open] = "{"
         /\ \A k \in open .. at - 1 :
              Cardinality({i \in open .. k : words[i] = "{"}) >
              Cardinality({i \in open .. k : words[i] = "}"})
         /\ Cardinality({i \in open .. at : words[i] = "{"}) =
            Cardinality({i \in open .. at : words[i] = "}"})
         /\ \E start \in 1 .. open - 1 :
              /\ words[start] = "if"
              /\ \A i \in start .. open - 1 : words[i] \notin {"{", "}", ";"}

Lost(words) ==
    {at \in 2 .. Len(words) :
       /\ ClosesIf(words, at - 1)
       /\ words[at] \in keywords \ {"else"}}

\* The words that make a difference: semicolons may be left out.
Significant(words) == SelectSeq(words, LAMBDA w : w # ";")
Kept(words) == Significant([at \in DOMAIN words |-> IF at \in Lost(words) THEN ";" ELSE words[at]])

\* A line that ends inside a body whose unknown words are skipped.
Opened(words, at) ==
    Cardinality({i \in at .. Len(words) : words[i] = "{"}) >
    Cardinality({i \in at .. Len(words) : words[i] = "}"})

EndsInBody(words) ==
    \E at \in DOMAIN words :
      /\ words[at] \in {"node", "cluster", "contract", "pipeline"}
      /\ Opened(words, at)

\* The tree of a line says what the line says (parser.js): written out again
\* it gives the same words, with each operator on the operands that precedence
\* and brackets give it.  Two things are lost without a word: a keyword after
\* the block of an if (:406), and in a body every member the parser has no case
\* for (:161, :197, :222, :803, :875), as `consensus: PBFT` in a cluster and
\* `input:` in a pipeline.  A whole program is refused only when it has lost a
\* keyword or is of the kinds in Unsupported, and those always are; the parser
\* hangs only on a line that ends inside a body (:134, :184, :218, :785, :874).
CompiledAsWritten ==
    /\ answer \in {"done", "error"} =>
         /\ Significant(Text(lastAst)) = Kept(meant)
         /\ line \notin Unsupported
    /\ answer = "refused" => ~whole \/ Lost(line) # {} \/ line \in Unsupported
    /\ answer = "hangs" => ~whole /\ EndsInBody(line)

\* The names a program gives its top level.
TopLevelNames(body) ==
    {body[i][2] : i \in {k \in DOMAIN body : body[k][1] \in
       {"let", "function", "node", "cluster", "pipeline", "cross_chain"}}}

\* Whether a return of the program, or what passes for one, can end it.
RECURSIVE MayReturn(_)
MayReturn(node) ==
    CASE node[1] = "return" -> TRUE
      [] node[1] \in {"let", "assign"} -> node[3] = Marked
      [] node[1] \in {"if", "when", "while", "phase", "for"} ->
           \E i \in 3 .. Len(node) : MayReturn(node[i])
      [] node[1] = "block" -> \E i \in DOMAIN node[2] : MayReturn(node[2][i])
      [] OTHER -> FALSE

\* A call, a block or a loop leaves the program it is in as it is
\* (interpreter.js:347, :373): its return does not end that program, and its
\* variables do not become variables of the session.  A program that does not
\* throw runs to its end, or to a return of its own, for which the interpreter
\* also takes an object with the field type: "return" (:257).
CallsKeepToThemselves ==
    [][answer' \in {"done", "error"} =>
         /\ answer' = "done" => ran' = Len(lastAst') \/ MayReturn(lastAst'[ran'])
         /\ DOMAIN store'.envs[GlobalEnv].variables \subseteq
              DOMAIN store.envs[GlobalEnv].variables \cup TopLevelNames(lastAst')]_vars
===============================================================================
