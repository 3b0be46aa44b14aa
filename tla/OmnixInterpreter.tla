---------------------------- MODULE OmnixInterpreter ----------------------------
(* Interpreter and Environment.  A store holds the environments that have   *)
(* been made, each with its parent and its variables, and the log of the    *)
(* consensus operations.  Evaluating a node in an environment returns the   *)
(* store it leaves and a value; a value is a tuple that starts with its     *)
(* type.  Throw is the value of what has thrown: no statement runs after    *)
(* it.                                                                      *)
(*                                                                          *)
(* Values have no identity here, and a fraction, NaN, a joined text or a    *)
(* letter of a text is told apart no further than Other.  Where the code    *)
(* goes by what is left out, `either` of the store decides, and a session   *)
(* tries both.                                                              *)
EXTENDS OmnixParser, Functions, TLC

Throw == <<"throw">>
Null == <<"null">>
Undefined == <<"undefined">>
Other == <<"other">>

\* An object of the interpreted program, or of the interpreter itself: the
\* code makes no difference.
Object(fields) == <<"object", fields>>
Bool(b) == <<"bool", b>>

\* How a return statement reaches the function it is in.
ReturnOf(value) == Object([type |-> <<"string", "'return'">>, value |-> value])

Field(fields, name) == IF name \in DOMAIN fields THEN fields[name] ELSE Undefined

\* `value && value.type === 'return'`: any object with such a field.
IsReturn(value) == value[1] = "object" /\ Field(value[2], "type") = <<"string", "'return'">>

GlobalEnv == 1

\* The environment that holds the variable a name stands for, 0 for none.
RECURSIVE holder(_, _, _)
holder(envs, env, name) ==
    IF env = 0 \/ name \in DOMAIN envs[env].variables THEN env
    ELSE holder(envs, envs[env].parent, name)

get(store, env, name) ==
    LET at == holder(store.envs, env, name) IN
    IF at = 0 THEN Throw ELSE store.envs[at].variables[name]

define(store, env, name, value) ==
    [store EXCEPT !.envs[env].variables = (name :> value) @@ @]

\* Mutant: the new environment is made without its parent.
OrphanEnvironment(store, parent, variables) ==
    [store EXCEPT !.envs = Append(@, [parent |-> 0, variables |-> variables])]

\* A new environment, and its index in the store that has it.
Environment(store, parent, variables) ==
    [store EXCEPT !.envs = Append(@, [parent |-> parent, variables |-> variables])]
Newest(store) == Len(store.envs)

Outcome(store, value) == [store |-> store, value |-> value]

\* What is done with a value, unless there was a throw instead of it.
With(outcome, Next(_, _)) ==
    IF outcome.value = Throw THEN outcome ELSE Next(outcome.store, outcome.value)

\* Consensus always succeeds; 0 and the empty text count as true.  A letter
\* beyond the end of a text is undefined.
isTruthy(value, either) ==
    value \notin {Null, Undefined, Bool(FALSE)} /\ (value = Other => either)

\* What counts as true in assert(), ! and the logical operators.
Holds(value, either) == isTruthy(value, either) /\ value # <<"int", 0>>

\* `===`: two arrays, objects or functions are the same only when they are
\* one, however alike they are.
Same(left, right, either) ==
    IF Other \in {left, right} THEN either
    ELSE left = right /\
         (left[1] \notin {"int", "bool", "string", "null", "undefined"} => either)

\* What counts as a number, and as which: null and false as 0, true as 1.
Numeric(value) == value[1] \in {"int", "bool", "null"}
Number(value) == CASE value[1] = "int" -> value[2]
                   [] value = Bool(TRUE) -> 1 [] OTHER -> 0

\* Both operands have been evaluated: && and || choose between values.
\* Nothing is before or after undefined; of values that are no numbers, texts
\* and arrays are compared by their letters.
evaluateBinary(operator, left, right, either) ==
    LET l == Number(left)  r == Number(right)
        numbers == Numeric(left) /\ Numeric(right)
        Whole(exact, n) == IF numbers /\ exact THEN <<"int", n>> ELSE Other
        Ordered(inOrder) ==
            Bool(IF numbers THEN inOrder ELSE Undefined \notin {left, right} /\ either)
    IN
    CASE operator = "&&" -> IF Holds(left, either) THEN right ELSE left
      [] operator = "||" -> IF Holds(left, either) THEN left ELSE right
      [] operator = "==" -> Bool(Same(left, right, either))
      [] operator = "!=" -> Bool(~Same(left, right, either))
      [] operator = "+" -> Whole(TRUE, l + r)
      [] operator = "-" -> Whole(TRUE, l - r)
      [] operator = "*" -> Whole(TRUE, l * r)
      [] operator = "%" -> Whole(r > 0 /\ l >= 0, l % r)
      [] operator = "/" -> Whole(r > 0 /\ l >= 0 /\ l % r = 0, l \div r)
      [] operator = "<" -> Ordered(l < r)
      [] operator = "<=" -> Ordered(l <= r)
      [] operator = ">" -> Ordered(l > r)
      [] operator = ">=" -> Ordered(l >= r)

evaluateUnary(operator, operand, either) ==
    CASE operator = "!" -> Bool(~Holds(operand, either))
      [] Numeric(operand) -> <<"int", -Number(operand)>>
      [] OTHER -> Other

\* object[property].  A method of a built-in value is taken without its
\* object, so that calling it throws.
Member(object, property) ==
    CASE object[1] = "object" -> Field(object[2], property)
      [] object[1] = "array" ->
           CASE property = "length" -> <<"int", Len(object[2])>>
             [] property \in {"push", "map"} -> <<"unbound", property>> [] OTHER -> Undefined
      [] object[1] = "agreed" ->
           CASE property = "accepted" -> <<"unbound", property>>
             [] property = "value" -> object[2] [] OTHER -> Undefined
      [] OTHER -> Throw

evaluateIndex(object, index, either) ==
    CASE object[1] = "string" -> Other
      [] object = Other -> IF either THEN Other ELSE Throw
      [] object[1] # "array" -> Throw
      [] index[1] = "int" /\ index[2] + 1 \in DOMAIN object[2] -> object[2][index[2] + 1]
      [] OTHER -> Undefined

convertTime(value, unit) ==
    value * CASE unit = "ms" -> 1 [] unit = "s" -> 1000 [] unit = "m" -> 60000
              [] unit = "h" -> 3600000 [] unit = "days" -> 86400000

\* A value of a JavaScript object: of two that have one name, the later.
Entry(names, values, name) ==
    values[CHOOSE i \in DOMAIN names :
             names[i] = name /\ \A k \in DOMAIN names : names[k] = name => k <= i]

\* The parameters of a call: those without an argument are undefined.
Arguments(params, args) ==
    LET given == [i \in DOMAIN params |-> IF i \in DOMAIN args THEN args[i] ELSE Undefined]
    IN [name \in Range(params) |-> Entry(params, given, name)]

RECURSIVE evaluate(_, _, _), evaluateAll(_, _, _, _), evaluateStatements(_, _, _, _, _)
RECURSIVE call(_, _, _), onAllChains(_, _, _, _, _)
RECURSIVE evaluateFor(_, _, _, _, _), evaluateWhile(_, _, _)

\* The values of several nodes, in their order.
evaluateAll(nodes, env, store, values) ==
    IF nodes = <<>> THEN Outcome(store, values)
    ELSE With(evaluate(Head(nodes), env, store), LAMBDA next, value :
                evaluateAll(Tail(nodes), env, next, Append(values, value)))

\* Properties of an object, options of a vote.
Named(properties, env, store, Next(_, _)) ==
    LET names == [i \in DOMAIN properties |-> properties[i][1]] IN
    With(evaluateAll([i \in DOMAIN properties |-> properties[i][2]], env, store, <<>>),
         LAMBDA after, values :
           Next(after, [name \in Range(names) |-> Entry(names, values, name)]))

\* Statements run until one yields what passes for a return; `ran` counts
\* those that were begun.
evaluateStatements(statements, ran, env, store, last) ==
    IF ran = Len(statements) THEN [store |-> store, value |-> last, ran |-> ran]
    ELSE LET outcome == evaluate(statements[ran + 1], env, store) IN
         IF outcome.value = Throw \/ IsReturn(outcome.value)
         THEN [store |-> outcome.store, value |-> outcome.value, ran |-> ran + 1]
         ELSE evaluateStatements(statements, ran + 1, env, outcome.store, outcome.value)

\* Mutant: a block runs in the environment it is in.
BlockSharesScope(statements, env, store) ==
    LET outcome == evaluateStatements(statements, 0, env, store, Null)
    IN Outcome(outcome.store, outcome.value)

\* A block has an environment of its own.
evaluateBlock(statements, env, store) ==
    LET inner == Environment(store, env, <<>>)
        outcome == evaluateStatements(statements, 0, Newest(inner), inner, Null)
    IN Outcome(outcome.store, outcome.value)

evaluateFor(name, items, body, env, store) ==
    IF items = <<>> THEN Outcome(store, Null)
    ELSE With(evaluate(body, env, define(store, env, name, Head(items))), LAMBDA next, value :
           IF IsReturn(value) THEN Outcome(next, value)
           ELSE evaluateFor(name, Tail(items), body, env, next))

evaluateWhile(node, env, store) ==
    With(evaluate(node[2], env, store), LAMBDA tested, condition :
      IF ~isTruthy(condition, tested.either) THEN Outcome(tested, Null)
      ELSE With(evaluate(node[3], env, tested), LAMBDA next, value :
             IF IsReturn(value) THEN Outcome(next, value) ELSE evaluateWhile(node, env, next)))

\* Cross-chain methods run once per chain, and what each returns is stored
\* with the mark of the return still on it.
onAllChains(method, chains, args, store, results) ==
    IF chains = <<>>
    THEN Outcome(store, Object([success |-> Bool(TRUE), results |-> Object(results)]))
    ELSE LET chain == Head(chains)
             inner == Environment(store, method.env,
                        Arguments(method.params, args) @@
                        ("current_chain" :> <<"string", chain>>))
         IN With(evaluate(method.body, Newest(inner), inner), LAMBDA next, value :
              onAllChains(method, Tail(chains), args, next, (chain :> value) @@ results))

\* Mutant: the mark of a return is left on the value of a function.
LeftMarked(value) == value

\* A function takes the mark of a return off its value.
Unmarked(value) == IF IsReturn(value) THEN Field(value[2], "value") ELSE value

call(callee, args, store) ==
    CASE callee[1] = "function" ->
           LET inner == Environment(store, callee[4], Arguments(callee[2], args)) IN
           With(evaluate(callee[3], Newest(inner), inner), LAMBDA next, value :
             Outcome(next, Unmarked(value)))
      [] callee[1] = "onAllChains" -> onAllChains(callee[2], callee[3], args, store, <<>>)
      [] callee = <<"native", "println">> -> Outcome(store, Undefined)
      [] callee = <<"native", "assert">> ->
           Outcome(store, IF args # <<>> /\ Holds(Head(args), store.either)
                          THEN Undefined ELSE Throw)
      [] callee = <<"native", "execute">> ->
           Outcome(store, Object([success |-> Bool(TRUE), stages |-> <<"int", 0>>,
                                  data |-> IF args = <<>> THEN Undefined ELSE Head(args)]))
      [] callee[1] = "native" -> Outcome(store, Object([success |-> Bool(TRUE)]))
      [] OTHER -> Outcome(store, Throw)

\* The states and properties of a declaration, each in turn.  The methods of
\* a node and of a cluster are kept where no expression finds them.
RECURSIVE Declare(_, _, _)
Declare(members, env, store) ==
    IF members = <<>> THEN Outcome(store, Null)
    ELSE LET member == Head(members)
             Rest(next) == Declare(Tail(members), env, next)
         IN CASE member[1] = "function" -> Rest(store)
              [] member[1] = "state" ->
                   IF member[3] = None THEN Rest(define(store, env, member[2], Null))
                   ELSE With(evaluate(member[3], env, store), LAMBDA next, value :
                          Rest(define(next, env, member[2], value)))
              [] OTHER ->
                   With(evaluate(member[2], env, store), LAMBDA next, value :
                     Rest(define(next, env, member[1], value)))

\* A declaration has an environment of its own and a name in the outer one.
Declared(node, members, utilities, env, store, Value(_)) ==
    LET inner == Environment(store, env, utilities) IN
    With(Declare(members, Newest(inner), inner), LAMBDA next, value :
      Outcome(define(next, env, node[2], Value(Newest(inner))), Null))

\* Literals, names, operators, calls and votes.
evaluateExpression(node, env, store) ==
    CASE node[1] \in {"int", "string", "bool", "null"} -> Outcome(store, node)
      [] node[1] = "time" -> Outcome(store, <<"int", convertTime(node[2], node[3])>>)
      [] node[1] = "name" -> Outcome(store, get(store, env, node[2]))
      [] node[1] = "static" ->
           With(Outcome(store, get(store, env, node[2])), LAMBDA same, class :
             LET method == IF class[1] = "object" THEN Field(class[2], node[3]) ELSE Undefined IN
             Outcome(store, IF Holds(method, store.either) THEN method ELSE Throw))
      [] node[1] = "binary" ->
           With(evaluateAll(<<node[3], node[4]>>, env, store, <<>>), LAMBDA next, values :
             Outcome(next, evaluateBinary(node[2], values[1], values[2], next.either)))
      [] node[1] = "unary" ->
           With(evaluate(node[3], env, store), LAMBDA next, value :
             Outcome(next, evaluateUnary(node[2], value, next.either)))
      [] node[1] = "call" ->
           With(evaluateAll(<<node[2]>> \o node[3], env, store, <<>>), LAMBDA next, values :
             call(Head(values), Tail(values), next))
      [] node[1] = "member" ->
           With(evaluate(node[2], env, store), LAMBDA next, value :
             Outcome(next, Member(value, node[3])))
      [] node[1] = "index" ->
           With(evaluateAll(<<node[2], node[3]>>, env, store, <<>>), LAMBDA next, values :
             Outcome(next, evaluateIndex(values[1], values[2], next.either)))
      [] node[1] = "array" ->
           With(evaluateAll(node[2], env, store, <<>>), LAMBDA next, values :
             Outcome(next, <<"array", values>>))
      [] node[1] = "object" ->
           Named(node[2], env, store, LAMBDA next, fields : Outcome(next, Object(fields)))
      [] node[1] = "consensus" ->
           With(evaluate(node[2], env, store), LAMBDA asked, value :
             Named(node[4], env, asked, LAMBDA next, options :
               Outcome([next EXCEPT !.consensusLogs = Append(@, node[3])], <<"agreed", value>>)))

\* A let defines where it stands, an assignment where the name is found.
evaluateStatement(node, env, store) ==
    CASE node[1] = "let" ->
           With(evaluate(node[3], env, store), LAMBDA next, value :
             Outcome(define(next, env, node[2], value), value))
      [] node[1] = "assign" ->
           With(evaluate(node[3], env, store), LAMBDA next, value :
             LET at == holder(next.envs, env, node[2]) IN
             IF at = 0 THEN Outcome(next, Throw)
             ELSE Outcome(define(next, at, node[2], value), value))
      [] node[1] = "return" ->
           With(IF node[2] = None THEN Outcome(store, Null) ELSE evaluate(node[2], env, store),
                LAMBDA next, value : Outcome(next, ReturnOf(value)))
      [] node[1] = "expression" -> evaluate(node[2], env, store)
      [] node[1] = "broadcast" ->
           With(evaluate(node[2], env, store), LAMBDA next, value : Outcome(next, Null))
      [] node[1] = "phase" -> evaluate(node[3], env, store)
      [] node[1] \in {"if", "when"} ->
           With(evaluate(node[2], env, store), LAMBDA next, condition :
             IF isTruthy(condition, next.either) THEN evaluate(node[3], env, next)
             ELSE IF node[1] = "when" \/ node[4] = None THEN Outcome(next, Null)
             ELSE evaluate(node[4], env, next))
      [] node[1] = "while" -> evaluateWhile(node, env, store)
      [] node[1] = "for" ->
           With(evaluate(node[3], env, store), LAMBDA next, iterable :
             LET loop == Environment(next, env, <<>>)
                 isText == iterable[1] = "string" \/ (iterable = Other /\ next.either)
                 \* The letters of a text, of which one stands for all.
                 items == IF isText THEN <<Other>> ELSE iterable[2]
             IN IF ~isText /\ iterable[1] # "array" THEN Outcome(next, Throw)
                ELSE evaluateFor(node[2], items, node[4], Newest(loop), loop))
      [] node[1] = "block" -> evaluateBlock(node[2], env, store)

\* The methods of a cross-chain contract are the only ones a program can call.
evaluateCrossChainContract(node, env, store) ==
    LET utilities == [name \in {"lock_tokens", "mint_tokens", "emit"} |-> <<"native", name>>]
        names == [i \in DOMAIN node[4] |-> node[4][i][2]]
        Contract(inner) == Object(
          [type |-> <<"string", "cross_chain_contract">>,
           deploy |-> <<"native", "deploy">>,
           methods |-> Object([name \in Range(names) |->
             LET m == Entry(names, node[4], name) IN
             <<"onAllChains", [params |-> m[3], body |-> m[4], env |-> inner], node[3]>>])])
    IN Declared(node, <<>>, utilities, env, store, Contract)

\* Of a cluster the properties come before the states.
evaluateConsensusCluster(node, env, store) ==
    LET Members(kinds) == SelectSeq(node[3], LAMBDA m : m[1] \in kinds)
        IsProperty(m) == m[1] \notin {"state", "function"}
        Cluster(inner) == Object([type |-> <<"string", "cluster">>])
    IN Declared(node, SelectSeq(node[3], IsProperty) \o Members({"state"}), <<>>, env, store,
                Cluster)

\* No stage is ever parsed, so that execute() returns what it is given.
evaluatePipeline(node, env, store) ==
    LET Pipeline(inner) == Object([type |-> <<"string", "pipeline">>,
                                   execute |-> <<"native", "execute">>])
    IN Declared(node, node[3], <<>>, env, store, Pipeline)

\* new is a keyword: no expression names the constructor of a node.
evaluateNode(node, env, store) ==
    LET Constructor(inner) == Object([new |-> <<"native", "new">>])
    IN Declared(node, node[3], <<>>, env, store, Constructor)

\* A function keeps the environment it is declared in.
evaluateFunction(node, env, store) ==
    Outcome(define(store, env, node[2], <<"function", node[3], node[4], env>>), Null)

evaluate(node, env, store) ==
    CASE node[1] = "function" -> evaluateFunction(node, env, store)
      [] node[1] = "node" -> evaluateNode(node, env, store)
      [] node[1] = "cluster" -> evaluateConsensusCluster(node, env, store)
      [] node[1] = "pipeline" -> evaluatePipeline(node, env, store)
      [] node[1] = "cross_chain" -> evaluateCrossChainContract(node, env, store)
      \* Nodes of a kind the switch does not know.
      [] node[1] \in {"contract", "import", "export"} -> Outcome(store, Null)
      [] node[1] \in {"let", "assign", "return", "expression", "broadcast", "phase", "if",
                      "when", "while", "for", "block"} -> evaluateStatement(node, env, store)
      [] OTHER -> evaluateExpression(node, env, store)

\* A program runs in the global environment and may return too.
evaluateProgram(body, store) ==
    LET outcome == evaluateStatements(body, 0, GlobalEnv, store, Null) IN
    [outcome EXCEPT !.value = IF IsReturn(@) THEN Field(@[2], "value") ELSE @]

\* Of the built-in functions, the ones the programs of the model use.
InitialStore ==
    [envs |-> <<[parent |-> 0, variables |->
                   [name \in {"println", "assert"} |-> <<"native", name>>]]>>,
     consensusLogs |-> <<>>,
     either |-> TRUE]
===============================================================================
