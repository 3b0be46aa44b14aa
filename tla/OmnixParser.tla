------------------------------ MODULE OmnixParser ------------------------------
(* The recursive descent of Parser.  A parsing operator takes the words and *)
(* the place it starts at.  It returns the set of what it reads there: one  *)
(* pair of the place after it and the node of the tree, or nothing when the *)
(* code throws.  A place of Forever stands for a loop of the code that does *)
(* not end.  A node is a tuple that starts with its kind; types and         *)
(* annotations are read but leave no trace in the tree.                     *)
EXTENDS OmnixLexer

Forever == -1

\* An optional part that is not there: the value of a return, the initial
\* value of a state, the second branch of an if.
None == <<"none">>

\* Past the last word there is EOF, however far.
peek(words, at) == IF at \in DOMAIN words THEN words[at] ELSE "EOF"
match(words, at, type) == TokenType(peek(words, at)) = type
consume(words, at, type) == IF match(words, at, type) THEN at + 1 ELSE at

\* One expect() after another.
expect(words, at, pattern) ==
    IF \A i \in DOMAIN pattern : match(words, at + i - 1, pattern[i])
    THEN {<<at + Len(pattern), peek(words, at)>>}
    ELSE {}

RECURSIVE parseList(_, _, _, _, _), parseItem(_, _, _), parseType(_, _)
RECURSIVE parseExpression(_, _), parseBinary(_, _, _), parseOperands(_, _, _, _)
RECURSIVE parseUnary(_, _), parsePostfix(_, _, _), parsePrimary(_, _)
RECURSIVE parseBlock(_, _, _), parseStatement(_, _), parseIfStatement(_, _)
RECURSIVE parseBody(_, _, _, _), parseAnnotations(_, _), parseTopLevel(_, _)
RECURSIVE parseProgram(_, _, _)

\* A list up to its closing mark, with commas between the items.
parseList(words, at, item, close, items) ==
    IF match(words, at, close) THEN {<<at + 1, items>>}
    ELSE UNION {IF match(words, after, close) THEN {<<after + 1, Append(items, node)>>}
                ELSE UNION {parseList(words, next, item, close, Append(items, node)) :
                              <<next, comma>> \in expect(words, after, <<",">>)} :
                  <<after, node>> \in parseItem(words, at, item)}

parseItem(words, at, item) ==
    CASE item = "expression" -> parseExpression(words, at)
      [] item = "type" -> parseType(words, at)
      [] item = "chain" -> expect(words, at, <<"STRING">>)
      [] item = "parameter" ->
           UNION {{<<next, name>> : <<next, type>> \in parseType(words, after)} :
                    <<after, name>> \in expect(words, at, <<"IDENTIFIER", ":">>)}
      [] item = "property" ->
           UNION {{<<next, <<name, value>>>> : <<next, value>> \in parseExpression(words, after)} :
                    <<after, name>> \in expect(words, at, <<"IDENTIFIER", ":">>)}

\* A name, or one of the known types with its parameters.
parseType(words, at) ==
    IF match(words, at, "TYPE") /\ match(words, at + 1, "<")
    THEN {<<after, None>> : <<after, params>> \in parseList(words, at + 2, "type", ">", <<>>)}
    ELSE IF match(words, at, "TYPE") \/ match(words, at, "IDENTIFIER") THEN {<<at + 1, None>>}
    ELSE {}

\* What is put to a vote, and how; there is no second vote on the outcome.
parseExpression(words, at) ==
    UNION {IF ~match(words, after, "CONSENSUS_OP") THEN {<<after, value>>}
           ELSE UNION {{<<next, <<"consensus", value, words[after], options>>>> :
                          <<next, options>> \in parseList(words, body, "property", "}", <<>>)} :
                         <<body, brace>> \in expect(words, after + 1, <<"{">>)} :
             <<after, value>> \in parseBinary(words, at, 1)}

\* The binary operators from the weakest to the strongest.
Level == <<{"||"}, {"&&"}, {"==", "!="}, {">", ">=", "<", "<="}, {"+", "-"}, {"*", "/", "%"}>>

\* One method of the code for each level.
parseBinary(words, at, level) ==
    IF level > Len(Level) THEN parseUnary(words, at)
    ELSE UNION {parseOperands(words, after, level, left) :
                  <<after, left>> \in parseBinary(words, at, level + 1)}

\* Mutant: the right operand is read by the loop of its own level.
OperandsFromTheRight(words, at, level, left) ==
    IF peek(words, at) \notin Level[level] THEN {<<at, left>>}
    ELSE {<<after, <<"binary", words[at], left, right>>>> :
            <<after, right>> \in parseBinary(words, at + 1, level)}

\* The loop of a level: operands are taken from the left.
parseOperands(words, at, level, left) ==
    IF peek(words, at) \notin Level[level] THEN {<<at, left>>}
    ELSE UNION {parseOperands(words, after, level, <<"binary", words[at], left, right>>) :
                  <<after, right>> \in parseBinary(words, at + 1, level + 1)}

parseUnary(words, at) ==
    IF peek(words, at) \in {"!", "-"}
    THEN {<<after, <<"unary", words[at], operand>>>> :
            <<after, operand>> \in parseUnary(words, at + 1)}
    ELSE UNION {parsePostfix(words, after, left) : <<after, left>> \in parsePrimary(words, at)}

\* Calls, members and indexes, as long as there are any.
parsePostfix(words, at, left) ==
    CASE match(words, at, "(") ->
           UNION {parsePostfix(words, after, <<"call", left, args>>) :
                    <<after, args>> \in parseList(words, at + 1, "expression", ")", <<>>)}
      [] match(words, at, ".") ->
           UNION {parsePostfix(words, after, <<"member", left, name>>) :
                    <<after, name>> \in expect(words, at + 1, <<"IDENTIFIER">>)}
      [] match(words, at, "[") ->
           UNION {UNION {parsePostfix(words, next, <<"index", left, index>>) :
                           <<next, bracket>> \in expect(words, after, <<"]">>)} :
                    <<after, index>> \in parseExpression(words, at + 1)}
      [] OTHER -> {<<at, left>>}

\* Of the keywords, only true, false and null are expressions.
parsePrimary(words, at) ==
    LET word == peek(words, at) IN
    CASE match(words, at, "INTEGER") -> {<<at + 1, <<"int", NumberOf(word)>>>>}
      [] match(words, at, "STRING") -> {<<at + 1, <<"string", word>>>>}
      [] match(words, at, "TIME") -> {<<at + 1, <<"time", 2, "s">>>>}
      [] word \in {"true", "false"} -> {<<at + 1, <<"bool", word = "true">>>>}
      [] word = "null" -> {<<at + 1, <<"null">>>>}
      [] match(words, at, "IDENTIFIER") ->
           IF match(words, at + 1, "::")
           THEN {<<after, <<"static", word, method>>>> :
                   <<after, method>> \in expect(words, at + 2, <<"IDENTIFIER">>)}
           ELSE {<<at + 1, <<"name", word>>>>}
      [] match(words, at, "CONSENSUS_ALGO") -> {<<at + 1, <<"string", word>>>>}
      [] match(words, at, "[") ->
           {<<after, <<"array", elements>>>> :
              <<after, elements>> \in parseList(words, at + 1, "expression", "]", <<>>)}
      [] match(words, at, "{") ->
           {<<after, <<"object", properties>>>> :
              <<after, properties>> \in parseList(words, at + 1, "property", "}", <<>>)}
      [] match(words, at, "(") ->
           UNION {{<<next, inner>> : <<next, paren>> \in expect(words, after, <<")">>)} :
                    <<after, inner>> \in parseExpression(words, at + 1)}
      [] OTHER -> {}

\* The statements up to the closing brace, after the opening one.
parseBlock(words, at, statements) ==
    IF match(words, at, "}") THEN {<<at + 1, <<"block", statements>>>>}
    ELSE UNION {parseBlock(words, after, Append(statements, statement)) :
                  <<after, statement>> \in parseStatement(words, at)}

Block(words, at) ==
    UNION {parseBlock(words, body, <<>>) : <<body, brace>> \in expect(words, at, <<"{">>)}

\* An expression that ends a statement, with or without its semicolon.
Closing(words, at, start) ==
    {<<consume(words, after, ";"), Append(start, value)>> :
       <<after, value>> \in parseExpression(words, at)}

\* An expression and the block it decides about.
Guarded(words, at, start) ==
    UNION {{<<next, start \o <<condition, body>>>> : <<next, body>> \in Block(words, after)} :
             <<after, condition>> \in parseExpression(words, at)}

parseStatement(words, at) ==
    LET word == peek(words, at) IN
    CASE word = "let" ->
           UNION {Closing(words, after, <<"let", name>>) :
                    <<after, name>> \in expect(words, at + 1, <<"IDENTIFIER", "=">>)}
      [] word = "return" ->
           IF match(words, at + 1, ";") THEN {<<at + 2, <<"return", None>>>>}
           ELSE Closing(words, at + 1, <<"return">>)
      [] word = "if" -> parseIfStatement(words, at)
      [] word \in {"when", "while"} -> Guarded(words, at + 1, <<word>>)
      [] word = "phase" ->
           UNION {{<<next, <<"phase", name, body>>>> : <<next, body>> \in Block(words, after)} :
                    <<after, name>> \in expect(words, at + 1, <<"IDENTIFIER">>)}
      [] word = "broadcast" ->
           IF ~match(words, at + 1, "(") THEN {}
           ELSE UNION {{<<consume(words, next, ";"), <<"broadcast", event>>>> :
                          <<next, paren>> \in expect(words, after, <<")">>)} :
                         <<after, event>> \in parseExpression(words, at + 2)}
      [] word = "for" ->
           UNION {Guarded(words, after, <<"for", name>>) :
                    <<after, name>> \in expect(words, at + 1, <<"IDENTIFIER", "KEYWORD">>)}
      [] match(words, at, "IDENTIFIER") /\ match(words, at + 1, "=") ->
           Closing(words, at + 2, <<"assign", word>>)
      [] OTHER -> Closing(words, at, <<"expression">>)

\* Any keyword after the first branch is consumed, an else or not.
parseIfStatement(words, at) ==
    IF ~match(words, at, "KEYWORD") THEN {}
    ELSE UNION {IF peek(words, after) # "else"
                THEN {<<consume(words, after, "KEYWORD"), Append(branch, None)>>}
                ELSE {<<end, Append(branch, elseBranch)>> :
                        <<end, elseBranch>> \in IF match(words, after + 1, "{")
                                                THEN Block(words, after + 1)
                                                ELSE parseIfStatement(words, after + 1)} :
                  <<after, branch>> \in Guarded(words, at + 1, <<"if">>)}

parseAnnotation(words, at) ==
    UNION {IF match(words, after, "(") THEN parseList(words, after + 1, "property", ")", <<>>)
           ELSE {<<after, None>>} :
             <<after, mark>> \in expect(words, at, <<"@", "IDENTIFIER">>)}

parseState(words, at) ==
    UNION {UNION {IF match(words, next, "=") THEN Closing(words, next + 1, <<"state", name>>)
                  ELSE {<<consume(words, next, ";"), <<"state", name, None>>>>} :
                    <<next, type>> \in parseType(words, after)} :
             <<after, name>> \in expect(words, at + 1, <<"IDENTIFIER", ":">>)}

\* The first word, whatever it is, stands for function, service or on.
parseFunction(words, at) ==
    UNION {UNION {UNION {{<<end, <<"function", name, params, body>>>> :
                            <<end, body>> \in Block(words, start)} :
                           <<start, returnType>> \in IF match(words, next, "->")
                                                     THEN parseType(words, next + 1)
                                                     ELSE {<<next, None>>}} :
                    <<next, params>> \in parseList(words, after, "parameter", ")", <<>>)} :
             <<after, name>> \in expect(words, at + 1, <<"IDENTIFIER", "(">>)}

\* The members of a body up to its closing brace.  A word that begins none is
\* skipped, a brace of an inner body too; at the end of the text the loop
\* skips on for ever.  `consensus`, `input`, `output` and `stage` are
\* keywords, so that they never pass for identifiers.
parseBody(words, at, kind, members) ==
    LET word == peek(words, at)
        Named(names) == match(words, at, "IDENTIFIER") /\ word \in names
        Method == {"function"} \cup CASE kind = "cluster" -> {"service"}
                                      [] kind = "node" -> {"on"} [] OTHER -> {}
        Member(start) == IF peek(words, start) = "state" THEN parseState(words, start)
                         ELSE parseFunction(words, start)
        Continue(read) == UNION {parseBody(words, after, kind, Append(members, member)) :
                                   <<after, member>> \in read}
    IN CASE word = "EOF" -> {<<Forever, members>>}
         [] word = "}" -> {<<at + 1, members>>}
         [] kind = "cluster" /\ Named({"replicas", "consensus", "zones"}) ->
              Continue(parseItem(words, at, "property"))
         [] kind = "pipeline" /\ Named({"input", "output"}) ->
              Continue(parseItem(words, at, "property"))
         [] kind \in {"cluster", "node"} /\ word = "@" ->
              Continue(UNION {Member(after) : <<after, mark>> \in parseAnnotation(words, at)})
         [] \/ kind \in {"cluster", "node"} /\ word = "state"
            \/ kind # "pipeline" /\ word \in Method -> Continue(Member(at))
         [] OTHER -> parseBody(words, at + 1, kind, members)

\* A declaration that is a name and a body, after `pattern`.
Declaration(words, at, pattern, node, kind, details) ==
    UNION {{<<next, <<node, words[after - 2]>> \o details \o <<members>>>> :
              <<next, members>> \in parseBody(words, after, kind, <<>>)} :
             <<after, keyword>> \in expect(words, at, pattern \o <<"IDENTIFIER", "{">>)}

parseCrossChainContract(words, at) ==
    UNION {UNION {Declaration(words, after, <<")", "KEYWORD">>, "cross_chain", "contract",
                              <<chains>>) :
                    <<after, chains>> \in IF match(words, inside, "[")
                                          THEN parseList(words, inside + 1, "chain", "]", <<>>)
                                          ELSE {<<inside, <<>>>>}} :
             <<inside, keyword>> \in expect(words, at, <<"KEYWORD", "(">>)}

parseAnnotations(words, at) ==
    IF ~match(words, at, "@") THEN {<<at, None>>}
    ELSE UNION {parseAnnotations(words, after) : <<after, mark>> \in parseAnnotation(words, at)}

\* A line that does not start with a keyword, a name, a number or a text is
\* refused, so that of the expressions only some can stand alone.
parseDeclaration(words, at) ==
    LET word == peek(words, at) IN
    CASE word = "consensus" ->
           Declaration(words, at, <<"KEYWORD", "KEYWORD">>, "cluster", "cluster", <<>>)
      [] word \in {"node", "contract", "pipeline"} ->
           Declaration(words, at, <<"KEYWORD">>, word, word, <<>>)
      [] word = "function" -> parseFunction(words, at)
      [] word = "cross_chain" -> parseCrossChainContract(words, at)
      [] word = "import" ->
           {<<consume(words, after, ";"), <<"import", module>>>> :
              <<after, module>> \in expect(words, at + 1, <<"STRING">>)}
      [] word = "export" ->
           {<<after, <<"export", declaration>>>> :
              <<after, declaration>> \in parseTopLevel(words, at + 1)}
      [] OTHER ->
           IF TokenType(word) \in {"KEYWORD", "IDENTIFIER", "INTEGER", "STRING", "FLOAT"}
           THEN parseStatement(words, at)
           ELSE {}

parseTopLevel(words, at) ==
    UNION {parseDeclaration(words, start) : <<start, marks>> \in parseAnnotations(words, at)}

parseProgram(words, at, body) ==
    IF at = Forever \/ match(words, at, "EOF") THEN {<<at, body>>}
    ELSE UNION {parseProgram(words, after, Append(body, node)) :
                  <<after, node>> \in parseTopLevel(words, at)}

parse(words) == parseProgram(words, 1, <<>>)
===============================================================================
