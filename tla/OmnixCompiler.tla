----------------------------- MODULE OmnixCompiler -----------------------------
(* OmnixCompiler: a session in which programs are compiled and run one      *)
(* after the other by one interpreter.  The prompt reads each line as a     *)
(* program of its own; running a file is a session of a single program.     *)
EXTENDS OmnixInterpreter

VARIABLES
    line,           \* the words of the program that was entered last
    store,          \* the environments and the log of the interpreter
    lastAst,        \* the tree of the last program that was compiled
    ran,            \* how many of its statements were begun
    answer          \* what came of the last program

compilerVars == <<line, store, lastAst, ran, answer>>

\* What compile() and execute() say of a program.
Verdict == {"none", "refused", "error", "done", "hangs"}

CompilerInit ==
    /\ line = <<>>
    /\ store = InitialStore
    /\ lastAst = <<>>
    /\ ran = 0
    /\ answer = "none"

\* What compile() makes of the words: a tree, unless it throws.
compile(words) == parse(words)

\* A program that has been compiled is run, and what it did before it threw
\* stays done.
execute(body) ==
    \E either \in BOOLEAN :
    \E outcome \in {evaluateProgram(body, [store EXCEPT !.either = either])} :
      /\ store' = [outcome.store EXCEPT !.either = TRUE]
      /\ ran' = outcome.ran
      /\ answer' = IF outcome.value = Throw THEN "error" ELSE "done"

\* The line handler of the prompt.  While the parser loops it answers nothing.
run(words) ==
    /\ answer # "hangs"
    /\ line' = words
    /\ \E compiled \in {compile(words)} :
         \/ /\ compiled = {}
            /\ answer' = "refused"
            /\ UNCHANGED <<store, lastAst, ran>>
         \/ \E <<end, body>> \in compiled :
              IF end = Forever
              THEN /\ answer' = "hangs"
                   /\ UNCHANGED <<store, lastAst, ran>>
              ELSE /\ lastAst' = body
                   /\ execute(body)
===============================================================================
