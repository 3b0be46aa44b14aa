--------------------------- MODULE LanguageAdapters ---------------------------
(***************************************************************************)
(* adapters/python-adapter.js, javascript-adapter.js and sql-adapter.js:    *)
(* what validate() says of a program and what execute() makes of it.        *)
(*                                                                         *)
(* A program is one of a few samples, each with the traits that wrapCode(), *)
(* validate() and execute() tell apart.  The JavaScript and SQL adapters    *)
(* run a program in one go.  The Python adapter writes it to a file named   *)
(* by the millisecond and starts an interpreter: it may meet another call   *)
(* at each of its awaits.                                                   *)
(***************************************************************************)
EXTENDS Integers, FiniteSets

CONSTANTS
    Run,            \* calls of execute()
    NoFile,         \* there is no such file
    Blank,          \* the file is open for writing and still empty
    NoResult,       \* null, undefined, an error, or a promise
    MaxClock        \* bound: milliseconds that pass

VARIABLES
    clock,          \* Date.now()
    tempFiles,      \* omnix_<ms>.py -> NoFile, Blank, or the call that wrote it
    runs            \* call -> its program, where it is, and its outcome

adapterVars == <<clock, tempFiles, runs>>

ASSUME AdapterAssumption ==
    /\ MaxClock \in Nat
    /\ NoFile # Blank /\ {NoFile, Blank, NoResult} \cap Run = {}

\* The samples: with and without a `return' of their own, of one line or more.
Python == {"py return", "py statement", "py print", "py lines", "py lines after a blank",
           "py raising", "py broken"}
JavaScript == {"js return", "js promise", "js statement", "js throwing", "js broken"}
SQL == {"sql select", "sql select 1", "sql insert", "sql explain"}
Program == Python \cup JavaScript \cup SQL

\* wrapCode() makes the program the body of a function process(data), whose
\* result is only what a `return' of the program itself gives.
Returns == {"py return", "py lines after a blank", "js return", "js promise"}

\* The program's own code ends in an error.
Raises == {"py raising", "js throwing"}

\* validate() compiles the program as it stands, as a Python module or as a
\* script: there a `return' outside a function is a syntax error.
Compiles(p) == p \notin {"py broken", "js broken"} \cup Returns

Outcome == [success : BOOLEAN, data : Run \cup {NoResult}]

Failure == [success |-> FALSE, data |-> NoResult]

Success(c) == [success |-> TRUE, data |-> c]

-----------------------------------------------------------------------------
(* JavaScript and SQL                                                      *)

\* An exception of the program is caught and becomes the result; a promise is
\* the result itself, since __result is read before it settles.
executeJavaScript(c, p) ==
    IF p = "js broken" THEN Failure
    ELSE IF p = "js return" THEN Success(c) ELSE Success(NoResult)

\* SimpleSQLParser.parse(): the first word decides.
isModifying(p) == p = "sql insert"

\* execute() in mock mode, with executeMock(): what modifies is refused, all
\* else gets rows or an acknowledgement.
executeSQL(c, p) == IF isModifying(p) THEN Failure ELSE Success(c)

validateSQL(p) == p \notin {"sql insert", "sql select 1"}

\* AdapterManager.execute() and validate() pick the adapter of the type.
validate(p) ==
    IF p \in SQL THEN validateSQL(p) ELSE Compiles(p)

ExecuteAtOnce(c, p) ==
    /\ runs[c].state = "new" /\ p \in JavaScript \cup SQL
    /\ runs' = [runs EXCEPT ![c] = [@ EXCEPT
           !.program = p, !.state = "done",
           !.outcome = IF p \in SQL THEN executeSQL(c, p) ELSE executeJavaScript(c, p)]]
    /\ UNCHANGED <<clock, tempFiles>>

-----------------------------------------------------------------------------
(* Python                                                                  *)

\* wrapCode() indents the first line by eight columns and the others by four,
\* so that Python accepts several lines only if the first is blank.
WrappedCompiles(p) == p \notin {"py broken", "py lines"}

\* Mutant: all calls share one file.
FixedName == 0

\* The name execute() gives its file.
FileName == clock

BeginPython(c, p) ==
    /\ runs[c].state = "new" /\ p \in Python
    /\ runs' = [runs EXCEPT ![c] = [@ EXCEPT
           !.program = p, !.state = "opening", !.file = FileName, !.began = clock]]
    /\ UNCHANGED <<clock, tempFiles>>

\* fs.writeFile() opens, which empties the file, and then writes.
OpenFile(c) ==
    /\ runs[c].state = "opening"
    /\ tempFiles' = [tempFiles EXCEPT ![runs[c].file] = Blank]
    /\ runs' = [runs EXCEPT ![c].state = "writing"]
    /\ UNCHANGED clock

WriteFile(c) ==
    /\ runs[c].state = "writing"
    /\ tempFiles' = [tempFiles EXCEPT ![runs[c].file] = c]
    /\ runs' = [runs EXCEPT ![c].state = "starting"]
    /\ UNCHANGED clock

\* What the wrapped program of a call makes of itself: what it returns or
\* prints, or the `null' that the wrapper prints; an exception exits with 1.
Interpreted(c, p) ==
    IF ~WrappedCompiles(p) \/ p \in Raises THEN Failure
    ELSE IF p \in Returns \cup {"py print"} THEN Success(c) ELSE Success(NoResult)

\* What becomes of the file the interpreter finds: none, an empty one, whose
\* empty output parseOutput() turns into null, or a call's program.
Output(content) ==
    IF content = NoFile THEN Failure
    ELSE IF content = Blank THEN Success(NoResult)
    ELSE Interpreted(content, runs[content].program)

\* executeCommand() spawns the interpreter, which reads the file.
RunPython(c) ==
    /\ runs[c].state = "starting"
    /\ runs' = [runs EXCEPT ![c].state = "cleaning",
                            ![c].outcome = Output(tempFiles[runs[c].file])]
    /\ UNCHANGED <<clock, tempFiles>>

\* The finally block unlinks the file and ignores that there is none.
Cleanup(c) ==
    /\ runs[c].state = "cleaning"
    /\ tempFiles' = [tempFiles EXCEPT ![runs[c].file] = NoFile]
    /\ runs' = [runs EXCEPT ![c].state = "done"]
    /\ UNCHANGED clock

Millisecond ==
    /\ clock < MaxClock
    /\ clock' = clock + 1
    /\ UNCHANGED <<tempFiles, runs>>

AdapterInit ==
    /\ clock = 0
    /\ tempFiles = [f \in 0..MaxClock |-> NoFile]
    /\ runs = [c \in Run |-> [state |-> "new", program |-> "py broken", file |-> 0,
                              began |-> 0, outcome |-> Failure]]

AdapterNext ==
    \/ Millisecond
    \/ \E c \in Run :
          \/ \E p \in Program : ExecuteAtOnce(c, p) \/ BeginPython(c, p)
          \/ OpenFile(c) \/ WriteFile(c) \/ RunPython(c) \/ Cleanup(c)

AdapterTypeOK ==
    /\ clock \in 0..MaxClock
    /\ tempFiles \in [0..MaxClock -> Run \cup {NoFile, Blank}]
    /\ runs \in [Run -> [state : {"new", "opening", "writing", "starting", "cleaning", "done"},
                         program : Program, file : 0..MaxClock, began : 0..MaxClock,
                         outcome : Outcome]]

\* Another Python call, that began in the same millisecond.
Overlaps(d, c) ==
    /\ d # c /\ runs[d].state # "new" /\ runs[d].program \in Python
    /\ runs[d].began = runs[c].began

\* What execute() returns to call c if no other call interferes.
OwnOutcome(c, p) ==
    IF p \in Python THEN Interpreted(c, p)
    ELSE IF p \in SQL THEN executeSQL(c, p) ELSE executeJavaScript(c, p)

\* However the writing, running and unlinking of temporary files interleave, a
\* call gets the outcome of its own program, and never that of a call whose
\* file is another: only a Python call of the same millisecond, which shares
\* the file, may leave it without a result or with the other's.  A program that
\* validate() accepts then fails only by an error of its own, or for having
\* several lines in Python.
\* (python-adapter.js:30-68, 99-156; javascript-adapter.js:21-79, 156-180)
OutcomesAreOwn ==
    \A c \in Run :
        LET p == runs[c].program
            outcome == runs[c].outcome
            sharers == {d \in Run : p \in Python /\ Overlaps(d, c)}
        IN  runs[c].state = "done" =>
               /\ sharers = {} => outcome = OwnOutcome(c, p)
               /\ outcome.data \in {c, NoResult} \cup sharers
               /\ sharers = {} /\ validate(p) /\ p \notin Raises \cup {"py lines"}
                     => outcome.success
=============================================================================
