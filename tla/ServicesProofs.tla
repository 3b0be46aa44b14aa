---------------------------- MODULE ServicesProofs ----------------------------
(***************************************************************************)
(* Theorems about the services for any calls, users, teams, executions,    *)
(* sockets and runs.  Each service keeps an invariant of its own; the last *)
(* section puts them together for the behaviours of MCServices.            *)
(***************************************************************************)
EXTENDS MCServices, TLAPS

-----------------------------------------------------------------------------
(* The server.                                                             *)

\* As the code is, a client can name an execution only after it has left the
\* table: no stop or status request finds one, and no event reaches a subscriber.
KnownIdsAreFinished ==
    /\ known \cap executorTable = {}
    /\ answers \subseteq {"stop", "status"} \X {"404"}
    /\ received = {}

\* A known execution is answered, one in the table is not, and a socket
\* subscribes to what its client knows.
ServerInv ==
    /\ ServerTypeOK
    /\ KnownIdsAreFinished
    /\ \A e \in known : requests[e].state = "answered"
    /\ TableHoldsTheUnanswered
    /\ \A s \in Socket : subscription[s] \in known \cup {NoExecution}

LEMMA ServerInitInv == ServerInit => ServerInv
<1>1. 0 \in 0..MaxEvents
  BY ServerAssumption
<1>2. QED
  BY <1>1 DEF ServerInit, ServerInv, ServerTypeOK, TableHoldsTheUnanswered, KnownIdsAreFinished, RequestState

\* The requests after the state of one of them has been set.
LEMMA RequestStateSet ==
    ASSUME ServerTypeOK, NEW e \in Execution, NEW st \in RequestState,
           requests' = [requests EXCEPT ![e].state = st]
    PROVE  /\ requests' \in [Execution -> [state : RequestState, events : 0..MaxEvents]]
           /\ requests'[e].state = st
           /\ \A f \in Execution \ {e} : requests'[f] = requests[f]
<1>1. requests \in [Execution -> [state : RequestState, events : 0..MaxEvents]]
  BY DEF ServerTypeOK
<1>2. requests' = [requests EXCEPT ![e] = [requests[e] EXCEPT !.state = st]]
  OBVIOUS
<1>3. /\ [requests[e] EXCEPT !.state = st] \in [state : RequestState, events : 0..MaxEvents]
      /\ [requests[e] EXCEPT !.state = st].state = st
  BY <1>1
<1>4. QED
  BY <1>1, <1>2, <1>3

LEMMA ServerStepInv ==
    ASSUME ServerInv, ServerNext
    PROVE  ServerInv'
<1>1. /\ ServerTypeOK /\ KnownIdsAreFinished
      /\ requests \in [Execution -> [state : RequestState, events : 0..MaxEvents]]
      /\ \A e \in known : requests[e].state = "answered"
      /\ executorTable = {e \in Execution : requests[e].state = "executing"}
      /\ \A s \in Socket : subscription[s] \in known \cup {NoExecution}
  BY DEF ServerInv, ServerTypeOK, TableHoldsTheUnanswered
<1>2. {"executing", "answered", "lost"} \subseteq RequestState
  BY DEF RequestState
<1>3. ASSUME NEW e \in Execution, PostExecute(e) PROVE ServerInv'
  <2>1. requests' = [requests EXCEPT ![e].state = "executing"]
    BY <1>3 DEF PostExecute
  <2>2. /\ requests' \in [Execution -> [state : RequestState, events : 0..MaxEvents]]
        /\ requests'[e].state = "executing"
        /\ \A f \in Execution \ {e} : requests'[f] = requests[f]
    BY <1>1, <1>2, <2>1, RequestStateSet
  <2>3. e \notin known
    BY <1>1, <1>3 DEF PostExecute
  <2>4. QED
    BY <1>1, <1>3, <2>2, <2>3
    DEF PostExecute, ServerInv, ServerTypeOK, TableHoldsTheUnanswered, KnownIdsAreFinished
<1>4. ASSUME NEW e \in Execution, ForwardEvent(e) PROVE ServerInv'
  <2>1. /\ requests[e].state = "executing" /\ requests[e].events < MaxEvents
        /\ requests' = [requests EXCEPT ![e] =
                          [requests[e] EXCEPT !.events = requests[e].events + 1]]
    BY <1>4 DEF ForwardEvent
  <2>2. e \notin known /\ e # NoExecution
    BY <1>1, <2>1, ServerAssumption
  <2>3. broadcast(e) = {}
    <3>1. connections \subseteq Socket
      BY <1>1 DEF ServerTypeOK
    <3>2. QED
      BY <1>1, <2>2, <3>1 DEF broadcast
  <2>4. received' = {}
    BY <1>1, <1>4, <2>3 DEF ForwardEvent, KnownIdsAreFinished
  <2>5. requests[e].events \in 0..MaxEvents /\ requests[e].state \in RequestState
    BY <1>1
  <2>6. requests[e].events + 1 \in 0..MaxEvents
    BY <2>1, <2>5, ServerAssumption
  <2>7. /\ [requests[e] EXCEPT !.events = requests[e].events + 1]
             \in [state : RequestState, events : 0..MaxEvents]
        /\ [requests[e] EXCEPT !.events = requests[e].events + 1].state = requests[e].state
    BY <1>1, <2>6
  <2>8. /\ requests' \in [Execution -> [state : RequestState, events : 0..MaxEvents]]
        /\ \A f \in Execution : requests'[f].state = requests[f].state
    BY <1>1, <2>1, <2>7
  <2>9. UNCHANGED <<serving, executorTable, known, connections, subscription, answers>>
    BY <1>4 DEF ForwardEvent
  <2>10. known \subseteq Execution /\ executorTable \subseteq Execution
    BY <1>1 DEF ServerTypeOK
  <2>11. QED
    BY <1>1, <2>4, <2>8, <2>9, <2>10 DEF ServerInv, ServerTypeOK, TableHoldsTheUnanswered, KnownIdsAreFinished
<1>5. ASSUME NEW e \in Execution, AnswerExecute(e) PROVE ServerInv'
  <2>1. requests' = [requests EXCEPT ![e].state = "answered"]
    BY <1>5 DEF AnswerExecute
  <2>2. /\ requests' \in [Execution -> [state : RequestState, events : 0..MaxEvents]]
        /\ requests'[e].state = "answered"
        /\ \A f \in Execution \ {e} : requests'[f] = requests[f]
    BY <1>1, <1>2, <2>1, RequestStateSet
  <2>3. QED
    BY <1>1, <1>5, <2>2
    DEF AnswerExecute, ServerInv, ServerTypeOK, TableHoldsTheUnanswered, KnownIdsAreFinished
<1>6. ASSUME NEW e \in Execution, PostStop(e) \/ GetStatus(e) PROVE ServerInv'
  <2>1. Found(e) = "404"
    BY <1>1, <1>6 DEF PostStop, GetStatus, Found, KnownIdsAreFinished
  <2>2. answers' \subseteq {"stop", "status"} \X {"404"}
    BY <1>1, <1>6, <2>1 DEF PostStop, GetStatus, KnownIdsAreFinished
  <2>3. UNCHANGED <<serving, executorTable, requests, known, connections, subscription,
                    received>>
    BY <1>6 DEF PostStop, GetStatus
  <2>4. QED
    BY <1>1, <2>2, <2>3 DEF ServerInv, ServerTypeOK, TableHoldsTheUnanswered, KnownIdsAreFinished
<1>7. ASSUME NEW s \in Socket, Connect(s) PROVE ServerInv'
  BY <1>1, <1>7 DEF Connect, ServerInv, ServerTypeOK, TableHoldsTheUnanswered, KnownIdsAreFinished
<1>8. ASSUME NEW s \in Socket, Disconnect(s) PROVE ServerInv'
  BY <1>1, <1>8 DEF Disconnect, ServerInv, ServerTypeOK, TableHoldsTheUnanswered, KnownIdsAreFinished
<1>9. ASSUME NEW s \in Socket, NEW e \in Execution, Subscribe(s, e) PROVE ServerInv'
  BY <1>1, <1>9 DEF Subscribe, ServerInv, ServerTypeOK, TableHoldsTheUnanswered, KnownIdsAreFinished
<1>10. ASSUME StopServer PROVE ServerInv'
  <2>1. requests' \in [Execution -> [state : RequestState, events : 0..MaxEvents]]
    BY <1>1, <1>2, <1>10 DEF StopServer
  <2>2. \A e \in known : e \in Execution /\ requests'[e].state = "answered"
    BY <1>1, <1>10 DEF StopServer, ServerTypeOK
  <2>3. /\ serving' = FALSE /\ executorTable' = {} /\ connections' = {}
        /\ UNCHANGED <<known, subscription, received, answers>>
    BY <1>10 DEF StopServer
  <2>4. \A e \in Execution : requests'[e].state # "executing"
    BY <1>1, <1>10 DEF StopServer
  <2>5. ServerTypeOK'
    BY <1>1, <2>1, <2>3 DEF ServerTypeOK
  <2>6. KnownIdsAreFinished' /\ TableHoldsTheUnanswered'
    BY <1>1, <2>3, <2>4 DEF KnownIdsAreFinished, TableHoldsTheUnanswered
  <2>7. QED
    BY <1>1, <2>2, <2>3, <2>5, <2>6 DEF ServerInv
<1>11. QED
  BY <1>3, <1>4, <1>5, <1>6, <1>7, <1>8, <1>9, <1>10 DEF ServerNext

LEMMA ServerStutter ==
    ASSUME ServerInv, UNCHANGED serverVars
    PROVE  ServerInv'
BY DEF ServerInv, ServerTypeOK, TableHoldsTheUnanswered, KnownIdsAreFinished, serverVars

-----------------------------------------------------------------------------
(* The adapters.                                                           *)

\* Python calls that share a file with c.
Sharers(c) == {d \in Run : runs[c].program \in Python /\ Overlaps(d, c)}

Overlapped(c) == \E d \in Run : Overlaps(d, c)

\* A Python call that no other one overlaps finds its file as it left it, and
\* any call that is done has the outcome of its own program, or an outcome of
\* one that shares its file.
RunInv(c) ==
    LET r == runs[c]
    IN  /\ r.state \in {"opening", "writing", "starting", "cleaning"} =>
             r.program \in Python /\ r.file = r.began
        /\ r.program \in Python /\ r.state # "new" => r.file = r.began
        /\ r.program \in Python /\ ~Overlapped(c) =>
             /\ r.state = "starting" => tempFiles[r.file] = c
             /\ r.state \in {"cleaning", "done"} => r.outcome = OwnOutcome(c, r.program)
        /\ r.program \notin Python /\ r.state = "done" =>
             r.outcome = OwnOutcome(c, r.program)
        /\ r.state \in {"cleaning", "done"} => r.outcome.data \in {c, NoResult} \cup Sharers(c)

\* A file holds a program of a Python call that began in its millisecond.
FileInv(f) ==
    tempFiles[f] \in Run =>
        LET r == runs[tempFiles[f]]
        IN  r.state # "new" /\ r.program \in Python /\ r.began = f

AdapterInv ==
    /\ AdapterTypeOK
    /\ \A c \in Run : RunInv(c)
    /\ \A f \in 0..MaxClock : FileInv(f)

Outcomes == [state : {"new", "opening", "writing", "starting", "cleaning", "done"},
             program : Program, file : 0..MaxClock, began : 0..MaxClock, outcome : Outcome]

LEMMA AdapterInitInv == AdapterInit => AdapterInv
<1> SUFFICES ASSUME AdapterInit PROVE AdapterInv
  OBVIOUS
<1>1. 0 \in 0..MaxClock
  BY AdapterAssumption
<1>2. "py broken" \in Program /\ Failure \in Outcome
  BY DEF Program, Python, Failure, Outcome
<1>3. AdapterTypeOK
  BY <1>1, <1>2 DEF AdapterInit, AdapterTypeOK
<1>4. \A c \in Run : runs[c].state = "new" /\ runs[c].file = runs[c].began
  BY DEF AdapterInit
<1>5. \A f \in 0..MaxClock : tempFiles[f] \notin Run
  BY AdapterAssumption DEF AdapterInit
<1>6. QED
  BY <1>3, <1>4, <1>5 DEF AdapterInv, RunInv, FileInv

\* Calls that share a file go on sharing it, as long as they keep what they run
\* and when they began.
LEMMA SharersStay ==
    ASSUME NEW c \in Run, runs[c].state # "new",
           \A d \in Run : /\ runs'[d].state # "new" \/ runs[d].state = "new"
                          /\ runs[d].state # "new" =>
                               runs'[d].program = runs[d].program /\ runs'[d].began = runs[d].began
    PROVE  /\ Overlapped(c) => Overlapped(c)'
           /\ Sharers(c) \subseteq Sharers(c)'
<1>1. ASSUME NEW d \in Run, Overlaps(d, c) PROVE Overlaps(d, c)'
  BY <1>1 DEF Overlaps
<1>2. QED
  BY <1>1 DEF Overlapped, Sharers

\* The outcome of a program is of its type.
LEMMA OutcomesTyped ==
    ASSUME NEW c \in Run, NEW p \in Program
    PROVE  /\ OwnOutcome(c, p) \in Outcome /\ OwnOutcome(c, p).data \in {c, NoResult}
           /\ Interpreted(c, p) \in Outcome /\ Interpreted(c, p).data \in {c, NoResult}
<1> DEFINE Own == {o \in Outcome : o.data \in {c, NoResult}}
<1>1. Success(c) \in Own /\ Success(NoResult) \in Own /\ Failure \in Own
  BY DEF Success, Failure, Outcome
<1> HIDE DEF Own
<1>2. executeSQL(c, p) \in Own
  BY <1>1 DEF executeSQL
<1>3. executeJavaScript(c, p) \in Own
  BY <1>1 DEF executeJavaScript
<1>4. Interpreted(c, p) \in Own
  BY <1>1 DEF Interpreted
<1>5. OwnOutcome(c, p) \in Own
  BY <1>2, <1>3, <1>4 DEF OwnOutcome
<1>6. QED
  BY <1>4, <1>5 DEF Own

\* The step of one call: it becomes r, and the file it may write is its own.
LEMMA RunChanges ==
    ASSUME AdapterInv, NEW c \in Run, NEW r \in Outcomes,
           runs' = [runs EXCEPT ![c] = r],
           clock' = clock,
           r.state # "new",
           runs[c].state # "new" =>
             r.program = runs[c].program /\ r.began = runs[c].began /\ r.file = runs[c].file,
           r.program \in Python => r.file = r.began,
           NEW v \in {c, NoFile, Blank},
           \/ tempFiles' = tempFiles
           \/ r.program \in Python /\ tempFiles' = [tempFiles EXCEPT ![r.file] = v],
           RunInv(c)'
    PROVE  AdapterInv'
<1>1. /\ runs \in [Run -> Outcomes] /\ tempFiles \in [0..MaxClock -> Run \cup {NoFile, Blank}]
      /\ clock \in 0..MaxClock
  BY DEF AdapterInv, AdapterTypeOK, Outcomes
<1>2. r.file \in 0..MaxClock
  BY DEF Outcomes
<1>3. AdapterTypeOK'
  <2>1. runs' \in [Run -> Outcomes]
    BY <1>1
  <2>2. tempFiles' \in [0..MaxClock -> Run \cup {NoFile, Blank}]
    BY <1>1, <1>2
  <2>3. QED
    BY <1>1, <2>1, <2>2 DEF AdapterTypeOK, Outcomes
<1>4. runs'[c] = r /\ \A d \in Run \ {c} : runs'[d] = runs[d]
  BY <1>1
<1>5. ASSUME NEW d \in Run \ {c} PROVE RunInv(d)'
  <2>1. RunInv(d) /\ runs'[d] = runs[d]
    BY <1>4 DEF AdapterInv
  <2>2. CASE runs[d].state = "new"
    BY <2>1, <2>2 DEF RunInv
  <2>3. CASE runs[d].state # "new" /\ runs[d].program \notin Python
    BY <2>1, <2>3 DEF RunInv, Sharers
  <2>4. CASE runs[d].state # "new" /\ runs[d].program \in Python
    <3>1. (Overlapped(d) => Overlapped(d)') /\ Sharers(d) \subseteq Sharers(d)'
      <4>1. \A x \in Run : /\ runs'[x].state # "new" \/ runs[x].state = "new"
                           /\ runs[x].state # "new" =>
                                runs'[x].program = runs[x].program /\ runs'[x].began = runs[x].began
        BY <1>4
      <4>2. QED
        BY <2>4, <4>1, SharersStay
    <3>2. ~Overlapped(d)' => tempFiles'[runs[d].file] = tempFiles[runs[d].file]
      <4>1. SUFFICES ASSUME ~Overlapped(d)', tempFiles' # tempFiles
                     PROVE  tempFiles'[runs[d].file] = tempFiles[runs[d].file]
        OBVIOUS
      <4>2. r.began # runs[d].began
        BY <1>4, <2>1, <4>1 DEF Overlapped, Overlaps
      <4>3. r.file # runs[d].file /\ runs[d].file \in 0..MaxClock
        <5>1. runs[d].file = runs[d].began /\ r.file = r.began
          BY <2>1, <2>4, <4>1 DEF RunInv
        <5>2. runs[d] \in Outcomes
          BY <1>1
        <5>3. QED
          BY <4>2, <5>1, <5>2 DEF Outcomes
      <4>4. QED
        BY <1>1, <1>2, <4>1, <4>3
    <3>3. QED
      BY <2>1, <2>4, <3>1, <3>2 DEF RunInv
  <2>5. QED
    BY <2>2, <2>3, <2>4
<1>6. ASSUME NEW f \in 0..MaxClock PROVE FileInv(f)'
  <2>1. FileInv(f) /\ c \notin {NoFile, Blank} /\ Run \cap {NoFile, Blank} = {}
    BY AdapterAssumption DEF AdapterInv
  <2>2. CASE tempFiles'[f] = tempFiles[f]
    BY <1>1, <1>4, <2>1, <2>2 DEF FileInv
  <2>3. CASE tempFiles'[f] # tempFiles[f]
    <3>1. f = r.file /\ r.program \in Python /\ r.file = r.began /\ tempFiles'[f] = v
      BY <1>1, <1>2, <2>3
    <3>2. QED
      BY <1>4, <2>1, <3>1 DEF FileInv
  <2>4. QED
    BY <2>2, <2>3
<1>7. QED
  BY <1>3, <1>5, <1>6 DEF AdapterInv

LEMMA AdapterStepInv ==
    ASSUME AdapterInv, AdapterNext
    PROVE  AdapterInv'
<1>1. /\ runs \in [Run -> Outcomes] /\ tempFiles \in [0..MaxClock -> Run \cup {NoFile, Blank}]
      /\ clock \in 0..MaxClock /\ \A c \in Run : RunInv(c)
      /\ \A f \in 0..MaxClock : FileInv(f)
  BY DEF AdapterInv, AdapterTypeOK, Outcomes
<1>2. CASE Millisecond
  <2>1. clock' \in 0..MaxClock /\ runs' = runs /\ tempFiles' = tempFiles
    BY <1>1, <1>2, AdapterAssumption DEF Millisecond
  <2>2. (\A c \in Run : RunInv(c)') /\ \A f \in 0..MaxClock : FileInv(f)'
    BY <1>1, <2>1 DEF RunInv, FileInv, Sharers, Overlapped, Overlaps
  <2>3. QED
    BY <1>1, <2>1, <2>2 DEF AdapterInv, AdapterTypeOK, Outcomes
<1>3. ASSUME NEW c \in Run, NEW p \in Program, ExecuteAtOnce(c, p) PROVE AdapterInv'
  <2> DEFINE r == [runs[c] EXCEPT !.program = p, !.state = "done",
                                  !.outcome = OwnOutcome(c, p)]
  <2>1. p \notin Python /\ p \in JavaScript \cup SQL
    BY <1>3 DEF ExecuteAtOnce, Python, JavaScript, SQL
  <2>2. runs' = [runs EXCEPT ![c] = r] /\ clock' = clock /\ tempFiles' = tempFiles
        /\ runs[c].state = "new"
    BY <1>3, <2>1 DEF ExecuteAtOnce, OwnOutcome
  <2>3. /\ r \in Outcomes /\ r.state = "done" /\ r.program = p
        /\ r.outcome = OwnOutcome(c, p) /\ r.outcome.data \in {c, NoResult}
    BY <1>1, OutcomesTyped DEF Outcomes
  <2> HIDE DEF r
  <2>4. runs'[c] = r
    BY <1>1, <2>2
  <2>5. RunInv(c)'
    BY <2>1, <2>3, <2>4 DEF RunInv
  <2>6. QED
    BY <2>1, <2>2, <2>3, <2>5, RunChanges
<1>4. ASSUME NEW c \in Run, NEW p \in Program, BeginPython(c, p) PROVE AdapterInv'
  <2> DEFINE r == [runs[c] EXCEPT !.program = p, !.state = "opening",
                                  !.file = clock, !.began = clock]
  <2>1. runs' = [runs EXCEPT ![c] = r] /\ clock' = clock /\ tempFiles' = tempFiles
        /\ runs[c].state = "new" /\ p \in Python
    BY <1>4 DEF BeginPython, FileName
  <2>2. /\ r \in Outcomes /\ r.state = "opening" /\ r.program = p
        /\ r.file = clock /\ r.began = clock
    BY <1>1 DEF Outcomes
  <2> HIDE DEF r
  <2>3. runs'[c] = r
    BY <1>1, <2>1
  <2>4. RunInv(c)'
    BY <2>1, <2>2, <2>3 DEF RunInv
  <2>5. QED
    BY <2>1, <2>2, <2>4, RunChanges
<1>5. ASSUME NEW c \in Run, OpenFile(c) PROVE AdapterInv'
  <2> DEFINE r == [runs[c] EXCEPT !.state = "writing"]
  <2>1. /\ runs' = [runs EXCEPT ![c] = r] /\ clock' = clock
        /\ tempFiles' = [tempFiles EXCEPT ![runs[c].file] = Blank]
        /\ runs[c].state = "opening"
    BY <1>5 DEF OpenFile
  <2>2. /\ r \in Outcomes /\ r.state = "writing" /\ r.program = runs[c].program
        /\ r.file = runs[c].file /\ r.began = runs[c].began
    BY <1>1 DEF Outcomes
  <2>3. r.program \in Python /\ r.file = r.began
    BY <1>1, <2>1, <2>2 DEF RunInv
  <2> HIDE DEF r
  <2>4. runs'[c] = r
    BY <1>1, <2>1
  <2>5. RunInv(c)'
    BY <2>2, <2>3, <2>4 DEF RunInv
  <2>6. QED
    BY <2>1, <2>2, <2>3, <2>5, RunChanges
<1>6. ASSUME NEW c \in Run, WriteFile(c) PROVE AdapterInv'
  <2> DEFINE r == [runs[c] EXCEPT !.state = "starting"]
  <2>1. /\ runs' = [runs EXCEPT ![c] = r] /\ clock' = clock
        /\ tempFiles' = [tempFiles EXCEPT ![runs[c].file] = c]
        /\ runs[c].state = "writing"
    BY <1>6 DEF WriteFile
  <2>2. /\ r \in Outcomes /\ r.state = "starting" /\ r.program = runs[c].program
        /\ r.file = runs[c].file /\ r.began = runs[c].began /\ r.file \in 0..MaxClock
    BY <1>1 DEF Outcomes
  <2>3. r.program \in Python /\ r.file = r.began
    BY <1>1, <2>1, <2>2 DEF RunInv
  <2> HIDE DEF r
  <2>4. runs'[c] = r /\ tempFiles'[r.file] = c
    BY <1>1, <2>1, <2>2
  <2>5. RunInv(c)'
    BY <2>2, <2>3, <2>4 DEF RunInv
  <2>6. QED
    BY <2>1, <2>2, <2>3, <2>5, RunChanges
<1>7. ASSUME NEW c \in Run, RunPython(c) PROVE AdapterInv'
  <2> DEFINE content == tempFiles[runs[c].file]
             r == [runs[c] EXCEPT !.state = "cleaning", !.outcome = Output(content)]
  <2>1. /\ runs' = [runs EXCEPT ![c] = r] /\ clock' = clock
        /\ tempFiles' = tempFiles /\ runs[c].state = "starting"
    BY <1>7 DEF RunPython
  <2>2. runs[c].file \in 0..MaxClock
    BY <1>1 DEF Outcomes
  <2>3. content \in Run \cup {NoFile, Blank}
    BY <1>1, <2>2
  <2>4. /\ Output(content) \in Outcome
        /\ \/ Output(content).data = NoResult
           \/ content \in Run /\ Output(content).data = content
    <3>1. /\ Failure \in Outcome /\ Failure.data = NoResult
          /\ Success(NoResult) \in Outcome /\ Success(NoResult).data = NoResult
      BY DEF Failure, Success, Outcome
    <3> HIDE DEF content
    <3>2. CASE content \in Run
      <4>1. runs[content].program \in Program /\ content # NoFile /\ content # Blank
        BY <1>1, <3>2, AdapterAssumption DEF Outcomes
      <4>2. /\ Interpreted(content, runs[content].program) \in Outcome
            /\ Interpreted(content, runs[content].program).data \in {content, NoResult}
        BY <3>2, <4>1, OutcomesTyped
      <4>3. QED
        BY <3>2, <4>1, <4>2 DEF Output
    <3>3. QED
      BY <2>3, <3>1, <3>2 DEF Output
  <2>5. /\ r \in Outcomes /\ r.state = "cleaning" /\ r.program = runs[c].program
        /\ r.file = runs[c].file /\ r.began = runs[c].began
        /\ r.outcome = Output(content)
    BY <1>1, <2>4 DEF Outcomes
  <2>6. r.program \in Python /\ r.file = r.began
    BY <1>1, <2>1, <2>5 DEF RunInv
  <2> HIDE DEF r
  <2>7. runs'[c] = r /\ \A d \in Run \ {c} : runs'[d] = runs[d]
    BY <1>1, <2>1
  <2>8. ~Overlapped(c)' => ~Overlapped(c)
    <3>1. \A d \in Run : /\ runs'[d].state # "new" \/ runs[d].state = "new"
                         /\ runs[d].state # "new" =>
                              runs'[d].program = runs[d].program /\ runs'[d].began = runs[d].began
      BY <2>5, <2>7
    <3>2. QED
      BY <2>1, <3>1, SharersStay
  <2>9. ~Overlapped(c)' => r.outcome = OwnOutcome(c, r.program)
    <3>1. SUFFICES ASSUME ~Overlapped(c)' PROVE r.outcome = OwnOutcome(c, r.program)
      OBVIOUS
    <3>2. content = c
      BY <1>1, <2>1, <2>5, <2>6, <2>8, <3>1 DEF RunInv
    <3>3. c # NoFile /\ c # Blank
      BY AdapterAssumption
    <3>4. QED
      BY <2>5, <2>6, <3>2, <3>3 DEF Output, OwnOutcome
  <2>10. r.outcome.data \in {c, NoResult} \cup Sharers(c)'
    <3>1. CASE content \in Run /\ content # c
      <4>1. runs[content].state # "new" /\ runs[content].program \in Python
            /\ runs[content].began = r.began
        BY <1>1, <2>2, <2>5, <2>6, <3>1 DEF FileInv
      <4>2. content \in Sharers(c)'
        <5> HIDE DEF content
        <5>1. QED
          BY <2>6, <2>7, <3>1, <4>1 DEF Sharers, Overlaps
      <4>3. QED
        BY <2>4, <2>5, <4>2
    <3>2. CASE content \notin Run \/ content = c
      BY <2>4, <2>5, <3>2
    <3>3. QED
      BY <3>1, <3>2
  <2>11. RunInv(c)'
    BY <2>5, <2>6, <2>7, <2>9, <2>10 DEF RunInv
  <2>12. QED
    BY <2>1, <2>5, <2>6, <2>11, RunChanges
<1>8. ASSUME NEW c \in Run, Cleanup(c) PROVE AdapterInv'
  <2> DEFINE r == [runs[c] EXCEPT !.state = "done"]
  <2>1. /\ runs' = [runs EXCEPT ![c] = r] /\ clock' = clock
        /\ tempFiles' = [tempFiles EXCEPT ![runs[c].file] = NoFile]
        /\ runs[c].state = "cleaning"
    BY <1>8 DEF Cleanup
  <2>2. /\ r \in Outcomes /\ r.state = "done" /\ r.program = runs[c].program
        /\ r.file = runs[c].file /\ r.began = runs[c].began /\ r.outcome = runs[c].outcome
    BY <1>1 DEF Outcomes
  <2>3. r.program \in Python /\ r.file = r.began
    BY <1>1, <2>1, <2>2 DEF RunInv
  <2> HIDE DEF r
  <2>4. runs'[c] = r /\ \A d \in Run \ {c} : runs'[d] = runs[d]
    BY <1>1, <2>1
  <2>5. (Overlapped(c) => Overlapped(c)') /\ Sharers(c) \subseteq Sharers(c)'
    <3>1. \A d \in Run : /\ runs'[d].state # "new" \/ runs[d].state = "new"
                         /\ runs[d].state # "new" =>
                              runs'[d].program = runs[d].program /\ runs'[d].began = runs[d].began
      BY <2>2, <2>4
    <3>2. QED
      BY <2>1, <3>1, SharersStay
  <2>6. RunInv(c)'
    BY <1>1, <2>1, <2>2, <2>3, <2>4, <2>5 DEF RunInv
  <2>7. QED
    BY <2>1, <2>2, <2>3, <2>6, RunChanges
<1>9. QED
  BY <1>2, <1>3, <1>4, <1>5, <1>6, <1>7, <1>8 DEF AdapterNext

LEMMA AdapterStutter ==
    ASSUME AdapterInv, UNCHANGED adapterVars
    PROVE  AdapterInv'
BY DEF AdapterInv, AdapterTypeOK, RunInv, FileInv, Sharers, Overlapped, Overlaps, adapterVars

\* What validate() accepts succeeds, but for errors of its own and for several
\* lines of Python.
LEMMA ValidProgramsSucceed ==
    ASSUME NEW c, NEW p \in Program, validate(p), p \notin Raises, p # "py lines"
    PROVE  OwnOutcome(c, p).success
<1>1. Success(c).success /\ Success(NoResult).success
  BY DEF Success
<1>2. CASE p \in SQL
  <2>1. p \notin Python /\ validateSQL(p)
    BY <1>2 DEF validate, Python, SQL
  <2>2. QED
    BY <1>1, <1>2, <2>1 DEF OwnOutcome, executeSQL, isModifying, validateSQL
<1>3. CASE p \notin SQL
  <2>1. p # "py broken" /\ p # "js broken"
    BY <1>3 DEF validate, Compiles
  <2>2. CASE p \in Python
    <3>1. WrappedCompiles(p)
      BY <2>1 DEF WrappedCompiles
    <3>2. QED
      BY <1>1, <2>2, <3>1 DEF OwnOutcome, Interpreted
  <2>3. CASE p \notin Python
    BY <1>1, <1>3, <2>1, <2>3 DEF OwnOutcome, executeJavaScript
  <2>4. QED
    BY <2>2, <2>3
<1>4. QED
  BY <1>2, <1>3

LEMMA AdapterInvImplies == AdapterInv => OutcomesAreOwn
<1> SUFFICES ASSUME AdapterInv, NEW c \in Run, runs[c].state = "done"
             PROVE  /\ Sharers(c) = {} => runs[c].outcome = OwnOutcome(c, runs[c].program)
                    /\ runs[c].outcome.data \in {c, NoResult} \cup Sharers(c)
                    /\ /\ Sharers(c) = {} /\ validate(runs[c].program)
                       /\ runs[c].program \notin Raises \cup {"py lines"}
                       => runs[c].outcome.success
  BY DEF OutcomesAreOwn, Sharers
<1>1. runs[c].program \in Program /\ RunInv(c)
  BY DEF AdapterInv, AdapterTypeOK
<1>2. Sharers(c) = {} => runs[c].outcome = OwnOutcome(c, runs[c].program)
  <2>1. runs[c].program \in Python /\ Sharers(c) = {} => ~Overlapped(c)
    BY DEF Sharers, Overlapped
  <2>2. QED
    BY <1>1, <2>1 DEF RunInv
<1>3. QED
  BY <1>1, <1>2, ValidProgramsSucceed DEF RunInv

-----------------------------------------------------------------------------
(* Licences.                                                               *)

\* The totals a call of the tracker may find: those of before, or those that
\* include what the orchestrator has charged.
Counted == {licenseUsage, Charged(TRUE), Charged(FALSE)}

\* What happens to the licence in one step of whatever service.
LicenseMove ==
    \/ UNCHANGED licenseVars
    \/ SaveLicense \/ Expire \/ generateLicense("team")
    \/ /\ \E tier \in Tier : validateLicenseKey(tier)
       /\ UNCHANGED <<licenseReady, licenseUsage, licenseFile>>
    \/ /\ \E file \in {licenseFile, NoLicense} : initLicenseManager(file)
       /\ UNCHANGED <<licenseUsage, licenseFile>>
    \/ /\ \E licence \in Counted, m \in Metric, v \in Nat :
             licenseUsage' = trackUsage(licence, m, v)
       /\ UNCHANGED <<licenseReady, currentTier, license, licenseFile>>
    \/ Restart

\* The limits of a tier.
LEMMA LimitsTyped ==
    ASSUME NEW tier \in Tier, NEW m \in LimitedMetric
    PROVE  /\ tiers[tier].limits[m] \in Nat \cup {Infinity}
           /\ tiers[tier].limits.users \in Nat \cup {Infinity}
           /\ tiers[tier].limits[m] # 0
<1>1. \A t \in Tier : apiCallLimit[t] \in (Nat \ {0}) \cup {Infinity}
  BY LicenseAssumption
<1>2. /\ tiers[tier].limits["apiCalls"] = apiCallLimit[tier]
      /\ tiers[tier].limits["storage"] \in {100, 10000, 100000, Infinity}
      /\ tiers[tier].limits.users \in {1, 5, 20, Infinity}
  BY DEF tiers, Tier
<1>3. /\ tiers[tier].limits.users \in Nat \cup {Infinity}
      /\ tiers[tier].limits["storage"] \in Nat \cup {Infinity}
      /\ tiers[tier].limits["storage"] # 0
  BY <1>2, LicenseAssumption
<1>4. /\ tiers[tier].limits["apiCalls"] \in Nat \cup {Infinity}
      /\ tiers[tier].limits["apiCalls"] # 0
  BY <1>1, <1>2, LicenseAssumption
<1>5. QED
  BY <1>3, <1>4 DEF LimitedMetric

\* A total stays a number.
LEMMA UsageTyped ==
    ASSUME NEW u \in [Metric -> Nat], NEW m \in Metric, NEW v \in Nat
    PROVE  /\ trackUsage(u, m, v) \in [Metric -> Nat]
           /\ trackUsage(u, m, v)[m] = u[m] + v
           /\ \A n \in Metric \ {m} : trackUsage(u, m, v)[n] = u[n]
<1>1. trackUsage(u, m, v) = [u EXCEPT ![m] = u[m] + v]
  BY DEF trackUsage
<1>2. u[m] + v \in Nat
  OBVIOUS
<1>3. QED
  BY <1>1, <1>2

LEMMA CountedTyped ==
    ASSUME licenseUsage \in [Metric -> Nat]
    PROVE  \A licence \in Counted : licence \in [Metric -> Nat]
<1>1. "executions" \in Metric /\ "apiCalls" \in Metric
  BY DEF Metric
<1>2. /\ trackUsage(licenseUsage, "executions", 1) \in [Metric -> Nat]
      /\ trackUsage(trackUsage(licenseUsage, "executions", 1), "apiCalls", 1) \in [Metric -> Nat]
  BY <1>1, UsageTyped
<1>3. QED
  BY <1>2 DEF Counted, Charged

LicenseInv == LicenseTypeOK /\ PaidTierIsBacked

LEMMA LicenseStepInv ==
    ASSUME LicenseInv, LicenseMove
    PROVE  LicenseInv'
<1> USE DEF LicenseInv, LicenseTypeOK, PaidTierIsBacked
<1>1. CASE UNCHANGED licenseVars
  BY <1>1 DEF licenseVars
<1>2. CASE SaveLicense
  BY <1>2 DEF SaveLicense
<1>3. CASE Expire
  <2>1. \A l \in License : [l EXCEPT !.expired = TRUE] \in License
                           /\ [l EXCEPT !.expired = TRUE].tier = l.tier
    BY DEF License
  <2>2. license' # NoLicense <=> license # NoLicense
    BY <1>3, <2>1, LicenseAssumption DEF Expire
  <2>3. QED
    BY <1>3, <2>1, <2>2 DEF Expire
<1>4. CASE generateLicense("team")
  BY <1>4 DEF generateLicense, License, Tier
<1>5. ASSUME NEW tier \in Tier, validateLicenseKey(tier),
             licenseReady' \in BOOLEAN, UNCHANGED <<licenseUsage, licenseFile>>
      PROVE  LicenseInv'
  <2>1. license' = [tier |-> tier, signed |-> "key", expired |-> FALSE] /\ currentTier' = tier
    BY <1>5 DEF validateLicenseKey, setTier
  <2>2. license' \in License /\ license'.tier = tier
    BY <2>1 DEF License
  <2>3. license' # NoLicense
    BY <2>2, LicenseAssumption
  <2>4. QED
    BY <1>5, <2>1, <2>2, <2>3
<1>6. ASSUME NEW file \in {licenseFile, NoLicense}, initLicenseManager(file),
             UNCHANGED <<licenseUsage, licenseFile>>
      PROVE  LicenseInv'
  <2>1. licenseReady' \in BOOLEAN
    BY <1>6 DEF initLicenseManager
  <2>2. CASE validateLicense(file) /\ license' = file /\ setTier(file.tier)
    <3>1. file \in License /\ file # NoLicense
      BY <2>2 DEF validateLicense
    <3>2. file.tier \in Tier
      BY <3>1 DEF License
    <3>3. QED
      BY <1>6, <2>1, <2>2, <3>1, <3>2 DEF setTier
  <2>3. CASE environmentKey # NoKey /\ validateLicenseKey(environmentKey)
    <3>1. environmentKey \in Tier
      BY <2>3, LicenseAssumption
    <3>2. QED
      BY <1>5, <1>6, <2>1, <2>3, <3>1
  <2>4. CASE setTier("free") /\ UNCHANGED license
    BY <1>6, <2>1, <2>4 DEF setTier, Tier
  <2>5. QED
    BY <1>6, <2>2, <2>3, <2>4 DEF initLicenseManager
<1>7. ASSUME NEW licence \in Counted, NEW m \in Metric, NEW v \in Nat,
             licenseUsage' = trackUsage(licence, m, v),
             UNCHANGED <<licenseReady, currentTier, license, licenseFile>>
      PROVE  LicenseInv'
  <2>1. licence \in [Metric -> Nat]
    BY CountedTyped
  <2>2. licenseUsage' \in [Metric -> Nat]
    BY <1>7, <2>1, UsageTyped
  <2>3. QED
    BY <1>7, <2>2
<1>8. CASE Restart
  BY <1>8 DEF Restart, NoUsage, Tier
<1>9. ASSUME NEW tier \in Tier, validateLicenseKey(tier),
             UNCHANGED <<licenseReady, licenseUsage, licenseFile>>
      PROVE  LicenseInv'
  BY <1>5, <1>9
<1>10. QED
  BY <1>1, <1>2, <1>3, <1>4, <1>6, <1>7, <1>8, <1>9 DEF LicenseMove
-----------------------------------------------------------------------------
(* The tracker and its alerts.                                             *)

\* What happens to the tracker in one step.
TrackerMove ==
    \/ UNCHANGED trackerVars
    \/ \E m \in LimitedMetric, v \in Nat : Track(m, v)
    \/ \E i \in DOMAIN alerts : acknowledgeAlert(i)
    \/ \E licence \in Counted : trackExecution(licence)
    \/ Restart

\* The newest alert of a list about a metric has this total and its level; or
\* the list is full of alerts about the other metric.
Shows(list, m, total, limit) ==
    \/ Len(list) = MaxAlerts /\ \A i \in DOMAIN list : list[i].metric # m
    \/ \E i \in DOMAIN list :
          /\ list[i].metric = m
          /\ list[i].current = total /\ list[i].level = Level(total, limit)
          /\ \A j \in DOMAIN list : list[j].metric = m => j <= i

\* A metric's newest alert is right for the tier it was last tracked under.
NewestIsRight ==
    \A m \in LimitedMetric :
        LET limit == tiers[writtenUnder[m]].limits[m]
        IN  limit # Infinity /\ 4 * usage[m] >= 3 * limit => Shows(alerts, m, usage[m], limit)

TrackerInv == TrackerTypeOK /\ NewestIsRight

LEMMA LevelTyped ==
    ASSUME NEW a, NEW b
    PROVE  Level(a, b) \in AlertLevel
BY DEF Level, AlertLevel

\* createAlert() keeps the list short, puts the alert last, and leaves the
\* others in their order.
LEMMA AlertsAreKept ==
    ASSUME TrackerTypeOK, NEW a \in Alert, alerts' = createAlert(a)
    PROVE  /\ alerts' \in Seq(Alert) /\ Len(alerts') \in Nat \ {0} /\ Len(alerts') <= MaxAlerts
           /\ alerts'[Len(alerts')] = a
           /\ \E gone \in {0, 1} :
                 /\ gone = 1 => Len(alerts') = MaxAlerts
                 /\ Len(alerts') = Len(alerts) + 1 - gone
                 /\ \A i \in 1..Len(alerts) - gone : alerts'[i] = alerts[i + gone]
<1> DEFINE all == Append(alerts, a)
<1>1. /\ alerts \in Seq(Alert) /\ Len(alerts) <= MaxAlerts /\ Len(alerts) \in Nat
      /\ MaxAlerts \in Nat \ {0}
  BY TrackerAssumption DEF TrackerTypeOK
<1>2. /\ all \in Seq(Alert) /\ Len(all) = Len(alerts) + 1 /\ all[Len(all)] = a
      /\ \A i \in 1..Len(alerts) : all[i] = alerts[i]
  BY <1>1
<1> HIDE DEF all
<1>3. CASE Len(alerts) = MaxAlerts
  <2>1. /\ Tail(all) \in Seq(Alert) /\ Len(Tail(all)) = Len(all) - 1
        /\ \A i \in 1..Len(all) - 1 : Tail(all)[i] = all[i + 1]
    BY <1>1, <1>2, <1>3
  <2>2. alerts' = Tail(all)
    BY <1>1, <1>2, <1>3 DEF createAlert, all
  <2>3. \A i \in 1..Len(alerts) - 1 : Tail(all)[i] = alerts[i + 1]
    BY <1>1, <1>2, <2>1
  <2>4. Len(alerts) >= 1 /\ Tail(all)[Len(alerts)] = a
    BY <1>1, <1>2, <1>3, <2>1
  <2>5. /\ Len(Tail(all)) = MaxAlerts /\ Len(Tail(all)) = Len(alerts) + 1 - 1
        /\ \A i \in 1..Len(alerts) - 1 : Tail(all)[i] = alerts[i + 1]
    BY <1>1, <1>2, <1>3, <2>1, <2>3
  <2>6. QED
    BY <1>1, <1>3, <2>1, <2>2, <2>4, <2>5
<1>4. CASE Len(alerts) # MaxAlerts
  <2>1. alerts' = all
    BY <1>1, <1>2, <1>4 DEF createAlert, all
  <2>2. /\ Len(all) = Len(alerts) + 1 - 0 /\ Len(all) <= MaxAlerts
        /\ \A i \in 1..Len(alerts) - 0 : all[i] = alerts[i + 0]
    BY <1>1, <1>2, <1>4
  <2>3. QED
    BY <1>1, <1>2, <2>1, <2>2
<1>5. QED
  BY <1>3, <1>4

\* The new alert is what the list shows of its metric.
LEMMA NewAlertShows ==
    ASSUME TrackerTypeOK, NEW a \in Alert, NEW limit,
           a.level = Level(a.current, limit), alerts' = createAlert(a)
    PROVE  Shows(alerts', a.metric, a.current, limit)
<1>1. /\ alerts' \in Seq(Alert) /\ Len(alerts') >= 1
      /\ alerts'[Len(alerts')] = a
  BY AlertsAreKept
<1>2. /\ Len(alerts') \in DOMAIN alerts' /\ DOMAIN alerts' = 1..Len(alerts')
      /\ \A j \in DOMAIN alerts' : j <= Len(alerts')
  BY <1>1
<1>3. QED
  BY <1>1, <1>2 DEF Shows

\* It leaves what the list shows of the other metric.
LEMMA OtherAlertsShow ==
    ASSUME TrackerTypeOK, NEW a \in Alert, alerts' = createAlert(a),
           NEW m, m # a.metric, NEW total, NEW limit, Shows(alerts, m, total, limit)
    PROVE  Shows(alerts', m, total, limit)
<1>1. /\ alerts \in Seq(Alert) /\ Len(alerts) <= MaxAlerts /\ Len(alerts) \in Nat
      /\ MaxAlerts \in Nat \ {0} /\ DOMAIN alerts = 1..Len(alerts)
  BY TrackerAssumption DEF TrackerTypeOK
<1>2. /\ alerts' \in Seq(Alert) /\ Len(alerts') \in Nat \ {0} /\ Len(alerts') <= MaxAlerts
      /\ alerts'[Len(alerts')] = a
  BY AlertsAreKept
<1>3. PICK gone \in {0, 1} :
        /\ gone = 1 => Len(alerts') = MaxAlerts
        /\ Len(alerts') = Len(alerts) + 1 - gone
        /\ \A i \in 1..Len(alerts) - gone : alerts'[i] = alerts[i + gone]
  BY AlertsAreKept
<1>4. Len(alerts') \in Nat /\ DOMAIN alerts' = 1..Len(alerts') /\ gone \in Nat
  BY <1>2, <1>3
\* The alerts about m are those of before, moved by the one that is gone.
<1>5. \A j \in DOMAIN alerts' : alerts'[j].metric = m =>
         j + gone \in DOMAIN alerts /\ alerts'[j] = alerts[j + gone]
  <2>1. SUFFICES ASSUME NEW j \in DOMAIN alerts', alerts'[j].metric = m
                 PROVE  j + gone \in DOMAIN alerts /\ alerts'[j] = alerts[j + gone]
    OBVIOUS
  <2>2. j # Len(alerts')
    BY <1>2, <2>1
  <2>3. j \in 1..Len(alerts) - gone
    BY <1>1, <1>3, <1>4, <2>2
  <2>4. j + gone \in 1..Len(alerts)
    BY <1>1, <1>4, <2>3
  <2>5. QED
    BY <1>1, <1>3, <2>3, <2>4
<1>6. CASE Len(alerts) = MaxAlerts /\ \A i \in DOMAIN alerts : alerts[i].metric # m
  <2>1. Len(alerts') = MaxAlerts
    BY <1>1, <1>2, <1>3, <1>6
  <2>2. \A j \in DOMAIN alerts' : alerts'[j].metric # m
    BY <1>5, <1>6
  <2>3. QED
    BY <2>1, <2>2 DEF Shows
<1>7. ASSUME NEW i \in DOMAIN alerts, alerts[i].metric = m,
             alerts[i].current = total, alerts[i].level = Level(total, limit),
             \A j \in DOMAIN alerts : alerts[j].metric = m => j <= i
      PROVE  Shows(alerts', m, total, limit)
  <2>1. i \in 1..Len(alerts)
    BY <1>1
  <2>2. \A j \in DOMAIN alerts' : alerts'[j].metric = m => j + gone <= i
    BY <1>5, <1>7
  <2>3. CASE i = gone
    <3>1. \A j \in DOMAIN alerts' : alerts'[j].metric # m
      BY <1>4, <2>2, <2>3
    <3>2. Len(alerts') = MaxAlerts
      BY <1>3, <2>1, <2>3
    <3>3. QED
      BY <3>1, <3>2 DEF Shows
  <2>4. CASE i # gone
    <3> DEFINE k == i - gone
    <3>1. k \in 1..Len(alerts) - gone /\ k + gone = i
      BY <1>1, <1>3, <2>1, <2>4
    <3>2. k \in DOMAIN alerts' /\ alerts'[k] = alerts[i]
      BY <1>1, <1>3, <1>4, <3>1
    <3>3. \A j \in DOMAIN alerts' : alerts'[j].metric = m => j <= k
      BY <1>3, <1>4, <2>1, <2>2
    <3> HIDE DEF k
    <3>4. QED
      BY <1>7, <3>2, <3>3 DEF Shows
  <2>5. QED
    BY <2>3, <2>4
<1>8. QED
  BY <1>6, <1>7 DEF Shows

LEMMA TrackKeepsInv ==
    ASSUME TrackerInv, LicenseTypeOK, NEW metric \in LimitedMetric, NEW v \in Nat,
           Track(metric, v)
    PROVE  TrackerInv'
<1> DEFINE total == usage[metric] + v
           limit == tiers[currentTier].limits[metric]
           a == [metric |-> metric, level |-> Level(total, limit), current |-> total,
                 limit |-> limit, acknowledged |-> FALSE]
<1>1. /\ TrackerTypeOK /\ NewestIsRight
      /\ usage \in [Metric -> Nat] /\ alerts \in Seq(Alert) /\ Len(alerts) <= MaxAlerts
      /\ dying \in BOOLEAN /\ writtenUnder \in [LimitedMetric -> Tier] /\ currentTier \in Tier
      /\ metric \in Metric
  BY DEF TrackerInv, TrackerTypeOK, LicenseTypeOK, Metric, LimitedMetric
<1>2. total \in Nat /\ limit \in Nat \cup {Infinity}
  BY <1>1, LimitsTyped
<1>3. /\ usage' = [usage EXCEPT ![metric] = total]
      /\ writtenUnder' = [writtenUnder EXCEPT ![metric] = currentTier]
      /\ alerts' = IF limit = Infinity \/ 4 * total < 3 * limit THEN alerts ELSE createAlert(a)
  BY DEF Track, updateDailyUsage, checkLimits, Limit
<1>4. dying' \in BOOLEAN
  BY <1>1 DEF Track, ExceedsLimit
<1>5. /\ usage' \in [Metric -> Nat] /\ usage'[metric] = total
      /\ \A m \in LimitedMetric \ {metric} : usage'[m] = usage[m]
  BY <1>1, <1>2, <1>3 DEF Metric, LimitedMetric
<1>6. /\ writtenUnder' \in [LimitedMetric -> Tier] /\ writtenUnder'[metric] = currentTier
      /\ \A m \in LimitedMetric \ {metric} : writtenUnder'[m] = writtenUnder[m]
  BY <1>1, <1>3
<1>7. CASE limit = Infinity \/ 4 * total < 3 * limit
  <2>1. ~(limit # Infinity /\ 4 * total >= 3 * limit)
    BY <1>2, <1>7
  <2>2. alerts' = alerts
    BY <1>3, <1>7
  <2> HIDE DEF total, limit
  <2>3. NewestIsRight'
    BY <1>1, <1>5, <1>6, <2>1, <2>2 DEF NewestIsRight, limit
  <2>4. QED
    BY <1>1, <1>4, <1>5, <1>6, <2>2, <2>3 DEF TrackerInv, TrackerTypeOK
<1>8. CASE ~(limit = Infinity \/ 4 * total < 3 * limit)
  <2>1. limit \in Nat /\ Level(total, limit) \in AlertLevel
    BY <1>2, <1>8, LevelTyped
  <2>2. /\ a \in Alert /\ a.metric = metric /\ a.current = total
        /\ a.level = Level(total, limit)
    BY <1>2, <2>1 DEF Alert
  <2>3. alerts' = createAlert(a)
    BY <1>3, <1>8
  <2> HIDE DEF a, total, limit
  <2>4. Shows(alerts', metric, total, limit)
    BY <1>1, <2>2, <2>3, NewAlertShows
  <2>5. alerts' \in Seq(Alert) /\ Len(alerts') <= MaxAlerts
    BY <1>1, <2>2, <2>3, AlertsAreKept, TrackerAssumption
  <2>6. NewestIsRight'
    <3>1. SUFFICES ASSUME NEW m \in LimitedMetric,
                          tiers[writtenUnder'[m]].limits[m] # Infinity,
                          4 * usage'[m] >= 3 * tiers[writtenUnder'[m]].limits[m]
                   PROVE  Shows(alerts', m, usage'[m], tiers[writtenUnder'[m]].limits[m])
      BY DEF NewestIsRight
    <3>2. CASE m = metric
      BY <1>5, <1>6, <2>4, <3>2 DEF limit
    <3>3. CASE m # metric
      <4>1. Shows(alerts, m, usage[m], tiers[writtenUnder[m]].limits[m])
        BY <1>1, <1>5, <1>6, <3>1, <3>3 DEF NewestIsRight
      <4>2. QED
        BY <1>1, <1>5, <1>6, <2>2, <2>3, <3>3, <4>1, OtherAlertsShow
    <3>4. QED
      BY <3>2, <3>3
  <2>7. QED
    BY <1>1, <1>4, <1>5, <1>6, <2>5, <2>6 DEF TrackerInv, TrackerTypeOK
<1>9. QED
  BY <1>7, <1>8

\* At the start of a process nothing has been tracked, and no limit is zero.
LEMMA NothingTracked ==
    ASSUME usage' = [m \in Metric |-> 0], alerts' = <<>>, dying' = FALSE,
           writtenUnder' = [m \in LimitedMetric |-> "free"]
    PROVE  TrackerInv'
<1>1. /\ usage' \in [Metric -> Nat] /\ alerts' \in Seq(Alert) /\ Len(alerts') = 0
      /\ writtenUnder' \in [LimitedMetric -> Tier]
  BY DEF Tier
<1>2. ASSUME NEW m \in LimitedMetric, tiers["free"].limits[m] # Infinity
      PROVE  ~(4 * usage'[m] >= 3 * tiers["free"].limits[m])
  <2>1. tiers["free"].limits[m] \in Nat \ {0}
    BY <1>2, LimitsTyped DEF Tier
  <2>2. usage'[m] = 0
    BY DEF Metric, LimitedMetric
  <2>3. QED
    BY <2>1, <2>2
<1>3. NewestIsRight'
  BY <1>2 DEF NewestIsRight
<1>4. Len(alerts') <= MaxAlerts
  BY <1>1, TrackerAssumption
<1>5. QED
  BY <1>1, <1>3, <1>4 DEF TrackerInv, TrackerTypeOK

LEMMA TrackerStepInv ==
    ASSUME TrackerInv, LicenseTypeOK, TrackerMove
    PROVE  TrackerInv'
<1>1. /\ usage \in [Metric -> Nat]
      /\ alerts \in Seq(Alert) /\ Len(alerts) <= MaxAlerts
      /\ dying \in BOOLEAN /\ writtenUnder \in [LimitedMetric -> Tier]
      /\ NewestIsRight
  BY DEF TrackerInv, TrackerTypeOK
<1>2. CASE UNCHANGED trackerVars
  BY <1>2 DEF TrackerInv, TrackerTypeOK, NewestIsRight, Shows, trackerVars
<1>3. ASSUME NEW i \in DOMAIN alerts, acknowledgeAlert(i) PROVE TrackerInv'
  <2> DEFINE a == [alerts[i] EXCEPT !.acknowledged = TRUE]
  <2>1. alerts' = [alerts EXCEPT ![i] = a] /\ UNCHANGED <<usage, dying, writtenUnder>>
    BY <1>3 DEF acknowledgeAlert
  <2>2. alerts[i] \in Alert
    BY <1>1
  <2>3. /\ a \in Alert /\ a.metric = alerts[i].metric
        /\ a.current = alerts[i].current /\ a.level = alerts[i].level
    BY <2>2 DEF Alert
  <2> HIDE DEF a
  <2>4. /\ alerts' \in Seq(Alert) /\ Len(alerts') = Len(alerts)
        /\ DOMAIN alerts' = DOMAIN alerts
        /\ \A j \in DOMAIN alerts : /\ alerts'[j].metric = alerts[j].metric
                                    /\ alerts'[j].current = alerts[j].current
                                    /\ alerts'[j].level = alerts[j].level
    BY <1>1, <2>1, <2>3
  <2>5. \A m, total, limit : Shows(alerts, m, total, limit) => Shows(alerts', m, total, limit)
    BY <2>4 DEF Shows
  <2>6. NewestIsRight'
    BY <1>1, <2>1, <2>5 DEF NewestIsRight
  <2>7. QED
    BY <1>1, <2>1, <2>4, <2>6 DEF TrackerInv, TrackerTypeOK
<1>4. ASSUME NEW licence, trackExecution(licence) PROVE TrackerInv'
  <2>1. usage' = [usage EXCEPT !["executions"] = usage["executions"] + 1]
        /\ UNCHANGED <<alerts, dying, writtenUnder>>
    BY <1>4 DEF trackExecution, updateDailyUsage
  <2>2. /\ usage' \in [Metric -> Nat]
        /\ \A m \in LimitedMetric : usage'[m] = usage[m]
    BY <1>1, <2>1 DEF Metric, LimitedMetric
  <2>3. NewestIsRight'
    BY <1>1, <2>1, <2>2 DEF NewestIsRight, Shows
  <2>4. QED
    BY <1>1, <2>1, <2>2, <2>3 DEF TrackerInv, TrackerTypeOK
<1>5. CASE Restart
  <2>1. /\ usage' = [m \in Metric |-> 0] /\ alerts' = <<>> /\ dying' = FALSE
        /\ writtenUnder' = [m \in LimitedMetric |-> "free"]
    BY <1>5 DEF Restart, NoUsage, NoTier
  <2>2. QED
    BY <2>1, NothingTracked
<1>6. QED
  BY <1>2, <1>3, <1>4, <1>5, TrackKeepsInv DEF TrackerMove

LEMMA TrackerInvImplies == TrackerInv => NewestAlertIsCurrent
<1> SUFFICES ASSUME TrackerInv, NEW m \in LimitedMetric, writtenUnder[m] = currentTier,
                    Limit(m) # Infinity, 4 * usage[m] >= 3 * Limit(m)
             PROVE  LET About == {i \in DOMAIN alerts : alerts[i].metric = m}
                        IsCurrent(alert) ==
                            alert.current = usage[m] /\ alert.level = Level(usage[m], Limit(m))
                    IN  \/ About = {} /\ Len(alerts) = MaxAlerts
                        \/ \E i \in About : IsCurrent(alerts[i]) /\ \A j \in About : j <= i
  BY DEF NewestAlertIsCurrent
<1>1. Shows(alerts, m, usage[m], Limit(m))
  BY DEF TrackerInv, NewestIsRight, Limit
<1>2. QED
  BY <1>1 DEF Shows
-----------------------------------------------------------------------------
(* Teams.                                                                  *)

\* What happens to users, teams and pipelines in one step; what is assigned to
\* a team or a pipeline has the type of what it replaces.
TeamMove ==
    \/ UNCHANGED teamVars
    \/ licensed' \in BOOLEAN /\ UNCHANGED <<users, teams, pipelines, sessions, history>>
    \/ \E u \in User, role \in Role, claim \in Team \cup {NoTeam} :
          \/ createUser(u, role, claim)
          \/ \E t \in Team, inviter \in User : addTeamMember(t, u, role, claim, inviter)
    \/ \E t \in Team, u \in User :
          \/ createTeam(t, u) \/ createTeamWithOwner(t, u)
          \/ t \in DOMAIN teams /\ removeMember(t, u)
          \/ t \in DOMAIN teams /\ \E role \in Role : updateMemberRole(t, u, role)
          \/ \E assigned \in TeamRecord :
                assigned.members \subseteq DOMAIN users /\ updateTeam(t, u, assigned)
    \/ \E p \in Pipeline, u \in User :
          \/ \E visibility \in {"private", "team", "public"} : createPipeline(p, u, visibility)
          \/ \E assigned \in PipelineRecord : updatePipeline(p, u, assigned)
          \/ \E target \in User : sharePipeline(p, target, u)
    \/ \E u \in User : authenticateUser(u) \/ SessionIdles(u) \/ validateSession(u)
    \/ Restart

UserRecord == [role : Role, teamId : Team \cup {NoTeam}]

\* Whoever is on a roster has been listed there.
RostersAreListed ==
    \A t \in DOMAIN teams : \A u \in teams[t].members : <<t, u, teams[t].id>> \in listed

\* A user has its teamId from its data or from a roster.
Entitled(u, i, claims, rosters) ==
    <<u, i>> \in claims \/ \E t \in Team : <<t, u, i>> \in rosters

TeamIdsAreEntitled ==
    \A u \in DOMAIN users :
        users[u].teamId # NoTeam => Entitled(u, users[u].teamId, claimed, listed)

TeamInv == TeamTypeOK /\ RostersAreListed /\ TeamIdsAreEntitled /\ OwnersKeepTheirRole

\* The parts of TeamTypeOK.
LEMMA TeamTypes ==
    ASSUME TeamTypeOK
    PROVE  /\ licensed \in BOOLEAN
           /\ DOMAIN users \subseteq User /\ \A u \in DOMAIN users : users[u] \in UserRecord
           /\ DOMAIN teams \subseteq Team
           /\ \A t \in DOMAIN teams :
                 teams[t] \in TeamRecord /\ teams[t].members \subseteq DOMAIN users
           /\ DOMAIN pipelines \subseteq Pipeline
           /\ \A p \in DOMAIN pipelines : pipelines[p] \in PipelineRecord
           /\ sessions \in [User -> {"none", "open", "idle"}]
           /\ claimed \subseteq User \X Team /\ listed \subseteq Team \X User \X Team
           /\ edited \subseteq Team /\ assignments \in Nat
BY DEF TeamTypeOK, UserRecord

\* The type is kept by a change of users and teams that gives each its type.
LEMMA TeamsTyped ==
    ASSUME TeamTypeOK, UNCHANGED <<licensed, pipelines, sessions>>,
           DOMAIN users' \subseteq User, \A u \in DOMAIN users' : users'[u] \in UserRecord,
           DOMAIN teams' \subseteq Team,
           \A t \in DOMAIN teams' :
              teams'[t] \in TeamRecord /\ teams'[t].members \subseteq DOMAIN users',
           claimed' \subseteq User \X Team, listed' = listed \cup Rosters(teams'),
           edited' \subseteq Team, assignments' \in Nat
    PROVE  TeamTypeOK'
<1>1. listed' \subseteq Team \X User \X Team
  BY DEF TeamTypeOK, Rosters
<1>2. QED
  BY <1>1 DEF TeamTypeOK, UserRecord

\* So is the rest: a roster is listed as it is set, a new teamId is one the user
\* is entitled to, and an owner's role is lost only to another team.
LEMMA TeamsChange ==
    ASSUME TeamInv, TeamTypeOK',
           listed' = listed \cup Rosters(teams'), claimed \subseteq claimed',
           \A u \in DOMAIN users' :
              \/ u \in DOMAIN users /\ users'[u].teamId = users[u].teamId
              \/ users'[u].teamId # NoTeam => Entitled(u, users'[u].teamId, claimed', listed'),
           \A t \in DOMAIN teams' \ edited' :
              LET o == teams'[t].owner
              IN  /\ o \in teams'[t].members
                  /\ \/ users'[o].role = "owner"
                     \/ /\ t \in DOMAIN teams \ edited /\ teams[t].owner = o
                        /\ users'[o].role = users[o].role
                     \/ \E other \in Team \ {t}, i \in Team : <<other, o, i>> \in listed
    PROVE  TeamInv'
<1>1. /\ TeamTypeOK /\ TeamIdsAreEntitled /\ OwnersKeepTheirRole
      /\ listed \subseteq listed'
  BY DEF TeamInv
<1>2. RostersAreListed'
  <2>1. SUFFICES ASSUME NEW t \in DOMAIN teams', NEW u \in teams'[t].members
                 PROVE  <<t, u, teams'[t].id>> \in listed'
    BY DEF RostersAreListed
  <2>2. t \in Team /\ u \in User /\ teams'[t].id \in Team
    BY DEF TeamTypeOK, TeamRecord
  <2>3. QED
    BY <2>1, <2>2 DEF Rosters
<1>3. TeamIdsAreEntitled'
  BY <1>1 DEF TeamIdsAreEntitled, Entitled
<1>4. OwnersKeepTheirRole'
  <2>1. SUFFICES ASSUME NEW t \in DOMAIN teams' \ edited'
                 PROVE  LET o == teams'[t].owner
                        IN  /\ o \in teams'[t].members
                            /\ \/ users'[o].role = "owner"
                               \/ \E other \in Team \ {t}, i \in Team :
                                     <<other, o, i>> \in listed'
    BY DEF OwnersKeepTheirRole
  <2>2. t \in DOMAIN teams \ edited =>
           \/ users[teams[t].owner].role = "owner"
           \/ \E other \in Team \ {t}, i \in Team : <<other, teams[t].owner, i>> \in listed
    BY <1>1 DEF OwnersKeepTheirRole
  <2>3. QED
    BY <1>1, <2>2
<1>5. QED
  BY <1>2, <1>3, <1>4 DEF TeamInv

\* Steps of the team manager that leave users and teams alone.
LEMMA OthersKeepTeamInv ==
    ASSUME TeamInv, TeamTypeOK', UNCHANGED <<users, teams, claimed, listed, edited>>
    PROVE  TeamInv'
BY DEF TeamInv, RostersAreListed, TeamIdsAreEntitled, Entitled, OwnersKeepTheirRole

\* What a team's record is kept to.
LEMMA OwnersAreUsers ==
    ASSUME TeamInv, NEW t \in DOMAIN teams \ edited
    PROVE  teams[t].owner \in teams[t].members /\ teams[t].owner \in DOMAIN users
BY DEF TeamInv, TeamTypeOK, OwnersKeepTheirRole

LEMMA UserStepInv ==
    ASSUME TeamInv, NEW u \in User, NEW role \in Role, NEW claim \in Team \cup {NoTeam},
           u \notin DOMAIN users,
           users' = Put(users, u, [role |-> role, teamId |-> claim]), Claim(u, claim),
           UNCHANGED <<licensed, teams, pipelines, sessions, listed, edited, assignments>>
    PROVE  TeamInv'
<1> DEFINE v == [role |-> role, teamId |-> claim]
<1>1. /\ TeamTypeOK /\ RostersAreListed /\ OwnersKeepTheirRole
      /\ DOMAIN users \subseteq User /\ \A x \in DOMAIN users : users[x] \in UserRecord
      /\ DOMAIN teams \subseteq Team
      /\ \A t \in DOMAIN teams : teams[t] \in TeamRecord /\ teams[t].members \subseteq DOMAIN users
      /\ claimed \subseteq User \X Team /\ edited \subseteq Team /\ assignments \in Nat
  BY TeamTypes DEF TeamInv
<1>2. v \in UserRecord /\ v.teamId = claim
  BY DEF UserRecord
<1>3. users' = Put(users, u, v)
  OBVIOUS
<1> HIDE DEF v
<1>4. /\ DOMAIN users' = DOMAIN users \cup {u} /\ users'[u] = v
      /\ \A x \in DOMAIN users : users'[x] = users[x]
  BY <1>3 DEF Put
<1>5. /\ claimed \subseteq claimed' /\ claimed' \subseteq User \X Team
      /\ claim # NoTeam => <<u, claim>> \in claimed'
  BY <1>1 DEF Claim
<1>6. listed' = listed \cup Rosters(teams')
  BY <1>1 DEF RostersAreListed, Rosters
<1>7. TeamTypeOK'
  <2>1. \A x \in DOMAIN users' : users'[x] \in UserRecord
    BY <1>1, <1>2, <1>4
  <2>2. \A t \in DOMAIN teams' :
           teams'[t] \in TeamRecord /\ teams'[t].members \subseteq DOMAIN users'
    BY <1>1, <1>4
  <2>3. QED
    BY <1>1, <1>4, <1>5, <1>6, <2>1, <2>2, TeamsTyped
<1>8. \A x \in DOMAIN users' :
         \/ x \in DOMAIN users /\ users'[x].teamId = users[x].teamId
         \/ users'[x].teamId # NoTeam => Entitled(x, users'[x].teamId, claimed', listed')
  BY <1>2, <1>4, <1>5 DEF Entitled
<1>9. \A t \in DOMAIN teams' \ edited' :
         /\ teams'[t].owner \in teams'[t].members
         /\ t \in DOMAIN teams \ edited /\ teams[t].owner = teams'[t].owner
         /\ users'[teams'[t].owner].role = users[teams'[t].owner].role
  BY <1>4, OwnersAreUsers
<1>10. QED
  BY <1>5, <1>6, <1>7, <1>8, <1>9, TeamsChange

LEMMA InviteStepInv ==
    ASSUME TeamInv, NEW t \in Team, NEW u \in User, NEW role \in Role,
           NEW claim \in Team \cup {NoTeam}, NEW inviter,
           addTeamMember(t, u, role, claim, inviter)
    PROVE  TeamInv'
<1>1. /\ TeamTypeOK /\ OwnersKeepTheirRole
      /\ DOMAIN users \subseteq User /\ \A x \in DOMAIN users : users[x] \in UserRecord
      /\ DOMAIN teams \subseteq Team
      /\ \A x \in DOMAIN teams : teams[x] \in TeamRecord /\ teams[x].members \subseteq DOMAIN users
      /\ claimed \subseteq User \X Team /\ edited \subseteq Team /\ assignments \in Nat
  BY TeamTypes DEF TeamInv
<1>2. /\ t \in DOMAIN teams /\ u \notin DOMAIN users /\ Claim(u, claim)
      /\ addMember(t, u, role, claim)
      /\ UNCHANGED <<licensed, pipelines, sessions, edited, assignments>>
  BY DEF addTeamMember
<1>3. CASE ~HasRoom(t)
  <2>1. users' = Put(users, u, [role |-> role, teamId |-> claim]) /\ SetTeams(teams)
    BY <1>2, <1>3 DEF addMember
  <2>2. teams' = teams /\ listed' = listed
    BY <2>1 DEF SetTeams, Rosters, TeamInv, RostersAreListed
  <2>3. QED
    BY <1>2, <2>1, <2>2, UserStepInv
<1>4. CASE HasRoom(t)
  <2> DEFINE id == teams[t].id
             v == [role |-> role, teamId |-> id]
             M == teams[t].members \cup {u}
             w == [teams[t] EXCEPT !.members = M]
  <2>1. users' = Put(users, u, v) /\ teams' = [teams EXCEPT ![t] = w]
        /\ listed' = listed \cup Rosters(teams')
    BY <1>2, <1>4 DEF addMember, SetTeams
  <2>2. /\ id \in Team /\ v \in UserRecord /\ v.teamId = id /\ M \in SUBSET User
        /\ w \in TeamRecord /\ w.members = M /\ w.owner = teams[t].owner /\ w.id = id
    BY <1>1, <1>2 DEF UserRecord, TeamRecord
  <2> HIDE DEF v, w, id
  <2>3. /\ DOMAIN users' = DOMAIN users \cup {u} /\ users'[u] = v
        /\ \A x \in DOMAIN users : users'[x] = users[x]
    BY <1>2, <2>1 DEF Put
  <2>4. /\ DOMAIN teams' = DOMAIN teams /\ teams'[t] = w
        /\ \A x \in DOMAIN teams \ {t} : teams'[x] = teams[x]
    BY <1>2, <2>1
  <2>5. claimed \subseteq claimed' /\ claimed' \subseteq User \X Team
    BY <1>1, <1>2 DEF Claim
  <2>6. u \in M /\ M \subseteq DOMAIN users'
    BY <1>1, <1>2, <2>3
  <2>7. TeamTypeOK'
    <3>1. \A x \in DOMAIN users' : users'[x] \in UserRecord
      BY <1>1, <2>2, <2>3
    <3>2. \A x \in DOMAIN teams' :
             teams'[x] \in TeamRecord /\ teams'[x].members \subseteq DOMAIN users'
      BY <1>1, <2>2, <2>3, <2>4, <2>6
    <3>3. QED
      BY <1>1, <1>2, <2>1, <2>3, <2>4, <2>5, <3>1, <3>2, TeamsTyped
  <2>8. <<t, u, id>> \in listed'
    BY <2>1, <2>2, <2>4, <2>6, <1>2 DEF Rosters
  <2>9. \A x \in DOMAIN users' :
           \/ x \in DOMAIN users /\ users'[x].teamId = users[x].teamId
           \/ users'[x].teamId # NoTeam => Entitled(x, users'[x].teamId, claimed', listed')
    BY <2>2, <2>3, <2>8 DEF Entitled
  <2>10. \A x \in DOMAIN teams' \ edited' :
           /\ teams'[x].owner \in teams'[x].members
           /\ x \in DOMAIN teams \ edited /\ teams[x].owner = teams'[x].owner
           /\ users'[teams'[x].owner].role = users[teams'[x].owner].role
    <3>1. SUFFICES ASSUME NEW x \in DOMAIN teams' \ edited'
                   PROVE  /\ teams'[x].owner \in teams'[x].members
                          /\ x \in DOMAIN teams \ edited /\ teams[x].owner = teams'[x].owner
                          /\ users'[teams'[x].owner].role = users[teams'[x].owner].role
      OBVIOUS
    <3>2. x \in DOMAIN teams \ edited /\ teams'[x].owner = teams[x].owner
      BY <1>2, <2>2, <2>4
    <3>3. teams[x].owner \in teams[x].members /\ teams[x].owner \in DOMAIN users
      BY <3>2, OwnersAreUsers
    <3>4. teams[x].members \subseteq teams'[x].members
      BY <2>2, <2>4, <3>2
    <3>5. QED
      BY <2>3, <3>2, <3>3, <3>4
  <2>11. QED
    BY <2>1, <2>5, <2>7, <2>9, <2>10, TeamsChange
<1>5. QED
  BY <1>3, <1>4

\* A team is founded by u, who owns it from now on.
LEMMA FoundingKeepsTeamInv ==
    ASSUME TeamInv, NEW t \in Team, t \notin DOMAIN teams, NEW u \in User,
           UNCHANGED <<licensed, pipelines, sessions, claimed, edited, assignments>>,
           SetTeams(Put(teams, t, NewTeam(t, u))),
           DOMAIN users' = DOMAIN users \cup {u},
           users'[u] = [role |-> "owner", teamId |-> t],
           \A x \in DOMAIN users \ {u} : users'[x] = users[x],
           currentTier \in Tier
    PROVE  TeamInv'
<1> DEFINE w == NewTeam(t, u)
<1>1. /\ TeamTypeOK
      /\ DOMAIN users \subseteq User /\ \A x \in DOMAIN users : users[x] \in UserRecord
      /\ DOMAIN teams \subseteq Team
      /\ \A x \in DOMAIN teams : teams[x] \in TeamRecord /\ teams[x].members \subseteq DOMAIN users
      /\ claimed \subseteq User \X Team /\ edited \subseteq Team /\ assignments \in Nat
  BY TeamTypes DEF TeamInv
<1>2. tiers[currentTier].limits.users \in Nat \cup {Infinity}
  BY LimitsTyped DEF LimitedMetric
<1>3. w \in TeamRecord /\ w.id = t /\ w.owner = u /\ w.members = {u}
  BY <1>2 DEF NewTeam, TeamRecord
<1>4. teams' = Put(teams, t, w) /\ listed' = listed \cup Rosters(teams')
  BY DEF SetTeams
<1> HIDE DEF w
<1>5. /\ users'[u] \in UserRecord /\ users'[u].role = "owner" /\ users'[u].teamId = t
  BY DEF UserRecord, Role
<1>6. /\ DOMAIN teams' = DOMAIN teams \cup {t} /\ teams'[t] = w
      /\ \A x \in DOMAIN teams : teams'[x] = teams[x]
  BY <1>4 DEF Put
<1>7. TeamTypeOK'
  <2>1. \A x \in DOMAIN users' : users'[x] \in UserRecord
    BY <1>1, <1>5
  <2>2. \A x \in DOMAIN teams' :
           teams'[x] \in TeamRecord /\ teams'[x].members \subseteq DOMAIN users'
    BY <1>1, <1>3, <1>6
  <2>3. QED
    BY <1>1, <1>4, <1>6, <2>1, <2>2, TeamsTyped
<1>8. <<t, u, t>> \in listed'
  BY <1>3, <1>4, <1>6 DEF Rosters
<1>9. \A x \in DOMAIN users' :
         \/ x \in DOMAIN users /\ users'[x].teamId = users[x].teamId
         \/ users'[x].teamId # NoTeam => Entitled(x, users'[x].teamId, claimed', listed')
  BY <1>5, <1>8 DEF Entitled
<1>10. \A x \in DOMAIN teams' \ edited' :
         LET o == teams'[x].owner
         IN  /\ o \in teams'[x].members
             /\ \/ users'[o].role = "owner"
                \/ /\ x \in DOMAIN teams \ edited /\ teams[x].owner = o
                   /\ users'[o].role = users[o].role
  <2>1. SUFFICES ASSUME NEW x \in DOMAIN teams' \ edited'
                 PROVE  LET o == teams'[x].owner
                        IN  /\ o \in teams'[x].members
                            /\ \/ users'[o].role = "owner"
                               \/ /\ x \in DOMAIN teams \ edited /\ teams[x].owner = o
                                  /\ users'[o].role = users[o].role
    OBVIOUS
  <2>2. CASE x = t
    BY <1>3, <1>5, <1>6, <2>2
  <2>3. CASE x # t
    <3>1. x \in DOMAIN teams \ edited /\ teams'[x] = teams[x]
      BY <1>6, <2>1, <2>3
    <3>2. teams[x].owner \in teams[x].members /\ teams[x].owner \in DOMAIN users
      BY <3>1, OwnersAreUsers
    <3>3. QED
      BY <1>5, <3>1, <3>2
  <2>4. QED
    BY <2>2, <2>3
<1>11. QED
  BY <1>4, <1>7, <1>9, <1>10, TeamsChange

\* The record of a team that exists is replaced, and its owner stays on it.
LEMMA RosterStepInv ==
    ASSUME TeamInv, NEW t \in DOMAIN teams, NEW w \in TeamRecord,
           w.members \subseteq DOMAIN users,
           UNCHANGED <<licensed, users, pipelines, sessions, claimed>>,
           SetTeams([teams EXCEPT ![t] = w]),
           edited \subseteq edited', edited' \subseteq Team, assignments' \in Nat,
           t \notin edited' => w.owner = teams[t].owner /\ w.owner \in w.members
    PROVE  TeamInv'
<1>1. /\ TeamTypeOK
      /\ DOMAIN users \subseteq User /\ \A x \in DOMAIN users : users[x] \in UserRecord
      /\ DOMAIN teams \subseteq Team
      /\ \A x \in DOMAIN teams : teams[x] \in TeamRecord /\ teams[x].members \subseteq DOMAIN users
      /\ claimed \subseteq User \X Team
  BY TeamTypes DEF TeamInv
<1>2. /\ DOMAIN teams' = DOMAIN teams /\ teams'[t] = w
      /\ \A x \in DOMAIN teams \ {t} : teams'[x] = teams[x]
      /\ listed' = listed \cup Rosters(teams')
  BY DEF SetTeams
<1>3. TeamTypeOK'
  <2>1. \A x \in DOMAIN teams' :
           teams'[x] \in TeamRecord /\ teams'[x].members \subseteq DOMAIN users'
    BY <1>1, <1>2
  <2>2. QED
    BY <1>1, <1>2, <2>1, TeamsTyped
<1>4. \A x \in DOMAIN teams' \ edited' :
         /\ teams'[x].owner \in teams'[x].members
         /\ x \in DOMAIN teams \ edited /\ teams[x].owner = teams'[x].owner
         /\ users'[teams'[x].owner].role = users[teams'[x].owner].role
  <2>1. SUFFICES ASSUME NEW x \in DOMAIN teams' \ edited'
                 PROVE  /\ teams'[x].owner \in teams'[x].members
                        /\ x \in DOMAIN teams \ edited /\ teams[x].owner = teams'[x].owner
    OBVIOUS
  <2>2. x \in DOMAIN teams \ edited
    BY <1>2
  <2>3. CASE x = t
    BY <1>2, <2>1, <2>2, <2>3
  <2>4. CASE x # t
    BY <1>2, <2>2, <2>4, OwnersAreUsers
  <2>5. QED
    BY <2>3, <2>4
<1>5. QED
  BY <1>2, <1>3, <1>4, TeamsChange

LEMMA RoleStepInv ==
    ASSUME TeamInv, NEW t \in DOMAIN teams, NEW u \in User, NEW role \in Role,
           updateMemberRole(t, u, role)
    PROVE  TeamInv'
<1> DEFINE v == [users[u] EXCEPT !.role = role]
<1>1. /\ TeamTypeOK /\ RostersAreListed
      /\ DOMAIN users \subseteq User /\ \A x \in DOMAIN users : users[x] \in UserRecord
      /\ DOMAIN teams \subseteq Team
      /\ \A x \in DOMAIN teams : teams[x] \in TeamRecord /\ teams[x].members \subseteq DOMAIN users
      /\ claimed \subseteq User \X Team /\ listed \subseteq Team \X User \X Team
      /\ edited \subseteq Team /\ assignments \in Nat
  BY TeamTypes DEF TeamInv
<1>2. /\ u \in teams[t].members /\ (u = teams[t].owner => role = "owner")
      /\ users' = [users EXCEPT ![u] = v]
      /\ UNCHANGED <<licensed, teams, pipelines, sessions, claimed, listed, edited, assignments>>
  BY DEF updateMemberRole, MayGetRole, history
<1>3. u \in DOMAIN users
  BY <1>1, <1>2
<1>4. v \in UserRecord /\ v.role = role /\ v.teamId = users[u].teamId
  BY <1>1, <1>3 DEF UserRecord
<1> HIDE DEF v
<1>5. /\ DOMAIN users' = DOMAIN users /\ users'[u] = v
      /\ \A x \in DOMAIN users \ {u} : users'[x] = users[x]
  BY <1>2, <1>3
<1>6. listed' = listed \cup Rosters(teams')
  BY <1>1, <1>2 DEF RostersAreListed, Rosters
<1>7. \A x \in DOMAIN users' : users'[x] \in UserRecord /\ users'[x].teamId = users[x].teamId
  BY <1>1, <1>4, <1>5
<1>8. TeamTypeOK'
  BY <1>1, <1>2, <1>5, <1>6, <1>7, TeamsTyped
<1>9. \A x \in DOMAIN teams' \ edited' :
         LET o == teams'[x].owner
         IN  /\ o \in teams'[x].members
             /\ \/ users'[o].role = "owner"
                \/ /\ x \in DOMAIN teams \ edited /\ teams[x].owner = o
                   /\ users'[o].role = users[o].role
                \/ \E other \in Team \ {x}, i \in Team : <<other, o, i>> \in listed
  <2>1. SUFFICES ASSUME NEW x \in DOMAIN teams \ edited,
                        ~(teams[x].owner # u \/ role = "owner")
                 PROVE  \E other \in Team \ {x}, i \in Team :
                           <<other, teams[x].owner, i>> \in listed
    BY <1>2, <1>4, <1>5, OwnersAreUsers
  <2>2. x # t /\ t \in Team
    BY <1>1, <1>2, <2>1
  <2>3. <<t, u, teams[t].id>> \in listed /\ teams[t].id \in Team
    BY <1>1, <1>2 DEF RostersAreListed, TeamRecord
  <2>4. QED
    BY <2>1, <2>2, <2>3
<1>10. QED
  BY <1>2, <1>5, <1>6, <1>7, <1>8, <1>9, TeamsChange

LEMMA TeamStepInv ==
    ASSUME TeamInv, LicenseTypeOK, TeamMove
    PROVE  TeamInv'
<1>1. /\ TeamTypeOK
      /\ DOMAIN users \subseteq User /\ \A u \in DOMAIN users : users[u] \in UserRecord
      /\ DOMAIN teams \subseteq Team
      /\ \A t \in DOMAIN teams : teams[t] \in TeamRecord /\ teams[t].members \subseteq DOMAIN users
      /\ DOMAIN pipelines \subseteq Pipeline
      /\ \A p \in DOMAIN pipelines : pipelines[p] \in PipelineRecord
      /\ sessions \in [User -> {"none", "open", "idle"}]
      /\ edited \subseteq Team /\ assignments \in Nat
      /\ currentTier \in Tier
  BY TeamTypes DEF TeamInv, LicenseTypeOK
<1>2. CASE UNCHANGED teamVars
  BY <1>1, <1>2, OthersKeepTeamInv DEF TeamTypeOK, teamVars, history
<1>3. CASE licensed' \in BOOLEAN /\ UNCHANGED <<users, teams, pipelines, sessions, history>>
  BY <1>1, <1>3, OthersKeepTeamInv DEF TeamTypeOK, history
<1>4. ASSUME NEW u \in User, NEW role \in Role, NEW claim \in Team \cup {NoTeam},
             createUser(u, role, claim)
      PROVE  TeamInv'
  BY <1>4, UserStepInv DEF createUser
<1>5. ASSUME NEW t \in Team, NEW u \in User, createTeam(t, u) PROVE TeamInv'
  <2>1. /\ u \in DOMAIN users
        /\ users' = [users EXCEPT ![u] = [role |-> "owner", teamId |-> t]]
    BY <1>5 DEF createTeam
  <2>2. /\ DOMAIN users' = DOMAIN users \cup {u}
        /\ users'[u] = [role |-> "owner", teamId |-> t]
        /\ \A x \in DOMAIN users \ {u} : users'[x] = users[x]
    BY <2>1
  <2>3. QED
    BY <1>1, <1>5, <2>2, FoundingKeepsTeamInv DEF createTeam
<1>6. ASSUME NEW t \in Team, NEW u \in User, createTeamWithOwner(t, u) PROVE TeamInv'
  <2>1. CASE licensed
    <3>1. users' = Put(users, u, [role |-> "owner", teamId |-> t])
      BY <1>6, <2>1 DEF createTeamWithOwner
    <3>2. /\ DOMAIN users' = DOMAIN users \cup {u}
          /\ users'[u] = [role |-> "owner", teamId |-> t]
          /\ \A x \in DOMAIN users \ {u} : users'[x] = users[x]
      BY <3>1 DEF Put
    <3>3. QED
      BY <1>1, <1>6, <2>1, <3>2, FoundingKeepsTeamInv DEF createTeamWithOwner
  <2>2. CASE ~licensed
    <3>1. /\ u \notin DOMAIN users
          /\ users' = Put(users, u, [role |-> "viewer", teamId |-> NoTeam])
          /\ UNCHANGED <<licensed, teams, pipelines, sessions, listed, edited, assignments>>
          /\ Claim(u, NoTeam) /\ "viewer" \in Role
      BY <1>6, <2>2 DEF createTeamWithOwner, Claim, Role
    <3>2. QED
      BY <3>1, UserStepInv
  <2>3. QED
    BY <2>1, <2>2
<1>7. ASSUME NEW t \in DOMAIN teams, NEW u \in User, removeMember(t, u) PROVE TeamInv'
  <2> DEFINE M == teams[t].members \ {u}
             w == [teams[t] EXCEPT !.members = M]
  <2>1. /\ u # teams[t].owner /\ SetTeams([teams EXCEPT ![t] = w])
        /\ UNCHANGED <<licensed, users, pipelines, sessions, claimed, edited, assignments>>
    BY <1>7 DEF removeMember, Removable
  <2>2. /\ w \in TeamRecord /\ w.members = M /\ w.owner = teams[t].owner
        /\ M \subseteq DOMAIN users
    BY <1>1 DEF TeamRecord
  <2> HIDE DEF w
  <2>3. t \notin edited' => w.owner \in w.members
    BY <2>1, <2>2, OwnersAreUsers
  <2>4. QED
    BY <1>1, <2>1, <2>2, <2>3, RosterStepInv
<1>8. ASSUME NEW t \in Team, NEW u \in User, NEW assigned \in TeamRecord,
             assigned.members \subseteq DOMAIN users, updateTeam(t, u, assigned)
      PROVE  TeamInv'
  <2>1. /\ t \in DOMAIN teams /\ SetTeams([teams EXCEPT ![t] = assigned])
        /\ edited' = IF assigned.owner = teams[t].owner /\ assigned.members = teams[t].members
                     THEN edited ELSE edited \cup {t}
        /\ assignments' = assignments + 1
        /\ UNCHANGED <<licensed, users, pipelines, sessions, claimed>>
    BY <1>8 DEF updateTeam
  <2>2. t \notin edited' => assigned.owner = teams[t].owner /\ assigned.owner \in assigned.members
    BY <2>1, OwnersAreUsers
  <2>3. edited \subseteq edited' /\ edited' \subseteq Team /\ assignments' \in Nat
    BY <1>1, <2>1
  <2>4. QED
    BY <1>8, <2>1, <2>2, <2>3, RosterStepInv
<1>9. ASSUME NEW p \in Pipeline, NEW u \in User, NEW visibility \in {"private", "team", "public"},
             createPipeline(p, u, visibility)
      PROVE  TeamInv'
  <2> DEFINE v == [owner |-> u, team |-> users[u].teamId, visibility |-> visibility,
                   permissions |-> {}]
  <2>1. /\ u \in DOMAIN users /\ pipelines' = Put(pipelines, p, v)
        /\ UNCHANGED <<licensed, users, teams, sessions, history>>
    BY <1>9 DEF createPipeline, hasPermission
  <2>2. v \in PipelineRecord
    BY <1>1, <2>1 DEF PipelineRecord, UserRecord
  <2> HIDE DEF v
  <2>3. /\ DOMAIN pipelines' = DOMAIN pipelines \cup {p} /\ pipelines'[p] = v
        /\ \A x \in DOMAIN pipelines \ {p} : pipelines'[x] = pipelines[x]
    BY <2>1 DEF Put
  <2>4. TeamTypeOK'
    BY <1>1, <2>1, <2>2, <2>3 DEF TeamTypeOK, history
  <2>5. QED
    BY <2>1, <2>4, OthersKeepTeamInv DEF history
<1>10. ASSUME NEW p \in DOMAIN pipelines, NEW v \in PipelineRecord,
              pipelines' = [pipelines EXCEPT ![p] = v], assignments' \in Nat,
              UNCHANGED <<licensed, users, teams, sessions, claimed, listed, edited>>
       PROVE  TeamInv'
  <2>1. DOMAIN pipelines' = DOMAIN pipelines
        /\ \A x \in DOMAIN pipelines : pipelines'[x] \in PipelineRecord
    BY <1>1, <1>10
  <2>2. TeamTypeOK'
    BY <1>1, <1>10, <2>1 DEF TeamTypeOK
  <2>3. QED
    BY <1>10, <2>2, OthersKeepTeamInv
<1>11. ASSUME NEW p \in Pipeline, NEW u \in User, NEW assigned \in PipelineRecord,
              updatePipeline(p, u, assigned)
       PROVE  TeamInv'
  <2>1. /\ p \in DOMAIN pipelines /\ pipelines' = [pipelines EXCEPT ![p] = assigned]
        /\ assignments' = assignments + 1
        /\ UNCHANGED <<licensed, users, teams, sessions, claimed, listed, edited>>
    BY <1>11 DEF updatePipeline
  <2>2. assignments' \in Nat
    BY <1>1, <2>1
  <2>3. QED
    BY <1>10, <2>1, <2>2
<1>12. ASSUME NEW p \in Pipeline, NEW u \in User, NEW target \in User,
              sharePipeline(p, target, u)
       PROVE  TeamInv'
  <2> DEFINE v == [pipelines[p] EXCEPT !.permissions = pipelines[p].permissions \cup {target}]
  <2>1. p \in DOMAIN pipelines /\ pipelines' = [pipelines EXCEPT ![p] = v]
        /\ UNCHANGED <<licensed, users, teams, sessions, history>>
    BY <1>12 DEF sharePipeline
  <2>2. v \in PipelineRecord
    BY <1>1, <2>1 DEF PipelineRecord
  <2> HIDE DEF v
  <2>3. assignments' \in Nat /\ UNCHANGED <<claimed, listed, edited>>
    BY <1>1, <2>1 DEF history
  <2>4. QED
    BY <1>10, <2>1, <2>2, <2>3
<1>13. ASSUME NEW u \in User, authenticateUser(u) \/ SessionIdles(u) \/ validateSession(u)
       PROVE  TeamInv'
  <2>1. sessions' \in [User -> {"none", "open", "idle"}]
        /\ UNCHANGED <<licensed, users, teams, pipelines, history>>
    BY <1>1, <1>13 DEF authenticateUser, SessionIdles, validateSession
  <2>2. QED
    BY <1>1, <2>1, OthersKeepTeamInv DEF TeamTypeOK, history
<1>14. CASE Restart
  <2>1. /\ licensed' = FALSE /\ DOMAIN users' = {} /\ DOMAIN teams' = {}
        /\ DOMAIN pipelines' = {} /\ sessions' = [u \in User |-> "none"]
        /\ claimed' = {} /\ listed' = {} /\ edited' = {} /\ assignments' = 0
    BY <1>14 DEF Restart, NoEntries, NoSessions
  <2>2. QED
    BY <2>1 DEF TeamInv, TeamTypeOK, RostersAreListed, TeamIdsAreEntitled, OwnersKeepTheirRole
<1>15. QED
  BY <1>2, <1>3, <1>4, <1>5, <1>6, <1>7, <1>8, <1>9, <1>11, <1>12, <1>13, <1>14,
     RoleStepInv, InviteStepInv
  DEF TeamMove

LEMMA TeamInvImplies == TeamInv => TeamReadersWereMembers
<1> SUFFICES ASSUME TeamInv, NEW p \in DOMAIN pipelines, NEW u \in DOMAIN users,
                    canAccess(u, p), u # pipelines[p].owner,
                    u \notin pipelines[p].permissions,
                    pipelines[p].visibility = "team", pipelines[p].team # NoTeam
             PROVE  Entitled(u, pipelines[p].team, claimed, listed)
  BY DEF TeamReadersWereMembers, Entitled
<1>1. users[u].teamId = pipelines[p].team
  BY DEF canAccess
<1>2. QED
  BY <1>1 DEF TeamInv, TeamIdsAreEntitled
-----------------------------------------------------------------------------
(* The orchestrator's calls.                                               *)

CallRecord ==
    [pc : CallStates, chosen : Kind \cup {"none"}, at : Nat, user : User \cup {System},
     error : {"none", "TypeError", "busy", "limit", "failed", "unrecorded"}]

ExecutorRecord == [kind : Kind, listeners : Nat, busy : BOOLEAN]

\* What a call does.
CallMove(c) ==
    \/ BeginInit(c) \/ initLicense(c) \/ initExecutor(c) \/ EndInit(c)
    \/ \E user \in User \cup {System} : Deny(c, user) \/ Execute(c, user) \/ Refuse(c, user)
    \/ Fail(c)
    \/ \E p \in Pipeline \cup {NoTeam} : Succeed(c, p)

\* What happens to the orchestrator in one step.
PremiumMove ==
    UNCHANGED premiumVars \/ (\E c \in Call : CallMove(c)) \/ Restart

LEMMA PremiumTypes ==
    PremiumTypeOK <=>
        /\ initialized \in BOOLEAN
        /\ executors \in Seq(ExecutorRecord)
        /\ mode \in Kind \cup {"none"}
        /\ calls \in [Call -> CallRecord]
BY DEF PremiumTypeOK, ExecutorRecord, CallRecord

LEMMA ExecutorEntryChanges ==
    ASSUME executors \in Seq(ExecutorRecord), NEW k, NEW e,
           k \in DOMAIN executors => e \in ExecutorRecord
    PROVE  [executors EXCEPT ![k] = e] \in Seq(ExecutorRecord)
<1>1. Len(executors) \in Nat /\ DOMAIN executors = 1..Len(executors)
  OBVIOUS
<1>2. \A i \in 1..Len(executors) :
         [executors EXCEPT ![k] = e][i] = IF i = k THEN e ELSE executors[i]
  BY <1>1
<1>3. \A i \in 1..Len(executors) : [executors EXCEPT ![k] = e][i] \in ExecutorRecord
  BY <1>1, <1>2
<1>4. [executors EXCEPT ![k] = e] \in [1..Len(executors) -> ExecutorRecord]
  BY <1>1, <1>3
<1>5. QED
  BY <1>1, <1>4

LEMMA BusyChanges ==
    ASSUME executors \in Seq(ExecutorRecord), NEW k, NEW b \in BOOLEAN
    PROVE  [executors EXCEPT ![k].busy = b] \in Seq(ExecutorRecord)
<1> DEFINE e == [executors[k] EXCEPT !.busy = b]
<1>1. ASSUME k \in DOMAIN executors PROVE e \in ExecutorRecord
  <2>1. executors[k] \in ExecutorRecord
    BY <1>1
  <2>2. QED
    BY <2>1 DEF ExecutorRecord
<1>2. [executors EXCEPT ![k].busy = b] = [executors EXCEPT ![k] = e]
  OBVIOUS
<1> HIDE DEF e
<1>3. QED
  BY <1>1, <1>2, ExecutorEntryChanges

\* A call's step changes the record of that call.
LEMMA CallsTyped ==
    ASSUME calls \in [Call -> CallRecord], NEW c \in Call, NEW r \in CallRecord,
           calls' = [calls EXCEPT ![c] = r]
    PROVE  calls' \in [Call -> CallRecord]
OBVIOUS

LEMMA CallMoveTyped ==
    ASSUME PremiumTypeOK, NEW c \in Call, CallMove(c)
    PROVE  PremiumTypeOK'
<1>1. /\ initialized \in BOOLEAN /\ executors \in Seq(ExecutorRecord)
      /\ mode \in Kind \cup {"none"} /\ calls \in [Call -> CallRecord]
      /\ calls[c] \in CallRecord /\ current \in Nat
  BY PremiumTypes DEF current
<1>2. SUFFICES /\ initialized' \in BOOLEAN /\ executors' \in Seq(ExecutorRecord)
               /\ mode' \in Kind \cup {"none"} /\ calls' \in [Call -> CallRecord]
  BY DEF PremiumTypeOK, ExecutorRecord, CallRecord
<1> USE DEF CallRecord, CallStates
<1>3. CASE BeginInit(c)
  BY <1>1, <1>3 DEF BeginInit
<1>4. CASE initLicense(c)
  BY <1>1, <1>4 DEF initLicense
<1>5. CASE initExecutor(c)
  <2>1. ExecutionMode \in Kind
    BY DEF ExecutionMode, Kind
  <2>2. [kind |-> ExecutionMode, listeners |-> 0, busy |-> FALSE] \in ExecutorRecord
    BY <2>1 DEF ExecutorRecord
  <2>3. executors' \in Seq(ExecutorRecord)
    BY <1>1, <1>5, <2>2 DEF initExecutor
  <2>4. QED
    BY <1>1, <1>5, <2>1, <2>3 DEF initExecutor
<1>6. CASE EndInit(c)
  <2> DEFINE e == [executors[current] EXCEPT !.listeners = executors[current].listeners + 1]
  <2>1. executors' = [executors EXCEPT ![current] = e]
    BY <1>6 DEF EndInit
  <2>2. ASSUME current \in DOMAIN executors PROVE e \in ExecutorRecord
    <3>1. executors[current] \in ExecutorRecord
      BY <1>1, <2>2
    <3>2. QED
      BY <3>1 DEF ExecutorRecord
  <2> HIDE DEF e
  <2>3. executors' \in Seq(ExecutorRecord)
    BY <1>1, <2>1, <2>2, ExecutorEntryChanges
  <2>4. QED
    BY <1>1, <1>6, <2>3 DEF EndInit
<1>7. ASSUME NEW user \in User \cup {System}, Deny(c, user)
      PROVE  /\ initialized' \in BOOLEAN /\ executors' \in Seq(ExecutorRecord)
             /\ mode' \in Kind \cup {"none"} /\ calls' \in [Call -> CallRecord]
  BY <1>1, <1>7 DEF Deny
<1>8. ASSUME NEW user \in User \cup {System}, Execute(c, user)
      PROVE  /\ initialized' \in BOOLEAN /\ executors' \in Seq(ExecutorRecord)
             /\ mode' \in Kind \cup {"none"} /\ calls' \in [Call -> CallRecord]
  <2>1. executors' \in Seq(ExecutorRecord)
    BY <1>1, <1>8, BusyChanges DEF Execute
  <2>2. QED
    BY <1>1, <1>8, <2>1 DEF Execute
<1>9. ASSUME NEW user \in User \cup {System}, Refuse(c, user)
      PROVE  /\ initialized' \in BOOLEAN /\ executors' \in Seq(ExecutorRecord)
             /\ mode' \in Kind \cup {"none"} /\ calls' \in [Call -> CallRecord]
  <2>1. PICK error \in {"TypeError", "busy", "limit"} :
          /\ calls' = [calls EXCEPT ![c] = [@ EXCEPT !.pc = "rejected", !.user = user,
                                                     !.error = error]]
          /\ UNCHANGED <<initialized, executors, mode>>
    BY <1>9 DEF Refuse, Reject
  <2>2. QED
    BY <1>1, <2>1
<1>10. CASE Fail(c)
  <2>1. executors' \in Seq(ExecutorRecord)
    BY <1>1, <1>10, BusyChanges DEF Fail, Freed
  <2>2. QED
    BY <1>1, <1>10, <2>1 DEF Fail
<1>11. ASSUME NEW p, Succeed(c, p)
       PROVE  /\ initialized' \in BOOLEAN /\ executors' \in Seq(ExecutorRecord)
              /\ mode' \in Kind \cup {"none"} /\ calls' \in [Call -> CallRecord]
  <2>1. executors' \in Seq(ExecutorRecord)
    BY <1>1, <1>11, BusyChanges DEF Succeed, Freed
  <2>2. PICK pc \in {"rejected", "returned"}, error \in {"unrecorded", "none"} :
           calls' = [calls EXCEPT ![c] = [@ EXCEPT !.pc = pc, !.error = error]]
    BY <1>11 DEF Succeed
  <2>3. UNCHANGED <<initialized, mode>>
    BY <1>11 DEF Succeed
  <2>4. QED
    BY <1>1, <2>1, <2>2, <2>3
<1>12. QED
  BY <1>3, <1>4, <1>5, <1>6, <1>7, <1>8, <1>9, <1>10, <1>11 DEF CallMove

LEMMA PremiumStepTyped ==
    ASSUME PremiumTypeOK, PremiumMove
    PROVE  PremiumTypeOK'
<1>1. CASE UNCHANGED premiumVars
  BY <1>1 DEF PremiumTypeOK, premiumVars
<1>2. ASSUME NEW c \in Call, CallMove(c) PROVE PremiumTypeOK'
  BY <1>2, CallMoveTyped
<1>3. CASE Restart
  <2>1. /\ initialized' = FALSE /\ executors' = <<>> /\ mode' = "none"
        /\ calls' = [c \in Call |-> NewCall]
    BY <1>3 DEF Restart
  <2>2. NewCall \in CallRecord
    BY DEF NewCall, CallRecord, CallStates
  <2>3. calls' \in [Call -> CallRecord] /\ executors' \in Seq(ExecutorRecord)
    BY <2>1, <2>2
  <2>4. QED
    BY <2>1, <2>3 DEF PremiumTypeOK, CallRecord, ExecutorRecord
<1>4. QED
  BY <1>1, <1>2, <1>3 DEF PremiumMove
-----------------------------------------------------------------------------
(* All services.                                                           *)

ServicesInv ==
    LicenseInv /\ TrackerInv /\ TeamInv /\ PremiumTypeOK /\ ServerInv /\ AdapterInv

\* What a step is for the parts of the orchestrator.
OrchestratorMove == LicenseMove /\ TrackerMove /\ TeamMove /\ PremiumMove

\* What a step is for each service.
ServicesMove ==
    /\ OrchestratorMove
    /\ ServerNext \/ UNCHANGED serverVars
    /\ AdapterNext \/ UNCHANGED adapterVars

LEMMA UpgradesMove ==
    ASSUME NEW Tiers \in SUBSET Tier, Upgrade(Tiers)
    PROVE  OrchestratorMove
BY DEF Upgrade, upgradeLicense, OrchestratorMove, LicenseMove, TrackerMove, TeamMove,
       PremiumMove, premiumVars

\* An execution of the tracker is a move of the tracker and of the licence.
LEMMA ExecutionsMove ==
    ASSUME NEW licence \in Counted, trackExecution(licence),
           UNCHANGED <<licenseReady, currentTier, license, licenseFile>>
    PROVE  LicenseMove /\ TrackerMove
<1>1. "executions" \in Metric /\ 1 \in Nat
  BY DEF Metric
<1>2. licenseUsage' = trackUsage(licence, "executions", 1)
  BY DEF trackExecution
<1>3. LicenseMove
  BY <1>1, <1>2 DEF LicenseMove
<1>4. QED
  BY <1>3 DEF TrackerMove

LEMMA CallsMove ==
    ASSUME NEW c \in Call, UNCHANGED teamVars, CallMove(c)
    PROVE  OrchestratorMove
<1>1. PremiumMove /\ TeamMove
  BY DEF PremiumMove, TeamMove
<1>2. /\ licenseUsage \in Counted
      /\ \A submitted \in BOOLEAN : Charged(submitted) \in Counted
  BY DEF Counted
<1>3. CASE BeginInit(c) \/ initExecutor(c) \/ EndInit(c)
  BY <1>1, <1>3
  DEF BeginInit, initExecutor, EndInit, OrchestratorMove, LicenseMove, TrackerMove
<1>4. CASE initLicense(c)
  BY <1>1, <1>4 DEF initLicense, OrchestratorMove, LicenseMove, TrackerMove
<1>5. CASE \E user \in User \cup {System} : Deny(c, user)
  BY <1>1, <1>5 DEF Deny, OrchestratorMove, LicenseMove, TrackerMove
<1>6. ASSUME NEW user \in User \cup {System}, Execute(c, user) PROVE OrchestratorMove
  <2>1. PICK submitted \in BOOLEAN : trackExecution(Charged(submitted))
    BY <1>6 DEF Execute
  <2>2. UNCHANGED <<licenseReady, currentTier, license, licenseFile>>
    BY <1>6 DEF Execute
  <2>3. QED
    BY <1>1, <1>2, <2>1, <2>2, ExecutionsMove DEF OrchestratorMove
<1>7. ASSUME NEW user \in User \cup {System}, Refuse(c, user) PROVE OrchestratorMove
  <2>1. PICK submitted \in BOOLEAN, error \in {"TypeError", "busy", "limit"} :
           Reject(c, user, submitted, error)
    BY <1>7 DEF Refuse
  <2>2. /\ trackExecution(Charged(submitted))
        /\ UNCHANGED <<licenseReady, currentTier, license, licenseFile>>
    BY <2>1 DEF Reject
  <2>3. QED
    BY <1>1, <1>2, <2>2, ExecutionsMove DEF OrchestratorMove
<1>8. CASE Fail(c)
  BY <1>1, <1>8 DEF Fail, OrchestratorMove, LicenseMove, TrackerMove
<1>9. ASSUME NEW p, Succeed(c, p) PROVE OrchestratorMove
  <2>1. /\ trackExecution(licenseUsage)
        /\ UNCHANGED <<licenseReady, currentTier, license, licenseFile>>
    BY <1>9 DEF Succeed
  <2>2. QED
    BY <1>1, <1>2, <2>1, ExecutionsMove DEF OrchestratorMove
<1>10. QED
  BY <1>3, <1>4, <1>5, <1>6, <1>7, <1>8, <1>9 DEF CallMove

\* What only the team manager does.
LEMMA TeamsMove ==
    ASSUME TeamMove, UNCHANGED <<licenseVars, trackerVars, premiumVars>>
    PROVE  OrchestratorMove
BY DEF OrchestratorMove, LicenseMove, TrackerMove, PremiumMove, licenseVars

\* The team manager's init() may be that of the licence manager too.
LEMMA InitTeamsMoves ==
    ASSUME initTeams, UNCHANGED <<trackerVars, premiumVars>>
    PROVE  OrchestratorMove
<1>1. licensed' \in BOOLEAN
  BY DEF initTeams, hasFeature
<1>2. TeamMove
  BY <1>1 DEF initTeams, TeamMove
<1>3. LicenseMove
  BY DEF initTeams, LicenseMove
<1>4. QED
  BY <1>2, <1>3 DEF OrchestratorMove, TrackerMove, PremiumMove

\* What only the licence manager does.
LEMMA LicencesMove ==
    ASSUME SaveLicense \/ Expire \/ generateLicense("team"),
           UNCHANGED <<trackerVars, teamVars, premiumVars>>
    PROVE  OrchestratorMove
BY DEF OrchestratorMove, LicenseMove, TrackerMove, TeamMove, PremiumMove,
       SaveLicense, Expire, generateLicense

LEMMA RestartsMove == Restart => OrchestratorMove
BY DEF OrchestratorMove, LicenseMove, TrackerMove, TeamMove, PremiumMove

\* What is tracked against a limit.
LEMMA MeteringMoves ==
    ASSUME NEW m \in LimitedMetric, NEW v \in Nat, Track(m, v),
           UNCHANGED <<licenseReady, currentTier, license, licenseFile, teamVars, premiumVars>>
    PROVE  OrchestratorMove
<1>1. licenseUsage' = trackUsage(licenseUsage, m, v) /\ m \in Metric
  BY DEF Track, Metric, LimitedMetric
<1>2. LicenseMove
  BY <1>1 DEF LicenseMove, Counted
<1>3. QED
  BY <1>2 DEF OrchestratorMove, TrackerMove, TeamMove, PremiumMove

\* The services with no choice at the start: any step of any of them, in any
\* order.
OrchestratorStep == CallStep \/ LicenceStep \/ MeteringStep \/ TeamStep \/ SessionStep

MixedNext ==
    \/ OrchestratorStep /\ UNCHANGED <<serverVars, adapterVars>>
    \/ ServerNext /\ UNCHANGED <<orchestratorVars, adapterVars>>
    \/ AdapterNext /\ UNCHANGED <<orchestratorVars, serverVars>>

MixedSpec == Init /\ [][MixedNext]_<<orchestratorVars, serverVars, adapterVars>>

LEMMA CallStepMoves == CallStep => OrchestratorMove
<1> SUFFICES ASSUME CallStep PROVE OrchestratorMove
  OBVIOUS
<1>1. CASE Upgrade({"free", "team"})
  BY <1>1, UpgradesMove DEF Tier
<1>2. CASE Expire /\ UNCHANGED <<trackerVars, teamVars, premiumVars>>
  BY <1>2, LicencesMove
<1>3. CASE (\E c \in Call : CallMove(c)) /\ UNCHANGED teamVars
  BY <1>3, CallsMove
<1>4. CASE /\ \E u \in User : createUser(u, "developer", NoTeam)
           /\ UNCHANGED <<licenseVars, trackerVars, premiumVars>>
  <2>1. TeamMove
    BY <1>4 DEF TeamMove, Role
  <2>2. QED
    BY <1>4, <2>1, TeamsMove
<1>5. CASE /\ \E p \in Pipeline, u \in User : createPipeline(p, u, "private")
           /\ UNCHANGED <<licenseVars, trackerVars, premiumVars>>
  <2>1. TeamMove
    BY <1>5 DEF TeamMove
  <2>2. QED
    BY <1>5, <2>1, TeamsMove
<1>6. QED
  BY <1>1, <1>2, <1>3, <1>4, <1>5 DEF CallStep, CallMove

LEMMA LicenceStepMoves == LicenceStep => OrchestratorMove
<1> SUFFICES ASSUME LicenceStep PROVE OrchestratorMove
  OBVIOUS
<1>1. ASSUME NEW c \in Call, BeginInit(c) \/ initLicense(c), UNCHANGED teamVars
      PROVE  OrchestratorMove
  BY <1>1, CallsMove DEF CallMove
<1>2. QED
  BY <1>1, UpgradesMove, RestartsMove, LicencesMove, InitTeamsMoves DEF LicenceStep

LEMMA MeteringStepMoves == MeteringStep => OrchestratorMove
<1> SUFFICES ASSUME MeteringStep PROVE OrchestratorMove
  OBVIOUS
<1>1. CASE Upgrade({"free", "team"})
  BY <1>1, UpgradesMove DEF Tier
<1>2. CASE Restart
  BY <1>2, RestartsMove
<1>3. CASE /\ (\E size \in StorageSize : trackStorage(size)) \/ trackAPICall
           /\ UNCHANGED <<licenseReady, currentTier, license, licenseFile, teamVars, premiumVars>>
  <2>1. PICK m \in LimitedMetric, v \in Nat : Track(m, v)
    BY <1>3, TrackerAssumption DEF trackStorage, trackAPICall, LimitedMetric
  <2>2. QED
    BY <1>3, <2>1, MeteringMoves
<1>4. CASE /\ \E i \in DOMAIN alerts : acknowledgeAlert(i)
           /\ UNCHANGED <<licenseVars, teamVars, premiumVars>>
  BY <1>4 DEF OrchestratorMove, LicenseMove, TrackerMove, TeamMove, PremiumMove
<1>5. QED
  BY <1>1, <1>2, <1>3, <1>4 DEF MeteringStep

\* What is assigned in a run has the type of what it replaces.
LEMMA TeamAssignments ==
    ASSUME TeamTypeOK, NEW t \in DOMAIN teams, NEW assigned \in TeamAssigned(teams[t])
    PROVE  assigned \in TeamRecord /\ assigned.members \subseteq DOMAIN users
<1>1. /\ teams[t] \in TeamRecord /\ teams[t].members \subseteq DOMAIN users
      /\ DOMAIN users \subseteq User
  BY TeamTypes
<1>2. CASE assigned \in {[teams[t] EXCEPT !.id = i] : i \in Team}
  BY <1>1, <1>2 DEF TeamRecord
<1>3. CASE assigned \in {[teams[t] EXCEPT !.owner = u] : u \in DOMAIN users}
  BY <1>1, <1>3 DEF TeamRecord
<1>4. CASE assigned \in {[teams[t] EXCEPT !.members = all] : all \in SUBSET DOMAIN users}
  BY <1>1, <1>4 DEF TeamRecord
<1>5. CASE assigned \in {[teams[t] EXCEPT !.maxMembers = Infinity]}
  BY <1>1, <1>5 DEF TeamRecord
<1>6. QED
  BY <1>2, <1>3, <1>4, <1>5 DEF TeamAssigned

LEMMA PipelineAssignments ==
    ASSUME TeamTypeOK, NEW p \in DOMAIN pipelines,
           NEW assigned \in PipelineAssigned(pipelines[p])
    PROVE  assigned \in PipelineRecord
<1>1. pipelines[p] \in PipelineRecord /\ DOMAIN users \subseteq User
  BY TeamTypes
<1>2. CASE assigned \in {[pipelines[p] EXCEPT !.owner = u] : u \in DOMAIN users}
  BY <1>1, <1>2 DEF PipelineRecord
<1>3. CASE assigned \in {[pipelines[p] EXCEPT !.team = t] : t \in Team \cup {NoTeam}}
  BY <1>1, <1>3 DEF PipelineRecord
<1>4. CASE assigned \in {[pipelines[p] EXCEPT !.visibility = v] : v \in {"private", "public"}}
  BY <1>1, <1>4 DEF PipelineRecord
<1>5. QED
  BY <1>2, <1>3, <1>4 DEF PipelineAssigned

LEMMA TeamStepMoves == TeamTypeOK /\ TeamStep => OrchestratorMove
<1> SUFFICES ASSUME TeamTypeOK, TeamStep PROVE OrchestratorMove
  OBVIOUS
<1>1. CASE Upgrade({"free", "team"})
  BY <1>1, UpgradesMove DEF Tier
<1>2. CASE initTeams /\ UNCHANGED <<trackerVars, premiumVars>>
  BY <1>2, InitTeamsMoves
<1>3. CASE UNCHANGED <<licenseVars, trackerVars, premiumVars>>
  <2>1. CASE UserStep
    <3>1. InvitedRole \subseteq Role
      BY TeamAssumption
    <3>2. TeamMove
      BY <2>1, <3>1 DEF UserStep, TeamMove
    <3>3. QED
      BY <1>3, <3>2, TeamsMove
  <2>2. ASSUME NEW t \in Team, NEW u \in User,
               \/ createTeam(t, u) \/ createTeamWithOwner(t, u)
               \/ /\ t \in DOMAIN teams
                  /\ \/ removeMember(t, u)
                     \/ \E role \in Role : updateMemberRole(t, u, role)
        PROVE  OrchestratorMove
    <3>1. TeamMove
      BY <2>2 DEF TeamMove
    <3>2. QED
      BY <1>3, <3>1, TeamsMove
  <2>3. ASSUME NEW t \in Team, NEW u \in User, t \in DOMAIN teams,
               NEW assigned \in TeamAssigned(teams[t]), updateTeam(t, u, assigned)
        PROVE  OrchestratorMove
    <3>1. assigned \in TeamRecord /\ assigned.members \subseteq DOMAIN users
      BY <2>3, TeamAssignments
    <3>2. TeamMove
      BY <2>3, <3>1 DEF TeamMove
    <3>3. QED
      BY <1>3, <3>2, TeamsMove
  <2>4. ASSUME NEW p \in Pipeline, NEW u \in User, createPipeline(p, u, "team")
        PROVE  OrchestratorMove
    <3>1. TeamMove
      BY <2>4 DEF TeamMove
    <3>2. QED
      BY <1>3, <3>1, TeamsMove
  <2>5. ASSUME NEW p \in Pipeline, NEW u \in User, p \in DOMAIN pipelines,
               NEW assigned \in PipelineAssigned(pipelines[p]), updatePipeline(p, u, assigned)
        PROVE  OrchestratorMove
    <3>1. assigned \in PipelineRecord
      BY <2>5, PipelineAssignments
    <3>2. TeamMove
      BY <2>5, <3>1 DEF TeamMove
    <3>3. QED
      BY <1>3, <3>2, TeamsMove
  <2>6. CASE Upgrade({"free", "team"}) \/ (initTeams /\ UNCHANGED <<trackerVars, premiumVars>>)
    BY <1>1, <1>2, <2>6
  <2>7. QED
    BY <2>1, <2>2, <2>3, <2>4, <2>5, <2>6 DEF TeamStep
<1>4. QED
  BY <1>1, <1>2, <1>3 DEF TeamStep

LEMMA SessionStepMoves == SessionStep => OrchestratorMove
<1> SUFFICES ASSUME SessionStep PROVE OrchestratorMove
  OBVIOUS
<1>1. InvitedRole \subseteq Role
  BY TeamAssumption
<1>2. TeamMove /\ UNCHANGED <<licenseVars, trackerVars, premiumVars>>
  BY <1>1 DEF SessionStep, TeamMove
<1>3. QED
  BY <1>2, TeamsMove

LEMMA MixedMoves ==
    ASSUME TeamTypeOK, [MixedNext]_<<orchestratorVars, serverVars, adapterVars>>
    PROVE  ServicesMove
<1>1. OrchestratorStep => OrchestratorMove
  BY CallStepMoves, LicenceStepMoves, MeteringStepMoves, TeamStepMoves, SessionStepMoves
  DEF OrchestratorStep
<1>2. UNCHANGED orchestratorVars => OrchestratorMove
  BY DEF orchestratorVars, OrchestratorMove, LicenseMove, TrackerMove, TeamMove, PremiumMove
<1>3. QED
  BY <1>1, <1>2 DEF MixedNext, ServicesMove

LEMMA ServicesStepInv ==
    ASSUME ServicesInv, ServicesMove
    PROVE  ServicesInv'
<1>1. LicenseTypeOK /\ LicenseMove /\ TrackerMove /\ TeamMove /\ PremiumMove
  BY DEF ServicesInv, LicenseInv, ServicesMove, OrchestratorMove
<1>2. LicenseInv'
  BY <1>1, LicenseStepInv DEF ServicesInv
<1>3. TrackerInv'
  BY <1>1, TrackerStepInv DEF ServicesInv
<1>4. TeamInv'
  BY <1>1, TeamStepInv DEF ServicesInv
<1>5. PremiumTypeOK'
  BY <1>1, PremiumStepTyped DEF ServicesInv
<1>6. ServerInv'
  BY ServerStepInv, ServerStutter DEF ServicesInv, ServicesMove
<1>7. AdapterInv'
  BY AdapterStepInv, AdapterStutter DEF ServicesInv, ServicesMove
<1>8. QED
  BY <1>2, <1>3, <1>4, <1>5, <1>6, <1>7 DEF ServicesInv

LEMMA ServicesInitInv == Init => ServicesInv
<1> SUFFICES ASSUME Init PROVE ServicesInv
  OBVIOUS
<1>1. LicenseInv
  <2>1. TeamLicense \in License
    BY DEF TeamLicense, License, Tier
  <2>2. NoUsage \in [Metric -> Nat]
    BY DEF NoUsage
  <2>3. QED
    BY <2>1, <2>2 DEF Init, LicenseInit, LicenseInv, LicenseTypeOK, PaidTierIsBacked, Tier
<1>2. TrackerInv
  <2>1. /\ usage = [m \in Metric |-> 0] /\ alerts = <<>> /\ dying = FALSE
        /\ writtenUnder = [m \in LimitedMetric |-> "free"]
    BY DEF Init, TrackerInit, NoUsage, NoTier
  <2>2. NewestIsRight
    <3>1. ASSUME NEW m \in LimitedMetric, tiers["free"].limits[m] # Infinity
          PROVE  ~(4 * usage[m] >= 3 * tiers["free"].limits[m])
      <4>1. tiers["free"].limits[m] \in Nat \ {0}
        BY <3>1, LimitsTyped DEF Tier
      <4>2. usage[m] = 0
        BY <2>1 DEF Metric, LimitedMetric
      <4>3. QED
        BY <4>1, <4>2
    <3>2. QED
      BY <2>1, <3>1 DEF NewestIsRight
  <2>3. alerts \in Seq(Alert) /\ Len(alerts) <= MaxAlerts
    BY <2>1, TrackerAssumption
  <2>4. QED
    BY <2>1, <2>2, <2>3 DEF TrackerInv, TrackerTypeOK, Tier
<1>3. TeamInv
  <2>1. /\ licensed = FALSE /\ DOMAIN users = {} /\ DOMAIN teams = {} /\ DOMAIN pipelines = {}
        /\ sessions = [u \in User |-> "none"]
        /\ claimed = {} /\ listed = {} /\ edited = {} /\ assignments = 0
    BY DEF Init, TeamInit, NoEntries, NoSessions
  <2>2. QED
    BY <2>1 DEF TeamInv, TeamTypeOK, RostersAreListed, TeamIdsAreEntitled, OwnersKeepTheirRole
<1>4. PremiumTypeOK
  <2>1. /\ initialized = FALSE /\ executors = <<>> /\ mode = "none"
        /\ calls = [c \in Call |-> NewCall]
    BY DEF Init, PremiumInit
  <2>2. NewCall \in CallRecord
    BY DEF NewCall, CallRecord, CallStates
  <2>3. calls \in [Call -> CallRecord] /\ executors \in Seq(ExecutorRecord)
    BY <2>1, <2>2
  <2>4. QED
    BY <2>1, <2>3 DEF PremiumTypeOK, CallRecord, ExecutorRecord
<1>5. QED
  BY <1>1, <1>2, <1>3, <1>4, ServerInitInv, AdapterInitInv DEF Init, ServicesInv

\* Even if the services take turns in one process, none disturbs another: all
\* they promise below holds of every mixture of their steps.
THEOREM ServicesInterleave == MixedSpec => []ServicesInv
<1> DEFINE v == <<orchestratorVars, serverVars, adapterVars>>
<1>1. ServicesInv /\ [MixedNext]_v => ServicesInv'
  BY MixedMoves, ServicesStepInv DEF ServicesInv, TeamInv
<1>2. QED
  BY <1>1, ServicesInitInv, PTL DEF MixedSpec

LEMMA ServicesAreMixed == Spec => MixedSpec
<1> DEFINE v == <<orchestratorVars, serverVars, adapterVars>>
<1>1. [Next]_vars => [MixedNext]_v
  BY DEF Next, vars, MixedNext, OrchestratorStep
<1>2. QED
  BY <1>1, PTL DEF Spec, MixedSpec

LEMMA ServicesInvariance == Spec => []ServicesInv
BY ServicesInterleave, ServicesAreMixed

\* The variables of every service have their types at all times.
THEOREM ServicesTypeCorrect == Spec => []ServicesTypeOK
<1>1. ServicesInv => ServicesTypeOK
  BY DEF ServicesInv, ServicesTypeOK, LicenseInv, TrackerInv, TeamInv, ServerInv, AdapterInv
<1>2. QED
  BY <1>1, ServicesInvariance, PTL

\* A paid tier is always that of the licence the manager holds.
\* (license-manager.js:198-269)
THEOREM TiersAreBacked == Spec => []PaidTierIsBacked
<1>1. ServicesInv => PaidTierIsBacked
  BY DEF ServicesInv, LicenseInv
<1>2. QED
  BY <1>1, ServicesInvariance, PTL

\* While the tier is the one a metric was last tracked under, the newest alert
\* of that metric shows today's total, unless the other metric's alerts fill the
\* list: for any sizes of writes and any number of alerts kept.
\* (usage-tracker.js:171-203, 240-286, 360-380)
THEOREM NewestAlertsAreRight == Spec => []NewestAlertIsCurrent
<1>1. ServicesInv => NewestAlertIsCurrent
  BY TrackerInvImplies DEF ServicesInv
<1>2. QED
  BY <1>1, ServicesInvariance, PTL

\* Whoever reads a pipeline through its teamId came with that teamId, or is or
\* was on the roster of a team of that id, whatever is assigned to teams and
\* pipelines, for any number of users and teams.
\* (team-manager.js:118-140, 175-193, 284-335, 413-435)
THEOREM ReadersWereMembers == Spec => []TeamReadersWereMembers
<1>1. ServicesInv => TeamReadersWereMembers
  BY TeamInvImplies DEF ServicesInv
<1>2. QED
  BY <1>1, ServicesInvariance, PTL

\* The owner of a team that nobody has edited keeps the role of an owner, unless
\* another team lists that user or did.
\* (team-manager.js:118-151, 284-325)
THEOREM OwnersStayOwners == Spec => []OwnersKeepTheirRole
<1>1. ServicesInv => OwnersKeepTheirRole
  BY DEF ServicesInv, TeamInv
<1>2. QED
  BY <1>1, ServicesInvariance, PTL

\* The server's table holds the executions whose requests await their answer,
\* and no other, for any number of executions and sockets.
\* (server.js:123-155, 311-337)
THEOREM TableIsExact == Spec => []TableHoldsTheUnanswered
<1>1. ServicesInv => TableHoldsTheUnanswered
  BY DEF ServicesInv, ServerInv
<1>2. QED
  BY <1>1, ServicesInvariance, PTL

\* A call of an adapter gets the outcome of its own program, for any number of
\* calls that share the clock their file names are made from, unless they share
\* a file.
\* (python-adapter.js:30-68, 99-156; javascript-adapter.js:21-79, 156-180)
THEOREM OutcomesAreTheirOwn == Spec => []OutcomesAreOwn
<1>1. ServicesInv => OutcomesAreOwn
  BY AdapterInvImplies DEF ServicesInv
<1>2. QED
  BY <1>1, ServicesInvariance, PTL
===============================================================================
