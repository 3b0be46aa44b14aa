---------------------------- MODULE HttpCounter ----------------------------
(***************************************************************************)
(* The counter behind the HTTP API of http_api.rs.  increment() and        *)
(* decrement() read it under one lock and write it under another, and      *)
(* requests are handled concurrently.                                      *)
(***************************************************************************)
EXTENDS Integers, FiniteSets

CONSTANTS
    Request,    \* the requests that change the counter
    Settable,   \* the values that set_value() is called with
    MaxCount,   \* u64::MAX
    Checked     \* whether the build checks arithmetic for overflow

ASSUME HttpAssumption ==
    /\ MaxCount \in Nat
    /\ Settable \subseteq 0..MaxCount
    /\ Checked \in BOOLEAN

VARIABLES
    counterValue,   \* AppState.counter
    request,        \* where each request is: "adds" and "takes" have read the
                    \* counter, "added", "taken" and "set" are answered
    current,        \* what a request has read
    effect,         \* history: the requests that the counter reflects
    basis,          \* history: those that a request has read the effect of
    writers,        \* history: those answered since the last set_value()
    exposed,        \* history: those that wrote while another one was between
                    \* its read and its write
    wrapped         \* history: the counter has gone from MaxCount to 0

httpVars == <<counterValue, request, current, effect, basis, writers, exposed, wrapped>>

\* Requests on top of the value that the last set_value() of them has written.
Effects == [base : 0..MaxCount, of : SUBSET Request]

HttpTypeOK ==
    /\ counterValue \in 0..MaxCount
    /\ request \in [Request -> {"new", "adds", "takes", "added", "taken", "set",
                                "refused", "panicked"}]
    /\ current \in [Request -> 0..MaxCount]
    /\ effect \in Effects
    /\ basis \in [Request -> Effects]
    /\ writers \subseteq Request
    /\ exposed \subseteq Request
    /\ wrapped \in BOOLEAN

HttpInit ==
    /\ counterValue = 0
    /\ request = [q \in Request |-> "new"]
    /\ current = [q \in Request |-> 0]
    /\ effect = [base |-> 0, of |-> {}]
    /\ basis = [q \in Request |-> effect]
    /\ writers = {} /\ exposed = {} /\ wrapped = FALSE

InProgress(q) == request[q] \in {"adds", "takes"}

\* Request q has read the counter and goes on to at.
Reads(q, at) ==
    /\ request[q] = "new"
    /\ request' = [request EXCEPT ![q] = at]
    /\ current' = [current EXCEPT ![q] = counterValue]
    /\ basis' = [basis EXCEPT ![q] = effect]
    /\ UNCHANGED <<counterValue, effect, writers, exposed, wrapped>>

\* Request q writes v, with the effect e, and is answered.
Writes(q, v, e, at) ==
    /\ counterValue' = v
    /\ request' = [request EXCEPT ![q] = at]
    /\ effect' = e
    /\ writers' = (IF at = "set" THEN {} ELSE writers) \cup {q}
    /\ exposed' = exposed \cup {x \in {q} : \E p \in Request \ {q} : InProgress(p)}
    /\ UNCHANGED <<current, basis>>

OnBasis(q) == [basis[q] EXCEPT !.of = @ \cup {q}]

\* Without overflow checks current + 1 wraps, with them the handler panics.
ReadToIncrement(q) ==
    Reads(q, IF counterValue = MaxCount /\ Checked THEN "panicked" ELSE "adds")

\* Mutant: the new value is added to the counter (*counter += new_value).
AddNewValue(q) ==
    /\ request[q] = "adds"
    /\ Writes(q, counterValue + current[q] + 1, OnBasis(q), "added")
    /\ UNCHANGED wrapped

WriteIncrement(q) ==
    /\ request[q] = "adds"
    /\ Writes(q, IF current[q] = MaxCount THEN 0 ELSE current[q] + 1, OnBasis(q),
              "added")
    /\ wrapped' = (wrapped \/ current[q] = MaxCount)

\* "Counter cannot go below 0".
ReadToDecrement(q) == Reads(q, IF counterValue = 0 THEN "refused" ELSE "takes")

WriteDecrement(q) ==
    /\ request[q] = "takes"
    /\ Writes(q, current[q] - 1, OnBasis(q), "taken")
    /\ UNCHANGED wrapped

SetValue(q, v) ==
    /\ request[q] = "new"
    /\ Writes(q, v, [base |-> v, of |-> {q}], "set")
    /\ UNCHANGED wrapped

HttpNext == \E q \in Request :
    \/ ReadToIncrement(q) \/ WriteIncrement(q)
    \/ ReadToDecrement(q) \/ WriteDecrement(q)
    \/ \E v \in Settable : SetValue(q, v)

HttpSpec == HttpInit /\ [][HttpNext]_httpVars

-----------------------------------------------------------------------------
Added(Q) == {q \in Q : request[q] = "added"}
Taken(Q) == {q \in Q : request[q] = "taken"}

\* The counter is the net effect of a set of answered requests, each counted
\* once, and all that were answered since the last set_value() are among them
\* but those that wrote while another request was between its read and its
\* write: only such a race loses an update.  No race takes it below 0.
OnlyRacesLoseUpdates ==
    /\ counterValue >= 0
    /\ wrapped \/ counterValue = effect.base + Cardinality(Added(effect.of))
                                             - Cardinality(Taken(effect.of))
    /\ writers \ exposed \subseteq effect.of
=============================================================================
