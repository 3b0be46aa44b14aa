----------------------------- MODULE Sequencing -----------------------------
(* Arrays and Maps that a loop of the JavaScript code filters in place.     *)
EXTENDS Integers, Sequences, FiniteSets, Functions, FiniteSetsExt

\* The subsequence of s at the positions I: what is left of an array or a Map
\* after a loop has taken the other entries out.  It has one element.
Subsequence(s, I) ==
    { [a \in 1..Cardinality(I) |-> s[h[a]]] :
        h \in {g \in Bijection(1..Cardinality(I), I) :
                 \A a, b \in DOMAIN g : a < b => g[a] < g[b]} }
=============================================================================
