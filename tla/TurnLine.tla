----------------------------- MODULE TurnLine -----------------------------
(***************************************************************************)
(* What Session.lock promises for each session object (session_table.py:   *)
(* "concurrent requests for the same session are serialised at the session *)
(* level"): requests join a line, the one in front is served, one at a     *)
(* time and in the order of arrival; a request may go away before or while *)
(* it is served, and a served one may never be served again.               *)
(***************************************************************************)
EXTENDS Sequences, SequencesExt

CONSTANTS Requests, Sessions

VARIABLES
    line,       \* line[s]: who waits for session s or is served by it
    served      \* served[s]: who is being served

lineVars == <<line, served>>

LineInit ==
    /\ line = [s \in Sessions |-> <<>>]
    /\ served = [s \in Sessions |-> {}]

Join(s, r) ==
    /\ line' = [line EXCEPT ![s] = Append(@, r)]
    /\ UNCHANGED served

Serve(s, r) ==
    /\ line[s] # <<>> /\ Head(line[s]) = r
    /\ served[s] = {}
    /\ served' = [served EXCEPT ![s] = {r}]
    /\ UNCHANGED line

\* The turn is over, but the request may keep its place while it reports.
Served(s, r) ==
    /\ served[s] = {r}
    /\ served' = [served EXCEPT ![s] = {}]
    /\ line' \in {line, [line EXCEPT ![s] = Tail(@)]}

Leave(s, r) ==
    /\ served[s] \subseteq {r}
    /\ \E i \in 1..Len(line[s]) :
          line[s][i] = r /\ line' = [line EXCEPT ![s] = RemoveAt(@, i)]
    /\ served' = [served EXCEPT ![s] = {}]

LeaveUnserved(s, r) ==
    /\ r \notin served[s]
    /\ \E i \in 1..Len(line[s]) :
          line[s][i] = r /\ line' = [line EXCEPT ![s] = RemoveAt(@, i)]
    /\ UNCHANGED served

LineNext ==
    \E s \in Sessions, r \in Requests :
        Join(s, r) \/ Serve(s, r) \/ Served(s, r) \/ Leave(s, r) \/ LeaveUnserved(s, r)

LineSpec == LineInit /\ [][LineNext]_lineVars
=============================================================================
