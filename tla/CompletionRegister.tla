------------------------- MODULE CompletionRegister --------------------------
(***************************************************************************)
(* What completion promises its clients: a session is a write-once         *)
(* register of a file id.  The first completion to get through chooses the *)
(* file, every later answer repeats the choice, and a request is answered  *)
(* at most once.                                                           *)
(***************************************************************************)
CONSTANTS Sessions, Requests, Nil

VARIABLES
    chosen,     \* the file of each session, or Nil
    answer      \* <<session, file>> answered to each request, or Nil

vars == <<chosen, answer>>

Init ==
    /\ chosen = [s \in Sessions |-> Nil]
    /\ answer = [p \in Requests |-> Nil]

\* Request p completes s with the new file it created (named p).
Choose(p, s) ==
    /\ chosen[s] = Nil
    /\ answer[p] = Nil
    /\ chosen' = [chosen EXCEPT ![s] = p]
    /\ answer' = [answer EXCEPT ![p] = <<s, p>>]

\* Request p learns the file chosen for s.
Learn(p, s) ==
    /\ chosen[s] # Nil
    /\ answer[p] = Nil
    /\ answer' = [answer EXCEPT ![p] = <<s, chosen[s]>>]
    /\ UNCHANGED chosen

Next == \E p \in Requests, s \in Sessions : Choose(p, s) \/ Learn(p, s)

Spec == Init /\ [][Next]_vars
==============================================================================
