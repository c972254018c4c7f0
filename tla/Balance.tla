------------------------------ MODULE Balance ------------------------------
(***************************************************************************)
(* routeState.pick (internal/edge/edge.go): which of a route's candidate   *)
(* sessions the next stream goes to.  The two scans are written as the     *)
(* code runs them, as functions of the number of candidates already        *)
(* visited, and are checked against what their comment promises.           *)
(*                                                                         *)
(* A pick looks at the listed sessions, which of them were tried for this  *)
(* request, which are cooling down after a failure, how many streams each  *)
(* has open, and the request's turn in the route's rotation.               *)
(***************************************************************************)
EXTENDS Integers, Sequences, FiniteSets

(***************************************************************************)
(* The indices pick may choose from in one pass: the first pass leaves out *)
(* the sessions that cool down, the second takes them too.                 *)
(***************************************************************************)
Eligible(cands, tried, cooling, pass) ==
    { i \in 1..Len(cands) : cands[i] \notin tried /\ (pass = 1 \/ cands[i] \notin cooling) }

(* Mutant: turns over the whole list, a skipped one going to the first. *)
TurnOfList(elig, n, turn) ==
    LET at == (turn % n) + 1
    IN  IF at \in elig THEN at ELSE CHOOSE i \in elig : \A j \in elig : i <= j

(***************************************************************************)
(* round_robin: walk the list with k = turn mod count, counting eligible   *)
(* sessions down; the one met with k = 0 is taken.  k[i] is the counter    *)
(* after i candidates, -1 once one was taken.                              *)
(***************************************************************************)
TurnOf(elig, n, turn) ==
    LET k[i \in 0..n] ==
            IF i = 0 THEN turn % Cardinality(elig)
            ELSE IF i \in elig /\ k[i-1] >= 0 THEN k[i-1] - 1 ELSE k[i-1]
    IN  CHOOSE i \in elig : k[i-1] = 0 /\ k[i] = -1

(* The j-th index of the least_conn scan. *)
ScanIndex(j, n, turn) == (((turn % n) + j - 1) % n) + 1

(***************************************************************************)
(* least_conn: scan all n candidates from turn mod n, keeping the first    *)
(* one with strictly fewer streams.  best[j] is the choice after j of      *)
(* them, 0 for none.                                                       *)
(***************************************************************************)
FewestFrom(elig, cands, active, turn) ==
    LET n == Len(cands)
        best[j \in 0..n] ==
            IF j = 0 THEN 0
            ELSE LET i == ScanIndex(j, n, turn)
                 IN  IF i \in elig
                        /\ (best[j-1] = 0 \/ active[cands[i]] < active[cands[best[j-1]]])
                     THEN i ELSE best[j-1]
    IN  best[n]

(* The scan the route's balance setting asks for. *)
Choice(robin, elig, cands, active, turn) ==
    IF robin THEN TurnOf(elig, Len(cands), turn)
    ELSE FewestFrom(elig, cands, active, turn)

(***************************************************************************)
(* pick, as the set of its result: {} when every candidate was tried.      *)
(* robin: the route's balance is round_robin rather than least_conn.       *)
(***************************************************************************)
Pick(robin, cands, tried, cooling, active, turn) ==
    LET elig(pass) == Eligible(cands, tried, cooling, pass)
        passes == { p \in 0..1 : elig(p) # {} }
    IN  IF passes = {} THEN {}
        ELSE LET pass == IF 0 \in passes THEN 0 ELSE 1
             IN  { cands[Choice(robin, elig(pass), cands, active, turn)] }

============================================================================
