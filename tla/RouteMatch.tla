----------------------------- MODULE RouteMatch -----------------------------
(***************************************************************************)
(* How a request's host finds its route (internal/route/route.go).         *)
(*                                                                         *)
(* A name is a sequence of labels.  A host as it was written also has an   *)
(* upper-case letter, a final dot or a port, or none of them.              *)
(***************************************************************************)
EXTENDS Integers, SequencesExt

CONSTANTS
    Label,          \* labels, in lower case
    Width           \* how many characters each has

ASSUME RouteMatchAssumption ==
    Width \in [Label -> Nat \ {0}]

Name(n) == UNION { [1 .. k -> Label] : k \in 1 .. n }
Written(n) == [name : Name(n), upper : BOOLEAN, dot : BOOLEAN, port : BOOLEAN]

(* Normalize: without the port, the final dot and upper case. *)
Normalize(h) == [h EXCEPT !.upper = FALSE, !.dot = FALSE, !.port = FALSE]

(* How many characters a name has, a dot between two labels. *)
Length(w) == FoldSeq(LAMBDA l, n : n + Width[l] + 1, -1, w.name)

-----------------------------------------------------------------------------
(* An entry's pattern is the default, a wildcard or a host. *)
Exact(entries) == SelectSeq(entries, LAMBDA e : e.kind = "host")
Default(entries) == SelectSeq(entries, LAMBDA e : e.kind = "default")
WildcardEntries(entries) == SelectSeq(entries, LAMBDA e : e.kind = "wildcard")

(* Mutant: the wildcards stay as they are listed. *)
WildcardsAsListed(entries) == WildcardEntries(entries)

(* The wildcards as Build leaves them: longest suffix first, and those of  *)
(* one length as they are listed.                                          *)
Wildcards(entries) ==
    LET ws == WildcardEntries(entries)
        len(i) == Length(Normalize(ws[i].host))
        Before(i, j) == len(i) > len(j) \/ (len(i) = len(j) /\ i < j)
        order == CHOOSE p \in SetToSeqs(DOMAIN ws) :
                    \A i, j \in DOMAIN ws : i < j => Before(p[i], p[j])
    IN  [i \in DOMAIN ws |-> ws[order[i]]]

(* strings.HasSuffix(host, "." + suffix), of two normalized names. *)
Under(host, suffix) ==
    /\ Len(host.name) > Len(suffix.name)
    /\ IsSuffix(suffix.name, host.name)
    /\ host.dot = suffix.dot

(* Match: the place of the best pattern in the list, 0 for none. *)
Match(entries, host) ==
    LET h == Normalize(host)
        exact == SelectSeq(Exact(entries), LAMBDA e : Normalize(e.host) = h)
        under == SelectSeq(Wildcards(entries), LAMBDA e : Under(h, Normalize(e.host)))
        best == exact \o under \o Default(entries)
    IN  IF best = <<>> THEN 0 ELSE Head(best).value

=============================================================================
