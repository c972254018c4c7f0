------------------------------ MODULE MCParts ------------------------------
(***************************************************************************)
(* The parts of the edge that stand alone, each checked by itself in one   *)
(* run: a behaviour is of the part it starts with, and leaves the state of *)
(* the others as it was.  Streams and the tunnel of Counters share nothing *)
(* but the scrape, and are a part each.                                    *)
(***************************************************************************)
EXTENDS Lookup, AltSvc, Cooldown, Counters, TLC

CONSTANTS g1, g2, g3, la, lb

VARIABLE part

PlainResponse ==
    [heads |-> <<[status |-> "200", fields |-> <<>>, bare |-> 0]>>, body |-> <<>>, replace |-> FALSE]

vars == <<part, query, altVars, coolVars, countVars>>

Init ==
    /\ part \in {"lookup", "altsvc", "cooldown", "streams", "tunnel"}
    /\ LookupInit
    /\ AltStart(IF part = "altsvc" THEN Response ELSE {PlainResponse})
    /\ CoolInit
    /\ CountInit

Next ==
    /\ UNCHANGED part
    /\ \/ part = "lookup" /\ LookupNext /\ UNCHANGED <<altVars, coolVars, countVars>>
       \/ part = "altsvc" /\ AltNext /\ UNCHANGED <<query, coolVars, countVars>>
       \/ part = "cooldown" /\ CoolNext /\ UNCHANGED <<query, altVars, countVars>>
       \/ part = "streams" /\ (StreamStep \/ ScrapeStep) /\ UNCHANGED <<query, altVars, coolVars>>
       \/ part = "tunnel" /\ (TunnelStep \/ ScrapeStep) /\ UNCHANGED <<query, altVars, coolVars>>

Spec == Init /\ [][Next]_vars

(* Goroutines that only differ in their name: requests of Cooldown, streams *)
(* of Counters.                                                            *)
Goroutines == Permutations({g1, g2, g3})

(* One label as wide as two of the other with their dot, so that suffixes  *)
(* of different depth can have one length.                                 *)
MCWidth == [l \in Label |-> IF l = la THEN 3 ELSE 1]

(* Every first line, fields with and without an Alt-Svc one, folded lines  *)
(* that continue one or another, and a bare line feed on any line.         *)
MCFields ==
    {<<>>, <<"alt">>, <<"other">>, <<"alt", "fold">>, <<"alt", "other">>, <<"other", "fold">>,
     <<"other", "alt", "fold">>}
MCHeads ==
    { h \in [status : {"200", "100", "101", "junk"}, fields : MCFields, bare : 0 .. 5] :
        h.bare <= Len(h.fields) + 2 /\ (h.status = "100" => h.fields = <<>>) }

(* No body, or one that looks like a head. *)
MCBodies == {<<>>, <<"piece", "200", "cr", "lf", "cr", "lf">>}
=============================================================================
