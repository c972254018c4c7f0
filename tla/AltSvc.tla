------------------------------- MODULE AltSvc -------------------------------
(***************************************************************************)
(* altSvcConn (internal/edge/altsvc.go): a tunnel stream whose first final *)
(* response head gets an Alt-Svc line on its way to the client.  The       *)
(* service's bytes come in whatever pieces the tunnel delivers, the client *)
(* reads in pieces of its own, and the service may end or fall silent      *)
(* anywhere.                                                               *)
(*                                                                         *)
(* A byte sequence is a sequence of symbols: "cr" and "lf", and one symbol *)
(* for the text of a line ("200", "100", "101" or "junk" for a first line, *)
(* "alt", "other" or "fold" for a field) or for a piece of a body.  How a  *)
(* line's text is cut does not matter: only the line breaks are looked     *)
(* for.  Lengths are counted in symbols.                                   *)
(***************************************************************************)
EXTENDS Integers, FiniteSets, SequencesExt

CONSTANTS
    Heads,          \* the heads the service may send
    Bodies,         \* what may follow the final one
    MaxHeader       \* maxHeaderBytes

ASSUME AltSvcAssumption == MaxHeader \in Nat

(***************************************************************************)
(* A head: its first line, its fields, and the number of the line that     *)
(* ends in a bare line feed (0: none; the blank line is the last).         *)
(***************************************************************************)
Break(h, i) == IF h.bare = i THEN <<"lf">> ELSE <<"cr", "lf">>
Lines(h) == <<h.status>> \o h.fields \o <<"">>
Text(h) ==
    FlattenSeq([i \in 1 .. Len(Lines(h)) |->
        (IF Lines(h)[i] = "" THEN <<>> ELSE <<Lines(h)[i]>>) \o Break(h, i)])

VARIABLES
    service,        \* the response: its heads, its body, and whether the
                    \* service's own Alt-Svc is replaced
    arrived,        \* how many symbols of it the edge has read
    over,           \* TRUE: the service has closed its side
    buf,            \* collected while looking for a head (buf, then rest)
    pending, done,  \* as in the code
    out             \* what the client was given

altVars == <<service, arrived, over, buf, pending, done, out>>

Wire(r) == FlattenSeq([i \in 1 .. Len(r.heads) |-> Text(r.heads[i])]) \o r.body
Left == SubSeq(Wire(service), arrived + 1, Len(Wire(service)))
Drop(s, n) == SubSeq(s, n + 1, Len(s))

(* At most one interim response, and the final one with its body. *)
Response ==
    { r \in [heads : UNION { [1 .. k -> Heads] : k \in 1 .. 2 }, body : Bodies, replace : BOOLEAN] :
        /\ \A i \in 1 .. Len(r.heads) - 1 : r.heads[i].status = "100"
        /\ Last(r.heads).status = "100" => r.body = <<>> }

AltStart(responses) ==
    /\ service \in responses
    /\ arrived = 0
    /\ over = FALSE
    /\ buf = <<>> /\ pending = <<>> /\ done = FALSE
    /\ out = <<>>

-----------------------------------------------------------------------------
(* hasBareLF *)
HasBareLF(b) == \E i \in DOMAIN b : b[i] = "lf" /\ (i = 1 \/ b[i - 1] # "cr")

(* The line breaks of b that an empty line follows. *)
BlankAfter(b) ==
    { i \in DOMAIN b : b[i] = "lf" /\ i < Len(b)
        /\ (b[i + 1] = "lf" \/ (i + 2 <= Len(b) /\ b[i + 1] = "cr" /\ b[i + 2] = "lf")) }

(* headEnd, as a set: {} while there is no head; else where its last line  *)
(* ends, and whether all of it uses CRLF.                                  *)
HeadEnd(b) ==
    { LET cr == i > 1 /\ b[i - 1] = "cr"
          end == IF cr THEN i - 2 ELSE i - 1
          crlf == cr /\ b[i + 1] = "cr" /\ ~HasBareLF(SubSeq(b, 1, i))
      IN  [end |-> end, crlf |-> crlf] :
        i \in { j \in BlankAfter(b) : \A k \in BlankAfter(b) : j <= k } }

(* statusCode and isInterim: "junk" has no status code. *)
IsInterim(head) == head[1] = "100"

(* The fields of a head in CRLF lines, and those that withAltSvc keeps:    *)
(* not an Alt-Svc field, nor a folded line that continues one.             *)
Fields(head) == SelectSeq(Tail(head), LAMBDA x : x \notin {"cr", "lf"})

(* Mutant: a folded line stays whatever it continues. *)
KeptUnfolded(fields) == SelectSeq(fields, LAMBDA x : x # "alt")

Kept(fields) ==
    LET dropping[i \in 0 .. Len(fields)] ==
            i > 0 /\ (fields[i] = "alt" \/ (fields[i] = "fold" /\ dropping[i - 1]))
        kept[i \in 0 .. Len(fields)] ==
            IF i = 0 THEN <<>>
            ELSE IF dropping[i] THEN kept[i - 1] ELSE Append(kept[i - 1], fields[i])
    IN  kept[Len(fields)]

(* withAltSvc; "h3" is the line it adds. *)
WithAltSvc(b, end, replace) ==
    LET head == SubSeq(b, 1, end)
        fields == Fields(head)
        asIs == head[1] \in {"junk", "100", "101"} \/ ("alt" \in ToSet(fields) /\ ~replace)
        lines == Append(Kept(fields), "h3")
    IN  IF asIs THEN b
        ELSE <<head[1]>> \o FlattenSeq([i \in 1 .. Len(lines) |-> <<"cr", "lf", lines[i]>>])
             \o Drop(b, end)

-----------------------------------------------------------------------------
(* Read: the client has room for one symbol, or for all there is. *)
Pieces(s) == {1, Len(s)} \cap 1 .. Len(s)

(* Bytes that are ready... *)
Give ==
    /\ pending # <<>>
    /\ \E n \in Pieces(pending) :
        /\ out' = out \o SubSeq(pending, 1, n)
        /\ pending' = Drop(pending, n)
    /\ UNCHANGED <<service, arrived, over, buf, done>>

(* ...or, once the head is dealt with, whatever comes. *)
Through ==
    /\ pending = <<>> /\ done
    /\ ~over
    /\ \E n \in Pieces(Left) :
        /\ out' = out \o SubSeq(Left, 1, n)
        /\ arrived' = arrived + n
    /\ UNCHANGED <<service, over, buf, pending, done>>

Looking == pending = <<>> /\ ~done

(* A head is in sight. *)
HeadSeen ==
    /\ Looking
    /\ \E e \in HeadEnd(buf) :
        \/ /\ ~e.crlf \/ e.end > MaxHeader
           /\ done' = TRUE /\ pending' = buf /\ buf' = <<>>
        \/ /\ e.crlf /\ e.end <= MaxHeader /\ IsInterim(buf)
           /\ pending' = SubSeq(buf, 1, e.end + 4) /\ buf' = Drop(buf, e.end + 4)
           /\ UNCHANGED done
        \/ /\ e.crlf /\ e.end <= MaxHeader /\ ~IsInterim(buf)
           /\ done' = TRUE /\ pending' = WithAltSvc(buf, e.end, service.replace) /\ buf' = <<>>
    /\ UNCHANGED <<service, arrived, over, out>>

(* No head in sight, and too much collected. *)
TooLong ==
    /\ Looking
    /\ HeadEnd(buf) = {} /\ Len(buf) > MaxHeader
    /\ done' = TRUE /\ pending' = buf /\ buf' = <<>>
    /\ UNCHANGED <<service, arrived, over, out>>

Collect ==
    /\ Looking
    /\ HeadEnd(buf) = {} /\ Len(buf) <= MaxHeader
    /\ ~over
    /\ \E n \in 1 .. Len(Left) :
        /\ buf' = buf \o SubSeq(Left, 1, n)
        /\ arrived' = arrived + n
    /\ UNCHANGED <<service, over, pending, done, out>>

EndOfStream ==
    /\ Looking
    /\ HeadEnd(buf) = {} /\ Len(buf) <= MaxHeader
    /\ over
    /\ done' = TRUE /\ pending' = buf /\ buf' = <<>>
    /\ UNCHANGED <<service, arrived, over, out>>

(* The service's side ends, wherever it is in its response. *)
ServiceCloses ==
    /\ ~over
    /\ over' = TRUE
    /\ UNCHANGED <<service, arrived, buf, pending, done, out>>

AltNext == Give \/ Through \/ HeadSeen \/ TooLong \/ Collect \/ EndOfStream \/ ServiceCloses

-----------------------------------------------------------------------------
(* The heads the edge is to look at: up to the first that is not an        *)
(* interim one in CRLF lines that fits.                                    *)
EndOf(h) == Len(Text(h)) - 4
Passes(h) == h.status = "100" /\ h.bare = 0 /\ EndOf(h) <= MaxHeader
Final(r) == CHOOSE i \in 1 .. Len(r.heads) :
                /\ \A j \in 1 .. i - 1 : Passes(r.heads[j])
                /\ i = Len(r.heads) \/ ~Passes(r.heads[i])
Before(r) == FlattenSeq([i \in 1 .. Final(r) - 1 |-> Text(r.heads[i])])

(* The fields a head is left with: all but each Alt-Svc field, that is the *)
(* "alt" line and the folded lines up to the next field.                   *)
Unset(fs) ==
    LET of(i) == CHOOSE j \in 0 .. i : (j = 0 \/ fs[j] # "fold") /\ \A k \in j + 1 .. i : fs[k] = "fold"
        gone == { i \in DOMAIN fs : of(i) > 0 /\ fs[of(i)] = "alt" }
    IN  [k \in 1 .. Len(fs) - Cardinality(gone) |->
            fs[CHOOSE i \in DOMAIN fs \ gone : Cardinality({ j \in DOMAIN fs \ gone : j <= i }) = k]]

(* The response as the client is to see it: annotated or not. *)
Due(r) ==
    LET h == r.heads[Final(r)]
    IN  h.status = "200" /\ h.bare = 0 /\ ("alt" \in ToSet(h.fields) => r.replace)
Annotated(r) ==
    LET h == r.heads[Final(r)]
        after == Drop(Wire(r), Len(Before(r)) + Len(Text(h)))
    IN  Before(r) \o Text([h EXCEPT !.fields = Append(Unset(@), "h3")]) \o after

(* A head is seen in time when all of it fits, and never when its lines do *)
(* not; in between it depends on the pieces it came in.                    *)
Outcomes(r) ==
    LET end == EndOf(r.heads[Final(r)])
        complete == arrived >= Len(Before(r)) + end + 4
    IN  (IF Due(r) /\ end <= MaxHeader /\ complete THEN {Annotated(r)} ELSE {})
        \cup (IF Due(r) /\ end + 3 <= MaxHeader /\ complete THEN {} ELSE {Wire(r)})

(***************************************************************************)
(* However the response is cut into pieces, the client gets it with        *)
(* exactly the one line added to its first final head, in place of the     *)
(* service's own (with its folded lines) if that is to be replaced; or, if *)
(* the head has one, is not a plain response in CRLF lines or does not     *)
(* fit, or the service stops short of its end, exactly as the service sent *)
(* it.                                                                     *)
(***************************************************************************)
RelayedExactly ==
    \E w \in Outcomes(service) :
        LET cut == SubSeq(w, 1, Len(w) - Len(Left))
        IN  /\ IsPrefix(out, cut)
            /\ done /\ pending = <<>> => out = cut

(* How much of the response, as far as it has arrived, is complete heads.  *)
CompleteHeads(r) ==
    LET upTo(i) == Len(FlattenSeq([j \in 1 .. i |-> Text(r.heads[j])]))
        seen == { i \in 0 .. Len(r.heads) : upTo(i) <= arrived }
    IN  upTo(CHOOSE i \in seen : \A j \in seen : j <= i)

(***************************************************************************)
(* Nothing a client waits for is held back: when the edge goes to the      *)
(* service for more, every head that is complete (a 100 Continue the       *)
(* client is to answer with its body, say) has been passed on.             *)
(***************************************************************************)
NothingHeldBack ==
    Looking /\ HeadEnd(buf) = {} /\ Len(buf) <= MaxHeader => Len(out) >= CompleteHeads(service)

(* Both: the client gets the right bytes, and none too late. *)
AltSvcExact == RelayedExactly /\ NothingHeldBack
=============================================================================
