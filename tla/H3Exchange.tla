----------------------------- MODULE H3Exchange -----------------------------
(***************************************************************************)
(* One HTTP/3 connection's requests, from the client's body to the         *)
(* service's answer (internal/edge/http3.go: serveHTTP3, holdBody,         *)
(* peekBody, h3Exchange, sendBody, readErrs, readResponse, copyResponse,   *)
(* abort; http3ws.go: serveHTTP3WebSocket).                                *)
(*                                                                         *)
(* Each request runs a handler, the goroutine that uploads its body, the   *)
(* one that looks ahead at a body of unknown length, the other direction   *)
(* of a WebSocket, and the abort a reset of the client starts.  A stream   *)
(* that served one request is kept and carries the next, so what the       *)
(* service reads on it is a sequence of messages and must stay one.        *)
(*                                                                         *)
(* A body is a few tokens, and so is a response: its head, then its end.   *)
(* A stream has the number of the request it was opened for.  The pool of  *)
(* kept streams is modelled in H3Pool, and opening one in Dispatch; here   *)
(* the requests come one after the other.  Time passes for a timer only    *)
(* while the goroutine it bounds is blocked.                               *)
(***************************************************************************)
EXTENDS Integers, SequencesExt

CONSTANTS
    MaxRequests,    \* bound: requests of the connection
    Window          \* tokens a stream takes that the service has not read

ASSUME H3ExchangeAssumption == MaxRequests \in Nat \ {0} /\ Window \in Nat \ {0, 1}

Request == 1..MaxRequests
Stream == Request

VARIABLES           \* the request
    q,              \* its number
    pc,             \* where its handler is
    form,           \* its body: "none", "small", "sized", "chunked", "unknown", "upgrade"
    again,          \* idempotent
    inMemory,       \* its body is held
    ts,             \* the stream it is on, 0 for none
    reused,         \* ... which was a kept one
    came,           \* something has been read from it
    close           \* the response says that the service closes

VARIABLES           \* the client, and its body
    left,           \* tokens of the body that were not read yet
    reset,          \* it reset the request (the context is done)
    bodyClosed,     \* r.Body.Close
    peek,           \* the read ahead: "none", "reading", "nil", "eof", "err"
    ahead           \* tokens it read

VARIABLES           \* the goroutines of the request
    upload,         \* "none", "reading", "writing", "ending", "abort", "failed", "done"
    uploadFailed,
    clientBodyFailed,
    armed,          \* context.AfterFunc: "off", "armed", "started"
    aborts,         \* streams an abort that has started is still to end
    down            \* a WebSocket's other direction: "none", "reading", "writing", "done"

VARIABLES           \* each stream
    wire,           \* to the service
    back,           \* from the service
    ended,          \* streams the service, or the tunnel, has ended
    shut,           \* streams the edge has ended
    kept,           \* streams kept for the connection's next request, the latest last
    serving,        \* the request the service is answering, 0 for none
    stage,          \* its answer: "none", "interim", "head", "switched", "framed"
    inBody          \* streams on which the service is inside a request's body

VARIABLES           \* what happened, for the properties
    outs,           \* how often the request has been sent
    relayed,        \* the request whose answer its client got, 0 for none
    blamed,         \* the service was answered for, and counted as failing
    guilty,         \* the service or the tunnel did fail the request
    mixed           \* the service took something else for a part of a body

request == <<q, form, again, inMemory>>
stream == <<ts, reused, came, close>>
client == <<left, reset>>
body == <<bodyClosed, peek, ahead>>
up == <<upload, uploadFailed, clientBodyFailed>>
abortv == <<armed, aborts>>
net == <<wire, back, ended, shut, kept, serving, stage, inBody>>
hist == <<outs, relayed, blamed, guilty, mixed>>
vars == <<request, pc, stream, client, body, up, abortv, down, net, hist>>

Set(f, x, v) == [f EXCEPT ![x] = v]
Token(t, r, flag) == [t |-> t, q |-> r, flag |-> flag]
Push(f, s, tok) == Set(f, s, Append(f[s], tok))
Pop(f, s) == Set(f, s, Tail(f[s]))

Init ==
    /\ q = 0 /\ pc = "idle" /\ form = "none" /\ again = FALSE
    /\ inMemory = FALSE
    /\ ts = 0 /\ reused = FALSE /\ came = FALSE /\ close = FALSE
    /\ left = 0 /\ reset = FALSE
    /\ bodyClosed = TRUE /\ peek = "none" /\ ahead = 0
    /\ upload = "none" /\ uploadFailed = FALSE /\ clientBodyFailed = FALSE
    /\ armed = "off" /\ aborts = {} /\ down = "none"
    /\ wire = [s \in Stream |-> <<>>] /\ back = [s \in Stream |-> <<>>]
    /\ ended = {} /\ shut = {} /\ kept = <<>>
    /\ serving = [s \in Stream |-> 0] /\ stage = [s \in Stream |-> "none"] /\ inBody = {}
    /\ outs = 0 /\ relayed = 0
    /\ blamed = FALSE /\ guilty = FALSE /\ mixed = FALSE

-----------------------------------------------------------------------------
(* Reading the body, as readErrs, peekedBody and the HTTP/3 stream do.     *)

(* A read of the client's body returns when the client sends a token, ends *)
(* its side (short of a Content-Length, perhaps) or breaks off; for sure   *)
(* only once the body is closed or the request reset.                      *)
Cut == bodyClosed \/ reset
FromClient ==
    IF Cut THEN {"err"} ELSE {"eof", "err"} \cup (IF left > 0 THEN {"token"} ELSE {})

(* What was read ahead comes first, once that read has returned. *)
Ahead == ahead > 0 \/ peek \in {"eof", "err"}
FromBody ==
    CASE peek = "reading" -> {}
      [] ahead > 0 -> {"token"}
      [] ahead = 0 /\ peek \in {"eof", "err"} -> {peek}
      [] OTHER -> FromClient

TakeToken ==
    IF ahead > 0 THEN ahead' = 0 /\ UNCHANGED left
    ELSE left' = left - 1 /\ UNCHANGED ahead

(* peekBody's goroutine: one read.  The end may come with the last bytes.  *)
PeekReads ==
    /\ peek = "reading"
    /\ \E x \in FromClient :
         IF x = "token"
         THEN /\ left' = left - 1 /\ ahead' = 1
              /\ peek' \in {"nil"} \cup (IF left = 1 THEN {"eof"} ELSE {})
         ELSE peek' = x /\ UNCHANGED <<left, ahead>>
    /\ UNCHANGED <<request, pc, stream, reset, bodyClosed, up, abortv, down, net, hist>>

(* The client resets the request: its context ends, and with it the        *)
(* function armed on it starts.                                            *)
ClientResets ==
    /\ pc \notin {"idle", "leave"} /\ ~reset
    /\ reset' = TRUE
    /\ IF armed = "armed" THEN armed' = "started" /\ aborts' = aborts \cup {ts}
       ELSE UNCHANGED abortv
    /\ UNCHANGED <<request, pc, stream, left, body, up, down, net, hist>>

-----------------------------------------------------------------------------
(* The handler up to its stream. *)

Goto(l) == pc' = l
Leave == Goto("leave") /\ bodyClosed' = TRUE

(* A request comes, its own state as Return leaves it.  It is turned away  *)
(* (malformed, no route, not for HTTP/3), or gets a stream.                *)
Begin ==
    /\ pc = "idle" /\ q < MaxRequests
    /\ q' = q + 1
    /\ \/ Leave /\ UNCHANGED <<form, left, peek>>
       \/ \E f \in {"none", "small", "sized", "chunked", "unknown", "upgrade"} :
            /\ form' = f
            /\ left' \in CASE f = "none" -> {0}
                           [] f \in {"small", "chunked", "upgrade"} -> {1}
                           [] f = "sized" -> {2}
                           [] f = "unknown" -> {0, 1}
            /\ peek' = IF f = "unknown" THEN "reading" ELSE "none"
            /\ Goto(CASE f = "unknown" -> "peek" [] f = "upgrade" -> "open" [] OTHER -> "hold")
            /\ bodyClosed' = FALSE
    /\ UNCHANGED <<again, inMemory, stream, reset, ahead, up, abortv, down, net, hist>>

(* A body of unknown length: it is sized when all of it came with its end  *)
(* in the first read; chunked when it did not, or peekWait is over.        *)
PeekBody ==
    /\ pc = "peek"
    /\ \/ peek = "err" /\ Leave /\ UNCHANGED form
       \/ /\ peek = "eof"
          /\ form' = IF ahead = 0 THEN "none" ELSE "small"
          /\ Goto("hold") /\ UNCHANGED bodyClosed
       \/ /\ peek \in {"reading", "nil"}
          /\ form' = "chunked"
          /\ Goto("hold") /\ UNCHANGED bodyClosed
    /\ UNCHANGED <<q, again, inMemory, stream, client, peek, ahead, up, abortv, down, net, hist>>

(* The body is held, or there is none; the request may be idempotent,      *)
(* which matters only when there is a stream to reuse.                     *)
Held ==
    /\ inMemory' = TRUE
    /\ again' \in IF kept = <<>> THEN {FALSE} ELSE BOOLEAN
    /\ Goto("take") /\ UNCHANGED bodyClosed

(* holdBody.  A small body is read before anything is sent; if it breaks   *)
(* off, comes short or stalls, the request is reset.                       *)
HoldBody ==
    /\ pc = "hold"
    /\ \/ /\ form \in {"sized", "chunked"}
          /\ Goto("take") /\ UNCHANGED <<again, inMemory, left, ahead, bodyClosed>>
       \/ form = "none" /\ Held /\ UNCHANGED <<left, ahead>>
       \/ form = "small" /\ "token" \in FromBody /\ TakeToken /\ Held
       \/ /\ form = "small" /\ ahead = 0
          /\ Leave /\ UNCHANGED <<again, inMemory, left, ahead>>
    /\ UNCHANGED <<q, form, stream, reset, peek, up, abortv, down, net, hist>>

(* Mutant: any request takes a kept stream. *)
ReuseAny == inMemory /\ kept # <<>>

(* Only a request that can be sent again takes a kept stream. *)
Reuse == inMemory /\ again /\ kept # <<>>

(* Mutant: what the watcher found is not looked at. *)
UsableUnwatched(s) == s \notin ended \cup shut

(* h3Pool.take: nothing has ended the stream, or come on it unasked. *)
Usable(s) == s \notin ended \cup shut /\ back[s] = <<>>

Take ==
    /\ pc = "take"
    /\ IF ~Reuse
       THEN Goto("open") /\ UNCHANGED <<ts, reused, kept, shut>>
       ELSE LET s == Last(kept)
            IN  /\ kept' = Front(kept)
                /\ IF Usable(s)
                   THEN ts' = s /\ reused' = TRUE /\ Goto("sendHead") /\ UNCHANGED shut
                   ELSE shut' = shut \cup {s} /\ UNCHANGED <<ts, reused, pc>>
    /\ UNCHANGED <<request, came, close, client, body, up, abortv, down, wire, back, ended,
                   serving, stage, inBody, hist>>

Head1 == Token("head", q, form \notin {"none", "upgrade"})

(* openH3Stream: a fresh stream and its head, an answer of the edge's own, *)
(* or nothing for a client that gave up.                                   *)
Open ==
    /\ pc = "open"
    /\ \/ Leave /\ UNCHANGED <<stream, wire, outs>>
       \/ /\ ts' = q /\ reused' = FALSE /\ came' = FALSE /\ UNCHANGED close
          /\ wire' = Push(wire, q, Head1)
          /\ outs' = outs + 1
          /\ Goto("arm") /\ UNCHANGED bodyClosed
    /\ UNCHANGED <<request, client, peek, ahead, up, abortv, down, back, ended, shut, kept,
                   serving, stage, inBody, relayed, blamed, guilty, mixed>>

-----------------------------------------------------------------------------
(* h3Exchange: the request goes out. *)

Room(s) == Len(wire[s]) < Window
CanWrite == Room(ts) /\ ts \notin shut
Broken == ts \in ended \cup shut

(* On a kept stream: its head; a failed write means it had closed. *)
SendHead ==
    /\ pc = "sendHead"
    /\ \/ /\ CanWrite
          /\ wire' = Push(wire, ts, Head1)
          /\ outs' = outs + 1
          /\ Goto("arm") /\ UNCHANGED shut
       \/ /\ Broken \/ ~Room(ts)
          /\ shut' = shut \cup {ts}
          /\ Goto("open") /\ UNCHANGED <<wire, outs>>
    /\ UNCHANGED <<request, stream, client, body, up, abortv, down, back, ended, kept, serving,
                   stage, inBody, relayed, blamed, guilty, mixed>>

(* context.AfterFunc, and the upload's goroutine.  A held body is sent by  *)
(* the handler itself, and a WebSocket's upload starts with its 101.       *)
Arm ==
    /\ pc = "arm"
    /\ armed' = IF reset THEN "started" ELSE "armed"
    /\ aborts' = IF reset THEN aborts \cup {ts} ELSE aborts
    /\ CASE form = "upgrade" -> Goto("upgrade") /\ UNCHANGED upload
         [] inMemory -> Goto("sendHeld") /\ UNCHANGED upload
         [] OTHER -> Goto("response") /\ upload' = "reading"
    /\ UNCHANGED <<request, stream, client, body, uploadFailed, clientBodyFailed, down, net, hist>>

(* The held body.  When it cannot be written a kept stream had closed; a   *)
(* fresh one is aborted, and reading the response then fails.              *)
SendHeld ==
    /\ pc = "sendHeld"
    /\ upload' = "done"
    /\ \/ /\ form = "none" \/ CanWrite
          /\ wire' = IF form = "none" THEN wire ELSE Push(wire, ts, Token("body", q, TRUE))
          /\ Goto("response") /\ UNCHANGED <<shut, armed, uploadFailed, guilty>>
       \/ /\ form # "none" /\ (Broken \/ ~Room(ts))
          /\ shut' = shut \cup {ts}
          /\ guilty' = (guilty \/ ~Room(ts))
          /\ IF reused THEN Goto("open") /\ armed' = "off" /\ UNCHANGED uploadFailed
             ELSE Goto("response") /\ uploadFailed' = TRUE /\ UNCHANGED armed
          /\ UNCHANGED wire
    /\ UNCHANGED <<request, stream, client, body, clientBodyFailed, aborts, down, back, ended,
                   kept, serving, stage, inBody, outs, relayed, blamed, mixed>>

-----------------------------------------------------------------------------
(* The upload's goroutine, of a streamed body (sendBody) or a WebSocket    *)
(* (io.Copy).                                                              *)

UploadRest == UNCHANGED <<request, pc, stream, client, body, abortv, down, back, ended, kept,
                          serving, stage, inBody, outs, relayed, blamed, mixed>>

(* Mutant: the client's part in it is not recorded. *)
UploadFailsUnsaid(byClient) ==
    IF form = "upgrade"
    THEN upload' = "failed" /\ UNCHANGED <<uploadFailed, clientBodyFailed>>
    ELSE upload' = "abort" /\ uploadFailed' = TRUE /\ UNCHANGED clientBodyFailed

(* The flags are set before the stream is aborted, in a step of its own. *)
UploadFails(byClient) ==
    IF form = "upgrade"
    THEN upload' = "failed" /\ UNCHANGED <<uploadFailed, clientBodyFailed>>
    ELSE upload' = "abort" /\ uploadFailed' = TRUE /\ clientBodyFailed' = byClient

UploadReads ==
    /\ upload = "reading"
    /\ \E x \in FromBody :
        \/ /\ x = "token"
           /\ TakeToken
           /\ upload' = "writing"
           /\ UNCHANGED <<uploadFailed, clientBodyFailed>>
        \/ /\ x = "eof" /\ form # "sized"
           /\ upload' = IF form = "chunked" THEN "ending" ELSE "done"
           /\ UNCHANGED <<uploadFailed, clientBodyFailed, left, ahead>>
        \/ /\ x = "err" \/ (x = "eof" /\ form = "sized")
           /\ UploadFails(TRUE)
           /\ UNCHANGED <<left, ahead>>
    /\ UNCHANGED <<request, pc, stream, reset, bodyClosed, peek, abortv, down, net, hist>>

UploadWrites ==
    /\ upload \in {"writing", "ending"}
    /\ \/ /\ CanWrite
          /\ LET last == upload = "ending" \/ (form = "sized" /\ left = 0)
             IN  /\ wire' = Push(wire, ts, Token(IF form = "upgrade" THEN "frame" ELSE "body", q, last))
                 /\ upload' = IF last THEN "done" ELSE "reading"
          /\ UNCHANGED <<uploadFailed, clientBodyFailed, guilty>>
       \/ /\ Broken \/ ~Room(ts)
          /\ UploadFails(FALSE)
          /\ guilty' = (guilty \/ ~Room(ts))
          /\ UNCHANGED wire
    /\ UNCHANGED shut /\ UploadRest

UploadAborts ==
    /\ upload = "abort"
    /\ upload' = "done"
    /\ shut' = shut \cup {ts}
    /\ UNCHANGED <<uploadFailed, clientBodyFailed, wire, guilty>> /\ UploadRest

(* The function armed on the request's context. *)
AbortRuns ==
    /\ \E s \in aborts : aborts' = aborts \ {s} /\ shut' = shut \cup {s}
    /\ UNCHANGED <<request, pc, stream, client, body, up, armed, down, wire, back, ended, kept,
                   serving, stage, inBody, hist>>

UploadBlocked ==
    \/ upload \in {"none", "done", "failed"}
    \/ upload = "reading" /\ ~Cut /\ ~Ahead
    \/ upload \in {"writing", "ending"} /\ ~Room(ts)

(* Nothing has moved on the stream for idle_timeout. *)
IdleTimeout == back[ts] = <<>> /\ ~Broken /\ UploadBlocked

-----------------------------------------------------------------------------
(* h3Exchange: the response comes back. *)

ResponseRest == UNCHANGED <<request, client, body, up, aborts, wire, ended, kept, serving, stage,
                            inBody, outs, mixed>>

Next1 == Head(back[ts])

(* readFinalResponse: interim responses are passed on; then the answer. *)
ReadResponse ==
    /\ pc = "response" /\ back[ts] # <<>>
    /\ back' = Pop(back, ts)
    /\ came' = TRUE
    /\ CASE Next1.t = "interim" ->
              UNCHANGED <<pc, close, relayed, blamed, guilty>>
         [] Next1.t \in {"head", "stray"} ->
              /\ relayed' = Next1.q
              /\ close' = Next1.flag
              /\ Goto("copy")
              /\ UNCHANGED <<blamed, guilty>>
         [] OTHER ->
              /\ blamed' = TRUE /\ guilty' = TRUE
              /\ Goto("close")
              /\ UNCHANGED <<close, relayed>>
    /\ UNCHANGED <<ts, reused, armed, down, shut>> /\ ResponseRest

(* A kept stream had closed: the request is sent again on a fresh one. *)
Stale == reused /\ ~came /\ ~reset
SendAgain ==
    /\ Goto("open")
    /\ shut' = shut \cup {ts} /\ armed' = "off"
    /\ UNCHANGED blamed

(* Who another failed read is put down to. *)
ReadFailed(err) ==
    /\ Goto("close")
    /\ blamed' = (blamed \/ ~(reset \/ clientBodyFailed \/ (err = "timeout" /\ upload = "reading")))
    /\ UNCHANGED <<shut, armed>>

ReadFails ==
    /\ pc = "response" /\ back[ts] = <<>>
    /\ \/ Broken /\ Stale /\ SendAgain /\ UNCHANGED guilty
       \/ Broken /\ ~Stale /\ ReadFailed("gone") /\ UNCHANGED guilty
       \/ ts \in shut /\ ReadFailed("timeout") /\ UNCHANGED guilty
       \/ /\ IdleTimeout
          /\ guilty' = (guilty \/ upload # "reading")
          /\ ReadFailed("timeout")
    /\ UNCHANGED <<stream, down, back, relayed>> /\ ResponseRest

(* copyResponse: to its end, or it is cut short: the stream broke or went  *)
(* quiet, or the client is gone or has stopped reading.                    *)
CopyResponse ==
    /\ pc = "copy"
    /\ \/ /\ back[ts] # <<>> /\ Next1.t = "end"
          /\ back' = Pop(back, ts)
          /\ Goto(IF form = "upgrade" THEN "close" ELSE "finish")
       \/ /\ back[ts] # <<>> \/ Broken \/ IdleTimeout \/ reset
          /\ Goto("close") /\ UNCHANGED back
    /\ UNCHANGED <<stream, armed, down, shut, relayed, blamed, guilty>> /\ ResponseRest

(* The stream is at a message boundary, and no abort of it has started. *)
AtBoundary == ~close /\ upload = "done" /\ ~uploadFailed /\ armed = "armed"

(* The response has ended: the stream is kept, unless the pool closes it   *)
(* (see H3Pool) or more than the response was already buffered.            *)
Finish ==
    /\ pc = "finish"
    /\ \/ /\ AtBoundary
          /\ armed' = "off"
          /\ Leave
          /\ \/ kept' = Append(kept, ts) /\ UNCHANGED shut
             \/ shut' = shut \cup {ts} /\ UNCHANGED kept
       \/ /\ ~AtBoundary \/ back[ts] # <<>>
          /\ Goto("close") /\ UNCHANGED <<armed, bodyClosed, kept, shut>>
    /\ UNCHANGED <<request, stream, client, peek, ahead, up, aborts, down, wire, back, ended,
                   serving, stage, inBody, hist>>

(* Mutant: the body is not closed. *)
CloseLeavesBody ==
    /\ pc = "close"
    /\ armed' = IF armed = "armed" THEN "off" ELSE armed
    /\ shut' = shut \cup {ts}
    /\ Goto("leave") /\ UNCHANGED bodyClosed
    /\ UNCHANGED <<request, stream, client, peek, ahead, up, aborts, down, wire, back, ended, kept,
                   serving, stage, inBody, hist>>

(* The deferred calls: the stream and the body are closed, ... *)
Close ==
    /\ pc = "close"
    /\ armed' = IF armed = "armed" THEN "off" ELSE armed
    /\ shut' = shut \cup {ts}
    /\ Leave
    /\ UNCHANGED <<request, stream, client, peek, ahead, up, aborts, down, wire, back, ended, kept,
                   serving, stage, inBody, hist>>

(* ... and whatever reads the body is waited for.  What is left on a       *)
(* stream that is not kept does not matter any more.                       *)
Return ==
    /\ pc = "leave"
    /\ upload \in {"none", "done", "failed"} /\ peek # "reading" /\ down \in {"none", "done"}
    /\ Goto("idle")
    /\ form' = "none" /\ again' = FALSE /\ inMemory' = FALSE
    /\ ts' = 0 /\ reused' = FALSE /\ came' = FALSE /\ close' = FALSE
    /\ left' = 0 /\ reset' = FALSE
    /\ peek' = "none" /\ ahead' = 0
    /\ upload' = "none" /\ uploadFailed' = FALSE /\ clientBodyFailed' = FALSE
    /\ armed' = "off" /\ down' = "none"
    /\ LET here == ToSet(kept)
           Keep(f, v) == [s \in Stream |-> IF s \in here THEN f[s] ELSE v]
       IN  /\ wire' = Keep(wire, <<>>) /\ back' = Keep(back, <<>>)
           /\ serving' = Keep(serving, 0) /\ stage' = Keep(stage, "none")
           /\ ended' = ended \cap here /\ shut' = shut \cap here /\ inBody' = inBody \cap here
    /\ outs' = 0 /\ relayed' = 0 /\ blamed' = FALSE /\ guilty' = FALSE
    /\ aborts' = aborts \cap ToSet(kept)
    /\ UNCHANGED <<q, bodyClosed, kept, mixed>>

-----------------------------------------------------------------------------
(* serveHTTP3WebSocket. *)

(* The service's answer to the upgrade: a 101 opens the two directions, a  *)
(* refusal is passed on, anything else (another 2xx, a wrong accept key)   *)
(* is an error of the service.                                             *)
Upgrade ==
    /\ pc = "upgrade" /\ back[ts] # <<>>
    /\ back' = Pop(back, ts)
    /\ CASE Next1.t = "interim" ->
              UNCHANGED <<pc, upload, down, relayed, blamed, guilty>>
         [] Next1.t = "switch" /\ ~Next1.flag ->
              /\ relayed' = Next1.q
              /\ Goto("bridge")
              /\ upload' = "reading" /\ down' = "reading"
              /\ UNCHANGED <<blamed, guilty>>
         [] Next1.t = "head" /\ ~Next1.flag ->
              /\ relayed' = Next1.q
              /\ Goto("copy")
              /\ UNCHANGED <<upload, down, blamed, guilty>>
         [] OTHER ->
              /\ blamed' = TRUE /\ guilty' = TRUE
              /\ Goto("close")
              /\ UNCHANGED <<upload, down, relayed>>
    /\ UNCHANGED <<request, stream, client, body, uploadFailed, clientBodyFailed, abortv, wire,
                   ended, shut, kept, serving, stage, inBody, outs, mixed>>

UpgradeFails ==
    /\ pc = "upgrade" /\ back[ts] = <<>>
    /\ Broken \/ IdleTimeout
    /\ guilty' = (guilty \/ IdleTimeout)
    /\ blamed' = ~reset
    /\ Goto("close")
    /\ UNCHANGED <<request, stream, client, body, up, abortv, down, net, outs, relayed, mixed>>

(* Frames to the client.  A write ends by its deadline when the client     *)
(* does not read.                                                          *)
Down ==
    /\ \/ /\ down = "reading" /\ back[ts] # <<>>
          /\ back' = Pop(back, ts) /\ down' = "writing"
       \/ /\ down = "reading" /\ back[ts] = <<>> /\ (Broken \/ IdleTimeout)
          /\ down' = "done" /\ UNCHANGED back
       \/ /\ down = "writing"
          /\ down' \in {"reading", "done"} /\ UNCHANGED back
    /\ UNCHANGED <<request, pc, stream, client, body, up, abortv, wire, ended, shut, kept, serving,
                   stage, inBody, hist>>

(* One direction has ended.  After a clean end of the client's the other   *)
(* one gets closeGrace; then everything is closed.                         *)
Bridge ==
    /\ \/ pc = "bridge" /\ (down = "done" \/ upload = "failed") /\ Goto("close")
       \/ pc = "bridge" /\ upload = "done" /\ Goto("grace")
       \/ pc = "grace" /\ Goto("close")
    /\ UNCHANGED <<request, stream, client, body, up, abortv, down, net, hist>>

-----------------------------------------------------------------------------
(* External: the service, and the tunnel between. *)

ServiceRest == UNCHANGED <<request, pc, stream, client, body, up, abortv, down, shut, kept, outs,
                           relayed, blamed>>

(* The streams on which what the service does can still be noticed.  A     *)
(* kept one is looked at only when a request takes it, so that what        *)
(* becomes of it is left to the time between two requests.                 *)
Live(s) ==
    /\ s \notin ended \cup shut
    /\ IF s \in ToSet(kept) THEN pc = "idle" ELSE s = ts /\ pc \notin {"close", "leave"}

(* An HTTP/1.1 server takes the requests of a connection one by one. *)
ServiceReads(s) ==
    /\ Live(s) /\ wire[s] # <<>>
    /\ wire' = Pop(wire, s)
    /\ LET tok == Head(wire[s])
       IN  \/ /\ s \in inBody
              /\ inBody' = IF tok.t = "body" /\ tok.flag THEN inBody \ {s} ELSE inBody
              /\ mixed' = (mixed \/ tok.t # "body")
              /\ UNCHANGED <<serving, stage>>
           \/ /\ s \notin inBody /\ serving[s] = 0 /\ tok.t = "head"
              /\ serving' = Set(serving, s, tok.q)
              /\ stage' = Set(stage, s, "none")
              /\ inBody' = IF tok.flag THEN inBody \cup {s} ELSE inBody
              /\ UNCHANGED mixed
           \/ /\ s \notin inBody /\ serving[s] # 0 /\ tok.t = "frame"
              /\ UNCHANGED <<serving, stage, inBody, mixed>>
    /\ UNCHANGED <<back, ended, guilty>> /\ ServiceRest

Say(s, toks, st) == back' = Set(back, s, back[s] \o toks) /\ stage' = Set(stage, s, st)

(* It answers, possibly before it has read the whole body.  On an upgrade  *)
(* the flag of a response stands for one the edge takes for an error.      *)
ServiceAnswers(s) ==
    /\ Live(s) /\ serving[s] # 0
    /\ \/ /\ stage[s] = "none"
          /\ Say(s, <<Token("interim", serving[s], FALSE)>>, "interim")
          /\ UNCHANGED <<serving, ended>>
       \/ /\ stage[s] \in {"none", "interim"}
          /\ \E f \in BOOLEAN : Say(s, <<Token("head", serving[s], f)>>, "head")
          /\ UNCHANGED <<serving, ended>>
       \/ /\ stage[s] \in {"none", "interim"} /\ form = "upgrade"
          /\ \E f \in BOOLEAN : Say(s, <<Token("switch", serving[s], f)>>, "switched")
          /\ UNCHANGED <<serving, ended>>
       \/ /\ stage[s] = "switched"
          /\ Say(s, <<Token("frame", serving[s], FALSE)>>, "framed")
          /\ UNCHANGED <<serving, ended>>
       \/ /\ stage[s] \in {"none", "interim"}
          /\ Say(s, <<Token("junk", serving[s], FALSE)>>, "none")
          /\ ended' = ended \cup {s}
          /\ UNCHANGED serving
       \/ /\ stage[s] = "head"
          /\ \E more \in {<<>>, <<Token("stray", MaxRequests + 1, FALSE)>>} :
                Say(s, <<Token("end", serving[s], FALSE)>> \o more, "none")
          /\ serving' = Set(serving, s, 0)
          /\ UNCHANGED ended
    /\ UNCHANGED <<wire, inBody, guilty, mixed>> /\ ServiceRest

(* It says something unasked on an idle connection.  Once the next request *)
(* is on its way that could not be told from its answer; HTTP/1.1 has to   *)
(* trust the service there.                                                *)
ServiceSpeaks(s) ==
    /\ Live(s) /\ s \in ToSet(kept) /\ serving[s] = 0 /\ back[s] = <<>>
    /\ Say(s, <<Token("stray", MaxRequests + 1, FALSE)>>, "none")
    /\ UNCHANGED <<wire, ended, serving, inBody, guilty, mixed>> /\ ServiceRest

(* It, or the tunnel, ends the stream, with what it has not read. *)
ServiceEnds(s) ==
    /\ Live(s)
    /\ ended' = ended \cup {s}
    /\ wire' = Set(wire, s, <<>>)
    /\ serving' = Set(serving, s, 0) /\ stage' = Set(stage, s, "none") /\ inBody' = inBody \ {s}
    /\ guilty' = (guilty \/ (s = ts /\ pc # "idle"))
    /\ UNCHANGED <<back, mixed>> /\ ServiceRest

(* The pool drops a stream it kept (see H3Pool). *)
PoolDrops(s) ==
    /\ pc = "idle" /\ s \in ToSet(kept)
    /\ kept' = SelectSeq(kept, LAMBDA t : t # s)
    /\ shut' = shut \cup {s}
    /\ UNCHANGED <<request, pc, stream, client, body, up, abortv, down, wire, back, ended, serving,
                   stage, inBody, hist>>

-----------------------------------------------------------------------------
Handler ==
    \/ PeekBody \/ HoldBody \/ Take \/ Open \/ SendHead \/ Arm \/ SendHeld
    \/ ReadResponse \/ ReadFails \/ CopyResponse \/ Finish \/ Close \/ Return
    \/ Upgrade \/ UpgradeFails \/ Bridge
Upload == UploadReads \/ UploadWrites \/ UploadAborts
Service(s) == ServiceReads(s) \/ ServiceAnswers(s) \/ ServiceSpeaks(s) \/ ServiceEnds(s)

Next ==
    \/ Begin \/ Handler \/ Upload \/ PeekReads \/ Down \/ AbortRuns \/ ClientResets
    \/ \E s \in Stream : Service(s) \/ PoolDrops(s)

(* The goroutines run, and timers that run fire; idle_timeout is set.      *)
(* Nothing is assumed of the client or the service: a read of the body     *)
(* returns when it is cut.                                                 *)
Spec ==
    /\ Init /\ [][Next]_vars
    /\ WF_vars(Handler) /\ WF_vars(Down) /\ WF_vars(AbortRuns)
    /\ WF_vars((Cut \/ Ahead) /\ UploadReads) /\ WF_vars(UploadWrites \/ UploadAborts)
    /\ WF_vars(Cut /\ PeekReads)

-----------------------------------------------------------------------------
(***************************************************************************)
(* The messages on a stream stay apart, whatever it carried before: the    *)
(* service never takes a request for a part of another's body, and a       *)
(* client is only ever given the answer to its own request.                *)
(***************************************************************************)
AnswersMatch == ~mixed /\ relayed \in {0, q}

(***************************************************************************)
(* Only an idempotent request is ever sent twice, and none more often: not *)
(* when a kept stream turns out to be closed, nor when a write, the held   *)
(* body or the response fails on it.                                       *)
(***************************************************************************)
NotRepeated == outs <= IF again THEN 2 ELSE 1

(***************************************************************************)
(* The service is answered for (502, 504) and counted as failing only when *)
(* it, or the tunnel, failed the request: not for a body that broke off or *)
(* came short, a client that stalled, or one that gave up.                 *)
(***************************************************************************)
BlamedRightly == blamed => guilty

(***************************************************************************)
(* Every handler returns: nothing it waits for (the upload, the read       *)
(* ahead, the WebSocket's other direction) outlives the closing of body    *)
(* and stream.                                                             *)
(***************************************************************************)
HandlerReturns == []<>(pc = "idle")
=============================================================================
