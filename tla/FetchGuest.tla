----------------------------- MODULE FetchGuest -----------------------------
(***************************************************************************)
(* The guest's entry for one fetch (examples/capabilities/fetch-guest.js), *)
(* as operators from the entry to the entry: its promise, the response's   *)
(* body stream, and the pump that uploads the request's body on demand.    *)
(*                                                                         *)
(* A definition marked "fault" is a plausible mistake in the one below it. *)
(* No action uses it: it is there to show that a property can fail.        *)
(***************************************************************************)
EXTENDS Integers, Sequences

(* "live": in the requests map.  "pump" is where pumpUpload is: not running, *)
(* awaiting the body's next chunk, or awaiting the host's answer to one.   *)
(* "exhausted" tells that the body has no more, and "upload" that the entry *)
(* still has its iterator; "received" are the chunks of the response.      *)
Entry(hasBody) ==
    [live |-> TRUE, promise |-> "pending", upload |-> hasBody, demand |-> 0, pump |-> "idle",
     produced |-> 0, exhausted |-> FALSE, uploadCancelled |-> FALSE,
     stream |-> "none", pull |-> FALSE, received |-> <<>>, disposed |-> FALSE,
     calls |-> <<[op |-> "start", chunk |-> 0, done |-> FALSE]>>]

Call(g, op) == [g EXCEPT !.calls = Append(@, [op |-> op, chunk |-> 0, done |-> FALSE])]
CallUpload(g, chunk, done) == [g EXCEPT !.calls = Append(@, [op |-> "upload", chunk |-> chunk, done |-> done])]

(* Nobody looks at the demand of a finished entry again.                   *)
Finish(g) == [g EXCEPT !.live = FALSE, !.uploadCancelled = TRUE, !.demand = 0, !.upload = FALSE]

Rejected(g) ==
    [Finish(g) EXCEPT !.promise = IF @ = "pending" THEN "rejected" ELSE @,
                      !.stream = IF @ = "open" THEN "errored" ELSE @, !.pull = FALSE]
FailLocally(g) == IF g.live THEN Rejected(g) ELSE g
Fail(g) == IF g.live THEN Call(Rejected(g), "cancel") ELSE g
-----------------------------------------------------------------------------
(* pumpUpload: one chunk for every pull of the host.                       *)

Loop(g) ==
    IF g.demand = 0 \/ ~g.live \/ g.uploadCancelled THEN [g EXCEPT !.pump = "idle"]
    ELSE IF ~g.upload THEN Fail([g EXCEPT !.pump = "idle"])
    ELSE [g EXCEPT !.demand = @ - 1, !.pump = "reading"]

DemandIfIdle(g) == IF g.pump # "idle" THEN g ELSE Loop([g EXCEPT !.demand = @ + 1])   \* fault
Demand(g) ==
    LET d == [g EXCEPT !.demand = @ + 1] IN IF d.pump # "idle" THEN d ELSE Loop(d)

Abandoned(g) == ~g.live \/ g.uploadCancelled

BodyYields(g) ==
    LET n == g.produced + 1
    IN  IF Abandoned(g) THEN [g EXCEPT !.pump = "idle"]
        ELSE CallUpload([g EXCEPT !.pump = "calling", !.produced = n], n, FALSE)

BodyEnds(g) ==
    IF Abandoned(g) THEN [g EXCEPT !.pump = "idle"]
    ELSE CallUpload([g EXCEPT !.pump = "calling", !.exhausted = TRUE], 0, TRUE)

BodyFails(g) == Fail([g EXCEPT !.pump = "idle"])

UploadAnswered(g, ok) ==
    IF ~ok THEN Fail([g EXCEPT !.pump = "idle"])
    ELSE IF g.exhausted THEN [g EXCEPT !.pump = "idle", !.upload = FALSE]
    ELSE Loop(g)
-----------------------------------------------------------------------------
(* The body stream of the response, as the program uses it.                *)

PullBody(g) == Call([g EXCEPT !.pull = TRUE], "read")
CancelBody(g) == Call(Finish([g EXCEPT !.stream = "cancelled", !.pull = FALSE]), "cancel")
-----------------------------------------------------------------------------
(* The host's events.                                                      *)

Response(g, hasBody) ==
    IF hasBody THEN [g EXCEPT !.promise = "resolved", !.stream = "open"]
    ELSE Finish([g EXCEPT !.promise = "resolved"])

Chunk(g, e) ==
    IF e.last THEN Finish([g EXCEPT !.stream = "closed", !.pull = FALSE])
    ELSE [g EXCEPT !.received = Append(@, e.chunk), !.pull = FALSE]

Dispatch(g, e) ==
    IF ~g.live THEN g
    ELSE CASE e.type = "uploadPull" -> Demand(g)
           [] e.type = "uploadCancel" -> [g EXCEPT !.uploadCancelled = TRUE, !.upload = FALSE, !.demand = 0]
           [] e.type = "error" -> FailLocally(g)
           [] e.type = "response" -> Response(g, ~e.last)
           [] e.type = "chunk" -> Chunk(g, e)

Dispose(g) == Fail([g EXCEPT !.disposed = TRUE])
=============================================================================
