----------------------------- MODULE FetchHost -----------------------------
(***************************************************************************)
(* The host's state for one fetch (examples/capabilities/fetch-host.mjs),  *)
(* as operators from the state to the state: the upload it asks the guest  *)
(* for, the network it drives, and the body that the guest reads from it   *)
(* chunk by chunk.  Sizes are in chunks of CHUNK_SIZE bytes, and a chunk is *)
(* its number in its body.                                                  *)
(*                                                                         *)
(* A definition marked "fault" is a plausible mistake in the one below it. *)
(* No action uses it: it is there to show that a property can fail.        *)
(***************************************************************************)
EXTENDS Integers, Sequences

CONSTANTS
    MaxBody,        \* maxBodyBytes
    MaxRedirects    \* the redirects that follow() allows (20)

(* "stage" tells whether the state is in the requests map.  "body" is what *)
(* the network is given to send, "upload" the stream between the guest and *)
(* it, and "wait" an unanswered pull of that stream.  Of the response,     *)
(* "position" chunks have come from the network and "remainder" of them are *)
(* kept for the next read.  "uploaded" is what the network has had to send, *)
(* "whole" and "ended" tell that a body came to its end: they are history. *)
NoFetch ==
    [stage |-> "absent", mode |-> "none", net |-> "idle", hops |-> 0, body |-> "none",
     upload |-> "none", wait |-> FALSE, uploaded |-> <<>>, whole |-> FALSE,
     reader |-> FALSE, reading |-> FALSE, position |-> 0, remainder |-> 0, ended |-> FALSE,
     events |-> <<>>, disposed |-> FALSE]

Active(h) == h.stage = "active"

(* send() with the state is "tracked": the failure to deliver it ends the   *)
(* fetch.  "last" is the end of a chunked body, or of a response without.  *)
Event(type, chunk, last, tracked) == [type |-> type, chunk |-> chunk, last |-> last, tracked |-> tracked]
Emit(h, event) == IF h.disposed THEN h ELSE [h EXCEPT !.events = Append(@, event)]
Pull(h) == Emit(h, Event("uploadPull", 0, FALSE, TRUE))
Error(h) == Emit(h, Event("error", 0, FALSE, FALSE))

Release(h) ==
    IF ~Active(h) THEN h
    ELSE [h EXCEPT !.stage = "released", !.wait = FALSE, !.upload = IF @ = "open" THEN "errored" ELSE @]

FailQuietly(h) == Release(h)   \* fault
Fail(h) == IF Active(h) THEN Error(Release(h)) ELSE h

(* A tracked event whose delivery fails releases the fetch, and says so.   *)
Sent(h, event, ok) ==
    IF ~ok /\ event.tracked THEN Error(Release(h))
    ELSE IF event.last THEN Release(h)
    ELSE h
-----------------------------------------------------------------------------
(* The network: redirects, integrity, the response.                        *)

StartNetwork(h, body) == [h EXCEPT !.net = "following", !.body = body]

Over(h) == [h EXCEPT !.net = "over", !.body = "none", !.hops = 0]

(* A redirect may turn the request into a GET without a body.  Otherwise    *)
(* the body is sent again, which a stream cannot be.                       *)
Redirect(h, toGet) ==
    IF h.hops >= MaxRedirects \/ (~toGet /\ h.body = "stream") THEN Fail(Over(h))
    ELSE [h EXCEPT !.hops = @ + 1, !.body = IF toGet THEN "none" ELSE @]

SendResponse(h, hasBody) ==
    IF ~Active(h) THEN Over(h)
    ELSE Emit([Over(h) EXCEPT !.reader = hasBody], Event("response", 0, ~hasBody, TRUE))

Respond(h, hasBody, integrity) ==
    IF Active(h) /\ integrity THEN [Over(h) EXCEPT !.net = "verifying", !.reader = hasBody] ELSE SendResponse(h, hasBody)
Verified(h) == SendResponse(h, h.reader)
NetworkFails(h) == Fail(Over(h))

(* The stream that the network takes the upload from.                      *)
UploadPulled(h) == Pull([h EXCEPT !.wait = TRUE])
UploadCancelled(h) == Emit([h EXCEPT !.upload = "cancelled"], Event("uploadCancel", 0, FALSE, TRUE))
-----------------------------------------------------------------------------
(* The handlers: the state they leave, and whether they throw.             *)

Answer(h) == [host |-> h, ok |-> TRUE]
Throw(h) == [host |-> h, ok |-> FALSE]

Start(h, mode) ==
    LET s == [h EXCEPT !.stage = "active", !.mode = mode]
    IN  CASE mode = "none" -> StartNetwork(s, "none")
          [] mode = "replayable" -> Pull(s)
          [] mode = "stream" -> StartNetwork([s EXCEPT !.upload = "open"], "stream")

UploadEnds(h) ==
    LET s == [h EXCEPT !.whole = TRUE, !.wait = FALSE]
    IN  IF h.mode = "replayable" THEN Answer(StartNetwork(s, "bytes"))
        ELSE IF h.upload # "open" THEN Throw(h)
        ELSE Answer([s EXCEPT !.upload = "closed"])

UploadChunk(h, chunk) ==
    LET s == [h EXCEPT !.uploaded = Append(@, chunk), !.wait = FALSE]
    IN  IF Len(s.uploaded) > MaxBody THEN Answer(Fail(h))
        ELSE IF h.mode = "replayable" THEN Answer(Pull(s))
        ELSE IF h.upload # "open" THEN Throw(h)
        ELSE Answer(s)

Upload(h, chunk, done) ==
    IF ~Active(h) THEN Throw(h) ELSE IF done THEN UploadEnds(h) ELSE UploadChunk(h, chunk)

(* What the network has given and one chunk could not carry.               *)
Nothing(size) == 0   \* fault
Rest(size) == size - 1

SendChunk(h, size) ==
    Emit([h EXCEPT !.reading = FALSE, !.remainder = Rest(size)],
         Event("chunk", h.position - size + 1, FALSE, TRUE))

Read(h) ==
    IF ~Active(h) \/ h.reading \/ ~h.reader THEN Throw(h)
    ELSE IF h.remainder > 0 THEN Answer(SendChunk(h, h.remainder))
    ELSE Answer([h EXCEPT !.reading = TRUE])

(* The network answers a read.  Of a released fetch the read ends too, for  *)
(* its reader was cancelled, and nobody is told.                           *)
ReadItem(h, size) ==
    LET s == [h EXCEPT !.position = @ + size]
    IN  IF ~Active(h) THEN [h EXCEPT !.reading = FALSE]
        ELSE IF s.position > MaxBody THEN Fail([h EXCEPT !.reading = FALSE])
        ELSE SendChunk(s, size)

ReadEnds(h) ==
    IF ~Active(h) THEN [h EXCEPT !.reading = FALSE]
    ELSE Emit([h EXCEPT !.ended = TRUE], Event("chunk", 0, TRUE, TRUE))

ReadFails(h) == Fail([h EXCEPT !.reading = FALSE])

Dispose(h) == Release([h EXCEPT !.disposed = TRUE])
=============================================================================
