------------------------------- MODULE Fetch -------------------------------
(***************************************************************************)
(* One fetch of a guest program, through the host, to the network and back *)
(* (examples/capabilities/fetch-guest.js, fetch-host.mjs, and the emit of  *)
(* host.mjs).                                                              *)
(*                                                                         *)
(* The guest's calls reach the host in order, and so do the host's events  *)
(* the guest; the answers to calls, and the outcomes of events, travel on  *)
(* their own.  The delivery of an event may fail, before or after the      *)
(* guest has seen it (at most MaxLost times).  The other fetches are seen  *)
(* only in that there may be too many of them for this one to start.  The  *)
(* program, the body it uploads and the network do what they like, and     *)
(* only the host's timer is sure to act.                                   *)
(***************************************************************************)
EXTENDS Integers, Sequences

CONSTANTS
    MaxBody,         \* maxBodyBytes, in chunks
    MaxRedirects,    \* the redirects that follow() allows
    ItemSizes,       \* sizes of what a read of the network gives, in chunks
    MaxLost          \* bound: events that cannot be delivered

ASSUME FetchAssumption ==
    MaxBody \in Nat \ {0} /\ MaxRedirects \in Nat /\ ItemSizes \subseteq Nat \ {0} /\ MaxLost \in Nat

Guest == INSTANCE FetchGuest
Host == INSTANCE FetchHost

VARIABLES
    mode,        \* the body of the request: none, replayable or a stream
    guest, host,
    answers,     \* answers to the guest's calls, on their way
    outcomes,    \* events whose delivery has succeeded or failed
    lost,        \* deliveries that failed
    newsLost     \* the guest has not been told of the fetch's failure: history

vars == <<mode, guest, host, answers, outcomes, lost, newsLost>>

Modes == {"none", "replayable", "stream"}

Init ==
    /\ mode \in Modes
    /\ guest = Guest!Entry(mode # "none") /\ host = Host!NoFetch
    /\ answers = <<>> /\ outcomes = <<>> /\ lost = 0 /\ newsLost = FALSE
-----------------------------------------------------------------------------
(* Steps of one side only.                                                 *)

GuestDoes(g) == guest' = g /\ UNCHANGED <<mode, host, answers, outcomes, lost, newsLost>>
HostDoes(h) == host' = h /\ UNCHANGED <<mode, guest, answers, outcomes, lost, newsLost>>

(* The guest program.                                                      *)
Abort == guest.live /\ GuestDoes(Guest!Fail(guest))
PullBody == guest.stream = "open" /\ ~guest.pull /\ GuestDoes(Guest!PullBody(guest))
CancelBody == guest.stream = "open" /\ GuestDoes(Guest!CancelBody(guest))

(* The body it uploads; of an abandoned body the iteration ends at once.   *)
BodyYields == guest.pump = "reading" /\ guest.produced <= MaxBody /\ GuestDoes(Guest!BodyYields(guest))
BodyEnds == guest.pump = "reading" /\ GuestDoes(Guest!BodyEnds(guest))
BodyFails == guest.pump = "reading" /\ GuestDoes(Guest!BodyFails(guest))

(* The network.                                                            *)
Redirected ==
    /\ host.net = "following" /\ Host!Active(host)
    /\ \E toGet \in BOOLEAN : HostDoes(Host!Redirect(host, toGet))

Responded ==
    /\ host.net = "following"
    /\ \E hasBody, integrity \in BOOLEAN : HostDoes(Host!Respond(host, hasBody, integrity))

Verified == host.net = "verifying" /\ HostDoes(Host!Verified(host))
NetworkFails == host.net \in {"following", "verifying"} /\ HostDoes(Host!NetworkFails(host))

UploadPulled == host.upload = "open" /\ ~host.wait /\ HostDoes(Host!UploadPulled(host))
UploadCancelled == host.upload = "open" /\ HostDoes(Host!UploadCancelled(host))

ReadItem == host.reading /\ ~host.ended /\ \E size \in ItemSizes : HostDoes(Host!ReadItem(host, size))
ReadEnds == host.reading /\ ~host.ended /\ HostDoes(Host!ReadEnds(host))
ReadFails == host.reading /\ ~host.ended /\ HostDoes(Host!ReadFails(host))

(* The host's timer, and the disposal of the capability: the host's side    *)
(* first, and then the guest's.                                             *)
TimerFires == Host!Active(host) /\ HostDoes(Host!Fail(host))
DisposeHost == ~host.disposed /\ HostDoes(Host!Dispose(host))
DisposeGuest == host.disposed /\ ~guest.disposed /\ GuestDoes(Guest!Dispose(guest))
-----------------------------------------------------------------------------
(* Calls and their answers.  Those that nobody looks at are left out.      *)

HostCall == Head(guest.calls)
Refused == [host |-> host, ok |-> FALSE]

Handled ==
    IF host.disposed THEN {Refused}
    ELSE CASE HostCall.op = "start" -> {Host!Answer(Host!Start(host, mode)), Refused}
           [] HostCall.op = "upload" -> {Host!Upload(host, HostCall.chunk, HostCall.done)}
           [] HostCall.op = "read" -> {Host!Read(host)}
           [] HostCall.op = "cancel" -> {Host!Answer(Host!Release(host))}

Awaited(op, ok) == op = "upload" \/ (op # "cancel" /\ ~ok)

HandleCall ==
    /\ guest.calls # <<>>
    /\ \E a \in Handled :
          /\ host' = a.host
          /\ answers' = IF Awaited(HostCall.op, a.ok)
                        THEN Append(answers, [op |-> HostCall.op, ok |-> a.ok]) ELSE answers
    /\ guest' = [guest EXCEPT !.calls = Tail(@)]
    /\ UNCHANGED <<mode, outcomes, lost, newsLost>>

ReceiveAnswer ==
    /\ answers # <<>> /\ answers' = Tail(answers)
    /\ LET a == Head(answers)
       IN  guest' = IF a.op = "upload" THEN Guest!UploadAnswered(guest, a.ok) ELSE Guest!Fail(guest)
    /\ UNCHANGED <<mode, host, outcomes, lost, newsLost>>
-----------------------------------------------------------------------------
(* Events and their outcomes, where something depends on them.             *)

Matters(e, ok) == e.last \/ (e.tracked /\ ~ok)

Delivered(seen, ok) ==
    /\ host.events # <<>>
    /\ LET e == Head(host.events)
       IN  /\ guest' = IF seen THEN Guest!Dispatch(guest, e) ELSE guest
           /\ host' = [host EXCEPT !.events = Tail(@)]
           /\ newsLost' = (newsLost \/ (e.type = "error" /\ ~seen))
          /\ outcomes' = IF Matters(e, ok) THEN Append(outcomes, [event |-> e, ok |-> ok]) ELSE outcomes
    /\ UNCHANGED <<mode, answers>>

Deliver == Delivered(TRUE, TRUE) /\ UNCHANGED lost
DeliveryFails == lost < MaxLost /\ lost' = lost + 1 /\ \E seen \in BOOLEAN : Delivered(seen, FALSE)

ReceiveOutcome ==
    /\ outcomes # <<>> /\ outcomes' = Tail(outcomes)
    /\ LET o == Head(outcomes) IN host' = Host!Sent(host, o.event, o.ok)
    /\ UNCHANGED <<mode, guest, answers, lost, newsLost>>
-----------------------------------------------------------------------------
Next ==
    \/ Abort \/ PullBody \/ CancelBody \/ BodyYields \/ BodyEnds \/ BodyFails
    \/ Redirected \/ Responded \/ Verified \/ NetworkFails
    \/ UploadPulled \/ UploadCancelled \/ ReadItem \/ ReadEnds \/ ReadFails
    \/ TimerFires \/ DisposeHost \/ DisposeGuest
    \/ HandleCall \/ ReceiveAnswer \/ Deliver \/ DeliveryFails \/ ReceiveOutcome

(* Only the adapters and the timer are sure to act.                        *)
Fairness ==
    /\ WF_vars(HandleCall) /\ WF_vars(ReceiveAnswer) /\ WF_vars(Deliver) /\ WF_vars(ReceiveOutcome)
    /\ WF_vars(TimerFires) /\ WF_vars(DisposeGuest)

Spec == Init /\ [][Next]_vars /\ Fairness
-----------------------------------------------------------------------------
Numbered(chunks) == \A i \in DOMAIN chunks : chunks[i] = i

(* Both bodies arrive as they were sent: no chunk is skipped, repeated or   *)
(* out of order, none passes the limit, and a body that was cut short, by   *)
(* an abort, a timeout or a lost event, is never taken for a whole one.    *)
BodiesFaithful ==
    /\ Numbered(guest.received) /\ Len(guest.received) <= MaxBody
    /\ guest.stream = "closed" => host.ended /\ Len(guest.received) = host.position
    /\ Numbered(host.uploaded) /\ Len(host.uploaded) <= MaxBody
    /\ host.whole => guest.exhausted /\ Len(host.uploaded) = guest.produced

InFlight(type) == \E i \in DOMAIN host.events : host.events[i].type = type
Ending == \E i \in DOMAIN outcomes : outcomes[i].event.last \/ ~outcomes[i].ok
Calls(op) == \E i \in DOMAIN guest.calls : guest.calls[i].op = op

(* A fetch is held by both sides or by neither, but for the message that    *)
(* tells: the host keeps no fetch that the guest has given up, timer or no  *)
(* timer, and the guest does not wait for one that the host has dropped.    *)
FreedTogether ==
    /\ Host!Active(host) /\ ~guest.live => Calls("cancel") \/ Ending
    /\ guest.live /\ ~Host!Active(host) =>
          \/ host.disposed \/ newsLost
          \/ Calls("start") \/ answers # <<>>
          \/ InFlight("error")

Quiet == guest.calls = <<>> /\ answers = <<>> /\ host.events = <<>> /\ outcomes = <<>>

(* When nothing is on its way, whoever waits for the other side waits for   *)
(* what is outside of both: a chunk that the host wants is being read from  *)
(* the program's body, one that the guest wants from the network.          *)
NoDemandLost ==
    Quiet /\ guest.live /\ Host!Active(host) =>
        /\ guest.pump # "calling"
        /\ guest.pull => host.reading
        /\ host.wait /\ host.upload = "open" => guest.pump = "reading"
        /\ host.mode = "replayable" /\ host.net = "idle" => guest.pump = "reading"

(* Every fetch ends, for the host in any case and for the guest unless the  *)
(* news was lost.                                                          *)
FetchEnds ==
    /\ [](Host!Active(host) => <>(host.stage = "released"))
    /\ [](guest.live => <>(~guest.live \/ newsLost))
=============================================================================
