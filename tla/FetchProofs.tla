---------------------------- MODULE FetchProofs ----------------------------
(***************************************************************************)
(* A fetch, for any limits, any reads of the network and any number of     *)
(* lost events: both bodies arrive as they were sent, both sides let go of *)
(* it together, and no demand for a chunk is forgotten.                    *)
(***************************************************************************)
EXTENDS Fetch, SequenceTheorems, TLAPS

CallTypes == [op : {"start", "upload", "read", "cancel"}, chunk : Nat, done : BOOLEAN]

(* All events are tracked but the error that ends a fetch, and only a      *)
(* response or a chunk can be the last.                                    *)
EventTypes ==
    {e \in [type : {"uploadPull", "uploadCancel", "error", "response", "chunk"},
            chunk : Nat, last : BOOLEAN, tracked : BOOLEAN] :
        /\ e.tracked <=> e.type # "error"
        /\ e.last => e.type \in {"response", "chunk"}}

AnswerTypes == [op : {"start", "upload", "read"}, ok : BOOLEAN]
OutcomeTypes ==
    {o \in [event : EventTypes, ok : BOOLEAN] : IF o.ok THEN o.event.last ELSE o.event.tracked}

Guests ==
    [live : BOOLEAN, promise : {"pending", "resolved", "rejected"}, upload : BOOLEAN, demand : Nat,
     pump : {"idle", "reading", "calling"}, produced : Nat, exhausted : BOOLEAN,
     uploadCancelled : BOOLEAN, stream : {"none", "open", "errored", "cancelled", "closed"},
     pull : BOOLEAN, received : Seq(Nat), disposed : BOOLEAN, calls : Seq(CallTypes)]

Hosts ==
    [stage : {"absent", "active", "released"}, mode : Modes,
     net : {"idle", "following", "verifying", "over"}, hops : Nat,
     body : {"none", "stream", "bytes"}, upload : {"none", "open", "cancelled", "closed", "errored"},
     wait : BOOLEAN, uploaded : Seq(Nat), whole : BOOLEAN, reader : BOOLEAN, reading : BOOLEAN,
     position : Nat, remainder : Nat, ended : BOOLEAN, events : Seq(EventTypes), disposed : BOOLEAN]

FetchTyped ==
    /\ mode \in Modes
    /\ guest \in Guests /\ host \in Hosts
    /\ answers \in Seq(AnswerTypes) /\ outcomes \in Seq(OutcomeTypes)
    /\ lost \in Nat /\ newsLost \in BOOLEAN

-----------------------------------------------------------------------------
(* What is on its way.                                                     *)
OneCall(op) == \A i, j \in DOMAIN guest.calls : guest.calls[i].op = op /\ guest.calls[j].op = op => i = j
StartIsFirst == \A i \in DOMAIN guest.calls : guest.calls[i].op = "start" => i = 1
Chunking == \E i \in DOMAIN guest.calls : guest.calls[i].op = "upload" /\ ~guest.calls[i].done
Finishing == \E i \in DOMAIN guest.calls : guest.calls[i].op = "upload" /\ guest.calls[i].done
ChunksProduced ==
    \A i \in DOMAIN guest.calls :
        guest.calls[i].op = "upload" /\ ~guest.calls[i].done => guest.calls[i].chunk = guest.produced

Answering(op) == \E i \in DOMAIN answers : answers[i].op = op
OneAnswer(op) == \A i, j \in DOMAIN answers : answers[i].op = op /\ answers[j].op = op => i = j

OneEvent(type) ==
    \A i, j \in DOMAIN host.events : host.events[i].type = type /\ host.events[j].type = type => i = j

Failing == \E i \in DOMAIN outcomes : ~outcomes[i].ok
Succeeding == \E i \in DOMAIN outcomes : outcomes[i].ok

-----------------------------------------------------------------------------
(* The two ends of a fetch.                                                *)

(* The first call starts the fetch, and the host knows nothing before.     *)
Starts ==
    /\ StartIsFirst
    /\ Calls("start") => host.stage = "absent"
    /\ host.stage = "absent" =>
          /\ host.events = <<>> /\ outcomes = <<>>
          /\ host.mode = "none" /\ host.upload = "none" /\ host.net = "idle" /\ ~host.wait
          /\ host.uploaded = <<>> /\ ~host.whole
          /\ ~host.reading /\ ~host.ended /\ host.position = 0 /\ host.remainder = 0
          /\ guest.produced = 0 /\ ~guest.exhausted /\ guest.pump = "idle" /\ ~guest.pull
          /\ guest.stream \notin {"open", "closed"} /\ guest.received = <<>>

(* What is on its way says what has happened: a cancellation that the guest *)
(* has given up, an error that the host has, the success of the last event *)
(* that the guest has seen it.                                             *)
Messages ==
    /\ Calls("cancel") => ~guest.live
    /\ InFlight("error") => ~Host!Active(host)
    /\ Succeeding => ~guest.live
    /\ host.disposed => ~Host!Active(host)

(* FreedTogether, with a fetch that was refused.                           *)
Freed ==
    /\ ~guest.live /\ Calls("start") => Calls("cancel")
    /\ Host!Active(host) /\ ~guest.live => Calls("cancel") \/ outcomes # <<>>
    /\ guest.live /\ ~Host!Active(host) =>
          \/ host.disposed \/ newsLost \/ InFlight("error")
          \/ Calls("start") \/ Answering("start")
-----------------------------------------------------------------------------
(* The body of the request.                                                *)

(* The pump has one chunk on its way, as a call or as its answer.          *)
OneUpload ==
    /\ OneCall("upload") /\ OneAnswer("upload")
    /\ ~(Calls("upload") /\ Answering("upload"))
    /\ guest.pump = "calling" <=> Calls("upload") \/ Answering("upload")

(* A body that has no more is not read again.                              *)
Exhausts ==
    /\ ~guest.live => ~guest.upload
    /\ guest.exhausted => guest.pump # "reading" /\ (guest.pump = "calling" \/ ~guest.upload)
    /\ Chunking => ~guest.exhausted
    /\ Finishing => guest.exhausted
    /\ ChunksProduced

(* As long as the host takes chunks it has those that were produced, but    *)
(* for the one on its way.                                                 *)
Takes == Host!Active(host) /\ (host.mode = "replayable" \/ host.upload = "open")
Uploaded ==
    /\ Numbered(host.uploaded) /\ Len(host.uploaded) <= MaxBody
    /\ Takes => guest.produced = Len(host.uploaded) + (IF Chunking THEN 1 ELSE 0)
    /\ host.whole => guest.exhausted /\ Len(host.uploaded) = guest.produced /\ ~Calls("upload")
    /\ host.upload = "open" => Host!Active(host)
-----------------------------------------------------------------------------
(* The body of the response.                                               *)

(* A read that the guest has asked for is in one place: a call, a read of  *)
(* the network or an event.                                                *)
OneRead ==
    guest.live =>
        /\ guest.pull => guest.stream = "open"
        /\ OneCall("read") /\ OneEvent("chunk")
        /\ ~(Calls("read") /\ host.reading) /\ ~(Calls("read") /\ InFlight("chunk"))
        /\ ~(host.reading /\ ~host.ended /\ InFlight("chunk"))
        /\ ~guest.pull => ~Calls("read") /\ ~host.reading /\ ~InFlight("chunk")

(* A chunk that arrives is the next one, or says that there is none.       *)
Arrives(e, g, h) ==
    IF e.last THEN h.ended /\ Len(g.received) = h.position
    ELSE e.chunk = Len(g.received) + 1 /\ e.chunk = h.position - h.remainder
ChunksArrive ==
    \A i \in DOMAIN host.events : host.events[i].type = "chunk" => Arrives(host.events[i], guest, host)

(* The guest has what the network gave, but for what is kept for the next   *)
(* read and for the chunk on its way.                                      *)
Received ==
    /\ Numbered(guest.received)
    /\ host.position <= MaxBody /\ host.remainder <= host.position
    /\ Len(guest.received) <= host.position - host.remainder
    /\ host.reading => host.remainder = 0
    /\ host.ended => host.reading
    /\ guest.stream = "closed" => ~guest.live /\ host.ended /\ Len(guest.received) = host.position
    /\ guest.live =>
          /\ ~guest.pull \/ Calls("read") \/ host.reading =>
                Len(guest.received) = host.position - host.remainder
          /\ ChunksArrive
-----------------------------------------------------------------------------
(* Demands.                                                                *)

(* The upload is cancelled by the host's stream only, and only an upload    *)
(* that the guest repeats is buffered.                                     *)
Cancels ==
    /\ InFlight("uploadCancel") => host.upload = "cancelled"
    /\ guest.uploadCancelled /\ guest.live => host.upload = "cancelled"
    /\ host.mode = "replayable" => host.upload = "none"
    /\ guest.exhausted /\ Host!Active(host) /\ ~Calls("upload") =>
          host.upload # "open" /\ (host.mode = "replayable" => host.net # "idle")

Wanted == (host.wait /\ host.upload = "open") \/ (host.mode = "replayable" /\ host.net = "idle")

DemandsKept ==
    guest.live /\ Host!Active(host) =>
        /\ guest.pull => \/ Calls("read") \/ host.reading \/ InFlight("chunk")
                         \/ Answering("read") \/ Failing
        /\ Wanted => \/ InFlight("uploadPull") \/ Failing \/ Calls("upload")
                     \/ guest.pump = "reading" \/ (guest.demand > 0 /\ guest.pump # "idle")
-----------------------------------------------------------------------------
(* Sequences that grow at their end and shrink at their front.             *)
LEMMA Grows ==
    ASSUME NEW S, NEW s \in Seq(S), NEW e \in S, NEW t, t = Append(s, e)
    PROVE  /\ t \in Seq(S) /\ t # <<>>
           /\ Len(s) \in Nat /\ DOMAIN s = 1 .. Len(s) /\ DOMAIN t = 1 .. (Len(s) + 1)
           /\ \A i \in DOMAIN s : t[i] = s[i]
           /\ t[Len(s) + 1] = e
           /\ Len(t) = Len(s) + 1
    BY AppendProperties

LEMMA Shrinks ==
    ASSUME NEW S, NEW s \in Seq(S), s # <<>>, NEW t, t = Tail(s)
    PROVE  /\ t \in Seq(S)
           /\ Len(s) \in Nat \ {0} /\ DOMAIN s = 1 .. Len(s) /\ DOMAIN t = 1 .. (Len(s) - 1)
           /\ Head(s) = s[1] /\ s[1] \in S /\ 1 \in DOMAIN s
           /\ \A i \in DOMAIN t : i + 1 \in DOMAIN s /\ t[i] = s[i + 1]
           /\ \A i \in DOMAIN s : i = 1 \/ (i - 1 \in DOMAIN t /\ t[i - 1] = s[i])
<1>1. Len(s) \in Nat \ {0} /\ DOMAIN s = 1 .. Len(s)
    BY EmptySeq
<1>2. t \in Seq(S) /\ DOMAIN t = 1 .. (Len(s) - 1) /\ Head(s) = s[1]
    BY <1>1, HeadTailProperties
<1>3. s[1] \in S /\ 1 \in DOMAIN s
    BY <1>1, ElementOfSeq
<1>4. \A i \in DOMAIN t : i + 1 \in DOMAIN s /\ t[i] = s[i + 1]
    BY <1>1, <1>2, HeadTailProperties
<1>5. ASSUME NEW i \in DOMAIN s, i # 1
      PROVE  i - 1 \in DOMAIN t /\ t[i - 1] = s[i]
  <2>1. i - 1 \in DOMAIN t /\ (i - 1) + 1 = i
    BY <1>1, <1>2, <1>5
  <2> QED
    BY <1>4, <2>1
<1> QED
    BY <1>1, <1>2, <1>3, <1>4, <1>5

(* What a call that is made, or handled, changes in what is on its way.    *)
LEMMA CallAdded ==
    ASSUME FetchTyped, NEW c \in CallTypes, guest'.calls = Append(guest.calls, c)
    PROVE  /\ guest'.calls \in Seq(CallTypes) /\ guest'.calls # <<>>
           /\ \A op : Calls(op)' <=> Calls(op) \/ op = c.op
           /\ \A op : OneCall(op) /\ (c.op # op \/ ~Calls(op)) => OneCall(op)'
           /\ StartIsFirst /\ c.op # "start" => StartIsFirst'
           /\ Chunking' <=> Chunking \/ (c.op = "upload" /\ ~c.done)
           /\ Finishing' <=> Finishing \/ (c.op = "upload" /\ c.done)
           /\ ChunksProduced /\ guest'.produced = guest.produced /\ (c.op # "upload" \/ c.done) => ChunksProduced'
           /\ ~Chunking /\ (c.op = "upload" /\ ~c.done => c.chunk = guest'.produced) => ChunksProduced'
<1> DEFINE s == guest.calls
           t == guest'.calls
           n == Len(s) + 1
<1>1. s \in Seq(CallTypes) /\ t = Append(s, c)
    BY DEF FetchTyped, Guests
<1>2. /\ t \in Seq(CallTypes) /\ t # <<>>
      /\ Len(s) \in Nat /\ DOMAIN s = 1 .. Len(s) /\ DOMAIN t = 1 .. n
      /\ \A i \in DOMAIN s : t[i] = s[i]
      /\ t[n] = c
    BY <1>1, Grows
<1>3. /\ \A i \in DOMAIN t : i \in DOMAIN s \/ i = n
      /\ \A i \in DOMAIN s : i \in DOMAIN t
      /\ n \in DOMAIN t /\ n \notin DOMAIN s
    BY <1>2
<1> HIDE DEF s, t, n
<1>4. \A op : Calls(op)' <=> Calls(op) \/ op = c.op
    BY <1>2, <1>3 DEF Calls, s, t
<1>5. \A op : OneCall(op) /\ (c.op # op \/ ~Calls(op)) => OneCall(op)'
    BY <1>2, <1>3 DEF OneCall, Calls, s, t
<1>6. StartIsFirst /\ c.op # "start" => StartIsFirst'
    BY <1>2, <1>3 DEF StartIsFirst, s, t
<1>7. Chunking' <=> Chunking \/ (c.op = "upload" /\ ~c.done)
    BY <1>2, <1>3 DEF Chunking, s, t
<1>8. Finishing' <=> Finishing \/ (c.op = "upload" /\ c.done)
    BY <1>2, <1>3 DEF Finishing, s, t
<1>9. ChunksProduced /\ guest'.produced = guest.produced /\ (c.op # "upload" \/ c.done) => ChunksProduced'
    BY <1>2, <1>3 DEF ChunksProduced, s, t
<1>10. ~Chunking /\ (c.op = "upload" /\ ~c.done => c.chunk = guest'.produced) => ChunksProduced'
    BY <1>2, <1>3 DEF ChunksProduced, Chunking, s, t
<1> QED
    BY <1>2, <1>4, <1>5, <1>6, <1>7, <1>8, <1>9, <1>10 DEF t

LEMMA CallTaken ==
    ASSUME FetchTyped, guest.calls # <<>>, guest'.calls = Tail(guest.calls), NEW c, c = Head(guest.calls)
    PROVE  /\ guest'.calls \in Seq(CallTypes) /\ c \in CallTypes
           /\ \A op : Calls(op) <=> Calls(op)' \/ op = c.op
           /\ \A op : OneCall(op) => OneCall(op)' /\ (c.op = op => ~Calls(op)')
           /\ StartIsFirst => StartIsFirst' /\ ~Calls("start")'
           /\ Chunking <=> Chunking' \/ (c.op = "upload" /\ ~c.done)
           /\ Finishing <=> Finishing' \/ (c.op = "upload" /\ c.done)
           /\ ChunksProduced /\ guest'.produced = guest.produced =>
                ChunksProduced' /\ (c.op = "upload" /\ ~c.done => c.chunk = guest.produced)
<1> DEFINE s == guest.calls
           t == guest'.calls
<1>1. s \in Seq(CallTypes) /\ s # <<>> /\ t = Tail(s)
    BY DEF FetchTyped, Guests
<1>2. /\ t \in Seq(CallTypes)
      /\ Len(s) \in Nat \ {0} /\ DOMAIN s = 1 .. Len(s) /\ DOMAIN t = 1 .. (Len(s) - 1)
      /\ c = s[1] /\ s[1] \in CallTypes /\ 1 \in DOMAIN s
      /\ \A i \in DOMAIN t : i + 1 \in DOMAIN s /\ t[i] = s[i + 1]
      /\ \A i \in DOMAIN s : i = 1 \/ (i - 1 \in DOMAIN t /\ t[i - 1] = s[i])
    BY <1>1, Shrinks
<1>3. /\ s[1] = c /\ 1 \in DOMAIN s
      /\ \A i \in DOMAIN t : i + 1 \in DOMAIN s /\ t[i] = s[i + 1] /\ i + 1 # 1
      /\ \A i, j \in DOMAIN t : i + 1 = j + 1 => i = j
    BY <1>2
<1> HIDE DEF s, t
<1>4. \A op : Calls(op) <=> Calls(op)' \/ op = c.op
    BY <1>2 DEF Calls, s, t
<1>5. ASSUME NEW op, OneCall(op) PROVE OneCall(op)' /\ (c.op = op => ~Calls(op)')
  <2>1. ASSUME NEW i \in DOMAIN t, NEW j \in DOMAIN t, t[i].op = op, t[j].op = op
        PROVE  i = j
    <3>1. i + 1 \in DOMAIN s /\ j + 1 \in DOMAIN s /\ s[i + 1].op = op /\ s[j + 1].op = op
      BY <1>3, <2>1
    <3>2. i + 1 = j + 1
      BY <1>5, <3>1 DEF OneCall, s
    <3> QED
      BY <1>3, <3>2
  <2>2. ASSUME NEW i \in DOMAIN t, t[i].op = op, c.op = op PROVE FALSE
    <3>1. i + 1 \in DOMAIN s /\ s[i + 1].op = op /\ s[1].op = op /\ i + 1 # 1
      BY <1>3, <2>2
    <3> QED
      BY <1>3, <1>5, <3>1 DEF OneCall, s
  <2> QED
      BY <2>1, <2>2 DEF OneCall, Calls, t
<1>6. StartIsFirst => StartIsFirst' /\ ~Calls("start")'
    BY <1>3 DEF StartIsFirst, Calls, s, t
<1>7. Chunking <=> Chunking' \/ (c.op = "upload" /\ ~c.done)
  <2>1. ASSUME Chunking, ~(c.op = "upload" /\ ~c.done) PROVE Chunking'
    <3>1. PICK i \in DOMAIN s : s[i].op = "upload" /\ ~s[i].done
      BY <2>1 DEF Chunking, s
    <3>2. i # 1
      BY <1>3, <2>1, <3>1
    <3>3. i - 1 \in DOMAIN t /\ t[i - 1].op = "upload" /\ ~t[i - 1].done
      BY <1>2, <3>1, <3>2
    <3> QED
      BY <3>3 DEF Chunking, t
  <2>2. ASSUME Chunking' PROVE Chunking
      BY <1>3, <2>2 DEF Chunking, s, t
  <2>3. ASSUME c.op = "upload" /\ ~c.done PROVE Chunking
      BY <1>3, <2>3 DEF Chunking, s
  <2> QED
      BY <2>1, <2>2, <2>3
<1>8. Finishing <=> Finishing' \/ (c.op = "upload" /\ c.done)
  <2>1. ASSUME Finishing, ~(c.op = "upload" /\ c.done) PROVE Finishing'
    <3>1. PICK i \in DOMAIN s : s[i].op = "upload" /\ s[i].done
      BY <2>1 DEF Finishing, s
    <3>2. i # 1
      BY <1>3, <2>1, <3>1
    <3>3. i - 1 \in DOMAIN t /\ t[i - 1].op = "upload" /\ t[i - 1].done
      BY <1>2, <3>1, <3>2
    <3> QED
      BY <3>3 DEF Finishing, t
  <2>2. ASSUME Finishing' PROVE Finishing
      BY <1>3, <2>2 DEF Finishing, s, t
  <2>3. ASSUME c.op = "upload" /\ c.done PROVE Finishing
      BY <1>3, <2>3 DEF Finishing, s
  <2> QED
      BY <2>1, <2>2, <2>3
<1>9. ChunksProduced /\ guest'.produced = guest.produced =>
         ChunksProduced' /\ (c.op = "upload" /\ ~c.done => c.chunk = guest.produced)
    BY <1>2 DEF ChunksProduced, s, t
<1> QED
    BY <1>2, <1>4, <1>5, <1>6, <1>7, <1>8, <1>9 DEF t

LEMMA CallsKept ==
    ASSUME guest'.calls = guest.calls
    PROVE  /\ \A op : Calls(op)' <=> Calls(op)
           /\ \A op : OneCall(op)' <=> OneCall(op)
           /\ StartIsFirst' <=> StartIsFirst
           /\ Chunking' <=> Chunking
           /\ Finishing' <=> Finishing
           /\ guest'.produced = guest.produced => (ChunksProduced' <=> ChunksProduced)
           /\ ~Chunking => ChunksProduced'
    BY DEF Calls, OneCall, StartIsFirst, Chunking, Finishing, ChunksProduced

(* The same of the answers, ...                                            *)
LEMMA AnswerAdded ==
    ASSUME FetchTyped, NEW a \in AnswerTypes, answers' = Append(answers, a)
    PROVE  /\ answers' \in Seq(AnswerTypes) /\ answers' # <<>>
           /\ \A op : Answering(op)' <=> Answering(op) \/ op = a.op
           /\ \A op : OneAnswer(op) /\ (a.op # op \/ ~Answering(op)) => OneAnswer(op)'
<1> DEFINE n == Len(answers) + 1
<1>1. answers \in Seq(AnswerTypes)
    BY DEF FetchTyped
<1>2. /\ answers' \in Seq(AnswerTypes) /\ answers' # <<>>
      /\ Len(answers) \in Nat /\ DOMAIN answers = 1 .. Len(answers) /\ DOMAIN answers' = 1 .. n
      /\ \A i \in DOMAIN answers : answers'[i] = answers[i]
      /\ answers'[n] = a
    BY <1>1, Grows
<1>3. /\ \A i \in DOMAIN answers' : i \in DOMAIN answers \/ i = n
      /\ \A i \in DOMAIN answers : i \in DOMAIN answers'
      /\ n \in DOMAIN answers' /\ n \notin DOMAIN answers
    BY <1>2
<1> HIDE DEF n
<1>4. \A op : Answering(op)' <=> Answering(op) \/ op = a.op
    BY <1>2, <1>3 DEF Answering
<1>5. \A op : OneAnswer(op) /\ (a.op # op \/ ~Answering(op)) => OneAnswer(op)'
    BY <1>2, <1>3 DEF OneAnswer, Answering
<1> QED
    BY <1>2, <1>4, <1>5

LEMMA AnswerTaken ==
    ASSUME FetchTyped, answers # <<>>, answers' = Tail(answers), NEW a, a = Head(answers)
    PROVE  /\ answers' \in Seq(AnswerTypes) /\ a \in AnswerTypes
           /\ \A op : Answering(op) <=> Answering(op)' \/ op = a.op
           /\ \A op : OneAnswer(op) => OneAnswer(op)' /\ (a.op = op => ~Answering(op)')
<1>1. answers \in Seq(AnswerTypes)
    BY DEF FetchTyped
<1>2. /\ answers' \in Seq(AnswerTypes)
      /\ Len(answers) \in Nat \ {0} /\ DOMAIN answers = 1 .. Len(answers) /\ DOMAIN answers' = 1 .. (Len(answers) - 1)
      /\ a = answers[1] /\ answers[1] \in AnswerTypes /\ 1 \in DOMAIN answers
      /\ \A i \in DOMAIN answers' : i + 1 \in DOMAIN answers /\ answers'[i] = answers[i + 1]
      /\ \A i \in DOMAIN answers : i = 1 \/ (i - 1 \in DOMAIN answers' /\ answers'[i - 1] = answers[i])
    BY <1>1, Shrinks
<1>3. /\ answers[1] = a /\ 1 \in DOMAIN answers
      /\ \A i \in DOMAIN answers' : i + 1 \in DOMAIN answers /\ answers'[i] = answers[i + 1] /\ i + 1 # 1
      /\ \A i, j \in DOMAIN answers' : i + 1 = j + 1 => i = j
    BY <1>2
<1>4. ASSUME NEW op PROVE Answering(op) <=> Answering(op)' \/ op = a.op
  <2>1. ASSUME Answering(op), op # a.op PROVE Answering(op)'
    <3>1. PICK i \in DOMAIN answers : answers[i].op = op
      BY <2>1 DEF Answering
    <3>2. i - 1 \in DOMAIN answers' /\ answers'[i - 1].op = op
      BY <1>2, <2>1, <3>1
    <3> QED
      BY <3>2 DEF Answering
  <2>2. ASSUME Answering(op)' PROVE Answering(op)
    BY <1>2, <2>2 DEF Answering
  <2>3. Answering(a.op)
    BY <1>2 DEF Answering
  <2> QED
    BY <2>1, <2>2, <2>3
<1>5. ASSUME NEW op, OneAnswer(op) PROVE OneAnswer(op)' /\ (a.op = op => ~Answering(op)')
  <2>1. ASSUME NEW i \in DOMAIN answers', NEW j \in DOMAIN answers', answers'[i].op = op, answers'[j].op = op
        PROVE  i = j
    <3>1. i + 1 \in DOMAIN answers /\ j + 1 \in DOMAIN answers /\ answers[i + 1].op = op /\ answers[j + 1].op = op
      BY <1>3, <2>1
    <3>2. i + 1 = j + 1
      BY <1>5, <3>1 DEF OneAnswer
    <3> QED
      BY <1>3, <3>2
  <2>2. ASSUME NEW i \in DOMAIN answers', answers'[i].op = op, a.op = op PROVE FALSE
    <3>1. i + 1 \in DOMAIN answers /\ answers[i + 1].op = op /\ answers[1].op = op /\ i + 1 # 1
      BY <1>3, <2>2
    <3> QED
      BY <1>3, <1>5, <3>1 DEF OneAnswer
  <2> QED
      BY <2>1, <2>2 DEF OneAnswer, Answering
<1> QED
    BY <1>2, <1>4, <1>5

LEMMA AnswersKept ==
    ASSUME answers' = answers
    PROVE  (\A op : Answering(op)' <=> Answering(op)) /\ (\A op : OneAnswer(op)' <=> OneAnswer(op))
    BY DEF Answering, OneAnswer

(* ... of the events ...                                                   *)
LEMMA EventAdded ==
    ASSUME FetchTyped, NEW e \in EventTypes, host'.events = Append(host.events, e)
    PROVE  /\ host'.events \in Seq(EventTypes) /\ host'.events # <<>>
           /\ \A type : InFlight(type)' <=> InFlight(type) \/ type = e.type
           /\ \A type : OneEvent(type) /\ (e.type # type \/ ~InFlight(type)) => OneEvent(type)'
           /\ ChunksArrive /\ (\A f : Arrives(f, guest', host') <=> Arrives(f, guest, host)) /\ e.type # "chunk" => ChunksArrive'
           /\ ~InFlight("chunk") /\ (e.type = "chunk" => Arrives(e, guest', host')) => ChunksArrive'
<1> DEFINE s == host.events
           t == host'.events
           n == Len(s) + 1
<1>1. s \in Seq(EventTypes) /\ t = Append(s, e)
    BY DEF FetchTyped, Hosts
<1>2. /\ t \in Seq(EventTypes) /\ t # <<>>
      /\ Len(s) \in Nat /\ DOMAIN s = 1 .. Len(s) /\ DOMAIN t = 1 .. n
      /\ \A i \in DOMAIN s : t[i] = s[i]
      /\ t[n] = e
    BY <1>1, Grows
<1>3. /\ \A i \in DOMAIN t : i \in DOMAIN s \/ i = n
      /\ \A i \in DOMAIN s : i \in DOMAIN t
      /\ n \in DOMAIN t /\ n \notin DOMAIN s
    BY <1>2
<1> HIDE DEF s, t, n
<1>4. \A type : InFlight(type)' <=> InFlight(type) \/ type = e.type
    BY <1>2, <1>3 DEF InFlight, s, t
<1>5. \A type : OneEvent(type) /\ (e.type # type \/ ~InFlight(type)) => OneEvent(type)'
    BY <1>2, <1>3 DEF OneEvent, InFlight, s, t
<1>6. ASSUME ChunksArrive, \A f : Arrives(f, guest', host') <=> Arrives(f, guest, host), e.type # "chunk"
      PROVE  ChunksArrive'
  <2>1. \A i \in DOMAIN t : t[i].type = "chunk" => Arrives(t[i], guest', host')
    BY <1>2, <1>3, <1>6 DEF ChunksArrive, s
  <2> QED
    BY <2>1 DEF ChunksArrive, t
<1>7. ASSUME ~InFlight("chunk"), e.type = "chunk" => Arrives(e, guest', host')
      PROVE  ChunksArrive'
  <2>1. \A i \in DOMAIN t : t[i].type = "chunk" => i = n
    BY <1>2, <1>3, <1>7 DEF InFlight, s
  <2>2. \A i \in DOMAIN t : t[i].type = "chunk" => Arrives(t[i], guest', host')
    BY <1>2, <1>7, <2>1
  <2> QED
    BY <2>2 DEF ChunksArrive, t
<1> QED
    BY <1>2, <1>4, <1>5, <1>6, <1>7 DEF t

LEMMA EventTaken ==
    ASSUME FetchTyped, host.events # <<>>, host'.events = Tail(host.events), NEW e, e = Head(host.events)
    PROVE  /\ host'.events \in Seq(EventTypes) /\ e \in EventTypes
           /\ \A type : InFlight(type) <=> InFlight(type)' \/ type = e.type
           /\ \A type : OneEvent(type) => OneEvent(type)' /\ (e.type = type => ~InFlight(type)')
           /\ ChunksArrive /\ (\A f : Arrives(f, guest', host') <=> Arrives(f, guest, host)) => ChunksArrive'
           /\ ChunksArrive /\ e.type = "chunk" => Arrives(e, guest, host)
           /\ ~InFlight("chunk")' => ChunksArrive'
<1> DEFINE s == host.events
           t == host'.events
<1>1. s \in Seq(EventTypes) /\ s # <<>> /\ t = Tail(s)
    BY DEF FetchTyped, Hosts
<1>2. /\ t \in Seq(EventTypes)
      /\ Len(s) \in Nat \ {0} /\ DOMAIN s = 1 .. Len(s) /\ DOMAIN t = 1 .. (Len(s) - 1)
      /\ e = s[1] /\ s[1] \in EventTypes /\ 1 \in DOMAIN s
      /\ \A i \in DOMAIN t : i + 1 \in DOMAIN s /\ t[i] = s[i + 1]
      /\ \A i \in DOMAIN s : i = 1 \/ (i - 1 \in DOMAIN t /\ t[i - 1] = s[i])
    BY <1>1, Shrinks
<1>3. /\ s[1] = e /\ 1 \in DOMAIN s
      /\ \A i \in DOMAIN t : i + 1 \in DOMAIN s /\ t[i] = s[i + 1] /\ i + 1 # 1
      /\ \A i, j \in DOMAIN t : i + 1 = j + 1 => i = j
    BY <1>2
<1> HIDE DEF s, t
<1>4. \A type : InFlight(type) <=> InFlight(type)' \/ type = e.type
    BY <1>2 DEF InFlight, s, t
<1>5. ASSUME NEW type, OneEvent(type) PROVE OneEvent(type)' /\ (e.type = type => ~InFlight(type)')
  <2>1. ASSUME NEW i \in DOMAIN t, NEW j \in DOMAIN t, t[i].type = type, t[j].type = type
        PROVE  i = j
    <3>1. i + 1 \in DOMAIN s /\ j + 1 \in DOMAIN s /\ s[i + 1].type = type /\ s[j + 1].type = type
      BY <1>3, <2>1
    <3>2. i + 1 = j + 1
      BY <1>5, <3>1 DEF OneEvent, s
    <3> QED
      BY <1>3, <3>2
  <2>2. ASSUME NEW i \in DOMAIN t, t[i].type = type, e.type = type PROVE FALSE
    <3>1. i + 1 \in DOMAIN s /\ s[i + 1].type = type /\ s[1].type = type /\ i + 1 # 1
      BY <1>3, <2>2
    <3> QED
      BY <1>3, <1>5, <3>1 DEF OneEvent, s
  <2> QED
      BY <2>1, <2>2 DEF OneEvent, InFlight, t
<1>6. ASSUME ChunksArrive, \A f : Arrives(f, guest', host') <=> Arrives(f, guest, host)
      PROVE  ChunksArrive'
  <2>1. \A i \in DOMAIN t : t[i].type = "chunk" => Arrives(t[i], guest', host')
    BY <1>2, <1>6 DEF ChunksArrive, s
  <2> QED
    BY <2>1 DEF ChunksArrive, t
<1>7. ChunksArrive /\ e.type = "chunk" => Arrives(e, guest, host)
    BY <1>2 DEF ChunksArrive, s
<1>8. ~InFlight("chunk")' => ChunksArrive'
    BY DEF InFlight, ChunksArrive
<1> QED
    BY <1>2, <1>4, <1>5, <1>6, <1>7, <1>8 DEF t

LEMMA EventsKept ==
    ASSUME host'.events = host.events
    PROVE  /\ \A type : InFlight(type)' <=> InFlight(type)
           /\ \A type : OneEvent(type)' <=> OneEvent(type)
           /\ (\A f : Arrives(f, guest', host') <=> Arrives(f, guest, host)) => (ChunksArrive' <=> ChunksArrive)
           /\ ~InFlight("chunk") => ChunksArrive'
    BY DEF InFlight, OneEvent, ChunksArrive

(* ... and of the outcomes.                                                *)
LEMMA OutcomeAdded ==
    ASSUME FetchTyped, NEW o \in OutcomeTypes, outcomes' = Append(outcomes, o)
    PROVE  /\ outcomes' \in Seq(OutcomeTypes) /\ outcomes' # <<>>
           /\ Failing' <=> Failing \/ ~o.ok
           /\ Succeeding' <=> Succeeding \/ o.ok
<1> DEFINE n == Len(outcomes) + 1
<1>1. outcomes \in Seq(OutcomeTypes)
    BY DEF FetchTyped
<1>2. /\ outcomes' \in Seq(OutcomeTypes) /\ outcomes' # <<>>
      /\ Len(outcomes) \in Nat /\ DOMAIN outcomes = 1 .. Len(outcomes) /\ DOMAIN outcomes' = 1 .. n
      /\ \A i \in DOMAIN outcomes : outcomes'[i] = outcomes[i]
      /\ outcomes'[n] = o
    BY <1>1, Grows
<1>3. /\ \A i \in DOMAIN outcomes' : i \in DOMAIN outcomes \/ i = n
      /\ \A i \in DOMAIN outcomes : i \in DOMAIN outcomes'
      /\ n \in DOMAIN outcomes'
    BY <1>2
<1> HIDE DEF n
<1>4. Failing' <=> Failing \/ ~o.ok
    BY <1>2, <1>3 DEF Failing
<1>5. Succeeding' <=> Succeeding \/ o.ok
    BY <1>2, <1>3 DEF Succeeding
<1> QED
    BY <1>2, <1>4, <1>5

LEMMA OutcomeTaken ==
    ASSUME FetchTyped, outcomes # <<>>, outcomes' = Tail(outcomes), NEW o, o = Head(outcomes)
    PROVE  /\ outcomes' \in Seq(OutcomeTypes) /\ o \in OutcomeTypes
           /\ Failing <=> Failing' \/ ~o.ok
           /\ Succeeding <=> Succeeding' \/ o.ok
<1>1. outcomes \in Seq(OutcomeTypes)
    BY DEF FetchTyped
<1>2. /\ outcomes' \in Seq(OutcomeTypes)
      /\ o = outcomes[1] /\ outcomes[1] \in OutcomeTypes /\ 1 \in DOMAIN outcomes
      /\ \A i \in DOMAIN outcomes' : i + 1 \in DOMAIN outcomes /\ outcomes'[i] = outcomes[i + 1]
      /\ \A i \in DOMAIN outcomes : i = 1 \/ (i - 1 \in DOMAIN outcomes' /\ outcomes'[i - 1] = outcomes[i])
    BY <1>1, Shrinks
<1>3. Failing <=> Failing' \/ ~o.ok
    BY <1>2 DEF Failing
<1>4. Succeeding <=> Succeeding' \/ o.ok
  <2>1. ASSUME Succeeding, ~o.ok PROVE Succeeding'
    <3>1. PICK i \in DOMAIN outcomes : outcomes[i].ok
      BY <2>1 DEF Succeeding
    <3>2. i # 1
      BY <1>2, <2>1, <3>1
    <3>3. i - 1 \in DOMAIN outcomes' /\ outcomes'[i - 1].ok
      BY <1>2, <3>1, <3>2
    <3> QED
      BY <3>3 DEF Succeeding
  <2>2. ASSUME Succeeding' PROVE Succeeding
    BY <1>2, <2>2 DEF Succeeding
  <2>3. ASSUME o.ok PROVE Succeeding
    BY <1>2, <2>3 DEF Succeeding
  <2> QED
    BY <2>1, <2>2, <2>3
<1> QED
    BY <1>2, <1>3, <1>4

LEMMA OutcomesKept ==
    ASSUME outcomes' = outcomes
    PROVE  (Failing' <=> Failing) /\ (Succeeding' <=> Succeeding)
    BY DEF Failing, Succeeding
-----------------------------------------------------------------------------
(* What the guest's operators do to its entry.                             *)
Cancellation == [op |-> "cancel", chunk |-> 0, done |-> FALSE]

(* The guest gives the fetch up: whatever it was waiting for, the bodies    *)
(* stay as they are, and the host is told if it has not been already.      *)
GivesUp(g, f) ==
    /\ f \in Guests /\ ~f.live
    /\ f.upload => g.upload /\ ~g.live
    /\ f.produced = g.produced /\ f.exhausted = g.exhausted /\ f.received = g.received
    /\ f.stream \in {g.stream, "errored", "cancelled"}
    /\ f.pull => g.pull
    /\ f.calls = Append(g.calls, Cancellation) \/ (~g.live /\ f.calls = g.calls)

LEMMA CancellationIsCall == Cancellation \in CallTypes /\ Cancellation.op = "cancel"
    BY DEF Cancellation, CallTypes

LEMMA GuestCalls ==
    ASSUME NEW g \in Guests, NEW c \in CallTypes
    PROVE  /\ [g EXCEPT !.calls = Append(@, c)] \in Guests
           /\ g.calls \in Seq(CallTypes)
<1>1. g.calls \in Seq(CallTypes)
    BY DEF Guests
<1>2. Append(g.calls, c) \in Seq(CallTypes)
    BY <1>1, AppendProperties
<1> QED
    BY <1>1, <1>2 DEF Guests

(* Of other steps only the fields that change are told: Same says that      *)
(* the rest stays.                                                         *)
Same(g, f, changed) ==
    /\ f \in Guests
    /\ "live" \in changed \/ f.live = g.live
    /\ "upload" \in changed \/ f.upload = g.upload
    /\ "demand" \in changed \/ f.demand = g.demand
    /\ "pump" \in changed \/ f.pump = g.pump
    /\ "produced" \in changed \/ f.produced = g.produced
    /\ "exhausted" \in changed \/ f.exhausted = g.exhausted
    /\ "cancelled" \in changed \/ f.uploadCancelled = g.uploadCancelled
    /\ "stream" \in changed \/ f.stream = g.stream
    /\ "pull" \in changed \/ f.pull = g.pull
    /\ "received" \in changed \/ f.received = g.received
    /\ "calls" \in changed \/ f.calls = g.calls

(* A call is added, and the rest of the entry stays.                       *)
LEMMA CallAdds ==
    ASSUME NEW g \in Guests, NEW c \in CallTypes, NEW f, f = [g EXCEPT !.calls = Append(@, c)]
    PROVE  Same(g, f, {"calls"}) /\ f.calls = Append(g.calls, c)
<1> DEFINE q == Append(g.calls, c)
<1>1. f = [g EXCEPT !.calls = q]
    OBVIOUS
<1>2. f \in Guests
    BY GuestCalls
<1> HIDE DEF q
<1>3. Same(g, f, {"calls"}) /\ f.calls = q
    BY <1>1, <1>2 DEF Same, Guests
<1> QED
    BY <1>3 DEF q

LEMMA RejectedIsOver ==
    ASSUME NEW g \in Guests
    PROVE  LET r == Guest!Rejected(g)
           IN  /\ r \in Guests /\ ~r.live /\ ~r.upload /\ r.produced = g.produced /\ r.exhausted = g.exhausted
               /\ r.received = g.received /\ r.stream \in {g.stream, "errored"} /\ ~r.pull
               /\ r.calls = g.calls /\ r.pump = g.pump
<1> DEFINE d == Guest!Finish(g)
           promise == IF d.promise = "pending" THEN "rejected" ELSE d.promise
           stream == IF d.stream = "open" THEN "errored" ELSE d.stream
<1>1. /\ d \in Guests /\ ~d.live /\ ~d.upload /\ d.produced = g.produced /\ d.exhausted = g.exhausted
      /\ d.received = g.received /\ d.stream = g.stream /\ d.calls = g.calls /\ d.pump = g.pump
    BY DEF Guest!Finish, Guests
<1>2. Guest!Rejected(g) = [d EXCEPT !.promise = promise, !.stream = stream, !.pull = FALSE]
    BY DEF Guest!Rejected
<1> HIDE DEF d
<1>3. /\ promise \in {"pending", "resolved", "rejected"} /\ stream \in {d.stream, "errored"}
      /\ d.stream \in {"none", "open", "errored", "cancelled", "closed"}
    BY <1>1 DEF Guests
<1> HIDE DEF promise, stream
<1>4. Guest!Rejected(g) \in Guests
    BY <1>1, <1>2, <1>3 DEF Guests
<1> QED
    BY <1>1, <1>2, <1>3, <1>4 DEF Guests

LEMMA FailGivesUp ==
    ASSUME NEW g \in Guests
    PROVE  GivesUp(g, Guest!Fail(g)) /\ Guest!Fail(g).pump = g.pump
<1>1. CASE ~g.live
    BY <1>1 DEF Guest!Fail, GivesUp
<1>2. CASE g.live
  <2> DEFINE r == Guest!Rejected(g)
  <2>1. /\ r \in Guests /\ ~r.live /\ ~r.upload /\ r.produced = g.produced /\ r.exhausted = g.exhausted
        /\ r.received = g.received /\ r.stream \in {g.stream, "errored"} /\ ~r.pull
        /\ r.calls = g.calls /\ r.pump = g.pump
    BY RejectedIsOver
  <2> HIDE DEF r
  <2>2. Guest!Fail(g) = [r EXCEPT !.calls = Append(@, Cancellation)]
    BY <1>2 DEF Guest!Fail, Guest!Call, Cancellation, r
  <2>3. Guest!Fail(g) \in Guests
    BY <2>1, <2>2, GuestCalls, CancellationIsCall
  <2> QED
    BY <2>1, <2>2, <2>3 DEF GivesUp, Guests
<1> QED
    BY <1>1, <1>2 DEF Guests

(* Giving up with the pump stopped.                                        *)
LEMMA StopGivesUp ==
    ASSUME NEW g \in Guests
    PROVE  LET f == Guest!Fail([g EXCEPT !.pump = "idle"]) IN GivesUp(g, f) /\ f.pump = "idle"
<1> DEFINE s == [g EXCEPT !.pump = "idle"]
<1>1. /\ s \in Guests /\ s.pump = "idle" /\ s.live = g.live /\ s.upload = g.upload /\ s.calls = g.calls
      /\ s.produced = g.produced /\ s.exhausted = g.exhausted /\ s.received = g.received
      /\ s.stream = g.stream /\ s.pull = g.pull
    BY DEF Guests
<1> HIDE DEF s
<1>2. GivesUp(s, Guest!Fail(s)) /\ Guest!Fail(s).pump = "idle"
    BY <1>1, FailGivesUp
<1>3. GivesUp(g, Guest!Fail(s))
    BY <1>1, <1>2 DEF GivesUp
<1> QED
    BY <1>2, <1>3 DEF s

LEMMA CancelGivesUp ==
    ASSUME NEW g \in Guests
    PROVE  GivesUp(g, Guest!CancelBody(g)) /\ Guest!CancelBody(g).pump = g.pump
<1> DEFINE r == Guest!Finish([g EXCEPT !.stream = "cancelled", !.pull = FALSE])
<1>1. /\ r \in Guests /\ ~r.live /\ ~r.upload /\ r.produced = g.produced /\ r.exhausted = g.exhausted
      /\ r.received = g.received /\ r.stream = "cancelled" /\ ~r.pull
      /\ r.calls = g.calls /\ r.pump = g.pump
    BY DEF Guest!Finish, Guests
<1>2. Guest!CancelBody(g) = [r EXCEPT !.calls = Append(@, Cancellation)]
    BY DEF Guest!CancelBody, Guest!Call, Cancellation
<1> HIDE DEF r
<1>3. Guest!CancelBody(g) \in Guests
    BY <1>1, <1>2, GuestCalls, CancellationIsCall
<1> QED
    BY <1>1, <1>2, <1>3 DEF GivesUp, Guests

LEMMA DisposeGivesUp ==
    ASSUME NEW g \in Guests
    PROVE  GivesUp(g, Guest!Dispose(g)) /\ Guest!Dispose(g).pump = g.pump
<1> DEFINE s == [g EXCEPT !.disposed = TRUE]
<1>1. /\ s \in Guests /\ s.pump = g.pump /\ s.live = g.live /\ s.upload = g.upload /\ s.calls = g.calls
      /\ s.produced = g.produced /\ s.exhausted = g.exhausted /\ s.received = g.received
      /\ s.stream = g.stream /\ s.pull = g.pull
    BY DEF Guests
<1> HIDE DEF s
<1>2. GivesUp(s, Guest!Fail(s)) /\ Guest!Fail(s).pump = g.pump
    BY <1>1, FailGivesUp
<1>3. GivesUp(g, Guest!Fail(s))
    BY <1>1, <1>2 DEF GivesUp
<1>4. Guest!Dispose(g) = Guest!Fail(s)
    BY DEF Guest!Dispose, s
<1> QED
    BY <1>2, <1>3, <1>4

(* Loop: the pump stops, or gives up, or reads the next chunk.              *)
Stops(g, f) == /\ Same(g, f, {"pump"}) /\ f.pump = "idle"
               /\ g.demand = 0 \/ ~g.live \/ g.uploadCancelled
Reads(g, f) == /\ Same(g, f, {"pump", "demand"}) /\ f.pump = "reading"
               /\ g.live /\ g.upload /\ ~g.uploadCancelled

LEMMA LoopReads ==
    ASSUME NEW g \in Guests, NEW f, f = Guest!Loop(g)
    PROVE  Stops(g, f) \/ Reads(g, f) \/ (GivesUp(g, f) /\ f.pump = "idle" /\ ~g.upload)
<1>1. CASE g.demand = 0 \/ ~g.live \/ g.uploadCancelled
    BY <1>1 DEF Guest!Loop, Stops, Same, Guests
<1>2. CASE ~(g.demand = 0 \/ ~g.live \/ g.uploadCancelled) /\ ~g.upload
  <2>1. f = Guest!Fail([g EXCEPT !.pump = "idle"])
    BY <1>2 DEF Guest!Loop
  <2> QED
    BY <1>2, <2>1, StopGivesUp
<1>3. CASE ~(g.demand = 0 \/ ~g.live \/ g.uploadCancelled) /\ g.upload
  <2>1. f = [g EXCEPT !.demand = @ - 1, !.pump = "reading"]
    BY <1>3 DEF Guest!Loop
  <2>2. g.demand - 1 \in Nat
    BY <1>3 DEF Guests
  <2>3. f \in Guests
    BY <2>1, <2>2 DEF Guests
  <2>4. g.live /\ g.upload /\ ~g.uploadCancelled
    BY <1>3
  <2> QED
    BY <2>1, <2>3, <2>4 DEF Reads, Same, Guests
<1> QED
    BY <1>1, <1>2, <1>3 DEF Guests

(* Demand: the host has pulled.                                            *)
Waits(g, f) ==
    /\ Same(g, f, {"pump", "demand"})
    /\ \/ g.pump # "idle" /\ f.pump = g.pump /\ f.demand > 0
       \/ g.pump = "idle" /\ f.pump = "idle" /\ g.uploadCancelled
       \/ g.pump = "idle" /\ f.pump = "reading" /\ g.upload

LEMMA DemandReads ==
    ASSUME NEW g \in Guests, g.live, NEW f, f = Guest!Demand(g)
    PROVE  Waits(g, f) \/ (GivesUp(g, f) /\ f.pump = "idle" /\ g.pump = "idle" /\ ~g.upload)
<1> DEFINE d == [g EXCEPT !.demand = @ + 1]
<1>1. g.demand \in Nat /\ g.demand + 1 \in Nat
    BY DEF Guests
<1>2. d \in Guests
    BY <1>1 DEF Guests
<1>3. Same(g, d, {"demand"}) /\ d.demand = g.demand + 1
    BY <1>1, <1>2 DEF Same, Guests
<1>4. d \in Guests /\ d.demand # 0 /\ d.demand > 0
    BY <1>1, <1>2, <1>3
<1>5. f = IF d.pump # "idle" THEN d ELSE Guest!Loop(d)
    BY DEF Guest!Demand
<1> HIDE DEF d
<1>6. CASE g.pump # "idle"
    BY <1>3, <1>4, <1>5, <1>6 DEF Same, Waits
<1>7. CASE g.pump = "idle"
  <2>1. f = Guest!Loop(d)
    BY <1>3, <1>5, <1>7 DEF Same
  <2>2. Stops(d, f) \/ Reads(d, f) \/ (GivesUp(d, f) /\ f.pump = "idle" /\ ~d.upload)
    BY <1>4, <2>1, LoopReads
  <2>3. CASE Stops(d, f)
    BY <1>3, <1>4, <1>7, <2>3 DEF Stops, Same, Waits
  <2>4. CASE Reads(d, f)
    BY <1>3, <1>7, <2>4 DEF Reads, Same, Waits
  <2>5. CASE GivesUp(d, f) /\ f.pump = "idle" /\ ~d.upload
    BY <1>3, <1>7, <2>5 DEF GivesUp, Same
  <2> QED
    BY <2>2, <2>3, <2>4, <2>5
<1> QED
    BY <1>6, <1>7

(* What the pump gets from the body: nothing if it has been given up, a     *)
(* chunk, or the end.                                                      *)
UploadCall(chunk, done) == [op |-> "upload", chunk |-> chunk, done |-> done]

LEMMA UploadCallIsCall ==
    ASSUME NEW chunk \in Nat, NEW done \in BOOLEAN
    PROVE  /\ UploadCall(chunk, done) \in CallTypes
           /\ UploadCall(chunk, done).op = "upload"
           /\ UploadCall(chunk, done).chunk = chunk /\ UploadCall(chunk, done).done = done
    BY DEF UploadCall, CallTypes

LEMMA AbandonedStops ==
    ASSUME NEW g \in Guests, Guest!Abandoned(g), NEW f, f \in {Guest!BodyYields(g), Guest!BodyEnds(g)}
    PROVE  Same(g, f, {"pump"}) /\ f.pump = "idle" /\ (~g.live \/ g.uploadCancelled)
<1>1. f = [g EXCEPT !.pump = "idle"]
    BY DEF Guest!BodyYields, Guest!BodyEnds
<1> QED
    BY <1>1 DEF Guest!Abandoned, Same, Guests

LEMMA BodyYieldsChunk ==
    ASSUME NEW g \in Guests, ~Guest!Abandoned(g), NEW f, f = Guest!BodyYields(g)
    PROVE  /\ Same(g, f, {"pump", "produced", "calls"}) /\ f.pump = "calling" /\ g.live
           /\ f.produced = g.produced + 1 /\ f.calls = Append(g.calls, UploadCall(f.produced, FALSE))
<1> DEFINE n == g.produced + 1
           p == [g EXCEPT !.pump = "calling", !.produced = n]
           u == UploadCall(n, FALSE)
<1>1. n \in Nat
    BY DEF Guests
<1>2. p \in Guests /\ Same(g, p, {"pump", "produced"}) /\ p.pump = "calling" /\ p.produced = n /\ p.calls = g.calls
    BY <1>1 DEF Same, Guests
<1>3. f = [p EXCEPT !.calls = Append(@, u)] /\ g.live
    BY DEF Guest!BodyYields, Guest!CallUpload, Guest!Abandoned, UploadCall, Guests
<1>4. u \in CallTypes
    BY <1>1, UploadCallIsCall
<1> HIDE DEF n, p, u
<1>5. Same(p, f, {"calls"}) /\ f.calls = Append(p.calls, u)
    BY <1>2, <1>3, <1>4, CallAdds
<1>6. Same(g, f, {"pump", "produced", "calls"}) /\ f.pump = "calling" /\ f.produced = n
    BY <1>2, <1>5 DEF Same
<1> QED
    BY <1>2, <1>3, <1>5, <1>6 DEF n, u

LEMMA BodyEndsUpload ==
    ASSUME NEW g \in Guests, ~Guest!Abandoned(g), NEW f, f = Guest!BodyEnds(g)
    PROVE  /\ Same(g, f, {"pump", "exhausted", "calls"}) /\ f.pump = "calling" /\ g.live
           /\ f.exhausted /\ f.calls = Append(g.calls, UploadCall(0, TRUE))
<1> DEFINE p == [g EXCEPT !.pump = "calling", !.exhausted = TRUE]
           u == UploadCall(0, TRUE)
<1>2. p \in Guests /\ Same(g, p, {"pump", "exhausted"}) /\ p.pump = "calling" /\ p.exhausted /\ p.calls = g.calls
    BY DEF Same, Guests
<1>3. f = [p EXCEPT !.calls = Append(@, u)] /\ g.live
    BY DEF Guest!BodyEnds, Guest!CallUpload, Guest!Abandoned, UploadCall, Guests
<1>4. u \in CallTypes
    BY UploadCallIsCall
<1> HIDE DEF p, u
<1>5. Same(p, f, {"calls"}) /\ f.calls = Append(p.calls, u)
    BY <1>2, <1>3, <1>4, CallAdds
<1>6. Same(g, f, {"pump", "exhausted", "calls"}) /\ f.pump = "calling" /\ f.exhausted
    BY <1>2, <1>5 DEF Same
<1> QED
    BY <1>2, <1>3, <1>5, <1>6 DEF u

(* UploadAnswered: the pump reads on, unless the call failed or was the     *)
(* last.                                                                   *)
LEMMA UploadAnsweredReads ==
    ASSUME NEW g \in Guests, NEW ok \in BOOLEAN, NEW f, f = Guest!UploadAnswered(g, ok)
    PROVE  \/ GivesUp(g, f) /\ f.pump = "idle"
           \/ ok /\ g.exhausted /\ Same(g, f, {"pump", "upload"}) /\ f.pump = "idle" /\ ~f.upload
           \/ ok /\ ~g.exhausted /\ (Stops(g, f) \/ Reads(g, f))
<1>1. CASE ~ok
  <2>1. f = Guest!Fail([g EXCEPT !.pump = "idle"])
    BY <1>1 DEF Guest!UploadAnswered
  <2> QED
    BY <2>1, StopGivesUp
<1>2. CASE ok /\ g.exhausted
    BY <1>2 DEF Guest!UploadAnswered, Same, Guests
<1>3. CASE ok /\ ~g.exhausted
  <2>1. f = Guest!Loop(g)
    BY <1>3 DEF Guest!UploadAnswered
  <2> QED
    BY <1>3, <2>1, LoopReads
<1> QED
    BY <1>1, <1>2, <1>3 DEF Guests

(* PullBody: the program wants a chunk of the response.                     *)
ReadCall == [op |-> "read", chunk |-> 0, done |-> FALSE]

LEMMA PullBodyReads ==
    ASSUME NEW g \in Guests, NEW f, f = Guest!PullBody(g)
    PROVE  /\ Same(g, f, {"pull", "calls"}) /\ f.pull /\ f.calls = Append(g.calls, ReadCall)
           /\ ReadCall \in CallTypes /\ ReadCall.op = "read"
<1> DEFINE p == [g EXCEPT !.pull = TRUE]
<1>1. p \in Guests /\ Same(g, p, {"pull"}) /\ p.pull /\ p.calls = g.calls
    BY DEF Same, Guests
<1>2. f = [p EXCEPT !.calls = Append(@, ReadCall)] /\ ReadCall \in CallTypes /\ ReadCall.op = "read"
    BY DEF Guest!PullBody, Guest!Call, ReadCall, CallTypes
<1> HIDE DEF p
<1>3. f \in Guests
    BY <1>1, <1>2, GuestCalls
<1>4. f.pull /\ f.calls = Append(g.calls, ReadCall)
    BY <1>1, <1>2 DEF Guests
<1>5. Same(g, f, {"pull", "calls"})
    BY <1>1, <1>2, <1>3 DEF Same, Guests
<1> QED
    BY <1>2, <1>4, <1>5

(* The events other than a pull.  Closes: the fetch is over, and the host   *)
(* knows.                                                                  *)
Closes(g, f, stream) ==
    /\ Same(g, f, {"live", "upload", "demand", "cancelled", "stream", "pull"})
    /\ ~f.live /\ ~f.upload /\ f.stream \in {g.stream, stream} /\ (f.pull => g.pull)

Notices(g, f, e) ==
    \/ e.type = "uploadCancel" /\ Same(g, f, {"cancelled", "upload", "demand"})
       /\ f.uploadCancelled /\ ~f.upload
    \/ e.type = "error" /\ Closes(g, f, "errored")
    \/ e.type = "response" /\ e.last /\ Closes(g, f, g.stream)
    \/ e.type = "response" /\ ~e.last /\ Same(g, f, {"stream"}) /\ f.stream = "open"
    \/ e.type = "chunk" /\ e.last /\ Closes(g, f, "closed")
    \/ e.type = "chunk" /\ ~e.last /\ Same(g, f, {"received", "pull"})
       /\ f.received = Append(g.received, e.chunk) /\ ~f.pull

LEMMA DispatchNotices ==
    ASSUME NEW g \in Guests, NEW e \in EventTypes, g.live, e.type # "uploadPull", NEW f, f = Guest!Dispatch(g, e)
    PROVE  Notices(g, f, e)
<1>1. CASE e.type = "uploadCancel"
  <2> DEFINE r == [g EXCEPT !.uploadCancelled = TRUE, !.upload = FALSE, !.demand = 0]
  <2>1. f = r
    BY <1>1 DEF Guest!Dispatch
  <2>2. r \in Guests /\ r.uploadCancelled /\ ~r.upload
    BY DEF Guests
  <2>3. Same(g, r, {"cancelled", "upload", "demand"})
    BY <2>2 DEF Same, Guests
  <2> QED
    BY <1>1, <2>1, <2>2, <2>3 DEF Notices
<1>2. CASE e.type = "error"
  <2> DEFINE r == Guest!Rejected(g)
  <2>1. f = r
    BY <1>2 DEF Guest!Dispatch, Guest!FailLocally
  <2>2. /\ r \in Guests /\ ~r.live /\ ~r.upload /\ r.pump = g.pump /\ r.produced = g.produced
        /\ r.exhausted = g.exhausted /\ r.received = g.received /\ r.calls = g.calls
        /\ r.stream \in {g.stream, "errored"} /\ ~r.pull
    BY RejectedIsOver
  <2>3. Closes(g, r, "errored")
    BY <2>2 DEF Closes, Same
  <2> QED
    BY <1>2, <2>1, <2>3 DEF Notices
<1>3. CASE e.type = "response"
  <2>1. f = Guest!Response(g, ~e.last)
    BY <1>3 DEF Guest!Dispatch
  <2>2. CASE e.last
    <3> DEFINE r == Guest!Finish([g EXCEPT !.promise = "resolved"])
    <3>1. f = r
      BY <2>1, <2>2 DEF Guest!Response
    <3>2. /\ r \in Guests /\ ~r.live /\ ~r.upload /\ r.pump = g.pump /\ r.produced = g.produced
          /\ r.exhausted = g.exhausted /\ r.received = g.received /\ r.calls = g.calls
          /\ r.stream = g.stream /\ r.pull = g.pull
      BY DEF Guest!Finish, Guests
    <3>3. Closes(g, r, g.stream)
      BY <3>2 DEF Closes, Same
    <3> QED
      BY <1>3, <2>2, <3>1, <3>3 DEF Notices
  <2>3. CASE ~e.last
    <3> DEFINE r == [g EXCEPT !.promise = "resolved", !.stream = "open"]
    <3>1. f = r
      BY <2>1, <2>3 DEF Guest!Response
    <3>2. Same(g, r, {"stream"}) /\ r.stream = "open"
      BY DEF Same, Guests
    <3> QED
      BY <1>3, <2>3, <3>1, <3>2 DEF Notices
  <2> QED
    BY <2>2, <2>3 DEF EventTypes
<1>4. CASE e.type = "chunk"
  <2>1. f = Guest!Chunk(g, e)
    BY <1>4 DEF Guest!Dispatch
  <2>2. CASE e.last
    <3> DEFINE r == Guest!Finish([g EXCEPT !.stream = "closed", !.pull = FALSE])
    <3>1. f = r
      BY <2>1, <2>2 DEF Guest!Chunk
    <3>2. /\ r \in Guests /\ ~r.live /\ ~r.upload /\ r.pump = g.pump /\ r.produced = g.produced
          /\ r.exhausted = g.exhausted /\ r.received = g.received /\ r.calls = g.calls
          /\ r.stream = "closed" /\ ~r.pull
      BY DEF Guest!Finish, Guests
    <3>3. Closes(g, r, "closed")
      BY <3>2 DEF Closes, Same
    <3> QED
      BY <1>4, <2>2, <3>1, <3>3 DEF Notices
  <2>3. CASE ~e.last
    <3>1. f = [g EXCEPT !.received = Append(@, e.chunk), !.pull = FALSE]
      BY <2>1, <2>3 DEF Guest!Chunk
    <3>2. g.received \in Seq(Nat) /\ e.chunk \in Nat
      BY DEF Guests, EventTypes
    <3>3. Append(g.received, e.chunk) \in Seq(Nat)
      BY <3>2, AppendProperties
    <3>4. f \in Guests /\ f.received = Append(g.received, e.chunk) /\ ~f.pull
      BY <3>1, <3>3 DEF Guests
    <3>5. Same(g, f, {"received", "pull"})
      BY <3>1, <3>4 DEF Same, Guests
    <3> QED
      BY <1>4, <2>3, <3>4, <3>5 DEF Notices
  <2> QED
    BY <2>2, <2>3 DEF EventTypes
<1> QED
    BY <1>1, <1>2, <1>3, <1>4 DEF EventTypes
-----------------------------------------------------------------------------
(* What the host's operators do to its state.                              *)
Stays(h, f, changed) ==
    /\ f \in Hosts
    /\ "stage" \in changed \/ f.stage = h.stage
    /\ "mode" \in changed \/ f.mode = h.mode
    /\ "net" \in changed \/ f.net = h.net
    /\ "upload" \in changed \/ f.upload = h.upload
    /\ "wait" \in changed \/ f.wait = h.wait
    /\ "uploaded" \in changed \/ f.uploaded = h.uploaded
    /\ "whole" \in changed \/ f.whole = h.whole
    /\ "reading" \in changed \/ f.reading = h.reading
    /\ "position" \in changed \/ f.position = h.position
    /\ "remainder" \in changed \/ f.remainder = h.remainder
    /\ "ended" \in changed \/ f.ended = h.ended
    /\ "events" \in changed \/ f.events = h.events
    /\ "disposed" \in changed \/ f.disposed = h.disposed

PullEvent == Host!Event("uploadPull", 0, FALSE, TRUE)
ErrorEvent == Host!Event("error", 0, FALSE, FALSE)
CancelEvent == Host!Event("uploadCancel", 0, FALSE, TRUE)
ResponseEvent(last) == Host!Event("response", 0, last, TRUE)
ChunkEvent(chunk, last) == Host!Event("chunk", chunk, last, TRUE)

LEMMA EventsAreEvents ==
    /\ PullEvent \in EventTypes /\ PullEvent.type = "uploadPull"
    /\ ErrorEvent \in EventTypes /\ ErrorEvent.type = "error"
    /\ CancelEvent \in EventTypes /\ CancelEvent.type = "uploadCancel"
    /\ \A last \in BOOLEAN : ResponseEvent(last) \in EventTypes /\ ResponseEvent(last).type = "response"
    /\ \A chunk \in Nat, last \in BOOLEAN :
          /\ ChunkEvent(chunk, last) \in EventTypes /\ ChunkEvent(chunk, last).type = "chunk"
          /\ ChunkEvent(chunk, last).chunk = chunk /\ ChunkEvent(chunk, last).last = last
<1>1. PullEvent \in EventTypes /\ PullEvent.type = "uploadPull"
    BY DEF PullEvent, Host!Event, EventTypes
<1>2. ErrorEvent \in EventTypes /\ ErrorEvent.type = "error"
    BY DEF ErrorEvent, Host!Event, EventTypes
<1>3. CancelEvent \in EventTypes /\ CancelEvent.type = "uploadCancel"
    BY DEF CancelEvent, Host!Event, EventTypes
<1>4. \A last \in BOOLEAN : ResponseEvent(last) \in EventTypes /\ ResponseEvent(last).type = "response"
    BY DEF ResponseEvent, Host!Event, EventTypes
<1>5. \A chunk \in Nat, last \in BOOLEAN :
          /\ ChunkEvent(chunk, last) \in EventTypes /\ ChunkEvent(chunk, last).type = "chunk"
          /\ ChunkEvent(chunk, last).chunk = chunk /\ ChunkEvent(chunk, last).last = last
    BY DEF ChunkEvent, Host!Event, EventTypes
<1> QED
    BY <1>1, <1>2, <1>3, <1>4, <1>5

LEMMA EmitAdds ==
    ASSUME NEW h \in Hosts, ~h.disposed, NEW e \in EventTypes
    PROVE  LET f == Host!Emit(h, e) IN Stays(h, f, {"events"}) /\ f.events = Append(h.events, e)
<1> DEFINE f == [h EXCEPT !.events = Append(@, e)]
<1>1. h.events \in Seq(EventTypes)
    BY DEF Hosts
<1>2. Append(h.events, e) \in Seq(EventTypes)
    BY <1>1, AppendProperties
<1>3. f \in Hosts /\ f.events = Append(h.events, e)
    BY <1>2 DEF Hosts
<1>4. Stays(h, f, {"events"})
    BY <1>3 DEF Stays, Hosts
<1>5. Host!Emit(h, e) = f
    BY DEF Host!Emit
<1> QED
    BY <1>3, <1>4, <1>5

(* A fetch that is dropped, with or without the news to the guest.         *)
Drops(h, f) ==
    /\ Stays(h, f, {"stage", "wait", "upload", "net", "reading", "events", "disposed"})
    /\ h.stage = "active" /\ f.stage = "released" /\ ~f.wait
    /\ f.upload = IF h.upload = "open" THEN "errored" ELSE h.upload
    /\ f.reading = h.reading \/ (~f.reading /\ ~h.ended)

Fails(h, f) == Drops(h, f) /\ f.disposed = h.disposed /\ f.events = Append(h.events, ErrorEvent)
Releases(h, f) == Drops(h, f) /\ f.events = h.events

LEMMA ReleaseDrops ==
    ASSUME NEW h \in Hosts
    PROVE  LET f == Host!Release(h)
           IN  IF h.stage = "active" THEN Releases(h, f) /\ f.disposed = h.disposed ELSE f = h
<1>1. CASE h.stage = "active"
  <2> DEFINE f == [h EXCEPT !.stage = "released", !.wait = FALSE, !.upload = IF @ = "open" THEN "errored" ELSE @]
  <2>1. f \in Hosts
    BY DEF Hosts
  <2>2. /\ f.stage = "released" /\ ~f.wait
        /\ f.upload = IF h.upload = "open" THEN "errored" ELSE h.upload
    BY DEF Hosts
  <2>3. Stays(h, f, {"stage", "wait", "upload"}) /\ f.events = h.events /\ f.disposed = h.disposed /\ f.reading = h.reading
    BY <2>1 DEF Stays, Hosts
  <2>4. Host!Release(h) = f
    BY <1>1 DEF Host!Release, Host!Active
  <2> HIDE DEF f
  <2>5. Releases(h, f) /\ f.disposed = h.disposed
    BY <1>1, <2>2, <2>3 DEF Releases, Drops, Stays
  <2> QED
    BY <1>1, <2>4, <2>5
<1>2. CASE h.stage # "active"
    BY <1>2 DEF Host!Release, Host!Active
<1> QED
    BY <1>1, <1>2

LEMMA FailDrops ==
    ASSUME NEW h \in Hosts, h.stage = "active", ~h.disposed
    PROVE  Fails(h, Host!Fail(h)) /\ Fails(h, Host!Error(Host!Release(h)))
<1> DEFINE r == Host!Release(h)
           f == Host!Error(r)
<1>1. Releases(h, r) /\ r.disposed = h.disposed
    BY ReleaseDrops
<1>2. r \in Hosts /\ ~r.disposed
    BY <1>1 DEF Releases, Drops, Stays
<1>3. Host!Error(r) = Host!Emit(r, ErrorEvent)
    BY DEF Host!Error, ErrorEvent
<1> HIDE DEF r
<1>4. Stays(r, f, {"events"}) /\ f.events = Append(r.events, ErrorEvent)
    BY <1>2, <1>3, EmitAdds, EventsAreEvents
<1>5. Fails(h, f)
    BY <1>1, <1>4 DEF Fails, Releases, Drops, Stays
<1>6. Host!Fail(h) = f
    BY DEF Host!Fail, Host!Active, r
<1> QED
    BY <1>5, <1>6 DEF r

(* The outcome of an event: the fetch is released by the last one, and by   *)
(* the failure of a tracked one, of which the guest is told.               *)
Warns(h, f) == Stays(h, f, {"events"}) /\ h.stage # "active" /\ f.events = Append(h.events, ErrorEvent)

LEMMA SentDrops ==
    ASSUME NEW h \in Hosts, h.disposed => h.stage # "active", NEW o \in OutcomeTypes
    PROVE  LET f == Host!Sent(h, o.event, o.ok)
           IN  \/ ~o.ok /\ (Fails(h, f) \/ Warns(h, f) \/ (f = h /\ h.disposed))
               \/ o.ok /\ (Releases(h, f) \/ (f = h /\ h.stage # "active"))
<1> DEFINE f == Host!Sent(h, o.event, o.ok)
<1>1. CASE ~o.ok
  <2>1. f = Host!Error(Host!Release(h))
    BY <1>1 DEF Host!Sent, OutcomeTypes
  <2>2. CASE h.stage = "active"
    BY <1>1, <2>1, <2>2, FailDrops DEF Hosts
  <2>3. CASE h.stage # "active" /\ h.disposed
    BY <1>1, <2>1, <2>3, ReleaseDrops DEF Host!Error, Host!Emit
  <2>4. CASE h.stage # "active" /\ ~h.disposed
    <3>1. f = Host!Emit(h, ErrorEvent)
      BY <2>1, <2>4, ReleaseDrops DEF Host!Error, ErrorEvent
    <3>2. Stays(h, f, {"events"}) /\ f.events = Append(h.events, ErrorEvent)
      BY <2>4, <3>1, EmitAdds, EventsAreEvents
    <3> QED
      BY <1>1, <2>4, <3>2 DEF Warns
  <2> QED
    BY <2>2, <2>3, <2>4
<1>2. CASE o.ok
  <2>1. f = Host!Release(h)
    BY <1>2 DEF Host!Sent, OutcomeTypes
  <2> QED
    BY <1>2, <2>1, ReleaseDrops
<1> QED
    BY <1>1, <1>2

(* Disposal: the fetch is released, and nothing is emitted from here on.   *)
LEMMA DisposeDrops ==
    ASSUME NEW h \in Hosts
    PROVE  LET f == Host!Dispose(h)
           IN  f.disposed /\ (Releases(h, f) \/ (h.stage # "active" /\ Stays(h, f, {"disposed"})))
<1> DEFINE d == [h EXCEPT !.disposed = TRUE]
<1>1. Stays(h, d, {"disposed"}) /\ d.disposed
    BY DEF Stays, Hosts
<1>2. Host!Dispose(h) = Host!Release(d)
    BY DEF Host!Dispose
<1>3. d \in Hosts /\ d.stage = h.stage
    BY <1>1 DEF Stays
<1> HIDE DEF d
<1>4. CASE h.stage = "active"
  <2>1. Releases(d, Host!Release(d)) /\ Host!Release(d).disposed = d.disposed
    BY <1>3, <1>4, ReleaseDrops
  <2>2. Releases(h, Host!Release(d))
    BY <1>1, <2>1 DEF Releases, Drops, Stays
  <2> QED
    BY <1>1, <1>2, <2>1, <2>2
<1>5. CASE h.stage # "active"
    BY <1>1, <1>2, <1>3, <1>5, ReleaseDrops
<1> QED
    BY <1>4, <1>5

(* The network's steps.  Moves: it is not waiting to be started, nor was.   *)
Moves(h, f) == Stays(h, f, {"net"}) /\ f.net # "idle"
Tells(h, f) ==
    /\ Stays(h, f, {"net", "events"}) /\ f.net # "idle"
    /\ \E last \in BOOLEAN : f.events = Append(h.events, ResponseEvent(last))

LEMMA OverMoves ==
    ASSUME NEW h \in Hosts
    PROVE  Moves(h, Host!Over(h)) /\ Host!Over(h) \in Hosts
<1>1. Host!Over(h) \in Hosts /\ Host!Over(h).net = "over"
    BY DEF Host!Over, Hosts
<1> QED
    BY <1>1 DEF Host!Over, Moves, Stays, Hosts

LEMMA OverFails ==
    ASSUME NEW h \in Hosts, h.disposed => h.stage # "active"
    PROVE  LET f == Host!Fail(Host!Over(h))
           IN  IF h.stage = "active" THEN Fails(h, f) ELSE Moves(h, f)
<1> DEFINE o == Host!Over(h)
<1>1. o \in Hosts /\ Moves(h, o)
    BY OverMoves
<1> HIDE DEF o
<1>2. o.stage = h.stage /\ o.disposed = h.disposed
    BY <1>1 DEF Moves, Stays
<1>3. CASE h.stage = "active"
  <2>1. Fails(o, Host!Fail(o))
    BY <1>1, <1>2, <1>3, FailDrops DEF Hosts
  <2>2. Fails(h, Host!Fail(o))
    BY <1>1, <2>1 DEF Fails, Drops, Moves, Stays
  <2> QED
    BY <1>3, <2>2 DEF o
<1>4. CASE h.stage # "active"
  <2>1. Host!Fail(o) = o
    BY <1>2, <1>4 DEF Host!Fail, Host!Active
  <2> QED
    BY <1>1, <1>4, <2>1 DEF o
<1> QED
    BY <1>3, <1>4

LEMMA RedirectMoves ==
    ASSUME NEW h \in Hosts, h.stage = "active", ~h.disposed, h.net = "following", NEW toGet \in BOOLEAN
    PROVE  LET f == Host!Redirect(h, toGet) IN Fails(h, f) \/ Moves(h, f)
<1> DEFINE f == Host!Redirect(h, toGet)
           r == [h EXCEPT !.hops = @ + 1, !.body = IF toGet THEN "none" ELSE @]
<1>1. CASE h.hops >= MaxRedirects \/ (~toGet /\ h.body = "stream")
  <2>1. f = Host!Fail(Host!Over(h))
    BY <1>1 DEF Host!Redirect
  <2> QED
    BY <2>1, OverFails
<1>2. CASE ~(h.hops >= MaxRedirects \/ (~toGet /\ h.body = "stream"))
  <2>1. f = r
    BY <1>2 DEF Host!Redirect
  <2>2. h.hops + 1 \in Nat
    BY DEF Hosts
  <2>3. r \in Hosts
    BY <2>2 DEF Hosts
  <2>4. Moves(h, r)
    BY <2>3 DEF Moves, Stays, Hosts
  <2> QED
    BY <2>1, <2>4
<1> QED
    BY <1>1, <1>2

LEMMA SendResponseTells ==
    ASSUME NEW h \in Hosts, h.disposed => h.stage # "active", NEW hasBody \in BOOLEAN
    PROVE  LET f == Host!SendResponse(h, hasBody) IN Moves(h, f) \/ Tells(h, f)
<1> DEFINE f == Host!SendResponse(h, hasBody)
           o == Host!Over(h)
           r == [o EXCEPT !.reader = hasBody]
<1>1. o \in Hosts /\ Moves(h, o)
    BY OverMoves
<1>2. CASE h.stage # "active"
    BY <1>1, <1>2 DEF Host!SendResponse, Host!Active
<1>3. CASE h.stage = "active"
  <2>1. f = Host!Emit(r, ResponseEvent(~hasBody))
    BY <1>3 DEF Host!SendResponse, Host!Active, ResponseEvent
  <2> HIDE DEF o
  <2>2. r \in Hosts
    BY <1>1 DEF Hosts
  <2>3. Moves(h, r)
    BY <1>1, <2>2 DEF Moves, Stays, Hosts
  <2> HIDE DEF r, f
  <2>4. ~r.disposed /\ ResponseEvent(~hasBody) \in EventTypes
    BY <1>3, <2>3, EventsAreEvents DEF Moves, Stays, Hosts
  <2>5. Stays(r, f, {"events"}) /\ f.events = Append(r.events, ResponseEvent(~hasBody))
    BY <2>1, <2>2, <2>4, EmitAdds
  <2>6. Tells(h, f)
    BY <2>3, <2>5 DEF Tells, Moves, Stays
  <2> QED
    BY <2>6 DEF f
<1> QED
    BY <1>2, <1>3

LEMMA RespondTells ==
    ASSUME NEW h \in Hosts, h.disposed => h.stage # "active", NEW hasBody \in BOOLEAN, NEW integrity \in BOOLEAN
    PROVE  LET f == Host!Respond(h, hasBody, integrity) IN Moves(h, f) \/ Tells(h, f)
<1> DEFINE f == Host!Respond(h, hasBody, integrity)
           o == Host!Over(h)
           r == [o EXCEPT !.net = "verifying", !.reader = hasBody]
<1>1. CASE Host!Active(h) /\ integrity
  <2>1. f = r
    BY <1>1 DEF Host!Respond
  <2>2. o \in Hosts /\ Moves(h, o)
    BY OverMoves
  <2> HIDE DEF o
  <2>3. r \in Hosts /\ r.net # "idle"
    BY <2>2 DEF Hosts
  <2>4. Moves(h, r)
    BY <2>2, <2>3 DEF Moves, Stays, Hosts
  <2> QED
    BY <2>1, <2>4
<1>2. CASE ~(Host!Active(h) /\ integrity)
    BY <1>2, SendResponseTells DEF Host!Respond
<1> QED
    BY <1>1, <1>2

(* The stream that takes the upload.                                       *)
Asks(h, f) == Stays(h, f, {"wait", "events"}) /\ f.events = Append(h.events, PullEvent)

LEMMA UploadPulledAsks ==
    ASSUME NEW h \in Hosts, ~h.disposed
    PROVE  Asks(h, Host!UploadPulled(h))
<1> DEFINE p == [h EXCEPT !.wait = TRUE]
           f == Host!UploadPulled(h)
<1>1. Stays(h, p, {"wait"})
    BY DEF Stays, Hosts
<1>2. f = Host!Emit(p, PullEvent)
    BY DEF Host!UploadPulled, Host!Pull, PullEvent
<1> HIDE DEF p, f
<1>3. p \in Hosts /\ ~p.disposed
    BY <1>1 DEF Stays
<1>4. Stays(p, f, {"events"}) /\ f.events = Append(p.events, PullEvent)
    BY <1>2, <1>3, EmitAdds, EventsAreEvents
<1>5. Asks(h, f)
    BY <1>1, <1>4 DEF Asks, Stays
<1> QED
    BY <1>5 DEF f

LEMMA UploadCancelledStops ==
    ASSUME NEW h \in Hosts, ~h.disposed
    PROVE  LET f == Host!UploadCancelled(h)
           IN  Stays(h, f, {"upload", "events"}) /\ f.upload = "cancelled" /\ f.events = Append(h.events, CancelEvent)
<1> DEFINE p == [h EXCEPT !.upload = "cancelled"]
           f == Host!UploadCancelled(h)
<1>1. Stays(h, p, {"upload"}) /\ p.upload = "cancelled"
    BY DEF Stays, Hosts
<1>2. f = Host!Emit(p, CancelEvent)
    BY DEF Host!UploadCancelled, CancelEvent
<1> HIDE DEF p, f
<1>3. p \in Hosts /\ ~p.disposed
    BY <1>1 DEF Stays
<1>4. Stays(p, f, {"events"}) /\ f.events = Append(p.events, CancelEvent)
    BY <1>2, <1>3, EmitAdds, EventsAreEvents
<1>5. Stays(h, f, {"upload", "events"}) /\ f.upload = "cancelled" /\ f.events = Append(h.events, CancelEvent)
    BY <1>1, <1>4 DEF Stays
<1> QED
    BY <1>5 DEF f

(* A chunk for the guest's read, or the end of the body.                   *)
Gives(h, f) ==
    /\ Stays(h, f, {"reading", "position", "remainder", "events"}) /\ ~f.reading
    /\ f.events = Append(h.events, ChunkEvent(f.position - f.remainder, FALSE))

LEMMA SendChunkGives ==
    ASSUME NEW h \in Hosts, ~h.disposed, NEW size \in Nat \ {0}, size <= h.position
    PROVE  LET f == Host!SendChunk(h, size)
           IN  Gives(h, f) /\ f.position = h.position /\ f.remainder = size - 1
<1> DEFINE p == [h EXCEPT !.reading = FALSE, !.remainder = Host!Rest(size)]
           f == Host!SendChunk(h, size)
           n == h.position - size + 1
<1>1. size - 1 \in Nat /\ Host!Rest(size) = size - 1
    BY DEF Host!Rest
<1>2. p \in Hosts /\ p.remainder = size - 1 /\ ~p.reading
    BY <1>1 DEF Hosts
<1>3. Stays(h, p, {"reading", "remainder"})
    BY <1>2 DEF Stays, Hosts
<1>4. f = Host!Emit(p, ChunkEvent(n, FALSE))
    BY DEF Host!SendChunk, ChunkEvent
<1> HIDE DEF p, f
<1>5. n \in Nat /\ h.position \in Nat /\ n = h.position - (size - 1)
    BY DEF Hosts
<1>6. ~p.disposed /\ ChunkEvent(n, FALSE) \in EventTypes
    BY <1>3, <1>5, EventsAreEvents DEF Stays
<1> HIDE DEF n
<1>7. Stays(p, f, {"events"}) /\ f.events = Append(p.events, ChunkEvent(n, FALSE))
    BY <1>2, <1>4, <1>6, EmitAdds
<1>8. f.position = h.position /\ f.remainder = size - 1 /\ ~f.reading /\ f \in Hosts
    BY <1>2, <1>3, <1>7 DEF Stays
<1>9. n = f.position - f.remainder
    BY <1>5, <1>8
<1>10. Gives(h, f)
    BY <1>3, <1>7, <1>8, <1>9 DEF Gives, Stays
<1> QED
    BY <1>8, <1>10 DEF f

LEMMA ReadItemGives ==
    ASSUME NEW h \in Hosts, h.disposed => h.stage # "active", ~h.ended, NEW size \in Nat \ {0}
    PROVE  LET f == Host!ReadItem(h, size)
           IN  \/ h.stage # "active" /\ Stays(h, f, {"reading"}) /\ ~f.reading
               \/ Fails(h, f)
               \/ h.stage = "active" /\ Gives(h, f) /\ f.position = h.position + size /\ f.remainder = size - 1
                  /\ f.position <= MaxBody
<1> DEFINE f == Host!ReadItem(h, size)
           q == [h EXCEPT !.reading = FALSE]
           s == [h EXCEPT !.position = @ + size]
<1>1. h.position + size \in Nat /\ h.position \in Nat
    BY DEF Hosts
<1>2. Stays(h, q, {"reading"}) /\ ~q.reading
    BY DEF Stays, Hosts
<1>3. s \in Hosts
    BY <1>1 DEF Hosts
<1>4. Stays(h, s, {"position"}) /\ s.position = h.position + size
    BY <1>3 DEF Stays, Hosts
<1>5. f = IF h.stage # "active" THEN q
          ELSE IF s.position > MaxBody THEN Host!Fail(q) ELSE Host!SendChunk(s, size)
    BY DEF Host!ReadItem, Host!Active
<1> HIDE DEF q, s, f
<1>6. CASE h.stage # "active"
    BY <1>2, <1>5, <1>6 DEF f
<1>7. CASE h.stage = "active" /\ s.position > MaxBody
  <2>1. f = Host!Fail(q)
    BY <1>5, <1>7
  <2>2. q \in Hosts /\ q.stage = "active" /\ ~q.disposed
    BY <1>2, <1>7 DEF Stays, Hosts
  <2>3. Fails(q, f)
    BY <2>1, <2>2, FailDrops
  <2>4. Fails(h, f)
    BY <1>2, <2>3 DEF Fails, Drops, Stays
  <2> QED
    BY <2>4 DEF f
<1>8. CASE h.stage = "active" /\ ~(s.position > MaxBody)
  <2>1. f = Host!SendChunk(s, size)
    BY <1>5, <1>8
  <2>2. ~s.disposed /\ size <= s.position
    BY <1>1, <1>4, <1>8 DEF Stays, Hosts
  <2>3. Gives(s, f) /\ f.position = s.position /\ f.remainder = size - 1
    BY <1>3, <2>1, <2>2, SendChunkGives
  <2>4. Gives(h, f)
    BY <1>4, <2>3 DEF Gives, Stays
  <2>5. f.position <= MaxBody
    BY <1>1, <1>4, <1>8, <2>3, FetchAssumption DEF FetchAssumption
  <2> QED
    BY <1>4, <1>8, <2>3, <2>4, <2>5 DEF f
<1> QED
    BY <1>6, <1>7, <1>8

LEMMA ReadEndsGives ==
    ASSUME NEW h \in Hosts, h.disposed => h.stage # "active"
    PROVE  LET f == Host!ReadEnds(h)
           IN  \/ h.stage # "active" /\ Stays(h, f, {"reading"}) /\ ~f.reading
               \/ h.stage = "active" /\ Stays(h, f, {"ended", "events"}) /\ f.ended
                  /\ f.events = Append(h.events, ChunkEvent(0, TRUE))
<1> DEFINE f == Host!ReadEnds(h)
           q == [h EXCEPT !.reading = FALSE]
           s == [h EXCEPT !.ended = TRUE]
<1>1. Stays(h, q, {"reading"}) /\ ~q.reading
    BY DEF Stays, Hosts
<1>2. Stays(h, s, {"ended"}) /\ s.ended
    BY DEF Stays, Hosts
<1>3. f = IF h.stage # "active" THEN q ELSE Host!Emit(s, ChunkEvent(0, TRUE))
    BY DEF Host!ReadEnds, Host!Active, ChunkEvent
<1> HIDE DEF q, s, f
<1>4. CASE h.stage # "active"
    BY <1>1, <1>3, <1>4 DEF f
<1>5. CASE h.stage = "active"
  <2>1. s \in Hosts /\ ~s.disposed
    BY <1>2, <1>5 DEF Stays, Hosts
  <2>2. ChunkEvent(0, TRUE) \in EventTypes
    BY EventsAreEvents
  <2>3. Stays(s, f, {"events"}) /\ f.events = Append(s.events, ChunkEvent(0, TRUE))
    BY <1>3, <1>5, <2>1, <2>2, EmitAdds
  <2>4. Stays(h, f, {"ended", "events"}) /\ f.ended /\ f.events = Append(h.events, ChunkEvent(0, TRUE))
    BY <1>2, <2>3 DEF Stays
  <2> QED
    BY <1>5, <2>4 DEF f
<1> QED
    BY <1>4, <1>5

LEMMA ReadFailsDrops ==
    ASSUME NEW h \in Hosts, h.disposed => h.stage # "active", ~h.ended
    PROVE  LET f == Host!ReadFails(h)
           IN  Fails(h, f) \/ (h.stage # "active" /\ Stays(h, f, {"reading"}) /\ ~f.reading)
<1> DEFINE f == Host!ReadFails(h)
           q == [h EXCEPT !.reading = FALSE]
<1>1. Stays(h, q, {"reading"}) /\ ~q.reading
    BY DEF Stays, Hosts
<1>2. f = Host!Fail(q)
    BY DEF Host!ReadFails
<1> HIDE DEF q, f
<1>3. q \in Hosts /\ q.stage = h.stage /\ q.disposed = h.disposed
    BY <1>1 DEF Stays
<1>4. CASE h.stage = "active"
  <2>1. Fails(q, f)
    BY <1>2, <1>3, <1>4, FailDrops DEF Hosts
  <2>2. Fails(h, f)
    BY <1>1, <2>1 DEF Fails, Drops, Stays
  <2> QED
    BY <2>2 DEF f
<1>5. CASE h.stage # "active"
  <2>1. f = q
    BY <1>2, <1>3, <1>5 DEF Host!Fail, Host!Active
  <2> QED
    BY <1>1, <1>5, <2>1 DEF f
<1> QED
    BY <1>4, <1>5

(* The handlers of the guest's calls, and whether they throw.              *)
Started(h, f, m) ==
    /\ Stays(h, f, {"stage", "mode", "net", "upload", "events"}) /\ f.stage = "active" /\ f.mode = m
    /\ \/ m = "none" /\ f.net = "following" /\ f.upload = h.upload /\ f.events = h.events
       \/ m = "replayable" /\ f.net = h.net /\ f.upload = h.upload /\ f.events = Append(h.events, PullEvent)
       \/ m = "stream" /\ f.net = "following" /\ f.upload = "open" /\ f.events = h.events

LEMMA StartStarts ==
    ASSUME NEW h \in Hosts, ~h.disposed, NEW m \in Modes
    PROVE  Started(h, Host!Start(h, m), m)
<1> DEFINE s == [h EXCEPT !.stage = "active", !.mode = m]
           f == Host!Start(h, m)
<1>1. Stays(h, s, {"stage", "mode"}) /\ s.stage = "active" /\ s.mode = m
    BY DEF Stays, Hosts
<1>2. f = CASE m = "none" -> Host!StartNetwork(s, "none")
            [] m = "replayable" -> Host!Pull(s)
            [] m = "stream" -> Host!StartNetwork([s EXCEPT !.upload = "open"], "stream")
    BY DEF Host!Start
<1> HIDE DEF s, f
<1>3. s \in Hosts /\ ~s.disposed
    BY <1>1 DEF Stays
<1>4. CASE m = "none"
  <2> DEFINE n == [s EXCEPT !.net = "following", !.body = "none"]
  <2>1. f = n
    BY <1>2, <1>4 DEF Host!StartNetwork
  <2>2. Stays(s, n, {"net"}) /\ n.net = "following"
    BY <1>3 DEF Stays, Hosts
  <2> HIDE DEF n
  <2>3. Started(h, f, m)
    BY <1>1, <1>4, <2>1, <2>2 DEF Started, Stays
  <2> QED
    BY <2>3 DEF f
<1>5. CASE m = "replayable"
  <2>1. f = Host!Emit(s, PullEvent)
    BY <1>2, <1>5 DEF Host!Pull, PullEvent
  <2>2. Stays(s, f, {"events"}) /\ f.events = Append(s.events, PullEvent)
    BY <1>3, <2>1, EmitAdds, EventsAreEvents
  <2>3. Started(h, f, m)
    BY <1>1, <1>5, <2>2 DEF Started, Stays
  <2> QED
    BY <2>3 DEF f
<1>6. CASE m = "stream"
  <2> DEFINE o == [s EXCEPT !.upload = "open"]
             n == [o EXCEPT !.net = "following", !.body = "stream"]
  <2>1. f = n
    BY <1>2, <1>6 DEF Host!StartNetwork
  <2>2. o \in Hosts /\ Stays(s, o, {"upload"}) /\ o.upload = "open"
    BY <1>3 DEF Stays, Hosts
  <2> HIDE DEF o
  <2>3. Stays(o, n, {"net"}) /\ n.net = "following"
    BY <2>2 DEF Stays, Hosts
  <2> HIDE DEF n
  <2>4. Started(h, f, m)
    BY <1>1, <1>6, <2>1, <2>2, <2>3 DEF Started, Stays
  <2> QED
    BY <2>4 DEF f
<1> QED
    BY <1>4, <1>5, <1>6 DEF Modes

(* Takes in the chunk, or the end, of the request's body.                  *)
Ends(h, f) ==
    /\ Stays(h, f, {"whole", "wait", "net", "upload"}) /\ f.whole /\ ~f.wait
    /\ \/ h.mode = "replayable" /\ f.net = "following" /\ f.upload = h.upload
       \/ h.mode # "replayable" /\ h.upload = "open" /\ f.upload = "closed" /\ f.net = h.net

TakesIn(h, f, chunk) ==
    /\ Stays(h, f, {"uploaded", "wait", "events"}) /\ ~f.wait
    /\ f.uploaded = Append(h.uploaded, chunk) /\ Len(f.uploaded) <= MaxBody
    /\ \/ h.mode = "replayable" /\ f.events = Append(h.events, PullEvent)
       \/ h.mode # "replayable" /\ h.upload = "open" /\ f.events = h.events

LEMMA UploadEndsEnds ==
    ASSUME NEW h \in Hosts
    PROVE  \/ Host!UploadEnds(h).ok /\ Ends(h, Host!UploadEnds(h).host)
           \/ Host!UploadEnds(h) = [host |-> h, ok |-> FALSE] /\ h.mode # "replayable" /\ h.upload # "open"
<1> DEFINE s == [h EXCEPT !.whole = TRUE, !.wait = FALSE]
           n == [s EXCEPT !.net = "following", !.body = "bytes"]
           c == [s EXCEPT !.upload = "closed"]
<1>1. s \in Hosts /\ Stays(h, s, {"whole", "wait"}) /\ s.whole /\ ~s.wait
    BY DEF Stays, Hosts
<1>2. CASE h.mode = "replayable"
  <2>1. Host!UploadEnds(h).ok /\ Host!UploadEnds(h).host = n
    BY <1>2 DEF Host!UploadEnds, Host!Answer, Host!StartNetwork
  <2> HIDE DEF s
  <2>2. n \in Hosts /\ Stays(s, n, {"net"}) /\ n.net = "following"
    <3>1. n \in Hosts /\ n.net = "following"
      BY <1>1 DEF Hosts
    <3>2. /\ n.stage = s.stage /\ n.mode = s.mode /\ n.upload = s.upload /\ n.wait = s.wait
          /\ n.uploaded = s.uploaded /\ n.whole = s.whole /\ n.reading = s.reading
      BY <1>1 DEF Hosts
    <3>3. /\ n.position = s.position /\ n.remainder = s.remainder /\ n.ended = s.ended
          /\ n.events = s.events /\ n.disposed = s.disposed
      BY <1>1 DEF Hosts
    <3> HIDE DEF n
    <3> QED
      BY <3>1, <3>2, <3>3 DEF Stays
  <2> HIDE DEF n
  <2>3. Ends(h, n)
    BY <1>1, <1>2, <2>2 DEF Ends, Stays
  <2> QED
    BY <2>1, <2>3
<1>3. CASE h.mode # "replayable" /\ h.upload # "open"
    BY <1>3 DEF Host!UploadEnds, Host!Throw
<1>4. CASE h.mode # "replayable" /\ h.upload = "open"
  <2>1. Host!UploadEnds(h).ok /\ Host!UploadEnds(h).host = c
    BY <1>4 DEF Host!UploadEnds, Host!Answer
  <2> HIDE DEF s
  <2>2. Stays(s, c, {"upload"}) /\ c.upload = "closed"
    BY <1>1 DEF Stays, Hosts
  <2> HIDE DEF c
  <2>3. Ends(h, c)
    BY <1>1, <1>4, <2>2 DEF Ends, Stays
  <2> QED
    BY <2>1, <2>3
<1> QED
    BY <1>2, <1>3, <1>4

LEMMA UploadChunkTakes ==
    ASSUME NEW h \in Hosts, h.stage = "active", ~h.disposed, NEW chunk \in Nat
    PROVE  LET a == Host!UploadChunk(h, chunk)
           IN  \/ a.ok /\ (TakesIn(h, a.host, chunk) \/ Fails(h, a.host))
               \/ a = [host |-> h, ok |-> FALSE] /\ h.mode # "replayable" /\ h.upload # "open"
<1> DEFINE a == Host!UploadChunk(h, chunk)
           s == [h EXCEPT !.uploaded = Append(@, chunk), !.wait = FALSE]
<1>1. h.uploaded \in Seq(Nat) /\ Append(h.uploaded, chunk) \in Seq(Nat)
    BY AppendProperties DEF Hosts
<1>2. s \in Hosts /\ Stays(h, s, {"uploaded", "wait"}) /\ ~s.wait /\ s.uploaded = Append(h.uploaded, chunk)
    BY <1>1 DEF Stays, Hosts
<1>3. a = IF Len(s.uploaded) > MaxBody THEN Host!Answer(Host!Fail(h))
          ELSE IF h.mode = "replayable" THEN Host!Answer(Host!Pull(s))
          ELSE IF h.upload # "open" THEN Host!Throw(h)
          ELSE Host!Answer(s)
    BY DEF Host!UploadChunk
<1>4. Len(s.uploaded) \in Nat
    BY <1>1, <1>2
<1> HIDE DEF s, a
<1>5. CASE Len(s.uploaded) > MaxBody
    BY <1>3, <1>5, FailDrops DEF Host!Answer, a
<1>6. CASE ~(Len(s.uploaded) > MaxBody) /\ h.mode = "replayable"
  <2>1. a.ok /\ a.host = Host!Emit(s, PullEvent)
    BY <1>3, <1>6 DEF Host!Answer, Host!Pull, PullEvent
  <2>2. ~s.disposed /\ Len(s.uploaded) <= MaxBody
    BY <1>2, <1>4, <1>6, FetchAssumption DEF Stays, FetchAssumption
  <2>3. Stays(s, a.host, {"events"}) /\ a.host.events = Append(s.events, PullEvent)
    BY <1>2, <2>1, <2>2, EmitAdds, EventsAreEvents
  <2>4. TakesIn(h, a.host, chunk)
    BY <1>2, <1>6, <2>2, <2>3 DEF TakesIn, Stays
  <2> QED
    BY <2>1, <2>4 DEF a
<1>7. CASE ~(Len(s.uploaded) > MaxBody) /\ h.mode # "replayable" /\ h.upload # "open"
    BY <1>3, <1>7 DEF Host!Throw, a
<1>8. CASE ~(Len(s.uploaded) > MaxBody) /\ h.mode # "replayable" /\ h.upload = "open"
  <2>1. a.ok /\ a.host = s
    BY <1>3, <1>8 DEF Host!Answer
  <2>2. Len(s.uploaded) <= MaxBody
    BY <1>4, <1>8, FetchAssumption DEF FetchAssumption
  <2>3. TakesIn(h, s, chunk)
    BY <1>2, <1>8, <2>2 DEF TakesIn, Stays
  <2> QED
    BY <2>1, <2>3 DEF a
<1> QED
    BY <1>5, <1>6, <1>7, <1>8

(* A read is refused, answered with what is left, or left to the network.   *)
LEMMA ReadGives ==
    ASSUME NEW h \in Hosts, h.disposed => h.stage # "active", h.remainder <= h.position
    PROVE  LET a == Host!Read(h)
           IN  \/ a = [host |-> h, ok |-> FALSE]
               \/ a.ok /\ h.stage = "active" /\ ~h.reading /\ h.remainder > 0
                  /\ Gives(h, a.host) /\ a.host.position = h.position /\ a.host.remainder = h.remainder - 1
               \/ a.ok /\ h.stage = "active" /\ ~h.reading /\ h.remainder = 0
                  /\ Stays(h, a.host, {"reading"}) /\ a.host.reading
<1> DEFINE a == Host!Read(h)
           r == [h EXCEPT !.reading = TRUE]
<1>1. CASE h.stage # "active" \/ h.reading \/ ~h.reader
    BY <1>1 DEF Host!Read, Host!Active, Host!Throw
<1>2. CASE ~(h.stage # "active" \/ h.reading \/ ~h.reader) /\ h.remainder > 0
  <2>1. a.ok /\ a.host = Host!SendChunk(h, h.remainder)
    BY <1>2 DEF Host!Read, Host!Active, Host!Answer
  <2>2. h.remainder \in Nat \ {0} /\ ~h.disposed
    BY <1>2 DEF Hosts
  <2> HIDE DEF a
  <2>3. Gives(h, a.host) /\ a.host.position = h.position /\ a.host.remainder = h.remainder - 1
    BY <2>1, <2>2, SendChunkGives
  <2> QED
    BY <1>2, <2>1, <2>3 DEF a
<1>3. CASE ~(h.stage # "active" \/ h.reading \/ ~h.reader) /\ ~(h.remainder > 0)
  <2>1. a.ok /\ a.host = r
    BY <1>3 DEF Host!Read, Host!Active, Host!Answer
  <2>2. Stays(h, r, {"reading"}) /\ r.reading
    BY DEF Stays, Hosts
  <2>3. h.remainder = 0
    BY <1>3 DEF Hosts
  <2> HIDE DEF a, r
  <2> QED
    BY <1>3, <2>1, <2>2, <2>3 DEF a
<1> QED
    BY <1>1, <1>2, <1>3
-----------------------------------------------------------------------------
IInv ==
    /\ FetchTyped /\ Starts /\ Messages /\ Freed
    /\ OneUpload /\ Exhausts /\ Uploaded
    /\ OneRead /\ Received
    /\ Cancels /\ DemandsKept

(* The body of the request stays as it is.                                 *)
SameUpload(h, f) ==
    /\ f.uploaded = h.uploaded /\ f.whole = h.whole /\ f.upload = h.upload
    /\ f.stage = h.stage /\ f.mode = h.mode

LEMMA UploadedKept ==
    ASSUME Uploaded, SameUpload(host, host'),
           guest'.produced = guest.produced, guest'.exhausted = guest.exhausted,
           Calls("upload")' => Calls("upload"), Chunking' <=> Chunking
    PROVE  Uploaded'
    BY DEF Uploaded, SameUpload, Takes, Host!Active

LEMMA InitIInv == Init => IInv
<1> SUFFICES ASSUME Init PROVE IInv
    OBVIOUS
<1> DEFINE start == [op |-> "start", chunk |-> 0, done |-> FALSE]
<1>1. /\ guest.calls = <<start>> /\ start \in CallTypes /\ start.op = "start"
      /\ answers = <<>> /\ outcomes = <<>> /\ host.events = <<>>
    BY DEF Init, Guest!Entry, Host!NoFetch, CallTypes
<1>2. /\ guest \in Guests /\ host \in Hosts
    BY <1>1 DEF Init, Guest!Entry, Host!NoFetch, Guests, Hosts, Modes, CallTypes
<1>3. DOMAIN guest.calls = {1} /\ guest.calls[1].op = "start"
    BY <1>1
<1>4. DOMAIN answers = {} /\ DOMAIN outcomes = {} /\ DOMAIN host.events = {}
    BY <1>1
<1>5. FetchTyped
  <2>1. answers \in Seq(AnswerTypes) /\ outcomes \in Seq(OutcomeTypes)
    BY <1>1
  <2>2. lost \in Nat /\ newsLost \in BOOLEAN /\ mode \in Modes
    BY DEF Init
  <2> QED
    BY <1>2, <2>1, <2>2 DEF FetchTyped
<1>6. /\ \A op : Calls(op) <=> op = "start"
      /\ \A op : OneCall(op)
      /\ StartIsFirst /\ ~Chunking /\ ~Finishing /\ ChunksProduced
    BY <1>3 DEF Calls, OneCall, StartIsFirst, Chunking, Finishing, ChunksProduced
<1>7. /\ \A op : ~Answering(op) /\ OneAnswer(op)
      /\ \A type : ~InFlight(type) /\ OneEvent(type)
      /\ ~Failing /\ ~Succeeding /\ ChunksArrive
    BY <1>4 DEF Answering, OneAnswer, InFlight, OneEvent, Failing, Succeeding, ChunksArrive
<1>8. /\ guest.live /\ guest.pump = "idle" /\ guest.produced = 0 /\ ~guest.exhausted /\ ~guest.uploadCancelled
      /\ guest.stream = "none" /\ ~guest.pull /\ guest.received = <<>> /\ guest.upload \in BOOLEAN
    BY <1>2 DEF Init, Guest!Entry, Guests
<1>9. /\ host.stage = "absent" /\ host.mode = "none" /\ host.net = "idle" /\ host.upload = "none" /\ ~host.wait
      /\ host.uploaded = <<>> /\ ~host.whole /\ ~host.reading /\ ~host.ended
      /\ host.position = 0 /\ host.remainder = 0 /\ ~host.disposed
    BY DEF Init, Host!NoFetch
<1>10. Numbered(host.uploaded) /\ Len(host.uploaded) = 0 /\ Numbered(guest.received) /\ Len(guest.received) = 0
    BY <1>8, <1>9 DEF Numbered
<1>11. Starts /\ Messages /\ Freed
    BY <1>1, <1>6, <1>7, <1>8, <1>9 DEF Starts, Messages, Freed, Host!Active
<1>12. OneUpload /\ Exhausts
    BY <1>6, <1>7, <1>8 DEF OneUpload, Exhausts
<1>13. Uploaded
    BY <1>6, <1>8, <1>9, <1>10, FetchAssumption DEF Uploaded, Takes, Host!Active, FetchAssumption
<1>14. OneRead /\ Received
    BY <1>6, <1>7, <1>8, <1>9, <1>10, FetchAssumption DEF OneRead, Received, FetchAssumption
<1>15. Cancels /\ DemandsKept
    BY <1>6, <1>7, <1>8, <1>9 DEF Cancels, DemandsKept, Wanted, Host!Active
<1> QED
    BY <1>5, <1>11, <1>12, <1>13, <1>14, <1>15 DEF IInv
-----------------------------------------------------------------------------
(* The guest's steps.  It gives up, on its own or on an answer or event.    *)

LEMMA GivingUp ==
    ASSUME IInv,
           GivesUp(guest, guest'),
           guest'.pump \in {guest.pump, "idle"},
           guest'.pump = "calling" <=> Calls("upload") \/ Answering("upload")',
           answers' \in Seq(AnswerTypes), \A op : OneAnswer(op) => OneAnswer(op)', \A op : Answering(op)' => Answering(op),
           Stays(host, host', {"events"}), \A type : InFlight(type)' => InFlight(type),
           host.stage = "absent" => host'.events = <<>> /\ outcomes' = <<>>,
           outcomes' \in Seq(OutcomeTypes), outcomes # <<>> => outcomes' # <<>>,
           UNCHANGED mode, lost' \in Nat, newsLost' \in BOOLEAN
    PROVE  IInv'
<1>1. /\ \A op : Calls(op)' => Calls(op) \/ op = "cancel"
      /\ \A op : Calls(op) => Calls(op)'
      /\ Calls("cancel")' \/ (~guest.live /\ (Calls("cancel") <=> Calls("cancel")'))
      /\ OneCall("upload") => OneCall("upload")'
      /\ StartIsFirst => StartIsFirst'
      /\ (Chunking' <=> Chunking) /\ (Finishing' <=> Finishing)
      /\ ChunksProduced => ChunksProduced'
  <2>1. CASE guest'.calls = Append(guest.calls, Cancellation)
      BY <2>1, CallAdded, CancellationIsCall DEF IInv, GivesUp
  <2>2. CASE ~guest.live /\ guest'.calls = guest.calls
      BY <2>2, CallsKept DEF GivesUp
  <2> QED
      BY <2>1, <2>2 DEF GivesUp
<1>2. guest \in Guests /\ host \in Hosts
    BY DEF IInv, FetchTyped
<1>3. /\ guest' \in Guests /\ ~guest'.live
      /\ guest'.upload => guest.upload /\ ~guest.live
      /\ guest'.produced = guest.produced /\ guest'.exhausted = guest.exhausted /\ guest'.received = guest.received
      /\ guest'.stream \in {guest.stream, "errored", "cancelled"}
      /\ guest'.pull => guest.pull
    BY DEF GivesUp
<1>4. /\ host' \in Hosts /\ host'.stage = host.stage /\ host'.mode = host.mode /\ host'.net = host.net
      /\ host'.upload = host.upload /\ host'.wait = host.wait /\ host'.uploaded = host.uploaded
      /\ host'.whole = host.whole /\ host'.reading = host.reading /\ host'.position = host.position
      /\ host'.remainder = host.remainder /\ host'.ended = host.ended /\ host'.disposed = host.disposed
    BY DEF Stays
<1>5. FetchTyped'
    BY <1>1, <1>2, <1>3, <1>4 DEF IInv, FetchTyped
<1>6. Starts'
    BY <1>1, <1>2, <1>3, <1>4 DEF IInv, Starts
<1>7. Messages'
    BY <1>1, <1>2, <1>3, <1>4 DEF IInv, Messages, Host!Active
<1>8. Freed'
    BY <1>1, <1>2, <1>3, <1>4 DEF IInv, Freed, Host!Active
<1>9. OneUpload'
    BY <1>1, <1>2, <1>3, <1>4 DEF IInv, OneUpload
<1>10. Exhausts'
    BY <1>1, <1>2, <1>3, <1>4 DEF IInv, Exhausts
<1>11. Uploaded'
    BY <1>1, <1>2, <1>3, <1>4 DEF IInv, Uploaded, Takes, Host!Active
<1>12. OneRead'
    BY <1>1, <1>2, <1>3, <1>4 DEF IInv, OneRead
<1>13. Received'
    BY <1>1, <1>2, <1>3, <1>4 DEF IInv, Received
<1>14. Cancels'
    BY <1>1, <1>2, <1>3, <1>4 DEF IInv, Cancels, Host!Active
<1>15. DemandsKept'
    BY <1>1, <1>2, <1>3, <1>4 DEF IInv, DemandsKept, Wanted, Host!Active
<1> QED
    BY <1>5, <1>6, <1>7, <1>8, <1>9, <1>10, <1>11, <1>12, <1>13, <1>14, <1>15 DEF IInv

(* The body gives its next chunk, or its end, to the pump, ...              *)
LEMMA PumpStops ==
    ASSUME IInv,
           guest.pump = "reading",
           Same(guest, guest', {"pump"}), guest'.pump = "idle", ~guest.live \/ guest.uploadCancelled,
           answers' = answers,
           UNCHANGED <<mode, host, outcomes, lost, newsLost>>
    PROVE  IInv'
<1>1. guest \in Guests /\ host \in Hosts
    BY DEF IInv, FetchTyped
<1>2. /\ mode' = mode /\ host' = host /\ outcomes' = outcomes /\ lost' = lost /\ newsLost' = newsLost
      /\ \A type : InFlight(type)' <=> InFlight(type)
      /\ \A type : OneEvent(type)' <=> OneEvent(type)
      /\ (Failing' <=> Failing) /\ (Succeeding' <=> Succeeding)
      /\ guest'.received = guest.received => (ChunksArrive' <=> ChunksArrive)
    BY EventsKept, OutcomesKept DEF Arrives
<1>3. /\ \A op : Calls(op)' <=> Calls(op)
      /\ \A op : OneCall(op)' <=> OneCall(op)
      /\ (StartIsFirst' <=> StartIsFirst) /\ (Chunking' <=> Chunking) /\ (Finishing' <=> Finishing)
      /\ ChunksProduced => ChunksProduced'
    BY CallsKept DEF Same
<1>4. /\ answers' \in Seq(AnswerTypes)
      /\ \A op : Answering(op)' <=> Answering(op)
      /\ \A op : OneAnswer(op)' <=> OneAnswer(op)
    BY AnswersKept DEF IInv, FetchTyped
<1>5. FetchTyped'
    BY <1>1, <1>2, <1>3, <1>4 DEF IInv, FetchTyped, Same
<1>6. Starts'
    BY <1>1, <1>2, <1>3, <1>4 DEF IInv, Starts, Same
<1>7. Messages'
    BY <1>1, <1>2, <1>3, <1>4 DEF IInv, Messages, Same, Host!Active
<1>8. Freed'
    BY <1>1, <1>2, <1>3, <1>4 DEF IInv, Freed, Same, Host!Active
<1>9. OneUpload'
    BY <1>1, <1>2, <1>3, <1>4 DEF IInv, OneUpload, Same
<1>10. Exhausts'
    BY <1>1, <1>2, <1>3, <1>4 DEF IInv, Exhausts, Same
<1>11. Uploaded'
    BY <1>1, <1>2, <1>3, <1>4 DEF IInv, Uploaded, Takes, Same, Host!Active
<1>12. OneRead'
    BY <1>1, <1>2, <1>3, <1>4 DEF IInv, OneRead, Same
<1>13. Received'
    BY <1>1, <1>2, <1>3, <1>4 DEF IInv, Received, Same
<1>14. Cancels'
    BY <1>1, <1>2, <1>3, <1>4 DEF IInv, Cancels, Same, Host!Active
<1>15. DemandsKept'
    BY <1>1, <1>2, <1>3, <1>4 DEF IInv, DemandsKept, Wanted, Cancels, Same, Host!Active
<1> QED
    BY <1>5, <1>6, <1>7, <1>8, <1>9, <1>10, <1>11, <1>12, <1>13, <1>14, <1>15 DEF IInv

LEMMA PumpUploads ==
    ASSUME IInv,
           guest.pump = "reading", guest.live,
           Same(guest, guest', {"pump", "produced", "calls"}), guest'.pump = "calling",
           guest'.produced = guest.produced + 1, guest'.calls = Append(guest.calls, UploadCall(guest'.produced, FALSE)),
           answers' = answers,
           UNCHANGED <<mode, host, outcomes, lost, newsLost>>
    PROVE  IInv'
<1>1. guest \in Guests /\ host \in Hosts
    BY DEF IInv, FetchTyped
<1>2. /\ mode' = mode /\ host' = host /\ outcomes' = outcomes /\ lost' = lost /\ newsLost' = newsLost
      /\ \A type : InFlight(type)' <=> InFlight(type)
      /\ \A type : OneEvent(type)' <=> OneEvent(type)
      /\ (Failing' <=> Failing) /\ (Succeeding' <=> Succeeding)
      /\ guest'.received = guest.received => (ChunksArrive' <=> ChunksArrive)
    BY EventsKept, OutcomesKept DEF Arrives
<1>3. /\ answers' \in Seq(AnswerTypes)
      /\ \A op : Answering(op)' <=> Answering(op)
      /\ \A op : OneAnswer(op)' <=> OneAnswer(op)
    BY AnswersKept DEF IInv, FetchTyped
<1>4. ~Calls("upload") /\ ~Answering("upload") /\ ~guest.exhausted /\ ~Chunking /\ ~Finishing /\ host.stage # "absent"
  <2>1. ~Calls("upload") /\ ~Answering("upload") /\ ~guest.exhausted /\ host.stage # "absent"
      BY <1>1 DEF IInv, OneUpload, Exhausts, Starts
  <2> QED
      BY <2>1 DEF Chunking, Finishing, Calls
<1>5. /\ \A op : Calls(op)' <=> Calls(op) \/ op = "upload"
      /\ \A op : OneCall(op) => OneCall(op)'
      /\ StartIsFirst => StartIsFirst'
      /\ Chunking' /\ ~Finishing' /\ ChunksProduced'
  <2>1. guest'.produced \in Nat
      BY DEF Same, Guests
  <2> DEFINE call == UploadCall(guest'.produced, FALSE)
  <2>2. call \in CallTypes /\ call.op = "upload" /\ call.chunk = guest'.produced /\ ~call.done
      BY <2>1, UploadCallIsCall
  <2>3. guest'.calls = Append(guest.calls, call)
      OBVIOUS
  <2> HIDE DEF call
  <2> QED
      BY <1>4, <2>2, <2>3, CallAdded DEF IInv
<1>6. FetchTyped'
    BY <1>1, <1>2, <1>3, <1>4, <1>5 DEF IInv, FetchTyped, Same
<1>7. Starts'
    BY <1>1, <1>2, <1>3, <1>4, <1>5 DEF IInv, Starts, Same
<1>8. Messages'
    BY <1>1, <1>2, <1>3, <1>4, <1>5 DEF IInv, Messages, Same, Host!Active
<1>9. Freed'
  <2>1. /\ guest'.live = guest.live /\ (Calls("start")' <=> Calls("start"))
        /\ (Calls("cancel")' <=> Calls("cancel")) /\ (Answering("start")' <=> Answering("start"))
        /\ (InFlight("error")' <=> InFlight("error"))
    BY <1>2, <1>3, <1>5 DEF Same
  <2>2. Freed
    BY DEF IInv
  <2> QED
    BY <1>2, <2>1, <2>2 DEF Freed, Host!Active
<1>10. OneUpload'
    BY <1>1, <1>2, <1>3, <1>4, <1>5 DEF IInv, OneUpload, Same
<1>11. Exhausts'
    BY <1>1, <1>2, <1>3, <1>4, <1>5 DEF IInv, Exhausts, Same
<1>12. Uploaded'
    BY <1>1, <1>2, <1>3, <1>4, <1>5 DEF IInv, Uploaded, Takes, Exhausts, Same, Host!Active
<1>13. OneRead'
    BY <1>1, <1>2, <1>3, <1>4, <1>5 DEF IInv, OneRead, Same
<1>14. Received'
    BY <1>1, <1>2, <1>3, <1>4, <1>5 DEF IInv, Received, Same
<1>15. Cancels'
    BY <1>1, <1>2, <1>3, <1>4, <1>5 DEF IInv, Cancels, Same, Host!Active
<1>16. DemandsKept'
    BY <1>1, <1>2, <1>3, <1>4, <1>5 DEF IInv, DemandsKept, Wanted, Same, Host!Active
<1> QED
    BY <1>6, <1>7, <1>8, <1>9, <1>10, <1>11, <1>12, <1>13, <1>14, <1>15, <1>16 DEF IInv

LEMMA PumpFinishes ==
    ASSUME IInv,
           guest.pump = "reading", guest.live,
           Same(guest, guest', {"pump", "exhausted", "calls"}), guest'.pump = "calling",
           guest'.exhausted, guest'.calls = Append(guest.calls, UploadCall(0, TRUE)),
           answers' = answers,
           UNCHANGED <<mode, host, outcomes, lost, newsLost>>
    PROVE  IInv'
<1>1. guest \in Guests /\ host \in Hosts
    BY DEF IInv, FetchTyped
<1>2. /\ mode' = mode /\ host' = host /\ outcomes' = outcomes /\ lost' = lost /\ newsLost' = newsLost
      /\ \A type : InFlight(type)' <=> InFlight(type)
      /\ \A type : OneEvent(type)' <=> OneEvent(type)
      /\ (Failing' <=> Failing) /\ (Succeeding' <=> Succeeding)
      /\ guest'.received = guest.received => (ChunksArrive' <=> ChunksArrive)
    BY EventsKept, OutcomesKept DEF Arrives
<1>3. /\ answers' \in Seq(AnswerTypes)
      /\ \A op : Answering(op)' <=> Answering(op)
      /\ \A op : OneAnswer(op)' <=> OneAnswer(op)
    BY AnswersKept DEF IInv, FetchTyped
<1>4. ~Calls("upload") /\ ~Answering("upload") /\ ~guest.exhausted /\ ~Chunking /\ ~Finishing /\ host.stage # "absent"
  <2>1. ~Calls("upload") /\ ~Answering("upload") /\ ~guest.exhausted /\ host.stage # "absent"
      BY <1>1 DEF IInv, OneUpload, Exhausts, Starts
  <2> QED
      BY <2>1 DEF Chunking, Finishing, Calls
<1>5. /\ \A op : Calls(op)' <=> Calls(op) \/ op = "upload"
      /\ \A op : OneCall(op) => OneCall(op)'
      /\ StartIsFirst => StartIsFirst'
      /\ ~Chunking' /\ Finishing' /\ ChunksProduced'
  <2> DEFINE call == UploadCall(0, TRUE)
  <2>2. call \in CallTypes /\ call.op = "upload" /\ call.done
      BY UploadCallIsCall
  <2>3. guest'.calls = Append(guest.calls, call) /\ guest'.produced = guest.produced
      BY DEF Same
  <2> HIDE DEF call
  <2> QED
      BY <1>4, <2>2, <2>3, CallAdded DEF IInv, Exhausts
<1>6. FetchTyped'
    BY <1>1, <1>2, <1>3, <1>4, <1>5 DEF IInv, FetchTyped, Same
<1>7. Starts'
    BY <1>1, <1>2, <1>3, <1>4, <1>5 DEF IInv, Starts, Same
<1>8. Messages'
    BY <1>1, <1>2, <1>3, <1>4, <1>5 DEF IInv, Messages, Same, Host!Active
<1>9. Freed'
  <2>1. /\ guest'.live = guest.live /\ (Calls("start")' <=> Calls("start"))
        /\ (Calls("cancel")' <=> Calls("cancel")) /\ (Answering("start")' <=> Answering("start"))
        /\ (InFlight("error")' <=> InFlight("error"))
    BY <1>2, <1>3, <1>5 DEF Same
  <2>2. Freed
    BY DEF IInv
  <2> QED
    BY <1>2, <2>1, <2>2 DEF Freed, Host!Active
<1>10. OneUpload'
    BY <1>1, <1>2, <1>3, <1>4, <1>5 DEF IInv, OneUpload, Same
<1>11. Exhausts'
    BY <1>1, <1>2, <1>3, <1>4, <1>5 DEF IInv, Exhausts, Same
<1>12. Uploaded'
    BY <1>1, <1>2, <1>3, <1>4, <1>5 DEF IInv, Uploaded, Takes, Exhausts, Same, Host!Active
<1>13. OneRead'
    BY <1>1, <1>2, <1>3, <1>4, <1>5 DEF IInv, OneRead, Same
<1>14. Received'
    BY <1>1, <1>2, <1>3, <1>4, <1>5 DEF IInv, Received, Same
<1>15. Cancels'
    BY <1>1, <1>2, <1>3, <1>4, <1>5 DEF IInv, Cancels, Same, Host!Active
<1>16. DemandsKept'
    BY <1>1, <1>2, <1>3, <1>4, <1>5 DEF IInv, DemandsKept, Wanted, Same, Host!Active
<1> QED
    BY <1>6, <1>7, <1>8, <1>9, <1>10, <1>11, <1>12, <1>13, <1>14, <1>15, <1>16 DEF IInv


(* ... and the host its answer.                                             *)
LEMMA PumpEnds ==
    ASSUME IInv,
           guest.exhausted, Same(guest, guest', {"pump", "upload"}), guest'.pump = "idle", ~guest'.upload,
           answers # <<>>, answers' = Tail(answers), Head(answers).op = "upload",
           UNCHANGED <<mode, host, outcomes, lost, newsLost>>
    PROVE  IInv'
<1>1. guest \in Guests /\ host \in Hosts
    BY DEF IInv, FetchTyped
<1>2. /\ mode' = mode /\ host' = host /\ outcomes' = outcomes /\ lost' = lost /\ newsLost' = newsLost
      /\ \A type : InFlight(type)' <=> InFlight(type)
      /\ \A type : OneEvent(type)' <=> OneEvent(type)
      /\ (Failing' <=> Failing) /\ (Succeeding' <=> Succeeding)
      /\ guest'.received = guest.received => (ChunksArrive' <=> ChunksArrive)
    BY EventsKept, OutcomesKept DEF Arrives
<1>3. /\ \A op : Calls(op)' <=> Calls(op)
      /\ \A op : OneCall(op)' <=> OneCall(op)
      /\ (StartIsFirst' <=> StartIsFirst) /\ (Chunking' <=> Chunking) /\ (Finishing' <=> Finishing)
      /\ ChunksProduced => ChunksProduced'
    BY CallsKept DEF Same
<1>4. /\ answers' \in Seq(AnswerTypes)
      /\ \A op : OneAnswer(op) => OneAnswer(op)'
      /\ \A op : op # "upload" => (Answering(op)' <=> Answering(op))
      /\ Answering("upload") /\ ~Answering("upload")' /\ ~Calls("upload")
  <2>1. PICK a : a = Head(answers)
      OBVIOUS
  <2> QED
      BY <2>1, AnswerTaken DEF IInv, OneUpload
<1>5. FetchTyped'
    BY <1>1, <1>2, <1>3, <1>4 DEF IInv, FetchTyped, Same
<1>6. Starts'
    BY <1>1, <1>2, <1>3, <1>4 DEF IInv, Starts, Same
<1>7. Messages'
    BY <1>1, <1>2, <1>3, <1>4 DEF IInv, Messages, Same, Host!Active
<1>8. Freed'
    BY <1>1, <1>2, <1>3, <1>4 DEF IInv, Freed, Same, Host!Active
<1>9. OneUpload'
    BY <1>1, <1>2, <1>3, <1>4 DEF IInv, OneUpload, Same
<1>10. Exhausts'
    BY <1>1, <1>2, <1>3, <1>4 DEF IInv, Exhausts, Same
<1>11. Uploaded'
    BY <1>1, <1>2, <1>3, <1>4 DEF IInv, Uploaded, Takes, Same, Host!Active
<1>12. OneRead'
    BY <1>1, <1>2, <1>3, <1>4 DEF IInv, OneRead, Same
<1>13. Received'
    BY <1>1, <1>2, <1>3, <1>4 DEF IInv, Received, Same
<1>14. Cancels'
    BY <1>1, <1>2, <1>3, <1>4 DEF IInv, Cancels, Same, Host!Active
<1>15. DemandsKept'
    BY <1>1, <1>2, <1>3, <1>4 DEF IInv, DemandsKept, Wanted, Cancels, Same, Host!Active
<1> QED
    BY <1>5, <1>6, <1>7, <1>8, <1>9, <1>10, <1>11, <1>12, <1>13, <1>14, <1>15 DEF IInv

LEMMA PumpRests ==
    ASSUME IInv,
           ~guest.exhausted, Stops(guest, guest'),
           answers # <<>>, answers' = Tail(answers), Head(answers).op = "upload",
           UNCHANGED <<mode, host, outcomes, lost, newsLost>>
    PROVE  IInv'
<1>1. guest \in Guests /\ host \in Hosts
    BY DEF IInv, FetchTyped
<1>2. /\ mode' = mode /\ host' = host /\ outcomes' = outcomes /\ lost' = lost /\ newsLost' = newsLost
      /\ \A type : InFlight(type)' <=> InFlight(type)
      /\ \A type : OneEvent(type)' <=> OneEvent(type)
      /\ (Failing' <=> Failing) /\ (Succeeding' <=> Succeeding)
      /\ guest'.received = guest.received => (ChunksArrive' <=> ChunksArrive)
    BY EventsKept, OutcomesKept DEF Arrives
<1>3. /\ \A op : Calls(op)' <=> Calls(op)
      /\ \A op : OneCall(op)' <=> OneCall(op)
      /\ (StartIsFirst' <=> StartIsFirst) /\ (Chunking' <=> Chunking) /\ (Finishing' <=> Finishing)
      /\ ChunksProduced => ChunksProduced'
    BY CallsKept DEF Stops, Same
<1>4. /\ answers' \in Seq(AnswerTypes)
      /\ \A op : OneAnswer(op) => OneAnswer(op)'
      /\ \A op : op # "upload" => (Answering(op)' <=> Answering(op))
      /\ Answering("upload") /\ ~Answering("upload")' /\ ~Calls("upload")
  <2>1. PICK a : a = Head(answers)
      OBVIOUS
  <2> QED
      BY <2>1, AnswerTaken DEF IInv, OneUpload
<1>5. guest.pump = "calling"
    BY <1>4 DEF IInv, OneUpload
<1>6. FetchTyped'
    BY <1>1, <1>2, <1>3, <1>4, <1>5 DEF IInv, FetchTyped, Same, Stops
<1>7. Starts'
    BY <1>1, <1>2, <1>3, <1>4, <1>5 DEF IInv, Starts, Same, Stops
<1>8. Messages'
    BY <1>1, <1>2, <1>3, <1>4, <1>5 DEF IInv, Messages, Same, Stops, Host!Active
<1>9. Freed'
    BY <1>1, <1>2, <1>3, <1>4, <1>5 DEF IInv, Freed, Same, Stops, Host!Active
<1>10. OneUpload'
    BY <1>1, <1>2, <1>3, <1>4, <1>5 DEF IInv, OneUpload, Same, Stops
<1>11. Exhausts'
    BY <1>1, <1>2, <1>3, <1>4, <1>5 DEF IInv, Exhausts, Same, Stops
<1>12. Uploaded'
    BY <1>1, <1>2, <1>3, <1>4, <1>5 DEF IInv, Uploaded, Takes, Same, Stops, Host!Active
<1>13. OneRead'
    BY <1>1, <1>2, <1>3, <1>4, <1>5 DEF IInv, OneRead, Same, Stops
<1>14. Received'
    BY <1>1, <1>2, <1>3, <1>4, <1>5 DEF IInv, Received, Same, Stops
<1>15. Cancels'
    BY <1>1, <1>2, <1>3, <1>4, <1>5 DEF IInv, Cancels, Same, Stops, Host!Active
<1>16. DemandsKept'
  <2>1. /\ guest'.live = guest.live /\ guest'.pull = guest.pull /\ guest'.pump = "idle"
        /\ guest.demand = 0 \/ ~guest.live \/ guest.uploadCancelled
    BY DEF Stops, Same
  <2>2. Wanted' <=> Wanted
    BY <1>2 DEF Wanted
  <2>3. guest.live /\ guest.uploadCancelled => ~Wanted
    BY DEF IInv, Cancels, Wanted
  <2>4. DemandsKept
    BY DEF IInv
  <2>5. ~(guest.demand > 0) \/ ~guest.live \/ guest.uploadCancelled
    BY <2>1
  <2> QED
    BY <1>4, <1>3, <1>2, <1>5, <2>1, <2>2, <2>3, <2>4, <2>5 DEF DemandsKept, Host!Active
<1> QED
    BY <1>6, <1>7, <1>8, <1>9, <1>10, <1>11, <1>12, <1>13, <1>14, <1>15, <1>16 DEF IInv

LEMMA PumpReads ==
    ASSUME IInv,
           ~guest.exhausted, Reads(guest, guest'),
           answers # <<>>, answers' = Tail(answers), Head(answers).op = "upload",
           UNCHANGED <<mode, host, outcomes, lost, newsLost>>
    PROVE  IInv'
<1>1. guest \in Guests /\ host \in Hosts
    BY DEF IInv, FetchTyped
<1>2. /\ mode' = mode /\ host' = host /\ outcomes' = outcomes /\ lost' = lost /\ newsLost' = newsLost
      /\ \A type : InFlight(type)' <=> InFlight(type)
      /\ \A type : OneEvent(type)' <=> OneEvent(type)
      /\ (Failing' <=> Failing) /\ (Succeeding' <=> Succeeding)
      /\ guest'.received = guest.received => (ChunksArrive' <=> ChunksArrive)
    BY EventsKept, OutcomesKept DEF Arrives
<1>3. /\ \A op : Calls(op)' <=> Calls(op)
      /\ \A op : OneCall(op)' <=> OneCall(op)
      /\ (StartIsFirst' <=> StartIsFirst) /\ (Chunking' <=> Chunking) /\ (Finishing' <=> Finishing)
      /\ ChunksProduced => ChunksProduced'
    BY CallsKept DEF Reads, Same
<1>4. /\ answers' \in Seq(AnswerTypes)
      /\ \A op : OneAnswer(op) => OneAnswer(op)'
      /\ \A op : op # "upload" => (Answering(op)' <=> Answering(op))
      /\ Answering("upload") /\ ~Answering("upload")' /\ ~Calls("upload")
  <2>1. PICK a : a = Head(answers)
      OBVIOUS
  <2> QED
      BY <2>1, AnswerTaken DEF IInv, OneUpload
<1>5. guest.pump = "calling"
    BY <1>4 DEF IInv, OneUpload
<1>6. FetchTyped'
    BY <1>1, <1>2, <1>3, <1>4, <1>5 DEF IInv, FetchTyped, Reads, Same
<1>7. Starts'
    BY <1>1, <1>2, <1>3, <1>4, <1>5 DEF IInv, Starts, Reads, Same
<1>8. Messages'
    BY <1>1, <1>2, <1>3, <1>4, <1>5 DEF IInv, Messages, Reads, Same, Host!Active
<1>9. Freed'
  <2>1. /\ guest'.live = guest.live /\ (Calls("start")' <=> Calls("start"))
        /\ (Calls("cancel")' <=> Calls("cancel")) /\ (Answering("start")' <=> Answering("start"))
        /\ (InFlight("error")' <=> InFlight("error"))
    BY <1>2, <1>4, <1>3 DEF Reads, Same
  <2>2. Freed
    BY DEF IInv
  <2> QED
    BY <1>2, <2>1, <2>2 DEF Freed, Host!Active
<1>10. OneUpload'
    BY <1>1, <1>2, <1>3, <1>4, <1>5 DEF IInv, OneUpload, Reads, Same
<1>11. Exhausts'
    BY <1>1, <1>2, <1>3, <1>4, <1>5 DEF IInv, Exhausts, Reads, Same
<1>12. Uploaded'
    BY <1>1, <1>2, <1>3, <1>4, <1>5 DEF IInv, Uploaded, Takes, Reads, Same, Host!Active
<1>13. OneRead'
    BY <1>1, <1>2, <1>3, <1>4, <1>5 DEF IInv, OneRead, Reads, Same
<1>14. Received'
    BY <1>1, <1>2, <1>3, <1>4, <1>5 DEF IInv, Received, Reads, Same
<1>15. Cancels'
    BY <1>1, <1>2, <1>3, <1>4, <1>5 DEF IInv, Cancels, Reads, Same, Host!Active
<1>16. DemandsKept'
    BY <1>1, <1>2, <1>3, <1>4, <1>5 DEF IInv, DemandsKept, Wanted, Reads, Same, Host!Active
<1> QED
    BY <1>6, <1>7, <1>8, <1>9, <1>10, <1>11, <1>12, <1>13, <1>14, <1>15, <1>16 DEF IInv


(* The program asks for a chunk of the response.                            *)
LEMMA BodyPulled ==
    ASSUME IInv,
           guest.stream = "open", ~guest.pull,
           Same(guest, guest', {"pull", "calls"}), guest'.pull,
           guest'.calls = Append(guest.calls, ReadCall), ReadCall \in CallTypes, ReadCall.op = "read",
           answers' = answers,
           UNCHANGED <<mode, host, outcomes, lost, newsLost>>
    PROVE  IInv'
<1>1. guest \in Guests /\ host \in Hosts
    BY DEF IInv, FetchTyped
<1>2. /\ mode' = mode /\ host' = host /\ outcomes' = outcomes /\ lost' = lost /\ newsLost' = newsLost
      /\ \A type : InFlight(type)' <=> InFlight(type)
      /\ \A type : OneEvent(type)' <=> OneEvent(type)
      /\ (Failing' <=> Failing) /\ (Succeeding' <=> Succeeding)
      /\ guest'.received = guest.received => (ChunksArrive' <=> ChunksArrive)
    BY EventsKept, OutcomesKept DEF Arrives
<1>3. /\ answers' \in Seq(AnswerTypes)
      /\ \A op : Answering(op)' <=> Answering(op)
      /\ \A op : OneAnswer(op)' <=> OneAnswer(op)
    BY AnswersKept DEF IInv, FetchTyped
<1>4. /\ \A op : Calls(op)' <=> Calls(op) \/ op = "read"
      /\ \A op : OneCall(op) /\ (op # "read" \/ ~Calls(op)) => OneCall(op)'
      /\ StartIsFirst => StartIsFirst'
      /\ (Chunking' <=> Chunking) /\ (Finishing' <=> Finishing)
      /\ ChunksProduced => ChunksProduced'
    BY CallAdded DEF IInv, Same
<1>5. FetchTyped'
    BY <1>1, <1>2, <1>3, <1>4 DEF IInv, FetchTyped, Same
<1>6. Starts'
    BY <1>1, <1>2, <1>3, <1>4 DEF IInv, Starts, Same
<1>7. Messages'
    BY <1>1, <1>2, <1>3, <1>4 DEF IInv, Messages, Same, Host!Active
<1>8. Freed'
    BY <1>1, <1>2, <1>3, <1>4 DEF IInv, Freed, Same, Host!Active
<1>9. OneUpload'
    BY <1>1, <1>2, <1>3, <1>4 DEF IInv, OneUpload, Same
<1>10. Exhausts'
    BY <1>1, <1>2, <1>3, <1>4 DEF IInv, Exhausts, Same
<1>11. Uploaded'
    BY <1>1, <1>2, <1>3, <1>4 DEF IInv, Uploaded, Takes, Same, Host!Active
<1>12. OneRead'
    BY <1>1, <1>2, <1>3, <1>4 DEF IInv, OneRead, Same
<1>13. Received'
    BY <1>1, <1>2, <1>3, <1>4 DEF IInv, Received, Same
<1>14. Cancels'
    BY <1>1, <1>2, <1>3, <1>4 DEF IInv, Cancels, Same, Host!Active
<1>15. DemandsKept'
    BY <1>1, <1>2, <1>3, <1>4 DEF IInv, DemandsKept, Wanted, Same, Host!Active
<1> QED
    BY <1>5, <1>6, <1>7, <1>8, <1>9, <1>10, <1>11, <1>12, <1>13, <1>14, <1>15 DEF IInv
-----------------------------------------------------------------------------
(* The host's steps.  It drops the fetch, ...                               *)
LEMMA FetchDropped ==
    ASSUME IInv,
           Fails(host, host') \/ Releases(host, host'),
           host'.disposed \/ InFlight("error")' \/ ~guest.live,
           UNCHANGED <<mode, guest, answers, lost, newsLost>>,
           outcomes' \in Seq(OutcomeTypes), Succeeding' => Succeeding, host'.stage = "absent" => outcomes' = <<>>
    PROVE  IInv'
<1>1. guest \in Guests /\ host \in Hosts
    BY DEF IInv, FetchTyped
<1>2. /\ mode' = mode /\ guest' = guest /\ answers' = answers /\ lost' = lost /\ newsLost' = newsLost
      /\ \A op : Calls(op)' <=> Calls(op)
      /\ \A op : OneCall(op)' <=> OneCall(op)
      /\ (StartIsFirst' <=> StartIsFirst) /\ (Chunking' <=> Chunking) /\ (Finishing' <=> Finishing)
      /\ (ChunksProduced' <=> ChunksProduced)
      /\ \A op : Answering(op)' <=> Answering(op)
      /\ \A op : OneAnswer(op)' <=> OneAnswer(op)
    BY CallsKept, AnswersKept
<1>3. /\ host'.events \in Seq(EventTypes)
      /\ \A type : InFlight(type) => InFlight(type)'
      /\ \A type : type # "error" => (InFlight(type)' <=> InFlight(type)) /\ (OneEvent(type) => OneEvent(type)')
      /\ ChunksArrive => ChunksArrive'
  <2>1. Stays(host, host', {"stage", "wait", "upload", "net", "reading", "events", "disposed"})
      BY DEF Fails, Releases, Drops
  <2>2. \A f : Arrives(f, guest', host') <=> Arrives(f, guest, host)
      BY <2>1 DEF Arrives, Stays
  <2>3. CASE host'.events = host.events
      BY <1>1, <2>2, <2>3, EventsKept DEF Hosts
  <2>4. CASE host'.events = Append(host.events, ErrorEvent)
      BY <2>2, <2>4, EventAdded, EventsAreEvents DEF IInv
  <2> QED
      BY <2>3, <2>4 DEF Fails, Releases
<1>4. /\ host' \in Hosts /\ host'.mode = host.mode /\ host'.uploaded = host.uploaded /\ host'.whole = host.whole
      /\ host'.position = host.position /\ host'.remainder = host.remainder /\ host'.ended = host.ended
      /\ host.stage = "active" /\ host'.stage = "released" /\ ~host'.wait
      /\ host'.upload = IF host.upload = "open" THEN "errored" ELSE host.upload
      /\ host'.reading = host.reading \/ (~host'.reading /\ ~host.ended)
    BY DEF Fails, Releases, Drops, Stays
<1>5. FetchTyped'
    BY <1>1, <1>2, <1>3, <1>4 DEF IInv, FetchTyped
<1>6. Starts'
    BY <1>1, <1>2, <1>3, <1>4 DEF IInv, Starts
<1>7. Messages'
    BY <1>1, <1>2, <1>3, <1>4 DEF IInv, Messages, Host!Active
<1>8. Freed'
    BY <1>1, <1>2, <1>3, <1>4 DEF IInv, Freed, Host!Active
<1>9. OneUpload'
    BY <1>1, <1>2, <1>3, <1>4 DEF IInv, OneUpload
<1>10. Exhausts'
    BY <1>1, <1>2, <1>3, <1>4 DEF IInv, Exhausts
<1>11. Uploaded'
    BY <1>1, <1>2, <1>3, <1>4 DEF IInv, Uploaded, Takes, Host!Active
<1>12. OneRead'
    BY <1>1, <1>2, <1>3, <1>4 DEF IInv, OneRead
<1>13. Received'
    BY <1>1, <1>2, <1>3, <1>4 DEF IInv, Received
<1>14. Cancels'
    BY <1>1, <1>2, <1>3, <1>4 DEF IInv, Cancels, Host!Active
<1>15. DemandsKept'
    BY <1>1, <1>2, <1>3, <1>4 DEF IInv, DemandsKept, Wanted, Host!Active
<1> QED
    BY <1>5, <1>6, <1>7, <1>8, <1>9, <1>10, <1>11, <1>12, <1>13, <1>14, <1>15 DEF IInv


(* ... moves on, and tells the guest of the response, ...                   *)
LEMMA NetworkMoves ==
    ASSUME IInv,
           Moves(host, host'),
           host.stage # "absent",
           UNCHANGED <<mode, guest, answers, lost, newsLost>>,
           outcomes' = outcomes
    PROVE  IInv'
<1>1. guest \in Guests /\ host \in Hosts
    BY DEF IInv, FetchTyped
<1>2. /\ mode' = mode /\ guest' = guest /\ answers' = answers /\ lost' = lost /\ newsLost' = newsLost
      /\ \A op : Calls(op)' <=> Calls(op)
      /\ \A op : OneCall(op)' <=> OneCall(op)
      /\ (StartIsFirst' <=> StartIsFirst) /\ (Chunking' <=> Chunking) /\ (Finishing' <=> Finishing)
      /\ (ChunksProduced' <=> ChunksProduced)
      /\ \A op : Answering(op)' <=> Answering(op)
      /\ \A op : OneAnswer(op)' <=> OneAnswer(op)
    BY CallsKept, AnswersKept
<1>3. outcomes' = outcomes /\ (Failing' <=> Failing) /\ (Succeeding' <=> Succeeding)
    BY OutcomesKept
<1>4. /\ host'.events = host.events
      /\ \A type : InFlight(type)' <=> InFlight(type)
      /\ \A type : OneEvent(type)' <=> OneEvent(type)
      /\ ChunksArrive => ChunksArrive'
    BY EventsKept DEF Arrives, Moves, Stays
<1>5. FetchTyped'
    BY <1>1, <1>2, <1>3, <1>4 DEF IInv, FetchTyped, Moves, Stays
<1>6. Starts'
    BY <1>1, <1>2, <1>3, <1>4 DEF IInv, Starts, Moves, Stays
<1>7. Messages'
    BY <1>1, <1>2, <1>3, <1>4 DEF IInv, Messages, Moves, Stays, Host!Active
<1>8. Freed'
    BY <1>1, <1>2, <1>3, <1>4 DEF IInv, Freed, Moves, Stays, Host!Active
<1>9. OneUpload'
    BY <1>1, <1>2, <1>3, <1>4 DEF IInv, OneUpload, Moves, Stays
<1>10. Exhausts'
    BY <1>1, <1>2, <1>3, <1>4 DEF IInv, Exhausts, Moves, Stays
<1>11. Uploaded'
    BY <1>1, <1>2, <1>3, <1>4 DEF IInv, Uploaded, Takes, Moves, Stays, Host!Active
<1>12. OneRead'
    BY <1>1, <1>2, <1>3, <1>4 DEF IInv, OneRead, Moves, Stays
<1>13. Received'
    BY <1>1, <1>2, <1>3, <1>4 DEF IInv, Received, Moves, Stays
<1>14. Cancels'
    BY <1>1, <1>2, <1>3, <1>4 DEF IInv, Cancels, Moves, Stays, Host!Active
<1>15. DemandsKept'
    BY <1>1, <1>2, <1>3, <1>4 DEF IInv, DemandsKept, Wanted, Moves, Stays, Host!Active
<1> QED
    BY <1>5, <1>6, <1>7, <1>8, <1>9, <1>10, <1>11, <1>12, <1>13, <1>14, <1>15 DEF IInv

LEMMA ResponseTold ==
    ASSUME IInv,
           Tells(host, host'),
           host.stage # "absent",
           UNCHANGED <<mode, guest, answers, lost, newsLost>>,
           outcomes' = outcomes
    PROVE  IInv'
<1>1. guest \in Guests /\ host \in Hosts
    BY DEF IInv, FetchTyped
<1>2. /\ mode' = mode /\ guest' = guest /\ answers' = answers /\ lost' = lost /\ newsLost' = newsLost
      /\ \A op : Calls(op)' <=> Calls(op)
      /\ \A op : OneCall(op)' <=> OneCall(op)
      /\ (StartIsFirst' <=> StartIsFirst) /\ (Chunking' <=> Chunking) /\ (Finishing' <=> Finishing)
      /\ (ChunksProduced' <=> ChunksProduced)
      /\ \A op : Answering(op)' <=> Answering(op)
      /\ \A op : OneAnswer(op)' <=> OneAnswer(op)
    BY CallsKept, AnswersKept
<1>3. outcomes' = outcomes /\ (Failing' <=> Failing) /\ (Succeeding' <=> Succeeding)
    BY OutcomesKept
<1>4. /\ host'.events \in Seq(EventTypes) /\ host'.events # <<>>
      /\ \A type : InFlight(type)' <=> InFlight(type) \/ type = "response"
      /\ \A type : OneEvent(type) /\ (type # "response" \/ ~InFlight(type)) => OneEvent(type)'
      /\ ChunksArrive => ChunksArrive'
  <2>1. PICK last \in BOOLEAN : host'.events = Append(host.events, ResponseEvent(last))
      BY DEF Tells
  <2>2. ResponseEvent(last) \in EventTypes /\ ResponseEvent(last).type = "response"
      BY EventsAreEvents
  <2>3. \A f : Arrives(f, guest', host') <=> Arrives(f, guest, host)
      BY DEF Arrives, Tells, Stays
  <2> QED
      BY <2>1, <2>2, <2>3, EventAdded DEF IInv
<1>5. FetchTyped'
    BY <1>1, <1>2, <1>3, <1>4 DEF IInv, FetchTyped, Stays, Tells
<1>6. Starts'
    BY <1>1, <1>2, <1>3, <1>4 DEF IInv, Starts, Stays, Tells
<1>7. Messages'
    BY <1>1, <1>2, <1>3, <1>4 DEF IInv, Messages, Stays, Tells, Host!Active
<1>8. Freed'
    BY <1>1, <1>2, <1>3, <1>4 DEF IInv, Freed, Stays, Tells, Host!Active
<1>9. OneUpload'
    BY <1>1, <1>2, <1>3, <1>4 DEF IInv, OneUpload, Stays, Tells
<1>10. Exhausts'
    BY <1>1, <1>2, <1>3, <1>4 DEF IInv, Exhausts, Stays, Tells
<1>11. Uploaded'
    BY <1>1, <1>2, <1>3, <1>4 DEF IInv, Uploaded, Takes, Stays, Tells, Host!Active
<1>12. OneRead'
    BY <1>1, <1>2, <1>3, <1>4 DEF IInv, OneRead, Stays, Tells
<1>13. Received'
    BY <1>1, <1>2, <1>3, <1>4 DEF IInv, Received, Stays, Tells
<1>14. Cancels'
    BY <1>1, <1>2, <1>3, <1>4 DEF IInv, Cancels, Stays, Tells, Host!Active
<1>15. DemandsKept'
    BY <1>1, <1>2, <1>3, <1>4 DEF IInv, DemandsKept, Wanted, Stays, Tells, Host!Active
<1> QED
    BY <1>5, <1>6, <1>7, <1>8, <1>9, <1>10, <1>11, <1>12, <1>13, <1>14, <1>15 DEF IInv


(* ... asks for the upload or does without it, ...                          *)
LEMMA UploadAsked ==
    ASSUME IInv,
           Asks(host, host'),
           host.upload = "open",
           UNCHANGED <<mode, guest, answers, lost, newsLost>>,
           outcomes' = outcomes
    PROVE  IInv'
<1>1. guest \in Guests /\ host \in Hosts
    BY DEF IInv, FetchTyped
<1>2. /\ mode' = mode /\ guest' = guest /\ answers' = answers /\ lost' = lost /\ newsLost' = newsLost
      /\ \A op : Calls(op)' <=> Calls(op)
      /\ \A op : OneCall(op)' <=> OneCall(op)
      /\ (StartIsFirst' <=> StartIsFirst) /\ (Chunking' <=> Chunking) /\ (Finishing' <=> Finishing)
      /\ (ChunksProduced' <=> ChunksProduced)
      /\ \A op : Answering(op)' <=> Answering(op)
      /\ \A op : OneAnswer(op)' <=> OneAnswer(op)
    BY CallsKept, AnswersKept
<1>3. outcomes' = outcomes /\ (Failing' <=> Failing) /\ (Succeeding' <=> Succeeding)
    BY OutcomesKept
<1>4. /\ host'.events \in Seq(EventTypes) /\ host'.events # <<>>
      /\ \A type : InFlight(type)' <=> InFlight(type) \/ type = "uploadPull"
      /\ \A type : OneEvent(type) /\ (type # "uploadPull" \/ ~InFlight(type)) => OneEvent(type)'
      /\ ChunksArrive => ChunksArrive'
  <2>1. PullEvent \in EventTypes /\ PullEvent.type = "uploadPull"
      BY EventsAreEvents
  <2>2. \A f : Arrives(f, guest', host') <=> Arrives(f, guest, host)
      BY DEF Arrives, Asks, Stays
  <2> QED
      BY <2>1, <2>2, EventAdded DEF IInv, Asks
<1>5. FetchTyped'
    BY <1>1, <1>2, <1>3, <1>4 DEF IInv, FetchTyped, Asks, Stays
<1>6. Starts'
    BY <1>1, <1>2, <1>3, <1>4 DEF IInv, Starts, Asks, Stays
<1>7. Messages'
    BY <1>1, <1>2, <1>3, <1>4 DEF IInv, Messages, Asks, Stays, Host!Active
<1>8. Freed'
    BY <1>1, <1>2, <1>3, <1>4 DEF IInv, Freed, Asks, Stays, Host!Active
<1>9. OneUpload'
    BY <1>1, <1>2, <1>3, <1>4 DEF IInv, OneUpload, Asks, Stays
<1>10. Exhausts'
    BY <1>1, <1>2, <1>3, <1>4 DEF IInv, Exhausts, Asks, Stays
<1>11. Uploaded'
    BY <1>1, <1>2, <1>3, <1>4 DEF IInv, Uploaded, Takes, Asks, Stays, Host!Active
<1>12. OneRead'
    BY <1>1, <1>2, <1>3, <1>4 DEF IInv, OneRead, Asks, Stays
<1>13. Received'
    BY <1>1, <1>2, <1>3, <1>4 DEF IInv, Received, Asks, Stays
<1>14. Cancels'
    BY <1>1, <1>2, <1>3, <1>4 DEF IInv, Cancels, Asks, Stays, Host!Active
<1>15. DemandsKept'
    BY <1>1, <1>2, <1>3, <1>4 DEF IInv, DemandsKept, Wanted, Asks, Cancels, Stays, Host!Active
<1> QED
    BY <1>5, <1>6, <1>7, <1>8, <1>9, <1>10, <1>11, <1>12, <1>13, <1>14, <1>15 DEF IInv

LEMMA UploadStopped ==
    ASSUME IInv,
           Stays(host, host', {"upload", "events"}),
           host.upload = "open", host'.upload = "cancelled",
           host'.events = Append(host.events, CancelEvent),
           UNCHANGED <<mode, guest, answers, lost, newsLost>>,
           outcomes' = outcomes
    PROVE  IInv'
<1>1. guest \in Guests /\ host \in Hosts
    BY DEF IInv, FetchTyped
<1>2. /\ mode' = mode /\ guest' = guest /\ answers' = answers /\ lost' = lost /\ newsLost' = newsLost
      /\ \A op : Calls(op)' <=> Calls(op)
      /\ \A op : OneCall(op)' <=> OneCall(op)
      /\ (StartIsFirst' <=> StartIsFirst) /\ (Chunking' <=> Chunking) /\ (Finishing' <=> Finishing)
      /\ (ChunksProduced' <=> ChunksProduced)
      /\ \A op : Answering(op)' <=> Answering(op)
      /\ \A op : OneAnswer(op)' <=> OneAnswer(op)
    BY CallsKept, AnswersKept
<1>3. outcomes' = outcomes /\ (Failing' <=> Failing) /\ (Succeeding' <=> Succeeding)
    BY OutcomesKept
<1>4. /\ host'.events \in Seq(EventTypes) /\ host'.events # <<>>
      /\ \A type : InFlight(type)' <=> InFlight(type) \/ type = "uploadCancel"
      /\ \A type : OneEvent(type) /\ (type # "uploadCancel" \/ ~InFlight(type)) => OneEvent(type)'
      /\ ChunksArrive => ChunksArrive'
  <2>1. CancelEvent \in EventTypes /\ CancelEvent.type = "uploadCancel"
      BY EventsAreEvents
  <2>2. \A f : Arrives(f, guest', host') <=> Arrives(f, guest, host)
      BY DEF Arrives, Stays
  <2> QED
      BY <2>1, <2>2, EventAdded DEF IInv
<1>5. FetchTyped'
    BY <1>1, <1>2, <1>3, <1>4 DEF IInv, FetchTyped, Stays
<1>6. Starts'
    BY <1>1, <1>2, <1>3, <1>4 DEF IInv, Starts, Stays
<1>7. Messages'
    BY <1>1, <1>2, <1>3, <1>4 DEF IInv, Messages, Stays, Host!Active
<1>8. Freed'
    BY <1>1, <1>2, <1>3, <1>4 DEF IInv, Freed, Stays, Host!Active
<1>9. OneUpload'
    BY <1>1, <1>2, <1>3, <1>4 DEF IInv, OneUpload, Stays
<1>10. Exhausts'
    BY <1>1, <1>2, <1>3, <1>4 DEF IInv, Exhausts, Stays
<1>11. Uploaded'
    BY <1>1, <1>2, <1>3, <1>4 DEF IInv, Uploaded, Takes, Cancels, Stays, Host!Active
<1>12. OneRead'
    BY <1>1, <1>2, <1>3, <1>4 DEF IInv, OneRead, Stays
<1>13. Received'
    BY <1>1, <1>2, <1>3, <1>4 DEF IInv, Received, Stays
<1>14. Cancels'
    BY <1>1, <1>2, <1>3, <1>4 DEF IInv, Cancels, Stays, Host!Active
<1>15. DemandsKept'
    BY <1>1, <1>2, <1>3, <1>4 DEF IInv, DemandsKept, Wanted, Cancels, Stays, Host!Active
<1> QED
    BY <1>5, <1>6, <1>7, <1>8, <1>9, <1>10, <1>11, <1>12, <1>13, <1>14, <1>15 DEF IInv


(* ... and gives the guest a chunk of the response, or its end, ...         *)
LEMMA ReadStopped ==
    ASSUME IInv,
           Stays(host, host', {"reading"}),
           host.reading, ~host'.reading, ~host.ended, host.stage # "active",
           UNCHANGED <<mode, guest, answers, lost, newsLost>>,
           outcomes' = outcomes
    PROVE  IInv'
<1>1. guest \in Guests /\ host \in Hosts
    BY DEF IInv, FetchTyped
<1>2. /\ mode' = mode /\ guest' = guest /\ answers' = answers /\ lost' = lost /\ newsLost' = newsLost
      /\ \A op : Calls(op)' <=> Calls(op)
      /\ \A op : OneCall(op)' <=> OneCall(op)
      /\ (StartIsFirst' <=> StartIsFirst) /\ (Chunking' <=> Chunking) /\ (Finishing' <=> Finishing)
      /\ (ChunksProduced' <=> ChunksProduced)
      /\ \A op : Answering(op)' <=> Answering(op)
      /\ \A op : OneAnswer(op)' <=> OneAnswer(op)
    BY CallsKept, AnswersKept
<1>3. outcomes' = outcomes /\ (Failing' <=> Failing) /\ (Succeeding' <=> Succeeding)
    BY OutcomesKept
<1>4. /\ host'.events = host.events
      /\ \A type : InFlight(type)' <=> InFlight(type)
      /\ \A type : OneEvent(type)' <=> OneEvent(type)
      /\ ChunksArrive => ChunksArrive'
    BY EventsKept DEF Arrives, Stays
<1>5. FetchTyped'
    BY <1>1, <1>2, <1>3, <1>4 DEF IInv, FetchTyped, Stays
<1>6. Starts'
    BY <1>1, <1>2, <1>3, <1>4 DEF IInv, Starts, Stays
<1>7. Messages'
    BY <1>1, <1>2, <1>3, <1>4 DEF IInv, Messages, Stays, Host!Active
<1>8. Freed'
    BY <1>1, <1>2, <1>3, <1>4 DEF IInv, Freed, Stays, Host!Active
<1>9. OneUpload'
    BY <1>1, <1>2, <1>3, <1>4 DEF IInv, OneUpload, Stays
<1>10. Exhausts'
    BY <1>1, <1>2, <1>3, <1>4 DEF IInv, Exhausts, Stays
<1>11. Uploaded'
    BY <1>1, <1>2, <1>3, <1>4 DEF IInv, Uploaded, Takes, Stays, Host!Active
<1>12. OneRead'
    BY <1>1, <1>2, <1>3, <1>4 DEF IInv, OneRead, Stays
<1>13. Received'
    BY <1>1, <1>2, <1>3, <1>4 DEF IInv, Received, Stays
<1>14. Cancels'
    BY <1>1, <1>2, <1>3, <1>4 DEF IInv, Cancels, Stays, Host!Active
<1>15. DemandsKept'
    BY <1>1, <1>2, <1>3, <1>4 DEF IInv, DemandsKept, Wanted, Stays, Host!Active
<1> QED
    BY <1>5, <1>6, <1>7, <1>8, <1>9, <1>10, <1>11, <1>12, <1>13, <1>14, <1>15 DEF IInv

LEMMA ItemGiven ==
    ASSUME IInv,
           Gives(host, host'),
           host.reading, ~host.ended, host.stage = "active",
           NEW size \in Nat \ {0}, host'.position = host.position + size, host'.remainder = size - 1, host'.position <= MaxBody,
           UNCHANGED <<mode, guest, answers, lost, newsLost>>,
           outcomes' = outcomes
    PROVE  IInv'
<1>1. guest \in Guests /\ host \in Hosts
    BY DEF IInv, FetchTyped
<1>2. /\ mode' = mode /\ guest' = guest /\ answers' = answers /\ lost' = lost /\ newsLost' = newsLost
      /\ \A op : Calls(op)' <=> Calls(op)
      /\ \A op : OneCall(op)' <=> OneCall(op)
      /\ (StartIsFirst' <=> StartIsFirst) /\ (Chunking' <=> Chunking) /\ (Finishing' <=> Finishing)
      /\ (ChunksProduced' <=> ChunksProduced)
      /\ \A op : Answering(op)' <=> Answering(op)
      /\ \A op : OneAnswer(op)' <=> OneAnswer(op)
    BY CallsKept, AnswersKept
<1>3. outcomes' = outcomes /\ (Failing' <=> Failing) /\ (Succeeding' <=> Succeeding)
    BY OutcomesKept
<1>4. /\ host.remainder = 0 /\ host'.position - host'.remainder = host.position + 1
      /\ guest.live => ~InFlight("chunk") /\ OneEvent("chunk") /\ Len(guest.received) = host.position
  <2>1. host.remainder = 0 /\ host.position \in Nat
      BY <1>1 DEF IInv, Received, Hosts
  <2>2. guest.live => ~InFlight("chunk") /\ OneEvent("chunk")
      BY DEF IInv, OneRead
  <2>3. guest.live => Len(guest.received) = host.position
      BY <2>1 DEF IInv, Received
  <2> QED
      BY <2>1, <2>2, <2>3
<1>5. /\ \A type : InFlight(type)' <=> InFlight(type) \/ type = "chunk"
      /\ guest.live => OneEvent("chunk")' /\ ChunksArrive'
  <2> DEFINE n == host'.position - host'.remainder
               e == ChunkEvent(n, FALSE)
  <2>1. n \in Nat
      BY <1>1, <1>4 DEF Hosts
  <2>2. e \in EventTypes /\ e.type = "chunk" /\ e.chunk = n /\ ~e.last
      BY <2>1, EventsAreEvents
  <2>3. host'.events = Append(host.events, e)
      BY DEF Gives
  <2> HIDE DEF e
  <2>4. guest.live => Arrives(e, guest', host')
      BY <1>2, <1>4, <2>2 DEF Arrives
  <2> QED
      BY <1>4, <2>2, <2>3, <2>4, EventAdded DEF IInv
<1>6. FetchTyped'
    BY <1>1, <1>2, <1>3, <1>4, <1>5 DEF IInv, FetchTyped, Gives, Hosts, Stays
<1>7. Starts'
    BY <1>1, <1>2, <1>3, <1>4, <1>5 DEF IInv, Starts, Gives, Stays
<1>8. Messages'
    BY <1>1, <1>2, <1>3, <1>4, <1>5 DEF IInv, Messages, Gives, Stays, Host!Active
<1>9. Freed'
    BY <1>1, <1>2, <1>3, <1>4, <1>5 DEF IInv, Freed, Gives, Stays, Host!Active
<1>10. OneUpload'
    BY <1>1, <1>2, <1>3, <1>4, <1>5 DEF IInv, OneUpload, Gives, Stays
<1>11. Exhausts'
    BY <1>1, <1>2, <1>3, <1>4, <1>5 DEF IInv, Exhausts, Gives, Stays
<1>12. Uploaded'
    BY <1>1, <1>2, <1>3, <1>4, <1>5 DEF IInv, Uploaded, Takes, Gives, Stays, Host!Active
<1>13. OneRead'
    BY <1>1, <1>2, <1>3, <1>4, <1>5 DEF IInv, OneRead, Gives, Stays
<1>14. Received'
  <2>1. /\ host'.remainder \in Nat /\ host.position \in Nat /\ host'.remainder <= host'.position
        /\ host'.position - host'.remainder = host.position + 1 /\ Len(guest.received) \in Nat
    BY <1>1, <1>4 DEF Guests, Hosts
  <2>2. ~host'.reading /\ host'.ended = host.ended
    BY DEF Gives, Stays
  <2>3. guest.live => guest.pull /\ ~Calls("read")
    BY DEF IInv, OneRead
  <2>4. Numbered(guest.received) /\ Len(guest.received) <= host.position /\ (guest.stream = "closed" => ~guest.live /\ host.ended)
    <3>1. Len(guest.received) <= host.position - host.remainder
      BY DEF IInv, Received
    <3>2. Len(guest.received) <= host.position
      BY <1>4, <2>1, <3>1
    <3> QED
      BY <3>2 DEF IInv, Received
  <2>5. Len(guest.received) <= host'.position - host'.remainder
    BY <2>1, <2>4
  <2> QED
    BY <1>2, <1>5, <2>1, <2>2, <2>3, <2>4, <2>5 DEF Received
<1>15. Cancels'
    BY <1>1, <1>2, <1>3, <1>4, <1>5 DEF IInv, Cancels, Gives, Stays, Host!Active
<1>16. DemandsKept'
    BY <1>1, <1>2, <1>3, <1>4, <1>5 DEF IInv, DemandsKept, Wanted, Gives, Stays, Host!Active
<1> QED
    BY <1>6, <1>7, <1>8, <1>9, <1>10, <1>11, <1>12, <1>13, <1>14, <1>15, <1>16 DEF IInv

LEMMA BodyEnded ==
    ASSUME IInv,
           Stays(host, host', {"ended", "events"}),
           host.reading, ~host.ended, host.stage = "active", host'.ended,
           host'.events = Append(host.events, ChunkEvent(0, TRUE)),
           UNCHANGED <<mode, guest, answers, lost, newsLost>>,
           outcomes' = outcomes
    PROVE  IInv'
<1>1. guest \in Guests /\ host \in Hosts
    BY DEF IInv, FetchTyped
<1>2. /\ mode' = mode /\ guest' = guest /\ answers' = answers /\ lost' = lost /\ newsLost' = newsLost
      /\ \A op : Calls(op)' <=> Calls(op)
      /\ \A op : OneCall(op)' <=> OneCall(op)
      /\ (StartIsFirst' <=> StartIsFirst) /\ (Chunking' <=> Chunking) /\ (Finishing' <=> Finishing)
      /\ (ChunksProduced' <=> ChunksProduced)
      /\ \A op : Answering(op)' <=> Answering(op)
      /\ \A op : OneAnswer(op)' <=> OneAnswer(op)
    BY CallsKept, AnswersKept
<1>3. outcomes' = outcomes /\ (Failing' <=> Failing) /\ (Succeeding' <=> Succeeding)
    BY OutcomesKept
<1>4. /\ host.remainder = 0 /\ host.position \in Nat
      /\ guest.live => ~InFlight("chunk") /\ OneEvent("chunk") /\ Len(guest.received) = host.position
  <2>1. host.remainder = 0 /\ host.position \in Nat
      BY <1>1 DEF IInv, Received, Hosts
  <2>2. guest.live => ~InFlight("chunk") /\ OneEvent("chunk")
      BY DEF IInv, OneRead
  <2>3. guest.live => Len(guest.received) = host.position
      BY <2>1 DEF IInv, Received
  <2> QED
      BY <2>1, <2>2, <2>3
<1>5. /\ \A type : InFlight(type)' <=> InFlight(type) \/ type = "chunk"
      /\ guest.live => OneEvent("chunk")' /\ ChunksArrive'
  <2> DEFINE e == ChunkEvent(0, TRUE)
  <2>2. e \in EventTypes /\ e.type = "chunk" /\ e.last
      BY EventsAreEvents
  <2>3. host'.events = Append(host.events, e)
      OBVIOUS
  <2> HIDE DEF e
  <2>4. guest.live => Arrives(e, guest', host')
      BY <1>2, <1>4, <2>2 DEF Arrives, Stays
  <2> QED
      BY <1>4, <2>2, <2>3, <2>4, EventAdded DEF IInv
<1>6. FetchTyped'
    BY <1>1, <1>2, <1>3, <1>4, <1>5 DEF IInv, FetchTyped, Stays
<1>7. Starts'
    BY <1>1, <1>2, <1>3, <1>4, <1>5 DEF IInv, Starts, Stays
<1>8. Messages'
    BY <1>1, <1>2, <1>3, <1>4, <1>5 DEF IInv, Messages, Stays, Host!Active
<1>9. Freed'
    BY <1>1, <1>2, <1>3, <1>4, <1>5 DEF IInv, Freed, Stays, Host!Active
<1>10. OneUpload'
    BY <1>1, <1>2, <1>3, <1>4, <1>5 DEF IInv, OneUpload, Stays
<1>11. Exhausts'
    BY <1>1, <1>2, <1>3, <1>4, <1>5 DEF IInv, Exhausts, Stays
<1>12. Uploaded'
    BY <1>1, <1>2, <1>3, <1>4, <1>5 DEF IInv, Uploaded, Takes, Stays, Host!Active
<1>13. OneRead'
    BY <1>1, <1>2, <1>3, <1>4, <1>5 DEF IInv, OneRead, Stays
<1>14. Received'
    BY <1>1, <1>2, <1>3, <1>4, <1>5 DEF IInv, Received, Stays
<1>15. Cancels'
    BY <1>1, <1>2, <1>3, <1>4, <1>5 DEF IInv, Cancels, Stays, Host!Active
<1>16. DemandsKept'
    BY <1>1, <1>2, <1>3, <1>4, <1>5 DEF IInv, DemandsKept, Wanted, Stays, Host!Active
<1> QED
    BY <1>6, <1>7, <1>8, <1>9, <1>10, <1>11, <1>12, <1>13, <1>14, <1>15, <1>16 DEF IInv


(* ... or has nothing to drop any more.                                     *)
LEMMA FetchLeft ==
    ASSUME IInv,
           Stays(host, host', {"disposed"}), host.stage # "active",
           host.disposed => host'.disposed,
           UNCHANGED <<mode, guest, answers, lost, newsLost>>,
           outcomes' \in Seq(OutcomeTypes), Succeeding' => Succeeding, host'.stage = "absent" => outcomes' = <<>>
    PROVE  IInv'
<1>1. guest \in Guests /\ host \in Hosts
    BY DEF IInv, FetchTyped
<1>2. /\ mode' = mode /\ guest' = guest /\ answers' = answers /\ lost' = lost /\ newsLost' = newsLost
      /\ \A op : Calls(op)' <=> Calls(op)
      /\ \A op : OneCall(op)' <=> OneCall(op)
      /\ (StartIsFirst' <=> StartIsFirst) /\ (Chunking' <=> Chunking) /\ (Finishing' <=> Finishing)
      /\ (ChunksProduced' <=> ChunksProduced)
      /\ \A op : Answering(op)' <=> Answering(op)
      /\ \A op : OneAnswer(op)' <=> OneAnswer(op)
    BY CallsKept, AnswersKept
<1>3. /\ host'.events = host.events
      /\ \A type : InFlight(type)' <=> InFlight(type)
      /\ \A type : OneEvent(type)' <=> OneEvent(type)
      /\ ChunksArrive => ChunksArrive'
    BY EventsKept DEF Arrives, Stays
<1>4. FetchTyped'
    BY <1>1, <1>2, <1>3 DEF IInv, FetchTyped, Stays
<1>5. Starts'
    BY <1>1, <1>2, <1>3 DEF IInv, Starts, Stays
<1>6. Messages'
    BY <1>1, <1>2, <1>3 DEF IInv, Messages, Stays, Host!Active
<1>7. Freed'
    BY <1>1, <1>2, <1>3 DEF IInv, Freed, Stays, Host!Active
<1>8. OneUpload'
    BY <1>1, <1>2, <1>3 DEF IInv, OneUpload, Stays
<1>9. Exhausts'
    BY <1>1, <1>2, <1>3 DEF IInv, Exhausts, Stays
<1>10. Uploaded'
    BY <1>1, <1>2, <1>3 DEF IInv, Uploaded, Takes, Stays, Host!Active
<1>11. OneRead'
    BY <1>1, <1>2, <1>3 DEF IInv, OneRead, Stays
<1>12. Received'
    BY <1>1, <1>2, <1>3 DEF IInv, Received, Stays
<1>13. Cancels'
    BY <1>1, <1>2, <1>3 DEF IInv, Cancels, Stays, Host!Active
<1>14. DemandsKept'
    BY <1>1, <1>2, <1>3 DEF IInv, DemandsKept, Wanted, Stays, Host!Active
<1> QED
    BY <1>4, <1>5, <1>6, <1>7, <1>8, <1>9, <1>10, <1>11, <1>12, <1>13, <1>14 DEF IInv

LEMMA FetchWarned ==
    ASSUME IInv,
           Warns(host, host'), host.stage # "absent",
           UNCHANGED <<mode, guest, answers, lost, newsLost>>,
           outcomes' \in Seq(OutcomeTypes), Succeeding' => Succeeding, host'.stage = "absent" => outcomes' = <<>>
    PROVE  IInv'
<1>1. guest \in Guests /\ host \in Hosts
    BY DEF IInv, FetchTyped
<1>2. /\ mode' = mode /\ guest' = guest /\ answers' = answers /\ lost' = lost /\ newsLost' = newsLost
      /\ \A op : Calls(op)' <=> Calls(op)
      /\ \A op : OneCall(op)' <=> OneCall(op)
      /\ (StartIsFirst' <=> StartIsFirst) /\ (Chunking' <=> Chunking) /\ (Finishing' <=> Finishing)
      /\ (ChunksProduced' <=> ChunksProduced)
      /\ \A op : Answering(op)' <=> Answering(op)
      /\ \A op : OneAnswer(op)' <=> OneAnswer(op)
    BY CallsKept, AnswersKept
<1>3. /\ host'.events \in Seq(EventTypes) /\ host'.events # <<>>
      /\ \A type : InFlight(type)' <=> InFlight(type) \/ type = "error"
      /\ \A type : OneEvent(type) /\ (type # "error" \/ ~InFlight(type)) => OneEvent(type)'
      /\ ChunksArrive => ChunksArrive'
  <2>1. ErrorEvent \in EventTypes /\ ErrorEvent.type = "error"
      BY EventsAreEvents
  <2>2. \A f : Arrives(f, guest', host') <=> Arrives(f, guest, host)
      BY DEF Arrives, Warns, Stays
  <2> QED
      BY <2>1, <2>2, EventAdded DEF IInv, Warns
<1>4. FetchTyped'
    BY <1>1, <1>2, <1>3 DEF IInv, FetchTyped, Stays, Warns
<1>5. Starts'
    BY <1>1, <1>2, <1>3 DEF IInv, Starts, Stays, Warns
<1>6. Messages'
    BY <1>1, <1>2, <1>3 DEF IInv, Messages, Stays, Warns, Host!Active
<1>7. Freed'
    BY <1>1, <1>2, <1>3 DEF IInv, Freed, Stays, Warns, Host!Active
<1>8. OneUpload'
    BY <1>1, <1>2, <1>3 DEF IInv, OneUpload, Stays, Warns
<1>9. Exhausts'
    BY <1>1, <1>2, <1>3 DEF IInv, Exhausts, Stays, Warns
<1>10. Uploaded'
    BY <1>1, <1>2, <1>3 DEF IInv, Uploaded, Takes, Stays, Warns, Host!Active
<1>11. OneRead'
    BY <1>1, <1>2, <1>3 DEF IInv, OneRead, Stays, Warns
<1>12. Received'
    BY <1>1, <1>2, <1>3 DEF IInv, Received, Stays, Warns
<1>13. Cancels'
    BY <1>1, <1>2, <1>3 DEF IInv, Cancels, Stays, Warns, Host!Active
<1>14. DemandsKept'
    BY <1>1, <1>2, <1>3 DEF IInv, DemandsKept, Wanted, Stays, Warns, Host!Active
<1> QED
    BY <1>4, <1>5, <1>6, <1>7, <1>8, <1>9, <1>10, <1>11, <1>12, <1>13, <1>14 DEF IInv
-----------------------------------------------------------------------------
(* The guest's side of an event: it does not see it, or has given up, ...   *)
LEMMA EventMissed ==
    ASSUME IInv,
           guest' = guest,
           host.events # <<>>, NEW e, e = Head(host.events),
           Stays(host, host', {"events"}), host'.events = Tail(host.events),
           outcomes' \in Seq(OutcomeTypes), outcomes # <<>> \/ e.last => outcomes' # <<>>,
           Failing => Failing', Succeeding' => Succeeding \/ e.last,
           UNCHANGED <<mode, answers>>, lost' \in Nat,
           newsLost' \in BOOLEAN, newsLost => newsLost',
           guest.live => IF e.type = "error" THEN newsLost' ELSE Failing' /\ (Succeeding' => Succeeding)
    PROVE  IInv'
<1>1. guest \in Guests /\ host \in Hosts
    BY DEF IInv, FetchTyped
<1>2. /\ mode' = mode /\ answers' = answers
      /\ \A op : Answering(op)' <=> Answering(op)
      /\ \A op : OneAnswer(op)' <=> OneAnswer(op)
    BY AnswersKept
<1>3. /\ \A op : Calls(op)' <=> Calls(op)
      /\ \A op : OneCall(op)' <=> OneCall(op)
      /\ (StartIsFirst' <=> StartIsFirst) /\ (Chunking' <=> Chunking) /\ (Finishing' <=> Finishing)
      /\ ChunksProduced => ChunksProduced'
    BY CallsKept
<1>4. /\ host'.events \in Seq(EventTypes) /\ e \in EventTypes /\ host.stage # "absent"
      /\ \A type : InFlight(type) <=> InFlight(type)' \/ type = e.type
      /\ \A type : OneEvent(type) => OneEvent(type)' /\ (e.type = type => ~InFlight(type)')
      /\ ChunksArrive /\ e.type = "chunk" => Arrives(e, guest, host)
      /\ ChunksArrive => ChunksArrive'
  <2>1. \A f : Arrives(f, guest', host') <=> Arrives(f, guest, host)
      BY DEF Arrives, Stays
  <2>2. host.stage # "absent"
      BY DEF IInv, Starts
  <2> QED
      BY <2>1, <2>2, EventTaken DEF IInv
<1>5. guest.live => (Succeeding' => Succeeding)
    BY <1>4 DEF EventTypes
<1>6. FetchTyped'
    BY <1>1, <1>2, <1>3, <1>4, <1>5 DEF IInv, FetchTyped, Stays
<1>7. Starts'
    BY <1>1, <1>2, <1>3, <1>4, <1>5 DEF IInv, Starts, Stays
<1>8. Messages'
    BY <1>1, <1>2, <1>3, <1>4, <1>5 DEF IInv, Messages, Stays, Host!Active
<1>9. Freed'
    BY <1>1, <1>2, <1>3, <1>4, <1>5 DEF IInv, Freed, Stays, Host!Active
<1>10. OneUpload'
    BY <1>1, <1>2, <1>3, <1>4, <1>5 DEF IInv, OneUpload, Stays
<1>11. Exhausts'
    BY <1>1, <1>2, <1>3, <1>4, <1>5 DEF IInv, Exhausts, Stays
<1>12. Uploaded'
    BY <1>1, <1>2, <1>3, <1>4, <1>5 DEF IInv, Uploaded, Takes, Stays, Host!Active
<1>13. OneRead'
    BY <1>1, <1>2, <1>3, <1>4, <1>5 DEF IInv, OneRead, Stays
<1>14. Received'
    BY <1>1, <1>2, <1>3, <1>4, <1>5 DEF IInv, Received, Stays
<1>15. Cancels'
    BY <1>1, <1>2, <1>3, <1>4, <1>5 DEF IInv, Cancels, Stays, Host!Active
<1>16. DemandsKept'
    BY <1>1, <1>2, <1>3, <1>4, <1>5 DEF IInv, DemandsKept, Wanted, Stays, Host!Active
<1> QED
    BY <1>6, <1>7, <1>8, <1>9, <1>10, <1>11, <1>12, <1>13, <1>14, <1>15, <1>16 DEF IInv

(* ... is asked for the upload, ...                                         *)
LEMMA DemandHeard ==
    ASSUME IInv, NEW e,
           e.type = "uploadPull", Waits(guest, guest'),
           host.events # <<>>, e = Head(host.events),
           Stays(host, host', {"events"}), host'.events = Tail(host.events),
           outcomes' \in Seq(OutcomeTypes), outcomes # <<>> \/ e.last => outcomes' # <<>>,
           Failing => Failing', Succeeding' => Succeeding \/ e.last,
           UNCHANGED <<mode, answers>>, lost' \in Nat,
           newsLost' = newsLost, guest.live
    PROVE  IInv'
<1>1. guest \in Guests /\ host \in Hosts
    BY DEF IInv, FetchTyped
<1>2. /\ mode' = mode /\ answers' = answers
      /\ \A op : Answering(op)' <=> Answering(op)
      /\ \A op : OneAnswer(op)' <=> OneAnswer(op)
    BY AnswersKept
<1>3. /\ \A op : Calls(op)' <=> Calls(op)
      /\ \A op : OneCall(op)' <=> OneCall(op)
      /\ (StartIsFirst' <=> StartIsFirst) /\ (Chunking' <=> Chunking) /\ (Finishing' <=> Finishing)
      /\ ChunksProduced => ChunksProduced'
    BY CallsKept DEF Waits, Same
<1>4. /\ host'.events \in Seq(EventTypes) /\ e \in EventTypes /\ host.stage # "absent"
      /\ \A type : InFlight(type) <=> InFlight(type)' \/ type = e.type
      /\ \A type : OneEvent(type) => OneEvent(type)' /\ (e.type = type => ~InFlight(type)')
      /\ ChunksArrive /\ e.type = "chunk" => Arrives(e, guest, host)
      /\ ChunksArrive => ChunksArrive'
  <2>1. \A f : Arrives(f, guest', host') <=> Arrives(f, guest, host)
      BY DEF Arrives, Stays, Waits, Same
  <2>2. host.stage # "absent"
      BY DEF IInv, Starts
  <2> QED
      BY <2>1, <2>2, EventTaken DEF IInv
<1>5. Succeeding' => Succeeding
    BY <1>4 DEF EventTypes
<1>6. FetchTyped'
    BY <1>1, <1>2, <1>3, <1>4, <1>5 DEF IInv, FetchTyped, Same, Stays, Waits
<1>7. Starts'
    BY <1>1, <1>2, <1>3, <1>4, <1>5 DEF IInv, Starts, Same, Stays, Waits
<1>8. Messages'
    BY <1>1, <1>2, <1>3, <1>4, <1>5 DEF IInv, Messages, Same, Stays, Waits, Host!Active
<1>9. Freed'
    BY <1>1, <1>2, <1>3, <1>4, <1>5 DEF IInv, Freed, Same, Stays, Waits, Host!Active
<1>10. OneUpload'
    BY <1>1, <1>2, <1>3, <1>4, <1>5 DEF IInv, OneUpload, Same, Stays, Waits
<1>11. Exhausts'
    BY <1>1, <1>2, <1>3, <1>4, <1>5 DEF IInv, Exhausts, Same, Stays, Waits
<1>12. Uploaded'
    BY <1>1, <1>2, <1>3, <1>4, <1>5 DEF IInv, Uploaded, Takes, Same, Stays, Waits, Host!Active
<1>13. OneRead'
    BY <1>1, <1>2, <1>3, <1>4, <1>5 DEF IInv, OneRead, Same, Stays, Waits
<1>14. Received'
    BY <1>1, <1>2, <1>3, <1>4, <1>5 DEF IInv, Received, Same, Stays, Waits
<1>15. Cancels'
    BY <1>1, <1>2, <1>3, <1>4, <1>5 DEF IInv, Cancels, Same, Stays, Waits, Host!Active
<1>16. DemandsKept'
    BY <1>1, <1>2, <1>3, <1>4, <1>5 DEF IInv, DemandsKept, Wanted, Cancels, Same, Stays, Waits, Host!Active
<1> QED
    BY <1>6, <1>7, <1>8, <1>9, <1>10, <1>11, <1>12, <1>13, <1>14, <1>15, <1>16 DEF IInv

(* ... need not upload any more, ...                                        *)
LEMMA CancelHeard ==
    ASSUME IInv, NEW e,
           e.type = "uploadCancel",
           Same(guest, guest', {"cancelled", "upload", "demand"}), guest'.uploadCancelled, ~guest'.upload,
           host.events # <<>>, e = Head(host.events),
           Stays(host, host', {"events"}), host'.events = Tail(host.events),
           outcomes' \in Seq(OutcomeTypes), outcomes # <<>> \/ e.last => outcomes' # <<>>,
           Failing => Failing', Succeeding' => Succeeding \/ e.last,
           UNCHANGED <<mode, answers>>, lost' \in Nat,
           newsLost' = newsLost, guest.live
    PROVE  IInv'
<1>1. guest \in Guests /\ host \in Hosts
    BY DEF IInv, FetchTyped
<1>2. /\ mode' = mode /\ answers' = answers
      /\ \A op : Answering(op)' <=> Answering(op)
      /\ \A op : OneAnswer(op)' <=> OneAnswer(op)
    BY AnswersKept
<1>3. /\ \A op : Calls(op)' <=> Calls(op)
      /\ \A op : OneCall(op)' <=> OneCall(op)
      /\ (StartIsFirst' <=> StartIsFirst) /\ (Chunking' <=> Chunking) /\ (Finishing' <=> Finishing)
      /\ ChunksProduced => ChunksProduced'
    BY CallsKept DEF Same
<1>4. /\ host'.events \in Seq(EventTypes) /\ e \in EventTypes /\ host.stage # "absent"
      /\ \A type : InFlight(type) <=> InFlight(type)' \/ type = e.type
      /\ \A type : OneEvent(type) => OneEvent(type)' /\ (e.type = type => ~InFlight(type)')
      /\ ChunksArrive /\ e.type = "chunk" => Arrives(e, guest, host)
      /\ ChunksArrive => ChunksArrive'
  <2>1. \A f : Arrives(f, guest', host') <=> Arrives(f, guest, host)
      BY DEF Arrives, Stays, Same
  <2>2. host.stage # "absent"
      BY DEF IInv, Starts
  <2> QED
      BY <2>1, <2>2, EventTaken DEF IInv
<1>5. Succeeding' => Succeeding
    BY <1>4 DEF EventTypes
<1>6. FetchTyped'
    BY <1>1, <1>2, <1>3, <1>4, <1>5 DEF IInv, FetchTyped, Same, Stays
<1>7. Starts'
    BY <1>1, <1>2, <1>3, <1>4, <1>5 DEF IInv, Starts, Same, Stays
<1>8. Messages'
    BY <1>1, <1>2, <1>3, <1>4, <1>5 DEF IInv, Messages, Same, Stays, Host!Active
<1>9. Freed'
    BY <1>1, <1>2, <1>3, <1>4, <1>5 DEF IInv, Freed, Same, Stays, Host!Active
<1>10. OneUpload'
    BY <1>1, <1>2, <1>3, <1>4, <1>5 DEF IInv, OneUpload, Same, Stays
<1>11. Exhausts'
    BY <1>1, <1>2, <1>3, <1>4, <1>5 DEF IInv, Exhausts, Same, Stays
<1>12. Uploaded'
    BY <1>1, <1>2, <1>3, <1>4, <1>5 DEF IInv, Uploaded, Takes, Same, Stays, Host!Active
<1>13. OneRead'
    BY <1>1, <1>2, <1>3, <1>4, <1>5 DEF IInv, OneRead, Same, Stays
<1>14. Received'
    BY <1>1, <1>2, <1>3, <1>4, <1>5 DEF IInv, Received, Same, Stays
<1>15. Cancels'
    BY <1>1, <1>2, <1>3, <1>4, <1>5 DEF IInv, Cancels, Same, Stays, Host!Active
<1>16. DemandsKept'
    BY <1>1, <1>2, <1>3, <1>4, <1>5 DEF IInv, DemandsKept, Wanted, Cancels, Same, Stays, Host!Active
<1> QED
    BY <1>6, <1>7, <1>8, <1>9, <1>10, <1>11, <1>12, <1>13, <1>14, <1>15, <1>16 DEF IInv

(* ... hears that the fetch is over, ...                                    *)
LEMMA ErrorHeard ==
    ASSUME IInv, NEW e,
           e.type = "error",
           Closes(guest, guest', "errored"),
           host.events # <<>>, e = Head(host.events),
           Stays(host, host', {"events"}), host'.events = Tail(host.events),
           outcomes' \in Seq(OutcomeTypes), outcomes # <<>> \/ e.last => outcomes' # <<>>,
           Failing => Failing', Succeeding' => Succeeding \/ e.last,
           UNCHANGED <<mode, answers>>, lost' \in Nat,
           newsLost' = newsLost, guest.live
    PROVE  IInv'
<1>1. guest \in Guests /\ host \in Hosts
    BY DEF IInv, FetchTyped
<1>2. /\ mode' = mode /\ answers' = answers
      /\ \A op : Answering(op)' <=> Answering(op)
      /\ \A op : OneAnswer(op)' <=> OneAnswer(op)
    BY AnswersKept
<1>3. /\ \A op : Calls(op)' <=> Calls(op)
      /\ \A op : OneCall(op)' <=> OneCall(op)
      /\ (StartIsFirst' <=> StartIsFirst) /\ (Chunking' <=> Chunking) /\ (Finishing' <=> Finishing)
      /\ ChunksProduced => ChunksProduced'
    BY CallsKept DEF Closes, Same
<1>4. /\ host'.events \in Seq(EventTypes) /\ e \in EventTypes /\ host.stage # "absent"
      /\ \A type : InFlight(type) <=> InFlight(type)' \/ type = e.type
      /\ \A type : OneEvent(type) => OneEvent(type)' /\ (e.type = type => ~InFlight(type)')
      /\ ChunksArrive /\ e.type = "chunk" => Arrives(e, guest, host)
      /\ ChunksArrive => ChunksArrive'
  <2>1. \A f : Arrives(f, guest', host') <=> Arrives(f, guest, host)
      BY DEF Arrives, Stays, Closes, Same
  <2>2. host.stage # "absent"
      BY DEF IInv, Starts
  <2> QED
      BY <2>1, <2>2, EventTaken DEF IInv
<1>5. Succeeding' => Succeeding
    BY <1>4 DEF EventTypes
<1>6. FetchTyped'
    BY <1>1, <1>2, <1>3, <1>4, <1>5 DEF IInv, FetchTyped, Closes, Same, Stays
<1>7. Starts'
    BY <1>1, <1>2, <1>3, <1>4, <1>5 DEF IInv, Starts, Closes, Same, Stays
<1>8. Messages'
    BY <1>1, <1>2, <1>3, <1>4, <1>5 DEF IInv, Messages, Closes, Same, Stays, Host!Active
<1>9. Freed'
    BY <1>1, <1>2, <1>3, <1>4, <1>5 DEF IInv, Freed, Closes, Messages, Same, Starts, Stays, Host!Active
<1>10. OneUpload'
    BY <1>1, <1>2, <1>3, <1>4, <1>5 DEF IInv, OneUpload, Closes, Same, Stays
<1>11. Exhausts'
    BY <1>1, <1>2, <1>3, <1>4, <1>5 DEF IInv, Exhausts, Closes, Same, Stays
<1>12. Uploaded'
    BY <1>1, <1>2, <1>3, <1>4, <1>5 DEF IInv, Uploaded, Takes, Closes, Same, Stays, Host!Active
<1>13. OneRead'
    BY <1>1, <1>2, <1>3, <1>4, <1>5 DEF IInv, OneRead, Closes, Same, Stays
<1>14. Received'
    BY <1>1, <1>2, <1>3, <1>4, <1>5 DEF IInv, Received, Closes, Same, Stays
<1>15. Cancels'
    BY <1>1, <1>2, <1>3, <1>4, <1>5 DEF IInv, Cancels, Closes, Same, Stays, Host!Active
<1>16. DemandsKept'
    BY <1>1, <1>2, <1>3, <1>4, <1>5 DEF IInv, DemandsKept, Wanted, Closes, Same, Stays, Host!Active
<1> QED
    BY <1>6, <1>7, <1>8, <1>9, <1>10, <1>11, <1>12, <1>13, <1>14, <1>15, <1>16 DEF IInv

LEMMA ResponseEnds ==
    ASSUME IInv, NEW e,
           e.type = "response", e.last,
           Closes(guest, guest', guest.stream),
           host.events # <<>>, e = Head(host.events),
           Stays(host, host', {"events"}), host'.events = Tail(host.events),
           outcomes' \in Seq(OutcomeTypes), outcomes # <<>> \/ e.last => outcomes' # <<>>,
           Failing => Failing', Succeeding' => Succeeding \/ e.last,
           UNCHANGED <<mode, answers>>, lost' \in Nat,
           newsLost' = newsLost, guest.live
    PROVE  IInv'
<1>1. guest \in Guests /\ host \in Hosts
    BY DEF IInv, FetchTyped
<1>2. /\ mode' = mode /\ answers' = answers
      /\ \A op : Answering(op)' <=> Answering(op)
      /\ \A op : OneAnswer(op)' <=> OneAnswer(op)
    BY AnswersKept
<1>3. /\ \A op : Calls(op)' <=> Calls(op)
      /\ \A op : OneCall(op)' <=> OneCall(op)
      /\ (StartIsFirst' <=> StartIsFirst) /\ (Chunking' <=> Chunking) /\ (Finishing' <=> Finishing)
      /\ ChunksProduced => ChunksProduced'
    BY CallsKept DEF Closes, Same
<1>4. /\ host'.events \in Seq(EventTypes) /\ e \in EventTypes /\ host.stage # "absent"
      /\ \A type : InFlight(type) <=> InFlight(type)' \/ type = e.type
      /\ \A type : OneEvent(type) => OneEvent(type)' /\ (e.type = type => ~InFlight(type)')
      /\ ChunksArrive /\ e.type = "chunk" => Arrives(e, guest, host)
      /\ ChunksArrive => ChunksArrive'
  <2>1. \A f : Arrives(f, guest', host') <=> Arrives(f, guest, host)
      BY DEF Arrives, Stays, Closes, Same
  <2>2. host.stage # "absent"
      BY DEF IInv, Starts
  <2> QED
      BY <2>1, <2>2, EventTaken DEF IInv
<1>5. FetchTyped'
    BY <1>1, <1>2, <1>3, <1>4 DEF IInv, FetchTyped, Closes, Same, Stays
<1>6. Starts'
    BY <1>1, <1>2, <1>3, <1>4 DEF IInv, Starts, Closes, Same, Stays
<1>7. Messages'
    BY <1>1, <1>2, <1>3, <1>4 DEF IInv, Messages, Closes, Same, Stays, Host!Active
<1>8. Freed'
    BY <1>1, <1>2, <1>3, <1>4 DEF IInv, Freed, Closes, Same, Starts, Stays, Host!Active
<1>9. OneUpload'
    BY <1>1, <1>2, <1>3, <1>4 DEF IInv, OneUpload, Closes, Same, Stays
<1>10. Exhausts'
    BY <1>1, <1>2, <1>3, <1>4 DEF IInv, Exhausts, Closes, Same, Stays
<1>11. Uploaded'
    BY <1>1, <1>2, <1>3, <1>4 DEF IInv, Uploaded, Takes, Closes, Same, Stays, Host!Active
<1>12. OneRead'
    BY <1>1, <1>2, <1>3, <1>4 DEF IInv, OneRead, Closes, Same, Stays
<1>13. Received'
    BY <1>1, <1>2, <1>3, <1>4 DEF IInv, Received, Closes, Same, Stays
<1>14. Cancels'
    BY <1>1, <1>2, <1>3, <1>4 DEF IInv, Cancels, Closes, Same, Stays, Host!Active
<1>15. DemandsKept'
    BY <1>1, <1>2, <1>3, <1>4 DEF IInv, DemandsKept, Wanted, Closes, Same, Stays, Host!Active
<1> QED
    BY <1>5, <1>6, <1>7, <1>8, <1>9, <1>10, <1>11, <1>12, <1>13, <1>14, <1>15 DEF IInv

(* ... or that there is a response, ...                                     *)
LEMMA ResponseHeard ==
    ASSUME IInv, NEW e,
           e.type = "response", ~e.last,
           Same(guest, guest', {"stream"}), guest'.stream = "open",
           host.events # <<>>, e = Head(host.events),
           Stays(host, host', {"events"}), host'.events = Tail(host.events),
           outcomes' \in Seq(OutcomeTypes), outcomes # <<>> \/ e.last => outcomes' # <<>>,
           Failing => Failing', Succeeding' => Succeeding \/ e.last,
           UNCHANGED <<mode, answers>>, lost' \in Nat,
           newsLost' = newsLost, guest.live
    PROVE  IInv'
<1>1. guest \in Guests /\ host \in Hosts
    BY DEF IInv, FetchTyped
<1>2. /\ mode' = mode /\ answers' = answers
      /\ \A op : Answering(op)' <=> Answering(op)
      /\ \A op : OneAnswer(op)' <=> OneAnswer(op)
    BY AnswersKept
<1>3. /\ \A op : Calls(op)' <=> Calls(op)
      /\ \A op : OneCall(op)' <=> OneCall(op)
      /\ (StartIsFirst' <=> StartIsFirst) /\ (Chunking' <=> Chunking) /\ (Finishing' <=> Finishing)
      /\ ChunksProduced => ChunksProduced'
    BY CallsKept DEF Same
<1>4. /\ host'.events \in Seq(EventTypes) /\ e \in EventTypes /\ host.stage # "absent"
      /\ \A type : InFlight(type) <=> InFlight(type)' \/ type = e.type
      /\ \A type : OneEvent(type) => OneEvent(type)' /\ (e.type = type => ~InFlight(type)')
      /\ ChunksArrive /\ e.type = "chunk" => Arrives(e, guest, host)
      /\ ChunksArrive => ChunksArrive'
  <2>1. \A f : Arrives(f, guest', host') <=> Arrives(f, guest, host)
      BY DEF Arrives, Stays, Same
  <2>2. host.stage # "absent"
      BY DEF IInv, Starts
  <2> QED
      BY <2>1, <2>2, EventTaken DEF IInv
<1>5. Succeeding' => Succeeding
    BY <1>4 DEF EventTypes
<1>6. FetchTyped'
    BY <1>1, <1>2, <1>3, <1>4, <1>5 DEF IInv, FetchTyped, Same, Stays
<1>7. Starts'
    BY <1>1, <1>2, <1>3, <1>4, <1>5 DEF IInv, Starts, Same, Stays
<1>8. Messages'
    BY <1>1, <1>2, <1>3, <1>4, <1>5 DEF IInv, Messages, Same, Stays, Host!Active
<1>9. Freed'
    BY <1>1, <1>2, <1>3, <1>4, <1>5 DEF IInv, Freed, Same, Stays, Host!Active
<1>10. OneUpload'
    BY <1>1, <1>2, <1>3, <1>4, <1>5 DEF IInv, OneUpload, Same, Stays
<1>11. Exhausts'
    BY <1>1, <1>2, <1>3, <1>4, <1>5 DEF IInv, Exhausts, Same, Stays
<1>12. Uploaded'
    BY <1>1, <1>2, <1>3, <1>4, <1>5 DEF IInv, Uploaded, Takes, Same, Stays, Host!Active
<1>13. OneRead'
    BY <1>1, <1>2, <1>3, <1>4, <1>5 DEF IInv, OneRead, Same, Stays
<1>14. Received'
    BY <1>1, <1>2, <1>3, <1>4, <1>5 DEF IInv, Received, Same, Stays
<1>15. Cancels'
    BY <1>1, <1>2, <1>3, <1>4, <1>5 DEF IInv, Cancels, Same, Stays, Host!Active
<1>16. DemandsKept'
    BY <1>1, <1>2, <1>3, <1>4, <1>5 DEF IInv, DemandsKept, Wanted, Same, Stays, Host!Active
<1> QED
    BY <1>6, <1>7, <1>8, <1>9, <1>10, <1>11, <1>12, <1>13, <1>14, <1>15, <1>16 DEF IInv

(* ... and gets the chunks of its body.                                     *)
LEMMA BodyCloses ==
    ASSUME IInv, NEW e,
           e.type = "chunk", e.last,
           Closes(guest, guest', "closed"),
           host.events # <<>>, e = Head(host.events),
           Stays(host, host', {"events"}), host'.events = Tail(host.events),
           outcomes' \in Seq(OutcomeTypes), outcomes # <<>> \/ e.last => outcomes' # <<>>,
           Failing => Failing', Succeeding' => Succeeding \/ e.last,
           UNCHANGED <<mode, answers>>, lost' \in Nat,
           newsLost' = newsLost, guest.live
    PROVE  IInv'
<1>1. guest \in Guests /\ host \in Hosts
    BY DEF IInv, FetchTyped
<1>2. /\ mode' = mode /\ answers' = answers
      /\ \A op : Answering(op)' <=> Answering(op)
      /\ \A op : OneAnswer(op)' <=> OneAnswer(op)
    BY AnswersKept
<1>3. /\ \A op : Calls(op)' <=> Calls(op)
      /\ \A op : OneCall(op)' <=> OneCall(op)
      /\ (StartIsFirst' <=> StartIsFirst) /\ (Chunking' <=> Chunking) /\ (Finishing' <=> Finishing)
      /\ ChunksProduced => ChunksProduced'
    BY CallsKept DEF Closes, Same
<1>4. /\ host'.events \in Seq(EventTypes) /\ e \in EventTypes /\ host.stage # "absent"
      /\ \A type : InFlight(type) <=> InFlight(type)' \/ type = e.type
      /\ \A type : OneEvent(type) => OneEvent(type)' /\ (e.type = type => ~InFlight(type)')
      /\ ChunksArrive /\ e.type = "chunk" => Arrives(e, guest, host)
      /\ ChunksArrive => ChunksArrive'
  <2>1. \A f : Arrives(f, guest', host') <=> Arrives(f, guest, host)
      BY DEF Arrives, Stays, Closes, Same
  <2>2. host.stage # "absent"
      BY DEF IInv, Starts
  <2> QED
      BY <2>1, <2>2, EventTaken DEF IInv
<1>5. host.ended /\ Len(guest.received) = host.position
    BY <1>4 DEF IInv, Received, Arrives
<1>6. FetchTyped'
    BY <1>1, <1>2, <1>3, <1>4, <1>5 DEF IInv, FetchTyped, Closes, Same, Stays
<1>7. Starts'
    BY <1>1, <1>2, <1>3, <1>4, <1>5 DEF IInv, Starts, Closes, Same, Stays
<1>8. Messages'
    BY <1>1, <1>2, <1>3, <1>4, <1>5 DEF IInv, Messages, Closes, Same, Stays, Host!Active
<1>9. Freed'
    BY <1>1, <1>2, <1>3, <1>4, <1>5 DEF IInv, Freed, Closes, Same, Starts, Stays, Host!Active
<1>10. OneUpload'
    BY <1>1, <1>2, <1>3, <1>4, <1>5 DEF IInv, OneUpload, Closes, Same, Stays
<1>11. Exhausts'
    BY <1>1, <1>2, <1>3, <1>4, <1>5 DEF IInv, Exhausts, Closes, Same, Stays
<1>12. Uploaded'
    BY <1>1, <1>2, <1>3, <1>4, <1>5 DEF IInv, Uploaded, Takes, Closes, Same, Stays, Host!Active
<1>13. OneRead'
    BY <1>1, <1>2, <1>3, <1>4, <1>5 DEF IInv, OneRead, Closes, Same, Stays
<1>14. Received'
    BY <1>1, <1>2, <1>3, <1>4, <1>5 DEF IInv, Received, Closes, Same, Stays
<1>15. Cancels'
    BY <1>1, <1>2, <1>3, <1>4, <1>5 DEF IInv, Cancels, Closes, Same, Stays, Host!Active
<1>16. DemandsKept'
    BY <1>1, <1>2, <1>3, <1>4, <1>5 DEF IInv, DemandsKept, Wanted, Closes, Same, Stays, Host!Active
<1> QED
    BY <1>6, <1>7, <1>8, <1>9, <1>10, <1>11, <1>12, <1>13, <1>14, <1>15, <1>16 DEF IInv

LEMMA ChunkHeard ==
    ASSUME IInv, NEW e,
           e.type = "chunk", ~e.last,
           Same(guest, guest', {"received", "pull"}), ~guest'.pull,
           guest'.received = Append(guest.received, e.chunk),
           host.events # <<>>, e = Head(host.events),
           Stays(host, host', {"events"}), host'.events = Tail(host.events),
           outcomes' \in Seq(OutcomeTypes), outcomes # <<>> \/ e.last => outcomes' # <<>>,
           Failing => Failing', Succeeding' => Succeeding \/ e.last,
           UNCHANGED <<mode, answers>>, lost' \in Nat,
           newsLost' = newsLost, guest.live
    PROVE  IInv'
<1>1. guest \in Guests /\ host \in Hosts
    BY DEF IInv, FetchTyped
<1>2. /\ mode' = mode /\ answers' = answers
      /\ \A op : Answering(op)' <=> Answering(op)
      /\ \A op : OneAnswer(op)' <=> OneAnswer(op)
    BY AnswersKept
<1>3. /\ \A op : Calls(op)' <=> Calls(op)
      /\ \A op : OneCall(op)' <=> OneCall(op)
      /\ (StartIsFirst' <=> StartIsFirst) /\ (Chunking' <=> Chunking) /\ (Finishing' <=> Finishing)
      /\ ChunksProduced => ChunksProduced'
    BY CallsKept DEF Same
<1>4. /\ host'.events \in Seq(EventTypes) /\ e \in EventTypes /\ host.stage # "absent"
      /\ \A type : InFlight(type) <=> InFlight(type)' \/ type = e.type
      /\ \A type : OneEvent(type) => OneEvent(type)' /\ (e.type = type => ~InFlight(type)')
      /\ ChunksArrive /\ e.type = "chunk" => Arrives(e, guest, host)
      /\ ~InFlight("chunk")' => ChunksArrive'
  <2>2. host.stage # "absent"
      BY DEF IInv, Starts
  <2> QED
      BY <2>2, EventTaken DEF IInv
<1>5. Succeeding' => Succeeding
    BY <1>4 DEF EventTypes
<1>6. /\ e.chunk = Len(guest.received) + 1 /\ e.chunk = host.position - host.remainder
      /\ guest.pull /\ ~Calls("read") /\ ~host.reading /\ ~InFlight("chunk")'
  <2>1. e.chunk = Len(guest.received) + 1 /\ e.chunk = host.position - host.remainder
      BY <1>4 DEF IInv, Received, Arrives
  <2>2. guest.pull /\ ~Calls("read") /\ (host.ended \/ ~host.reading) /\ ~InFlight("chunk")'
      BY <1>4 DEF IInv, OneRead
  <2>3. host.reading => Len(guest.received) = host.position - host.remainder
      BY DEF IInv, Received
  <2>4. Len(guest.received) \in Nat
      BY <1>1 DEF Guests
  <2> QED
      BY <2>1, <2>2, <2>3, <2>4
<1>7. /\ Len(guest'.received) = Len(guest.received) + 1 /\ Numbered(guest'.received)
  <2>1. guest.received \in Seq(Nat) /\ e.chunk \in Nat
      BY <1>1, <1>4 DEF Guests, EventTypes
  <2>2. Numbered(guest.received)
      BY DEF IInv, Received
  <2>3. /\ Len(guest.received) \in Nat /\ DOMAIN guest.received = 1 .. Len(guest.received)
          /\ DOMAIN guest'.received = 1 .. (Len(guest.received) + 1)
          /\ \A i \in DOMAIN guest.received : guest'.received[i] = guest.received[i]
          /\ guest'.received[Len(guest.received) + 1] = e.chunk
          /\ Len(guest'.received) = Len(guest.received) + 1
      BY <2>1, Grows
  <2>4. \A i \in DOMAIN guest'.received : i \in DOMAIN guest.received \/ i = Len(guest.received) + 1
      BY <2>3
  <2> QED
      BY <1>6, <2>2, <2>3, <2>4 DEF Numbered
<1>8. FetchTyped'
    BY <1>1, <1>2, <1>3, <1>4, <1>5, <1>6, <1>7 DEF IInv, FetchTyped, Same, Stays
<1>9. Starts'
    BY <1>1, <1>2, <1>3, <1>4, <1>5, <1>6, <1>7 DEF IInv, Starts, Same, Stays
<1>10. Messages'
    BY <1>1, <1>2, <1>3, <1>4, <1>5, <1>6, <1>7 DEF IInv, Messages, Same, Stays, Host!Active
<1>11. Freed'
    BY <1>1, <1>2, <1>3, <1>4, <1>5, <1>6, <1>7 DEF IInv, Freed, Same, Stays, Host!Active
<1>12. OneUpload'
    BY <1>1, <1>2, <1>3, <1>4, <1>5, <1>6, <1>7 DEF IInv, OneUpload, Same, Stays
<1>13. Exhausts'
    BY <1>1, <1>2, <1>3, <1>4, <1>5, <1>6, <1>7 DEF IInv, Exhausts, Same, Stays
<1>14. Uploaded'
  <2>1. /\ SameUpload(host, host')
        /\ guest'.produced = guest.produced /\ guest'.exhausted = guest.exhausted
      BY DEF SameUpload, Same, Stays
  <2> QED
      BY <1>3, <2>1, UploadedKept DEF IInv
<1>15. OneRead'
    BY <1>1, <1>2, <1>3, <1>4, <1>5, <1>6, <1>7 DEF IInv, OneRead, Same, Stays
<1>16. Received'
    BY <1>1, <1>2, <1>3, <1>4, <1>5, <1>6, <1>7 DEF IInv, Received, Same, Stays
<1>17. Cancels'
    BY <1>1, <1>2, <1>3, <1>4, <1>5, <1>6, <1>7 DEF IInv, Cancels, Same, Stays, Host!Active
<1>18. DemandsKept'
    BY <1>1, <1>2, <1>3, <1>4, <1>5, <1>6, <1>7 DEF IInv, DemandsKept, Wanted, Same, Stays, Host!Active
<1> QED
    BY <1>8, <1>9, <1>10, <1>11, <1>12, <1>13, <1>14, <1>15, <1>16, <1>17, <1>18 DEF IInv
-----------------------------------------------------------------------------
(* The calls.  One is refused, ...                                          *)
LEMMA StartRefused ==
    ASSUME IInv, NEW c,
           guest.calls # <<>>, c = Head(guest.calls),
           Same(guest, guest', {"calls"}), guest'.calls = Tail(guest.calls),
           c.op = "start",
           host' = host,
           answers' = Append(answers, [op |-> "start", ok |-> FALSE]),
           UNCHANGED <<mode, outcomes, lost, newsLost>>
    PROVE  IInv'
<1>1. guest \in Guests /\ host \in Hosts
    BY DEF IInv, FetchTyped
<1>2. /\ c \in CallTypes
      /\ \A op : Calls(op) <=> Calls(op)' \/ op = c.op
      /\ \A op : OneCall(op) => OneCall(op)' /\ (c.op = op => ~Calls(op)')
      /\ StartIsFirst' /\ ~Calls("start")'
      /\ Chunking <=> Chunking' \/ (c.op = "upload" /\ ~c.done)
      /\ Finishing <=> Finishing' \/ (c.op = "upload" /\ c.done)
      /\ ChunksProduced' /\ (c.op = "upload" /\ ~c.done => c.chunk = guest.produced)
    BY CallTaken DEF IInv, Starts, Exhausts, Same
<1>3. outcomes' = outcomes /\ (Failing' <=> Failing) /\ (Succeeding' <=> Succeeding)
    BY OutcomesKept
<1>4. /\ answers' \in Seq(AnswerTypes) /\ answers' # <<>>
      /\ \A op : Answering(op)' <=> Answering(op) \/ op = "start"
      /\ \A op : OneAnswer(op) /\ (op # "start" \/ ~Answering(op)) => OneAnswer(op)'
  <2> DEFINE a == [op |-> "start", ok |-> FALSE]
  <2>1. a \in AnswerTypes /\ a.op = "start" /\ answers' = Append(answers, a)
      BY DEF AnswerTypes
  <2> HIDE DEF a
  <2> QED
      BY <2>1, AnswerAdded DEF IInv
<1>5. /\ host'.events = host.events
      /\ \A type : InFlight(type)' <=> InFlight(type)
      /\ \A type : OneEvent(type)' <=> OneEvent(type)
      /\ ChunksArrive => ChunksArrive'
    BY EventsKept DEF Arrives, Same
<1>6. FetchTyped'
    BY <1>1, <1>2, <1>3, <1>4, <1>5 DEF IInv, FetchTyped, Same
<1>7. Starts'
    BY <1>1, <1>2, <1>3, <1>4, <1>5 DEF IInv, Starts, Same
<1>8. Messages'
    BY <1>1, <1>2, <1>3, <1>4, <1>5 DEF IInv, Messages, Same, Host!Active
<1>9. Freed'
    BY <1>1, <1>2, <1>3, <1>4, <1>5 DEF IInv, Freed, Same, Starts, Host!Active
<1>10. OneUpload'
    BY <1>1, <1>2, <1>3, <1>4, <1>5 DEF IInv, OneUpload, Same
<1>11. Exhausts'
    BY <1>1, <1>2, <1>3, <1>4, <1>5 DEF IInv, Exhausts, Same
<1>12. Uploaded'
    BY <1>1, <1>2, <1>3, <1>4, <1>5 DEF IInv, Uploaded, Takes, Exhausts, OneUpload, Same, Host!Active
<1>13. OneRead'
    BY <1>1, <1>2, <1>3, <1>4, <1>5 DEF IInv, OneRead, Same
<1>14. Received'
    BY <1>1, <1>2, <1>3, <1>4, <1>5 DEF IInv, Received, Same
<1>15. Cancels'
    BY <1>1, <1>2, <1>3, <1>4, <1>5 DEF IInv, Cancels, Exhausts, Same, Host!Active
<1>16. DemandsKept'
    BY <1>1, <1>2, <1>3, <1>4, <1>5 DEF IInv, DemandsKept, Wanted, Cancels, Same, Host!Active
<1> QED
    BY <1>6, <1>7, <1>8, <1>9, <1>10, <1>11, <1>12, <1>13, <1>14, <1>15, <1>16 DEF IInv

LEMMA UploadRefused ==
    ASSUME IInv, NEW c,
           guest.calls # <<>>, c = Head(guest.calls),
           Same(guest, guest', {"calls"}), guest'.calls = Tail(guest.calls),
           c.op = "upload",
           host.stage # "active" \/ (host.mode # "replayable" /\ host.upload # "open"),
           host' = host,
           answers' = Append(answers, [op |-> "upload", ok |-> FALSE]),
           UNCHANGED <<mode, outcomes, lost, newsLost>>
    PROVE  IInv'
<1>1. guest \in Guests /\ host \in Hosts
    BY DEF IInv, FetchTyped
<1>2. /\ c \in CallTypes
      /\ \A op : Calls(op) <=> Calls(op)' \/ op = c.op
      /\ \A op : OneCall(op) => OneCall(op)' /\ (c.op = op => ~Calls(op)')
      /\ StartIsFirst' /\ ~Calls("start")'
      /\ Chunking <=> Chunking' \/ (c.op = "upload" /\ ~c.done)
      /\ Finishing <=> Finishing' \/ (c.op = "upload" /\ c.done)
      /\ ChunksProduced' /\ (c.op = "upload" /\ ~c.done => c.chunk = guest.produced)
    BY CallTaken DEF IInv, Starts, Exhausts, Same
<1>3. outcomes' = outcomes /\ (Failing' <=> Failing) /\ (Succeeding' <=> Succeeding)
    BY OutcomesKept
<1>4. /\ answers' \in Seq(AnswerTypes) /\ answers' # <<>>
      /\ \A op : Answering(op)' <=> Answering(op) \/ op = "upload"
      /\ \A op : OneAnswer(op) /\ (op # "upload" \/ ~Answering(op)) => OneAnswer(op)'
  <2> DEFINE a == [op |-> "upload", ok |-> FALSE]
  <2>1. a \in AnswerTypes /\ a.op = "upload" /\ answers' = Append(answers, a)
      BY DEF AnswerTypes
  <2> HIDE DEF a
  <2> QED
      BY <2>1, AnswerAdded DEF IInv
<1>5. /\ host'.events = host.events
      /\ \A type : InFlight(type)' <=> InFlight(type)
      /\ \A type : OneEvent(type)' <=> OneEvent(type)
      /\ ChunksArrive => ChunksArrive'
    BY EventsKept DEF Arrives, Same
<1>6. FetchTyped'
    BY <1>1, <1>2, <1>3, <1>4, <1>5 DEF IInv, FetchTyped, Same
<1>7. Starts'
    BY <1>1, <1>2, <1>3, <1>4, <1>5 DEF IInv, Starts, Same
<1>8. Messages'
    BY <1>1, <1>2, <1>3, <1>4, <1>5 DEF IInv, Messages, Same, Host!Active
<1>9. Freed'
    BY <1>1, <1>2, <1>3, <1>4, <1>5 DEF IInv, Freed, Same, Starts, Host!Active
<1>10. OneUpload'
    BY <1>1, <1>2, <1>3, <1>4, <1>5 DEF IInv, OneUpload, Same
<1>11. Exhausts'
    BY <1>1, <1>2, <1>3, <1>4, <1>5 DEF IInv, Exhausts, Same
<1>12. Uploaded'
    BY <1>1, <1>2, <1>3, <1>4, <1>5 DEF IInv, Uploaded, Takes, Exhausts, OneUpload, Same, Host!Active
<1>13. OneRead'
    BY <1>1, <1>2, <1>3, <1>4, <1>5 DEF IInv, OneRead, Same
<1>14. Received'
    BY <1>1, <1>2, <1>3, <1>4, <1>5 DEF IInv, Received, Same
<1>15. Cancels'
    BY <1>1, <1>2, <1>3, <1>4, <1>5 DEF IInv, Cancels, Exhausts, Same, Host!Active
<1>16. DemandsKept'
    BY <1>1, <1>2, <1>3, <1>4, <1>5 DEF IInv, DemandsKept, Wanted, Cancels, Same, Host!Active
<1> QED
    BY <1>6, <1>7, <1>8, <1>9, <1>10, <1>11, <1>12, <1>13, <1>14, <1>15, <1>16 DEF IInv

LEMMA ReadRefused ==
    ASSUME IInv, NEW c,
           guest.calls # <<>>, c = Head(guest.calls),
           Same(guest, guest', {"calls"}), guest'.calls = Tail(guest.calls),
           c.op = "read",
           host' = host,
           answers' = Append(answers, [op |-> "read", ok |-> FALSE]),
           UNCHANGED <<mode, outcomes, lost, newsLost>>
    PROVE  IInv'
<1>1. guest \in Guests /\ host \in Hosts
    BY DEF IInv, FetchTyped
<1>2. /\ c \in CallTypes
      /\ \A op : Calls(op) <=> Calls(op)' \/ op = c.op
      /\ \A op : OneCall(op) => OneCall(op)' /\ (c.op = op => ~Calls(op)')
      /\ StartIsFirst' /\ ~Calls("start")'
      /\ Chunking <=> Chunking' \/ (c.op = "upload" /\ ~c.done)
      /\ Finishing <=> Finishing' \/ (c.op = "upload" /\ c.done)
      /\ ChunksProduced' /\ (c.op = "upload" /\ ~c.done => c.chunk = guest.produced)
    BY CallTaken DEF IInv, Starts, Exhausts, Same
<1>3. outcomes' = outcomes /\ (Failing' <=> Failing) /\ (Succeeding' <=> Succeeding)
    BY OutcomesKept
<1>4. /\ answers' \in Seq(AnswerTypes) /\ answers' # <<>>
      /\ \A op : Answering(op)' <=> Answering(op) \/ op = "read"
      /\ \A op : OneAnswer(op) /\ (op # "read" \/ ~Answering(op)) => OneAnswer(op)'
  <2> DEFINE a == [op |-> "read", ok |-> FALSE]
  <2>1. a \in AnswerTypes /\ a.op = "read" /\ answers' = Append(answers, a)
      BY DEF AnswerTypes
  <2> HIDE DEF a
  <2> QED
      BY <2>1, AnswerAdded DEF IInv
<1>5. /\ host'.events = host.events
      /\ \A type : InFlight(type)' <=> InFlight(type)
      /\ \A type : OneEvent(type)' <=> OneEvent(type)
      /\ ChunksArrive => ChunksArrive'
    BY EventsKept DEF Arrives, Same
<1>6. FetchTyped'
    BY <1>1, <1>2, <1>3, <1>4, <1>5 DEF IInv, FetchTyped, Same
<1>7. Starts'
    BY <1>1, <1>2, <1>3, <1>4, <1>5 DEF IInv, Starts, Same
<1>8. Messages'
    BY <1>1, <1>2, <1>3, <1>4, <1>5 DEF IInv, Messages, Same, Host!Active
<1>9. Freed'
    BY <1>1, <1>2, <1>3, <1>4, <1>5 DEF IInv, Freed, Same, Starts, Host!Active
<1>10. OneUpload'
    BY <1>1, <1>2, <1>3, <1>4, <1>5 DEF IInv, OneUpload, Same
<1>11. Exhausts'
    BY <1>1, <1>2, <1>3, <1>4, <1>5 DEF IInv, Exhausts, Same
<1>12. Uploaded'
    BY <1>1, <1>2, <1>3, <1>4, <1>5 DEF IInv, Uploaded, Takes, Exhausts, OneUpload, Same, Host!Active
<1>13. OneRead'
    BY <1>1, <1>2, <1>3, <1>4, <1>5 DEF IInv, OneRead, Same
<1>14. Received'
    BY <1>1, <1>2, <1>3, <1>4, <1>5 DEF IInv, Received, Same
<1>15. Cancels'
    BY <1>1, <1>2, <1>3, <1>4, <1>5 DEF IInv, Cancels, Exhausts, Same, Host!Active
<1>16. DemandsKept'
    BY <1>1, <1>2, <1>3, <1>4, <1>5 DEF IInv, DemandsKept, Wanted, Cancels, Same, Host!Active
<1> QED
    BY <1>6, <1>7, <1>8, <1>9, <1>10, <1>11, <1>12, <1>13, <1>14, <1>15, <1>16 DEF IInv

(* ... a cancellation releases the fetch, ...                               *)
LEMMA CancelHandled ==
    ASSUME IInv, NEW c,
           guest.calls # <<>>, c = Head(guest.calls),
           Same(guest, guest', {"calls"}), guest'.calls = Tail(guest.calls),
           c.op = "cancel",
           Releases(host, host') \/ (host' = host /\ host.stage # "active"),
           answers' = answers,
           UNCHANGED <<mode, outcomes, lost, newsLost>>
    PROVE  IInv'
<1>1. guest \in Guests /\ host \in Hosts
    BY DEF IInv, FetchTyped
<1>2. /\ c \in CallTypes
      /\ \A op : Calls(op) <=> Calls(op)' \/ op = c.op
      /\ \A op : OneCall(op) => OneCall(op)' /\ (c.op = op => ~Calls(op)')
      /\ StartIsFirst' /\ ~Calls("start")'
      /\ Chunking <=> Chunking' \/ (c.op = "upload" /\ ~c.done)
      /\ Finishing <=> Finishing' \/ (c.op = "upload" /\ c.done)
      /\ ChunksProduced' /\ (c.op = "upload" /\ ~c.done => c.chunk = guest.produced)
    BY CallTaken DEF IInv, Starts, Exhausts, Same
<1>3. outcomes' = outcomes /\ (Failing' <=> Failing) /\ (Succeeding' <=> Succeeding)
    BY OutcomesKept
<1>4. /\ answers' = answers
      /\ \A op : Answering(op)' <=> Answering(op)
      /\ \A op : OneAnswer(op)' <=> OneAnswer(op)
    BY AnswersKept
<1>5. /\ host' \in Hosts /\ host'.mode = host.mode /\ host'.uploaded = host.uploaded /\ host'.whole = host.whole
      /\ host'.position = host.position /\ host'.remainder = host.remainder /\ host'.ended = host.ended
      /\ host'.events = host.events
      /\ host'.stage # "active" /\ (host'.stage = "absent" => host' = host)
      /\ host' = host \/ (host.stage = "active" /\ ~host'.wait
            /\ host'.upload = (IF host.upload = "open" THEN "errored" ELSE host.upload)
            /\ (host'.reading = host.reading \/ (~host'.reading /\ ~host.ended)))
    BY <1>1 DEF Releases, Drops, Stays
<1>6. /\ \A type : InFlight(type)' <=> InFlight(type)
      /\ \A type : OneEvent(type)' <=> OneEvent(type)
      /\ ChunksArrive => ChunksArrive'
    BY <1>5, EventsKept DEF Arrives, Same
<1>7. ~guest.live
    BY <1>2 DEF IInv, Messages
<1>8. FetchTyped'
    BY <1>1, <1>2, <1>3, <1>4, <1>5, <1>6, <1>7 DEF IInv, FetchTyped, Same
<1>9. Starts'
    BY <1>1, <1>2, <1>3, <1>4, <1>5, <1>6, <1>7 DEF IInv, Starts, Same
<1>10. Messages'
    BY <1>1, <1>2, <1>3, <1>4, <1>5, <1>6, <1>7 DEF IInv, Messages, Same, Host!Active
<1>11. Freed'
    BY <1>1, <1>2, <1>3, <1>4, <1>5, <1>6, <1>7 DEF IInv, Freed, Same, Host!Active
<1>12. OneUpload'
    BY <1>1, <1>2, <1>3, <1>4, <1>5, <1>6, <1>7 DEF IInv, OneUpload, Same
<1>13. Exhausts'
    BY <1>1, <1>2, <1>3, <1>4, <1>5, <1>6, <1>7 DEF IInv, Exhausts, Same
<1>14. Uploaded'
    BY <1>1, <1>2, <1>3, <1>4, <1>5, <1>6, <1>7 DEF IInv, Uploaded, Takes, Same, Host!Active
<1>15. OneRead'
    BY <1>1, <1>2, <1>3, <1>4, <1>5, <1>6, <1>7 DEF IInv, OneRead, Same
<1>16. Received'
    BY <1>1, <1>2, <1>3, <1>4, <1>5, <1>6, <1>7 DEF IInv, Received, Same
<1>17. Cancels'
    BY <1>1, <1>2, <1>3, <1>4, <1>5, <1>6, <1>7 DEF IInv, Cancels, Same, Host!Active
<1>18. DemandsKept'
    BY <1>1, <1>2, <1>3, <1>4, <1>5, <1>6, <1>7 DEF IInv, DemandsKept, Wanted, Same, Host!Active
<1> QED
    BY <1>8, <1>9, <1>10, <1>11, <1>12, <1>13, <1>14, <1>15, <1>16, <1>17, <1>18 DEF IInv

(* ... a fetch starts, ...                                                  *)
LEMMA FetchStarted ==
    ASSUME IInv, NEW c,
           guest.calls # <<>>, c = Head(guest.calls),
           Same(guest, guest', {"calls"}), guest'.calls = Tail(guest.calls),
           c.op = "start",
           Started(host, host', mode), ~host.disposed,
           answers' = answers,
           UNCHANGED <<mode, outcomes, lost, newsLost>>
    PROVE  IInv'
<1>1. guest \in Guests /\ host \in Hosts
    BY DEF IInv, FetchTyped
<1>2. /\ c \in CallTypes
      /\ \A op : Calls(op) <=> Calls(op)' \/ op = c.op
      /\ \A op : OneCall(op) => OneCall(op)' /\ (c.op = op => ~Calls(op)')
      /\ StartIsFirst' /\ ~Calls("start")'
      /\ Chunking <=> Chunking' \/ (c.op = "upload" /\ ~c.done)
      /\ Finishing <=> Finishing' \/ (c.op = "upload" /\ c.done)
      /\ ChunksProduced' /\ (c.op = "upload" /\ ~c.done => c.chunk = guest.produced)
    BY CallTaken DEF IInv, Starts, Exhausts, Same
<1>3. outcomes' = outcomes /\ (Failing' <=> Failing) /\ (Succeeding' <=> Succeeding)
    BY OutcomesKept
<1>4. /\ answers' = answers
      /\ \A op : Answering(op)' <=> Answering(op)
      /\ \A op : OneAnswer(op)' <=> OneAnswer(op)
    BY AnswersKept
<1>5. /\ host.stage = "absent" /\ host.events = <<>> /\ outcomes = <<>>
      /\ host.mode = "none" /\ host.upload = "none" /\ host.net = "idle" /\ ~host.wait
      /\ host.uploaded = <<>> /\ ~host.whole
      /\ ~host.reading /\ ~host.ended /\ host.position = 0 /\ host.remainder = 0
      /\ guest.produced = 0 /\ ~guest.exhausted /\ guest.pump = "idle" /\ ~guest.pull
      /\ guest.stream \notin {"open", "closed"} /\ guest.received = <<>>
    BY <1>2 DEF IInv, Starts
<1>6. /\ \A type : ~InFlight(type) /\ OneEvent(type)
      /\ ~Succeeding /\ ~Failing /\ ChunksArrive /\ ~Chunking /\ ~Finishing /\ ~Calls("upload")
      /\ Len(host.uploaded) = 0 /\ Len(guest.received) = 0
  <2>1. DOMAIN host.events = {} /\ DOMAIN outcomes = {}
      BY <1>5
  <2>2. ~Calls("upload")
      BY <1>5 DEF IInv, OneUpload
  <2> QED
      BY <1>5, <2>1, <2>2 DEF InFlight, OneEvent, Succeeding, Failing, ChunksArrive, Chunking, Finishing, Calls
<1>7. /\ \A type : InFlight(type)' => type = "uploadPull"
      /\ mode = "replayable" => InFlight("uploadPull")'
      /\ OneEvent("chunk")' /\ ChunksArrive'
  <2>1. \A f : Arrives(f, guest', host') <=> Arrives(f, guest, host)
      BY DEF Arrives, Started, Stays, Same
  <2>2. CASE host'.events = host.events /\ mode # "replayable"
      BY <1>6, <2>1, <2>2, EventsKept
  <2>3. CASE host'.events = Append(host.events, PullEvent)
      BY <1>6, <2>1, <2>3, EventAdded, EventsAreEvents DEF IInv
  <2> QED
      BY <2>2, <2>3 DEF Started
<1>8. FetchTyped'
    BY <1>1, <1>2, <1>3, <1>4, <1>5, <1>6, <1>7 DEF IInv, FetchTyped, Same, Started, Stays
<1>9. Starts'
    BY <1>1, <1>2, <1>3, <1>4, <1>5, <1>6, <1>7 DEF IInv, Starts, Same, Started, Stays
<1>10. Messages'
    BY <1>1, <1>2, <1>3, <1>4, <1>5, <1>6, <1>7 DEF IInv, Messages, Same, Started, Stays, Host!Active
<1>11. Freed'
    BY <1>1, <1>2, <1>3, <1>4, <1>5, <1>6, <1>7 DEF IInv, Freed, Same, Started, Stays, Host!Active
<1>12. OneUpload'
    BY <1>1, <1>2, <1>3, <1>4, <1>5, <1>6, <1>7 DEF IInv, OneUpload, Same, Started, Stays
<1>13. Exhausts'
    BY <1>1, <1>2, <1>3, <1>4, <1>5, <1>6, <1>7 DEF IInv, Exhausts, Same, Started, Stays
<1>14. Uploaded'
  <2>1. /\ host'.uploaded = host.uploaded /\ ~host'.whole /\ guest'.produced = 0 /\ host'.stage = "active"
    BY <1>5 DEF Started, Stays, Same
  <2>2. ~Chunking'
    BY <1>2, <1>6
  <2>3. Numbered(host.uploaded) /\ Len(host.uploaded) <= MaxBody
    BY DEF IInv, Uploaded
  <2> QED
    BY <1>6, <2>1, <2>2, <2>3 DEF Uploaded, Takes, Host!Active
<1>15. OneRead'
    BY <1>1, <1>2, <1>3, <1>4, <1>5, <1>6, <1>7 DEF IInv, OneRead, Same, Started, Stays
<1>16. Received'
    BY <1>1, <1>2, <1>3, <1>4, <1>5, <1>6, <1>7 DEF IInv, Received, Same, Started, Stays
<1>17. Cancels'
    BY <1>1, <1>2, <1>3, <1>4, <1>5, <1>6, <1>7 DEF IInv, Cancels, Same, Started, Stays, Host!Active
<1>18. DemandsKept'
    BY <1>1, <1>2, <1>3, <1>4, <1>5, <1>6, <1>7 DEF IInv, DemandsKept, Wanted, Same, Started, Stays, Host!Active
<1> QED
    BY <1>8, <1>9, <1>10, <1>11, <1>12, <1>13, <1>14, <1>15, <1>16, <1>17, <1>18 DEF IInv

(* ... the request's body is taken in, ...                                  *)
LEMMA ChunkTaken ==
    ASSUME IInv, NEW c,
           guest.calls # <<>>, c = Head(guest.calls),
           Same(guest, guest', {"calls"}), guest'.calls = Tail(guest.calls),
           c.op = "upload", ~c.done,
           host.stage = "active",
           TakesIn(host, host', c.chunk),
           answers' = Append(answers, [op |-> "upload", ok |-> TRUE]),
           UNCHANGED <<mode, outcomes, lost, newsLost>>
    PROVE  IInv'
<1>1. guest \in Guests /\ host \in Hosts
    BY DEF IInv, FetchTyped
<1>2. /\ c \in CallTypes
      /\ \A op : Calls(op) <=> Calls(op)' \/ op = c.op
      /\ \A op : OneCall(op) => OneCall(op)' /\ (c.op = op => ~Calls(op)')
      /\ StartIsFirst' /\ ~Calls("start")'
      /\ Chunking <=> Chunking' \/ (c.op = "upload" /\ ~c.done)
      /\ Finishing <=> Finishing' \/ (c.op = "upload" /\ c.done)
      /\ ChunksProduced' /\ (c.op = "upload" /\ ~c.done => c.chunk = guest.produced)
    BY CallTaken DEF IInv, Starts, Exhausts, Same
<1>3. outcomes' = outcomes /\ (Failing' <=> Failing) /\ (Succeeding' <=> Succeeding)
    BY OutcomesKept
<1>4. /\ answers' \in Seq(AnswerTypes) /\ answers' # <<>>
      /\ \A op : Answering(op)' <=> Answering(op) \/ op = "upload"
      /\ \A op : OneAnswer(op) /\ (op # "upload" \/ ~Answering(op)) => OneAnswer(op)'
  <2> DEFINE a == [op |-> "upload", ok |-> TRUE]
  <2>1. a \in AnswerTypes /\ a.op = "upload" /\ answers' = Append(answers, a)
      BY DEF AnswerTypes
  <2> HIDE DEF a
  <2> QED
      BY <2>1, AnswerAdded DEF IInv
<1>5. /\ guest.produced = Len(host.uploaded) + 1 /\ c.chunk = guest.produced
      /\ ~Chunking' /\ ~guest.exhausted /\ ~host.whole
  <2>1. Chunking /\ ~Chunking' /\ ~guest.exhausted
      BY <1>2 DEF IInv, OneUpload, Exhausts, Chunking, Calls
  <2>2. Takes
      BY DEF TakesIn, Takes, Host!Active
  <2> QED
      BY <1>2, <2>1, <2>2 DEF IInv, Uploaded
<1>6. Len(host'.uploaded) = Len(host.uploaded) + 1 /\ Numbered(host'.uploaded) /\ Len(host'.uploaded) <= MaxBody
  <2>1. host.uploaded \in Seq(Nat) /\ c.chunk \in Nat
      BY <1>1, <1>2 DEF Hosts, CallTypes
  <2>2. Numbered(host.uploaded) /\ host'.uploaded = Append(host.uploaded, c.chunk)
      BY DEF IInv, Uploaded, TakesIn
  <2>3. /\ Len(host.uploaded) \in Nat /\ DOMAIN host.uploaded = 1 .. Len(host.uploaded)
          /\ DOMAIN host'.uploaded = 1 .. (Len(host.uploaded) + 1)
          /\ \A i \in DOMAIN host.uploaded : host'.uploaded[i] = host.uploaded[i]
          /\ host'.uploaded[Len(host.uploaded) + 1] = c.chunk
          /\ Len(host'.uploaded) = Len(host.uploaded) + 1
      BY <2>1, <2>2, Grows
  <2>4. \A i \in DOMAIN host'.uploaded : i \in DOMAIN host.uploaded \/ i = Len(host.uploaded) + 1
      BY <2>3
  <2> QED
      BY <1>5, <2>2, <2>3, <2>4 DEF Numbered, TakesIn
<1>7. /\ \A type : InFlight(type) => InFlight(type)'
      /\ \A type : type # "uploadPull" => (InFlight(type)' <=> InFlight(type)) 
      /\ \A type : type # "uploadPull" => (OneEvent(type) => OneEvent(type)')
      /\ host.mode = "replayable" => InFlight("uploadPull")'
      /\ ChunksArrive => ChunksArrive'
  <2>1. \A f : Arrives(f, guest', host') <=> Arrives(f, guest, host)
      BY DEF Arrives, TakesIn, Stays, Same
  <2>2. CASE host'.events = host.events /\ host.mode # "replayable"
      BY <2>1, <2>2, EventsKept
  <2>3. CASE host'.events = Append(host.events, PullEvent)
      BY <2>1, <2>3, EventAdded, EventsAreEvents DEF IInv
  <2> QED
      BY <2>2, <2>3 DEF TakesIn
<1>8. FetchTyped'
    BY <1>1, <1>2, <1>3, <1>4, <1>5, <1>6, <1>7 DEF IInv, FetchTyped, Same, Stays, TakesIn
<1>9. Starts'
    BY <1>1, <1>2, <1>3, <1>4, <1>5, <1>6, <1>7 DEF IInv, Starts, Same, Stays, TakesIn
<1>10. Messages'
    BY <1>1, <1>2, <1>3, <1>4, <1>5, <1>6, <1>7 DEF IInv, Messages, Same, Stays, TakesIn, Host!Active
<1>11. Freed'
    BY <1>1, <1>2, <1>3, <1>4, <1>5, <1>6, <1>7 DEF IInv, Freed, Same, Stays, TakesIn, Host!Active
<1>12. OneUpload'
    BY <1>1, <1>2, <1>3, <1>4, <1>5, <1>6, <1>7 DEF IInv, OneUpload, Same, Stays, TakesIn
<1>13. Exhausts'
    BY <1>1, <1>2, <1>3, <1>4, <1>5, <1>6, <1>7 DEF IInv, Exhausts, Same, Stays, TakesIn
<1>14. Uploaded'
    BY <1>1, <1>2, <1>3, <1>4, <1>5, <1>6, <1>7 DEF IInv, Uploaded, Takes, OneUpload, Same, Stays, TakesIn, Host!Active
<1>15. OneRead'
    BY <1>1, <1>2, <1>3, <1>4, <1>5, <1>6, <1>7 DEF IInv, OneRead, Same, Stays, TakesIn
<1>16. Received'
    BY <1>1, <1>2, <1>3, <1>4, <1>5, <1>6, <1>7 DEF IInv, Received, Same, Stays, TakesIn
<1>17. Cancels'
    BY <1>1, <1>2, <1>3, <1>4, <1>5, <1>6, <1>7 DEF IInv, Cancels, Same, Stays, TakesIn, Host!Active
<1>18. DemandsKept'
    BY <1>1, <1>2, <1>3, <1>4, <1>5, <1>6, <1>7 DEF IInv, DemandsKept, Wanted, Same, Stays, TakesIn, Host!Active
<1> QED
    BY <1>8, <1>9, <1>10, <1>11, <1>12, <1>13, <1>14, <1>15, <1>16, <1>17, <1>18 DEF IInv

LEMMA UploadEnded ==
    ASSUME IInv, NEW c,
           guest.calls # <<>>, c = Head(guest.calls),
           Same(guest, guest', {"calls"}), guest'.calls = Tail(guest.calls),
           c.op = "upload", c.done,
           host.stage = "active",
           Ends(host, host'),
           answers' = Append(answers, [op |-> "upload", ok |-> TRUE]),
           UNCHANGED <<mode, outcomes, lost, newsLost>>
    PROVE  IInv'
<1>1. guest \in Guests /\ host \in Hosts
    BY DEF IInv, FetchTyped
<1>2. /\ c \in CallTypes
      /\ \A op : Calls(op) <=> Calls(op)' \/ op = c.op
      /\ \A op : OneCall(op) => OneCall(op)' /\ (c.op = op => ~Calls(op)')
      /\ StartIsFirst' /\ ~Calls("start")'
      /\ Chunking <=> Chunking' \/ (c.op = "upload" /\ ~c.done)
      /\ Finishing <=> Finishing' \/ (c.op = "upload" /\ c.done)
      /\ ChunksProduced' /\ (c.op = "upload" /\ ~c.done => c.chunk = guest.produced)
    BY CallTaken DEF IInv, Starts, Exhausts, Same
<1>3. outcomes' = outcomes /\ (Failing' <=> Failing) /\ (Succeeding' <=> Succeeding)
    BY OutcomesKept
<1>4. /\ answers' \in Seq(AnswerTypes) /\ answers' # <<>>
      /\ \A op : Answering(op)' <=> Answering(op) \/ op = "upload"
      /\ \A op : OneAnswer(op) /\ (op # "upload" \/ ~Answering(op)) => OneAnswer(op)'
  <2> DEFINE a == [op |-> "upload", ok |-> TRUE]
  <2>1. a \in AnswerTypes /\ a.op = "upload" /\ answers' = Append(answers, a)
      BY DEF AnswerTypes
  <2> HIDE DEF a
  <2> QED
      BY <2>1, AnswerAdded DEF IInv
<1>5. /\ guest.produced = Len(host.uploaded) /\ guest.exhausted /\ ~Chunking' /\ ~Calls("upload")'
  <2>1. guest.exhausted /\ ~Chunking /\ ~Chunking' /\ ~Calls("upload")'
      BY <1>2 DEF IInv, OneUpload, Exhausts
  <2>2. Takes
      BY DEF Ends, Takes, Host!Active
  <2>3. Len(host.uploaded) \in Nat
      BY <1>1 DEF Hosts
  <2> QED
      BY <1>2, <2>1, <2>2, <2>3 DEF IInv, Uploaded
<1>6. /\ host'.events = host.events
      /\ \A type : InFlight(type)' <=> InFlight(type)
      /\ \A type : OneEvent(type)' <=> OneEvent(type)
      /\ ChunksArrive => ChunksArrive'
    BY EventsKept DEF Arrives, Same, Ends, Stays
<1>7. FetchTyped'
    BY <1>1, <1>2, <1>3, <1>4, <1>5, <1>6 DEF IInv, FetchTyped, Ends, Same, Stays
<1>8. Starts'
    BY <1>1, <1>2, <1>3, <1>4, <1>5, <1>6 DEF IInv, Starts, Ends, Same, Stays
<1>9. Messages'
    BY <1>1, <1>2, <1>3, <1>4, <1>5, <1>6 DEF IInv, Messages, Ends, Same, Stays, Host!Active
<1>10. Freed'
    BY <1>1, <1>2, <1>3, <1>4, <1>5, <1>6 DEF IInv, Freed, Ends, Same, Stays, Host!Active
<1>11. OneUpload'
    BY <1>1, <1>2, <1>3, <1>4, <1>5, <1>6 DEF IInv, OneUpload, Ends, Same, Stays
<1>12. Exhausts'
    BY <1>1, <1>2, <1>3, <1>4, <1>5, <1>6 DEF IInv, Exhausts, Ends, Same, Stays
<1>13. Uploaded'
    BY <1>1, <1>2, <1>3, <1>4, <1>5, <1>6 DEF IInv, Uploaded, Takes, Ends, Same, Stays, Host!Active
<1>14. OneRead'
    BY <1>1, <1>2, <1>3, <1>4, <1>5, <1>6 DEF IInv, OneRead, Ends, Same, Stays
<1>15. Received'
    BY <1>1, <1>2, <1>3, <1>4, <1>5, <1>6 DEF IInv, Received, Ends, Same, Stays
<1>16. Cancels'
    BY <1>1, <1>2, <1>3, <1>4, <1>5, <1>6 DEF IInv, Cancels, Ends, Same, Stays, Host!Active
<1>17. DemandsKept'
    BY <1>1, <1>2, <1>3, <1>4, <1>5, <1>6 DEF IInv, DemandsKept, Wanted, Cancels, Ends, Same, Stays, Host!Active
<1> QED
    BY <1>7, <1>8, <1>9, <1>10, <1>11, <1>12, <1>13, <1>14, <1>15, <1>16, <1>17 DEF IInv

LEMMA UploadDropped ==
    ASSUME IInv, NEW c,
           guest.calls # <<>>, c = Head(guest.calls),
           Same(guest, guest', {"calls"}), guest'.calls = Tail(guest.calls),
           c.op = "upload",
           Fails(host, host'), ~host.disposed,
           answers' = Append(answers, [op |-> "upload", ok |-> TRUE]),
           UNCHANGED <<mode, outcomes, lost, newsLost>>
    PROVE  IInv'
<1>1. guest \in Guests /\ host \in Hosts
    BY DEF IInv, FetchTyped
<1>2. /\ c \in CallTypes
      /\ \A op : Calls(op) <=> Calls(op)' \/ op = c.op
      /\ \A op : OneCall(op) => OneCall(op)' /\ (c.op = op => ~Calls(op)')
      /\ StartIsFirst' /\ ~Calls("start")'
      /\ Chunking <=> Chunking' \/ (c.op = "upload" /\ ~c.done)
      /\ Finishing <=> Finishing' \/ (c.op = "upload" /\ c.done)
      /\ ChunksProduced' /\ (c.op = "upload" /\ ~c.done => c.chunk = guest.produced)
    BY CallTaken DEF IInv, Starts, Exhausts, Same
<1>3. outcomes' = outcomes /\ (Failing' <=> Failing) /\ (Succeeding' <=> Succeeding)
    BY OutcomesKept
<1>4. /\ answers' \in Seq(AnswerTypes) /\ answers' # <<>>
      /\ \A op : Answering(op)' <=> Answering(op) \/ op = "upload"
      /\ \A op : OneAnswer(op) /\ (op # "upload" \/ ~Answering(op)) => OneAnswer(op)'
  <2> DEFINE a == [op |-> "upload", ok |-> TRUE]
  <2>1. a \in AnswerTypes /\ a.op = "upload" /\ answers' = Append(answers, a)
      BY DEF AnswerTypes
  <2> HIDE DEF a
  <2> QED
      BY <2>1, AnswerAdded DEF IInv
<1>5. /\ host' \in Hosts /\ host'.mode = host.mode /\ host'.uploaded = host.uploaded /\ host'.whole = host.whole
      /\ host'.position = host.position /\ host'.remainder = host.remainder /\ host'.ended = host.ended
      /\ host.stage = "active" /\ host'.stage = "released" /\ ~host'.wait /\ ~host'.disposed
      /\ host'.upload = IF host.upload = "open" THEN "errored" ELSE host.upload
      /\ host'.reading = host.reading \/ (~host'.reading /\ ~host.ended)
    BY DEF Fails, Drops, Stays
<1>6. /\ \A type : InFlight(type)' <=> InFlight(type) \/ type = "error"
      /\ \A type : type # "error" => (OneEvent(type) => OneEvent(type)')
      /\ ChunksArrive => ChunksArrive'
  <2>1. \A f : Arrives(f, guest', host') <=> Arrives(f, guest, host)
      BY <1>5 DEF Arrives, Same
  <2> QED
      BY <2>1, EventAdded, EventsAreEvents DEF IInv, Fails
<1>7. FetchTyped'
    BY <1>1, <1>2, <1>3, <1>4, <1>5, <1>6 DEF IInv, FetchTyped, Same
<1>8. Starts'
    BY <1>1, <1>2, <1>3, <1>4, <1>5, <1>6 DEF IInv, Starts, Same
<1>9. Messages'
    BY <1>1, <1>2, <1>3, <1>4, <1>5, <1>6 DEF IInv, Messages, Same, Host!Active
<1>10. Freed'
    BY <1>1, <1>2, <1>3, <1>4, <1>5, <1>6 DEF IInv, Freed, Same, Host!Active
<1>11. OneUpload'
    BY <1>1, <1>2, <1>3, <1>4, <1>5, <1>6 DEF IInv, OneUpload, Same
<1>12. Exhausts'
    BY <1>1, <1>2, <1>3, <1>4, <1>5, <1>6 DEF IInv, Exhausts, Same
<1>13. Uploaded'
    BY <1>1, <1>2, <1>3, <1>4, <1>5, <1>6 DEF IInv, Uploaded, Takes, Same, Host!Active
<1>14. OneRead'
    BY <1>1, <1>2, <1>3, <1>4, <1>5, <1>6 DEF IInv, OneRead, Same
<1>15. Received'
    BY <1>1, <1>2, <1>3, <1>4, <1>5, <1>6 DEF IInv, Received, Same
<1>16. Cancels'
    BY <1>1, <1>2, <1>3, <1>4, <1>5, <1>6 DEF IInv, Cancels, Same, Host!Active
<1>17. DemandsKept'
    BY <1>1, <1>2, <1>3, <1>4, <1>5, <1>6 DEF IInv, DemandsKept, Wanted, Same, Host!Active
<1> QED
    BY <1>7, <1>8, <1>9, <1>10, <1>11, <1>12, <1>13, <1>14, <1>15, <1>16, <1>17 DEF IInv

(* ... and a chunk of the response is read.                                 *)
LEMMA ReadLeft ==
    ASSUME IInv, NEW c,
           guest.calls # <<>>, c = Head(guest.calls),
           Same(guest, guest', {"calls"}), guest'.calls = Tail(guest.calls),
           c.op = "read",
           host.stage = "active",
           Stays(host, host', {"reading"}), host'.reading, ~host.reading, host.remainder = 0,
           answers' = answers,
           UNCHANGED <<mode, outcomes, lost, newsLost>>
    PROVE  IInv'
<1>1. guest \in Guests /\ host \in Hosts
    BY DEF IInv, FetchTyped
<1>2. /\ c \in CallTypes
      /\ \A op : Calls(op) <=> Calls(op)' \/ op = c.op
      /\ \A op : OneCall(op) => OneCall(op)' /\ (c.op = op => ~Calls(op)')
      /\ StartIsFirst' /\ ~Calls("start")'
      /\ Chunking <=> Chunking' \/ (c.op = "upload" /\ ~c.done)
      /\ Finishing <=> Finishing' \/ (c.op = "upload" /\ c.done)
      /\ ChunksProduced' /\ (c.op = "upload" /\ ~c.done => c.chunk = guest.produced)
    BY CallTaken DEF IInv, Starts, Exhausts, Same
<1>3. outcomes' = outcomes /\ (Failing' <=> Failing) /\ (Succeeding' <=> Succeeding)
    BY OutcomesKept
<1>4. /\ answers' = answers
      /\ \A op : Answering(op)' <=> Answering(op)
      /\ \A op : OneAnswer(op)' <=> OneAnswer(op)
    BY AnswersKept
<1>5. /\ host'.events = host.events
      /\ \A type : InFlight(type)' <=> InFlight(type)
      /\ \A type : OneEvent(type)' <=> OneEvent(type)
      /\ ChunksArrive => ChunksArrive'
    BY EventsKept DEF Arrives, Same, Stays
<1>6. FetchTyped'
    BY <1>1, <1>2, <1>3, <1>4, <1>5 DEF IInv, FetchTyped, Same, Stays
<1>7. Starts'
    BY <1>1, <1>2, <1>3, <1>4, <1>5 DEF IInv, Starts, Same, Stays
<1>8. Messages'
    BY <1>1, <1>2, <1>3, <1>4, <1>5 DEF IInv, Messages, Same, Stays, Host!Active
<1>9. Freed'
    BY <1>1, <1>2, <1>3, <1>4, <1>5 DEF IInv, Freed, Same, Stays, Host!Active
<1>10. OneUpload'
    BY <1>1, <1>2, <1>3, <1>4, <1>5 DEF IInv, OneUpload, Same, Stays
<1>11. Exhausts'
    BY <1>1, <1>2, <1>3, <1>4, <1>5 DEF IInv, Exhausts, Same, Stays
<1>12. Uploaded'
  <2>1. /\ SameUpload(host, host')
        /\ guest'.produced = guest.produced /\ guest'.exhausted = guest.exhausted
      BY DEF SameUpload, Same, Stays
  <2> QED
      BY <1>2, <2>1, UploadedKept DEF IInv
<1>13. OneRead'
    BY <1>1, <1>2, <1>3, <1>4, <1>5 DEF IInv, OneRead, Same, Stays
<1>14. Received'
    BY <1>1, <1>2, <1>3, <1>4, <1>5 DEF IInv, Received, Same, Stays
<1>15. Cancels'
    BY <1>1, <1>2, <1>3, <1>4, <1>5 DEF IInv, Cancels, Same, Stays, Host!Active
<1>16. DemandsKept'
    BY <1>1, <1>2, <1>3, <1>4, <1>5 DEF IInv, DemandsKept, Wanted, Same, Stays, Host!Active
<1> QED
    BY <1>6, <1>7, <1>8, <1>9, <1>10, <1>11, <1>12, <1>13, <1>14, <1>15, <1>16 DEF IInv

LEMMA ReadGiven ==
    ASSUME IInv, NEW c,
           guest.calls # <<>>, c = Head(guest.calls),
           Same(guest, guest', {"calls"}), guest'.calls = Tail(guest.calls),
           c.op = "read",
           host.stage = "active", ~host.reading, host.remainder > 0,
           Gives(host, host'), host'.position = host.position, host'.remainder = host.remainder - 1,
           answers' = answers,
           UNCHANGED <<mode, outcomes, lost, newsLost>>
    PROVE  IInv'
<1>1. guest \in Guests /\ host \in Hosts
    BY DEF IInv, FetchTyped
<1>2. /\ c \in CallTypes
      /\ \A op : Calls(op) <=> Calls(op)' \/ op = c.op
      /\ \A op : OneCall(op) => OneCall(op)' /\ (c.op = op => ~Calls(op)')
      /\ StartIsFirst' /\ ~Calls("start")'
      /\ Chunking <=> Chunking' \/ (c.op = "upload" /\ ~c.done)
      /\ Finishing <=> Finishing' \/ (c.op = "upload" /\ c.done)
      /\ ChunksProduced' /\ (c.op = "upload" /\ ~c.done => c.chunk = guest.produced)
    BY CallTaken DEF IInv, Starts, Exhausts, Same
<1>3. outcomes' = outcomes /\ (Failing' <=> Failing) /\ (Succeeding' <=> Succeeding)
    BY OutcomesKept
<1>4. /\ answers' = answers
      /\ \A op : Answering(op)' <=> Answering(op)
      /\ \A op : OneAnswer(op)' <=> OneAnswer(op)
    BY AnswersKept
<1>5. /\ host'.remainder \in Nat /\ host'.remainder <= host.position /\ Len(guest.received) \in Nat
      /\ host'.position - host'.remainder = (host.position - host.remainder) + 1
      /\ host'.position - host'.remainder \in Nat
      /\ ~host.ended
      /\ guest.live => ~InFlight("chunk") /\ OneEvent("chunk") /\ guest.pull
                       /\ Len(guest.received) = host.position - host.remainder
  <2>1. host.remainder \in Nat /\ host.position \in Nat /\ Len(guest.received) \in Nat
      BY <1>1 DEF Guests, Hosts
  <2>2. host.remainder <= host.position /\ ~host.ended
      BY DEF IInv, Received
  <2>3. guest.live => ~InFlight("chunk") /\ OneEvent("chunk") /\ guest.pull
      BY <1>2 DEF IInv, OneRead
  <2>4. guest.live => Len(guest.received) = host.position - host.remainder
      BY <1>2 DEF IInv, Received
  <2> QED
      BY <2>1, <2>2, <2>3, <2>4
<1>6. /\ \A type : InFlight(type)' <=> InFlight(type) \/ type = "chunk"
      /\ guest.live => OneEvent("chunk")' /\ ChunksArrive'
  <2> DEFINE n == host'.position - host'.remainder
               e == ChunkEvent(n, FALSE)
  <2>2. e \in EventTypes /\ e.type = "chunk" /\ e.chunk = n /\ ~e.last
      BY <1>5, EventsAreEvents
  <2>3. host'.events = Append(host.events, e)
      BY DEF Gives
  <2> HIDE DEF e
  <2>4. guest.live => Arrives(e, guest', host')
      BY <1>5, <2>2 DEF Arrives, Same
  <2> QED
      BY <1>5, <2>2, <2>3, <2>4, EventAdded DEF IInv
<1>7. FetchTyped'
    BY <1>1, <1>2, <1>3, <1>4, <1>5, <1>6 DEF IInv, FetchTyped, Gives, Same, Stays
<1>8. Starts'
    BY <1>1, <1>2, <1>3, <1>4, <1>5, <1>6 DEF IInv, Starts, Gives, Same, Stays
<1>9. Messages'
    BY <1>1, <1>2, <1>3, <1>4, <1>5, <1>6 DEF IInv, Messages, Gives, Same, Stays, Host!Active
<1>10. Freed'
    BY <1>1, <1>2, <1>3, <1>4, <1>5, <1>6 DEF IInv, Freed, Gives, Same, Stays, Host!Active
<1>11. OneUpload'
    BY <1>1, <1>2, <1>3, <1>4, <1>5, <1>6 DEF IInv, OneUpload, Gives, Same, Stays
<1>12. Exhausts'
    BY <1>1, <1>2, <1>3, <1>4, <1>5, <1>6 DEF IInv, Exhausts, Gives, Same, Stays
<1>13. Uploaded'
  <2>1. /\ SameUpload(host, host')
        /\ guest'.produced = guest.produced /\ guest'.exhausted = guest.exhausted
      BY DEF SameUpload, Gives, Same, Stays
  <2> QED
      BY <1>2, <2>1, UploadedKept DEF IInv
<1>14. OneRead'
    BY <1>1, <1>2, <1>3, <1>4, <1>5, <1>6 DEF IInv, OneRead, Gives, Same, Stays
<1>15. Received'
  <2>1. ~host'.reading /\ host'.ended = host.ended /\ guest'.received = guest.received /\ guest'.live = guest.live
        /\ guest'.stream = guest.stream /\ guest'.pull = guest.pull
    BY DEF Gives, Stays, Same
  <2>3. Numbered(guest.received) /\ (guest.stream = "closed" => ~guest.live /\ host.ended) /\ host'.position <= MaxBody
    BY DEF IInv, Received
  <2>4. Len(guest.received) <= host.position - host.remainder
    BY DEF IInv, Received
  <2>5. Len(guest.received) <= host'.position - host'.remainder
    BY <1>1, <1>5, <2>4 DEF Hosts
  <2>6. guest.live => ~Calls("read")'
    BY <1>2 DEF IInv, OneRead
  <2> QED
    BY <1>5, <1>6, <2>1, <2>3, <2>5, <2>6 DEF Received
<1>16. Cancels'
    BY <1>1, <1>2, <1>3, <1>4, <1>5, <1>6 DEF IInv, Cancels, Gives, Same, Stays, Host!Active
<1>17. DemandsKept'
    BY <1>1, <1>2, <1>3, <1>4, <1>5, <1>6 DEF IInv, DemandsKept, Wanted, Gives, Same, Stays, Host!Active
<1> QED
    BY <1>7, <1>8, <1>9, <1>10, <1>11, <1>12, <1>13, <1>14, <1>15, <1>16, <1>17 DEF IInv
-----------------------------------------------------------------------------
(* The actions.                                                            *)
LEMMA Bounds ==
    ASSUME IInv
    PROVE  /\ guest \in Guests /\ host \in Hosts
           /\ mode \in Modes /\ lost \in Nat /\ newsLost \in BOOLEAN
           /\ answers \in Seq(AnswerTypes) /\ outcomes \in Seq(OutcomeTypes)
           /\ host.disposed => host.stage # "active"
           /\ host.upload = "open" => host.stage = "active"
           /\ host.stage = "absent" => outcomes = <<>> /\ host.events = <<>> /\ host.net = "idle" /\ ~host.reading /\ host.upload = "none"
    BY DEF IInv, FetchTyped, Messages, Starts, Uploaded, Host!Active

LEMMA NothingHappens ==
    ASSUME IInv,
           UNCHANGED vars
    PROVE  IInv'
<1>1. /\ mode' = mode /\ guest' = guest /\ host' = host /\ answers' = answers /\ outcomes' = outcomes
      /\ lost' = lost /\ newsLost' = newsLost
    BY DEF vars
<1>2. /\ \A op : Calls(op)' <=> Calls(op)
      /\ \A op : OneCall(op)' <=> OneCall(op)
      /\ (StartIsFirst' <=> StartIsFirst) /\ (Chunking' <=> Chunking) /\ (Finishing' <=> Finishing)
      /\ (ChunksProduced' <=> ChunksProduced)
      /\ \A op : Answering(op)' <=> Answering(op)
      /\ \A op : OneAnswer(op)' <=> OneAnswer(op)
      /\ \A type : InFlight(type)' <=> InFlight(type)
      /\ \A type : OneEvent(type)' <=> OneEvent(type)
      /\ (Failing' <=> Failing) /\ (Succeeding' <=> Succeeding)
      /\ ChunksArrive => ChunksArrive'
    BY <1>1, CallsKept, AnswersKept, EventsKept, OutcomesKept DEF Arrives
<1>3. FetchTyped'
    BY <1>1, <1>2 DEF IInv, FetchTyped
<1>4. Starts'
    BY <1>1, <1>2 DEF IInv, Starts
<1>5. Messages'
    BY <1>1, <1>2 DEF IInv, Messages, Host!Active
<1>6. Freed'
    BY <1>1, <1>2 DEF IInv, Freed, Host!Active
<1>7. OneUpload'
    BY <1>1, <1>2 DEF IInv, OneUpload
<1>8. Exhausts'
    BY <1>1, <1>2 DEF IInv, Exhausts
<1>9. Uploaded'
    BY <1>1, <1>2 DEF IInv, Uploaded, Takes, Host!Active
<1>10. OneRead'
    BY <1>1, <1>2 DEF IInv, OneRead
<1>11. Received'
    BY <1>1, <1>2 DEF IInv, Received
<1>12. Cancels'
    BY <1>1, <1>2 DEF IInv, Cancels, Host!Active
<1>13. DemandsKept'
    BY <1>1, <1>2 DEF IInv, DemandsKept, Wanted, Host!Active
<1> QED
    BY <1>3, <1>4, <1>5, <1>6, <1>7, <1>8, <1>9, <1>10, <1>11, <1>12, <1>13 DEF IInv


(* The guest gives up by itself.                                            *)
LEMMA GivingUpAlone ==
    ASSUME IInv, GivesUp(guest, guest'),
           guest'.pump = guest.pump \/ (guest.pump # "calling" /\ guest'.pump = "idle"),
           UNCHANGED <<mode, host, answers, outcomes, lost, newsLost>>
    PROVE  IInv'
<1>1. guest'.pump \in {guest.pump, "idle"} /\ (guest'.pump = "calling" <=> guest.pump = "calling")
    OBVIOUS
<1>2. guest'.pump = "calling" <=> Calls("upload") \/ Answering("upload")'
    BY <1>1, AnswersKept DEF IInv, OneUpload
<1>3. answers' \in Seq(AnswerTypes) /\ (\A op : OneAnswer(op) => OneAnswer(op)') /\ (\A op : Answering(op)' => Answering(op))
    BY Bounds, AnswersKept
<1>4. Stays(host, host', {"events"}) /\ (\A type : InFlight(type)' => InFlight(type))
    BY Bounds, EventsKept DEF Stays
<1>5. /\ host.stage = "absent" => host'.events = <<>> /\ outcomes' = <<>>
      /\ outcomes' \in Seq(OutcomeTypes) /\ (outcomes # <<>> => outcomes' # <<>>)
      /\ lost' \in Nat /\ newsLost' \in BOOLEAN /\ UNCHANGED mode
    BY Bounds
<1> QED
    BY <1>1, <1>2, <1>3, <1>4, <1>5, GivingUp

(* The host gives up by itself.                                             *)
LEMMA FetchFailed ==
    ASSUME IInv, Fails(host, host') \/ (Releases(host, host') /\ host'.disposed),
           UNCHANGED <<mode, guest, answers, outcomes, lost, newsLost>>
    PROVE  IInv'
<1>1. host'.disposed \/ InFlight("error")' \/ ~guest.live
    BY EventAdded, EventsAreEvents DEF Fails, IInv
<1>2. outcomes' \in Seq(OutcomeTypes) /\ (Succeeding' => Succeeding) /\ host'.stage # "absent"
    BY Bounds, OutcomesKept DEF Fails, Releases, Drops
<1> QED
    BY <1>1, <1>2, FetchDropped

LEMMA ProgramSteps ==
    ASSUME IInv, Abort \/ PullBody \/ CancelBody \/ DisposeGuest
    PROVE  IInv'
<1>1. guest \in Guests
    BY Bounds
<1>2. CASE Abort
  <2>1. guest' = Guest!Fail(guest) /\ UNCHANGED <<mode, host, answers, outcomes, lost, newsLost>>
    BY <1>2 DEF Abort, GuestDoes
  <2>2. GivesUp(guest, guest') /\ guest'.pump = guest.pump
    BY <1>1, <2>1, FailGivesUp
  <2> QED
    BY <2>1, <2>2, GivingUpAlone
<1>3. CASE PullBody
  <2>1. /\ guest.stream = "open" /\ ~guest.pull /\ guest' = Guest!PullBody(guest)
        /\ UNCHANGED <<mode, host, answers, outcomes, lost, newsLost>>
    BY <1>3 DEF PullBody, GuestDoes
  <2>2. /\ Same(guest, guest', {"pull", "calls"}) /\ guest'.pull /\ guest'.calls = Append(guest.calls, ReadCall)
        /\ ReadCall \in CallTypes /\ ReadCall.op = "read"
    BY <1>1, <2>1, PullBodyReads
  <2> QED
    BY <2>1, <2>2, BodyPulled
<1>4. CASE CancelBody
  <2>1. guest' = Guest!CancelBody(guest) /\ UNCHANGED <<mode, host, answers, outcomes, lost, newsLost>>
    BY <1>4 DEF CancelBody, GuestDoes
  <2>2. GivesUp(guest, guest') /\ guest'.pump = guest.pump
    BY <1>1, <2>1, CancelGivesUp
  <2> QED
    BY <2>1, <2>2, GivingUpAlone
<1>5. CASE DisposeGuest
  <2>1. guest' = Guest!Dispose(guest) /\ UNCHANGED <<mode, host, answers, outcomes, lost, newsLost>>
    BY <1>5 DEF DisposeGuest, GuestDoes
  <2>2. GivesUp(guest, guest') /\ guest'.pump = guest.pump
    BY <1>1, <2>1, DisposeGivesUp
  <2> QED
    BY <2>1, <2>2, GivingUpAlone
<1> QED
    BY <1>2, <1>3, <1>4, <1>5

LEMMA UploadBodySteps ==
    ASSUME IInv, BodyYields \/ BodyEnds \/ BodyFails
    PROVE  IInv'
<1>1. guest \in Guests
    BY Bounds
<1>2. guest.pump = "reading" /\ UNCHANGED <<mode, host, answers, outcomes, lost, newsLost>>
    BY DEF BodyYields, BodyEnds, BodyFails, GuestDoes
<1>3. CASE (BodyYields \/ BodyEnds) /\ Guest!Abandoned(guest)
  <2>1. guest' \in {Guest!BodyYields(guest), Guest!BodyEnds(guest)}
    BY <1>3 DEF BodyYields, BodyEnds, GuestDoes
  <2>2. Same(guest, guest', {"pump"}) /\ guest'.pump = "idle" /\ (~guest.live \/ guest.uploadCancelled)
    BY <1>1, <1>3, <2>1, AbandonedStops
  <2> QED
    BY <1>2, <2>2, PumpStops
<1>4. CASE BodyYields /\ ~Guest!Abandoned(guest)
  <2>1. guest' = Guest!BodyYields(guest)
    BY <1>4 DEF BodyYields, GuestDoes
  <2>2. /\ Same(guest, guest', {"pump", "produced", "calls"}) /\ guest'.pump = "calling" /\ guest.live
        /\ guest'.produced = guest.produced + 1 /\ guest'.calls = Append(guest.calls, UploadCall(guest'.produced, FALSE))
    BY <1>1, <1>4, <2>1, BodyYieldsChunk
  <2> QED
    BY <1>2, <2>2, PumpUploads
<1>5. CASE BodyEnds /\ ~Guest!Abandoned(guest)
  <2>1. guest' = Guest!BodyEnds(guest)
    BY <1>5 DEF BodyEnds, GuestDoes
  <2>2. /\ Same(guest, guest', {"pump", "exhausted", "calls"}) /\ guest'.pump = "calling" /\ guest.live
        /\ guest'.exhausted /\ guest'.calls = Append(guest.calls, UploadCall(0, TRUE))
    BY <1>1, <1>5, <2>1, BodyEndsUpload
  <2> QED
    BY <1>2, <2>2, PumpFinishes
<1>6. CASE BodyFails
  <2>1. guest' = Guest!Fail([guest EXCEPT !.pump = "idle"])
    BY <1>6 DEF BodyFails, GuestDoes, Guest!BodyFails
  <2>2. GivesUp(guest, guest') /\ guest'.pump = "idle"
    BY <1>1, <2>1, StopGivesUp
  <2> QED
    BY <1>2, <2>2, GivingUpAlone
<1> QED
    BY <1>3, <1>4, <1>5, <1>6

LEMMA NetworkSteps ==
    ASSUME IInv, Redirected \/ Responded \/ Verified \/ NetworkFails \/ TimerFires \/ DisposeHost
    PROVE  IInv'
<1>1. UNCHANGED <<mode, guest, answers, outcomes, lost, newsLost>>
    BY DEF Redirected, Responded, Verified, NetworkFails, TimerFires, DisposeHost, HostDoes
<1>2. host \in Hosts /\ (host.disposed => host.stage # "active") /\ (host.net # "idle" => host.stage # "absent")
    BY Bounds
<1>3. CASE Redirected
  <2>1. PICK toGet \in BOOLEAN : host' = Host!Redirect(host, toGet)
    BY <1>3 DEF Redirected, HostDoes
  <2>2. host.net = "following" /\ host.stage = "active" /\ ~host.disposed
    BY <1>2, <1>3 DEF Redirected, Host!Active, Hosts
  <2>3. Fails(host, host') \/ Moves(host, host')
    BY <1>2, <2>1, <2>2, RedirectMoves
  <2> QED
    BY <1>1, <2>2, <2>3, FetchFailed, NetworkMoves
<1>4. CASE Responded
  <2>1. PICK hasBody \in BOOLEAN, integrity \in BOOLEAN : host' = Host!Respond(host, hasBody, integrity)
    BY <1>4 DEF Responded, HostDoes
  <2>2. Moves(host, host') \/ Tells(host, host')
    BY <1>2, <2>1, RespondTells
  <2>3. host.stage # "absent"
    BY <1>2, <1>4 DEF Responded
  <2> QED
    BY <1>1, <2>2, <2>3, NetworkMoves, ResponseTold
<1>5. CASE Verified
  <2>1. host' = Host!SendResponse(host, host.reader) /\ host.net = "verifying"
    BY <1>5 DEF Verified, HostDoes, Host!Verified
  <2>2. host.reader \in BOOLEAN
    BY <1>2 DEF Hosts
  <2>3. Moves(host, host') \/ Tells(host, host')
    BY <1>2, <2>1, <2>2, SendResponseTells
  <2> QED
    BY <1>1, <1>2, <2>1, <2>3, NetworkMoves, ResponseTold
<1>6. CASE NetworkFails
  <2>1. host' = Host!Fail(Host!Over(host)) /\ host.stage # "absent"
    BY <1>2, <1>6 DEF NetworkFails, HostDoes, Host!NetworkFails
  <2>2. Fails(host, host') \/ Moves(host, host')
    BY <1>2, <2>1, OverFails
  <2> QED
    BY <1>1, <2>1, <2>2, FetchFailed, NetworkMoves
<1>7. CASE TimerFires
  <2>1. host' = Host!Fail(host) /\ host.stage = "active" /\ ~host.disposed
    BY <1>2, <1>7 DEF TimerFires, HostDoes, Host!Active, Hosts
  <2>2. Fails(host, host')
    BY <1>2, <2>1, FailDrops
  <2> QED
    BY <1>1, <2>2, FetchFailed
<1>8. CASE DisposeHost
  <2>1. host' = Host!Dispose(host)
    BY <1>8 DEF DisposeHost, HostDoes
  <2>2. host'.disposed /\ (Releases(host, host') \/ (host.stage # "active" /\ Stays(host, host', {"disposed"})))
    BY <1>2, <2>1, DisposeDrops
  <2>3. CASE host.stage # "active" /\ Stays(host, host', {"disposed"})
    <3>1. outcomes' \in Seq(OutcomeTypes) /\ (Succeeding' => Succeeding) /\ (host'.stage = "absent" => outcomes' = <<>>)
      BY <1>1, <2>3, Bounds, OutcomesKept DEF Stays
    <3> QED
      BY <1>1, <2>2, <2>3, <3>1, FetchLeft
  <2> QED
    BY <1>1, <2>2, <2>3, FetchFailed
<1> QED
    BY <1>3, <1>4, <1>5, <1>6, <1>7, <1>8

LEMMA StreamSteps ==
    ASSUME IInv, UploadPulled \/ UploadCancelled \/ ReadItem \/ ReadEnds \/ ReadFails
    PROVE  IInv'
<1>1. UNCHANGED <<mode, guest, answers, outcomes, lost, newsLost>>
    BY DEF UploadPulled, UploadCancelled, ReadItem, ReadEnds, ReadFails, HostDoes
<1>2. host \in Hosts /\ (host.disposed => host.stage # "active") /\ (host.upload = "open" => host.stage = "active")
    BY Bounds
<1>3. CASE UploadPulled
  <2>1. host' = Host!UploadPulled(host) /\ host.upload = "open" /\ ~host.disposed
    BY <1>2, <1>3 DEF UploadPulled, HostDoes, Hosts
  <2>2. Asks(host, host')
    BY <1>2, <2>1, UploadPulledAsks
  <2> QED
    BY <1>1, <2>1, <2>2, UploadAsked
<1>4. CASE UploadCancelled
  <2>1. host' = Host!UploadCancelled(host) /\ host.upload = "open" /\ ~host.disposed
    BY <1>2, <1>4 DEF UploadCancelled, HostDoes, Hosts
  <2>2. /\ Stays(host, host', {"upload", "events"}) /\ host'.upload = "cancelled"
        /\ host'.events = Append(host.events, CancelEvent)
    BY <1>2, <2>1, UploadCancelledStops
  <2> QED
    BY <1>1, <2>1, <2>2, UploadStopped
<1>5. CASE ReadItem
  <2>1. PICK size \in ItemSizes : host' = Host!ReadItem(host, size)
    BY <1>5 DEF ReadItem, HostDoes
  <2>2. host.reading /\ ~host.ended /\ size \in Nat \ {0}
    BY <1>5, FetchAssumption DEF ReadItem, FetchAssumption
  <2>3. \/ host.stage # "active" /\ Stays(host, host', {"reading"}) /\ ~host'.reading
        \/ Fails(host, host')
        \/ host.stage = "active" /\ Gives(host, host') /\ host'.position = host.position + size
           /\ host'.remainder = size - 1 /\ host'.position <= MaxBody
    BY <1>2, <2>1, <2>2, ReadItemGives
  <2> QED
    BY <1>1, <2>2, <2>3, ReadStopped, FetchFailed, ItemGiven
<1>6. CASE ReadEnds
  <2>1. host' = Host!ReadEnds(host) /\ host.reading /\ ~host.ended
    BY <1>6 DEF ReadEnds, HostDoes
  <2>2. \/ host.stage # "active" /\ Stays(host, host', {"reading"}) /\ ~host'.reading
        \/ host.stage = "active" /\ Stays(host, host', {"ended", "events"}) /\ host'.ended
           /\ host'.events = Append(host.events, ChunkEvent(0, TRUE))
    BY <1>2, <2>1, ReadEndsGives
  <2> QED
    BY <1>1, <2>1, <2>2, ReadStopped, BodyEnded
<1>7. CASE ReadFails
  <2>1. host' = Host!ReadFails(host) /\ host.reading /\ ~host.ended
    BY <1>7 DEF ReadFails, HostDoes
  <2>2. Fails(host, host') \/ (host.stage # "active" /\ Stays(host, host', {"reading"}) /\ ~host'.reading)
    BY <1>2, <2>1, ReadFailsDrops
  <2> QED
    BY <1>1, <2>1, <2>2, ReadStopped, FetchFailed
<1> QED
    BY <1>3, <1>4, <1>5, <1>6, <1>7

LEMMA HandleCallStep ==
    ASSUME IInv, HandleCall
    PROVE  IInv'
<1>1. /\ host \in Hosts /\ guest \in Guests /\ mode \in Modes
      /\ host.disposed => host.stage # "active"
    BY Bounds
<1>2. PICK c : c = HostCall
    OBVIOUS
<1>3. guest.calls # <<>> /\ c = Head(guest.calls)
    BY <1>2 DEF HandleCall, HostCall
<1>4. Same(guest, guest', {"calls"}) /\ guest'.calls = Tail(guest.calls)
  <2>1. guest' = [guest EXCEPT !.calls = Tail(@)] /\ guest.calls \in Seq(CallTypes)
    BY <1>1 DEF HandleCall, Guests
  <2>2. Tail(guest.calls) \in Seq(CallTypes)
    BY <1>3, <2>1, Shrinks
  <2>3. guest' \in Guests
    BY <1>1, <2>1, <2>2 DEF Guests
  <2> QED
    BY <1>1, <2>1, <2>3 DEF Same, Guests
<1>5. UNCHANGED <<mode, outcomes, lost, newsLost>>
    BY DEF HandleCall
<1>6. PICK a \in Handled :
         /\ host' = a.host
         /\ answers' = IF Awaited(HostCall.op, a.ok)
                       THEN Append(answers, [op |-> HostCall.op, ok |-> a.ok]) ELSE answers
    BY DEF HandleCall
<1>7. c \in CallTypes
  <2>1. guest.calls \in Seq(CallTypes)
    BY <1>1 DEF Guests
  <2> QED
    BY <1>3, <2>1, Shrinks
<1>8. CASE a = Refused /\ (host.disposed \/ c.op = "start")
  <2>1. host' = host /\ ~a.ok
    BY <1>6, <1>8 DEF Refused
  <2>2. CASE c.op = "cancel"
    <3>1. answers' = answers /\ host.stage # "active"
      BY <1>1, <1>2, <1>6, <1>8, <2>2 DEF Awaited
    <3> QED
      BY <1>3, <1>4, <1>5, <2>1, <2>2, <3>1, CancelHandled
  <2>3. CASE c.op # "cancel"
    <3>1. answers' = Append(answers, [op |-> c.op, ok |-> FALSE]) /\ a.ok = FALSE
      BY <1>2, <1>6, <1>8, <2>1, <2>3 DEF Awaited, Refused
    <3>2. CASE c.op = "start"
      BY <1>3, <1>4, <1>5, <2>1, <3>1, <3>2, StartRefused
    <3>3. CASE c.op = "upload"
      <4>1. host.stage # "active"
        BY <1>1, <1>8, <3>3
      <4> QED
        BY <1>3, <1>4, <1>5, <2>1, <3>1, <3>3, <4>1, UploadRefused
    <3>4. CASE c.op = "read"
      BY <1>3, <1>4, <1>5, <2>1, <3>1, <3>4, ReadRefused
    <3> QED
      BY <1>7, <2>3, <3>2, <3>3, <3>4 DEF CallTypes
  <2> QED
    BY <2>2, <2>3
<1>9. CASE ~host.disposed /\ c.op = "start" /\ a # Refused
  <2>1. a = Host!Answer(Host!Start(host, mode))
    BY <1>2, <1>6, <1>9 DEF Handled
  <2>2. host' = Host!Start(host, mode) /\ a.ok
    BY <1>6, <2>1 DEF Host!Answer
  <2>3. Started(host, host', mode)
    BY <1>1, <1>9, <2>2, StartStarts
  <2>4. answers' = answers
    BY <1>2, <1>6, <1>9, <2>2 DEF Awaited
  <2> QED
    BY <1>3, <1>4, <1>5, <1>9, <2>3, <2>4, FetchStarted
<1>10. CASE ~host.disposed /\ c.op = "upload"
  <2>1. a = Host!Upload(host, c.chunk, c.done)
    BY <1>2, <1>6, <1>10 DEF Handled
  <2>2. answers' = Append(answers, [op |-> "upload", ok |-> a.ok])
    BY <1>2, <1>6, <1>10 DEF Awaited
  <2>3. CASE a = [host |-> host, ok |-> FALSE] /\ (host.stage # "active" \/ (host.mode # "replayable" /\ host.upload # "open"))
    <3>1. host' = host /\ answers' = Append(answers, [op |-> "upload", ok |-> FALSE])
      BY <1>6, <2>2, <2>3
    <3> QED
      BY <1>3, <1>4, <1>5, <1>10, <2>3, <3>1, UploadRefused
  <2>4. CASE host.stage # "active"
    BY <2>1, <2>3, <2>4 DEF Host!Upload, Host!Active, Host!Throw
  <2>5. CASE host.stage = "active" /\ c.done
    <3>1. a = Host!UploadEnds(host)
      BY <2>1, <2>5 DEF Host!Upload, Host!Active
    <3>2. (a.ok /\ Ends(host, a.host)) \/ (a = [host |-> host, ok |-> FALSE] /\ host.mode # "replayable" /\ host.upload # "open")
      BY <1>1, <3>1, UploadEndsEnds
    <3>3. CASE a.ok /\ Ends(host, a.host)
      <4>1. a.ok = TRUE
        BY <3>1, <3>3 DEF Host!UploadEnds, Host!Answer, Host!Throw
      <4>2. answers' = Append(answers, [op |-> "upload", ok |-> TRUE]) /\ Ends(host, host')
        BY <1>6, <2>2, <3>3, <4>1
      <4> QED
        BY <1>3, <1>4, <1>5, <1>10, <2>5, <4>2, UploadEnded
    <3> QED
      BY <2>3, <3>2, <3>3
  <2>6. CASE host.stage = "active" /\ ~c.done
    <3>1. a = Host!UploadChunk(host, c.chunk)
      BY <2>1, <2>6 DEF Host!Upload, Host!Active
    <3>2. c.chunk \in Nat
      BY <1>7 DEF CallTypes
    <3>3. \/ a.ok /\ (TakesIn(host, a.host, c.chunk) \/ Fails(host, a.host))
          \/ a = [host |-> host, ok |-> FALSE] /\ host.mode # "replayable" /\ host.upload # "open"
      BY <1>1, <1>10, <2>6, <3>1, <3>2, UploadChunkTakes
    <3>4. CASE a.ok /\ (TakesIn(host, a.host, c.chunk) \/ Fails(host, a.host))
      <4>1. a.ok = TRUE
        BY <3>1, <3>4 DEF Host!UploadChunk, Host!Answer, Host!Throw
      <4>2. answers' = Append(answers, [op |-> "upload", ok |-> TRUE])
        BY <2>2, <4>1
      <4>3. CASE TakesIn(host, host', c.chunk)
        BY <1>3, <1>4, <1>5, <1>10, <2>6, <4>2, <4>3, ChunkTaken
      <4>4. CASE Fails(host, host')
        BY <1>3, <1>4, <1>5, <1>10, <2>6, <4>2, <4>4, UploadDropped
      <4> QED
        BY <1>6, <3>4, <4>3, <4>4
    <3> QED
      BY <2>3, <3>3, <3>4
  <2> QED
    BY <2>4, <2>5, <2>6
<1>11. CASE ~host.disposed /\ c.op = "read"
  <2>1. a = Host!Read(host)
    BY <1>2, <1>6, <1>11 DEF Handled
  <2>2. host.remainder <= host.position
    BY DEF IInv, Received
  <2>3. \/ a = [host |-> host, ok |-> FALSE]
        \/ a.ok /\ host.stage = "active" /\ ~host.reading /\ host.remainder > 0
           /\ Gives(host, a.host) /\ a.host.position = host.position /\ a.host.remainder = host.remainder - 1
        \/ a.ok /\ host.stage = "active" /\ ~host.reading /\ host.remainder = 0
           /\ Stays(host, a.host, {"reading"}) /\ a.host.reading
    BY <1>1, <2>1, <2>2, ReadGives
  <2>4. CASE a = [host |-> host, ok |-> FALSE]
    <3>1. host' = host /\ answers' = Append(answers, [op |-> "read", ok |-> FALSE])
      BY <1>2, <1>6, <1>11, <2>4 DEF Awaited
    <3> QED
      BY <1>3, <1>4, <1>5, <1>11, <3>1, ReadRefused
  <2>5. CASE a.ok
    <3>1. answers' = answers
      BY <1>2, <1>6, <1>11, <2>5 DEF Awaited
    <3> QED
      BY <1>3, <1>4, <1>5, <1>6, <1>11, <2>3, <2>4, <3>1, ReadGiven, ReadLeft
  <2> QED
    BY <2>3, <2>4, <2>5
<1>12. CASE ~host.disposed /\ c.op = "cancel"
  <2>1. a = Host!Answer(Host!Release(host))
    BY <1>2, <1>6, <1>12 DEF Handled
  <2>2. host' = Host!Release(host) /\ answers' = answers
    BY <1>2, <1>6, <1>12, <2>1 DEF Host!Answer, Awaited
  <2>3. Releases(host, host') \/ (host' = host /\ host.stage # "active")
    BY <1>1, <2>2, ReleaseDrops
  <2> QED
    BY <1>3, <1>4, <1>5, <1>12, <2>2, <2>3, CancelHandled
<1>13. host.disposed => a = Refused
    BY <1>6 DEF Handled
<1>14. host.disposed \in BOOLEAN /\ c.op \in {"start", "upload", "read", "cancel"}
    BY <1>1, <1>7 DEF Hosts, CallTypes
<1> QED
    BY <1>8, <1>9, <1>10, <1>11, <1>12, <1>13, <1>14

LEMMA ReceiveAnswerStep ==
    ASSUME IInv, ReceiveAnswer
    PROVE  IInv'
<1>1. guest \in Guests /\ host \in Hosts
    BY Bounds
<1>2. PICK a : a = Head(answers)
    OBVIOUS
<1>3. answers # <<>> /\ answers' = Tail(answers) /\ UNCHANGED <<mode, host, outcomes, lost, newsLost>>
    BY DEF ReceiveAnswer
<1>4. /\ answers' \in Seq(AnswerTypes) /\ a \in AnswerTypes
      /\ \A op : Answering(op) <=> Answering(op)' \/ op = a.op
      /\ \A op : OneAnswer(op) => OneAnswer(op)' /\ (a.op = op => ~Answering(op)')
    BY <1>2, <1>3, AnswerTaken DEF IInv
<1>5. /\ Stays(host, host', {"events"}) /\ (\A type : InFlight(type)' => InFlight(type))
      /\ (host.stage = "absent" => host'.events = <<>> /\ outcomes' = <<>>)
      /\ outcomes' \in Seq(OutcomeTypes) /\ (outcomes # <<>> => outcomes' # <<>>)
      /\ UNCHANGED mode /\ lost' \in Nat /\ newsLost' \in BOOLEAN
    BY <1>3, Bounds, EventsKept DEF Stays
<1>6. CASE a.op = "upload"
  <2>1. guest' = Guest!UploadAnswered(guest, a.ok) /\ a.ok \in BOOLEAN
    BY <1>2, <1>4, <1>6 DEF ReceiveAnswer, AnswerTypes
  <2>2. \/ GivesUp(guest, guest') /\ guest'.pump = "idle"
        \/ a.ok /\ guest.exhausted /\ Same(guest, guest', {"pump", "upload"}) /\ guest'.pump = "idle" /\ ~guest'.upload
        \/ a.ok /\ ~guest.exhausted /\ (Stops(guest, guest') \/ Reads(guest, guest'))
    BY <1>1, <2>1, UploadAnsweredReads
  <2>3. CASE GivesUp(guest, guest') /\ guest'.pump = "idle"
    <3>1. ~Calls("upload") /\ ~Answering("upload")'
      BY <1>4, <1>6 DEF IInv, OneUpload
    <3>2. guest'.pump = "calling" <=> Calls("upload") \/ Answering("upload")'
      BY <2>3, <3>1
    <3>3. guest'.pump \in {guest.pump, "idle"}
      BY <2>3
    <3> QED
      BY <1>4, <1>5, <2>3, <3>2, <3>3, GivingUp
  <2> QED
    BY <1>2, <1>3, <1>6, <2>2, <2>3, PumpEnds, PumpRests, PumpReads
<1>7. CASE a.op # "upload"
  <2>1. guest' = Guest!Fail(guest)
    BY <1>2, <1>7 DEF ReceiveAnswer
  <2>2. GivesUp(guest, guest') /\ guest'.pump = guest.pump
    BY <1>1, <2>1, FailGivesUp
  <2>3. guest'.pump = "calling" <=> Calls("upload") \/ Answering("upload")'
    BY <1>4, <1>7, <2>2 DEF IInv, OneUpload
  <2> QED
    BY <1>4, <1>5, <2>2, <2>3, GivingUp
<1> QED
    BY <1>6, <1>7

LEMMA DeliveredStep ==
    ASSUME IInv, NEW seen \in BOOLEAN, NEW ok \in BOOLEAN, Delivered(seen, ok), seen \/ ~ok, lost' \in Nat
    PROVE  IInv'
<1>1. guest \in Guests /\ host \in Hosts /\ newsLost \in BOOLEAN /\ outcomes \in Seq(OutcomeTypes)
    BY Bounds
<1>2. PICK e : e = Head(host.events)
    OBVIOUS
<1>3. /\ host.events # <<>> /\ UNCHANGED <<mode, answers>>
      /\ guest' = IF seen THEN Guest!Dispatch(guest, e) ELSE guest
      /\ host' = [host EXCEPT !.events = Tail(@)]
      /\ newsLost' = (newsLost \/ (e.type = "error" /\ ~seen))
      /\ outcomes' = IF Matters(e, ok) THEN Append(outcomes, [event |-> e, ok |-> ok]) ELSE outcomes
    BY <1>2 DEF Delivered
<1>4. host.events \in Seq(EventTypes)
    BY <1>1 DEF Hosts
<1>5. e \in EventTypes /\ Tail(host.events) \in Seq(EventTypes)
    BY <1>2, <1>3, <1>4, Shrinks
<1>6. Stays(host, host', {"events"}) /\ host'.events = Tail(host.events)
  <2>1. host' \in Hosts
    BY <1>1, <1>3, <1>5 DEF Hosts
  <2> QED
    BY <1>1, <1>3, <2>1 DEF Stays, Hosts
<1>7. /\ outcomes' \in Seq(OutcomeTypes) /\ (outcomes # <<>> \/ e.last => outcomes' # <<>>)
      /\ (Failing => Failing') /\ (~ok /\ e.tracked => Failing')
      /\ Succeeding' => Succeeding \/ (ok /\ e.last)
  <2> DEFINE o == [event |-> e, ok |-> ok]
  <2>1. CASE Matters(e, ok)
    <3>1. o \in OutcomeTypes /\ o.ok = ok
      BY <1>5, <2>1 DEF Matters, OutcomeTypes, EventTypes
    <3>2. outcomes' = Append(outcomes, o)
      BY <1>3, <2>1
    <3> HIDE DEF o
    <3>3. /\ outcomes' \in Seq(OutcomeTypes) /\ outcomes' # <<>>
          /\ Failing' <=> Failing \/ ~o.ok
          /\ Succeeding' <=> Succeeding \/ o.ok
      BY <3>1, <3>2, OutcomeAdded DEF IInv
    <3> QED
      BY <2>1, <3>1, <3>3 DEF Matters
  <2>2. CASE ~Matters(e, ok)
    BY <1>1, <1>3, <2>2, OutcomesKept DEF Matters
  <2> QED
    BY <2>1, <2>2
<1>8. e.tracked <=> e.type # "error"
    BY <1>5 DEF EventTypes
<1>9. newsLost' \in BOOLEAN /\ (newsLost => newsLost')
    BY <1>1, <1>3
<1>10. CASE ~seen
  <2>1. guest' = guest /\ ~ok /\ (e.type = "error" => newsLost')
    BY <1>3, <1>10
  <2>2. guest.live => IF e.type = "error" THEN newsLost' ELSE Failing' /\ (Succeeding' => Succeeding)
    BY <1>7, <1>8, <2>1
  <2>3. Succeeding' => Succeeding \/ e.last
    BY <1>7
  <2> QED
    BY ONLY IInv, <1>2, <1>3, <1>6, <1>7, <1>9, <2>1, <2>2, <2>3, lost' \in Nat, EventMissed
<1>11. CASE seen /\ ~guest.live
  <2>1. guest' = guest
    BY <1>3, <1>11 DEF Guest!Dispatch
  <2> QED
    BY <1>2, <1>3, <1>6, <1>7, <1>9, <1>11, <2>1, EventMissed
<1>12. CASE seen /\ guest.live
  <2>0. newsLost' = newsLost /\ guest' = Guest!Dispatch(guest, e)
    BY <1>1, <1>3, <1>12
  <2>1. CASE e.type = "uploadPull"
    <3>1. guest' = Guest!Demand(guest)
      BY <1>12, <2>0, <2>1 DEF Guest!Dispatch
    <3>2. Waits(guest, guest') \/ (GivesUp(guest, guest') /\ guest'.pump = "idle" /\ guest.pump = "idle")
      BY <1>1, <1>12, <3>1, DemandReads
    <3>3. CASE GivesUp(guest, guest') /\ guest'.pump = "idle" /\ guest.pump = "idle"
      <4>1. guest'.pump = "calling" <=> Calls("upload") \/ Answering("upload")'
        BY <1>3, <3>3, AnswersKept DEF IInv, OneUpload
      <4>2. answers' \in Seq(AnswerTypes) /\ (\A op : OneAnswer(op) => OneAnswer(op)') /\ (\A op : Answering(op)' => Answering(op))
        BY <1>3, AnswersKept, Bounds
      <4>3. \A type : InFlight(type)' => InFlight(type)
        BY <1>2, <1>3, <1>6, EventTaken DEF IInv
      <4>4. host.stage # "absent"
        BY <1>3, Bounds
      <4> QED
        BY <1>3, <1>6, <1>7, <1>9, <3>3, <4>1, <4>2, <4>3, <4>4, GivingUp
    <3>4. CASE Waits(guest, guest')
      BY <1>2, <1>3, <1>6, <1>7, <1>12, <2>0, <2>1, <3>4, DemandHeard
    <3> QED
      BY <3>2, <3>3, <3>4
  <2>2. CASE e.type # "uploadPull"
    <3>1. Notices(guest, guest', e)
      BY <1>1, <1>5, <1>12, <2>0, <2>2, DispatchNotices
    <3>2. CASE e.type = "uploadCancel"
      BY <1>2, <1>3, <1>6, <1>7, <1>12, <2>0, <3>1, <3>2, CancelHeard DEF Notices
    <3>3. CASE e.type = "error"
      BY <1>2, <1>3, <1>6, <1>7, <1>12, <2>0, <3>1, <3>3, ErrorHeard DEF Notices
    <3>4. CASE e.type = "response"
      BY <1>2, <1>3, <1>6, <1>7, <1>12, <2>0, <3>1, <3>4, ResponseEnds, ResponseHeard DEF Notices
    <3>5. CASE e.type = "chunk"
      BY <1>2, <1>3, <1>6, <1>7, <1>12, <2>0, <3>1, <3>5, BodyCloses, ChunkHeard DEF Notices
    <3> QED
      BY <1>5, <2>2, <3>2, <3>3, <3>4, <3>5 DEF EventTypes
  <2> QED
    BY <2>1, <2>2
<1> QED
    BY <1>1, <1>10, <1>11, <1>12 DEF Guests

LEMMA ReceiveOutcomeStep ==
    ASSUME IInv, ReceiveOutcome
    PROVE  IInv'
<1>1. host \in Hosts /\ (host.disposed => host.stage # "active")
    BY Bounds
<1>2. PICK o : o = Head(outcomes)
    OBVIOUS
<1>3. /\ outcomes # <<>> /\ outcomes' = Tail(outcomes) /\ UNCHANGED <<mode, guest, answers, lost, newsLost>>
      /\ host' = Host!Sent(host, o.event, o.ok)
    BY <1>2 DEF ReceiveOutcome
<1>4. /\ outcomes' \in Seq(OutcomeTypes) /\ o \in OutcomeTypes
      /\ Failing <=> Failing' \/ ~o.ok
      /\ Succeeding <=> Succeeding' \/ o.ok
    BY <1>2, <1>3, OutcomeTaken DEF IInv
<1>5. host.stage # "absent"
    BY <1>3, Bounds
<1>6. \/ ~o.ok /\ (Fails(host, host') \/ Warns(host, host') \/ (host' = host /\ host.disposed))
      \/ o.ok /\ (Releases(host, host') \/ (host' = host /\ host.stage # "active"))
    BY <1>1, <1>3, <1>4, SentDrops
<1>7. outcomes' \in Seq(OutcomeTypes) /\ (Succeeding' => Succeeding)
    BY <1>4
<1>8. CASE Fails(host, host') \/ (Releases(host, host') /\ o.ok)
  <2>1. host'.disposed \/ InFlight("error")' \/ ~guest.live
    BY <1>4, <1>8, EventAdded, EventsAreEvents DEF Fails, IInv, Messages
  <2>2. host'.stage # "absent"
    BY <1>8 DEF Fails, Releases, Drops
  <2> QED
    BY <1>3, <1>7, <1>8, <2>1, <2>2, FetchDropped
<1>9. CASE Warns(host, host')
  <2>1. host.stage # "active" /\ host'.stage # "absent"
    BY <1>5, <1>9 DEF Warns, Stays
  <2> QED
    BY <1>3, <1>5, <1>7, <1>9, <2>1, FetchWarned
<1>10. CASE host' = host /\ host.stage # "active"
  <2>1. Stays(host, host', {"disposed"}) /\ host'.stage # "absent"
    BY <1>1, <1>5, <1>10 DEF Stays
  <2> QED
    BY <1>3, <1>7, <1>10, <2>1, FetchLeft
<1> QED
    BY <1>1, <1>6, <1>8, <1>9, <1>10

LEMMA NextIInv == IInv /\ [Next]_vars => IInv'
<1> SUFFICES ASSUME IInv, [Next]_vars PROVE IInv'
    OBVIOUS
<1>1. CASE UNCHANGED vars
    BY <1>1, NothingHappens
<1>2. CASE Deliver
  <2>1. Delivered(TRUE, TRUE) /\ lost' \in Nat
    BY <1>2, Bounds DEF Deliver
  <2> QED
    BY <2>1, DeliveredStep
<1>3. CASE DeliveryFails
  <2>1. lost' \in Nat
    BY <1>3, Bounds DEF DeliveryFails
  <2>2. PICK seen \in BOOLEAN : Delivered(seen, FALSE)
    BY <1>3 DEF DeliveryFails
  <2> QED
    BY <2>1, <2>2, DeliveredStep
<1> QED
    BY <1>1, <1>2, <1>3, ProgramSteps, UploadBodySteps, NetworkSteps, StreamSteps,
       HandleCallStep, ReceiveAnswerStep, ReceiveOutcomeStep DEF Next

LEMMA FetchInvariant == Spec => []IInv
    BY InitIInv, NextIInv, PTL DEF Spec
-----------------------------------------------------------------------------
(* Both bodies arrive as they were sent, whatever is lost on the way, and   *)
(* none that was cut short is taken for a whole one.                       *)
THEOREM BodiesArrive == Spec => []BodiesFaithful
<1>1. IInv => BodiesFaithful
  <2> SUFFICES ASSUME IInv PROVE BodiesFaithful
    OBVIOUS
  <2>1. /\ Numbered(guest.received) /\ Numbered(host.uploaded) /\ Len(host.uploaded) <= MaxBody
        /\ host.whole => guest.exhausted /\ Len(host.uploaded) = guest.produced
        /\ guest.stream = "closed" => host.ended /\ Len(guest.received) = host.position
    BY DEF IInv, Uploaded, Received
  <2>2. /\ host.position <= MaxBody /\ Len(guest.received) <= host.position - host.remainder
        /\ host.position \in Nat /\ host.remainder \in Nat /\ Len(guest.received) \in Nat
    BY Bounds DEF IInv, Received, Guests, Hosts
  <2>3. Len(guest.received) <= MaxBody
    BY <2>2, FetchAssumption DEF FetchAssumption
  <2> QED
    BY <2>1, <2>3 DEF BodiesFaithful
<1> QED
    BY <1>1, FetchInvariant, PTL

(* No side is left with a fetch that the other one has given up, but for    *)
(* the message that tells it.                                              *)
THEOREM NeitherSideIsLeft == Spec => []FreedTogether
<1>1. IInv => FreedTogether
  <2> SUFFICES ASSUME IInv PROVE FreedTogether
    OBVIOUS
  <2>1. outcomes # <<>> => Ending
    <3> SUFFICES ASSUME outcomes # <<>> PROVE Ending
      OBVIOUS
    <3>1. PICK t : t = Tail(outcomes)
      OBVIOUS
    <3>2. 1 \in DOMAIN outcomes /\ outcomes[1] \in OutcomeTypes
      BY <3>1, Bounds, Shrinks
    <3>3. outcomes[1].event.last \/ ~outcomes[1].ok
      BY <3>2 DEF OutcomeTypes
    <3> QED
      BY <3>2, <3>3 DEF Ending
  <2>2. Answering("start") => answers # <<>>
    BY DEF Answering
  <2> QED
    BY <2>1, <2>2 DEF IInv, Freed, FreedTogether
<1> QED
    BY <1>1, FetchInvariant, PTL

(* When nothing is on its way, every demand of one side is known to the     *)
(* other one.                                                              *)
THEOREM DemandsArrive == Spec => []NoDemandLost
<1>1. IInv => NoDemandLost
  <2> SUFFICES ASSUME IInv, Quiet, guest.live, Host!Active(host)
               PROVE  /\ guest.pump # "calling"
                      /\ guest.pull => host.reading
                      /\ host.wait /\ host.upload = "open" => guest.pump = "reading"
                      /\ host.mode = "replayable" /\ host.net = "idle" => guest.pump = "reading"
    BY DEF NoDemandLost
  <2>1. DOMAIN guest.calls = {} /\ DOMAIN answers = {} /\ DOMAIN host.events = {} /\ DOMAIN outcomes = {}
    BY DEF Quiet
  <2>2. /\ \A op : ~Calls(op) /\ ~Answering(op)
        /\ \A type : ~InFlight(type)
        /\ ~Failing
    BY <2>1 DEF Calls, Answering, InFlight, Failing
  <2>3. guest.pump \in {"idle", "reading", "calling"} /\ guest.pump # "calling"
    BY <2>2, Bounds DEF IInv, OneUpload, Guests
  <2>4. guest.pull => host.reading
    BY <2>2 DEF IInv, DemandsKept
  <2>5. Wanted => guest.pump = "reading"
    BY <2>2, <2>3 DEF IInv, DemandsKept
  <2> QED
    BY <2>3, <2>4, <2>5 DEF Wanted
<1> QED
    BY <1>1, FetchInvariant, PTL
=============================================================================
