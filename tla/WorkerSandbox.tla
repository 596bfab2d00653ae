--------------------------- MODULE WorkerSandbox ---------------------------
(***************************************************************************)
(* A sandbox whose engine runs in a worker (src/transport.ts: connectWorker *)
(* on the caller's side, serveWorker on the other), between two channels   *)
(* that keep the order of their messages.                                  *)
(*                                                                         *)
(* The engine (EngineDriver) appears as the requests it holds: it settles  *)
(* them one by one, or dies and settles all of them.  A reply is posted by *)
(* a reaction to its promise, hence some time after it settled; a fatal    *)
(* error is posted by the engine's hook, at once.  Nothing the worker does *)
(* matters once the transport is closed: receive drops it.                 *)
(***************************************************************************)
EXTENDS Facade, Sequences

Seqs == INSTANCE SequencesExt

VARIABLES
    toWorker,      \* execute messages on their way
    running,       \* requests the worker's engine holds
    replies,       \* settled requests whose reply is not posted yet
    swallowed,     \* requests whose reply could not be sent
    engineEnded,   \* why the engine died, or "none"
    crashed,       \* the worker is gone although nobody terminated it
    fromWorker     \* messages on their way back

workerVars == <<toWorker, running, replies, swallowed, engineEnded, crashed, fromWorker>>
vars == <<facadeVars, workerVars>>

Reply(r) == [kind |-> "reply", op |-> r.op, answer |-> r.answer]
Fatal(cause) == [kind |-> "fatal", cause |-> cause]
Exit == [kind |-> "exit"]

Init ==
    /\ FacadeInit
    /\ toWorker = <<>> /\ fromWorker = <<>>
    /\ running = {} /\ replies = {} /\ swallowed = {}
    /\ engineEnded = "none" /\ crashed = FALSE

Alive == ~closed /\ ~crashed
-----------------------------------------------------------------------------
(* The caller's side. *)

Execute(o) ==
    /\ Admit(o)
    /\ toWorker' = IF closed THEN toWorker ELSE Append(toWorker, o)
    /\ UNCHANGED <<running, replies, swallowed, engineEnded, crashed, fromWorker>>

(* postMessage throws, and with it only this operation fails. *)
HeldAnyway(o) == held \cup {o}   \* fault
NotHeld(o) == held

ExecuteFails(o) ==
    /\ ~closed
    /\ Admitted(o)
    /\ held' = NotHeld(o)
    /\ reactions' = reactions \cup Rejections({o}, "ERR_GUEST")
    /\ UNCHANGED workerVars

(* A settlement cannot be posted: the call would wait for ever. *)
SettleFails ==
    /\ TransportFails("ERR_WORKER")
    /\ UNCHANGED workerVars

(* receive: a message event is a task, so no reaction is waiting. *)
Receive ==
    /\ ~closed /\ reactions = {} /\ fromWorker # <<>>
    /\ LET m == Head(fromWorker)
       IN  \/ /\ m.kind = "reply" /\ m.op \in held
              /\ held' = held \ {m.op}
              /\ reactions' = Rejections({m.op}, m.answer)
              /\ UNCHANGED <<sandboxVars, expired, closed>>
           \/ m.kind = "reply" /\ m.op \notin held /\ UNCHANGED facadeVars
           \/ m.kind = "fatal" /\ TransportFails(m.cause)
           \/ m.kind = "exit" /\ TransportFails("ERR_WORKER")
    /\ fromWorker' = Tail(fromWorker)
    /\ UNCHANGED <<toWorker, running, replies, swallowed, engineEnded, crashed>>

(* An error event, or a message that cannot be decoded. *)
ChannelFails ==
    /\ reactions = {} /\ fromWorker # <<>>
    /\ TransportFails("ERR_WORKER")
    /\ fromWorker' = Tail(fromWorker)
    /\ UNCHANGED <<toWorker, running, replies, swallowed, engineEnded, crashed>>

Caller(A) == A /\ UNCHANGED workerVars
-----------------------------------------------------------------------------
(* The worker's side. *)

(* The engine takes a request, or refuses it when it is dead. *)
Serve ==
    /\ Alive /\ toWorker # <<>>
    /\ toWorker' = Tail(toWorker)
    /\ IF engineEnded = "none"
       THEN running' = running \cup {Head(toWorker)} /\ UNCHANGED replies
       ELSE replies' = replies \cup Rejections({Head(toWorker)}, "ERR_DISPOSED")
            /\ UNCHANGED running
    /\ UNCHANGED <<facadeVars, swallowed, engineEnded, crashed, fromWorker>>

EngineAnswers(o, answer) ==
    /\ Alive /\ o \in running
    /\ running' = running \ {o}
    /\ replies' = replies \cup Rejections({o}, answer)
    /\ UNCHANGED <<facadeVars, toWorker, swallowed, engineEnded, crashed, fromWorker>>

NotAnnounced(cause) == fromWorker   \* fault
Announced(cause) == Append(fromWorker, Fatal(cause))

EngineDies(cause) ==
    /\ Alive /\ engineEnded = "none"
    /\ engineEnded' = cause
    /\ running' = {}
    /\ replies' = replies \cup Rejections(running, cause)
    /\ fromWorker' = Announced(cause)
    /\ UNCHANGED <<facadeVars, toWorker, swallowed, crashed>>

Post ==
    /\ Alive
    /\ \E r \in replies : replies' = replies \ {r} /\ fromWorker' = Append(fromWorker, Reply(r))
    /\ UNCHANGED <<facadeVars, toWorker, running, swallowed, engineEnded, crashed>>

(* safeSend cannot send a value, and says nothing. *)
Swallow ==
    /\ Alive
    /\ \E r \in replies : /\ r.answer = "value"
                          /\ replies' = replies \ {r}
                          /\ swallowed' = swallowed \cup {r.op}
    /\ UNCHANGED <<facadeVars, toWorker, running, engineEnded, crashed, fromWorker>>

(* The worker dies, with what it had sent last, and with or without an     *)
(* event that says so.                                                     *)
Crash ==
    /\ Alive
    /\ crashed' = TRUE
    /\ \E kept \in 0..Len(fromWorker), event \in {<<>>, <<Exit>>} :
          fromWorker' = SubSeq(fromWorker, 1, kept) \o event
    /\ UNCHANGED <<facadeVars, toWorker, running, replies, swallowed, engineEnded>>
-----------------------------------------------------------------------------
Next ==
    \/ \E o \in Operations : \/ Execute(o) \/ ExecuteFails(o)
                             \/ \E answer \in Answers : EngineAnswers(o, answer)
    \/ Caller(CallerStep)
    \/ SettleFails \/ Receive \/ ChannelFails
    \/ Serve \/ Post \/ Swallow \/ Crash
    \/ \E cause \in EngineCauses : EngineDies(cause)

(* As in InlineSandbox; and a message that was posted arrives. *)
Fairness == /\ WF_vars(Caller(React)) /\ WF_vars(Receive)
            /\ \A o \in Operations : WF_vars(Caller(Expire(o))) /\ WF_vars(Caller(TimerFires(o)))

Spec == Init /\ [][Next]_vars /\ Fairness
-----------------------------------------------------------------------------
Messages == [kind : {"reply"}, op : Operations, answer : Answers \cup Causes]
            \cup [kind : {"fatal"}, cause : EngineCauses] \cup {Exit}

WorkerTypeOK ==
    /\ FacadeTypeOK
    /\ toWorker \in Seq(Operations) /\ fromWorker \in Seq(Messages)
    /\ running \cup swallowed \subseteq Operations
    /\ replies \subseteq Message
    /\ engineEnded \in {"none"} \cup EngineCauses
    /\ crashed \in BOOLEAN

Replied(s) == {m.op : m \in {n \in Seqs!ToSet(s) : n.kind = "reply"}}

(* While transport and worker live, each request the transport holds is in *)
(* exactly one place, and no place has a request it does not hold: a reply *)
(* is neither lost without trace nor sent to a request that is gone.       *)
RequestsTravelOnce ==
    Alive =>
        LET places == [waiting |-> Seqs!ToSet(toWorker), running |-> running,
                       settled |-> {r.op : r \in replies}, posted |-> Replied(fromWorker),
                       swallowed |-> swallowed]
        IN  /\ held = UNION {places[p] : p \in DOMAIN places}
            /\ \A p, q \in DOMAIN places : p # q => places[p] \cap places[q] = {}
            /\ Cardinality(places.waiting) = Len(toWorker)
            /\ \A i, j \in DOMAIN fromWorker :
                  i # j /\ fromWorker[i].kind = "reply" => fromWorker[i] # fromWorker[j]

=============================================================================
