--------------------------- MODULE InlineSandbox ---------------------------
(***************************************************************************)
(* A sandbox whose engine runs on the caller's thread (connectInline): the *)
(* transport is the driver itself, and its death is reported to the facade *)
(* inside the turn that finds it out, before any of the promises the turn  *)
(* settled is reacted to.                                                  *)
(***************************************************************************)
EXTENDS Facade

(* A turn settles the promise of one request. *)
InlineAnswers(o, answer) ==
    /\ ~closed
    /\ o \in held
    /\ held' = held \ {o}
    /\ reactions' = reactions \cup Rejections({o}, answer)
    /\ UNCHANGED <<sandboxVars, expired, closed>>

InlineDies(cause) == TransportFails(cause)

InlineNext ==
    \/ \E o \in Operations : \/ Admit(o)
                             \/ \E answer \in Answers : InlineAnswers(o, answer)
    \/ CallerStep
    \/ \E cause \in EngineCauses : InlineDies(cause)

(* Microtasks run, time passes, and a due timer runs.  Nothing is assumed  *)
(* of the engine.                                                          *)
InlineFairness ==
    /\ WF_facadeVars(React)
    /\ \A o \in Operations : WF_facadeVars(Expire(o)) /\ WF_facadeVars(TimerFires(o))

InlineSpec == FacadeInit /\ [][InlineNext]_facadeVars /\ InlineFairness
=============================================================================
