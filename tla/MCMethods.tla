----------------------------- MODULE MCMethods ------------------------------
(***************************************************************************)
(* Two questions in one run, a behaviour asks one of them: "methods", all  *)
(* methods of the engine on two goals and two requests, with one dispatch  *)
(* and a clock that stands; and "queue", three requests that arrive while  *)
(* the clock moves and every worker comes back.                            *)
(***************************************************************************)
EXTENDS MCTrain

VARIABLE question

MethodsRequests == {Req(a1, {app}), [Req(a2, {lib}) EXCEPT !.activates = FALSE],
                    Req(a2, {app})}
MethodsGraphs == {Plan({app, lib}, {}), Plan({lib}, {lib})}
MethodsEligible == {{app, lib}, {lib}}

QueueRequests == {Req(a1, {app}), Req(a2, {dev}), Req(a3, {lib, dev})}
QueueGraphs == {Plan({app, lib}, {app}), Plan({dev}, {}), Plan({lib, dev}, {})}

QueueNext ==
    \/ TickAct
    \/ \E r \in QueueRequests, graph \in QueueGraphs : SubmitAct(r, graph)
    \/ DispatchAct(Goals)
    \/ \E d \in workers, ok \in BOOLEAN : FinishAct(d, ok)

MethodsNext ==
    /\ UNCHANGED question
    /\ \/ /\ question = "methods"
          /\ Next
          /\ train'.dispatch_serial <= 1
          /\ clock' = 0
       \/ question = "queue" /\ QueueNext

MethodsSpec ==
    /\ Init /\ question \in {"methods", "queue"}
    /\ [][MethodsNext]_<<vars, question>>
    /\ WF_vars(question = "queue" /\ DispatchAct(Goals))
    /\ WF_vars(question = "queue" /\ \E d \in workers, ok \in BOOLEAN : FinishAct(d, ok))

\* While the queue moves, an admitted and prepared request whose train is not
\* fenced does not wait forever (unless the dispatch counter is used up).
WaitingEnds ==
    \A a \in Attempts :
      (question = "queue" /\ Waiting(a)) ~> (~Waiting(a) \/ train.dispatch_serial = MaxSerial)
=============================================================================
