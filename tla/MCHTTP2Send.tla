----------------------------- MODULE MCHTTP2Send -----------------------------
(* Two streams that share the connection window and the write lock: on     *)
(* subject, everything; on companion, an application that responds, writes *)
(* its body and returns, on a finished request whose window the peer may   *)
(* only widen.  The peer starts out allowing one byte on a stream.         *)
EXTENDS HTTP2Send

CONSTANTS subject, companion

ToSubject == \/ ConnUpdate(1) \/ \E inc \in 1..2 : StreamUpdate(subject, inc)
             \/ StreamUpdate(companion, 1)
             \/ \E initial \in Initials \ {peerInitialWindow} : Settings(initial)
             \/ RstStream(subject) \/ streamError(subject) \/ EndOfInput

CompanionReturns == asked[companion] = Body /\ ReturnTo(companion, "finish")

Companion == Respond(companion, FALSE) \/ WriteBody(companion) \/ CompanionReturns

MCNext == \/ readerStep \/ ToSubject
          \/ handlerStep(subject) \/ application(subject)
          \/ handlerStep(companion) \/ Companion

MCInit == Init /\ streams[companion].remoteDone /\ peerInitialWindow = 1

MCSpec == /\ MCInit /\ [][MCNext]_vars
          /\ SF_vars(readerStep) /\ \A id \in Ids : SF_vars(handlerStep(id))
          /\ WF_vars(application(subject)) /\ WF_vars(Companion)
=============================================================================
