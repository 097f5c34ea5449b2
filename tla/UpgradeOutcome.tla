--------------------------- MODULE UpgradeOutcome ---------------------------
(***************************************************************************)
(* What the upgrade pipeline promises each connection (spec 4.3 and 6).   *)
(* An upgrade request gets at most one answer on its raw transport, and   *)
(* the answer is never replaced:                                          *)
(*   - a rejection, with a not-found or unauthorized status, which ends   *)
(*     the connection, possibly at once on arrival;                       *)
(*   - or the 101 of an upgrade, only for an admissible request; the      *)
(*     upgraded connection ends later.                                    *)
(* A request can also end unanswered, when its client goes away.  Every   *)
(* connection that is not finished ends when the process does, and a dead *)
(* process answers nothing more; a request can end the process as it      *)
(* arrives.                                                               *)
(***************************************************************************)

CONSTANTS
  Conns,          \* the connections
  Reqs,           \* what a connection can have asked for
  Admissible(_)   \* the requests that may be upgraded

VARIABLES
  phase,   \* where each connection is
  req,     \* what it asked for
  answer,  \* the HTTP status written on its transport (0: none)
  up       \* the process is running

vars == <<phase, req, answer, up>>

RejectCodes == {401, 404}

Init ==
  /\ phase = [c \in Conns |-> "idle"]
  /\ req \in [Conns -> Reqs]
  /\ answer = [c \in Conns |-> 0]
  /\ up = TRUE

\* A request arrives; it is either refused on the spot or awaits a verdict.
Receive(c) ==
  /\ up
  /\ phase[c] = "idle"
  /\ \E r \in Reqs : req' = [req EXCEPT ![c] = r]
  /\ \/ /\ phase' = [phase EXCEPT ![c] = "waiting"]
        /\ UNCHANGED answer
     \/ \E code \in RejectCodes :
          /\ phase' = [phase EXCEPT ![c] = "refused"]
          /\ answer' = [answer EXCEPT ![c] = code]
  /\ UNCHANGED up

\* A waiting request is refused.
Refuse(c) ==
  /\ up
  /\ phase[c] = "waiting"
  /\ \E code \in RejectCodes :
       /\ phase' = [phase EXCEPT ![c] = "refused"]
       /\ answer' = [answer EXCEPT ![c] = code]
  /\ UNCHANGED <<req, up>>

\* A waiting, admissible request is upgraded.
Admit(c) ==
  /\ up
  /\ phase[c] = "waiting"
  /\ Admissible(req[c])
  /\ phase' = [phase EXCEPT ![c] = "admitted"]
  /\ answer' = [answer EXCEPT ![c] = 101]
  /\ UNCHANGED <<req, up>>

\* The client of a waiting request went away: it ends unanswered.
Abandon(c) ==
  /\ up
  /\ phase[c] = "waiting"
  /\ phase' = [phase EXCEPT ![c] = "over"]
  /\ UNCHANGED <<req, answer, up>>

\* An upgraded connection ends.
Finish(c) ==
  /\ phase[c] = "admitted"
  /\ phase' = [phase EXCEPT ![c] = "over"]
  /\ UNCHANGED <<req, answer, up>>

\* What a death leaves of phase: every connection in extra, and every
\* waiting or admitted one, is over.
Ended(extra) ==
  [d \in Conns |->
     IF d \in extra \/ phase[d] \in {"waiting", "admitted"} THEN "over"
     ELSE phase[d]]

\* The process ends, with every connection that is not finished.  The
\* step may be the one that upgraded an admissible waiting request, or
\* the arrival of a request on an idle connection, which ends it too.
Die ==
  /\ up
  /\ up' = FALSE
  /\ \/ /\ phase' = Ended({})
        /\ \/ answer' = answer
           \/ \E c \in Conns :
                /\ phase[c] = "waiting"
                /\ Admissible(req[c])
                /\ answer' = [answer EXCEPT ![c] = 101]
     \/ \E c \in Conns :
          /\ phase[c] = "idle"
          /\ phase' = Ended({c})
          /\ answer' = answer
  /\ UNCHANGED req

Next ==
  \/ \E c \in Conns :
       Receive(c) \/ Refuse(c) \/ Admit(c) \/ Abandon(c) \/ Finish(c)
  \/ Die

Spec == Init /\ [][Next]_vars

=============================================================================
