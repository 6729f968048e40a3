--------------------------- MODULE RequestContract ---------------------------
(***************************************************************************)
(* What a caller of SidecarClient.request may rely on, with no pipes and   *)
(* no process in sight.  A request is issued once, its handler runs at     *)
(* most once, and its promise settles at most once, with an outcome that   *)
(* tells the truth about whether the handler ran.  RpcChannel is shown to  *)
(* implement this module.                                                  *)
(***************************************************************************)
EXTENDS Naturals

CONSTANT Ids            \* the request ids a client may allocate

VARIABLES outcome,      \* outcome[i]: what happened to the promise of i
          ran           \* ran[i]: how often the handler ran for i

vars == <<outcome, ran>>

Answers == {"result", "InternalError", "MethodNotFound"}

Init == /\ outcome = [i \in Ids |-> "idle"]
        /\ ran     = [i \in Ids |-> 0]

Issue(i) == /\ outcome[i] = "idle"
            /\ outcome' = [outcome EXCEPT ![i] = "open"]
            /\ UNCHANGED ran

\* The signal was aborted before the call: nothing is ever sent.
Decline(i) == /\ outcome[i] = "idle"
              /\ outcome' = [outcome EXCEPT ![i] = "declined"]
              /\ UNCHANGED ran

\* An aborted request may still run: the sidecar is not told of the abort.
Run(i) == /\ outcome[i] \in {"open", "aborted"}
          /\ ran[i] = 0
          /\ ran' = [ran EXCEPT ![i] = 1]
          /\ UNCHANGED outcome

\* "MethodNotFound" is answered exactly when no handler ran.
Answer(i, a) == /\ outcome[i] = "open"
                /\ ran[i] = (IF a = "MethodNotFound" THEN 0 ELSE 1)
                /\ outcome' = [outcome EXCEPT ![i] = a]
                /\ UNCHANGED ran

Abort(i) == /\ outcome[i] = "open"
            /\ outcome' = [outcome EXCEPT ![i] = "aborted"]
            /\ UNCHANGED ran

\* A write error promises that the handler has not run, and it never will.
FailWrite(i) == /\ outcome[i] = "open"
                /\ ran[i] = 0
                /\ outcome' = [outcome EXCEPT ![i] = "writeError"]
                /\ UNCHANGED ran

Next == \E i \in Ids : \/ Issue(i) \/ Decline(i) \/ Run(i)
                       \/ Abort(i) \/ FailWrite(i)
                       \/ \E a \in Answers : Answer(i, a)

Spec == Init /\ [][Next]_vars
=============================================================================
