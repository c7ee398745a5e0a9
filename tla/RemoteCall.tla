----------------------------- MODULE RemoteCall -----------------------------
(***************************************************************************)
(* What the serial service of the base promises its clients over the       *)
(* wheel-quick-release board: one call at a time, performed by the board    *)
(* at most once in each of its lives, and answered, if the call succeeds,   *)
(* with the whole answer to that very request.  When calls have failed and  *)
(* the same request is made again, the answer to the first may do for it.   *)
(***************************************************************************)
EXTENDS Naturals, Sequences

CONSTANTS Requests,   \* what can be asked
          MaxCalls    \* bound on the number of calls

VARIABLES status,     \* SerialServiceStatus: idle, pending, succeeded or failed
          requests,   \* the request of each call; the last one is the current one
          performed,  \* what the board did with each call: never, now (in this life), before
          settled,    \* the last call that succeeded
          answer      \* the call whose answer the client holds, 0 while there is none

vars == <<status, requests, performed, settled, answer>>

Call == Len(requests)

Init == /\ status = "idle" /\ requests = << >> /\ settled = 0 /\ answer = 0
        /\ performed = [c \in 1 .. MaxCalls |-> "never"]

Submit(r) == /\ status = "idle" /\ Call < MaxCalls
             /\ requests' = Append(requests, r)
             /\ status' \in {"pending", "failed"}
             /\ UNCHANGED <<performed, settled, answer>>

Perform(c) == /\ performed[c] # "now"
              /\ performed' = [performed EXCEPT ![c] = "now"]
              /\ UNCHANGED <<status, requests, settled, answer>>

Reply(c) == /\ status = "pending" /\ c > settled
            /\ performed[c] # "never" /\ requests[c] = requests[Call]
            /\ status' = "succeeded" /\ answer' = c /\ settled' = Call
            /\ UNCHANGED <<requests, performed>>

Fail == /\ status = "pending"
        /\ status' = "failed"
        /\ UNCHANGED <<requests, performed, settled, answer>>

\* serial_service_release, or serial_service_cancel of a pending call.
Forget == /\ status' = "idle" /\ answer' = 0
          /\ UNCHANGED <<requests, performed, settled>>

\* The board loses its memory: what it did before may be done again.
Restart == /\ performed' = [c \in 1 .. MaxCalls |->
                              IF performed[c] = "now" THEN "before" ELSE performed[c]]
           /\ UNCHANGED <<status, requests, settled, answer>>

Next == \/ \E r \in Requests : Submit(r)
        \/ \E c \in 1 .. Call : Perform(c) \/ Reply(c)
        \/ Fail \/ Forget \/ Restart

Spec == Init /\ [][Next]_vars
=============================================================================
