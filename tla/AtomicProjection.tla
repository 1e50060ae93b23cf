-------------------------- MODULE AtomicProjection --------------------------
(* What util.AtomicWriter promises its callers, with the directory tree left *)
(* out: the target directory has one content, a reader sees either nothing   *)
(* or one complete rendering of a payload some caller asked for, a call      *)
(* changes the content at most once, in one step, and a call that reports    *)
(* success has done so.  A call that reports an error may have done so too.  *)
CONSTANTS Writers,      \* the calls of Write
          Payloads,     \* what they may be asked to project
          NoPayload,    \* "no call is running"
          NoContent,    \* the content before the first projection
          Render(_)     \* the complete content a payload stands for

VARIABLES content,      \* what a reader of the target directory sees
          phase,        \* phase[w]: "idle", "asked" or "committed"
          request,      \* request[w]: the payload of the running call
          outcome       \* outcome[w]: what the last finished call returned

vars == <<content, phase, request, outcome>>

Init ==
  /\ content = NoContent
  /\ phase = [w \in Writers |-> "idle"]
  /\ request = [w \in Writers |-> NoPayload]
  /\ outcome = [w \in Writers |-> "none"]

Ask(w, p) ==
  /\ phase[w] = "idle"
  /\ phase' = [phase EXCEPT ![w] = "asked"]
  /\ request' = [request EXCEPT ![w] = p]
  /\ outcome' = [outcome EXCEPT ![w] = "none"]
  /\ UNCHANGED content

Reject(w) ==                    \* an invalid payload is refused outright
  /\ phase[w] = "idle"
  /\ outcome' = [outcome EXCEPT ![w] = "error"]
  /\ UNCHANGED <<content, phase, request>>

Commit(w) ==
  /\ phase[w] = "asked"
  /\ content' = Render(request[w])
  /\ phase' = [phase EXCEPT ![w] = "committed"]
  /\ UNCHANGED <<request, outcome>>

Return(w, result) ==
  /\ phase[w] # "idle"
  /\ result = "ok" => phase[w] = "committed"
  /\ phase' = [phase EXCEPT ![w] = "idle"]
  /\ request' = [request EXCEPT ![w] = NoPayload]
  /\ outcome' = [outcome EXCEPT ![w] = result]
  /\ UNCHANGED content

Crash ==                        \* the process dies, the directory stays
  /\ phase' = [w \in Writers |-> "idle"]
  /\ request' = [w \in Writers |-> NoPayload]
  /\ outcome' = [w \in Writers |-> "none"]
  /\ UNCHANGED content

Next ==
  \/ \E w \in Writers :
       \/ \E p \in Payloads : Ask(w, p)
       \/ Reject(w)
       \/ Commit(w)
       \/ \E result \in {"ok", "error"} : Return(w, result)
  \/ Crash

Spec == Init /\ [][Next]_vars
=============================================================================
