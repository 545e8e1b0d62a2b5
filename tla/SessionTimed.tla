---------------------------- MODULE SessionTimed ----------------------------
(***************************************************************************)
(* Session with the timeout of send_command measured in heartbeats.  With  *)
(* the default heartbeat_interval of 10 s, an agent that runs no command   *)
(* for long goes through three cycles of its loop in the 30 s that a       *)
(* request waits.  This module keeps the behaviours of Session in which    *)
(* everything else is prompt and requests are made one by one: a command   *)
(* ends, and the hub has answered all it was sent, before the agent's next *)
(* heartbeat, and a request times out only after Patience cycles.          *)
(***************************************************************************)
EXTENDS Session

CONSTANT Patience    \* the heartbeats of an agent during the timeout of a request

VARIABLE age         \* the heartbeats since the request was written, up to Patience

timedVars == <<vars, age>>

\* Nothing that the agent sent on its connection is still being worked on.
Quiet(n) ==
    /\ pc[n] # "running"
    /\ ws[n] # NoConn => up[n][ws[n]] = <<>> /\ handler[n][ws[n]] # "storing"

Prompt ==
    /\ \A n \in Node : SendHeartbeat(n) => Quiet(n)
    /\ \A c \in Cmd : Timeout(c) =>
          age[c] = Patience /\ Quiet(call[c].node) /\ pc[call[c].node] # "reading"

OneByOne == \A c \in Cmd, n \in Node : Issue(c, n) => pending = {}

Waits(c) == call[c].st \in {"waiting", "resolved"}

Age ==
    age' = [c \in Cmd |->
              IF ~Waits(c)' THEN 0
              ELSE IF Waits(c) /\ SendHeartbeat(call[c].node) /\ age[c] < Patience
                   THEN age[c] + 1
              ELSE age[c]]

TimedNext == Next /\ Prompt /\ OneByOne /\ Age

TimedSpec == Init /\ age = [c \in Cmd |-> 0] /\ [][TimedNext]_timedVars

\* agent.py:192 takes the message it reads for the hub's answer to the heartbeat
\* it just sent.  Were it so, a request would be read in the first cycle after
\* it was written, or in the second: it would not time out while its agent goes
\* on heartbeating on the connection.
HealthyAgentAnswers ==
    [][\A c \in Cmd :
          call[c].st = "waiting" /\ call'[c].st = "timeout"
            => ws[call[c].node] # call[c].conn
                \/ ~Open(call[c].node, call[c].conn)]_timedVars
=============================================================================
