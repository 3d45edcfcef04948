---------------------------- MODULE ScrapeService ----------------------------
(***************************************************************************)
(* What mq_prometheus promises its clients, without goroutines, locks or   *)
(* MQ calls: the availability of the queue manager as the answers to       *)
(* concurrent requests may show it.  A request is answered according to    *)
(* the availability at one moment between its arrival and its answer, only *)
(* the answer to a request can show a loss of the connection, and no       *)
(* request is accepted before the queue manager was first reached.         *)
(***************************************************************************)
CONSTANT Clients

VARIABLES phase, request

Phases == {"starting", "up", "down", "ended"}
Answers == {"data", "down", "error", "nothing"}

svars == <<phase, request>>

ServiceTypeOK ==
    /\ phase \in Phases
    /\ request \in [Clients -> {"none", "accepted"} \union Answers]

ServiceInit == phase = "starting" /\ request = [c \in Clients |-> "none"]

Serving == phase \in {"up", "down"}

Available ==
    /\ phase \in {"starting", "down"} /\ phase' = "up"
    /\ UNCHANGED request

Accept(c) ==
    /\ Serving /\ request[c] = "none"
    /\ request' = [request EXCEPT ![c] = "accepted"]
    /\ UNCHANGED phase

\* The collector is being replaced for a new connection: there is none to ask
AnswerNothing(c) ==
    /\ phase = "down" /\ request[c] = "none"
    /\ request' = [request EXCEPT ![c] = "nothing"]
    /\ UNCHANGED phase

AnswerData(c) ==
    /\ phase = "up" /\ request[c] = "accepted"
    /\ request' = [request EXCEPT ![c] = "data"]
    /\ UNCHANGED phase

AnswerDown(c) ==
    /\ phase = "down" /\ request[c] = "accepted"
    /\ request' = [request EXCEPT ![c] = "down"]
    /\ UNCHANGED phase

\* The request that meets an MQ error carries no metric, and shows the loss
AnswerError(c) ==
    /\ phase = "up" /\ request[c] = "accepted"
    /\ request' = [request EXCEPT ![c] = "error"]
    /\ phase' = "down"

Finish(c) ==
    /\ request[c] \in Answers
    /\ request' = [request EXCEPT ![c] = "none"]
    /\ UNCHANGED phase

End == phase # "ended" /\ phase' = "ended" /\ UNCHANGED request

ServiceNext ==
    \/ Available \/ End
    \/ \E c \in Clients :
          \/ Accept(c) \/ AnswerNothing(c) \/ AnswerData(c) \/ AnswerDown(c)
          \/ AnswerError(c) \/ Finish(c)

Service == ServiceInit /\ [][ServiceNext]_svars
=============================================================================
