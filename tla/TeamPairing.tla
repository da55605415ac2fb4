------------------------------ MODULE TeamPairing ------------------------------
(***************************************************************************)
(* TeamBuilder: two agents on one machine meet on a TCP port.  Whoever     *)
(* cannot connect listens, connects to itself and waits for a greeting;    *)
(* whoever can connect sends its identifier and a greeting.  Nothing ever  *)
(* stops the listening or clears the flag that keeps it going, so the next *)
(* run of the action finds the listener of an earlier one.                 *)
(***************************************************************************)
EXTENDS Naturals, Sequences

CONSTANTS
  Builders,   \* the agents
  Nobody,
  MaxRuns     \* bound of an instance: runs of the action per agent

ASSUME PairingAssumption == Nobody \notin Builders /\ MaxRuns \in Nat

VARIABLES
  listener,   \* the agent that listens on the port
  conn,       \* per agent and run: the connection made in that run
  builder     \* per agent: the run in progress

pairingVars == <<listener, conn, builder>>

\* A connection: the agent at its other end, what was sent on it and not read, whether
\* its maker has closed it, and whether the other end has read the identifier.
Connections == [to : Builders \cup {Nobody}, sent : Seq({"ID", "hello", "you too"}),
                closed : BOOLEAN, served : BOOLEAN]
NoConnection == [to |-> Nobody, sent |-> <<>>, closed |-> FALSE, served |-> FALSE]

\* server: this run began to listen; heard: who sent the message the run ended on
IdleBuilder(n) == [pc |-> "idle", runs |-> n, server |-> FALSE, inbox |-> <<>>, heard |-> Nobody]

PairingInit ==
  /\ listener = Nobody
  /\ conn = [p \in Builders |-> [r \in 1..MaxRuns |-> NoConnection]]
  /\ builder = [p \in Builders |-> IdleBuilder(0)]

At(p, pc) == builder[p].pc = pc
Send(p, m) ==
  conn' = [conn EXCEPT ![p][builder[p].runs].sent = Append(@, m)]

\* Run makes a new channel for messages, and connectToServer closes the connection
\* of the run before.
RunBegin(p) ==
  LET n == builder[p].runs + 1 IN
  /\ At(p, "idle") /\ n <= MaxRuns
  /\ builder' = [builder EXCEPT ![p] = [IdleBuilder(n) EXCEPT !.pc = "dial"]]
  /\ conn' = IF n > 1 THEN [conn EXCEPT ![p][n - 1].closed = TRUE] ELSE conn
  /\ UNCHANGED listener

\* connectToServer: connects and sends the identifier
Connect(p, pc) ==
  /\ listener # Nobody
  /\ conn' = [conn EXCEPT ![p][builder[p].runs] =
                [NoConnection EXCEPT !.to = listener, !.sent = <<"ID">>]]
  /\ builder' = [builder EXCEPT ![p].pc = pc]
  /\ UNCHANGED listener

DialServer(p) == At(p, "dial") /\ Connect(p, "greet")

DialFails(p) ==
  /\ At(p, "dial") /\ listener = Nobody
  /\ builder' = [builder EXCEPT ![p].pc = "listen"]
  /\ UNCHANGED <<listener, conn>>

CreateServer(p) ==
  /\ At(p, "listen") /\ listener = Nobody
  /\ listener' = p
  /\ builder' = [builder EXCEPT ![p].pc = "self", ![p].server = TRUE]
  /\ UNCHANGED conn

\* The other agent was faster: the run ends in failure.
CreateServerFails(p) ==
  /\ At(p, "listen") /\ listener # Nobody
  /\ builder' = [builder EXCEPT ![p].pc = "idle"]
  /\ UNCHANGED <<listener, conn>>

\* A bug: the server greets on its own connection too.
BugDialSelf(p) == At(p, "self") /\ Connect(p, "greet")

DialSelf(p) == At(p, "self") /\ Connect(p, "wait")

SendHello(p) ==
  /\ At(p, "greet")
  /\ Send(p, "hello")
  /\ builder' = [builder EXCEPT ![p].pc = "wait"]
  /\ UNCHANGED listener

\* The goroutine that accepts: the first read should give the identifier, and may
\* give what was sent after it as well, which is then part of the identifier.
Accept(p, r, n) ==
  LET c == conn[p][r] IN
  /\ c.to # Nobody /\ ~c.served /\ n \in 1..Len(c.sent)
  /\ conn' = [conn EXCEPT ![p][r].served = TRUE, ![p][r].sent = SubSeq(c.sent, n + 1, Len(c.sent))]
  /\ UNCHANGED <<listener, builder>>

\* handleClient passes a message to the channel of the run now in progress.
HandleClient(p, r) ==
  LET c == conn[p][r] IN
  /\ c.served /\ c.sent # <<>>
  /\ conn' = [conn EXCEPT ![p][r].sent = Tail(c.sent)]
  /\ builder' = [builder EXCEPT ![c.to].inbox = Append(@, [from |-> p, text |-> Head(c.sent)])]
  /\ UNCHANGED listener

\* The other end was closed and everything read.
ClientGone(p, r) ==
  /\ conn[p][r].served /\ conn[p][r].closed /\ conn[p][r].sent = <<>>
  /\ conn' = [conn EXCEPT ![p][r] = [NoConnection EXCEPT !.closed = TRUE]]
  /\ UNCHANGED <<listener, builder>>

\* The run ends on the first message; a server answers, on its own connection.
Hear(p) ==
  LET b == builder[p] IN
  /\ At(p, "wait") /\ b.inbox # <<>>
  /\ builder' = [builder EXCEPT ![p].pc = "idle", ![p].inbox = Tail(b.inbox),
                                ![p].heard = Head(b.inbox).from]
  /\ IF b.server THEN Send(p, "you too") ELSE UNCHANGED conn
  /\ UNCHANGED listener

\* 30 seconds for a client and 300 for a server; the run still ends in success.
WaitTimesOut(p) ==
  /\ At(p, "wait")
  /\ builder' = [builder EXCEPT ![p].pc = "idle"]
  /\ UNCHANGED <<listener, conn>>

PairingNext ==
  \E p \in Builders :
    \/ RunBegin(p) \/ DialServer(p) \/ DialFails(p) \/ CreateServer(p)
    \/ CreateServerFails(p) \/ DialSelf(p) \/ SendHello(p) \/ Hear(p) \/ WaitTimesOut(p)
    \/ \E r \in 1..MaxRuns : \/ HandleClient(p, r) \/ ClientGone(p, r)
                             \/ \E n \in 1..2 : Accept(p, r, n)
-----------------------------------------------------------------------------
PairingTypeOK ==
  /\ listener \in Builders \cup {Nobody}
  /\ conn \in [Builders -> [1..MaxRuns -> Connections]]
  /\ \A p \in Builders :
       /\ builder[p].pc \in {"idle", "dial", "listen", "self", "greet", "wait"}
       /\ builder[p].runs \in 0..MaxRuns /\ builder[p].server \in BOOLEAN
       /\ builder[p].heard \in Builders \cup {Nobody}

\* A run that began to listen and ended on a message has heard its partner and not
\* itself, although it is connected to itself and answers on that connection; and the
\* partner was then in a run that connected to it.
PairedWithPartner ==
  \A p \in Builders :
    (builder[p].server /\ builder[p].heard # Nobody) =>
      LET q == builder[p].heard IN
      q # p /\ \E r \in 1..MaxRuns : conn[q][r].to = p \/ conn[q][r].closed
=============================================================================
