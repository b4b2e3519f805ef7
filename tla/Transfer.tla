------------------------------ MODULE Transfer ------------------------------
(***************************************************************************)
(* The whole system: senders (Sender.tla) and the server (Server.tla),     *)
(* joined by the network.  A datagram to the server is a packet with the   *)
(* sender's address in from; a reply carries the client's address in to.   *)
(*                                                                         *)
(* Two networks are of interest.  With Timely = FALSE nothing is known     *)
(* about delivery: loss, duplication, reordering and delay are unbounded.  *)
(* With Timely = TRUE a datagram takes less than a tick and arrives once,  *)
(* unless it is lost, of which there is a budget: the network under which  *)
(* a transfer is entitled to succeed.                                      *)
(***************************************************************************)
EXTENDS Sender, Server

CONSTANTS LossBudget,   \* datagrams a timely network may lose
          MayStop       \* whether the server may be told to shut down

ASSUME TransferAssumption == LossBudget \in Nat /\ MayStop \in BOOLEAN

VARIABLE losses         \* datagrams lost so far

system == <<sender, net, losses, vars>>

ToServer == {m \in net : m.type \in {"START", "DATA", "FIN"}}
ToClient(t) == {m \in net \ ToServer : m.to = t.from}

\* The datagram carrying a reply to p.
Reply(p, reply) ==
  [type |-> reply.type, to |-> p.from, session_id |-> p.session_id,
   sequence |-> reply.sequence, status |-> reply.status]

TransferInit == SenderInit /\ Init /\ losses = 0
-----------------------------------------------------------------------------
\* The server handles a datagram and its reply, if any, goes out.
ServerReceive(p) ==
  /\ \E out \in Outcomes(p) :
       /\ HandleKnown(p, out) \/ HandleNew(p, out)
       /\ net' = Taken(p) \cup (IF out.reply = NoReply THEN {}
                                ELSE {Reply(p, out.reply)})
  /\ UNCHANGED <<sender, losses>>

ServerRefuse(p) ==
  /\ Refuse(p)
  /\ net' = Taken(p) \cup {Reply(p, ErrorReply("kServerBusy", p.sequence))}
  /\ UNCHANGED <<sender, losses>>

\* Nobody is listening, or nobody knows the session.
ServerIgnore(p) ==
  /\ Ignore(p) \/ (~ running /\ UNCHANGED vars)
  /\ net' = Taken(p)
  /\ UNCHANGED <<sender, losses>>

ServerSweep == Sweep /\ UNCHANGED <<sender, net, losses>>

ServerStop == MayStop /\ Shutdown /\ UNCHANGED <<sender, net, losses>>

\* The server is killed, or started again: the clients are not told.
ServerCrash == Crash /\ UNCHANGED <<sender, net, losses>>

ServerRestart == Restart /\ UNCHANGED <<sender, net, losses>>

SenderReceive(t, m) ==
  /\ ControlError(t, m) \/ ControlReply(t, m) \/ ControlIgnored(t, m)
     \/ DataReceive(t, m)
  /\ UNCHANGED <<losses, vars>>

\* With no send_file running on its socket a datagram goes unread.
Unread(t, m) ==
  /\ \A u \in Transfers : u.from = t.from => sender[u].phase \in {"idle", "done"}
  /\ net' = Taken(m)
  /\ UNCHANGED <<sender, losses, vars>>

SenderBegin(t) == Begin(t) /\ UNCHANGED <<losses, vars>>

SenderTimeout(t) ==
  (ControlTimeout(t) \/ DataTimeout(t)) /\ UNCHANGED <<losses, vars>>

SenderFailure(t) == LocalFailure(t) /\ UNCHANGED <<losses, vars>>

Lose(m) ==
  /\ Timely /\ losses < LossBudget
  /\ net' = net \ {m}
  /\ losses' = losses + 1
  /\ UNCHANGED <<sender, vars>>

\* Time passes for everyone; on a timely network only once there is nothing
\* left to deliver and nothing owed.
Time ==
  /\ Timely => net = {} /\ \A t \in Transfers : ~ Ripe(t)
  /\ sender' = [t \in Transfers |-> Aged(sender[t])]
  /\ Tick \/ (~ running /\ UNCHANGED vars)
  /\ UNCHANGED <<net, losses>>

Delivery ==
  \/ \E p \in ToServer : ServerReceive(p) \/ ServerRefuse(p) \/ ServerIgnore(p)
  \/ \E t \in Transfers : \E m \in ToClient(t) :
       SenderReceive(t, m) \/ Unread(t, m)

TransferNext ==
  \/ Delivery
  \/ \E t \in Transfers : SenderBegin(t) \/ SenderTimeout(t) \/ SenderFailure(t)
  \/ \E m \in net : Lose(m)
  \/ ServerSweep
  \/ ServerStop
  \/ ServerCrash
  \/ ServerRestart
  \/ Time

\* Clocks run, and a blocked recv_from returns when its timeout is over.  Only
\* on a timely network is anything known about delivery.
TransferFairness ==
  /\ WF_system(Time)
  /\ \A t \in Transfers : WF_system(SenderTimeout(t))
  /\ Timely => WF_system(Delivery)

TransferSpec == TransferInit /\ [][TransferNext]_system /\ TransferFairness
-----------------------------------------------------------------------------
\* The senders are what send_file can be, and every datagram in flight to the
\* server is one a transfer can send.
SenderTypeOK ==
  /\ \A t \in Transfers :
       /\ sender[t].phase \in {"idle", "start", "data", "fin", "done"}
       /\ sender[t].phase = "done" <=> sender[t].result # "none"
       /\ sender[t].attempt \in 0 .. MaxRetries /\ sender[t].waited \in 0 .. Rto
       /\ sender[t].next \in 0 .. Total(t)
       /\ DOMAIN sender[t].in_flight \subseteq
            Oldest(sender[t]) .. Oldest(sender[t]) + WindowCapacity - 1
       /\ sender[t].phase = "data" => sender[t].in_flight # <<>>
  /\ ToServer \subseteq UNION {PacketsOf(t) : t \in Transfers}

\* What a sender still at work takes as delivered.
Acked(t) ==
  IF sender[t].phase \in {"data", "fin"}
  THEN (0 .. sender[t].next - 1) \ DOMAIN sender[t].in_flight ELSE {}

OutputOf(t) == OutputPath(sanitize_filename(t.name))

\* When send_file returns kNone the file is in the output directory, whole and
\* under its name (or another transfer has since replaced it there), whatever
\* the network did and whatever has become of the session.
SuccessMeansDelivered ==
  \A t \in Transfers : sender[t].result = "kNone" =>
    /\ Exists(disk, OutputOf(t))
    /\ \E u \in Transfers : /\ IsSafe(u.name) /\ OutputOf(u) = OutputOf(t)
                            /\ Contents(disk, OutputOf(t)) = u.contents

\* "Session ids validated on every packet": the DATA loop only retires a packet
\* that the server has acknowledged in this very session.  (On an untimely
\* network net keeps every datagram that was ever sent.)
AcksAreOwn ==
  ~ Timely => \A t \in Transfers : \A q \in Acked(t) :
    \E m \in net \ ToServer :
      /\ m.type = "ACK" /\ m.to = t.from
      /\ m.session_id = t.session_id /\ m.sequence = q

\* On a timely network a DATA or FIN, however often lost and retransmitted,
\* still finds its session: the server outlives every retry budget.  And what
\* the sender no longer keeps, that session has stored.
SomebodyHome ==
  Timely /\ running => \A t \in Transfers : \A p \in ToServer :
    p.type \in {"DATA", "FIN"} /\ Key(p) = Key(StartPacket(t)) =>
      /\ Key(p) \in DOMAIN sessions
      /\ Acked(t) \subseteq sessions[Key(p)].receiver.stored

\* "A dead peer ends the transfer instead of hanging forever": whatever the
\* network and the server do, send_file returns.
SenderTerminates ==
  \A t \in Transfers : sender[t].phase # "idle" ~> sender[t].phase = "done"

\* With fewer losses than one chunk may be retried every transfer ends with the
\* verdict it deserves: kNone, or the server's refusal of its name (whose ERROR
\* may have to be replayed), unless a system call of its own fails or the server
\* was full and said so.
EventuallyRightVerdict ==
  \A t \in Transfers : sender[t].phase # "idle" ~>
    \/ losses >= MaxRetries
    \/ sender[t].result \in LocalErrors
    \/ sender[t].result = "kRemoteError" /\ sender[t].remote_status = "kServerBusy"
       /\ count.refused > 0
    \/ IF IsSafe(t.name) THEN sender[t].result = "kNone"
       ELSE /\ sender[t].result = "kRemoteError"
            /\ sender[t].remote_status = "kInvalidFilename"
=============================================================================
