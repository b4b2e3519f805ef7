-------------------------- MODULE BlockingReceiver --------------------------
(***************************************************************************)
(* swiftlink::transfer::receive_file (receiver.cpp): one call, which drives*)
(* one ReceiverSession from a blocking socket until the session settles,   *)
(* and then returns.  It is composed with the senders of Sender.tla over a *)
(* timely network that may lose datagrams.                                 *)
(*                                                                         *)
(* Unlike the epoll server this driver has no table and does not linger.   *)
(* Whoever sends to its port reaches the one session there is, and once    *)
(* that has settled nobody answers any more.                               *)
(***************************************************************************)
EXTENDS Sender, ReceiverSession

CONSTANTS IdleTimeout,     \* ReceiverConfig::idle_timeout, in ticks
          ReceiverErrors,  \* the errors of its own the receiver may meet
          LossBudget,      \* bound: datagrams of each type the network may lose
          NoiseBudget      \* bound: datagrams that do not decode, and signals

ASSUME BlockingAssumption ==
  /\ IdleTimeout \in Nat \ {0} /\ LossBudget \in Nat /\ NoiseBudget \in Nat
  /\ ReceiverErrors \subseteq {"kSocketFailed", "kReceiveFailed", "kSendFailed"}

VARIABLES receiver,   \* the call: its session, its clock, what it returned
          disk,       \* the output directory
          lost,       \* the datagrams lost so far, by type (a history)
          noise       \* undecodable datagrams so far

system == <<sender, net, receiver, disk, lost, noise>>

ToReceiver == {m \in net : m.type \in {"START", "DATA", "FIN"}}
ToClient(t) == {m \in net \ ToReceiver : m.to = t.from}

Listening == receiver.result = "none"

BlockingInit ==
  /\ SenderInit
  /\ receiver = [session |-> NewSession, idle |-> 0, result |-> "none"]
  /\ disk = EmptyDisk
  /\ lost = [type \in {"START", "DATA", "FIN", "START_ACK", "ACK", "FIN_ACK",
                       "ERROR"} |-> 0]
  /\ noise = 0
-----------------------------------------------------------------------------
\* send_reply: to the peer and the session the packet came from.
send_reply(p, reply) ==
  IF reply = NoReply THEN {}
  ELSE {[type |-> reply.type, to |-> p.from, session_id |-> p.session_id,
         sequence |-> reply.sequence, status |-> reply.status]}

\* Mutant: whatever settled is a success.
Returned_kNone(session) == IF session.finished THEN "kNone" ELSE "none"

\* The loop condition, and the value of the call once it is left.
Returned(session) == IF session.finished THEN session.error ELSE "none"

\* receive_file returns: its session is destroyed with it.
Return(session, dsk, result) ==
  /\ receiver' = [receiver EXCEPT !.session = close_file(session),
                                  !.idle = 0, !.result = result]
  /\ disk' = Reclaim(unlink(dsk, Leftover(session)), {})

Continue(session, dsk) ==
  /\ receiver' = [receiver EXCEPT !.session = session, !.idle = 0]
  /\ disk' = dsk

\* Mutant: the loop is left before the last reply is sent.
ReceivePacket_mute(p) ==
  /\ Listening
  /\ \E out \in handle_packet(receiver.session, disk, p) :
       \/ /\ ~ out.session.finished
          /\ Continue(out.session, out.disk)
          /\ net' = Taken(p) \cup send_reply(p, out.reply)
       \/ /\ out.session.finished
          /\ Return(out.session, out.disk, Returned(out.session))
          /\ net' = Taken(p)
  /\ UNCHANGED <<sender, lost, noise>>

\* Mutant: it stays to answer repeated FINs, and then reports the silence.
ReceivePacket_lingering(p) ==
  /\ Listening
  /\ \E out \in handle_packet(receiver.session, disk, p) :
       /\ Continue(out.session, out.disk)
       /\ net' = Taken(p) \cup send_reply(p, out.reply)
  /\ UNCHANGED <<sender, lost, noise>>

\* One pass of the loop: a packet is handled and the reply, if any, sent.
ReceivePacket(p) ==
  /\ Listening
  /\ \E out \in handle_packet(receiver.session, disk, p) :
       \/ /\ ~ out.session.finished
          /\ Continue(out.session, out.disk)
          /\ net' = Taken(p) \cup send_reply(p, out.reply)
       \/ /\ out.session.finished
          /\ Return(out.session, out.disk, Returned(out.session))
          /\ net' = Taken(p) \cup send_reply(p, out.reply)
       \/ /\ out.reply # NoReply /\ "kSendFailed" \in ReceiverErrors
          /\ Return(out.session, out.disk, "kSendFailed")
          /\ net' = Taken(p)
  /\ UNCHANGED <<sender, lost, noise>>

\* What does not decode, and an interrupting signal, only restart the wait.
ReceiveNoise ==
  /\ Listening /\ noise < NoiseBudget
  /\ noise' = noise + 1
  /\ receiver' = [receiver EXCEPT !.idle = 0]
  /\ UNCHANGED <<sender, net, disk, lost>>

\* Mutant: a wait that is over is begun again.
IdleExpires_again ==
  /\ Listening /\ receiver.idle >= IdleTimeout
  /\ receiver' = [receiver EXCEPT !.idle = 0]
  /\ UNCHANGED <<sender, net, disk, lost, noise>>

\* No datagram for the whole of idle_timeout.
IdleExpires ==
  /\ Listening /\ receiver.idle >= IdleTimeout
  /\ Return(receiver.session, disk, "kPeerUnresponsive")
  /\ UNCHANGED <<sender, net, lost, noise>>

\* The timeout cannot be set, or the receive fails.
ReceiverFails ==
  /\ Listening
  /\ \E error \in ReceiverErrors \ {"kSendFailed"} :
       Return(receiver.session, disk, error)
  /\ UNCHANGED <<sender, net, lost, noise>>

\* The port is not read after the call has returned.
Unheard(p) ==
  /\ ~ Listening
  /\ net' = Taken(p)
  /\ UNCHANGED <<sender, receiver, disk, lost, noise>>
-----------------------------------------------------------------------------
others == <<receiver, disk, lost, noise>>

SenderReceive(t, m) ==
  /\ ControlError(t, m) \/ ControlReply(t, m) \/ ControlIgnored(t, m)
     \/ DataReceive(t, m)
  /\ UNCHANGED others

\* With no send_file running on its socket a datagram goes unread.
Unread(t, m) ==
  /\ \A u \in Transfers : u.from = t.from => sender[u].phase \in {"idle", "done"}
  /\ net' = Taken(m)
  /\ UNCHANGED <<sender, others>>

SenderTimeout(t) == (ControlTimeout(t) \/ DataTimeout(t)) /\ UNCHANGED others

Lose(m) ==
  /\ lost[m.type] < LossBudget
  /\ net' = net \ {m}
  /\ lost' = [lost EXCEPT ![m.type] = @ + 1]
  /\ UNCHANGED <<sender, receiver, disk, noise>>

\* Time passes once nothing is in flight and nothing is owed.
Time ==
  /\ net = {} /\ \A t \in Transfers : ~ Ripe(t)
  /\ Listening => receiver.idle < IdleTimeout
  /\ sender' = [t \in Transfers |-> Aged(sender[t])]
  /\ receiver' = [receiver EXCEPT !.idle = IF Listening THEN @ + 1 ELSE @]
  /\ UNCHANGED <<net, disk, lost, noise>>

Delivery ==
  \/ \E p \in ToReceiver : ReceivePacket(p) \/ Unheard(p)
  \/ \E t \in Transfers : \E m \in ToClient(t) :
       SenderReceive(t, m) \/ Unread(t, m)

BlockingNext ==
  \/ Delivery
  \/ ReceiveNoise
  \/ IdleExpires
  \/ ReceiverFails
  \/ \E t \in Transfers :
       \/ Begin(t) /\ UNCHANGED others
       \/ SenderTimeout(t)
       \/ LocalFailure(t) /\ UNCHANGED others
  \/ \E m \in net : Lose(m)
  \/ Time

\* Clocks run, blocked receives return when their timeout is over, and what the
\* network does not lose it delivers.
BlockingFairness ==
  /\ WF_system(Time) /\ WF_system(Delivery) /\ WF_system(IdleExpires)
  /\ \A t \in Transfers : WF_system(SenderTimeout(t))

BlockingSpec == BlockingInit /\ [][BlockingNext]_system /\ BlockingFairness
-----------------------------------------------------------------------------
Done(t) == sender[t].phase = "done"

\* The directory holds one file and no partial one: that of the client whose
\* session it was, complete.
Whole ==
  \E t \in Transfers :
    /\ t.session_id = receiver.session.session_id
    /\ DOMAIN disk.names = {OutputPath(sanitize_filename(t.name))}
    /\ Contents(disk, OutputPath(sanitize_filename(t.name))) = t.contents

\* What receive_file returns is what is on disk.  With kNone there is exactly the
\* file of the client whose session it was, complete whatever others sent to the
\* port; with an error there is nothing at all, unless the error was met sending
\* a reply, the last one included; and in no case does a partial file remain.
VerdictMatchesDisk ==
  ~ Listening =>
    /\ receiver.result = "kNone" => Whole
    /\ receiver.result = "kSendFailed" => Whole \/ disk = EmptyDisk
    /\ receiver.result \notin {"kNone", "kSendFailed"} => disk = EmptyDisk

\* The two ends agree in one direction: a sender that reports success leaves a
\* receiver that reports success for that very session.
SenderNeverAhead ==
  \A t \in Transfers : sender[t].result = "kNone" =>
    /\ receiver.result = "kNone"
    /\ receiver.session.session_id = t.session_id

\* In the other direction only the lost FIN_ACK, which this driver does not stay
\* to repeat, separates them: "the receiver must outlive its own last packet".
DisagreementNeedsLoss ==
  \A t \in Transfers :
    Done(t) /\ receiver.result = "kNone"
      /\ receiver.session.session_id = t.session_id =>
    \/ sender[t].result = "kNone"
    \/ sender[t].result \in LocalErrors
    \/ lost["FIN_ACK"] > 0

\* Both calls return, however the other end goes: after finitely many stray
\* datagrams silence lasts as long as idle_timeout.
BothReturn ==
  /\ <>(~ Listening)
  /\ \A t \in Transfers : sender[t].phase # "idle" ~> Done(t)
=============================================================================
