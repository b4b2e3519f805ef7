----------------------------- MODULE EventLoop -----------------------------
(***************************************************************************)
(* When the steps of the server (Server.tla) can happen: the event loop of *)
(* swiftlink::server::run (server/epoll_server.cpp).  One thread waits in  *)
(* epoll_wait for the socket, the sweep timer and the signals.  Once the   *)
(* socket is readable the thread reads it until it is empty, however long  *)
(* datagrams keep coming, and serves neither timer nor signal meanwhile.   *)
(***************************************************************************)
EXTENDS Server

VARIABLE draining    \* the thread is in the loop that empties the socket

loopVars == <<vars, draining>>

LoopInit == Init /\ draining = FALSE

\* epoll_wait reports the socket.
SocketReadable ==
  /\ running /\ ~ draining
  /\ draining' = TRUE
  /\ UNCHANGED vars

\* One datagram of the many the inner loop reads.
Datagram(p) ==
  /\ draining
  /\ Receive(p) \/ Refuse(p) \/ Ignore(p)
  /\ UNCHANGED draining

\* recv_from has nothing left (EAGAIN), or fails.
Drained ==
  /\ draining
  /\ draining' = FALSE
  /\ UNCHANGED vars

\* epoll_wait reports the timer.
TimerFires == ~ draining /\ Sweep /\ UNCHANGED draining

\* It reports a signal, and the loop is left.  (What else the same epoll_wait has
\* reported is still served, which is the order of the steps, not another one.)
SignalArrives == ~ draining /\ Shutdown /\ UNCHANGED draining

\* The clock runs whatever the thread is at.
ClockTicks == Tick /\ UNCHANGED draining

\* A kill spares no loop; a new process begins with epoll_wait.
Killed == Crash /\ draining' = FALSE

Started == Restart /\ UNCHANGED draining

LoopNext ==
  \/ SocketReadable
  \/ \E p \in Packets : Datagram(p)
  \/ Drained
  \/ TimerFires
  \/ SignalArrives
  \/ ClockTicks
  \/ Killed
  \/ Started

\* The clock runs.  The timer is periodic and reported by every epoll_wait until
\* it is read, so it is served again and again if the thread is back at
\* epoll_wait again and again.  Nothing makes the socket run empty.
LoopFairness == WF_loopVars(ClockTicks) /\ SF_loopVars(TimerFires)

LoopSpec == LoopInit /\ [][LoopNext]_loopVars /\ LoopFairness
-----------------------------------------------------------------------------
\* Lingering ends even if the peer never stops asking, as long as the datagrams
\* leave the socket empty from time to time.  (A stream that never does keeps the
\* thread from the sweep, and the session stays.)
LingerEnds ==
  []<>(~ draining) =>
    \A k \in {Key(p) : p \in Packets} :
      k \in Lingering(sessions) ~> k \notin Lingering(sessions)
=============================================================================
