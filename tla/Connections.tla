---------------------------- MODULE Connections ----------------------------
(***************************************************************************)
(* The connections of a node (net.cpp): CNode objects, shared by counted   *)
(* references between ThreadSocketHandler, ThreadMessageHandler and the    *)
(* threads that open connections, and the two queues of each: vSendMsg,    *)
(* filled by PushMessage and emptied by SocketSendData, and vProcessMsg,   *)
(* filled by the socket thread and emptied by ProcessMessages.             *)
(*                                                                         *)
(* A step is what one thread does under one lock.  A program is a node     *)
(* running this code; the other end of a connection is another such        *)
(* program, or (not in world.live) a remote that may only hang up.         *)
(* The network between two sockets holds at most SocketBuffer units.       *)
(*                                                                         *)
(* What a message says does not matter here: processing one may send an    *)
(* answer or disconnect the peer, and SendMessages may send a message.     *)
(* A message is a header of one unit and the data.  The message thread     *)
(* sleeps at most 100 ms, so fMsgProcWake only shortens a sleep and is     *)
(* left out.  send() takes as much as fits.                                *)
(***************************************************************************)
EXTENDS Integers, Sequences, FiniteSets, FiniteSetsExt, SequencesExt

CONSTANTS
  Prog,               \* two programs
  Conn,               \* the connections between them
  NoConn,
  DataSize,           \* the size of the data of each program's n-th message
  SocketBuffer,       \* what the network holds of one direction
  nSendBufferMaxSize, nReceiveFloodSize,
  Worlds

ASSUME ConnectionsAssumption ==
  /\ Cardinality(Prog) = 2 /\ IsFiniteSet(Conn)
  /\ DataSize \in Seq(Nat)
  /\ SocketBuffer \in Nat \ {0}
  /\ nSendBufferMaxSize \in Nat /\ nReceiveFloodSize \in Nat

VARIABLES
  node,   \* the CNode of each end
  net,    \* what each end has sent and the other has not read
  sock,   \* ThreadSocketHandler of each program
  msg,    \* ThreadMessageHandler of each program
  main,   \* "running", "interrupted" or "stopped"
  world   \* live: the programs; up: the connections established at the start;
          \* inbound, outbound: the ends that accept and open one;
          \* budget: the messages an end may send; commands: disconnectnode and
          \* setnetworkactive are used; hangs: remotes may hang up;
          \* bans: a message may end the connection; stops: the program may be
          \* shut down

vars == <<node, net, sock, msg, main, world>>

End == Prog \X Conn
Other(e) == <<CHOOSE q \in Prog : q # e[1], e[2]>>

\* The units of message n, and of messages m to n.
Header(n) == << <<n, 0>> >>
Data(n) == [i \in 1 .. DataSize[n] |-> <<n, i>>]
Size(n) == 1 + DataSize[n]
Stream(m, n) == FlattenSeq([i \in 1 .. n - m + 1 |-> Header(m + i - 1) \o Data(m + i - 1)])

\* CNode::CNode.  where: a constructed node is "made", then "listed" in vNodes,
\* "dropped" to vNodesDisconnected and "deleted"; state: it has a CNodeState;
\* nPushed, nReceived: the messages pushed, and those received completely.
NewNode(where, refs) ==
  [where |-> where, state |-> TRUE, hSocket |-> TRUE, fDisconnect |-> FALSE,
   nRefCount |-> refs, vSendMsg |-> <<>>, nSendOffset |-> 0, nSendSize |-> 0,
   fPauseSend |-> FALSE, vRecvMsg |-> <<>>, vProcessMsg |-> <<>>,
   nProcessQueueSize |-> 0, fPauseRecv |-> FALSE, nPushed |-> 0, nReceived |-> 0]
NoNode == [NewNode("none", 0) EXCEPT !.state = FALSE]

vNodes(p) == {c \in Conn : node[<<p, c>>].where = "listed"}

\* The nodes of p's connections in C, changed by Op.
Each(p, C, Op(_)) ==
  [e \in End |-> IF e[1] = p /\ e[2] \in C THEN Op(node[e]) ELSE node[e]]

AddRef(n) == [n EXCEPT !.nRefCount = @ + 1]
Release(n) == [n EXCEPT !.nRefCount = @ - 1]
CloseSocketDisconnect(n) == [n EXCEPT !.fDisconnect = TRUE, !.hSocket = FALSE]

\* FinalizeNode and delete.
DeleteNode(n) == [NoNode EXCEPT !.where = "deleted", !.hSocket = FALSE, !.fDisconnect = TRUE]

----------------------------------------------------------------------------
(* The send queue.                                                         *)

Sum(q) == FoldLeft(LAMBDA s, d : s + Len(d), 0, q)
Unsent(n) == LET u == FlattenSeq(n.vSendMsg) IN SubSeq(u, n.nSendOffset + 1, Len(u))

\* Mutant of Sent: the offset is not reset when a message is sent.
SentKeepingOffset(n, k) ==
  LET at == n.nSendOffset + k
      full == Max({i \in 0 .. Len(n.vSendMsg) : Sum(SubSeq(n.vSendMsg, 1, i)) <= at})
      bytes == Sum(SubSeq(n.vSendMsg, 1, full))
  IN [n EXCEPT !.vSendMsg = SubSeq(@, full + 1, Len(@)),
               !.nSendOffset = IF full = Len(n.vSendMsg) THEN 0 ELSE at,
               !.nSendSize = @ - bytes,
               !.fPauseSend = IF full > 0 THEN n.nSendSize - bytes > nSendBufferMaxSize ELSE @]

\* n after send() took k units.
Sent(n, k) ==
  LET at == n.nSendOffset + k
      full == Max({i \in 0 .. Len(n.vSendMsg) : Sum(SubSeq(n.vSendMsg, 1, i)) <= at})
      bytes == Sum(SubSeq(n.vSendMsg, 1, full))
  IN [n EXCEPT !.vSendMsg = SubSeq(@, full + 1, Len(@)),
               !.nSendOffset = at - bytes,
               !.nSendSize = @ - bytes,
               !.fPauseSend = IF full > 0 THEN n.nSendSize - bytes > nSendBufferMaxSize ELSE @]

HungUp(e) == ~node[Other(e)].hSocket
Space(e) == SocketBuffer - Len(net[e])

\* The node and the network after SocketSendData on n, the node of e.
SocketSendData(e, n) ==
  LET k == Min({Space(e), Len(Unsent(n))})
  IN IF ~n.hSocket THEN [n |-> n, out |-> net[e]]
     ELSE IF HungUp(e) THEN [n |-> CloseSocketDisconnect(n), out |-> net[e]]
     ELSE [n |-> Sent(n, k), out |-> net[e] \o SubSeq(Unsent(n), 1, k)]

PushMessage(e, n) ==
  LET m == n.nPushed + 1
      queued == [n EXCEPT !.nPushed = m,
                          !.nSendSize = @ + Size(m),
                          !.fPauseSend = @ \/ n.nSendSize + Size(m) > nSendBufferMaxSize,
                          !.vSendMsg = @ \o (IF DataSize[m] = 0 THEN <<Header(m)>>
                                             ELSE <<Header(m), Data(m)>>)]
  IN IF n.vSendMsg = <<>> THEN SocketSendData(e, queued) ELSE [n |-> queued, out |-> net[e]]

\* Nothing, or one message of those e may still send.
MaySend(e, n) ==
  {[n |-> n, out |-> net[e]]}
    \cup (IF n.nPushed < world.budget[e[1]] THEN {PushMessage(e, n)} ELSE {})

----------------------------------------------------------------------------
(* The receive queue.                                                      *)

\* ReceiveMsgBytes and the splice of the complete messages to vProcessMsg.
ReceiveMsgBytes(n, units) ==
  LET all == n.vRecvMsg \o units
      \* the number of messages complete in all
      count == Max({i \in 0 .. Len(DataSize) - n.nReceived :
                      Len(Stream(n.nReceived + 1, n.nReceived + i)) <= Len(all)})
      used == Len(Stream(n.nReceived + 1, n.nReceived + count))
  IN [n EXCEPT !.vRecvMsg = SubSeq(all, used + 1, Len(all)),
               !.vProcessMsg = @ \o [i \in 1 .. count |-> n.nReceived + i],
               !.nReceived = @ + count,
               !.nProcessQueueSize = @ + used,
               !.fPauseRecv = IF count > 0 THEN n.nProcessQueueSize + used > nReceiveFloodSize
                              ELSE @]

\* ProcessMessages takes the first message.
Popped(n) ==
  LET left == n.nProcessQueueSize - Size(Head(n.vProcessMsg))
  IN [n EXCEPT !.vProcessMsg = Tail(@),
               !.nProcessQueueSize = left,
               !.fPauseRecv = left > nReceiveFloodSize]

----------------------------------------------------------------------------
(* ThreadSocketHandler.                                                    *)

At(thread, p, pc) == p \in world.live /\ thread[p].pc = pc

\* No node of p is in use by the thread: fds, copy and todo are empty.
SocketIdle(pc) == [pc |-> pc, fds |-> <<>>, ready |-> {}, copy |-> {}, todo |-> {}]

\* Mutant of SocketDisconnect: the reference of vNodes is kept.
SocketDisconnectUnreleased(p) ==
  LET gone == {c \in vNodes(p) : node[<<p, c>>].fDisconnect}
      Dropped(n) == [CloseSocketDisconnect(n) EXCEPT !.where = "dropped"]
  IN /\ At(sock, p, "disconnect") /\ main[p] = "running"
     /\ node' = Each(p, gone, Dropped)
     /\ sock' = [sock EXCEPT ![p].pc = "select"]
     /\ UNCHANGED <<net, msg, main, world>>

\* The loop's condition, and the nodes to disconnect.
SocketDisconnect(p) ==
  LET gone == {c \in vNodes(p) : node[<<p, c>>].fDisconnect}
      Dropped(n) == [Release(CloseSocketDisconnect(n)) EXCEPT !.where = "dropped"]
  IN /\ At(sock, p, "disconnect") /\ main[p] = "running"
     /\ node' = Each(p, gone, Dropped)
     /\ sock' = [sock EXCEPT ![p].pc = "select"]
     /\ UNCHANGED <<net, msg, main, world>>

\* What select() is asked: to send when there is something to send, and only
\* otherwise to receive.
Selected(n) == IF ~n.hSocket THEN "none"
               ELSE IF n.vSendMsg # <<>> THEN "send"
               ELSE IF ~n.fPauseRecv THEN "recv" ELSE "none"

\* Mutant of SocketSelect: the references are not looked at.
SocketSelectHasty(p) ==
  /\ At(sock, p, "select")
  /\ node' = Each(p, {c \in Conn : node[<<p, c>>].where = "dropped"}, DeleteNode)
  /\ sock' = [sock EXCEPT ![p].pc = "selecting",
                          ![p].fds = [c \in vNodes(p) |-> Selected(node[<<p, c>>])]]
  /\ UNCHANGED <<net, msg, main, world>>

\* Disconnected nodes that nobody uses are deleted, and select() is called.
SocketSelect(p) ==
  /\ At(sock, p, "select")
  /\ node' = Each(p, {c \in Conn : /\ node[<<p, c>>].where = "dropped"
                                   /\ node[<<p, c>>].nRefCount <= 0}, DeleteNode)
  /\ sock' = [sock EXCEPT ![p].pc = "selecting",
                          ![p].fds = [c \in vNodes(p) |-> Selected(node[<<p, c>>])]]
  /\ UNCHANGED <<net, msg, main, world>>

\* AcceptConnection.
Accept(p, c) ==
  /\ At(sock, p, "selecting") /\ main[p] = "running"
  /\ node[<<p, c>>].where = "none" /\ <<p, c>> \in world.inbound
  /\ Other(<<p, c>>)[1] \in world.live => node[Other(<<p, c>>)].where # "none"
  /\ node' = [node EXCEPT ![<<p, c>>] = NewNode("listed", 1)]
  /\ UNCHANGED <<net, sock, msg, main, world>>

\* A socket that was closed is ready for both.
Ready(p, c) ==
  LET e == <<p, c>>
  IN CASE sock[p].fds[c] = "send" -> Space(e) > 0 \/ HungUp(e)
       [] sock[p].fds[c] = "recv" -> net[Other(e)] # <<>> \/ HungUp(e)
       [] OTHER -> FALSE

\* select() returns; the nodes are copied with a reference each.
SocketCopy(p) ==
  /\ At(sock, p, "selecting") /\ main[p] = "running"
  /\ node' = Each(p, vNodes(p), AddRef)
  /\ sock' = [sock EXCEPT ![p] =
       [pc |-> "service", fds |-> @.fds, ready |-> {c \in DOMAIN @.fds : Ready(p, c)},
        copy |-> vNodes(p), todo |-> vNodes(p)]]
  /\ UNCHANGED <<net, msg, main, world>>

\* Mutant of TimedOut: there is no timeout.
NeverTimesOut(e) == FALSE

\* The inactivity timeouts: nothing could be sent for TIMEOUT_INTERVAL.
TimedOut(e) ==
  /\ node[e].where = "listed" /\ ~node[e].fDisconnect
  /\ node[e].vSendMsg # <<>> /\ Space(e) = 0

\* The outcomes for node and network of servicing the socket of c.
Served(p, c) ==
  LET e == <<p, c>>
      n == node[e]
      same == [n |-> n, out |-> net[e], in |-> net[Other(e)]]
      closed == [same EXCEPT !.n = CloseSocketDisconnect(n)]
      read == [same EXCEPT !.n = ReceiveMsgBytes(n, net[Other(e)]), !.in = <<>>]
      s == SocketSendData(e, n)
  IN IF ~n.hSocket \/ c \notin sock[p].ready THEN {same}
     ELSE IF sock[p].fds[c] = "send" THEN {[same EXCEPT !.n = s.n, !.out = s.out]}
     ELSE (IF net[Other(e)] # <<>> THEN {read} ELSE {})
          \cup (IF HungUp(e) THEN {closed} ELSE {})

SocketService(p, c) ==
  LET e == <<p, c>>
  IN /\ At(sock, p, "service") /\ c \in sock[p].todo /\ main[p] = "running"
     /\ \E r \in Served(p, c), late \in BOOLEAN :
          /\ late => TimedOut(e)
          /\ node' = [node EXCEPT ![e] = IF late THEN [r.n EXCEPT !.fDisconnect = TRUE] ELSE r.n]
          /\ net' = [net EXCEPT ![e] = r.out, ![Other(e)] = r.in]
     /\ sock' = [sock EXCEPT ![p].todo = @ \ {c}]
     /\ UNCHANGED <<msg, main, world>>

SocketRelease(p) ==
  /\ At(sock, p, "service") /\ sock[p].todo = {}
  /\ node' = Each(p, sock[p].copy, Release)
  /\ sock' = [sock EXCEPT ![p] = SocketIdle("disconnect")]
  /\ UNCHANGED <<net, msg, main, world>>

\* The places where an interrupt ends the thread.  Its references stay.
SocketReturn(p) ==
  /\ main[p] = "interrupted" /\ p \in world.live
  /\ sock[p].pc \in {"disconnect", "selecting"} \/ sock[p].todo # {}
  /\ sock' = [sock EXCEPT ![p] = [SocketIdle("done") EXCEPT !.copy = sock[p].copy]]
  /\ UNCHANGED <<node, net, msg, main, world>>

SocketStep(p) ==
  \/ SocketDisconnect(p) \/ SocketSelect(p) \/ SocketCopy(p)
  \/ \E c \in Conn : SocketService(p, c)
  \/ SocketRelease(p) \/ SocketReturn(p)

----------------------------------------------------------------------------
(* ThreadMessageHandler.                                                   *)

MessageCopy(p) ==
  /\ At(msg, p, "copy") /\ main[p] = "running"
  /\ node' = Each(p, vNodes(p), AddRef)
  /\ msg' = [msg EXCEPT ![p] = [@ EXCEPT !.pc = "node", !.copy = vNodes(p), !.todo = vNodes(p)]]
  /\ UNCHANGED <<net, sock, main, world>>

MessageSkip(p, c) ==
  /\ At(msg, p, "node") /\ c \in msg[p].todo /\ node[<<p, c>>].fDisconnect
  /\ msg' = [msg EXCEPT ![p].todo = @ \ {c}]
  /\ UNCHANGED <<node, net, sock, main, world>>

\* ProcessMessages: nothing when the send buffer is full or nothing was received;
\* otherwise one message, which may be answered or end the connection.
MessageProcess(p, c) ==
  LET e == <<p, c>>
      n == node[e]
  IN /\ At(msg, p, "node") /\ c \in msg[p].todo /\ ~n.fDisconnect
     /\ IF n.fPauseSend \/ n.vProcessMsg = <<>> THEN UNCHANGED <<node, net>>
        ELSE \E r \in MaySend(e, Popped(n)), ban \in {FALSE, world.bans} :
               /\ node' = [node EXCEPT ![e] = [r.n EXCEPT !.fDisconnect = @ \/ ban]]
               /\ net' = [net EXCEPT ![e] = r.out]
     /\ msg' = [msg EXCEPT ![p].pc = "send", ![p].cur = c, ![p].todo = @ \ {c}]
     /\ UNCHANGED <<sock, main, world>>

\* SendMessages, which sends nothing to a peer that is being disconnected.
MessageSend(p) ==
  LET e == <<p, msg[p].cur>>
  IN /\ At(msg, p, "send") /\ main[p] = "running"
     /\ \E r \in IF node[e].fDisconnect THEN {[n |-> node[e], out |-> net[e]]}
                 ELSE MaySend(e, node[e]) :
          /\ node' = [node EXCEPT ![e] = r.n]
          /\ net' = [net EXCEPT ![e] = r.out]
     /\ msg' = [msg EXCEPT ![p].pc = "node", ![p].cur = NoConn]
     /\ UNCHANGED <<sock, main, world>>

\* Then the thread sleeps, until it is woken or for 100 ms, before the next copy.
MessageRelease(p) ==
  /\ At(msg, p, "node") /\ msg[p].todo = {}
  /\ node' = Each(p, msg[p].copy, Release)
  /\ msg' = [msg EXCEPT ![p].pc = "copy", ![p].copy = {}]
  /\ UNCHANGED <<net, sock, main, world>>

MessageReturn(p) ==
  /\ main[p] = "interrupted" /\ p \in world.live /\ msg[p].pc \in {"copy", "send"}
  /\ msg' = [msg EXCEPT ![p].pc = "done", ![p].cur = NoConn, ![p].todo = {}]
  /\ UNCHANGED <<node, net, sock, main, world>>

MessageStep(p) ==
  \/ MessageCopy(p)
  \/ \E c \in Conn : MessageSkip(p, c) \/ MessageProcess(p, c)
  \/ MessageSend(p) \/ MessageRelease(p) \/ MessageReturn(p)

----------------------------------------------------------------------------
(* The other threads.                                                      *)

\* ConnectNode and InitializeNode, which pushes the version message; then the node
\* is listed.
OpenNetworkConnection(p, c) ==
  LET e == <<p, c>>
      r == IF world.budget[p] > 0 THEN PushMessage(e, NewNode("made", 1))
           ELSE [n |-> NewNode("made", 1), out |-> net[e]]
  IN /\ p \in world.live /\ main[p] = "running"
     /\ node[e].where = "none" /\ e \in world.outbound
     /\ node' = [node EXCEPT ![e] = r.n]
     /\ net' = [net EXCEPT ![e] = r.out]
     /\ UNCHANGED <<sock, msg, main, world>>

ListNode(p, c) ==
  /\ node[<<p, c>>].where = "made"
  /\ node' = [node EXCEPT ![<<p, c>>].where = "listed"]
  /\ UNCHANGED <<net, sock, msg, main, world>>

\* disconnectnode, and the eviction of a connection for a new one.
DisconnectNode(p, c) ==
  /\ p \in world.live /\ world.commands /\ c \in vNodes(p) /\ main[p] # "stopped"
  /\ node' = [node EXCEPT ![<<p, c>>].fDisconnect = TRUE]
  /\ UNCHANGED <<net, sock, msg, main, world>>

\* setnetworkactive false.
SetNetworkActive(p) ==
  /\ p \in world.live /\ world.commands /\ main[p] # "stopped"
  /\ node' = Each(p, vNodes(p), CloseSocketDisconnect)
  /\ UNCHANGED <<net, sock, msg, main, world>>

Interrupt(p) ==
  /\ p \in world.live /\ world.stops /\ main[p] = "running"
  /\ main' = [main EXCEPT ![p] = "interrupted"]
  /\ UNCHANGED <<node, net, sock, msg, world>>

\* The threads are joined and every node is deleted.
Stop(p) ==
  /\ main[p] = "interrupted" /\ At(msg, p, "done") /\ At(sock, p, "done")
  /\ \A c \in Conn : node[<<p, c>>].where # "made"
  /\ node' = Each(p, {c \in Conn : node[<<p, c>>].where \in {"listed", "dropped"}}, DeleteNode)
  /\ main' = [main EXCEPT ![p] = "stopped"]
  /\ UNCHANGED <<net, sock, msg, world>>

\* A remote that is not one of the programs closes its socket.
HangUp(e) ==
  /\ e[1] \notin world.live /\ world.hangs /\ node[e].hSocket
  /\ node' = [node EXCEPT ![e].hSocket = FALSE]
  /\ UNCHANGED <<net, sock, msg, main, world>>

Init ==
  /\ world \in Worlds
  /\ node = [e \in End |-> IF e[1] \in world.live /\ e[2] \in world.up
                           THEN NewNode("listed", 1) ELSE NoNode]
  /\ net = [e \in End |-> <<>>]
  /\ sock = [p \in Prog |-> SocketIdle("disconnect")]
  /\ msg = [p \in Prog |-> [pc |-> "copy", cur |-> NoConn, copy |-> {}, todo |-> {}]]
  /\ main = [p \in Prog |-> "running"]

Next ==
  \E p \in Prog :
    \/ SocketStep(p) \/ MessageStep(p)
    \/ \E c \in Conn : Accept(p, c) \/ OpenNetworkConnection(p, c) \/ ListNode(p, c)
                       \/ DisconnectNode(p, c) \/ HangUp(<<p, c>>)
    \/ SetNetworkActive(p) \/ Interrupt(p) \/ Stop(p)

Spec == Init /\ [][Next]_vars

\* The threads are scheduled, the main thread joins them, and a timeout that stays
\* due is noticed.
Fairness ==
  /\ \A p \in Prog :
       /\ []<>(p \notin world.live \/ sock[p].pc = "done") \/ []<><<sock'[p] # sock[p]>>_vars
       /\ []<>(p \notin world.live \/ msg[p].pc = "done") \/ []<><<msg'[p] # msg[p]>>_vars
       /\ WF_vars(Stop(p))
       /\ \A c \in Conn : WF_vars(ListNode(p, c))
  /\ \A e \in End :
       []<>~TimedOut(e) \/ []<><<node'[e].fDisconnect /\ ~node[e].fDisconnect>>_vars

FairSpec == Spec /\ Fairness

----------------------------------------------------------------------------
\* A CNode is counted once by vNodes (or by the thread that is about to list it) and
\* once by every thread that copied it, so none is deleted while a thread uses it,
\* and it has its CNodeState from before it is listed until it is deleted.
ReferencesExact ==
  \A p \in world.live, c \in Conn :
    LET n == node[<<p, c>>]
        users == (IF c \in sock[p].copy THEN 1 ELSE 0) + (IF c \in msg[p].copy THEN 1 ELSE 0)
    IN main[p] # "stopped" =>
         /\ n.nRefCount = users + (IF n.where \in {"made", "listed"} THEN 1 ELSE 0)
         /\ users > 0 => n.where \in {"listed", "dropped"}
         /\ n.state = (n.where \in {"made", "listed", "dropped"})

\* The stream an end receives is the stream its peer pushed, whatever the pieces in
\* which SocketSendData could write it and whichever thread wrote: what the peer has
\* of the current message, what is in the network and what is unsent are, in this
\* order, the messages not yet received.
StreamExact ==
  \A e \in End :
    LET n == node[e]
        o == node[Other(e)]
    IN n.where = "listed" /\ o.where = "listed" /\ n.hSocket /\ o.hSocket =>
         o.vRecvMsg \o net[e] \o Unsent(n) = Stream(o.nReceived + 1, n.nPushed)

\* The flow control flags say exactly whether a queue is over its limit, so that no
\* connection stays paused with an empty queue.
PausesExact ==
  \A e \in End :
    LET n == node[e]
    IN n.where \in {"made", "listed", "dropped"} =>
         /\ n.nSendSize = Sum(n.vSendMsg)
         /\ n.fPauseSend = (n.nSendSize > nSendBufferMaxSize)
         /\ n.vSendMsg = <<>> => n.nSendOffset = 0
         /\ n.vSendMsg # <<>> => n.nSendOffset < Len(n.vSendMsg[1])
         /\ n.nProcessQueueSize = FoldLeft(LAMBDA t, m : t + Size(m), 0, n.vProcessMsg)
         /\ n.fPauseRecv = (n.nProcessQueueSize > nReceiveFloodSize)

\* Nothing is lost, repeated or reordered on the way, and the queues know their size.
QueuesExact == StreamExact /\ PausesExact

\* A connection that is to be closed is deleted, also when the program is stopped.
\* (Nothing clears fDisconnect and no deleted node comes back, so recurring is enough.)
DisconnectedIsDeleted ==
  []<>(\A e \in End : e[1] \in world.live /\ node[e].fDisconnect => node[e].where = "deleted")

\* A message that was pushed is processed by the peer, or the connection is closed:
\* the two ends may stop each other by waiting to send before they receive, and then
\* the inactivity timeout ends the connection.  (The budget ends the pushing.)
MessagesArrive ==
  []<>(\A e \in End :
         LET o == node[Other(e)]
         IN \/ o.nReceived - Len(o.vProcessMsg) = node[e].nPushed
            \/ node[e].fDisconnect \/ o.fDisconnect)
=============================================================================
