---------------------------- MODULE ProbeProofs ----------------------------
(***************************************************************************)
(* Proofs about ProbeExchange, for any timeout, skew and number of ports   *)
(* and packets.                                                            *)
(*                                                                         *)
(* The argument for MeasuresThisProbe.  Two probes start at different      *)
(* times, so as long as time is short of SeqMod no number is used twice    *)
(* (CountInv), and a packet with the number of the probe in progress was   *)
(* sent by it (OwnPacket).  Its time stamps then lie between its start and *)
(* now (StampInv).                                                         *)
(***************************************************************************)
EXTENDS ProbeExchange, TLAPS

ProbeInv ==
    /\ ProbeTypeOK
    /\ client = [at |-> client.at, port |-> client.port, seq |-> client.seq, t1 |-> client.t1]
    /\ client.t1 \in Int /\ -1 <= client.t1 /\ client.t1 <= now
    /\ server # None => server.t1 <= now

\* The packets there are: those on the way and the one the server has.
Packets == net \cup ({server} \ {None})

\* The peer stamps a request when it has read it and when it answers it.
Stamped(p) ==
    p.type = "reply" =>
        p.t1 <= p.t2 - Skew /\ p.t2 <= p.t3 /\ p.t3 - Skew <= now

StampInv ==
    /\ \A p \in net : Stamped(p)
    /\ server # None =>
         server.t1 <= server.t2 - Skew /\ server.t2 - Skew <= now

\* A packet with the number of the probe in progress is that probe's.
OwnPacket(p) ==
    /\ p.seq <= seq
    /\ client.at = "waiting" /\ p.seq = seq => p.t1 = client.t1

CountInv ==
    /\ seq <= client.t1 + 1
    /\ \A p \in Packets : OwnPacket(p)

-----------------------------------------------------------------------------
LEMMA InitProbe == ProbeInit => ProbeInv /\ StampInv /\ CountInv
<1> SUFFICES ASSUME ProbeInit PROVE ProbeInv /\ StampInv /\ CountInv
  OBVIOUS
<1>1. ProbeTypeOK
  BY ProbeAssumption DEF ProbeInit, ProbeTypeOK, Idle
<1>2. ProbeInv
  BY <1>1 DEF ProbeInit, ProbeInv, Idle
<1>3. StampInv /\ CountInv
  BY DEF ProbeInit, StampInv, CountInv, Packets, Idle
<1> QED BY <1>2, <1>3

\* What Send puts on the way.
Request(port) == [type |-> "request", port |-> port, seq |-> seq', t1 |-> now, t2 |-> 0, t3 |-> 0]

LEMMA SendFacts ==
    ASSUME ProbeInv, NEW port \in Ports, Send(port)
    PROVE  /\ seq' = (seq + 1) % SeqMod /\ seq' \in 0..SeqMod-1
           /\ client' = [at |-> "waiting", port |-> port, seq |-> seq', t1 |-> now]
           /\ net' = net \cup {Request(port)} /\ Request(port) \in Packet
           /\ UNCHANGED <<now, server, result>>
           /\ client.t1 < now /\ now + Timeout <= MaxTime
<1>1. seq \in Nat /\ SeqMod \in Nat \ {0} /\ now \in Nat
  BY ProbeAssumption DEF ProbeInv, ProbeTypeOK
<1>2. seq' = (seq + 1) % SeqMod
  BY DEF Send, NextSeq
<1>3. seq' \in 0..SeqMod-1
  BY <1>1, <1>2
<1>4. Request(port) \in Packet
  BY <1>1, <1>3 DEF Request, Packet
<1> QED BY <1>2, <1>3, <1>4 DEF Send, Request

LEMMA NextProbe == ASSUME ProbeInv, [ProbeNext]_vars PROVE ProbeInv'
<1>1. /\ now \in 0..MaxTime /\ Timeout \in Nat \ {0} /\ MaxTime \in Nat /\ SeqMod \in Nat \ {0}
      /\ client.t1 \in Int /\ -1 <= client.t1 /\ client.t1 <= now /\ ProbeTypeOK
      /\ (server # None => server.t1 <= now)
  BY ProbeAssumption DEF ProbeInv, ProbeTypeOK
<1>2. \A p \in net : p \in Packet /\ p.t1 \in Int
  BY <1>1 DEF ProbeTypeOK, Packet
<1>3. CASE \E port \in Ports : Send(port)
  <2>1. PICK port \in Ports : Send(port)
    BY <1>3
  <2>2. Request(port).t1 = now
    BY DEF Request
  <2> QED BY <1>1, <1>2, <2>1, <2>2, SendFacts DEF ProbeInv, ProbeTypeOK
<1>4. ASSUME client' = Idle(client.t1), net' \subseteq net, now' = now, seq' = seq, server' = server,
             result' # None => result'.valid \in BOOLEAN
      PROVE  ProbeInv'
  <2>1. client'.at = "idle" /\ client'.t1 = client.t1
        /\ client' = [at |-> client'.at, port |-> client'.port, seq |-> client'.seq, t1 |-> client'.t1]
    BY <1>4 DEF Idle
  <2> QED BY <1>1, <1>2, <1>4, <2>1 DEF ProbeInv, ProbeTypeOK
<1>12. CASE SendFails
  <2>1. seq' \in 0..SeqMod-1
    <3>1. seq \in 0..SeqMod-1
      BY <1>1 DEF ProbeTypeOK
    <3> QED BY <1>1, <1>12, <3>1 DEF SendFails, NextSeq
  <2>2. /\ client' = [at |-> "idle", port |-> None, seq |-> 0, t1 |-> now]
        /\ UNCHANGED <<now, net, server>> /\ result'.valid \in BOOLEAN
    BY <1>12 DEF SendFails, Idle, Failed
  <2> QED BY <1>1, <1>2, <2>1, <2>2 DEF ProbeInv, ProbeTypeOK
<1>5. CASE \E p \in net : Receive(p)
  <2>1. PICK p \in net : Receive(p)
    BY <1>5
  <2>2. result' = Computed(p, now) \/ result' = Failed
    BY <2>1 DEF Receive
  <2>3. Computed(p, now).valid \in BOOLEAN /\ Failed.valid \in BOOLEAN
    BY DEF Computed, Failed
  <2>4. result'.valid \in BOOLEAN
    BY <2>2, <2>3
  <2> QED BY <1>4, <2>1, <2>4 DEF Receive, Delivered
<1>6. CASE TimeOut
  BY <1>4, <1>6 DEF TimeOut, Failed
<1>7. CASE \E p \in net : ServerReceive(p)
  <2>1. PICK p \in net : ServerReceive(p)
    BY <1>7
  <2>2. now + Skew \in Int
    BY <1>1, ProbeAssumption
  <2>3. server' \in Packet
    BY <1>2, <2>1, <2>2 DEF ServerReceive, Packet
  <2> QED BY <1>1, <1>2, <2>1, <2>3 DEF ServerReceive, Delivered, ProbeInv, ProbeTypeOK
<1>8. CASE ServerReply
  <2> DEFINE r == [server EXCEPT !.t3 = now + Skew]
  <2>1. server \in Packet /\ now + Skew \in Int
    BY <1>1, <1>8, ProbeAssumption DEF ServerReply, ProbeTypeOK
  <2>2. r \in Packet /\ r.t1 = server.t1
    BY <2>1 DEF Packet
  <2>3. server.t1 <= now
    BY <1>8 DEF ServerReply, ProbeInv
  <2> QED BY <1>1, <1>2, <1>8, <2>2, <2>3 DEF ServerReply, ProbeInv, ProbeTypeOK
<1>9. CASE \E p \in net : Lose(p)
  BY <1>1, <1>2, <1>9 DEF Lose, ProbeInv, ProbeTypeOK
<1>10. CASE Tick
  <2>1. now' = now + 1 /\ now' \in 0..MaxTime
    BY <1>1, <1>10 DEF Tick
  <2>2. client' = client /\ (client.at = "waiting" => now' <= client.t1 + Timeout)
    BY <1>1, <1>10, <2>1 DEF Tick
  <2>3. \A p \in net' : p \in Packet /\ p.t1 <= now'
    BY <1>1, <1>2, <1>10, <2>1 DEF Tick, ProbeTypeOK
  <2>4. client.t1 <= now' /\ seq' = seq /\ server' = server /\ result' = result
    BY <1>1, <1>10, <2>1 DEF Tick
  <2>5. server # None => server \in Packet /\ server.t1 <= now'
    <3>1. server # None => server \in Packet /\ server.t1 \in Int
      BY <1>1 DEF ProbeTypeOK, Packet
    <3> QED BY <1>1, <2>1, <3>1
  <2>6. ProbeTypeOK'
    BY <1>1, <2>1, <2>2, <2>3, <2>4, <2>5 DEF ProbeTypeOK
  <2> QED BY <1>1, <2>1, <2>2, <2>4, <2>5, <2>6 DEF ProbeInv
<1>11. CASE UNCHANGED vars
  BY <1>11 DEF vars, ProbeInv, ProbeTypeOK
<1> QED BY <1>3, <1>5, <1>6, <1>7, <1>8, <1>9, <1>10, <1>11, <1>12 DEF ProbeNext

LEMMA NextStamp == ASSUME ProbeInv, StampInv, [ProbeNext]_vars PROVE StampInv'
<1>1. /\ now \in Int /\ now' \in {now, now + 1} /\ Skew \in Int
      /\ \A p \in net : p \in Packet /\ Stamped(p) /\ p.t1 <= now
      /\ server # None => server \in Packet /\ server.t1 <= server.t2 - Skew /\ server.t2 - Skew <= now
  <2>1. now' \in {now, now + 1}
    BY DEF ProbeNext, Send, SendFails, Receive, TimeOut, ServerReceive, ServerReply, Lose, Tick, vars
  <2> QED BY <2>1, ProbeAssumption DEF ProbeInv, ProbeTypeOK, StampInv
<1>2. ASSUME NEW p \in net PROVE Stamped(p)'
  <2>1. p.t3 - Skew \in Int /\ (p.type = "reply" => p.t3 - Skew <= now)
    BY <1>1 DEF Stamped, Packet
  <2> QED BY <1>1, <2>1 DEF Stamped
<1>3. ASSUME server # None PROVE server.t2 - Skew <= now'
  <2>1. server.t2 - Skew \in Int
    BY <1>1, <1>3 DEF Packet
  <2> QED BY <1>1, <1>3, <2>1
<1>4. ASSUME net' \subseteq net, server' = server PROVE StampInv'
  BY <1>1, <1>2, <1>3, <1>4 DEF StampInv
<1>5. CASE \E port \in Ports : Send(port)
  <2>1. PICK port \in Ports : Send(port)
    BY <1>5
  <2>2. PICK r : r = Request(port)
    OBVIOUS
  <2>3. net' = net \cup {r} /\ server' = server /\ now' = now
    BY <2>1, <2>2, SendFacts
  <2>4. r.type = "request"
    BY <2>2 DEF Request
  <2>5. Stamped(r)'
    BY <2>4 DEF Stamped
  <2> QED BY <1>1, <1>2, <1>3, <2>3, <2>5 DEF StampInv
<1>6. CASE (\E p \in net : Receive(p) \/ Lose(p)) \/ SendFails \/ TimeOut \/ Tick \/ UNCHANGED vars
  BY <1>4, <1>6 DEF SendFails, Receive, Delivered, Lose, TimeOut, Tick, vars
<1>7. CASE \E p \in net : ServerReceive(p)
  <2>1. PICK p \in net : ServerReceive(p)
    BY <1>7
  <2>2. server'.t1 = p.t1 /\ server'.t2 = now + Skew /\ now' = now
    BY <1>1, <2>1 DEF ServerReceive, Packet
  <2>3. server'.t1 <= server'.t2 - Skew /\ server'.t2 - Skew <= now'
    BY <1>1, <2>2 DEF Packet
  <2> QED BY <1>2, <2>1, <2>3 DEF ServerReceive, Delivered, StampInv
<1>8. CASE ServerReply
  <2>1. PICK r : r = [server EXCEPT !.t3 = now + Skew]
    OBVIOUS
  <2>2. server # None /\ net' = net \cup {r} /\ server' = None /\ now' = now
    BY <1>8, <2>1 DEF ServerReply
  <2>3. r.t1 = server.t1 /\ r.t2 = server.t2 /\ r.t3 = now + Skew /\ server.t1 \in Int /\ server.t2 \in Int
    BY <1>1, <2>1, <2>2 DEF Packet
  <2>4. r.t1 <= r.t2 - Skew /\ r.t2 <= r.t3 /\ r.t3 - Skew <= now'
    BY <1>1, <2>2, <2>3
  <2>5. Stamped(r)'
    BY <2>4 DEF Stamped
  <2> QED BY <1>2, <2>2, <2>5 DEF StampInv
<1> QED BY <1>5, <1>6, <1>7, <1>8 DEF ProbeNext

LEMMA NextCount ==
    ASSUME SeqMod > MaxTime + 1, ProbeInv, CountInv, [ProbeNext]_vars
    PROVE  CountInv'
<1>1. /\ seq \in Nat /\ seq <= client.t1 + 1 /\ client.t1 \in Int /\ now \in Int /\ client.t1 <= now
      /\ now <= MaxTime /\ MaxTime \in Nat /\ SeqMod \in Nat /\ Timeout \in Nat \ {0}
      /\ \A p \in Packets : p \in Packet /\ OwnPacket(p)
  BY ProbeAssumption DEF ProbeInv, ProbeTypeOK, CountInv, Packets
<1>2. ASSUME seq' = seq, client'.t1 = client.t1, client'.at = "waiting" => client.at = "waiting",
             \A p \in Packets' : \E q \in Packets : p.seq = q.seq /\ p.t1 = q.t1
      PROVE  CountInv'
  BY <1>1, <1>2 DEF CountInv, OwnPacket
<1>3. CASE \E port \in Ports : Send(port)
  <2>1. PICK port \in Ports : Send(port)
    BY <1>3
  <2>2. seq' = (seq + 1) % SeqMod /\ client'.t1 = now /\ client.t1 < now
    BY <2>1, SendFacts
  <2>3. seq + 1 <= now + 1 /\ seq + 1 < SeqMod
    BY <1>1, <2>2
  <2>4. seq' = seq + 1
    BY <1>1, <2>2, <2>3
  <2>5. PICK r : r = Request(port)
    OBVIOUS
  <2>6. r.seq = seq' /\ r.t1 = now
    BY <2>5 DEF Request
  <2>7. \A p \in Packets' : p \in Packets \/ p = r
    BY <2>1, <2>5, SendFacts DEF Packets
  <2>8. OwnPacket(r)'
    BY <2>2, <1>1, <2>4, <2>6 DEF OwnPacket
  <2>9. ASSUME NEW p \in Packets PROVE OwnPacket(p)'
    <3>1. p.seq \in Int /\ p.seq <= seq
      BY <1>1, <2>9 DEF OwnPacket, Packet
    <3>2. p.seq <= seq' /\ p.seq # seq'
      BY <1>1, <2>4, <3>1
    <3> QED BY <3>2 DEF OwnPacket
  <2>10. seq' <= client'.t1 + 1
    BY <1>1, <2>2, <2>3, <2>4
  <2> QED BY <2>7, <2>8, <2>9, <2>10 DEF CountInv
<1>4. CASE (\E p \in net : Receive(p) \/ Lose(p)) \/ TimeOut
  <2>1. client'.t1 = client.t1 /\ (client'.at = "waiting" => client.at = "waiting")
    BY <1>4 DEF Receive, Lose, TimeOut, Idle
  <2>2. Packets' \subseteq Packets
    BY <1>4 DEF Receive, Delivered, Lose, TimeOut, Packets
  <2> QED BY <1>2, <1>4, <2>1, <2>2 DEF Receive, Lose, TimeOut
<1>5. CASE \E p \in net : ServerReceive(p)
  <2>1. PICK p \in net : ServerReceive(p)
    BY <1>5
  <2>2. server'.seq = p.seq /\ server'.t1 = p.t1 /\ p \in Packets
    BY <1>1, <2>1 DEF ServerReceive, Packet, Packets
  <2>3. \A q \in Packets' : q = server' \/ q \in Packets
    BY <2>1 DEF ServerReceive, Delivered, Packets
  <2> QED BY <1>2, <2>1, <2>2, <2>3 DEF ServerReceive
<1>6. CASE ServerReply
  <2>1. PICK r : r = [server EXCEPT !.t3 = now + Skew]
    OBVIOUS
  <2>2. server # None /\ net' = net \cup {r} /\ server' = None
    BY <1>6, <2>1 DEF ServerReply
  <2>3. r.seq = server.seq /\ r.t1 = server.t1 /\ server \in Packets
    BY <1>1, <2>1, <2>2 DEF Packet, Packets
  <2>4. \A q \in Packets' : q = r \/ q \in Packets
    BY <2>2 DEF Packets
  <2> QED BY <1>2, <1>6, <2>3, <2>4 DEF ServerReply
<1>7. CASE Tick \/ UNCHANGED vars
  BY <1>2, <1>7 DEF Tick, vars, Packets
<1>8. CASE SendFails
  <2>1. /\ seq' = seq \/ seq' = (seq + 1) % SeqMod
        /\ client'.t1 = now /\ client.t1 < now /\ Packets' = Packets
    BY <1>8 DEF SendFails, NextSeq, Idle, Packets
  <2>2. seq + 1 <= now + 1 /\ seq + 1 < SeqMod
    BY <1>1, <2>1
  <2>3. seq' \in {seq, seq + 1} /\ seq' <= client'.t1 + 1
    BY <1>1, <2>1, <2>2
  <2>4. \A p \in Packets : p.seq \in Int /\ p.seq <= seq
    BY <1>1 DEF OwnPacket, Packet
  <2>5. client'.at = "idle"
    BY <1>8 DEF SendFails, Idle
  <2> QED BY <1>1, <2>1, <2>3, <2>4, <2>5 DEF CountInv, OwnPacket
<1> QED BY <1>3, <1>4, <1>5, <1>6, <1>7, <1>8 DEF ProbeNext

-----------------------------------------------------------------------------
\* ProbeTypeOK: a probe in progress is within its deadline, and no packet was sent
\* in the future.
THEOREM ProbeTypeCorrect == ProbeSpec => []ProbeTypeOK
<1>1. ProbeInv => ProbeTypeOK
  BY DEF ProbeInv
<1> QED BY InitProbe, NextProbe, <1>1, PTL DEF ProbeSpec

\* MeasuresThisProbe, as long as no packet outlives the numbers: with replies
\* lost, duplicated, reordered and sent to the port's earlier user, a valid
\* result is a measurement of the probe it is returned for.
THEOREM ProbesMeasured ==
    ASSUME SeqMod > MaxTime + 1
    PROVE  ProbeSpec => MeasuresThisProbe
<1> DEFINE I == ProbeInv /\ StampInv /\ CountInv
<1>1. ProbeInit => I
  BY InitProbe
<1>2. I /\ [ProbeNext]_vars => I'
  BY NextProbe, NextStamp, NextCount
<1>3. ASSUME I, [ProbeNext]_vars, client.at = "waiting", client'.at = "idle", result' # Failed
      PROVE  /\ result'.rtt \in 0..(now - client.t1)
             /\ result'.forward - Skew \in 0..(now - client.t1)
  <2>1. client' # client
    BY <1>3
  <2>2. ~(\E port \in Ports : Send(port)) /\ ~SendFails
    BY <1>3, SendFacts DEF SendFails
  <2>3. PICK p \in net : Receive(p)
    BY <1>3, <2>1, <2>2 DEF ProbeNext, TimeOut, ServerReceive, ServerReply, Lose, Tick, vars
  <2>4. Matches(p) /\ result' = Computed(p, now)
    BY <1>3, <2>3 DEF Receive
  <2>5. /\ p \in Packet /\ Stamped(p) /\ OwnPacket(p) /\ p.type = "reply"
        /\ client.seq = seq /\ now \in Int /\ client.t1 \in Int /\ Skew \in Int
    BY <1>3, <2>4, ProbeAssumption
       DEF ProbeInv, ProbeTypeOK, StampInv, CountInv, Packets, Matches
  <2>6. p.t1 = client.t1
    BY <1>3, <2>4, <2>5 DEF Matches, OwnPacket
  <2>7. p.t1 \in Int /\ p.t2 \in Int /\ p.t3 \in Int
    BY <2>5 DEF Packet
  <2>8. p.t1 <= p.t2 - Skew /\ p.t2 <= p.t3 /\ p.t3 - Skew <= now
    BY <2>5 DEF Stamped
  <2>9. result'.rtt = (now - p.t1) - (p.t3 - p.t2) /\ result'.forward = p.t2 - p.t1
    BY <2>4 DEF Computed
  <2>10. (now - p.t1) - (p.t3 - p.t2) \in 0..(now - p.t1) /\ (p.t2 - p.t1) - Skew \in 0..(now - p.t1)
    BY <2>5, <2>7, <2>8
  <2> QED BY <2>6, <2>9, <2>10
<1> QED BY <1>1, <1>2, <1>3, PTL DEF ProbeSpec, MeasuresThisProbe
=============================================================================
