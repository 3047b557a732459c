--------------------------- MODULE ProbeExchange ---------------------------
(***************************************************************************)
(* One node probes one peer again and again: Client.ProbePeer on this      *)
(* side, Server.ListenAndServe on the other, UDP between them.  Every      *)
(* probe has a socket of its own, but the kernel may hand out a port again *)
(* while replies to its earlier user are still on the way.  The client's   *)
(* clock is real time (now); the peer's clock is now + Skew.               *)
(***************************************************************************)
EXTENDS Integers, FiniteSets

CONSTANTS
    Ports,      \* local ports the kernel picks from
    SeqMod,     \* sequence numbers are taken modulo SeqMod (2^16 in the build)
    Timeout,    \* Client.timeout in clock ticks
    Skew,       \* the peer's clock minus ours
    MaxTime,    \* bound: no probe starts that might end later than this
    MaxNet,     \* bound: packets on the way at one time
    None        \* no packet in the server's hands, no result

ASSUME ProbeAssumption ==
    /\ SeqMod \in Nat \ {0} /\ Timeout \in Nat \ {0}
    /\ Skew \in Int /\ MaxTime \in Nat /\ MaxNet \in Nat

VARIABLES
    now,      \* real time
    seq,      \* Client.seq
    client,   \* the probe in progress
    net,      \* packets on the way, in any order
    server,   \* the request the server has read and not yet answered
    result    \* what the last probe contributed to ProbeAll's results

vars == <<now, seq, client, net, server, result>>

Packet == [type : {"request", "reply"}, port : Ports, seq : 0..SeqMod-1,
           t1 : Int, t2 : Int, t3 : Int]

Idle(t1) == [at |-> "idle", port |-> None, seq |-> 0, t1 |-> t1]

ProbeTypeOK ==
    /\ now \in 0..MaxTime
    /\ seq \in 0..SeqMod-1
    /\ client.at \in {"idle", "waiting"}
    /\ client.at = "waiting" =>
         /\ client.port \in Ports /\ client.seq = seq
         /\ client.t1 <= now /\ now <= client.t1 + Timeout
    /\ \A p \in net : p \in Packet /\ p.t1 <= now
    /\ server # None => server \in Packet
    /\ result # None => result.valid \in BOOLEAN

ProbeInit ==
    /\ now = 0 /\ seq = 0
    /\ client = Idle(-1) /\ net = {} /\ server = None /\ result = None

-----------------------------------------------------------------------------
(***************************************************************************)
(* ComputeResult.                                                          *)
(***************************************************************************)

Computed(p, t4) ==
    [valid |-> p.t2 - p.t1 > 0, forward |-> p.t2 - p.t1,
     rtt |-> (t4 - p.t1) - (p.t3 - p.t2)]

Failed == [valid |-> FALSE, forward |-> 0, rtt |-> 0]

\* Mutant: any reply on the socket is taken.
MatchesAny(p) == p.type = "reply"

\* A reply is this probe's when type and sequence number say so.
Matches(p) == p.type = "reply" /\ p.seq = client.seq

\* The packet's field has 16 bits.
NextSeq == (seq + 1) % SeqMod

\* Delivered, and perhaps once more later.
Delivered(p) == net' \in {net, net \ {p}}

\* Send: the next sequence number, a socket, a deadline.  Rounds are started by
\* a ticker, so no two probes of one peer start at the same time.
Send(port) ==
    /\ client.at = "idle" /\ client.t1 < now /\ now + Timeout <= MaxTime
    /\ Cardinality(net) < MaxNet
    /\ seq' = NextSeq
    /\ client' = [at |-> "waiting", port |-> port, seq |-> seq', t1 |-> now]
    /\ net' = net \cup {[type |-> "request", port |-> port, seq |-> seq',
                         t1 |-> now, t2 |-> 0, t3 |-> 0]}
    /\ UNCHANGED <<now, server, result>>

\* No address to resolve, no route to the peer (a new tunnel, a deleted interface),
\* or a write that is refused: ProbePeer returns the error at once, before or after
\* it took a number.
SendFails ==
    /\ client.at = "idle" /\ client.t1 < now
    /\ seq' \in {seq, NextSeq}
    /\ client' = Idle(now)
    /\ result' = Failed
    /\ UNCHANGED <<now, net, server>>

\* The first packet that reaches the socket ends the probe, whatever it is.
Receive(p) ==
    /\ client.at = "waiting" /\ p \in net /\ p.type = "reply" /\ p.port = client.port
    /\ result' = IF Matches(p) THEN Computed(p, now) ELSE Failed
    /\ client' = Idle(client.t1)
    /\ Delivered(p)
    /\ UNCHANGED <<now, seq, server>>

\* Mutant: without SetDeadline the read waits for ever.
WaitOn == FALSE /\ UNCHANGED vars

\* The deadline set before the write expires.
TimeOut ==
    /\ client.at = "waiting" /\ now = client.t1 + Timeout
    /\ result' = Failed
    /\ client' = Idle(client.t1)
    /\ UNCHANGED <<now, seq, net, server>>

-----------------------------------------------------------------------------
ServerReceive(p) ==
    /\ server = None /\ p \in net /\ p.type = "request"
    /\ server' = [p EXCEPT !.type = "reply", !.t2 = now + Skew]
    /\ Delivered(p)
    /\ UNCHANGED <<now, seq, client, result>>

ServerReply ==
    /\ server # None /\ Cardinality(net) < MaxNet
    /\ net' = net \cup {[server EXCEPT !.t3 = now + Skew]}
    /\ server' = None
    /\ UNCHANGED <<now, seq, client, result>>

\* UDP loses packets.
Lose(p) ==
    /\ p \in net
    /\ net' = net \ {p}
    /\ UNCHANGED <<now, seq, client, server, result>>

\* Time stands still at an expired deadline until it is acted on.
Tick ==
    /\ now < MaxTime
    /\ client.at = "waiting" => now < client.t1 + Timeout
    /\ now' = now + 1
    /\ UNCHANGED <<seq, client, net, server, result>>

ProbeNext ==
    \/ \E port \in Ports : Send(port)
    \/ \E p \in net : Receive(p) \/ ServerReceive(p) \/ Lose(p)
    \/ SendFails \/ TimeOut \/ ServerReply \/ Tick

ProbeSpec == ProbeInit /\ [][ProbeNext]_vars

\* Time passes, and the runtime wakes a read whose deadline is over.
ProbeFairSpec == ProbeSpec /\ WF_vars(Tick) /\ WF_vars(TimeOut)

-----------------------------------------------------------------------------
(***************************************************************************)
(* Properties.                                                             *)
(***************************************************************************)
\* A result describes the probe it is returned for, with replies delayed,
\* duplicated, or meant for an earlier user of the port: its round trip fits
\* the time this probe was out, its one-way delay is the true one plus the
\* skew, and a skew of the clocks does not touch the round trip.
MeasuresThisProbe ==
    [][client.at = "waiting" /\ client'.at = "idle" /\ result' # Failed =>
         /\ result'.rtt \in 0..(now - client.t1)
         /\ result'.forward - Skew \in 0..(now - client.t1)]_vars

\* Every probe ends, answered or not: ProbeAll waits for all of a round, so
\* one silent peer must not stop the probe loop.
ProbeEnds == client.at = "waiting" ~> client.at = "idle"
=============================================================================
