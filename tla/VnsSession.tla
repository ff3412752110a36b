----------------------------- MODULE VnsSession -----------------------------
(***************************************************************************)
(* The session of a router process with the POX controller that stands for *)
(* the virtual network: authentication, opening, hardware information,     *)
(* frames in both directions, and what the router starts meanwhile.        *)
(*                                                                         *)
(* POX has two threads: its own, which hears the switches, and the         *)
(* reactor, which hears the routers.  A router has its main thread, the    *)
(* thread that sets PWOSPF up and others that write frames to the same     *)
(* socket.                                                                 *)
(***************************************************************************)
EXTENDS Integers, Sequences, FiniteSets

CONSTANTS
    Vhosts,         \* the virtual hosts, each with a switch
    Conns, Owner,   \* the runs of the router processes, and the vhost of each
    NoConn,
    Ips,            \* the addresses of each vhost's interfaces, in order
    JunkIp,         \* what malloc may leave in the address of an interface, besides 0
    Writers,        \* the threads of a router that send frames
    Room,           \* halves of a message that a socket's buffer holds
    MaxFrames,      \* bound on the frames each run sends
    MaxPackets      \* bound on the frames the switches send

ASSUME OwnerAssumption == Owner \in [Conns -> Vhosts] /\ NoConn \notin Conns
ASSUME IpsAssumption == Ips \in [Vhosts -> Seq(Nat \ {0})] /\ JunkIp \in Nat
ASSUME BoundsAssumption == Room \in Nat \ {0, 1} /\ MaxFrames \in [Conns -> Nat] /\ MaxPackets \in Nat

VARIABLES
    \* POX
    interfaces,     \* the vhosts whose interfaces are known
    srclients,      \* the connection registered for each vhost, or NoConn
    opening,        \* the connection whose Open the reactor is handling, or NoConn
    packets,        \* how many frames the switches have sent
    \* the connections
    up, down,       \* halves of messages to POX, messages to the router
    closed,         \* the connections POX has closed
    \* a run of the router
    pc,             \* main: what it expects, or how it ended
    ifs,            \* sr->if_list
    entries,        \* how many entries of the hardware information are handled
    setup, at,      \* pwospf_run_thread, and the interface it looks at
    id, direct,     \* g_router_id and the direct routes: [iface, masked]
    half,           \* the threads that have half a frame written
    frames,         \* how many frames it sent
    \* for the properties
    raced,          \* the connections to which a frame went while they were opened
    full,           \* those on which a write did not fit
    served,         \* the runs that had their hardware information
    drowsy          \* the runs whose set-up woke up before all interfaces were there

pox == <<interfaces, srclients, opening, packets>>
wires == <<up, down, closed>>
list == <<ifs, entries, served>>
pwospf == <<setup, at, id, direct, drowsy>>
writing == <<half, frames, full>>
vars == <<pox, wires, pc, list, pwospf, writing, raced>>

Init ==
    /\ interfaces = {}
    /\ srclients = [v \in Vhosts |-> NoConn]
    /\ opening = NoConn
    /\ packets = 0
    /\ up = [c \in Conns |-> <<>>]
    /\ down = [c \in Conns |-> <<>>]
    /\ closed = {}
    /\ pc = [c \in Conns |-> "off"]
    /\ ifs = [c \in Conns |-> <<>>]
    /\ entries = [c \in Conns |-> 0]
    /\ setup = [c \in Conns |-> "none"]
    /\ at = [c \in Conns |-> 0]
    /\ id = [c \in Conns |-> 0]
    /\ direct = [c \in Conns |-> {}]
    /\ half = [c \in Conns |-> {}]
    /\ frames = [c \in Conns |-> 0]
    /\ raced = {}
    /\ full = {}
    /\ served = {}
    /\ drowsy = {}

Running(c) == pc[c] \in {"request", "status", "rtable", "loop", "hwinfo", "eof"}

\* The addresses of the run's own vhost.
IpsOf(c) == Ips[Owner[c]]

\* A message in two halves; a frame names the interface it goes to, or the writer.
Whole(type, what) == <<[type |-> type, what |-> what, part |-> 1],
                       [type |-> type, what |-> what, part |-> 2]>>
Message(type, what) == [type |-> type, what |-> what]

\* conn.send: on a closed connection it is lost.
Send(c, m) == IF c \in closed \/ ~Running(c) THEN down ELSE [down EXCEPT ![c] = Append(@, m)]

-----------------------------------------------------------------------------
\* POX's own thread

\* A switch connects: _handle_RouterInfo keeps its interfaces.
SwitchUp(v) ==
    /\ v \notin interfaces
    /\ interfaces' = interfaces \cup {v}
    /\ UNCHANGED <<srclients, opening, packets, wires, pc, list, pwospf, writing, raced>>

\* _handle_SRPacketIn: the frame goes to the connection registered for the vhost; with
\* none the handler raises KeyError and the frame is lost.
PacketIn(v, i) ==
    /\ packets < MaxPackets
    /\ v \in interfaces
    /\ i \in DOMAIN Ips[v]
    /\ packets' = packets + 1
    /\ LET c == srclients[v] IN
          IF c = NoConn THEN UNCHANGED <<down, raced>>
          ELSE /\ down' = Send(c, Message("packet", i))
               /\ raced' = IF opening = c THEN raced \cup {c} ELSE raced
    /\ UNCHANGED <<interfaces, srclients, opening, up, closed, pc, list, pwospf, writing>>

-----------------------------------------------------------------------------
\* The reactor

\* A message is there when both its halves are; LTProtocol reads the length in the first.
Heard(c, type) ==
    /\ opening = NoConn
    /\ c \notin closed
    /\ Len(up[c]) >= 2
    /\ up[c][1].type = type
    /\ up[c][2] = [up[c][1] EXCEPT !.part = 2]

Take(c) == up' = [up EXCEPT ![c] = SubSeq(@, 3, Len(@))]

\* An exception in a handler makes the reactor close the connection.
Raise(c) == closed' = closed \cup {c}

AuthReply(c) ==
    /\ Heard(c, "reply")
    /\ Take(c)
    /\ down' = Send(c, Message("status", 0))
    /\ UNCHANGED <<pox, closed, pc, list, pwospf, writing, raced>>

\* (mutant: keeps the connection that is registered)
Open_First(c) ==
    /\ Heard(c, "open")
    /\ Take(c)
    /\ srclients' = [srclients EXCEPT ![Owner[c]] = IF @ = NoConn THEN c ELSE @]
    /\ opening' = c
    /\ UNCHANGED <<interfaces, packets, down, closed, pc, list, pwospf, writing, raced>>

\* _handle_open_msg registers the connection first,
Open(c) ==
    /\ Heard(c, "open")
    /\ Take(c)
    /\ srclients' = [srclients EXCEPT ![Owner[c]] = c]
    /\ opening' = c
    /\ UNCHANGED <<interfaces, packets, down, closed, pc, list, pwospf, writing, raced>>

\* (mutant: the interfaces are printed inside the try, whose except only logs)
OpenAnswer_Silent(c) ==
    /\ opening = c
    /\ opening' = NoConn
    /\ down' = IF Owner[c] \in interfaces THEN Send(c, Message("hwinfo", 0)) ELSE down
    /\ UNCHANGED <<interfaces, srclients, packets, up, closed, pc, list, pwospf, writing,
                   raced>>

\* then prints the interfaces, which raises KeyError when there are none yet, and
\* answers with them.
OpenAnswer(c) ==
    /\ opening = c
    /\ opening' = NoConn
    /\ IF Owner[c] \in interfaces
       THEN down' = Send(c, Message("hwinfo", 0)) /\ UNCHANGED closed
       ELSE Raise(c) /\ UNCHANGED down
    /\ UNCHANGED <<interfaces, srclients, packets, up, pc, list, pwospf, writing, raced>>

\* _handle_open_template_msg is defined without self and cannot be called.
OpenTemplate(c) ==
    /\ Heard(c, "template")
    /\ Take(c)
    /\ Raise(c)
    /\ UNCHANGED <<pox, down, pc, list, pwospf, writing, raced>>

\* _handle_packet_msg: the switch of the vhost sends the frame.
PacketOut(c) ==
    /\ Heard(c, "packet")
    /\ Take(c)
    /\ UNCHANGED <<pox, down, closed, pc, list, pwospf, writing, raced>>

\* A half of one message before one of another is no message: _handle_close_msg sends a
\* string, which raises.
Garbled(c) ==
    /\ opening = NoConn
    /\ c \notin closed
    /\ Len(up[c]) >= 2
    /\ up[c][2] # [up[c][1] EXCEPT !.part = 2]
    /\ up' = [up EXCEPT ![c] = <<>>]
    /\ Raise(c)
    /\ UNCHANGED <<pox, down, pc, list, pwospf, writing, raced>>

Reactor(c) ==
    AuthReply(c) \/ Open(c) \/ OpenAnswer(c) \/ OpenTemplate(c) \/ PacketOut(c) \/ Garbled(c)

-----------------------------------------------------------------------------
\* The router: main and the messages it reads

Restartable(v) == \A c \in Conns : Owner[c] = v => ~Running(c)

\* main up to connect; _handle_new_client asks for authentication.
Start(c) ==
    /\ pc[c] = "off"
    /\ Restartable(Owner[c])
    /\ pc' = [pc EXCEPT ![c] = "request"]
    /\ down' = [down EXCEPT ![c] = <<Message("request", 0)>>]
    /\ UNCHANGED <<pox, up, closed, list, pwospf, writing, raced>>

Read(c) == down' = [down EXCEPT ![c] = Tail(@)]

Reads(c, state, type) == pc[c] = state /\ down[c] # <<>> /\ Head(down[c]).type = type

AuthRequest(c) ==
    /\ Reads(c, "request", "request")
    /\ Read(c)
    /\ up' = [up EXCEPT ![c] = @ \o Whole("reply", 0)]
    /\ pc' = [pc EXCEPT ![c] = "status"]
    /\ UNCHANGED <<pox, closed, list, pwospf, writing, raced>>

\* With no auth_key file sr_connect_to_server fails and main returns.
NoKey(c) ==
    /\ Reads(c, "request", "request")
    /\ Read(c)
    /\ pc' = [pc EXCEPT ![c] = "exited"]
    /\ UNCHANGED <<pox, up, closed, list, pwospf, writing, raced>>

\* The rest of sr_connect_to_server with no template; main goes on to sr_init, which
\* starts the threads.
AuthStatus(c) ==
    /\ Reads(c, "status", "status")
    /\ Read(c)
    /\ up' = [up EXCEPT ![c] = @ \o Whole("open", 0)]
    /\ pc' = [pc EXCEPT ![c] = "loop"]
    /\ setup' = [setup EXCEPT ![c] = "sleep"]
    /\ UNCHANGED <<pox, closed, list, at, id, direct, drowsy, writing, raced>>

\* With a template (-T) it waits for the routing table instead.
AskTemplate(c) ==
    /\ Reads(c, "status", "status")
    /\ Read(c)
    /\ up' = [up EXCEPT ![c] = @ \o Whole("template", 0)]
    /\ pc' = [pc EXCEPT ![c] = "rtable"]
    /\ UNCHANGED <<pox, closed, list, pwospf, writing, raced>>

\* sr_handle_hwinfo takes three entries for an interface: its name, which adds it with
\* what malloc left in it, its address and its mask.
HwInfo(c) ==
    /\ Reads(c, "loop", "hwinfo")
    /\ Read(c)
    /\ pc' = [pc EXCEPT ![c] = "hwinfo"]
    /\ served' = served \cup {c}
    /\ UNCHANGED <<pox, up, closed, ifs, entries, pwospf, writing, raced>>

Last(c) == Len(ifs[c])

HwEntry(c) ==
    /\ pc[c] = "hwinfo"
    /\ entries[c] < 3 * Len(IpsOf(c))
    /\ entries' = [entries EXCEPT ![c] = @ + 1]
    /\ CASE entries[c] % 3 = 0 ->
              \E junk \in {0, JunkIp} :
                 ifs' = [ifs EXCEPT ![c] = Append(@, [ip |-> junk, masked |-> FALSE])]
         [] entries[c] % 3 = 1 -> ifs' = [ifs EXCEPT ![c][Last(c)].ip = IpsOf(c)[Last(c)]]
         [] entries[c] % 3 = 2 -> ifs' = [ifs EXCEPT ![c][Last(c)].masked = TRUE]
    /\ UNCHANGED <<pox, wires, pc, served, pwospf, writing, raced>>

\* (mutant: another thread adds the interfaces and main reads on meanwhile)
HwDone_Early(c) ==
    /\ pc[c] = "hwinfo"
    /\ pc' = [pc EXCEPT ![c] = "loop"]
    /\ UNCHANGED <<pox, wires, list, pwospf, writing, raced>>

HwDone(c) ==
    /\ pc[c] = "hwinfo"
    /\ entries[c] = 3 * Len(IpsOf(c))
    /\ pc' = [pc EXCEPT ![c] = "loop"]
    /\ UNCHANGED <<pox, wires, list, pwospf, writing, raced>>

HasInterface(c, i) == i \in DOMAIN ifs[c]

\* sr_arp_req_not_for_us, which every frame goes through, asserts that the router has
\* the interface.
Aborts(c, i) == ~HasInterface(c, i)

PacketRead(c) ==
    /\ Reads(c, "loop", "packet")
    /\ Read(c)
    /\ pc' = [pc EXCEPT ![c] = IF Aborts(c, Head(down[c]).what) THEN "aborted" ELSE "loop"]
    /\ UNCHANGED <<pox, up, closed, list, pwospf, writing, raced>>

\* After the end of the stream recv returns 0 and the loop that counts to 4 never ends.
Eof(c) ==
    /\ pc[c] \in {"request", "status", "rtable", "loop"}
    /\ down[c] = <<>>
    /\ c \in closed
    /\ pc' = [pc EXCEPT ![c] = "eof"]
    /\ UNCHANGED <<pox, wires, list, pwospf, writing, raced>>

Main(c) ==
    AuthRequest(c) \/ AuthStatus(c) \/ AskTemplate(c) \/ HwInfo(c) \/ HwEntry(c) \/ HwDone(c)
        \/ PacketRead(c) \/ Eof(c)

\* A run ends and its memory is gone; POX may still hear what is on its way, or not.
Gone(c) ==
    /\ pc' = [pc EXCEPT ![c] = "killed"]
    /\ down' = [down EXCEPT ![c] = <<>>]
    /\ \E heard \in {<<>>, up[c]} : up' = [up EXCEPT ![c] = heard]
    /\ ifs' = [ifs EXCEPT ![c] = <<>>]
    /\ entries' = [entries EXCEPT ![c] = 0]
    /\ setup' = [setup EXCEPT ![c] = "none"]
    /\ at' = [at EXCEPT ![c] = 0]
    /\ id' = [id EXCEPT ![c] = 0]
    /\ direct' = [direct EXCEPT ![c] = {}]
    /\ half' = [half EXCEPT ![c] = {}]
    /\ frames' = [frames EXCEPT ![c] = 0]
    /\ drowsy' = drowsy \ {c}
    /\ raced' = raced \ {c}
    /\ UNCHANGED <<pox, closed, served, full>>

\* Somebody stops the router.
Kill(c) == Running(c) /\ Gone(c)

-----------------------------------------------------------------------------
\* The router: pwospf_run_thread

Complete(c) == entries[c] = 3 * Len(IpsOf(c))

\* sleep(5), which nothing ties to the hardware information.
Wake(c) ==
    /\ Running(c)
    /\ setup[c] = "sleep"
    /\ setup' = [setup EXCEPT ![c] = "scan"]
    /\ at' = [at EXCEPT ![c] = 1]
    /\ drowsy' = IF Complete(c) THEN drowsy ELSE drowsy \cup {c}
    /\ UNCHANGED <<pox, wires, pc, list, id, direct, writing, raced>>

\* (mutant: the last address becomes the identifier)
Scan_Last(c) ==
    /\ Running(c)
    /\ setup[c] = "scan"
    /\ IF at[c] <= Len(ifs[c])
       THEN /\ id' = [id EXCEPT ![c] = ifs[c][at[c]].ip]
            /\ at' = [at EXCEPT ![c] = @ + 1]
            /\ UNCHANGED setup
       ELSE /\ at' = [at EXCEPT ![c] = 1]
            /\ setup' = [setup EXCEPT ![c] = IF id[c] = 0 THEN "scan" ELSE "routes"]
            /\ UNCHANGED id
    /\ UNCHANGED <<pox, wires, pc, list, direct, drowsy, writing, raced>>

\* The highest address becomes the identifier; with none the scan starts again.
Scan(c) ==
    /\ Running(c)
    /\ setup[c] = "scan"
    /\ IF at[c] <= Len(ifs[c])
       THEN /\ id' = [id EXCEPT ![c] = IF ifs[c][at[c]].ip > @ THEN ifs[c][at[c]].ip ELSE @]
            /\ at' = [at EXCEPT ![c] = @ + 1]
            /\ UNCHANGED setup
       ELSE /\ at' = [at EXCEPT ![c] = 1]
            /\ setup' = [setup EXCEPT ![c] = IF id[c] = 0 THEN "scan" ELSE "routes"]
            /\ UNCHANGED id
    /\ UNCHANGED <<pox, wires, pc, list, direct, drowsy, writing, raced>>

AddDirect(c) ==
    /\ Running(c)
    /\ setup[c] = "routes"
    /\ IF at[c] <= Len(ifs[c])
       THEN /\ direct' = [direct EXCEPT ![c] = @ \cup {[iface |-> at[c], masked |-> ifs[c][at[c]].masked]}]
            /\ at' = [at EXCEPT ![c] = @ + 1]
            /\ UNCHANGED setup
       ELSE setup' = [setup EXCEPT ![c] = "done"] /\ UNCHANGED <<at, direct>>
    /\ UNCHANGED <<pox, wires, pc, list, id, drowsy, writing, raced>>

Setup(c) == Wake(c) \/ Scan(c) \/ AddDirect(c)

-----------------------------------------------------------------------------
\* The router: sr_send_packet, by any thread, with no lock

Fits(c, n) == Len(up[c]) + n <= Room

\* (mutant: the header and the frame are written one after the other)
Write_InPieces(c, t) ==
    /\ Running(c) /\ c \notin closed
    /\ ifs[c] # <<>>
    /\ t \notin half[c]
    /\ frames[c] < MaxFrames[c]
    /\ Fits(c, 1)
    /\ frames' = [frames EXCEPT ![c] = @ + 1]
    /\ up' = [up EXCEPT ![c] = Append(@, Whole("packet", t)[1])]
    /\ half' = [half EXCEPT ![c] = @ \cup {t}]
    /\ UNCHANGED <<pox, down, closed, pc, list, pwospf, full, raced>>

\* Once an interface is known a frame is written, whole when it fits; else the thread
\* waits for room in the middle of it.
Write(c, t) ==
    /\ Running(c) /\ c \notin closed
    /\ ifs[c] # <<>>
    /\ t \notin half[c]
    /\ frames[c] < MaxFrames[c]
    /\ Fits(c, 1)
    /\ frames' = [frames EXCEPT ![c] = @ + 1]
    /\ IF Fits(c, 2)
       THEN /\ up' = [up EXCEPT ![c] = @ \o Whole("packet", t)]
            /\ UNCHANGED <<half, full>>
       ELSE /\ up' = [up EXCEPT ![c] = Append(@, Whole("packet", t)[1])]
            /\ half' = [half EXCEPT ![c] = @ \cup {t}]
            /\ full' = full \cup {c}
    /\ UNCHANGED <<pox, down, closed, pc, list, pwospf, raced>>

WriteRest(c, t) ==
    /\ Running(c) /\ c \notin closed
    /\ t \in half[c]
    /\ Fits(c, 1)
    /\ up' = [up EXCEPT ![c] = Append(@, Whole("packet", t)[2])]
    /\ half' = [half EXCEPT ![c] = @ \ {t}]
    /\ UNCHANGED <<pox, down, closed, pc, list, pwospf, frames, full, raced>>

\* A write to a connection POX closed is refused, and after it one raises SIGPIPE, which
\* nobody catches.
WriteClosed(c) ==
    /\ Running(c) /\ c \in closed
    /\ ifs[c] # <<>>
    /\ Gone(c)

-----------------------------------------------------------------------------
Next ==
    \/ \E v \in Vhosts : SwitchUp(v)
    \/ \E v \in Vhosts : \E i \in DOMAIN Ips[v] : PacketIn(v, i)
    \/ \E c \in Conns :
        \/ Start(c) \/ NoKey(c) \/ Kill(c)
        \/ Reactor(c) \/ Main(c) \/ Setup(c)
        \/ \E t \in Writers : Write(c, t) \/ WriteRest(c, t)
        \/ WriteClosed(c)

Spec == Init /\ [][Next]_vars

\* The reactor, main and the thread that sets PWOSPF up run on.
Fairness ==
    /\ WF_vars(\E c \in Conns : Reactor(c))
    /\ \A c \in Conns : WF_vars(Main(c)) /\ WF_vars(Setup(c))

FairSpec == Spec /\ Fairness

-----------------------------------------------------------------------------
\* Properties

TypeOK ==
    /\ interfaces \subseteq Vhosts
    /\ srclients \in [Vhosts -> Conns \cup {NoConn}]
    /\ opening \in Conns \cup {NoConn}
    /\ closed \subseteq Conns /\ raced \subseteq Conns /\ full \subseteq Conns
    /\ \A c \in Conns :
          /\ pc[c] \in {"off", "request", "status", "rtable", "loop", "hwinfo",
                        "eof", "aborted", "exited", "killed"}
          /\ Len(up[c]) <= Room
          /\ Running(c) => Len(ifs[c]) = (entries[c] + 2) \div 3
          /\ setup[c] \in {"none", "sleep", "scan", "routes", "done"}

\* The router does not abort on a frame for an interface it does not have, unless the
\* frame was sent to its connection while POX was opening it (sr_arp_req_not_for_us).
AbortsOnlyRaced == \A c \in Conns : pc[c] = "aborted" => c \in raced

\* The assertion of sr_arp_req_not_for_us holds: the interface is there.
NeverAborts == \A c \in Conns : pc[c] # "aborted"

Halves(m, n) == m.part = 1 /\ n = [m EXCEPT !.part = 2]

\* The two halves of every message lie together in the stream to POX as long as every
\* write fitted the socket's buffer (sr_send_packet has no lock).
FramesWhole ==
    \A c \in Conns \ full : \A k \in DOMAIN up[c] :
        k % 2 = 1 => k < Len(up[c]) /\ Halves(up[c][k], up[c][k + 1])

\* POX sends the frames of a vhost to the run that has its hardware information, or to
\* one that was stopped before it had its own and whose Open was heard late
\* (_handle_open_msg).
RegisteredRuns ==
    \A c \in Conns : Running(c) /\ c \in served =>
        LET r == srclients[Owner[c]] IN
            r = c \/ (r # NoConn /\ ~Running(r) /\ r \notin served)

MaxIp(c) == CHOOSE ip \in {IpsOf(c)[i] : i \in DOMAIN IpsOf(c)} :
               \A i \in DOMAIN IpsOf(c) : ip >= IpsOf(c)[i]

\* Once PWOSPF is set up the router has an identifier; it is the highest of its
\* addresses, and every interface has its direct route with its mask, unless the sleep
\* ended before the hardware information was there (pwospf_run_thread).
IdIsHighest ==
    \A c \in Conns :
        /\ setup[c] \in {"routes", "done"} => id[c] # 0
        /\ setup[c] = "done" /\ c \notin drowsy =>
              /\ id[c] = MaxIp(c)
              /\ direct[c] = {[iface |-> i, masked |-> TRUE] : i \in DOMAIN IpsOf(c)}

\* The session has its types, and the start goes by the interfaces.
StartOK == TypeOK /\ IdIsHighest

\* A router that connects gets its interfaces and sets PWOSPF up, or it has come to the
\* end of its connection, or it has ended (sr_read_from_server, pwospf_run_thread).
RouterStarts ==
    \A c \in Conns :
        pc[c] = "request" ~> (Complete(c) /\ setup[c] = "done") \/ pc[c] = "eof" \/ ~Running(c)

=============================================================================
