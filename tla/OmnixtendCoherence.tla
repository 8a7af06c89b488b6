-------------------------- MODULE OmnixtendCoherence --------------------------
(***************************************************************************)
(* One cache line shared by the requesters of the endpoint.  A requester   *)
(* (cache.rs, operations.rs, tick.rs) acquires the line, answers probes    *)
(* and releases it; the endpoint serves the line with one                  *)
(* TilelinkCacheMachine and the TilelinkReleaseMachine.  The link layer    *)
(* below is reliable; messages of different TileLink channels overtake     *)
(* each other.                                                             *)
(*                                                                         *)
(* A requester is two threads: the application's, whose position is c_pc,  *)
(* and the network thread that receives packets, answers probes and sends  *)
(* (connection_thread of omnixtend-tui, the simulator's thread in          *)
(* rust_sim).  The value of the line is a version, the number of writes    *)
(* modulo Versions.                                                        *)
(***************************************************************************)
EXTENDS Integers, Sequences

CONSTANTS
    Connections,   \* number of connections, all of them ACTIVE
    Versions,      \* number of values the line can hold
    WriteSlots,    \* writes the endpoint may have issued to the memory
    MayRelease,    \* applications also give the line back on their own
    Alignments,    \* whether the line's address may be (a subset of BOOLEAN)
                   \* a multiple of its size
    Prompt         \* TRUE: a round trip through the network takes longer than
                   \* an application thread takes from its GrantAck to the
                   \* insertion of the line, and than a memory write

ASSUME CoherenceAssumption ==
    /\ Connections \in Nat \ {0} /\ Versions \in Nat \ {0, 1}
    /\ WriteSlots \in Nat \ {0}
    /\ MayRelease \in BOOLEAN /\ Alignments \in SUBSET BOOLEAN /\ Prompt \in BOOLEAN

Con == 0 .. Connections - 1
Version == 0 .. Versions - 1

VARIABLES
    c_pc,          \* application: "idle", "check", "wait", "insert", "release"
    c_want,        \* permission the current read or write needs
    c_entry,       \* CachedEntry: permissions, modified, data
    c_grant,       \* data of the grant not yet inserted
    c_probes,      \* Cache::probes
    c_blocked,     \* the network thread waits for the lock of the entry
    c_out,         \* Operations::operations_outstanding
    net_up,        \* messages on their way to the endpoint, per channel
    net_down,      \* messages on their way to the requester, per channel
    ops_in, state, current_connection, current_param, current_response,
    outstanding_requests, active_requests,   \* TilelinkCacheMachine
    peer_data,     \* data of the ProbeAckData being forwarded
    memory, mem_writes,   \* the AXI memory and the writes issued to it
    aligned,       \* the line's address is a multiple of its size
    latest         \* history: the version written last

reqVars == <<c_pc, c_want, c_entry, c_grant, c_probes, c_blocked, c_out>>
machineVars == <<ops_in, state, current_connection, current_param,
                 current_response, outstanding_requests, active_requests, peer_data>>
vars == <<reqVars, net_up, net_down, machineVars, memory, mem_writes, aligned, latest>>

Cap == {"ToN", "ToB", "ToT"}
Grow == {"NtoB", "NtoT", "BtoT"}
UpMsg ==
    [chan : {"A"}, op : {"AcquireBlock"}, param : Grow]
    \cup [chan : {"C"}, op : {"ProbeAck", "Release"}]
    \cup [chan : {"C"}, op : {"ProbeAckData", "ReleaseData"}, data : Version]
    \cup [chan : {"E"}, op : {"GrantAck"}]
DownMsg ==
    [op : {"ProbeBlock"}, param : Cap]
    \cup [op : {"GrantData"}, param : Cap, data : Version]
    \cup [op : {"Denied", "ReleaseAck"}]

Init ==
    /\ c_pc = [c \in Con |-> "idle"] /\ c_want = [c \in Con |-> "ToB"]
    /\ c_entry = [c \in Con |-> [perm |-> "ToN", modified |-> FALSE, data |-> 0]]
    /\ c_grant = [c \in Con |-> 0]
    /\ c_probes = [c \in Con |-> <<>>] /\ c_blocked = [c \in Con |-> FALSE]
    /\ c_out = [c \in Con |-> <<>>]
    /\ net_up = [c \in Con |-> [ch \in {"A", "C", "E"} |-> <<>>]]
    /\ net_down = [c \in Con |-> [ch \in {"B", "D"} |-> <<>>]]
    /\ ops_in = <<>> /\ state = "IDLE"
    /\ current_connection = 0 /\ current_param = "NtoB" /\ current_response = "Memory"
    /\ outstanding_requests = {} /\ active_requests = {} /\ peer_data = 0
    /\ memory = 0 /\ mem_writes = <<>> /\ latest = 0
    /\ aligned \in Alignments

-----------------------------------------------------------------------------
(* The requester's application thread: Cache::read, write, rmw, release *)

Suffices(perm, want) == perm = "ToT" \/ perm = want

\* get_permission_change_grow
GrowFor(perm, want) ==
    IF perm # "ToN" THEN "BtoT" ELSE IF want = "ToB" THEN "NtoB" ELSE "NtoT"

\* perform puts the message into operations_outstanding.
Perform(c, msg) == c_out' = [c_out EXCEPT ![c] = Append(@, msg)]

\* A new operation begins, or the loop of the current one looks again.
Attempts(c, want) == c_pc[c] = "idle" \/ (c_pc[c] = "check" /\ c_want[c] = want)

\* The line is cached with the permission needed; a write makes it the newest.
AccessLine(c, want) ==
    /\ Attempts(c, want) /\ Suffices(c_entry[c].perm, want)
    /\ c_pc' = [c_pc EXCEPT ![c] = "idle"]
    /\ IF want = "ToT"
       THEN /\ latest' = (latest + 1) % Versions
            /\ c_entry' = [c_entry EXCEPT ![c] =
                              [perm |-> @.perm, modified |-> TRUE, data |-> latest']]
       ELSE UNCHANGED <<latest, c_entry>>
    /\ UNCHANGED <<c_want, c_grant, c_probes, c_blocked, c_out,
                   net_up, net_down, machineVars, memory, mem_writes, aligned>>

AcquireBlock(c, want) ==
    /\ Attempts(c, want) /\ ~Suffices(c_entry[c].perm, want)
    /\ c_pc' = [c_pc EXCEPT ![c] = "wait"]
    /\ c_want' = [c_want EXCEPT ![c] = want]
    /\ Perform(c, [chan |-> "A", op |-> "AcquireBlock",
                   param |-> GrowFor(c_entry[c].perm, want)])
    /\ UNCHANGED <<c_entry, c_grant, c_probes, c_blocked,
                   net_up, net_down, machineVars, memory, mem_writes, latest, aligned>>

\* insert_entry, then the loop checks again.
InsertEntry(c) ==
    /\ c_pc[c] = "insert"
    /\ c_pc' = [c_pc EXCEPT ![c] = "check"]
    /\ c_entry' = [c_entry EXCEPT ![c] =
                      [perm |-> c_want[c], modified |-> FALSE, data |-> c_grant[c]]]
    /\ UNCHANGED <<c_want, c_grant, c_probes, c_blocked, c_out,
                   net_up, net_down, machineVars, memory, mem_writes, latest, aligned>>

\* handle_release: from here to the ReleaseAck the thread keeps the entry locked.
HandleRelease(c) ==
    /\ MayRelease
    /\ c_pc[c] = "idle" /\ c_entry[c].perm # "ToN"
    /\ c_pc' = [c_pc EXCEPT ![c] = "release"]
    /\ Perform(c, IF c_entry[c].modified
                  THEN [chan |-> "C", op |-> "ReleaseData", data |-> c_entry[c].data]
                  ELSE [chan |-> "C", op |-> "Release"])
    /\ UNCHANGED <<c_want, c_entry, c_grant, c_probes, c_blocked,
                   net_up, net_down, machineVars, memory, mem_writes, latest, aligned>>

EntryLocked(c) == c_pc[c] = "release"

-----------------------------------------------------------------------------
(* The requester's network thread: process_packet and Tick::tick *)

\* A response arrives: complete wakes the application thread, which for a grant
\* sends the GrantAck before it returns to the cache (Operations::perform).
ReceiveResponse(c) ==
    /\ ~c_blocked[c] /\ net_down[c]["D"] # <<>>
    /\ net_down' = [net_down EXCEPT ![c]["D"] = Tail(@)]
    /\ LET msg == Head(net_down[c]["D"]) IN
       \/ /\ msg.op = "GrantData"
          /\ c_pc' = [c_pc EXCEPT ![c] = "insert"]
          /\ c_grant' = [c_grant EXCEPT ![c] = msg.data]
          /\ Perform(c, [chan |-> "E", op |-> "GrantAck"])
          /\ UNCHANGED c_entry
       \/ /\ msg.op = "Denied"
          /\ c_pc' = [c_pc EXCEPT ![c] = "idle"]
          /\ Perform(c, [chan |-> "E", op |-> "GrantAck"])
          /\ UNCHANGED <<c_entry, c_grant>>
       \/ /\ msg.op = "ReleaseAck"
          /\ c_pc' = [c_pc EXCEPT ![c] = "idle"]
          /\ c_entry' = [c_entry EXCEPT ![c] =
                             [perm |-> "ToN", modified |-> FALSE, data |-> @.data]]
          /\ UNCHANGED <<c_grant, c_out>>
    /\ UNCHANGED <<c_want, c_probes, c_blocked,
                   net_up, machineVars, memory, mem_writes, latest, aligned>>

\* add_probe
ReceiveProbe(c) ==
    /\ ~c_blocked[c] /\ net_down[c]["B"] # <<>>
    /\ net_down' = [net_down EXCEPT ![c]["B"] = Tail(@)]
    /\ c_probes' = [c_probes EXCEPT ![c] = Append(@, Head(net_down[c]["B"]))]
    /\ UNCHANGED <<c_pc, c_want, c_entry, c_grant, c_blocked, c_out,
                   net_up, machineVars, memory, mem_writes, latest, aligned>>

\* change_permission_probe
ProbedEntry(e, cap) ==
    IF e.perm \in {cap, "ToN"} THEN e
    ELSE [perm |-> cap, modified |-> FALSE, data |-> e.data]

\* process_probes answers with the data if the probe takes a modified line away.
ProcessProbes(c) ==
    /\ c_probes[c] # <<>> /\ ~EntryLocked(c)
    /\ Prompt => c_pc[c] # "insert"
    /\ LET e == c_entry[c]
           new == ProbedEntry(e, Head(c_probes[c]).param)
       IN  /\ c_entry' = [c_entry EXCEPT ![c] = new]
           /\ Perform(c, IF e.modified /\ ~new.modified
                         THEN [chan |-> "C", op |-> "ProbeAckData", data |-> e.data]
                         ELSE [chan |-> "C", op |-> "ProbeAck"])
    /\ c_probes' = [c_probes EXCEPT ![c] = Tail(@)]
    /\ c_blocked' = [c_blocked EXCEPT ![c] = FALSE]
    /\ UNCHANGED <<c_pc, c_want, c_grant,
                   net_up, net_down, machineVars, memory, mem_writes, latest, aligned>>

\* process_probes asks the map for an entry the application thread has locked.
WaitForEntry(c) ==
    /\ c_probes[c] # <<>> /\ EntryLocked(c) /\ ~c_blocked[c]
    /\ c_blocked' = [c_blocked EXCEPT ![c] = TRUE]
    /\ UNCHANGED <<c_pc, c_want, c_entry, c_grant, c_probes, c_out,
                   net_up, net_down, machineVars, memory, mem_writes, latest, aligned>>

\* check_send hands the outstanding messages to the link layer.
CheckSend(c) ==
    /\ ~c_blocked[c] /\ c_out[c] # <<>>
    /\ LET msg == Head(c_out[c])
       IN  net_up' = [net_up EXCEPT ![c][msg.chan] = Append(@, msg)]
    /\ c_out' = [c_out EXCEPT ![c] = Tail(@)]
    /\ UNCHANGED <<c_pc, c_want, c_entry, c_grant, c_probes, c_blocked,
                   net_down, machineVars, memory, mem_writes, latest, aligned>>

-----------------------------------------------------------------------------
(* The endpoint: TilelinkHandlerTLC, TilelinkCacheMachine, TilelinkReleaseMachine *)

Take(c, ch) == net_up' = [net_up EXCEPT ![c][ch] = Tail(@)]
Give(c, ch, msg) == net_down' = [net_down EXCEPT ![c][ch] = Append(@, msg)]

\* find_machine and forward_request
ForwardRequest(c) ==
    /\ net_up[c]["A"] # <<>>
    /\ Take(c, "A")
    /\ ops_in' = Append(ops_in, [con |-> c, param |-> Head(net_up[c]["A"]).param])
    /\ UNCHANGED <<reqVars, net_down, state, current_connection, current_param,
                   current_response, outstanding_requests, active_requests, peer_data,
                   memory, mem_writes, latest, aligned>>

\* start_processing
StartProcessing ==
    /\ state = "IDLE" /\ ops_in # <<>>
    /\ ops_in' = Tail(ops_in)
    /\ current_connection' = Head(ops_in).con
    /\ current_param' = Head(ops_in).param
    /\ outstanding_requests' = Con \ {Head(ops_in).con}
    /\ active_requests' = Con \ {Head(ops_in).con}
    /\ current_response' = "Memory"
    /\ state' = IF ~aligned THEN "UNALIGNED"
                ELSE IF outstanding_requests' = {} THEN "RESPOND" ELSE "PROBE_PERFORM"
    /\ UNCHANGED <<reqVars, net_up, net_down, peer_data, memory, mem_writes, latest, aligned>>

\* Faulty variant: a writer's request leaves the others their read copies.
ProbeParamTooWeak == "ToB"

ProbeParam == IF current_param = "NtoB" THEN "ToB" ELSE "ToN"

\* Faulty variant: the request's own parameter is sent back.
GrantParamEchoed == current_param

GrantParam == IF current_param = "NtoB" THEN "ToB" ELSE "ToT"

\* send_probes: lowest connection first (findElem).
SendProbes ==
    /\ state = "PROBE_PERFORM" /\ outstanding_requests # {}
    /\ LET con == CHOOSE x \in outstanding_requests :
                      \A y \in outstanding_requests : x <= y
       IN  /\ outstanding_requests' = outstanding_requests \ {con}
           /\ Give(con, "B", [op |-> "ProbeBlock", param |-> ProbeParam])
    /\ UNCHANGED <<reqVars, net_up, ops_in, state, current_connection, current_param,
                   current_response, active_requests, peer_data,
                   memory, mem_writes, latest, aligned>>

AllProbesSent == state = "PROBE_PERFORM" /\ outstanding_requests = {}

\* probes_done
ProbesDone ==
    /\ AllProbesSent
    /\ state' = "PROBE_WAIT"
    /\ UNCHANGED <<reqVars, net_up, net_down, ops_in, current_connection, current_param,
                   current_response, outstanding_requests, active_requests, peer_data,
                   memory, mem_writes, latest, aligned>>

ProbeAnswered(c) ==
    net_up[c]["C"] # <<>> /\ Head(net_up[c]["C"]).op \in {"ProbeAck", "ProbeAckData"}

\* Faulty variant: an answer with data does not count as an answer.
StillActiveWithData(c, msg) ==
    IF msg.op = "ProbeAckData" THEN active_requests ELSE active_requests \ {c}

StillActive(c, msg) == active_requests \ {c}

\* process_responses: data from a peer is passed on at once.
ProcessResponses(c) ==
    /\ state \in {"PROBE_PERFORM", "PROBE_WAIT"} /\ ~AllProbesSent
    /\ ProbeAnswered(c)
    /\ Take(c, "C")
    /\ LET msg == Head(net_up[c]["C"])
       IN  /\ active_requests' = StillActive(c, msg)
           /\ IF msg.op = "ProbeAckData"
              THEN /\ state' = "RESPOND" /\ current_response' = "Peer"
                   /\ peer_data' = msg.data
              ELSE /\ state' = IF state = "PROBE_WAIT" /\ active_requests' = {}
                               THEN "RESPOND" ELSE state
                   /\ UNCHANGED <<current_response, peer_data>>
    /\ UNCHANGED <<reqVars, net_down, ops_in, current_connection, current_param,
                   outstanding_requests, memory, mem_writes, latest, aligned>>

\* drop_responses
DropResponses(c) ==
    /\ state \in {"RESPOND", "ACK_WAIT"}
    /\ ProbeAnswered(c)
    /\ Take(c, "C")
    /\ active_requests' = active_requests \ {c}
    /\ UNCHANGED <<reqVars, net_down, ops_in, state, current_connection, current_param,
                   current_response, outstanding_requests, peer_data,
                   memory, mem_writes, latest, aligned>>

\* send_response_memory
SendResponseMemory ==
    /\ state = "RESPOND" /\ current_response = "Memory"
    /\ Prompt => mem_writes = <<>>
    /\ state' = "ACK_WAIT"
    /\ Give(current_connection, "D",
            [op |-> "GrantData", param |-> GrantParam, data |-> memory])
    /\ UNCHANGED <<reqVars, net_up, ops_in, current_connection, current_param,
                   current_response, outstanding_requests, active_requests, peer_data,
                   memory, mem_writes, latest, aligned>>

\* Faulty variant: the peer's data is not written back.
WithoutWriteBack == mem_writes

WriteBack == Append(mem_writes, peer_data)

\* send_response_peer
SendResponsePeer ==
    /\ state = "RESPOND" /\ current_response = "Peer"
    /\ Len(mem_writes) < WriteSlots
    /\ state' = "ACK_WAIT"
    /\ Give(current_connection, "D",
            [op |-> "GrantData", param |-> GrantParam, data |-> peer_data])
    /\ mem_writes' = WriteBack
    /\ UNCHANGED <<reqVars, net_up, ops_in, current_connection, current_param,
                   current_response, outstanding_requests, active_requests, peer_data,
                   memory, latest, aligned>>

\* send_deny_response
SendDenyResponse ==
    /\ state = "UNALIGNED"
    /\ state' = "ACK_WAIT"
    /\ Give(current_connection, "D", [op |-> "Denied"])
    /\ UNCHANGED <<reqVars, net_up, ops_in, current_connection, current_param,
                   current_response, outstanding_requests, active_requests, peer_data,
                   memory, mem_writes, latest, aligned>>

\* Faulty variant: answers still to come are forgotten.
DoneWithoutAnswers == state = "ACK_WAIT"

ReadyForAck == state = "ACK_WAIT" /\ active_requests = {}

\* wait_for_ack
WaitForAck(c) ==
    /\ ReadyForAck
    /\ net_up[c]["E"] # <<>>
    /\ Take(c, "E")
    /\ state' = "IDLE"
    /\ UNCHANGED <<reqVars, net_down, ops_in, current_connection, current_param,
                   current_response, outstanding_requests, active_requests, peer_data,
                   memory, mem_writes, latest, aligned>>

\* handle_flits of the release machine: the answer does not wait for the write.
ReleaseFlits(c) ==
    /\ net_up[c]["C"] # <<>> /\ Head(net_up[c]["C"]).op \in {"Release", "ReleaseData"}
    /\ Len(mem_writes) < WriteSlots
    /\ Take(c, "C")
    /\ mem_writes' = IF Head(net_up[c]["C"]).op = "ReleaseData" /\ aligned
                     THEN Append(mem_writes, Head(net_up[c]["C"]).data) ELSE mem_writes
    /\ Give(c, "D", [op |-> "ReleaseAck"])
    /\ UNCHANGED <<reqVars, machineVars, memory, latest, aligned>>

\* The memory performs the writes of the shared write handler in order.
CompleteWrite ==
    /\ mem_writes # <<>>
    /\ memory' = Head(mem_writes)
    /\ mem_writes' = Tail(mem_writes)
    /\ UNCHANGED <<reqVars, net_up, net_down, machineVars, latest, aligned>>

Access(c) == \E want \in {"ToB", "ToT"} : AccessLine(c, want) \/ AcquireBlock(c, want)

Requester(c) ==
    \/ Access(c) \/ InsertEntry(c) \/ HandleRelease(c) \/ ReceiveResponse(c) \/ ReceiveProbe(c)
    \/ ProcessProbes(c) \/ WaitForEntry(c) \/ CheckSend(c)

Channels(c) ==
    ForwardRequest(c) \/ ProcessResponses(c) \/ DropResponses(c)
    \/ WaitForAck(c) \/ ReleaseFlits(c)

Machine ==
    StartProcessing \/ SendProbes \/ ProbesDone \/ SendResponseMemory
    \/ SendResponsePeer \/ SendDenyResponse

Next == (\E c \in Con : Requester(c) \/ Channels(c)) \/ Machine \/ CompleteWrite

Spec == Init /\ [][Next]_vars

\* Threads keep running (an operation or a release that has begun goes on, a new
\* one need not begin) and the endpoint's rules fire when they can.
Fairness ==
    /\ \A c \in Con :
        /\ WF_vars(InsertEntry(c))
        /\ WF_vars(c_pc[c] = "check" /\ Access(c))
        /\ WF_vars(ReceiveResponse(c)) /\ WF_vars(ReceiveProbe(c))
        /\ WF_vars(ProcessProbes(c) \/ WaitForEntry(c)) /\ WF_vars(CheckSend(c))
        /\ WF_vars(ForwardRequest(c)) /\ WF_vars(ProcessResponses(c))
        /\ WF_vars(DropResponses(c)) /\ WF_vars(WaitForAck(c)) /\ WF_vars(ReleaseFlits(c))
    /\ WF_vars(Machine) /\ WF_vars(CompleteWrite)

FairSpec == Spec /\ Fairness

-----------------------------------------------------------------------------
(* Properties *)

\* Permissions, versions and messages are of their kind.
TypeOK ==
    /\ c_pc \in [Con -> {"idle", "check", "wait", "insert", "release"}]
    /\ c_want \in [Con -> {"ToB", "ToT"}]
    /\ c_entry \in [Con -> [perm : Cap, modified : BOOLEAN, data : Version]]
    /\ c_grant \in [Con -> Version] /\ c_blocked \in [Con -> BOOLEAN]
    /\ c_probes \in [Con -> Seq(DownMsg)] /\ c_out \in [Con -> Seq(UpMsg)]
    /\ net_up \in [Con -> [{"A", "C", "E"} -> Seq(UpMsg)]]
    /\ net_down \in [Con -> [{"B", "D"} -> Seq(DownMsg)]]
    /\ ops_in \in Seq([con : Con, param : Grow])
    /\ state \in {"IDLE", "PROBE_PERFORM", "PROBE_WAIT", "RESPOND", "ACK_WAIT", "UNALIGNED"}
    /\ current_connection \in Con /\ current_param \in Grow
    /\ current_response \in {"Memory", "Peer"}
    /\ outstanding_requests \in SUBSET Con /\ active_requests \in SUBSET Con
    /\ peer_data \in Version /\ memory \in Version /\ mem_writes \in Seq(Version)
    /\ aligned \in BOOLEAN /\ latest \in Version

\* The endpoint is the point of coherence: while a requester may write the line,
\* no other requester has a copy.
SingleWriter ==
    \A c, d \in Con : c # d /\ c_entry[c].perm = "ToT" => c_entry[d].perm = "ToN"

\* A copy that may be read holds what was written last.
LatestValue == \A c \in Con : c_entry[c].perm # "ToN" => c_entry[c].data = latest

\* A probe or an answer to one is under way only while the machine that asked
\* counts on it, so forward_chan_c_request always finds a machine for an answer.
AnswerAwaited ==
    \A c \in Con :
        \/ net_down[c]["B"] # <<>> \/ c_probes[c] # <<>> \/ ProbeAnswered(c)
        => c \in active_requests /\ state \notin {"IDLE", "UNALIGNED"}

\* An application that acquires the line gets it, or is told that it cannot.
AcquireAnswered == \A c \in Con : c_pc[c] = "wait" ~> c_pc[c] # "wait"

\* What the future of a state depends on: versions only relative to the latest,
\* and no value that is overwritten before it is read.
Age(v) == (latest - v) % Versions
AgedMsgs(s) ==
    [k \in DOMAIN s |-> IF "data" \in DOMAIN s[k] THEN [s[k] EXCEPT !.data = Age(@)] ELSE s[k]]
View ==
    <<c_pc, c_probes, c_blocked,
      [c \in Con |-> IF c_pc[c] \in {"idle", "release"} THEN "" ELSE c_want[c]],
      [c \in Con |-> IF c_entry[c].perm = "ToN" THEN <<>>
                     ELSE <<c_entry[c].perm, c_entry[c].modified, Age(c_entry[c].data)>>],
      [c \in Con |-> IF c_pc[c] = "insert" THEN Age(c_grant[c]) ELSE 0],
      [c \in Con |-> AgedMsgs(c_out[c])],
      [c \in Con |-> [ch \in {"A", "C", "E"} |-> AgedMsgs(net_up[c][ch])]],
      [c \in Con |-> [ch \in {"B", "D"} |-> AgedMsgs(net_down[c][ch])]],
      ops_in, state, aligned, outstanding_requests, active_requests,
      IF state = "IDLE" THEN <<>>
      ELSE <<current_connection, current_param, current_response>>,
      IF state = "RESPOND" /\ current_response = "Peer" THEN Age(peer_data) ELSE 0,
      Age(memory), AgedMsgs([k \in DOMAIN mem_writes |-> [data |-> mem_writes[k]]])>>

=============================================================================
