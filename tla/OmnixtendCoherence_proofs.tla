----------------------- MODULE OmnixtendCoherence_proofs -----------------------
(***************************************************************************)
(* Theorems about OmnixtendCoherence, for every number of connections.     *)
(***************************************************************************)
EXTENDS OmnixtendCoherence, WellFoundedInduction, TLAPS

-----------------------------------------------------------------------------
(* Types *)

\* What may be on its way on each channel.
AcquireMsg == [chan : {"A"}, op : {"AcquireBlock"}, param : Grow]
AnswerMsg ==
    [chan : {"C"}, op : {"ProbeAck", "Release"}]
    \cup [chan : {"C"}, op : {"ProbeAckData", "ReleaseData"}, data : Version]
AckMsg == [chan : {"E"}, op : {"GrantAck"}]
ProbeMsg == [op : {"ProbeBlock"}, param : Cap]
ResponseMsg ==
    [op : {"GrantData"}, param : Cap, data : Version] \cup [op : {"Denied", "ReleaseAck"}]

\* The type invariant by components, with the messages of each channel.
RequesterTypes ==
    /\ c_pc \in [Con -> {"idle", "check", "wait", "insert", "release"}]
    /\ c_want \in [Con -> {"ToB", "ToT"}]
    /\ c_entry \in [Con -> [perm : Cap, modified : BOOLEAN, data : Version]]
    /\ c_grant \in [Con -> Version] /\ c_blocked \in [Con -> BOOLEAN]
    /\ c_probes \in [Con -> Seq(ProbeMsg)] /\ c_out \in [Con -> Seq(UpMsg)]
UpTypes ==
    /\ net_up \in [Con -> [{"A", "C", "E"} -> Seq(UpMsg)]]
    /\ \A c \in Con :
          /\ net_up[c]["A"] \in Seq(AcquireMsg)
          /\ net_up[c]["C"] \in Seq(AnswerMsg)
          /\ net_up[c]["E"] \in Seq(AckMsg)
DownTypes ==
    /\ net_down \in [Con -> [{"B", "D"} -> Seq(DownMsg)]]
    /\ \A c \in Con :
          net_down[c]["B"] \in Seq(ProbeMsg) /\ net_down[c]["D"] \in Seq(ResponseMsg)
MachineTypes ==
    /\ ops_in \in Seq([con : Con, param : Grow])
    /\ state \in {"IDLE", "PROBE_PERFORM", "PROBE_WAIT", "RESPOND", "ACK_WAIT", "UNALIGNED"}
    /\ current_connection \in Con /\ current_param \in Grow
    /\ current_response \in {"Memory", "Peer"}
    /\ outstanding_requests \in SUBSET Con /\ active_requests \in SUBSET Con
    /\ peer_data \in Version
MemoryTypes ==
    /\ memory \in Version /\ mem_writes \in Seq(Version)
    /\ aligned \in BOOLEAN /\ latest \in Version

Types == RequesterTypes /\ UpTypes /\ DownTypes /\ MachineTypes /\ MemoryTypes

\* The head and the tail of a queue that is not empty.
LEMMA HeadTail ==
  ASSUME NEW S, NEW q \in Seq(S), q # <<>>
  PROVE  Head(q) \in S /\ Tail(q) \in Seq(S)
  OBVIOUS

\* A sequence over a subset is a sequence over the set.
LEMMA SeqMonotone ==
  ASSUME NEW S, NEW T, S \subseteq T, NEW s \in Seq(S) PROVE s \in Seq(T)
  OBVIOUS

\* The types by channel are the types of the module.
LEMMA TypesOK == Types => TypeOK
  <1>1. ProbeMsg \subseteq DownMsg
    BY DEF ProbeMsg, DownMsg
  <1>2. ASSUME Types PROVE c_probes \in [Con -> Seq(DownMsg)]
    BY <1>1, <1>2, SeqMonotone DEF Types, RequesterTypes
  <1> QED
    BY <1>2, Zenon DEF TypeOK, Types, RequesterTypes, UpTypes, DownTypes, MachineTypes, MemoryTypes

\* A component that a step leaves alone keeps its types.
LEMMA TypeFrame ==
  /\ RequesterTypes /\ UNCHANGED reqVars => RequesterTypes'
  /\ UpTypes /\ UNCHANGED net_up => UpTypes'
  /\ DownTypes /\ UNCHANGED net_down => DownTypes'
  /\ MachineTypes /\ UNCHANGED machineVars => MachineTypes'
  /\ MemoryTypes /\ UNCHANGED <<memory, mem_writes, aligned, latest>> => MemoryTypes'
  BY Zenon DEF RequesterTypes, UpTypes, DownTypes, MachineTypes, MemoryTypes, reqVars, machineVars

\* The messages of either side are messages of their channel.
LEMMA MsgTypes ==
  /\ AcquireMsg \subseteq UpMsg /\ AnswerMsg \subseteq UpMsg /\ AckMsg \subseteq UpMsg
  /\ ProbeMsg \subseteq DownMsg /\ ResponseMsg \subseteq DownMsg
  /\ \A p \in Grow : [chan |-> "A", op |-> "AcquireBlock", param |-> p] \in AcquireMsg
  /\ \A o \in {"ProbeAck", "Release"} : [chan |-> "C", op |-> o] \in AnswerMsg
  /\ \A o \in {"ProbeAckData", "ReleaseData"}, v \in Version :
        [chan |-> "C", op |-> o, data |-> v] \in AnswerMsg
  /\ [chan |-> "E", op |-> "GrantAck"] \in AckMsg
  /\ \A p \in Cap : [op |-> "ProbeBlock", param |-> p] \in ProbeMsg
  /\ \A p \in Cap, v \in Version : [op |-> "GrantData", param |-> p, data |-> v] \in ResponseMsg
  /\ \A o \in {"Denied", "ReleaseAck"} : [op |-> o] \in ResponseMsg
  BY DEF UpMsg, DownMsg, AcquireMsg, AnswerMsg, AckMsg, ProbeMsg, ResponseMsg

\* The channel of a message, and what it carries.
LEMMA MsgFields ==
  /\ \A m \in UpMsg :
        /\ m.chan \in {"A", "C", "E"}
        /\ m.chan = "A" <=> m \in AcquireMsg
        /\ m.chan = "C" <=> m \in AnswerMsg
        /\ m.chan = "E" <=> m \in AckMsg
  /\ \A m \in AcquireMsg : m.op = "AcquireBlock" /\ m.param \in Grow
  /\ \A m \in AnswerMsg :
        /\ m.op \in {"ProbeAck", "Release", "ProbeAckData", "ReleaseData"}
        /\ m.op \in {"ProbeAckData", "ReleaseData"} => m.data \in Version
  /\ \A m \in AckMsg : m.op = "GrantAck"
  /\ \A m \in ProbeMsg : m.op = "ProbeBlock" /\ m.param \in Cap
  /\ \A m \in ResponseMsg :
        /\ m.op \in {"GrantData", "Denied", "ReleaseAck"}
        /\ m.op = "GrantData" => m.data \in Version
  BY DEF UpMsg, AcquireMsg, AnswerMsg, AckMsg, ProbeMsg, ResponseMsg

\* Init establishes the types.
LEMMA TypeInit == Init => Types
  <1> SUFFICES ASSUME Init PROVE Types
    OBVIOUS
  <1>1. 0 \in Version /\ 0 \in Con
    BY CoherenceAssumption DEF Version, Con
  <1>2. RequesterTypes
    BY <1>1 DEF Init, RequesterTypes, Cap
  <1>3. UpTypes /\ DownTypes
    BY DEF Init, UpTypes, DownTypes
  <1>4. MachineTypes
    BY <1>1 DEF Init, MachineTypes, Grow
  <1>5. MemoryTypes
    BY <1>1, CoherenceAssumption DEF Init, MemoryTypes
  <1> QED
    BY <1>2, <1>3, <1>4, <1>5 DEF Types

\* A new message in operations_outstanding.
LEMMA PerformType ==
  ASSUME RequesterTypes, NEW c \in Con, NEW m \in UpMsg, Perform(c, m)
  PROVE  c_out' \in [Con -> Seq(UpMsg)]
  BY DEF RequesterTypes, Perform

\* The types are kept by what the application thread does.
LEMMA TypeApplication ==
  ASSUME Types, NEW c \in Con, Access(c) \/ InsertEntry(c) \/ HandleRelease(c)
  PROVE  Types'
  <1> USE TypeFrame DEF Types
  <1>1. ASSUME NEW want \in {"ToB", "ToT"}, AccessLine(c, want) PROVE Types'
    <2>1. (latest + 1) % Versions \in Version
      BY CoherenceAssumption DEF MemoryTypes, Version
    <2>2. latest' \in Version /\ MemoryTypes'
      BY <1>1, <2>1 DEF AccessLine, MemoryTypes
    <2>0. c_entry' \in [Con -> [perm : Cap, modified : BOOLEAN, data : Version]]
      <3>1. c_entry' = c_entry
            \/ c_entry' = [c_entry EXCEPT ![c] =
                              [perm |-> c_entry[c].perm, modified |-> TRUE, data |-> latest']]
        BY <1>1 DEF AccessLine
      <3>2. [perm |-> c_entry[c].perm, modified |-> TRUE, data |-> latest']
               \in [perm : Cap, modified : BOOLEAN, data : Version]
        BY <2>2 DEF RequesterTypes
      <3> QED
        BY <3>1, <3>2 DEF RequesterTypes
    <2>3. RequesterTypes'
      BY <1>1, <2>0 DEF AccessLine, RequesterTypes
    <2>4. UNCHANGED <<net_up, net_down, machineVars>>
      BY <1>1 DEF AccessLine
    <2> QED
      BY <2>2, <2>3, <2>4
  <1>2. ASSUME NEW want \in {"ToB", "ToT"}, AcquireBlock(c, want) PROVE Types'
    <2>1. GrowFor(c_entry[c].perm, want) \in Grow
      BY DEF GrowFor, Grow
    <2>2. c_out' \in [Con -> Seq(UpMsg)]
      BY <1>2, <2>1, PerformType, MsgTypes DEF AcquireBlock
    <2>3. RequesterTypes'
      BY <1>2, <2>2 DEF AcquireBlock, RequesterTypes
    <2> QED
      BY <1>2, <2>3 DEF AcquireBlock
  <1>3. CASE InsertEntry(c)
    <2>1. [perm |-> c_want[c], modified |-> FALSE, data |-> c_grant[c]]
             \in [perm : Cap, modified : BOOLEAN, data : Version]
      BY DEF RequesterTypes, Cap
    <2>2. RequesterTypes'
      BY <1>3, <2>1 DEF InsertEntry, RequesterTypes
    <2> QED
      BY <1>3, <2>2 DEF InsertEntry
  <1>4. CASE HandleRelease(c)
    <2>1. c_entry[c].data \in Version
      BY DEF RequesterTypes
    <2>2. c_out' \in [Con -> Seq(UpMsg)]
      BY <1>4, <2>1, PerformType, MsgTypes DEF HandleRelease
    <2>3. RequesterTypes'
      BY <1>4, <2>2 DEF HandleRelease, RequesterTypes
    <2> QED
      BY <1>4, <2>3 DEF HandleRelease
  <1> QED
    BY <1>1, <1>2, <1>3, <1>4 DEF Access

\* The types are kept by what the network thread does.
LEMMA TypeNetworkThread ==
  ASSUME Types, NEW c \in Con,
         ReceiveResponse(c) \/ ReceiveProbe(c) \/ ProcessProbes(c) \/ WaitForEntry(c) \/ CheckSend(c)
  PROVE  Types'
  <1> USE TypeFrame DEF Types
  <1>1. CASE ReceiveResponse(c)
    <2> DEFINE m == Head(net_down[c]["D"])
    <2>1. m \in ResponseMsg /\ DownTypes'
      BY <1>1 DEF ReceiveResponse, DownTypes
    <2>2. CASE m.op = "GrantData"
      <3>1. m.data \in Version
        BY <2>1, <2>2, MsgFields
      <3>2. /\ c_pc' = [c_pc EXCEPT ![c] = "insert"] /\ c_grant' = [c_grant EXCEPT ![c] = m.data]
            /\ Perform(c, [chan |-> "E", op |-> "GrantAck"]) /\ UNCHANGED c_entry
        BY <1>1, <2>2 DEF ReceiveResponse
      <3>3. c_out' \in [Con -> Seq(UpMsg)]
        BY <3>2, PerformType, MsgTypes
      <3>4. RequesterTypes'
        BY <1>1, <3>1, <3>2, <3>3 DEF ReceiveResponse, RequesterTypes
      <3> QED
        BY <1>1, <2>1, <3>4 DEF ReceiveResponse
    <2>3. CASE m.op = "Denied"
      <3>1. /\ c_pc' = [c_pc EXCEPT ![c] = "idle"]
            /\ Perform(c, [chan |-> "E", op |-> "GrantAck"]) /\ UNCHANGED <<c_entry, c_grant>>
        BY <1>1, <2>3 DEF ReceiveResponse
      <3>2. c_out' \in [Con -> Seq(UpMsg)]
        BY <3>1, PerformType, MsgTypes
      <3>3. RequesterTypes'
        BY <1>1, <3>1, <3>2 DEF ReceiveResponse, RequesterTypes
      <3> QED
        BY <1>1, <2>1, <3>3 DEF ReceiveResponse
    <2>4. CASE m.op = "ReleaseAck"
      <3>1. /\ c_pc' = [c_pc EXCEPT ![c] = "idle"] /\ UNCHANGED <<c_grant, c_out>>
            /\ c_entry' = [c_entry EXCEPT ![c] =
                              [perm |-> "ToN", modified |-> FALSE, data |-> c_entry[c].data]]
        BY <1>1, <2>4 DEF ReceiveResponse
      <3>2. RequesterTypes'
        BY <1>1, <3>1 DEF ReceiveResponse, RequesterTypes, Cap
      <3> QED
        BY <1>1, <2>1, <3>2 DEF ReceiveResponse
    <2> QED
      BY <1>1, <2>2, <2>3, <2>4 DEF ReceiveResponse
  <1>2. CASE ReceiveProbe(c)
    <2>1. Head(net_down[c]["B"]) \in ProbeMsg /\ DownTypes'
      BY <1>2 DEF ReceiveProbe, DownTypes
    <2>2. RequesterTypes'
      BY <1>2, <2>1 DEF ReceiveProbe, RequesterTypes
    <2> QED
      BY <1>2, <2>1, <2>2 DEF ReceiveProbe
  <1>3. CASE ProcessProbes(c)
    <2> DEFINE e == c_entry[c]
               new == ProbedEntry(e, Head(c_probes[c]).param)
    <2>1. Head(c_probes[c]) \in ProbeMsg /\ e \in [perm : Cap, modified : BOOLEAN, data : Version]
      BY <1>3 DEF ProcessProbes, RequesterTypes
    <2>2. new \in [perm : Cap, modified : BOOLEAN, data : Version]
      BY <2>1, MsgFields DEF ProbedEntry
    <2>3. c_out' \in [Con -> Seq(UpMsg)]
      BY <1>3, <2>1, PerformType, MsgTypes DEF ProcessProbes
    <2>4. /\ c_entry' = [c_entry EXCEPT ![c] = new]
          /\ c_probes' = [c_probes EXCEPT ![c] = Tail(@)] /\ c_probes[c] # <<>>
          /\ c_blocked' = [c_blocked EXCEPT ![c] = FALSE]
          /\ UNCHANGED <<c_pc, c_want, c_grant>>
      BY <1>3 DEF ProcessProbes
    <2>5. c_entry' \in [Con -> [perm : Cap, modified : BOOLEAN, data : Version]]
      BY <2>2, <2>4 DEF RequesterTypes
    <2>6. RequesterTypes'
      BY <2>3, <2>4, <2>5 DEF RequesterTypes
    <2> QED
      BY <1>3, <2>6 DEF ProcessProbes
  <1>4. CASE WaitForEntry(c)
    <2>1. RequesterTypes'
      BY <1>4 DEF WaitForEntry, RequesterTypes
    <2> QED
      BY <1>4, <2>1 DEF WaitForEntry
  <1>5. CASE CheckSend(c)
    <2> DEFINE m == Head(c_out[c])
    <2>1. m \in UpMsg /\ m.chan \in {"A", "C", "E"}
      BY <1>5, MsgFields DEF CheckSend, RequesterTypes
    <2>2. RequesterTypes'
      BY <1>5 DEF CheckSend, RequesterTypes
    <2>3. net_up' = [net_up EXCEPT ![c][m.chan] = Append(@, m)]
      BY <1>5 DEF CheckSend
    <2>4. ASSUME m.chan = "A" PROVE UpTypes'
      BY <2>1, <2>3, <2>4, MsgFields DEF UpTypes
    <2>5. ASSUME m.chan = "C" PROVE UpTypes'
      BY <2>1, <2>3, <2>5, MsgFields DEF UpTypes
    <2>6. ASSUME m.chan = "E" PROVE UpTypes'
      BY <2>1, <2>3, <2>6, MsgFields DEF UpTypes
    <2> QED
      BY <1>5, <2>1, <2>2, <2>4, <2>5, <2>6 DEF CheckSend
  <1> QED
    BY <1>1, <1>2, <1>3, <1>4, <1>5

\* A set of numbers that is not empty has a least element.
LEMMA LeastElement ==
  ASSUME NEW T, T \subseteq Nat, T # {}
  PROVE  \E x \in T : \A y \in T : x <= y
  <1> DEFINE R == OpToRel(<, Nat)
  <1>1. IsWellFoundedOn(R, Nat)
    BY NatLessThanWellFounded
  <1> HIDE DEF R
  <1>2. PICK x \in T : \A y \in T : ~ (<<y, x>> \in R)
    BY <1>1, WFMin
  <1>3. \A y \in T : ~ (y < x)
    BY <1>2 DEF OpToRel, R
  <1> QED
    BY <1>3

\* send_probes asks one of the connections that are still to be asked.
LEMMA ProbedConnection ==
  ASSUME MachineTypes, SendProbes
  PROVE  \E d \in outstanding_requests :
            /\ d \in Con /\ outstanding_requests' = outstanding_requests \ {d}
            /\ Give(d, "B", [op |-> "ProbeBlock", param |-> ProbeParam])
  <1> DEFINE d == CHOOSE x \in outstanding_requests : \A y \in outstanding_requests : x <= y
  <1>1. outstanding_requests \subseteq Nat /\ outstanding_requests # {}
    BY CoherenceAssumption DEF MachineTypes, Con, SendProbes
  <1>2. d \in outstanding_requests /\ d \in Con
    BY <1>1, LeastElement, Zenon DEF MachineTypes
  <1>3. /\ outstanding_requests' = outstanding_requests \ {d}
        /\ Give(d, "B", [op |-> "ProbeBlock", param |-> ProbeParam])
    BY Zenon DEF SendProbes
  <1> QED
    BY <1>2, <1>3, Zenon

\* Taking a message off a channel keeps its type.
LEMMA TakeType ==
  ASSUME UpTypes, NEW c \in Con, NEW ch \in {"A", "C", "E"}, net_up[c][ch] # <<>>, Take(c, ch)
  PROVE  UpTypes'
  BY DEF UpTypes, Take

\* So does sending a probe, or a response.
LEMMA GiveProbeType ==
  ASSUME DownTypes, NEW c \in Con, NEW m \in ProbeMsg, Give(c, "B", m)
  PROVE  DownTypes'
  BY MsgTypes DEF DownTypes, Give

\* Sending a response keeps the types of the channels.
LEMMA GiveResponseType ==
  ASSUME DownTypes, NEW c \in Con, NEW m \in ResponseMsg, Give(c, "D", m)
  PROVE  DownTypes'
  BY MsgTypes DEF DownTypes, Give

\* The types are kept when the endpoint takes a message.
LEMMA TypeChannels ==
  ASSUME Types, NEW c \in Con, Channels(c) PROVE Types'
  <1> USE TypeFrame DEF Types
  <1>1. CASE ForwardRequest(c)
    <2>0. net_up[c]["A"] # <<>> /\ Take(c, "A") /\ net_up[c]["A"] \in Seq(AcquireMsg)
      BY <1>1, Zenon DEF ForwardRequest, UpTypes
    <2>1. Head(net_up[c]["A"]) \in AcquireMsg /\ UpTypes'
      BY <2>0, TakeType
    <2>2. [con |-> c, param |-> Head(net_up[c]["A"]).param] \in [con : Con, param : Grow]
      BY <2>1, MsgFields
    <2>3. MachineTypes'
      BY <1>1, <2>2 DEF ForwardRequest, MachineTypes
    <2> QED
      BY <1>1, <2>1, <2>3 DEF ForwardRequest
  <1>2. CASE ProcessResponses(c)
    <2> DEFINE m == Head(net_up[c]["C"])
    <2>1. m \in AnswerMsg /\ UpTypes'
      BY <1>2, TakeType DEF ProcessResponses, ProbeAnswered, UpTypes
    <2>2. m.op = "ProbeAckData" => m.data \in Version
      BY <2>1, MsgFields
    <2>3. active_requests' = active_requests \ {c}
      BY <1>2 DEF ProcessResponses, StillActive
    <2>4. CASE m.op = "ProbeAckData"
      <3>1. state' = "RESPOND" /\ current_response' = "Peer" /\ peer_data' = m.data
        BY <1>2, <2>4 DEF ProcessResponses
      <3>2. MachineTypes'
        BY <1>2, <2>2, <2>3, <2>4, <3>1 DEF ProcessResponses, MachineTypes
      <3> QED
        BY <1>2, <2>1, <3>2 DEF ProcessResponses
    <2>5. CASE m.op # "ProbeAckData"
      <3>1. state' \in {state, "RESPOND"} /\ UNCHANGED <<current_response, peer_data>>
        BY <1>2, <2>5 DEF ProcessResponses
      <3>2. MachineTypes'
        BY <1>2, <2>3, <3>1 DEF ProcessResponses, MachineTypes
      <3> QED
        BY <1>2, <2>1, <3>2 DEF ProcessResponses
    <2> QED
      BY <2>4, <2>5
  <1>3. CASE DropResponses(c)
    <2>1. UpTypes'
      BY <1>3, TakeType DEF DropResponses, ProbeAnswered
    <2>2. MachineTypes'
      BY <1>3 DEF DropResponses, MachineTypes
    <2> QED
      BY <1>3, <2>1, <2>2 DEF DropResponses
  <1>4. CASE WaitForAck(c)
    <2>1. UpTypes'
      BY <1>4, TakeType DEF WaitForAck
    <2>2. MachineTypes'
      BY <1>4 DEF WaitForAck, MachineTypes
    <2> QED
      BY <1>4, <2>1, <2>2 DEF WaitForAck
  <1>5. CASE ReleaseFlits(c)
    <2> DEFINE m == Head(net_up[c]["C"])
    <2>0. net_up[c]["C"] # <<>> /\ Take(c, "C") /\ net_up[c]["C"] \in Seq(AnswerMsg)
      BY <1>5, Zenon DEF ReleaseFlits, UpTypes
    <2>1. m \in AnswerMsg /\ UpTypes'
      BY <2>0, TakeType
    <2>2. m.op = "ReleaseData" => m.data \in Version
      BY <2>1, MsgFields
    <2>3. MemoryTypes'
      BY <1>5, <2>2 DEF ReleaseFlits, MemoryTypes
    <2>4. DownTypes'
      BY <1>5, GiveResponseType, MsgTypes DEF ReleaseFlits
    <2> QED
      BY <1>5, <2>1, <2>3, <2>4 DEF ReleaseFlits
  <1> QED
    BY <1>1, <1>2, <1>3, <1>4, <1>5 DEF Channels

\* The types are kept by the cache machine and by the memory.
LEMMA TypeMachine ==
  ASSUME Types, Machine \/ CompleteWrite PROVE Types'
  <1> USE TypeFrame DEF Types
  <1>1. CASE StartProcessing
    <2>0. ops_in # <<>> /\ ops_in \in Seq([con : Con, param : Grow])
      BY <1>1, Zenon DEF StartProcessing, MachineTypes
    <2>1. Head(ops_in) \in [con : Con, param : Grow] /\ Tail(ops_in) \in Seq([con : Con, param : Grow])
      BY <2>0, HeadTail, Zenon
    <2>2. state' \in {"UNALIGNED", "RESPOND", "PROBE_PERFORM"}
      BY <1>1 DEF StartProcessing
    <2>3. MachineTypes'
      BY <1>1, <2>1, <2>2 DEF StartProcessing, MachineTypes
    <2> QED
      BY <1>1, <2>3 DEF StartProcessing
  <1>2. CASE SendProbes
    <2>1. PICK d \in Con : /\ outstanding_requests' = outstanding_requests \ {d}
                           /\ Give(d, "B", [op |-> "ProbeBlock", param |-> ProbeParam])
      BY <1>2, ProbedConnection
    <2>2. DownTypes'
      BY <2>1, GiveProbeType, MsgTypes DEF ProbeParam, Cap
    <2>3. MachineTypes'
      BY <1>2, <2>1 DEF SendProbes, MachineTypes
    <2> QED
      BY <1>2, <2>2, <2>3 DEF SendProbes
  <1>3. CASE ProbesDone
    <2>1. MachineTypes'
      BY <1>3 DEF ProbesDone, MachineTypes
    <2> QED
      BY <1>3, <2>1 DEF ProbesDone
  <1>4. CASE SendResponseMemory
    <2>1. DownTypes'
      BY <1>4, GiveResponseType, MsgTypes
         DEF SendResponseMemory, MachineTypes, MemoryTypes, GrantParam, Cap
    <2>2. MachineTypes'
      BY <1>4 DEF SendResponseMemory, MachineTypes
    <2> QED
      BY <1>4, <2>1, <2>2 DEF SendResponseMemory
  <1>5. CASE SendResponsePeer
    <2>1. DownTypes'
      BY <1>5, GiveResponseType, MsgTypes
         DEF SendResponsePeer, MachineTypes, MemoryTypes, GrantParam, Cap
    <2>2. MachineTypes'
      BY <1>5 DEF SendResponsePeer, MachineTypes
    <2>3. MemoryTypes'
      BY <1>5 DEF SendResponsePeer, MachineTypes, MemoryTypes, WriteBack
    <2> QED
      BY <1>5, <2>1, <2>2, <2>3 DEF SendResponsePeer
  <1>6. CASE SendDenyResponse
    <2>1. DownTypes'
      BY <1>6, GiveResponseType, MsgTypes DEF SendDenyResponse, MachineTypes
    <2>2. MachineTypes'
      BY <1>6 DEF SendDenyResponse, MachineTypes
    <2> QED
      BY <1>6, <2>1, <2>2 DEF SendDenyResponse
  <1>7. CASE CompleteWrite
    <2>1. MemoryTypes'
      BY <1>7 DEF CompleteWrite, MemoryTypes
    <2> QED
      BY <1>7, <2>1 DEF CompleteWrite
  <1> QED
    BY <1>1, <1>2, <1>3, <1>4, <1>5, <1>6, <1>7 DEF Machine

\* Every step keeps the types.
LEMMA TypeStep == Types /\ [Next]_vars => Types'
  <1> SUFFICES ASSUME Types, [Next]_vars PROVE Types'
    OBVIOUS
  <1>1. CASE UNCHANGED vars
    BY <1>1, TypeFrame, Zenon DEF vars, Types
  <1>2. CASE Next
    BY <1>2, TypeApplication, TypeNetworkThread, TypeChannels, TypeMachine
       DEF Next, Requester
  <1> QED
    BY <1>1, <1>2

\* Permissions, versions and messages are of their kind at all times.
THEOREM TypeCorrect == Spec => []TypeOK
  <1>1. Init => Types
    BY TypeInit
  <1>2. Types /\ [Next]_vars => Types'
    BY TypeStep
  <1>3. Types => TypeOK
    BY TypesOK
  <1> QED
    BY <1>1, <1>2, <1>3, PTL DEF Spec

-----------------------------------------------------------------------------
(* Who is asked and who has answered.  A request, a grant, a release and a *)
(* probe are in one place at a time, and that place says what the          *)
(* requester and the cache machine are doing.                              *)

Acquires == {"AcquireBlock"}
Grants == {"GrantData", "Denied"}
GrantAcks == {"GrantAck"}
Releases == {"Release", "ReleaseData"}
ReleaseAcks == {"ReleaseAck"}
ProbeBlocks == {"ProbeBlock"}
ProbeAcks == {"ProbeAck", "ProbeAckData"}

\* A queue has a message of the kinds K, and at most one.
Has(s, K) == \E i \in DOMAIN s : s[i].op \in K
Once(s, K) == \A i, j \in DOMAIN s : s[i].op \in K /\ s[j].op \in K => i = j

\* The machine's queue, and its work before the response.
Queued(c) == \E i \in DOMAIN ops_in : ops_in[i].con = c
QueuedOnce(c) == \A i, j \in DOMAIN ops_in : ops_in[i].con = c /\ ops_in[j].con = c => i = j
Serving(c) ==
    state \in {"PROBE_PERFORM", "PROBE_WAIT", "RESPOND", "UNALIGNED"} /\ current_connection = c

\* An acquire, from operations_outstanding to the response to it.
AcquireTokens(c) ==
    /\ Once(c_out[c], Acquires) /\ Once(net_up[c]["A"], Acquires)
    /\ QueuedOnce(c) /\ Once(net_down[c]["D"], Grants)
    /\ Has(c_out[c], Acquires) =>
          c_pc[c] = "wait" /\ ~Has(net_up[c]["A"], Acquires) /\ ~Queued(c) /\ ~Serving(c)
          /\ ~Has(net_down[c]["D"], Grants)
    /\ Has(net_up[c]["A"], Acquires) =>
          c_pc[c] = "wait" /\ ~Queued(c) /\ ~Serving(c) /\ ~Has(net_down[c]["D"], Grants)
    /\ Queued(c) => c_pc[c] = "wait" /\ ~Serving(c) /\ ~Has(net_down[c]["D"], Grants)
    /\ Serving(c) => c_pc[c] = "wait"
    /\ Has(net_down[c]["D"], Grants) => c_pc[c] = "wait"

\* The response to it and the GrantAck, until the machine has that.
GrantTokens(c) ==
    /\ Once(c_out[c], GrantAcks) /\ Once(net_up[c]["E"], GrantAcks)
    /\ Has(net_down[c]["D"], Grants) =>
          state = "ACK_WAIT" /\ current_connection = c
          /\ ~Has(c_out[c], GrantAcks) /\ ~Has(net_up[c]["E"], GrantAcks)
    /\ Has(c_out[c], GrantAcks) =>
          state = "ACK_WAIT" /\ current_connection = c /\ ~Has(net_up[c]["E"], GrantAcks)
    /\ Has(net_up[c]["E"], GrantAcks) => state = "ACK_WAIT" /\ current_connection = c

\* A release and its answer.
ReleaseTokens(c) ==
    /\ Once(c_out[c], Releases) /\ Once(net_up[c]["C"], Releases)
    /\ Once(net_down[c]["D"], ReleaseAcks)
    /\ Has(c_out[c], Releases) =>
          c_pc[c] = "release" /\ ~Has(net_up[c]["C"], Releases)
          /\ ~Has(net_down[c]["D"], ReleaseAcks)
    /\ Has(net_up[c]["C"], Releases) => c_pc[c] = "release" /\ ~Has(net_down[c]["D"], ReleaseAcks)
    /\ Has(net_down[c]["D"], ReleaseAcks) => c_pc[c] = "release"

Probing(c) == Has(net_down[c]["B"], ProbeBlocks) \/ Has(c_probes[c], ProbeBlocks)
Answering(c) == Has(c_out[c], ProbeAcks) \/ Has(net_up[c]["C"], ProbeAcks)

\* A probe and the answer to it.
ProbeTokens(c) ==
    /\ Once(net_down[c]["B"], ProbeBlocks) /\ Once(c_probes[c], ProbeBlocks)
    /\ Once(c_out[c], ProbeAcks) /\ Once(net_up[c]["C"], ProbeAcks)
    /\ Probing(c) => ~Answering(c)
    /\ Has(net_down[c]["B"], ProbeBlocks) => ~Has(c_probes[c], ProbeBlocks)
    /\ Has(c_out[c], ProbeAcks) => ~Has(net_up[c]["C"], ProbeAcks)
    /\ Probing(c) \/ Answering(c) =>
          /\ c \in active_requests /\ c \notin outstanding_requests /\ aligned
          /\ state \in {"PROBE_PERFORM", "PROBE_WAIT", "RESPOND", "ACK_WAIT"}

\* The machine waits for the answers of connections it has probed or will
\* probe, never of the one it serves, and takes the data from the memory only
\* when nobody is left to answer.
MachineOK ==
    /\ outstanding_requests \subseteq active_requests
    /\ state = "IDLE" => active_requests = {}
    /\ current_connection \notin active_requests
    /\ state = "PROBE_WAIT" => outstanding_requests = {}
    /\ state \in {"PROBE_PERFORM", "PROBE_WAIT"} => current_response = "Memory"
    /\ state = "RESPOND" /\ current_response = "Memory" => active_requests = {}
    /\ state \in {"PROBE_PERFORM", "PROBE_WAIT", "RESPOND"} => aligned

Tokens(c) == AcquireTokens(c) /\ GrantTokens(c) /\ ReleaseTokens(c) /\ ProbeTokens(c)
TokenInv == Types /\ MachineOK /\ \A c \in Con : Tokens(c)

\* An empty queue has nothing.
LEMMA HasEmpty == \A K : ~Has(<<>>, K) /\ Once(<<>>, K)
  BY DEF Has, Once

\* A new message in a queue.
LEMMA HasAppend ==
  ASSUME NEW S, NEW s \in Seq(S), NEW m \in S
  PROVE  \A K : /\ Has(Append(s, m), K) <=> Has(s, K) \/ m.op \in K
                /\ Once(s, K) /\ (m.op \in K => ~Has(s, K)) => Once(Append(s, m), K)
  <1>1. /\ Len(s) \in Nat /\ DOMAIN s = 1 .. Len(s) /\ DOMAIN Append(s, m) = 1 .. Len(s) + 1
        /\ \A i \in 1 .. Len(s) : Append(s, m)[i] = s[i]
        /\ Append(s, m)[Len(s) + 1] = m
    OBVIOUS
  <1>2. \A i \in 1 .. Len(s) + 1 : i \in 1 .. Len(s) \/ i = Len(s) + 1
    BY <1>1
  <1>3. Len(s) + 1 \in 1 .. Len(s) + 1 /\ \A i \in 1 .. Len(s) : i \in 1 .. Len(s) + 1
    BY <1>1
  <1>4. TAKE K
  <1>5. Has(Append(s, m), K) <=> Has(s, K) \/ m.op \in K
    BY <1>1, <1>2, <1>3, Zenon DEF Has
  <1>6. Once(s, K) /\ (m.op \in K => ~Has(s, K)) => Once(Append(s, m), K)
    BY <1>1, <1>2, Zenon DEF Has, Once
  <1> QED
    BY <1>5, <1>6

\* The positions of a queue and of its tail.
LEMMA TailIndex ==
  ASSUME NEW S, NEW s \in Seq(S), s # <<>>
  PROVE  /\ Head(s) = s[1] /\ 1 \in DOMAIN s
         /\ \A i \in DOMAIN Tail(s) : i + 1 \in DOMAIN s /\ Tail(s)[i] = s[i + 1] /\ i + 1 # 1
         /\ \A i, j \in DOMAIN Tail(s) : i + 1 = j + 1 => i = j
         /\ \A i \in DOMAIN s : i = 1 \/ \E j \in DOMAIN Tail(s) : i = j + 1
  <1>1. /\ Len(s) \in Nat /\ Len(s) > 0 /\ DOMAIN s = 1 .. Len(s)
        /\ DOMAIN Tail(s) = 1 .. Len(s) - 1 /\ Head(s) = s[1]
        /\ \A i \in 1 .. Len(s) - 1 : Tail(s)[i] = s[i + 1]
    OBVIOUS
  <1>2. ASSUME NEW i \in DOMAIN s, i # 1 PROVE \E j \in DOMAIN Tail(s) : i = j + 1
    <2>1. i - 1 \in DOMAIN Tail(s) /\ i = (i - 1) + 1
      BY <1>1, <1>2
    <2> QED
      BY <2>1
  <1> QED
    BY <1>1, <1>2

\* A message taken out of a queue.
LEMMA HasTail ==
  ASSUME NEW S, NEW s \in Seq(S), s # <<>>
  PROVE  \A K : /\ Has(s, K) <=> Head(s).op \in K \/ Has(Tail(s), K)
                /\ Once(s, K) => Once(Tail(s), K)
                /\ Once(s, K) /\ Head(s).op \in K => ~Has(Tail(s), K)
  <1>1. TAKE K
  <1>2. ASSUME Has(s, K) PROVE Head(s).op \in K \/ Has(Tail(s), K)
    <2>1. PICK i \in DOMAIN s : s[i].op \in K
      BY <1>2 DEF Has
    <2>2. CASE i = 1
      BY <2>1, <2>2, TailIndex, Zenon
    <2>3. CASE i # 1
      <3>1. PICK j \in DOMAIN Tail(s) : i = j + 1
        BY <2>3, TailIndex, SMT
      <3>2. Tail(s)[j].op \in K
        BY <2>1, <3>1, TailIndex, Zenon
      <3> QED
        BY <3>2 DEF Has
    <2> QED
      BY <2>2, <2>3
  <1>3. Head(s).op \in K \/ Has(Tail(s), K) => Has(s, K)
    BY TailIndex, Zenon DEF Has
  <1>4. ASSUME Once(s, K), NEW i \in DOMAIN Tail(s), NEW j \in DOMAIN Tail(s),
               Tail(s)[i].op \in K, Tail(s)[j].op \in K
        PROVE  i = j
    <2>1. /\ i + 1 \in DOMAIN s /\ Tail(s)[i] = s[i + 1] /\ j + 1 \in DOMAIN s
          /\ Tail(s)[j] = s[j + 1] /\ (i + 1 = j + 1 => i = j)
      BY TailIndex, Zenon
    <2> QED
      BY <1>4, <2>1, Zenon DEF Once
  <1>5. Once(s, K) /\ Head(s).op \in K => ~Has(Tail(s), K)
    BY TailIndex, Zenon DEF Has, Once
  <1> QED
    BY <1>2, <1>3, <1>4, <1>5, Zenon DEF Once

\* The same of the machine's queue.
LEMMA QueuedAppend ==
  ASSUME NEW c \in Con, NEW r \in [con : Con, param : Grow], Types, ops_in' = Append(ops_in, r)
  PROVE  /\ Queued(c)' <=> Queued(c) \/ r.con = c
         /\ QueuedOnce(c) /\ (r.con = c => ~Queued(c)) => QueuedOnce(c)'
  BY DEF Types, MachineTypes, Queued, QueuedOnce

\* Taking the first operation leaves the others queued, each once.
LEMMA QueuedTail ==
  ASSUME NEW c \in Con, Types, ops_in # <<>>, ops_in' = Tail(ops_in)
  PROVE  /\ Head(ops_in).con = c \/ Queued(c)' => Queued(c)
         /\ QueuedOnce(c) => QueuedOnce(c)'
         /\ QueuedOnce(c) /\ Head(ops_in).con = c => ~Queued(c)'
  <1> DEFINE s == ops_in
  <1>1. s \in Seq([con : Con, param : Grow]) /\ s # <<>>
    BY DEF Types, MachineTypes
  <1>2. /\ Head(s) = s[1] /\ 1 \in DOMAIN s
        /\ \A i \in DOMAIN Tail(s) : i + 1 \in DOMAIN s /\ Tail(s)[i] = s[i + 1] /\ i + 1 # 1
        /\ \A i, j \in DOMAIN Tail(s) : i + 1 = j + 1 => i = j
    BY <1>1, TailIndex, Zenon
  <1>3. Head(s).con = c \/ Queued(c)' => Queued(c)
    BY <1>2, Zenon DEF Queued
  <1>4. ASSUME QueuedOnce(c), NEW i \in DOMAIN Tail(s), NEW j \in DOMAIN Tail(s),
               Tail(s)[i].con = c, Tail(s)[j].con = c
        PROVE  i = j
    <2>1. /\ i + 1 \in DOMAIN s /\ Tail(s)[i] = s[i + 1] /\ j + 1 \in DOMAIN s
          /\ Tail(s)[j] = s[j + 1] /\ (i + 1 = j + 1 => i = j)
      BY <1>2, Zenon
    <2> QED
      BY <1>4, <2>1, Zenon DEF QueuedOnce
  <1>5. QueuedOnce(c) /\ Head(s).con = c => ~Queued(c)'
    BY <1>2, Zenon DEF Queued, QueuedOnce
  <1> QED
    BY <1>3, <1>4, <1>5, Zenon DEF QueuedOnce

\* The queues of a connection by their types.
LEMMA QueueTypes ==
  ASSUME Types, NEW d \in Con
  PROVE  /\ c_out[d] \in Seq(UpMsg) /\ c_probes[d] \in Seq(ProbeMsg)
         /\ net_up[d]["A"] \in Seq(AcquireMsg) /\ net_up[d]["C"] \in Seq(AnswerMsg)
         /\ net_up[d]["E"] \in Seq(AckMsg)
         /\ net_down[d]["B"] \in Seq(ProbeMsg) /\ net_down[d]["D"] \in Seq(ResponseMsg)
  BY Zenon DEF Types, RequesterTypes, UpTypes, DownTypes

\* How a queue s becomes t when m is appended to it, or its head is taken.
Appended(s, t, m) ==
    /\ \A K : Has(t, K) <=> Has(s, K) \/ m.op \in K
    /\ \A K : Once(s, K) /\ (m.op \in K => ~Has(s, K)) => Once(t, K)
Shortened(s, t) ==
    /\ \A K : Has(t, K) => Has(s, K)
    /\ \A K : Head(s).op \in K => Has(s, K)
    /\ \A K : Once(s, K) => Once(t, K)
    /\ \A K : Once(s, K) /\ Head(s).op \in K => ~Has(t, K)

\* What Perform, Take and Give change.
LEMMA PerformEffect ==
  ASSUME Types, NEW c \in Con, NEW m \in UpMsg, Perform(c, m)
  PROVE  /\ Appended(c_out[c], c_out'[c], m)
         /\ \A d \in Con : d # c => c_out'[d] = c_out[d]
  <1>1. /\ c_out'[c] = Append(c_out[c], m) /\ c_out[c] \in Seq(UpMsg)
        /\ \A d \in Con : d # c => c_out'[d] = c_out[d]
    BY DEF Types, RequesterTypes, Perform
  <1> QED
    BY <1>1, HasAppend, Zenon DEF Appended

\* Taking a message off a channel to the endpoint changes this channel only.
LEMMA TakeEffect ==
  ASSUME Types, NEW c \in Con, NEW ch \in {"A", "C", "E"}, Take(c, ch), net_up[c][ch] # <<>>
  PROVE  /\ Shortened(net_up[c][ch], net_up'[c][ch])
         /\ \A d \in Con, k \in {"A", "C", "E"} :
               d # c \/ k # ch => net_up'[d][k] = net_up[d][k]
  <1>1. /\ net_up'[c][ch] = Tail(net_up[c][ch]) /\ net_up[c][ch] \in Seq(UpMsg)
        /\ \A d \in Con, k \in {"A", "C", "E"} :
              d # c \/ k # ch => net_up'[d][k] = net_up[d][k]
    BY DEF Types, UpTypes, Take
  <1>2. Shortened(net_up[c][ch], net_up'[c][ch])
    BY <1>1, HasTail DEF Shortened
  <1> QED
    BY <1>1, <1>2, Zenon

\* Sending a message to a requester changes its channel only.
LEMMA GiveEffect ==
  ASSUME Types, NEW c \in Con, NEW ch \in {"B", "D"}, NEW m \in DownMsg, Give(c, ch, m)
  PROVE  /\ Appended(net_down[c][ch], net_down'[c][ch], m)
         /\ \A d \in Con, k \in {"B", "D"} :
               d # c \/ k # ch => net_down'[d][k] = net_down[d][k]
  <1>1. /\ net_down'[c][ch] = Append(net_down[c][ch], m) /\ net_down[c][ch] \in Seq(DownMsg)
        /\ \A d \in Con, k \in {"B", "D"} :
              d # c \/ k # ch => net_down'[d][k] = net_down[d][k]
    BY DEF Types, DownTypes, Give
  <1>2. Appended(net_down[c][ch], net_down'[c][ch], m)
    BY <1>1, HasAppend DEF Appended
  <1> QED
    BY <1>1, <1>2, Zenon

\* What the tokens of a connection are made of.
Places(d) ==
    <<c_pc[d], c_out[d], c_probes[d], net_up[d]["A"], net_up[d]["C"], net_up[d]["E"],
      net_down[d]["B"], net_down[d]["D"]>>

\* A connection that a step does not touch keeps its tokens if the machine
\* stays as it is.
LEMMA TokensFrame ==
  ASSUME NEW d \in Con, Tokens(d), Places(d)' = Places(d),
         UNCHANGED <<ops_in, state, current_connection, outstanding_requests, active_requests, aligned>>
  PROVE  Tokens(d)'
  BY Zenon DEF Tokens, Places, AcquireTokens, GrantTokens, ReleaseTokens, ProbeTokens, Queued,
         QueuedOnce, Serving, Probing, Answering

\* The position of a thread after Goto.
LEMMA PcEffect ==
  ASSUME Types, NEW c \in Con, NEW p, c_pc' = [c_pc EXCEPT ![c] = p], NEW d \in Con
  PROVE  /\ d = c => c_pc'[d] = p
         /\ d # c => c_pc'[d] = c_pc[d]
  BY DEF Types, RequesterTypes

\* The tokens when the application thread does something.
LEMMA TokensApplication ==
  ASSUME TokenInv, NEW c \in Con, Access(c) \/ InsertEntry(c) \/ HandleRelease(c), NEW d \in Con
  PROVE  Tokens(d)'
  <1> USE DEF TokenInv
  <1>1. ASSUME NEW want, AccessLine(c, want) PROVE Tokens(d)'
    <2>1. /\ c_pc[c] \in {"idle", "check"} /\ c_pc' = [c_pc EXCEPT ![c] = "idle"]
          /\ UNCHANGED <<c_out, c_probes, net_up, net_down, machineVars, aligned>>
      BY <1>1 DEF AccessLine, Attempts
    <2>2. CASE d # c
      BY <2>1, <2>2, PcEffect, TokensFrame DEF Places, machineVars
    <2>3. CASE d = c
      BY <2>1, <2>3, PcEffect
         DEF Tokens, AcquireTokens, GrantTokens, ReleaseTokens, ProbeTokens, Queued,
             QueuedOnce, Serving, Probing, Answering, machineVars
    <2> QED
      BY <2>2, <2>3
  <1>2. ASSUME NEW want, AcquireBlock(c, want) PROVE Tokens(d)'
    <2> DEFINE m == [chan |-> "A", op |-> "AcquireBlock", param |-> GrowFor(c_entry[c].perm, want)]
    <2>1. /\ c_pc[c] \in {"idle", "check"} /\ c_pc' = [c_pc EXCEPT ![c] = "wait"] /\ Perform(c, m)
          /\ UNCHANGED <<c_probes, net_up, net_down, machineVars, aligned>>
      BY <1>2 DEF AcquireBlock, Attempts
    <2>2. m \in UpMsg /\ m.op = "AcquireBlock"
      BY MsgTypes DEF GrowFor, Grow
    <2> HIDE DEF m
    <2>3. /\ Appended(c_out[c], c_out'[c], m)
          /\ \A x \in Con : x # c => c_out'[x] = c_out[x]
      BY <2>1, <2>2, PerformEffect, Zenon
    <2>4. CASE d # c
      BY <2>1, <2>3, <2>4, PcEffect, TokensFrame DEF Places, machineVars
    <2>5. CASE d = c
      <3>1. c_pc'[d] = "wait"
        BY <2>1, <2>5, PcEffect
      <3> QED
        BY <2>1, <2>2, <2>3, <2>5, <3>1
           DEF Tokens, AcquireTokens, GrantTokens, ReleaseTokens, ProbeTokens, Queued,
             QueuedOnce, Serving, Probing, Answering, machineVars, Appended,
             Acquires, Releases, GrantAcks, ProbeAcks
    <2> QED
      BY <2>4, <2>5
  <1>3. CASE InsertEntry(c)
    <2>1. /\ c_pc[c] = "insert" /\ c_pc' = [c_pc EXCEPT ![c] = "check"]
          /\ UNCHANGED <<c_out, c_probes, net_up, net_down, machineVars, aligned>>
      BY <1>3 DEF InsertEntry
    <2>2. CASE d # c
      BY <2>1, <2>2, PcEffect, TokensFrame DEF Places, machineVars
    <2>3. CASE d = c
      BY <2>1, <2>3, PcEffect
         DEF Tokens, AcquireTokens, GrantTokens, ReleaseTokens, ProbeTokens, Queued,
             QueuedOnce, Serving, Probing, Answering, machineVars
    <2> QED
      BY <2>2, <2>3
  <1>4. CASE HandleRelease(c)
    <2>1. PICK m \in UpMsg : m.op \in Releases /\ Perform(c, m)
      <3>1. c_entry[c].data \in Version
        BY DEF Types, RequesterTypes
      <3> QED
        BY <1>4, <3>1, MsgTypes DEF HandleRelease, Releases
    <2>2. /\ c_pc[c] = "idle" /\ c_pc' = [c_pc EXCEPT ![c] = "release"]
          /\ UNCHANGED <<c_probes, net_up, net_down, machineVars, aligned>>
      BY <1>4 DEF HandleRelease
    <2>3. /\ Appended(c_out[c], c_out'[c], m)
          /\ \A x \in Con : x # c => c_out'[x] = c_out[x]
      BY <2>1, PerformEffect, Zenon
    <2>4. CASE d # c
      BY <2>2, <2>3, <2>4, PcEffect, TokensFrame DEF Places, machineVars
    <2>5. CASE d = c
      <3>1. c_pc'[d] = "release"
        BY <2>2, <2>5, PcEffect
      <3> QED
        BY <2>1, <2>2, <2>3, <2>5, <3>1
           DEF Tokens, AcquireTokens, GrantTokens, ReleaseTokens, ProbeTokens, Queued,
             QueuedOnce, Serving, Probing, Answering, machineVars, Appended,
             Acquires, Releases, GrantAcks, ProbeAcks
    <2> QED
      BY <2>4, <2>5
  <1> QED
    BY <1>1, <1>2, <1>3, <1>4, Zenon DEF Access

\* The network thread takes a message.
LEMMA ReceiveEffect ==
  ASSUME Types, NEW c \in Con, NEW ch \in {"B", "D"}, net_down[c][ch] # <<>>,
         net_down' = [net_down EXCEPT ![c][ch] = Tail(@)]
  PROVE  /\ Shortened(net_down[c][ch], net_down'[c][ch])
         /\ \A d \in Con, k \in {"B", "D"} :
               d # c \/ k # ch => net_down'[d][k] = net_down[d][k]
  <1>1. /\ net_down'[c][ch] = Tail(net_down[c][ch]) /\ net_down[c][ch] \in Seq(DownMsg)
        /\ \A d \in Con, k \in {"B", "D"} :
              d # c \/ k # ch => net_down'[d][k] = net_down[d][k]
    BY DEF Types, DownTypes
  <1>2. Shortened(net_down[c][ch], net_down'[c][ch])
    BY <1>1, HasTail DEF Shortened
  <1> QED
    BY <1>1, <1>2, Zenon

\* The tokens when a response arrives.
LEMMA TokensReceiveResponse ==
  ASSUME TokenInv, NEW c \in Con, ReceiveResponse(c), NEW d \in Con
  PROVE  Tokens(d)'
  <1> DEFINE h == Head(net_down[c]["D"])
  <1> USE DEF TokenInv
  <1>1. /\ net_down[c]["D"] # <<>>
        /\ net_down' = [net_down EXCEPT ![c]["D"] = Tail(@)]
        /\ UNCHANGED <<c_probes, net_up, machineVars, aligned>>
    BY DEF ReceiveResponse
  <1>2. /\ Shortened(net_down[c]["D"], net_down'[c]["D"])
        /\ \A x \in Con : x # c => net_down'[x]["D"] = net_down[x]["D"]
        /\ \A x \in Con : net_down'[x]["B"] = net_down[x]["B"]
    BY <1>1, ReceiveEffect
  <1>3. CASE h.op \in Grants
    <2>1. PICK p : p \notin {"wait", "release"} /\ c_pc' = [c_pc EXCEPT ![c] = p]
      BY <1>3 DEF ReceiveResponse, Grants
    <2>2. PICK m \in UpMsg : m.op = "GrantAck" /\ Perform(c, m)
      BY <1>3, MsgTypes DEF ReceiveResponse, Grants
    <2>3. /\ Appended(c_out[c], c_out'[c], m)
          /\ \A x \in Con : x # c => c_out'[x] = c_out[x]
      BY <2>2, PerformEffect, Zenon
    <2>4. CASE d # c
      <3>1. c_pc'[d] = c_pc[d]
        BY <2>1, <2>4, PcEffect
      <3> QED
        BY <1>1, <1>2, <2>3, <2>4, <3>1, TokensFrame DEF Places, machineVars
    <2>5. CASE d = c
      <3>1. c_pc'[d] = p
        BY <2>1, <2>5, PcEffect
      <3> QED
        BY <1>1, <1>2, <1>3, <2>1, <2>2, <2>3, <2>5, <3>1
           DEF Tokens, AcquireTokens, GrantTokens, ReleaseTokens, ProbeTokens, Queued,
               QueuedOnce, Serving, Probing, Answering, machineVars, Appended, Shortened,
               Acquires, Releases, GrantAcks, ProbeAcks
    <2> QED
      BY <2>4, <2>5
  <1>4. CASE h.op = "ReleaseAck"
    <2>1. c_pc' = [c_pc EXCEPT ![c] = "idle"] /\ UNCHANGED c_out
      BY <1>4 DEF ReceiveResponse
    <2>2. CASE d # c
      <3>1. c_pc'[d] = c_pc[d]
        BY <2>1, <2>2, PcEffect
      <3> QED
        BY <1>1, <1>2, <2>1, <2>2, <3>1, TokensFrame DEF Places, machineVars
    <2>3. CASE d = c
      <3>1. c_pc'[d] = "idle"
        BY <2>1, <2>3, PcEffect
      <3> QED
        BY <1>1, <1>2, <1>4, <2>1, <2>3, <3>1
           DEF Tokens, AcquireTokens, GrantTokens, ReleaseTokens, ProbeTokens, Queued,
               QueuedOnce, Serving, Probing, Answering, machineVars, Shortened, ReleaseAcks
    <2> QED
      BY <2>2, <2>3
  <1> QED
    BY <1>3, <1>4 DEF ReceiveResponse, Grants

\* The tokens when a probe arrives.
LEMMA TokensReceiveProbe ==
  ASSUME TokenInv, NEW c \in Con, ReceiveProbe(c), NEW d \in Con
  PROVE  Tokens(d)'
  <1> DEFINE h == Head(net_down[c]["B"])
  <1> USE DEF TokenInv
  <1>1. /\ net_down[c]["B"] # <<>>
        /\ net_down' = [net_down EXCEPT ![c]["B"] = Tail(@)]
        /\ UNCHANGED <<c_pc, c_out, net_up, machineVars, aligned>>
        /\ c_probes' = [c_probes EXCEPT ![c] = Append(@, h)]
    BY DEF ReceiveProbe
  <1>2. /\ Shortened(net_down[c]["B"], net_down'[c]["B"])
        /\ \A x \in Con : x # c => net_down'[x]["B"] = net_down[x]["B"]
        /\ \A x \in Con : net_down'[x]["D"] = net_down[x]["D"]
    BY <1>1, ReceiveEffect
  <1>3. h \in ProbeMsg /\ h.op = "ProbeBlock"
    BY <1>1, QueueTypes, HeadTail, MsgFields
  <1>4. /\ c_probes'[c] = Append(c_probes[c], h) /\ c_probes[c] \in Seq(ProbeMsg)
        /\ \A x \in Con : x # c => c_probes'[x] = c_probes[x]
    BY <1>1 DEF Types, RequesterTypes
  <1>5. Appended(c_probes[c], c_probes'[c], h)
    BY <1>3, <1>4, HasAppend DEF Appended
  <1>6. CASE d # c
    BY <1>1, <1>2, <1>4, <1>6, TokensFrame DEF Places, machineVars
  <1>7. CASE d = c
    BY <1>1, <1>2, <1>3, <1>5, <1>7
       DEF Tokens, AcquireTokens, GrantTokens, ReleaseTokens, ProbeTokens, Queued,
           QueuedOnce, Serving, Probing, Answering, machineVars, Shortened, Appended, ProbeBlocks
  <1> QED
    BY <1>6, <1>7

\* The tokens when a probe is answered.
LEMMA TokensProcessProbes ==
  ASSUME TokenInv, NEW c \in Con, ProcessProbes(c), NEW d \in Con
  PROVE  Tokens(d)'
  <1> DEFINE h == Head(c_probes[c])
  <1> USE DEF TokenInv
  <1>1. /\ c_probes[c] # <<>> /\ c_probes' = [c_probes EXCEPT ![c] = Tail(@)]
        /\ UNCHANGED <<c_pc, net_up, net_down, machineVars, aligned>>
    BY DEF ProcessProbes
  <1>2. PICK m \in UpMsg : m.op \in ProbeAcks /\ Perform(c, m)
    <2>1. c_entry[c].data \in Version
      BY DEF Types, RequesterTypes
    <2> QED
      BY <2>1, MsgTypes DEF ProcessProbes, ProbeAcks
  <1>3. /\ Appended(c_out[c], c_out'[c], m)
        /\ \A x \in Con : x # c => c_out'[x] = c_out[x]
    BY <1>2, PerformEffect, Zenon
  <1>4. h.op = "ProbeBlock"
    BY <1>1, QueueTypes, HeadTail, MsgFields
  <1>5. /\ c_probes'[c] = Tail(c_probes[c]) /\ c_probes[c] \in Seq(ProbeMsg)
        /\ \A x \in Con : x # c => c_probes'[x] = c_probes[x]
    BY <1>1 DEF Types, RequesterTypes
  <1>6. Shortened(c_probes[c], c_probes'[c])
    BY <1>1, <1>5, HasTail DEF Shortened
  <1>7. CASE d # c
    BY <1>1, <1>3, <1>5, <1>7, TokensFrame DEF Places, machineVars
  <1>8. CASE d = c
    BY <1>1, <1>2, <1>3, <1>4, <1>6, <1>8
       DEF Tokens, AcquireTokens, GrantTokens, ReleaseTokens, ProbeTokens, Queued,
           QueuedOnce, Serving, Probing, Answering, machineVars, Shortened, Appended, ProbeBlocks,
           Acquires, Releases, GrantAcks, ProbeAcks
  <1> QED
    BY <1>7, <1>8

\* The tokens when a message goes to the network.
LEMMA TokensCheckSend ==
  ASSUME TokenInv, NEW c \in Con, CheckSend(c), NEW d \in Con
  PROVE  Tokens(d)'
  <1> DEFINE m == Head(c_out[c])
  <1> USE DEF TokenInv
  <1>1. /\ c_out[c] # <<>> /\ c_out' = [c_out EXCEPT ![c] = Tail(@)]
        /\ net_up' = [net_up EXCEPT ![c][m.chan] = Append(@, m)]
        /\ UNCHANGED <<c_pc, c_probes, net_down, machineVars, aligned>>
    BY DEF CheckSend
  <1>2. m \in UpMsg /\ m.chan \in {"A", "C", "E"}
    BY <1>1, QueueTypes, HeadTail, MsgFields
  <1>3. /\ c_out'[c] = Tail(c_out[c]) /\ c_out[c] \in Seq(UpMsg)
        /\ \A x \in Con : x # c => c_out'[x] = c_out[x]
    BY <1>1 DEF Types, RequesterTypes
  <1>4. Shortened(c_out[c], c_out'[c])
    BY <1>1, <1>3, HasTail DEF Shortened
  <1> HIDE DEF m
  <1>5. /\ net_up'[c][m.chan] = Append(net_up[c][m.chan], m) /\ net_up[c][m.chan] \in Seq(UpMsg)
        /\ \A x \in Con, k \in {"A", "C", "E"} :
              x # c \/ k # m.chan => net_up'[x][k] = net_up[x][k]
    BY <1>1, <1>2 DEF Types, UpTypes
  <1>6. Appended(net_up[c][m.chan], net_up'[c][m.chan], m)
    BY <1>2, <1>5, HasAppend DEF Appended
  <1>7. CASE d # c
    BY <1>1, <1>3, <1>5, <1>7, TokensFrame DEF Places, machineVars
  <1>8. /\ m.chan = "A" => m.op = "AcquireBlock"
        /\ m.chan = "C" => m.op \in {"ProbeAck", "Release", "ProbeAckData", "ReleaseData"}
        /\ m.chan = "E" => m.op = "GrantAck"
    BY <1>2, MsgFields
  <1>9. CASE d = c
    <2>1. CASE m.chan = "A"
      <3>1. /\ Appended(net_up[c]["A"], net_up'[c]["A"], m)
            /\ net_up'[c]["C"] = net_up[c]["C"] /\ net_up'[c]["E"] = net_up[c]["E"]
        BY <1>5, <1>6, <2>1
      <3> QED
        BY <1>1, <1>4, <1>8, <1>9, <2>1, <3>1, ZenonT(60)
           DEF Tokens, AcquireTokens, GrantTokens, ReleaseTokens, ProbeTokens, Queued,
             QueuedOnce, Serving, Probing, Answering, machineVars, Shortened, Appended,
             Acquires, Releases, GrantAcks, ProbeAcks, m
    <2>2. CASE m.chan = "C"
      <3>1. /\ Appended(net_up[c]["C"], net_up'[c]["C"], m)
            /\ net_up'[c]["A"] = net_up[c]["A"] /\ net_up'[c]["E"] = net_up[c]["E"]
        BY <1>5, <1>6, <2>2
      <3> QED
        BY <1>1, <1>4, <1>8, <1>9, <2>2, <3>1, ZenonT(60)
           DEF Tokens, AcquireTokens, GrantTokens, ReleaseTokens, ProbeTokens, Queued,
             QueuedOnce, Serving, Probing, Answering, machineVars, Shortened, Appended,
             Acquires, Releases, GrantAcks, ProbeAcks, m
    <2>3. CASE m.chan = "E"
      <3>1. /\ Appended(net_up[c]["E"], net_up'[c]["E"], m)
            /\ net_up'[c]["A"] = net_up[c]["A"] /\ net_up'[c]["C"] = net_up[c]["C"]
        BY <1>5, <1>6, <2>3
      <3> QED
        BY <1>1, <1>4, <1>8, <1>9, <2>3, <3>1, ZenonT(60)
           DEF Tokens, AcquireTokens, GrantTokens, ReleaseTokens, ProbeTokens, Queued,
             QueuedOnce, Serving, Probing, Answering, machineVars, Shortened, Appended,
             Acquires, Releases, GrantAcks, ProbeAcks, m
    <2> QED
      BY <1>2, <2>1, <2>2, <2>3
  <1> QED
    BY <1>7, <1>9

\* The tokens when the endpoint takes an acquire in.
LEMMA TokensForwardRequest ==
  ASSUME TokenInv, NEW c \in Con, ForwardRequest(c), NEW d \in Con
  PROVE  Tokens(d)'
  <1> DEFINE r == [con |-> c, param |-> Head(net_up[c]["A"]).param]
  <1> USE DEF TokenInv
  <1>1. /\ net_up[c]["A"] # <<>> /\ Take(c, "A") /\ ops_in' = Append(ops_in, r)
        /\ UNCHANGED <<c_pc, c_out, c_probes, net_down, state, current_connection,
                       outstanding_requests, active_requests, aligned>>
    BY DEF ForwardRequest, reqVars
  <1>2. /\ Shortened(net_up[c]["A"], net_up'[c]["A"])
        /\ \A x \in Con : x # c => net_up'[x]["A"] = net_up[x]["A"]
        /\ \A x \in Con : net_up'[x]["C"] = net_up[x]["C"] /\ net_up'[x]["E"] = net_up[x]["E"]
    BY <1>1, TakeEffect
  <1>3. Head(net_up[c]["A"]) \in AcquireMsg
    BY <1>1, QueueTypes, HeadTail
  <1>4. Head(net_up[c]["A"]).op = "AcquireBlock" /\ r \in [con : Con, param : Grow]
    BY <1>3, MsgFields
  <1>5. /\ Queued(d)' <=> Queued(d) \/ c = d
        /\ QueuedOnce(d) /\ (c = d => ~Queued(d)) => QueuedOnce(d)'
    BY <1>1, <1>4, QueuedAppend
  <1>6. CASE d # c
    BY <1>1, <1>2, <1>5, <1>6
       DEF Tokens, AcquireTokens, GrantTokens, ReleaseTokens, ProbeTokens, Serving, Probing, Answering
  <1>7. CASE d = c
    BY <1>1, <1>2, <1>4, <1>5, <1>7
       DEF Tokens, AcquireTokens, GrantTokens, ReleaseTokens, ProbeTokens, Serving, Probing,
           Answering, Shortened, Acquires
  <1> QED
    BY <1>6, <1>7

\* The tokens when the endpoint takes an answer to a probe.
LEMMA TokensAnswer ==
  ASSUME TokenInv, NEW c \in Con, ProcessResponses(c) \/ DropResponses(c), NEW d \in Con
  PROVE  Tokens(d)'
  <1> USE DEF TokenInv
  <1>1. /\ net_up[c]["C"] # <<>> /\ Take(c, "C") /\ Head(net_up[c]["C"]).op \in ProbeAcks
        /\ active_requests' = active_requests \ {c}
        /\ UNCHANGED <<c_pc, c_out, c_probes, net_down, ops_in, current_connection,
                       outstanding_requests, aligned>>
    BY DEF ProcessResponses, DropResponses, ProbeAnswered, StillActive, reqVars, ProbeAcks
  <1>2. \/ state' = state
        \/ state \in {"PROBE_PERFORM", "PROBE_WAIT"} /\ state' = "RESPOND"
    BY DEF ProcessResponses, DropResponses
  <1>3. /\ Shortened(net_up[c]["C"], net_up'[c]["C"])
        /\ \A x \in Con : x # c => net_up'[x]["C"] = net_up[x]["C"]
        /\ \A x \in Con : net_up'[x]["A"] = net_up[x]["A"] /\ net_up'[x]["E"] = net_up[x]["E"]
    BY <1>1, TakeEffect
  <1>4. AcquireTokens(d)'
    BY <1>1, <1>2, <1>3, Zenon DEF Tokens, AcquireTokens, Queued, QueuedOnce, Serving
  <1>5. GrantTokens(d)'
    BY <1>1, <1>2, <1>3 DEF Tokens, GrantTokens
  <1>6. ReleaseTokens(d)' /\ ProbeTokens(d)'
    <2>1. CASE d # c
      BY <1>1, <1>2, <1>3, <2>1 DEF Tokens, ReleaseTokens, ProbeTokens, Probing, Answering
    <2>2. CASE d = c
      BY <1>1, <1>2, <1>3, <2>2
         DEF Tokens, ReleaseTokens, ProbeTokens, Probing, Answering, Shortened
    <2> QED
      BY <2>1, <2>2
  <1> QED
    BY <1>4, <1>5, <1>6 DEF Tokens

\* The tokens when the machine gets the GrantAck.
LEMMA TokensWaitForAck ==
  ASSUME TokenInv, NEW c \in Con, WaitForAck(c), NEW d \in Con
  PROVE  Tokens(d)'
  <1> USE DEF TokenInv
  <1>1. /\ net_up[c]["E"] # <<>> /\ Take(c, "E") /\ state = "ACK_WAIT" /\ state' = "IDLE"
        /\ active_requests = {}
        /\ UNCHANGED <<c_pc, c_out, c_probes, net_down, ops_in, current_connection,
                       outstanding_requests, active_requests, aligned>>
    BY DEF WaitForAck, ReadyForAck, reqVars
  <1>2. /\ Shortened(net_up[c]["E"], net_up'[c]["E"])
        /\ \A x \in Con : x # c => net_up'[x]["E"] = net_up[x]["E"]
        /\ \A x \in Con : net_up'[x]["A"] = net_up[x]["A"] /\ net_up'[x]["C"] = net_up[x]["C"]
    BY <1>1, TakeEffect
  <1>3. Head(net_up[c]["E"]).op \in GrantAcks
    BY <1>1, QueueTypes, HeadTail, MsgFields DEF GrantAcks
  <1>4. c = current_connection
    BY <1>2, <1>3 DEF Tokens, GrantTokens, Shortened
  <1>5. AcquireTokens(d)'
    BY <1>1, <1>2, Zenon DEF Tokens, AcquireTokens, Queued, QueuedOnce, Serving
  <1>6. GrantTokens(d)'
    <2>1. CASE d # c
      BY <1>1, <1>2, <1>4, <2>1 DEF Tokens, GrantTokens
    <2>2. CASE d = c
      BY <1>1, <1>2, <1>3, <2>2 DEF Tokens, GrantTokens, Shortened
    <2> QED
      BY <2>1, <2>2
  <1>7. ReleaseTokens(d)'
    BY <1>1, <1>2, Zenon DEF Tokens, ReleaseTokens
  <1>8. ProbeTokens(d)'
    BY <1>1, <1>2 DEF Tokens, ProbeTokens, Probing, Answering
  <1> QED
    BY <1>5, <1>6, <1>7, <1>8 DEF Tokens

\* The tokens when the release machine takes a release.
LEMMA TokensReleaseFlits ==
  ASSUME TokenInv, NEW c \in Con, ReleaseFlits(c), NEW d \in Con
  PROVE  Tokens(d)'
  <1> DEFINE m == [op |-> "ReleaseAck"]
  <1> USE DEF TokenInv
  <1>1. /\ net_up[c]["C"] # <<>> /\ Take(c, "C") /\ Head(net_up[c]["C"]).op \in Releases
        /\ Give(c, "D", m)
        /\ UNCHANGED <<c_pc, c_out, c_probes, machineVars, aligned>>
    BY DEF ReleaseFlits, reqVars, Releases
  <1>2. /\ Shortened(net_up[c]["C"], net_up'[c]["C"])
        /\ \A x \in Con : x # c => net_up'[x]["C"] = net_up[x]["C"]
        /\ \A x \in Con : net_up'[x]["A"] = net_up[x]["A"] /\ net_up'[x]["E"] = net_up[x]["E"]
    BY <1>1, TakeEffect
  <1>3. m \in DownMsg /\ m.op = "ReleaseAck"
    BY MsgTypes
  <1> HIDE DEF m
  <1>4. /\ Appended(net_down[c]["D"], net_down'[c]["D"], m)
        /\ \A x \in Con : x # c => net_down'[x]["D"] = net_down[x]["D"]
        /\ \A x \in Con : net_down'[x]["B"] = net_down[x]["B"]
    BY <1>1, <1>3, GiveEffect
  <1>5. CASE d # c
    BY <1>1, <1>2, <1>4, <1>5, TokensFrame DEF Places, machineVars
  <1>6. CASE d = c
    BY <1>1, <1>2, <1>3, <1>4, <1>6
       DEF Tokens, AcquireTokens, GrantTokens, ReleaseTokens, ProbeTokens, Queued,
           QueuedOnce, Serving, Probing, Answering, machineVars, Shortened, Appended,
           Grants, ReleaseAcks
  <1> QED
    BY <1>5, <1>6

\* The tokens when the machine begins with a request.
LEMMA TokensStartProcessing ==
  ASSUME TokenInv, StartProcessing, NEW d \in Con
  PROVE  Tokens(d)'
  <1> USE DEF TokenInv
  <1>1. /\ ops_in # <<>> /\ state = "IDLE" /\ ops_in' = Tail(ops_in)
        /\ current_connection' = Head(ops_in).con
        /\ state' \in {"UNALIGNED", "RESPOND", "PROBE_PERFORM"}
        /\ UNCHANGED <<c_pc, c_out, c_probes, net_up, net_down, aligned>>
    BY DEF StartProcessing, reqVars
  <1>2. /\ Head(ops_in).con = d \/ Queued(d)' => Queued(d)
        /\ QueuedOnce(d) => QueuedOnce(d)'
        /\ QueuedOnce(d) /\ Head(ops_in).con = d => ~Queued(d)'
    BY <1>1, QueuedTail
  <1>3. AcquireTokens(d)'
    BY <1>1, <1>2 DEF Tokens, AcquireTokens, Serving
  <1>4. GrantTokens(d)'
    BY <1>1 DEF Tokens, GrantTokens
  <1>5. ReleaseTokens(d)'
    BY <1>1, Zenon DEF Tokens, ReleaseTokens
  <1>6. ProbeTokens(d)'
    BY <1>1 DEF Tokens, ProbeTokens, Probing, Answering, MachineOK
  <1> QED
    BY <1>3, <1>4, <1>5, <1>6 DEF Tokens

\* The tokens when the machine probes.
LEMMA TokensSendProbes ==
  ASSUME TokenInv, SendProbes \/ ProbesDone, NEW d \in Con
  PROVE  Tokens(d)'
  <1> USE DEF TokenInv
  <1>1. CASE SendProbes
    <2> DEFINE m == [op |-> "ProbeBlock", param |-> ProbeParam]
    <2>1. PICK c \in outstanding_requests :
             c \in Con /\ outstanding_requests' = outstanding_requests \ {c} /\ Give(c, "B", m)
      BY <1>1, ProbedConnection DEF Types
    <2>2. m \in DownMsg /\ m.op = "ProbeBlock"
      BY MsgTypes DEF ProbeParam, Cap
    <2> HIDE DEF m
    <2>3. /\ Appended(net_down[c]["B"], net_down'[c]["B"], m)
          /\ \A x \in Con : x # c => net_down'[x]["B"] = net_down[x]["B"]
          /\ \A x \in Con : net_down'[x]["D"] = net_down[x]["D"]
      BY <2>1, <2>2, GiveEffect
    <2>4. /\ state = "PROBE_PERFORM"
          /\ UNCHANGED <<c_pc, c_out, c_probes, net_up, ops_in, state, current_connection,
                         active_requests, aligned>>
      BY <1>1 DEF SendProbes, reqVars
    <2>5. AcquireTokens(d)'
      BY <2>3, <2>4, Zenon DEF Tokens, AcquireTokens, Queued, QueuedOnce, Serving
    <2>6. GrantTokens(d)' /\ ReleaseTokens(d)'
      BY <2>3, <2>4, Zenon DEF Tokens, GrantTokens, ReleaseTokens
    <2>7. ProbeTokens(d)'
      <3>1. CASE d # c
        BY <2>1, <2>3, <2>4, <3>1 DEF Tokens, ProbeTokens, Probing, Answering
      <3>2. CASE d = c
        BY <2>1, <2>2, <2>3, <2>4, <3>2
           DEF Tokens, ProbeTokens, Probing, Answering, MachineOK, Appended, ProbeBlocks
      <3> QED
        BY <3>1, <3>2
    <2> QED
      BY <2>5, <2>6, <2>7 DEF Tokens
  <1>2. CASE ProbesDone
    <2>1. /\ state = "PROBE_PERFORM" /\ state' = "PROBE_WAIT"
          /\ UNCHANGED <<c_pc, c_out, c_probes, net_up, net_down, ops_in, current_connection,
                         outstanding_requests, active_requests, aligned>>
      BY <1>2 DEF ProbesDone, AllProbesSent, reqVars
    <2> QED
      BY <2>1
         DEF Tokens, AcquireTokens, GrantTokens, ReleaseTokens, ProbeTokens, Queued,
             QueuedOnce, Serving, Probing, Answering
  <1> QED
    BY <1>1, <1>2

\* The tokens when the machine responds.
LEMMA TokensRespond ==
  ASSUME TokenInv, SendResponseMemory \/ SendResponsePeer \/ SendDenyResponse, NEW d \in Con
  PROVE  Tokens(d)'
  <1> USE DEF TokenInv
  <1> DEFINE c == current_connection
  <1>1. /\ state \in {"RESPOND", "UNALIGNED"} /\ state' = "ACK_WAIT"
        /\ UNCHANGED <<c_pc, c_out, c_probes, net_up, ops_in, current_connection,
                       outstanding_requests, active_requests, aligned>>
    BY DEF SendResponseMemory, SendResponsePeer, SendDenyResponse, reqVars
  <1>2. PICK m \in DownMsg : m.op \in Grants /\ Give(c, "D", m)
    <2>1. peer_data \in Version /\ memory \in Version /\ GrantParam \in Cap
      BY DEF Types, MachineTypes, MemoryTypes, GrantParam, Cap
    <2> QED
      BY <2>1, MsgTypes DEF SendResponseMemory, SendResponsePeer, SendDenyResponse, Grants
  <1>3. c \in Con
    BY DEF Types, MachineTypes
  <1>4. /\ Appended(net_down[c]["D"], net_down'[c]["D"], m)
        /\ \A x \in Con : x # c => net_down'[x]["D"] = net_down[x]["D"]
        /\ \A x \in Con : net_down'[x]["B"] = net_down[x]["B"]
    BY <1>2, <1>3, GiveEffect
  <1>5. CASE d # c
    BY <1>1, <1>4, <1>5
       DEF Tokens, AcquireTokens, GrantTokens, ReleaseTokens, ProbeTokens, Queued,
           QueuedOnce, Serving, Probing, Answering
  <1>6. CASE d = c
    <2>1. AcquireTokens(d)'
      BY <1>1, <1>2, <1>4, <1>6
         DEF Tokens, AcquireTokens, GrantTokens, Queued, QueuedOnce, Serving, Appended
    <2>2. GrantTokens(d)'
      BY <1>1, <1>2, <1>4, <1>6 DEF Tokens, GrantTokens, Appended
    <2>3. ReleaseTokens(d)'
      BY <1>1, <1>2, <1>4, <1>6
         DEF Tokens, AcquireTokens, Serving, ReleaseTokens, Appended, Grants, ReleaseAcks
    <2>4. ProbeTokens(d)'
      BY <1>1, <1>4, <1>6 DEF Tokens, ProbeTokens, Probing, Answering
    <2> QED
      BY <2>1, <2>2, <2>3, <2>4 DEF Tokens
  <1> QED
    BY <1>5, <1>6

\* What the machine knows of the connections, step by step.
LEMMA MachineStep == TokenInv /\ [Next]_vars => MachineOK'
  <1> SUFFICES ASSUME TokenInv, [Next]_vars PROVE MachineOK'
    OBVIOUS
  <1> USE DEF TokenInv
  <1>1. ASSUME UNCHANGED <<state, current_connection, current_response, outstanding_requests,
                           active_requests, aligned>>
        PROVE  MachineOK'
    BY <1>1, Zenon DEF MachineOK
  <1>2. ASSUME NEW c \in Con, Requester(c) PROVE MachineOK'
    <2>1. UNCHANGED <<machineVars, aligned>>
      BY <1>2 DEF Requester, Access, AccessLine, AcquireBlock, InsertEntry, HandleRelease,
                  ReceiveResponse, ReceiveProbe, ProcessProbes, WaitForEntry, CheckSend
    <2> QED
      BY <1>1, <2>1 DEF machineVars
  <1>3. ASSUME NEW c \in Con, ForwardRequest(c) \/ ReleaseFlits(c) PROVE MachineOK'
    BY <1>1, <1>3 DEF ForwardRequest, ReleaseFlits, machineVars
  <1>4. ASSUME NEW c \in Con, ProcessResponses(c) \/ DropResponses(c) PROVE MachineOK'
    <2>1. Has(net_up[c]["C"], ProbeAcks)
      <3>1. net_up[c]["C"] # <<>> /\ Head(net_up[c]["C"]).op \in ProbeAcks
        BY <1>4 DEF ProcessResponses, DropResponses, ProbeAnswered, ProbeAcks
      <3>2. net_up[c]["C"] \in Seq(AnswerMsg)
        BY QueueTypes
      <3> QED
        BY <3>1, <3>2, HasTail
    <2>2. c \in active_requests /\ c \notin outstanding_requests
      BY <2>1 DEF Tokens, ProbeTokens, Answering
    <2>3. CASE DropResponses(c)
      BY <2>2, <2>3 DEF DropResponses, MachineOK
    <2>4. CASE ProcessResponses(c)
      BY <2>2, <2>4 DEF ProcessResponses, StillActive, AllProbesSent, MachineOK
    <2> QED
      BY <1>4, <2>3, <2>4
  <1>5. ASSUME NEW c \in Con, WaitForAck(c) PROVE MachineOK'
    BY <1>5 DEF WaitForAck, ReadyForAck, MachineOK
  <1>6. CASE StartProcessing
    BY <1>6 DEF StartProcessing, MachineOK
  <1>7. CASE SendProbes
    <2>1. \E d \in outstanding_requests : outstanding_requests' = outstanding_requests \ {d}
      BY <1>7, ProbedConnection DEF Types
    <2> QED
      BY <1>7, <2>1 DEF SendProbes, MachineOK
  <1>8. CASE ProbesDone
    BY <1>8 DEF ProbesDone, AllProbesSent, MachineOK
  <1>9. CASE SendResponseMemory \/ SendResponsePeer \/ SendDenyResponse
    BY <1>9 DEF SendResponseMemory, SendResponsePeer, SendDenyResponse, MachineOK
  <1>10. CASE CompleteWrite
    BY <1>1, <1>10 DEF CompleteWrite, machineVars
  <1>11. CASE UNCHANGED vars
    BY <1>1, <1>11 DEF vars, machineVars
  <1> QED
    BY <1>2, <1>3, <1>4, <1>5, <1>6, <1>7, <1>8, <1>9, <1>10, <1>11, Zenon
       DEF Next, Channels, Machine

\* Every step keeps the tokens.
LEMMA TokensStep ==
  ASSUME TokenInv, [Next]_vars, NEW d \in Con PROVE Tokens(d)'
  <1>1. Tokens(d)
    BY DEF TokenInv
  <1>2. ASSUME NEW c \in Con, WaitForEntry(c) PROVE Tokens(d)'
    BY <1>1, <1>2, TokensFrame DEF WaitForEntry, Places, machineVars
  <1>3. CASE CompleteWrite \/ UNCHANGED vars
    BY <1>1, <1>3, TokensFrame DEF CompleteWrite, vars, Places, reqVars, machineVars
  <1>4. ASSUME NEW c \in Con, Requester(c) PROVE Tokens(d)'
    BY <1>2, <1>4, TokensApplication, TokensReceiveResponse, TokensReceiveProbe,
       TokensProcessProbes, TokensCheckSend, Zenon DEF Requester
  <1>5. ASSUME NEW c \in Con, Channels(c) PROVE Tokens(d)'
    BY <1>5, TokensForwardRequest, TokensAnswer, TokensWaitForAck, TokensReleaseFlits, Zenon
       DEF Channels
  <1>6. CASE Machine
    BY <1>6, TokensStartProcessing, TokensSendProbes, TokensRespond, Zenon DEF Machine
  <1> QED
    BY <1>3, <1>4, <1>5, <1>6, Zenon DEF Next

\* Init has no tokens.
LEMMA TokensInit == Init => TokenInv
  <1> SUFFICES ASSUME Init PROVE TokenInv
    OBVIOUS
  <1>1. MachineOK
    BY DEF Init, MachineOK
  <1>2. ASSUME NEW c \in Con PROVE Tokens(c)
    <2>1. /\ c_out[c] = <<>> /\ c_probes[c] = <<>> /\ net_up[c]["A"] = <<>>
          /\ net_up[c]["C"] = <<>> /\ net_up[c]["E"] = <<>>
          /\ net_down[c]["B"] = <<>> /\ net_down[c]["D"] = <<>> /\ state = "IDLE"
      BY DEF Init
    <2>2. ~Queued(c) /\ QueuedOnce(c)
      BY DEF Init, Queued, QueuedOnce
    <2> QED
      BY <2>1, <2>2, HasEmpty
         DEF Tokens, AcquireTokens, GrantTokens, ReleaseTokens, ProbeTokens, Serving, Probing, Answering
  <1> QED
    BY <1>1, <1>2, TypeInit DEF TokenInv

\* Every step keeps TokenInv.
LEMMA TokenInvStep == TokenInv /\ [Next]_vars => TokenInv'
  <1> SUFFICES ASSUME TokenInv, [Next]_vars PROVE TokenInv'
    OBVIOUS
  <1>1. Types' /\ MachineOK'
    BY TypeStep, MachineStep DEF TokenInv
  <1>2. \A c \in Con : Tokens(c)'
    BY TokensStep
  <1> QED
    BY <1>1, <1>2, Zenon DEF TokenInv

\* A request, a grant, a release and a probe of a connection are in one place
\* at a time, and the machine knows of each of them, in every state.
THEOREM TokenInvariant == Spec => []TokenInv
  BY TokenInvStep, TokensInit, PTL DEF Spec

\* A probe or an answer is under way only while the machine counts on it:
\* forward_chan_c_request always finds a machine for an answer.
THEOREM AnswersAwaited == Spec => []AnswerAwaited
  <1>1. TokenInv => AnswerAwaited
    <2> SUFFICES ASSUME TokenInv, NEW c \in Con,
                        net_down[c]["B"] # <<>> \/ c_probes[c] # <<>> \/ ProbeAnswered(c)
                 PROVE  c \in active_requests /\ state \notin {"IDLE", "UNALIGNED"}
      BY DEF AnswerAwaited
    <2>1. Types
      BY DEF TokenInv
    <2>2. net_down[c]["B"] # <<>> => Has(net_down[c]["B"], ProbeBlocks)
      <3>1. net_down[c]["B"] \in Seq(ProbeMsg)
        BY <2>1, QueueTypes
      <3> QED
        BY <3>1, HeadTail, HasTail, MsgFields DEF ProbeBlocks
    <2>3. c_probes[c] # <<>> => Has(c_probes[c], ProbeBlocks)
      <3>1. c_probes[c] \in Seq(ProbeMsg)
        BY <2>1, QueueTypes
      <3> QED
        BY <3>1, HeadTail, HasTail, MsgFields DEF ProbeBlocks
    <2>4. ProbeAnswered(c) => Has(net_up[c]["C"], ProbeAcks)
      <3>1. net_up[c]["C"] \in Seq(AnswerMsg)
        BY <2>1, QueueTypes
      <3> QED
        BY <3>1, HasTail DEF ProbeAnswered, ProbeAcks
    <2> QED
      BY <2>2, <2>3, <2>4 DEF TokenInv, Tokens, ProbeTokens, Probing, Answering
  <1> QED
    BY <1>1, TokenInvariant, PTL

=============================================================================
