-------------------- MODULE OmnixtendCoherence_values_proofs --------------------
(***************************************************************************)
(* The line has one writer and a copy of it is never old, for every number *)
(* of connections, provided that Prompt holds: without it the run          *)
(* coherence_race has a counterexample.                                    *)
(***************************************************************************)
EXTENDS OmnixtendCoherence_proofs

\* The messages of the kinds K in s ask for one of P, or carry v.
ParamOf(s, K, P) == \A i \in DOMAIN s : s[i].op \in K => s[i].param \in P
DataOf(s, K, v) == \A i \in DOMAIN s : s[i].op \in K => s[i].data = v

\* What an acquire for c asks for.
Wanted(c) == IF c_want[c] = "ToB" THEN {"NtoB"} ELSE {"NtoT", "BtoT"}

\* An acquire asks for what the application needs, wherever it is; a probe
\* takes what the current request calls for.
Asked(c) ==
    /\ ParamOf(c_out[c], Acquires, Wanted(c)) /\ ParamOf(net_up[c]["A"], Acquires, Wanted(c))
    /\ \A i \in DOMAIN ops_in : ops_in[i].con = c => ops_in[i].param \in Wanted(c)
    /\ Serving(c) => current_param \in Wanted(c)
    /\ ParamOf(net_down[c]["B"], ProbeBlocks, {ProbeParam})
    /\ ParamOf(c_probes[c], ProbeBlocks, {ProbeParam})

\* The permission c has, or will have when it inserts what it was granted.
Granted(c) == c_pc[c] = "insert" \/ Has(net_down[c]["D"], {"GrantData"})
May(c, p) == c_entry[c].perm = p \/ (Granted(c) /\ c_want[c] = p)

\* Only a line that may be written is modified, a thread waits only for a
\* permission it lacks, and nobody gets a line that is not aligned.
EntryOK(c) ==
    /\ c_entry[c].modified => c_entry[c].perm = "ToT"
    /\ c_pc[c] \in {"wait", "insert"} => c_entry[c].perm # "ToT" /\ c_entry[c].perm # c_want[c]
    /\ ~aligned => c_entry[c].perm = "ToN" /\ ~Granted(c)

\* SingleWriter, of granted permissions too.
Exclusive ==
    \A c, d \in Con : c # d /\ May(c, "ToT") => ~May(d, "ToT") /\ ~May(d, "ToB")

\* c has what the current request leaves it.
Capped(c) == ~May(c, "ToT") /\ (current_param # "NtoB" => ~May(c, "ToB"))

\* An answer with data is under way.
DataToken(c) == Has(c_out[c], {"ProbeAckData"}) \/ Has(net_up[c]["C"], {"ProbeAckData"})

\* While a request is served, every other connection has what the request
\* leaves it or will be probed; an answer with data comes from the only writer
\* and says that no probe is needed any more.
Unprobed(c) ==
    /\ state \in {"PROBE_PERFORM", "PROBE_WAIT"}
    /\ c \in outstanding_requests \/ Probing(c)
    /\ \A d \in Con : ~DataToken(d)
Capping(c) ==
    state # "IDLE" /\ aligned /\ c # current_connection => Capped(c) \/ Unprobed(c)

PermInv ==
    TokenInv /\ Exclusive /\ \A c \in Con : Asked(c) /\ EntryOK(c) /\ Capping(c)

\* The value of the memory when the writes issued to it are done.
Final == IF mem_writes = <<>> THEN memory ELSE mem_writes[Len(mem_writes)]

\* Every copy, grant and answer carries the newest version.
Carries == {"ProbeAckData", "ReleaseData"}
Newest(c) ==
    /\ c_entry[c].perm # "ToN" => c_entry[c].data = latest
    /\ c_pc[c] = "insert" => c_grant[c] = latest
    /\ DataOf(net_down[c]["D"], {"GrantData"}, latest)
    /\ DataOf(c_out[c], Carries, latest) /\ DataOf(net_up[c]["C"], Carries, latest)

\* A modified line is released with its data, which the memory has when the
\* release is acknowledged.
Released(c) ==
    /\ c_entry[c].modified => ~Has(c_out[c], {"Release"}) /\ ~Has(net_up[c]["C"], {"Release"})
    /\ Has(c_out[c], {"ReleaseData"}) \/ Has(net_up[c]["C"], {"ReleaseData"})
          => c_entry[c].modified
    /\ c_entry[c].modified /\ Has(net_down[c]["D"], ReleaseAcks) => Final = latest

\* Somebody has the newest version: the memory, an owner, or the machine.
FromPeer == state = "RESPOND" /\ current_response = "Peer"
Backed ==
    \/ Final = latest \/ FromPeer
    \/ \E c \in Con : c_entry[c].modified \/ DataToken(c)

DataInv ==
    /\ PermInv /\ Backed
    /\ \A c \in Con : Newest(c) /\ Released(c)
    /\ \A c, d \in Con : DataToken(c) /\ DataToken(d) => c = d
    /\ \A c \in Con : state \in {"RESPOND", "ACK_WAIT"} => ~DataToken(c)
    /\ FromPeer => peer_data = latest

-----------------------------------------------------------------------------
(* Queues *)

\* A message joins or leaves a queue whose messages ask for P and carry v.
LEMMA FieldsAppend ==
  ASSUME NEW S, NEW s \in Seq(S), NEW m \in S, NEW K
  PROVE  /\ \A P : ParamOf(s, K, P) /\ (m.op \in K => m.param \in P) => ParamOf(Append(s, m), K, P)
         /\ \A v : DataOf(s, K, v) /\ (m.op \in K => m.data = v) => DataOf(Append(s, m), K, v)
  <1>1. /\ DOMAIN s = 1 .. Len(s) /\ DOMAIN Append(s, m) = 1 .. Len(s) + 1
        /\ \A i \in DOMAIN Append(s, m) :
              \/ i \in DOMAIN s /\ Append(s, m)[i] = s[i]
              \/ Append(s, m)[i] = m
    OBVIOUS
  <1> QED
    BY <1>1, Zenon DEF ParamOf, DataOf

\* The fields of a queue whose head is taken.
LEMMA FieldsTail ==
  ASSUME NEW S, NEW s \in Seq(S), s # <<>>, NEW K
  PROVE  /\ \A P : ParamOf(s, K, P) => /\ ParamOf(Tail(s), K, P)
                                       /\ Head(s).op \in K => Head(s).param \in P
         /\ \A v : DataOf(s, K, v) => /\ DataOf(Tail(s), K, v)
                                      /\ Head(s).op \in K => Head(s).data = v
  <1>1. /\ Head(s) = s[1] /\ 1 \in DOMAIN s
        /\ \A i \in DOMAIN Tail(s) : i + 1 \in DOMAIN s /\ Tail(s)[i] = s[i + 1]
    BY TailIndex
  <1> QED
    BY <1>1, Zenon DEF ParamOf, DataOf

\* A queue without such messages.
LEMMA FieldsNone ==
  ASSUME NEW s, NEW K, ~Has(s, K)
  PROVE  (\A P : ParamOf(s, K, P)) /\ (\A v : DataOf(s, K, v))
  BY Zenon DEF Has, ParamOf, DataOf

\* What is not there of some kinds is not there of one of them.
LEMMA HasSubset ==
  ASSUME NEW s, NEW K, NEW L, K \subseteq L, Has(s, K) PROVE Has(s, L)
  BY Zenon DEF Has

\* How the fields of a queue s and its successor t relate when m is appended,
\* or the head is taken.
Joined(s, t, m) ==
    /\ \A K, P : ParamOf(s, K, P) /\ (m.op \in K => m.param \in P) => ParamOf(t, K, P)
    /\ \A K, v : DataOf(s, K, v) /\ (m.op \in K => m.data = v) => DataOf(t, K, v)
Left(s, t) ==
    /\ \A K, P : ParamOf(s, K, P) => ParamOf(t, K, P)
    /\ \A K, P : ParamOf(s, K, P) /\ Head(s).op \in K => Head(s).param \in P
    /\ \A K, v : DataOf(s, K, v) => DataOf(t, K, v)
    /\ \A K, v : DataOf(s, K, v) /\ Head(s).op \in K => Head(s).data = v

\* Appending a message to a queue joins its fields to it.
LEMMA JoinedAppend ==
  ASSUME NEW S, NEW s \in Seq(S), NEW m \in S PROVE Joined(s, Append(s, m), m)
  BY FieldsAppend DEF Joined

\* Taking the head of a queue leaves the fields of the others.
LEMMA LeftTail ==
  ASSUME NEW S, NEW s \in Seq(S), s # <<>> PROVE Left(s, Tail(s))
  BY FieldsTail DEF Left

\* The fields of the operations a requester is about to send.
LEMMA PerformFields ==
  ASSUME Types, NEW c \in Con, NEW m \in UpMsg, Perform(c, m)
  PROVE  Joined(c_out[c], c_out'[c], m)
  <1>1. c_out'[c] = Append(c_out[c], m) /\ c_out[c] \in Seq(UpMsg)
    BY DEF Types, RequesterTypes, Perform
  <1> QED
    BY <1>1, JoinedAppend, Zenon

\* The fields of a channel that the endpoint takes a message from.
LEMMA TakeFields ==
  ASSUME Types, NEW c \in Con, NEW ch \in {"A", "C", "E"}, Take(c, ch), net_up[c][ch] # <<>>
  PROVE  Left(net_up[c][ch], net_up'[c][ch])
  <1>1. net_up'[c][ch] = Tail(net_up[c][ch]) /\ net_up[c][ch] \in Seq(UpMsg)
    BY DEF Types, UpTypes, Take
  <1> QED
    BY <1>1, LeftTail

\* The fields of a channel that the endpoint sends a message on.
LEMMA GiveFields ==
  ASSUME Types, NEW c \in Con, NEW ch \in {"B", "D"}, NEW m \in DownMsg, Give(c, ch, m)
  PROVE  Joined(net_down[c][ch], net_down'[c][ch], m)
  <1>1. net_down'[c][ch] = Append(net_down[c][ch], m) /\ net_down[c][ch] \in Seq(DownMsg)
    BY DEF Types, DownTypes, Give
  <1> QED
    BY <1>1, JoinedAppend

\* The fields of a channel that the requester receives a message from.
LEMMA ReceiveFields ==
  ASSUME Types, NEW c \in Con, NEW ch \in {"B", "D"}, net_down[c][ch] # <<>>,
         net_down' = [net_down EXCEPT ![c][ch] = Tail(@)]
  PROVE  Left(net_down[c][ch], net_down'[c][ch])
  <1>1. net_down'[c][ch] = Tail(net_down[c][ch]) /\ net_down[c][ch] \in Seq(DownMsg)
    BY DEF Types, DownTypes
  <1> QED
    BY <1>1, LeftTail

\* The queues that CheckSend changes.
LEMMA CheckSendFields ==
  ASSUME Types, NEW c \in Con, CheckSend(c)
  PROVE  LET m == Head(c_out[c]) IN
         /\ m \in UpMsg /\ m.chan \in {"A", "C", "E"}
         /\ m.chan = "A" => m.op = "AcquireBlock"
         /\ m.chan = "C" => m.op \in {"ProbeAck", "Release", "ProbeAckData", "ReleaseData"}
         /\ m.chan = "E" => m.op = "GrantAck"
         /\ Shortened(c_out[c], c_out'[c]) /\ Left(c_out[c], c_out'[c])
         /\ Has(c_out[c], {"ProbeAckData"}) /\ m.op # "ProbeAckData"
               => Has(c_out'[c], {"ProbeAckData"})
         /\ Appended(net_up[c][m.chan], net_up'[c][m.chan], m)
         /\ Joined(net_up[c][m.chan], net_up'[c][m.chan], m)
         /\ \A x \in Con : x # c => c_out'[x] = c_out[x]
         /\ \A x \in Con, k \in {"A", "C", "E"} :
               x # c \/ k # m.chan => net_up'[x][k] = net_up[x][k]
  <1> DEFINE m == Head(c_out[c])
  <1>1. /\ c_out[c] # <<>> /\ c_out' = [c_out EXCEPT ![c] = Tail(@)]
        /\ net_up' = [net_up EXCEPT ![c][m.chan] = Append(@, m)]
    BY DEF CheckSend
  <1>2. m \in UpMsg /\ m.chan \in {"A", "C", "E"}
    BY <1>1, QueueTypes, HeadTail, MsgFields
  <1>3. /\ c_out'[c] = Tail(c_out[c]) /\ c_out[c] \in Seq(UpMsg)
        /\ \A x \in Con : x # c => c_out'[x] = c_out[x]
    BY <1>1 DEF Types, RequesterTypes
  <1>4. Shortened(c_out[c], c_out'[c]) /\ Left(c_out[c], c_out'[c])
    BY <1>1, <1>3, HasTail, LeftTail DEF Shortened
  <1>5. Has(c_out[c], {"ProbeAckData"}) /\ m.op # "ProbeAckData" => Has(c_out'[c], {"ProbeAckData"})
    BY <1>1, <1>3, HasTail
  <1> HIDE DEF m
  <1>6. /\ net_up'[c][m.chan] = Append(net_up[c][m.chan], m) /\ net_up[c][m.chan] \in Seq(UpMsg)
        /\ \A x \in Con, k \in {"A", "C", "E"} :
              x # c \/ k # m.chan => net_up'[x][k] = net_up[x][k]
    BY <1>1, <1>2 DEF Types, UpTypes
  <1>7. Appended(net_up[c][m.chan], net_up'[c][m.chan], m)
    BY <1>2, <1>6, HasAppend DEF Appended
  <1>8. Joined(net_up[c][m.chan], net_up'[c][m.chan], m)
    BY <1>2, <1>6, JoinedAppend
  <1>9. /\ m.chan = "A" => m.op = "AcquireBlock"
        /\ m.chan = "C" => m.op \in {"ProbeAck", "Release", "ProbeAckData", "ReleaseData"}
        /\ m.chan = "E" => m.op = "GrantAck"
    BY <1>2, MsgFields
  <1> QED
    BY <1>2, <1>3, <1>4, <1>5, <1>6, <1>7, <1>8, <1>9, Zenon DEF m

-----------------------------------------------------------------------------
(* What acquires and probes ask for *)

\* The application thread.
LEMMA AskedApplication ==
  ASSUME PermInv, NEW c \in Con, Access(c) \/ InsertEntry(c) \/ HandleRelease(c), NEW d \in Con
  PROVE  Asked(d)'
  <1> USE DEF PermInv, TokenInv
  <1>1. ASSUME NEW want \in {"ToB", "ToT"}, AccessLine(c, want) PROVE Asked(d)'
    BY <1>1, Zenon DEF AccessLine, Asked, Wanted, ProbeParam, machineVars, Serving
  <1>2. ASSUME NEW want \in {"ToB", "ToT"}, AcquireBlock(c, want) PROVE Asked(d)'
    <2> DEFINE m == [chan |-> "A", op |-> "AcquireBlock", param |-> GrowFor(c_entry[c].perm, want)]
    <2>1. /\ c_pc[c] \in {"idle", "check"} /\ Perform(c, m)
          /\ c_want' = [c_want EXCEPT ![c] = want]
          /\ c_entry[c].perm # "ToT" /\ c_entry[c].perm # want
          /\ UNCHANGED <<c_probes, net_up, net_down, machineVars>>
      BY <1>2 DEF AcquireBlock, Attempts, Suffices
    <2>2. c_want'[c] = want /\ \A x \in Con : x # c => c_want'[x] = c_want[x]
      BY <2>1 DEF Types, RequesterTypes
    <2>3. m \in UpMsg /\ m.op = "AcquireBlock" /\ m.param = GrowFor(c_entry[c].perm, want)
      BY MsgTypes DEF GrowFor, Grow
    <2>4. GrowFor(c_entry[c].perm, want) \in Wanted(c)'
      BY <2>1, <2>2 DEF GrowFor, Wanted, Types, RequesterTypes, Cap
    <2> HIDE DEF m
    <2>5. /\ Joined(c_out[c], c_out'[c], m)
          /\ \A x \in Con : x # c => c_out'[x] = c_out[x]
      BY <2>1, <2>3, PerformEffect, PerformFields
    <2>6. CASE d # c
      BY <2>1, <2>2, <2>5, <2>6, Zenon DEF Asked, Wanted, ProbeParam, machineVars, Serving
    <2>7. CASE d = c
      <3>1. /\ ~Has(c_out[c], Acquires) /\ ~Has(net_up[c]["A"], Acquires) /\ ~Queued(c) /\ ~Serving(c)
        BY <2>1 DEF Tokens, AcquireTokens
      <3>2. /\ ParamOf(c_out[c], Acquires, Wanted(c)') /\ ParamOf(net_up[c]["A"], Acquires, Wanted(c)')
        BY <3>1, FieldsNone, Zenon
      <3>3. ParamOf(c_out'[c], Acquires, Wanted(c)')
        BY <2>3, <2>4, <2>5, <3>2 DEF Joined, Acquires
      <3> QED
        BY <2>1, <2>7, <3>1, <3>2, <3>3, Zenon DEF Asked, ProbeParam, machineVars, Serving, Queued
    <2> QED
      BY <2>6, <2>7
  <1>3. CASE InsertEntry(c)
    BY <1>3, Zenon DEF InsertEntry, Asked, Wanted, ProbeParam, machineVars, Serving
  <1>4. CASE HandleRelease(c)
    <2>1. PICK m \in UpMsg : m.op \in Releases /\ Perform(c, m)
      <3>1. c_entry[c].data \in Version
        BY DEF Types, RequesterTypes
      <3> QED
        BY <1>4, <3>1, MsgTypes DEF HandleRelease, Releases
    <2>2. /\ Joined(c_out[c], c_out'[c], m)
          /\ \A x \in Con : x # c => c_out'[x] = c_out[x]
      BY <2>1, PerformEffect, PerformFields
    <2>3. m.op \notin Acquires
      BY <2>1 DEF Acquires, Releases
    <2>4. ParamOf(c_out[c], Acquires, Wanted(c)) => ParamOf(c_out'[c], Acquires, Wanted(c))
      BY <2>2, <2>3, Zenon DEF Joined
    <2>5. UNCHANGED <<c_want, c_probes, net_up, net_down, machineVars>>
      BY <1>4 DEF HandleRelease
    <2>6. CASE d # c
      BY <2>2, <2>5, <2>6, Zenon DEF Asked, Wanted, ProbeParam, machineVars, Serving
    <2>7. CASE d = c
      BY <2>4, <2>5, <2>7, Zenon DEF Asked, Wanted, ProbeParam, machineVars, Serving
    <2> QED
      BY <2>6, <2>7
  <1> QED
    BY <1>1, <1>2, <1>3, <1>4, Zenon DEF Access

\* The network thread.
LEMMA AskedNetwork ==
  ASSUME PermInv, NEW c \in Con, NEW d \in Con,
         ReceiveResponse(c) \/ ReceiveProbe(c) \/ ProcessProbes(c) \/ WaitForEntry(c) \/ CheckSend(c)
  PROVE  Asked(d)'
  <1> USE DEF PermInv, TokenInv
  <1>1. CASE ReceiveResponse(c)
    <2>1. /\ net_down[c]["D"] # <<>> /\ net_down' = [net_down EXCEPT ![c]["D"] = Tail(@)]
          /\ UNCHANGED <<c_want, c_probes, net_up, machineVars>>
      BY <1>1 DEF ReceiveResponse
    <2>2. \A x \in Con : net_down'[x]["B"] = net_down[x]["B"]
      BY <2>1, ReceiveEffect
    <2>3. \/ UNCHANGED c_out
          \/ \E m \in UpMsg : m.op = "GrantAck" /\ Perform(c, m)
      BY <1>1, MsgTypes DEF ReceiveResponse
    <2>4. \A x \in Con : ParamOf(c_out[x], Acquires, Wanted(x)) => ParamOf(c_out'[x], Acquires, Wanted(x))
      <3>1. CASE UNCHANGED c_out
        BY <3>1
      <3>2. CASE \E m \in UpMsg : m.op = "GrantAck" /\ Perform(c, m)
        <4>1. PICK m \in UpMsg : m.op = "GrantAck" /\ Perform(c, m)
          BY <3>2
        <4>2. /\ Joined(c_out[c], c_out'[c], m)
              /\ \A x \in Con : x # c => c_out'[x] = c_out[x]
          BY <4>1, PerformEffect, PerformFields
        <4>3. m.op \notin Acquires
          BY <4>1 DEF Acquires
        <4> QED
          BY <4>2, <4>3, Zenon DEF Joined
      <3> QED
        BY <2>3, <3>1, <3>2
    <2> QED
      BY <2>1, <2>2, <2>4, Zenon DEF Asked, Wanted, ProbeParam, machineVars, Serving
  <1>2. CASE ReceiveProbe(c)
    <2> DEFINE h == Head(net_down[c]["B"])
    <2>1. /\ net_down[c]["B"] # <<>>
          /\ net_down' = [net_down EXCEPT ![c]["B"] = Tail(@)]
          /\ UNCHANGED <<c_want, c_out, net_up, machineVars>>
          /\ c_probes' = [c_probes EXCEPT ![c] = Append(@, h)]
      BY <1>2 DEF ReceiveProbe
    <2>2. /\ Left(net_down[c]["B"], net_down'[c]["B"])
          /\ \A x \in Con : x # c => net_down'[x]["B"] = net_down[x]["B"]
      BY <2>1, ReceiveEffect, ReceiveFields
    <2>3. h \in ProbeMsg
      BY <2>1, QueueTypes, HeadTail
    <2>4. /\ c_probes'[c] = Append(c_probes[c], h) /\ c_probes[c] \in Seq(ProbeMsg)
          /\ \A x \in Con : x # c => c_probes'[x] = c_probes[x]
      BY <2>1 DEF Types, RequesterTypes
    <2>5. Joined(c_probes[c], c_probes'[c], h)
      BY <2>3, <2>4, JoinedAppend
    <2>6. CASE d # c
      BY <2>1, <2>2, <2>4, <2>6, Zenon DEF Asked, Wanted, ProbeParam, machineVars, Serving
    <2>7. CASE d = c
      <3>1. ParamOf(net_down'[c]["B"], ProbeBlocks, {ProbeParam})
        BY <2>2, <2>7, Zenon DEF Asked, Left
      <3>2. h.op \in ProbeBlocks => h.param \in {ProbeParam}
        BY <2>2, <2>7, Zenon DEF Asked, Left
      <3>3. ParamOf(c_probes'[c], ProbeBlocks, {ProbeParam})
        BY <2>5, <2>7, <3>2, Zenon DEF Asked, Joined
      <3> QED
        BY <2>1, <2>7, <3>1, <3>3, Zenon DEF Asked, Wanted, ProbeParam, machineVars, Serving
    <2> QED
      BY <2>6, <2>7
  <1>3. CASE ProcessProbes(c)
    <2>1. /\ c_probes[c] # <<>> /\ c_probes' = [c_probes EXCEPT ![c] = Tail(@)]
          /\ UNCHANGED <<c_want, net_up, net_down, machineVars>>
      BY <1>3 DEF ProcessProbes
    <2>2. PICK m \in UpMsg : m.op \in ProbeAcks /\ Perform(c, m)
      <3>1. c_entry[c].data \in Version
        BY DEF Types, RequesterTypes
      <3> QED
        BY <1>3, <3>1, MsgTypes DEF ProcessProbes, ProbeAcks
    <2>3. /\ Joined(c_out[c], c_out'[c], m)
          /\ \A x \in Con : x # c => c_out'[x] = c_out[x]
      BY <2>2, PerformEffect, PerformFields
    <2>4. m.op \notin Acquires
      BY <2>2 DEF Acquires, ProbeAcks
    <2>5. /\ c_probes'[c] = Tail(c_probes[c]) /\ c_probes[c] \in Seq(ProbeMsg)
          /\ \A x \in Con : x # c => c_probes'[x] = c_probes[x]
      BY <2>1 DEF Types, RequesterTypes
    <2>6. Left(c_probes[c], c_probes'[c])
      BY <2>1, <2>5, LeftTail
    <2>7. CASE d # c
      BY <2>1, <2>3, <2>5, <2>7, Zenon DEF Asked, Wanted, ProbeParam, machineVars, Serving
    <2>8. CASE d = c
      <3>1. ParamOf(c_out'[c], Acquires, Wanted(c)) /\ ParamOf(c_probes'[c], ProbeBlocks, {ProbeParam})
        BY <2>3, <2>4, <2>6, <2>8, Zenon DEF Asked, Left, Joined
      <3> QED
        BY <2>1, <2>8, <3>1, Zenon DEF Asked, Wanted, ProbeParam, machineVars, Serving
    <2> QED
      BY <2>7, <2>8
  <1>4. CASE WaitForEntry(c)
    BY <1>4, Zenon DEF WaitForEntry, Asked, Wanted, ProbeParam, machineVars, Serving
  <1>5. CASE CheckSend(c)
    <2> DEFINE m == Head(c_out[c])
    <2>1. UNCHANGED <<c_want, c_probes, net_down, machineVars>>
      BY <1>5 DEF CheckSend
    <2>2. /\ m.chan \in {"A", "C", "E"}
          /\ Left(c_out[c], c_out'[c]) /\ Joined(net_up[c][m.chan], net_up'[c][m.chan], m)
          /\ \A x \in Con : x # c => c_out'[x] = c_out[x]
          /\ \A x \in Con, k \in {"A", "C", "E"} :
                x # c \/ k # m.chan => net_up'[x][k] = net_up[x][k]
      BY <1>5, CheckSendFields, Zenon
    <2> HIDE DEF m
    <2>3. CASE d # c
      <3>1. net_up'[d]["A"] = net_up[d]["A"] /\ c_out'[d] = c_out[d]
        BY <2>2, <2>3
      <3> QED
        BY <2>1, <3>1, Zenon DEF Asked, Wanted, ProbeParam, machineVars, Serving
    <2>4. CASE d = c
      <3>1. ParamOf(c_out'[c], Acquires, Wanted(c))
        BY <2>2, <2>4, Zenon DEF Asked, Left
      <3>2. m.op \in Acquires => m.param \in Wanted(c)
        BY <2>2, <2>4, Zenon DEF Asked, Left, m
      <3>3. CASE m.chan = "A"
        <4>1. ParamOf(net_up'[c]["A"], Acquires, Wanted(c))
          BY <2>2, <2>4, <3>2, <3>3, Zenon DEF Asked, Joined
        <4> QED
          BY <2>1, <2>4, <3>1, <4>1, Zenon DEF Asked, Wanted, ProbeParam, machineVars, Serving
      <3>4. CASE m.chan # "A"
        <4>1. net_up'[c]["A"] = net_up[c]["A"]
          BY <2>2, <3>4
        <4> QED
          BY <2>1, <2>4, <3>1, <4>1, Zenon DEF Asked, Wanted, ProbeParam, machineVars, Serving
      <3> QED
        BY <3>3, <3>4
    <2> QED
      BY <2>3, <2>4
  <1> QED
    BY <1>1, <1>2, <1>3, <1>4, <1>5

\* The endpoint takes a message.
LEMMA AskedChannels ==
  ASSUME PermInv, NEW c \in Con, NEW d \in Con, Channels(c)
  PROVE  Asked(d)'
  <1> USE DEF PermInv, TokenInv
  <1>1. CASE ForwardRequest(c)
    <2> DEFINE h == Head(net_up[c]["A"])
               r == [con |-> c, param |-> h.param]
    <2>1. /\ net_up[c]["A"] # <<>> /\ Take(c, "A") /\ ops_in' = Append(ops_in, r)
          /\ UNCHANGED <<c_want, c_out, c_probes, net_down, state, current_connection, current_param>>
      BY <1>1 DEF ForwardRequest, reqVars
    <2>2. /\ Left(net_up[c]["A"], net_up'[c]["A"])
          /\ \A x \in Con : x # c => net_up'[x]["A"] = net_up[x]["A"]
      BY <2>1, TakeEffect, TakeFields
    <2>3. h.op \in Acquires /\ r \in [con : Con, param : Grow]
      BY <2>1, QueueTypes, HeadTail, MsgFields DEF Acquires
    <2>4. \A i \in DOMAIN ops_in' :
             (i \in DOMAIN ops_in /\ ops_in'[i] = ops_in[i]) \/ ops_in'[i] = r
      BY <2>1, <2>3 DEF Types, MachineTypes
    <2>5. CASE d # c
      <3>1. \A i \in DOMAIN ops_in' : ops_in'[i].con = d => ops_in'[i].param \in Wanted(d)
        BY <2>4, <2>5 DEF Asked
      <3> QED
        BY <2>1, <2>2, <2>5, <3>1, Zenon DEF Asked, Wanted, ProbeParam, Serving
    <2>6. CASE d = c
      <3>1. ParamOf(net_up'[c]["A"], Acquires, Wanted(c)) /\ h.param \in Wanted(c)
        BY <2>2, <2>3, <2>6, Zenon DEF Asked, Left
      <3>2. \A i \in DOMAIN ops_in' : ops_in'[i].con = d => ops_in'[i].param \in Wanted(d)
        BY <2>4, <2>6, <3>1 DEF Asked
      <3> QED
        BY <2>1, <2>6, <3>1, <3>2, Zenon DEF Asked, Wanted, ProbeParam, Serving
    <2> QED
      BY <2>5, <2>6
  <1>2. CASE ProcessResponses(c) \/ DropResponses(c)
    <2>1. /\ net_up[c]["C"] # <<>> /\ Take(c, "C")
          /\ UNCHANGED <<c_want, c_out, c_probes, net_down, ops_in, current_connection, current_param>>
      BY <1>2 DEF ProcessResponses, DropResponses, ProbeAnswered, reqVars
    <2>2. Serving(d)' => Serving(d)
      BY <1>2 DEF ProcessResponses, DropResponses, Serving
    <2>3. \A x \in Con : net_up'[x]["A"] = net_up[x]["A"]
      BY <2>1, TakeEffect
    <2> QED
      BY <2>1, <2>2, <2>3, Zenon DEF Asked, Wanted, ProbeParam
  <1>3. CASE WaitForAck(c)
    <2>1. /\ net_up[c]["E"] # <<>> /\ Take(c, "E")
          /\ UNCHANGED <<c_want, c_out, c_probes, net_down, ops_in, current_connection, current_param>>
      BY <1>3 DEF WaitForAck, reqVars
    <2>2. ~Serving(d)'
      BY <1>3 DEF WaitForAck, Serving
    <2>3. \A x \in Con : net_up'[x]["A"] = net_up[x]["A"]
      BY <2>1, TakeEffect
    <2> QED
      BY <2>1, <2>2, <2>3, Zenon DEF Asked, Wanted, ProbeParam
  <1>4. CASE ReleaseFlits(c)
    <2>1. /\ net_up[c]["C"] # <<>> /\ Take(c, "C") /\ Give(c, "D", [op |-> "ReleaseAck"])
          /\ UNCHANGED <<c_want, c_out, c_probes, machineVars>>
      BY <1>4 DEF ReleaseFlits, reqVars
    <2>2. \A x \in Con : net_up'[x]["A"] = net_up[x]["A"]
      BY <2>1, TakeEffect
    <2>3. \A x \in Con : net_down'[x]["B"] = net_down[x]["B"]
      BY <2>1, GiveEffect, MsgTypes
    <2> QED
      BY <2>1, <2>2, <2>3, Zenon DEF Asked, Wanted, ProbeParam, machineVars, Serving
  <1> QED
    BY <1>1, <1>2, <1>3, <1>4 DEF Channels

\* The cache machine.
LEMMA AskedMachine ==
  ASSUME PermInv, NEW d \in Con, Machine
  PROVE  Asked(d)'
  <1> USE DEF PermInv, TokenInv
  <1>1. CASE StartProcessing
    <2>1. /\ ops_in # <<>> /\ ops_in' = Tail(ops_in) /\ state = "IDLE"
          /\ current_connection' = Head(ops_in).con /\ current_param' = Head(ops_in).param
          /\ UNCHANGED <<c_want, c_out, c_probes, net_up, net_down>>
      BY <1>1 DEF StartProcessing, reqVars
    <2>2. ~Has(net_down[d]["B"], ProbeBlocks) /\ ~Has(c_probes[d], ProbeBlocks)
      BY <2>1 DEF Tokens, ProbeTokens, Probing
    <2>3. /\ ParamOf(net_down[d]["B"], ProbeBlocks, {ProbeParam}')
          /\ ParamOf(c_probes[d], ProbeBlocks, {ProbeParam}')
      BY <2>2, FieldsNone, Zenon
    <2>4. /\ Head(ops_in) = ops_in[1] /\ 1 \in DOMAIN ops_in
          /\ \A i \in DOMAIN Tail(ops_in) : i + 1 \in DOMAIN ops_in /\ Tail(ops_in)[i] = ops_in[i + 1]
      BY <2>1, TailIndex DEF Types, MachineTypes
    <2>5. \A i \in DOMAIN ops_in' : ops_in'[i].con = d => ops_in'[i].param \in Wanted(d)
      BY <2>1, <2>4, Zenon DEF Asked
    <2>6. current_connection' = d => current_param' \in Wanted(d)
      BY <2>1, <2>4, Zenon DEF Asked
    <2> QED
      BY <2>1, <2>3, <2>5, <2>6, Zenon DEF Asked, Wanted, Serving
  <1>2. CASE SendProbes
    <2> DEFINE m == [op |-> "ProbeBlock", param |-> ProbeParam]
    <2>1. PICK c \in Con : Give(c, "B", m)
      BY <1>2, ProbedConnection DEF Types
    <2>2. m \in DownMsg /\ m.param = ProbeParam
      BY MsgTypes DEF ProbeParam, Cap
    <2> HIDE DEF m
    <2>3. /\ Joined(net_down[c]["B"], net_down'[c]["B"], m)
          /\ \A x \in Con : x # c => net_down'[x]["B"] = net_down[x]["B"]
      BY <2>1, <2>2, GiveEffect, GiveFields
    <2>4. UNCHANGED <<c_want, c_out, c_probes, net_up, ops_in, state, current_connection, current_param>>
      BY <1>2 DEF SendProbes, reqVars
    <2>5. ParamOf(net_down'[d]["B"], ProbeBlocks, {ProbeParam})
      BY <2>2, <2>3 DEF Asked, Joined
    <2> QED
      BY <2>4, <2>5, Zenon DEF Asked, Wanted, ProbeParam, Serving
  <1>3. CASE ProbesDone
    <2>1. /\ state = "PROBE_PERFORM"
          /\ UNCHANGED <<c_want, c_out, c_probes, net_up, net_down, ops_in, current_connection,
                         current_param>>
      BY <1>3 DEF ProbesDone, AllProbesSent, reqVars
    <2>2. Serving(d)' => Serving(d)
      BY <2>1 DEF Serving
    <2> QED
      BY <2>1, <2>2, Zenon DEF Asked, Wanted, ProbeParam
  <1>4. CASE SendResponseMemory \/ SendResponsePeer \/ SendDenyResponse
    <2>1. /\ state' = "ACK_WAIT"
          /\ UNCHANGED <<c_want, c_out, c_probes, net_up, ops_in, current_param>>
      BY <1>4 DEF SendResponseMemory, SendResponsePeer, SendDenyResponse, reqVars
    <2>2. PICK m \in DownMsg : Give(current_connection, "D", m)
      <3>1. peer_data \in Version /\ memory \in Version /\ GrantParam \in Cap
        BY DEF Types, MachineTypes, MemoryTypes, GrantParam, Cap
      <3> QED
        BY <1>4, <3>1, MsgTypes DEF SendResponseMemory, SendResponsePeer, SendDenyResponse
    <2>3. \A x \in Con : net_down'[x]["B"] = net_down[x]["B"]
      BY <2>2, GiveEffect DEF Types, MachineTypes
    <2>4. ~Serving(d)'
      BY <2>1 DEF Serving
    <2> QED
      BY <2>1, <2>3, <2>4, Zenon DEF Asked, Wanted, ProbeParam
  <1> QED
    BY <1>1, <1>2, <1>3, <1>4 DEF Machine

\* Every step.
LEMMA AskedStep == ASSUME PermInv, [Next]_vars, NEW d \in Con PROVE Asked(d)'
  <1>1. CASE CompleteWrite \/ UNCHANGED vars
    BY <1>1, Zenon
       DEF CompleteWrite, vars, reqVars, machineVars, PermInv, Asked, Wanted, ProbeParam, Serving
  <1> QED
    BY <1>1, AskedApplication, AskedNetwork, AskedChannels, AskedMachine, Zenon
       DEF Next, Requester

-----------------------------------------------------------------------------
(* Permissions *)

\* The steps that leave every permission and every grant as it is.
Quiet ==
    \/ \E c \in Con : ReceiveProbe(c) \/ WaitForEntry(c) \/ CheckSend(c) \/ Channels(c)
    \/ StartProcessing \/ SendProbes \/ ProbesDone \/ SendDenyResponse
    \/ CompleteWrite \/ UNCHANGED vars

\* The line's address does not change.
LEMMA AlignedStep == [Next]_vars => UNCHANGED aligned
  BY ZenonT(60)
     DEF Next, Requester, Channels, Machine, Access, AccessLine, AcquireBlock, InsertEntry,
         HandleRelease, ReceiveResponse, ReceiveProbe, ProcessProbes, WaitForEntry, CheckSend,
         ForwardRequest, ProcessResponses, DropResponses, WaitForAck, ReleaseFlits,
         StartProcessing, SendProbes, ProbesDone, SendResponseMemory, SendResponsePeer,
         SendDenyResponse, CompleteWrite, vars

\* Appending another message leaves the grants of a queue alone.
LEMMA GiveOther ==
  ASSUME Types, NEW c \in Con, NEW ch \in {"B", "D"}, NEW m \in DownMsg, Give(c, ch, m),
         m.op # "GrantData", NEW d \in Con
  PROVE  Has(net_down'[d]["D"], {"GrantData"}) <=> Has(net_down[d]["D"], {"GrantData"})
  <1>1. CASE d # c \/ ch # "D"
    BY <1>1, GiveEffect
  <1>2. CASE d = c /\ ch = "D"
    BY <1>2, GiveEffect DEF Appended
  <1> QED
    BY <1>1, <1>2

\* What quiet steps keep.
LEMMA QuietFrame ==
  ASSUME Types, Quiet, NEW d \in Con
  PROVE  UNCHANGED <<c_pc, c_want, c_entry, c_grant, latest>> /\ (Granted(d)' <=> Granted(d))
  <1>1. UNCHANGED <<c_pc, c_want, c_entry, c_grant, latest>>
    BY Zenon
       DEF Quiet, Channels, ReceiveProbe, WaitForEntry, CheckSend, ForwardRequest,
           ProcessResponses, DropResponses, WaitForAck, ReleaseFlits, StartProcessing,
           SendProbes, ProbesDone, SendDenyResponse, CompleteWrite, vars, reqVars
  <1>2. Has(net_down'[d]["D"], {"GrantData"}) <=> Has(net_down[d]["D"], {"GrantData"})
    <2>1. ASSUME NEW c \in Con, ReceiveProbe(c)
          PROVE  Has(net_down'[d]["D"], {"GrantData"}) <=> Has(net_down[d]["D"], {"GrantData"})
      <3>1. net_down'[d]["D"] = net_down[d]["D"]
        BY <2>1, ReceiveEffect DEF ReceiveProbe
      <3> QED
        BY <3>1
    <2>2. ASSUME NEW c \in Con, ReleaseFlits(c)
          PROVE  Has(net_down'[d]["D"], {"GrantData"}) <=> Has(net_down[d]["D"], {"GrantData"})
      <3> DEFINE m == [op |-> "ReleaseAck"]
      <3>1. Give(c, "D", m) /\ m \in DownMsg /\ m.op # "GrantData"
        BY <2>2, MsgTypes DEF ReleaseFlits
      <3> HIDE DEF m
      <3> QED
        BY <3>1, GiveOther
    <2>3. CASE SendProbes
      <3> DEFINE m == [op |-> "ProbeBlock", param |-> ProbeParam]
      <3>1. PICK c \in Con : Give(c, "B", m)
        BY <2>3, ProbedConnection DEF Types
      <3>2. m \in DownMsg /\ m.op # "GrantData"
        BY MsgTypes DEF ProbeParam, Cap
      <3> HIDE DEF m
      <3> QED
        BY <3>1, <3>2, GiveOther
    <2>4. CASE SendDenyResponse
      <3> DEFINE m == [op |-> "Denied"]
      <3>1. Give(current_connection, "D", m) /\ m \in DownMsg /\ m.op # "GrantData"
        BY <2>4, MsgTypes DEF SendDenyResponse
      <3>2. current_connection \in Con
        BY DEF Types, MachineTypes
      <3> HIDE DEF m
      <3> QED
        BY <3>1, <3>2, GiveOther
    <2>5. ASSUME UNCHANGED net_down
          PROVE  Has(net_down'[d]["D"], {"GrantData"}) <=> Has(net_down[d]["D"], {"GrantData"})
      BY <2>5
    <2> QED
      BY <2>1, <2>2, <2>3, <2>4, <2>5, Zenon
         DEF Quiet, Channels, WaitForEntry, CheckSend, ForwardRequest, ProcessResponses,
             DropResponses, WaitForAck, StartProcessing, ProbesDone, CompleteWrite, vars
  <1> QED
    BY <1>1, <1>2, Zenon DEF Granted

\* Every other step: the application, a response, a probe answered, a grant.
LEMMA NextCases ==
  ASSUME [Next]_vars
  PROVE  \/ Quiet \/ SendResponseMemory \/ SendResponsePeer
         \/ \E c \in Con : \/ Access(c) \/ InsertEntry(c) \/ HandleRelease(c)
                           \/ ReceiveResponse(c) \/ ProcessProbes(c)
  BY Zenon DEF Next, Requester, Machine, Quiet

\* A grant on its way is for a thread that waits.
LEMMA GrantWaits ==
  ASSUME TokenInv, NEW c \in Con, c_pc[c] # "wait" PROVE ~Has(net_down[c]["D"], {"GrantData"})
  <1>1. {"GrantData"} \subseteq Grants
    BY DEF Grants
  <1>2. ~Has(net_down[c]["D"], Grants)
    BY Zenon DEF TokenInv, Tokens, AcquireTokens
  <1> QED
    BY <1>1, <1>2, HasSubset, Zenon

\* The other connections during a step of one requester.
Unmoved(d) ==
    /\ c_pc'[d] = c_pc[d] /\ c_want'[d] = c_want[d] /\ c_entry'[d] = c_entry[d]
    /\ c_grant'[d] = c_grant[d] /\ (Granted(d)' <=> Granted(d))

\* A read or a write of a cached line.
LEMMA AccessLineEffect ==
  ASSUME TokenInv, NEW c \in Con, NEW want \in {"ToB", "ToT"}, AccessLine(c, want)
  PROVE  /\ \A d \in Con : d # c => Unmoved(d)
         /\ c_pc'[c] = "idle" /\ c_want' = c_want /\ c_grant' = c_grant
         /\ c_entry'[c].perm = c_entry[c].perm /\ ~Granted(c) /\ ~Granted(c)'
         /\ want = "ToT" => /\ c_entry[c].perm = "ToT" /\ c_entry'[c].modified
                            /\ c_entry'[c].data = latest'
         /\ want # "ToT" => c_entry' = c_entry /\ latest' = latest
  <1> USE DEF TokenInv
  <1>1. /\ c_pc[c] \in {"idle", "check"} /\ c_pc' = [c_pc EXCEPT ![c] = "idle"]
        /\ UNCHANGED <<c_want, c_grant, net_down>>
        /\ want = "ToT" =>
              /\ c_entry[c].perm = "ToT"
              /\ c_entry' = [c_entry EXCEPT ![c] =
                                [perm |-> c_entry[c].perm, modified |-> TRUE, data |-> latest']]
        /\ want # "ToT" => c_entry' = c_entry /\ latest' = latest
    BY DEF AccessLine, Attempts, Suffices
  <1>2. c_pc'[c] = "idle" /\ \A d \in Con : d # c => c_pc'[d] = c_pc[d]
    BY <1>1, PcEffect
  <1>3. ~Granted(c) /\ ~Granted(c)'
    BY <1>1, <1>2, GrantWaits DEF Granted
  <1>4. CASE want = "ToT"
    <2>1. /\ c_entry'[c] = [perm |-> c_entry[c].perm, modified |-> TRUE, data |-> latest']
          /\ \A d \in Con : d # c => c_entry'[d] = c_entry[d]
      BY <1>1, <1>4 DEF Types, RequesterTypes
    <2> QED
      BY <1>1, <1>2, <1>3, <1>4, <2>1 DEF Unmoved, Granted
  <1>5. CASE want # "ToT"
    BY <1>1, <1>2, <1>3, <1>5 DEF Unmoved, Granted
  <1> QED
    BY <1>4, <1>5

\* An acquire.
LEMMA AcquireEffect ==
  ASSUME TokenInv, NEW c \in Con, NEW want \in {"ToB", "ToT"}, AcquireBlock(c, want)
  PROVE  /\ \A d \in Con : d # c => Unmoved(d)
         /\ c_pc'[c] = "wait" /\ c_want'[c] = want /\ c_entry' = c_entry /\ latest' = latest
         /\ c_entry[c].perm # "ToT" /\ c_entry[c].perm # want
         /\ ~Granted(c) /\ ~Granted(c)'
  <1> USE DEF TokenInv
  <1>1. /\ c_pc[c] \in {"idle", "check"} /\ c_pc' = [c_pc EXCEPT ![c] = "wait"]
        /\ c_want' = [c_want EXCEPT ![c] = want]
        /\ c_entry[c].perm # "ToT" /\ c_entry[c].perm # want
        /\ UNCHANGED <<c_entry, c_grant, net_down, latest>>
    BY DEF AcquireBlock, Attempts, Suffices
  <1>2. c_pc'[c] = "wait" /\ \A d \in Con : d # c => c_pc'[d] = c_pc[d]
    BY <1>1, PcEffect
  <1>3. c_want'[c] = want /\ \A d \in Con : d # c => c_want'[d] = c_want[d]
    BY <1>1 DEF Types, RequesterTypes
  <1>4. ~Granted(c) /\ ~Granted(c)'
    BY <1>1, <1>2, GrantWaits DEF Granted
  <1> QED
    BY <1>1, <1>2, <1>3, <1>4 DEF Unmoved, Granted

\* The insertion of a granted line.
LEMMA InsertEffect ==
  ASSUME TokenInv, NEW c \in Con, InsertEntry(c)
  PROVE  /\ \A d \in Con : d # c => Unmoved(d)
         /\ c_pc[c] = "insert" /\ c_pc'[c] = "check" /\ c_want' = c_want /\ latest' = latest
         /\ c_entry'[c].perm = c_want[c] /\ c_entry'[c].modified = FALSE
         /\ c_entry'[c].data = c_grant[c]
         /\ Granted(c) /\ ~Granted(c)'
  <1> USE DEF TokenInv
  <1>1. /\ c_pc[c] = "insert" /\ c_pc' = [c_pc EXCEPT ![c] = "check"]
        /\ c_entry' = [c_entry EXCEPT ![c] =
                          [perm |-> c_want[c], modified |-> FALSE, data |-> c_grant[c]]]
        /\ UNCHANGED <<c_want, c_grant, net_down, latest>>
    BY DEF InsertEntry
  <1>2. c_pc'[c] = "check" /\ \A d \in Con : d # c => c_pc'[d] = c_pc[d]
    BY <1>1, PcEffect
  <1>3. /\ c_entry'[c] = [perm |-> c_want[c], modified |-> FALSE, data |-> c_grant[c]]
        /\ \A d \in Con : d # c => c_entry'[d] = c_entry[d]
    BY <1>1 DEF Types, RequesterTypes
  <1>4. Granted(c) /\ ~Granted(c)'
    BY <1>1, <1>2, GrantWaits DEF Granted
  <1> QED
    BY <1>1, <1>2, <1>3, <1>4 DEF Unmoved, Granted

\* The start of a release.
LEMMA HandleReleaseEffect ==
  ASSUME TokenInv, NEW c \in Con, HandleRelease(c)
  PROVE  /\ \A d \in Con : d # c => Unmoved(d)
         /\ c_pc[c] = "idle" /\ c_pc'[c] = "release" /\ c_entry[c].perm # "ToN"
         /\ c_want' = c_want /\ c_entry' = c_entry /\ latest' = latest
         /\ ~Granted(c) /\ ~Granted(c)'
  <1> USE DEF TokenInv
  <1>1. /\ c_pc[c] = "idle" /\ c_pc' = [c_pc EXCEPT ![c] = "release"] /\ c_entry[c].perm # "ToN"
        /\ UNCHANGED <<c_want, c_entry, c_grant, net_down, latest>>
    BY DEF HandleRelease
  <1>2. c_pc'[c] = "release" /\ \A d \in Con : d # c => c_pc'[d] = c_pc[d]
    BY <1>1, PcEffect
  <1>3. ~Granted(c) /\ ~Granted(c)'
    BY <1>1, <1>2, GrantWaits DEF Granted
  <1> QED
    BY <1>1, <1>2, <1>3 DEF Unmoved, Granted

\* A response: a grant, a denial, or the answer to a release.
LEMMA ReceiveResponseEffect ==
  ASSUME TokenInv, NEW c \in Con, ReceiveResponse(c)
  PROVE  /\ \A d \in Con : d # c => Unmoved(d)
         /\ c_want' = c_want /\ latest' = latest /\ (Granted(c)' => Granted(c))
         /\ \/ /\ c_pc[c] = "wait" /\ c_pc'[c] = "insert" /\ c_entry' = c_entry
               /\ Granted(c)
               /\ Head(net_down[c]["D"]).op = "GrantData"
               /\ c_grant'[c] = Head(net_down[c]["D"]).data
            \/ c_pc[c] = "wait" /\ c_pc'[c] = "idle" /\ c_entry' = c_entry
            \/ /\ c_pc[c] = "release" /\ c_pc'[c] = "idle"
               /\ Head(net_down[c]["D"]).op = "ReleaseAck"
               /\ c_entry'[c].perm = "ToN" /\ c_entry'[c].modified = FALSE
  <1> USE DEF TokenInv
  <1> DEFINE h == Head(net_down[c]["D"])
  <1>1. /\ net_down[c]["D"] # <<>> /\ net_down' = [net_down EXCEPT ![c]["D"] = Tail(@)]
        /\ UNCHANGED <<c_want, latest>>
        /\ \/ /\ h.op = "GrantData" /\ c_pc' = [c_pc EXCEPT ![c] = "insert"]
              /\ c_grant' = [c_grant EXCEPT ![c] = h.data] /\ UNCHANGED c_entry
           \/ /\ h.op = "Denied" /\ c_pc' = [c_pc EXCEPT ![c] = "idle"]
              /\ UNCHANGED <<c_entry, c_grant>>
           \/ /\ h.op = "ReleaseAck" /\ c_pc' = [c_pc EXCEPT ![c] = "idle"]
              /\ c_entry' = [c_entry EXCEPT ![c] =
                                [perm |-> "ToN", modified |-> FALSE, data |-> c_entry[c].data]]
              /\ UNCHANGED c_grant
    BY DEF ReceiveResponse
  <1>2. /\ Shortened(net_down[c]["D"], net_down'[c]["D"])
        /\ \A d \in Con : d # c => net_down'[d]["D"] = net_down[d]["D"]
    BY <1>1, ReceiveEffect
  <1>3. /\ h.op \in Grants => Has(net_down[c]["D"], Grants)
        /\ h.op \in ReleaseAcks => Has(net_down[c]["D"], ReleaseAcks)
        /\ h.op \in {"GrantData"} => Has(net_down[c]["D"], {"GrantData"})
        /\ Has(net_down'[c]["D"], {"GrantData"}) => Has(net_down[c]["D"], {"GrantData"})
    BY <1>2, Zenon DEF Shortened
  <1> HIDE DEF h
  <1>4. /\ h.op \in {"GrantData", "Denied"} => c_pc[c] = "wait"
        /\ h.op = "ReleaseAck" => c_pc[c] = "release"
    BY <1>3 DEF Tokens, AcquireTokens, ReleaseTokens, Grants, ReleaseAcks
  <1>5. CASE h.op = "GrantData"
    <2>1. c_pc'[c] = "insert" /\ \A d \in Con : d # c => c_pc'[d] = c_pc[d]
      BY <1>1, <1>5, PcEffect, ZenonT(60)
    <2>2. c_grant'[c] = h.data /\ \A d \in Con : d # c => c_grant'[d] = c_grant[d]
      BY <1>1, <1>5 DEF Types, RequesterTypes
    <2> QED
      BY <1>1, <1>2, <1>3, <1>4, <1>5, <2>1, <2>2 DEF Unmoved, Granted, h
  <1>6. CASE h.op = "Denied"
    <2>1. c_pc'[c] = "idle" /\ \A d \in Con : d # c => c_pc'[d] = c_pc[d]
      BY <1>1, <1>6, PcEffect, ZenonT(60)
    <2> QED
      BY <1>1, <1>2, <1>3, <1>4, <1>6, <2>1 DEF Unmoved, Granted
  <1>7. CASE h.op = "ReleaseAck"
    <2>1. c_pc'[c] = "idle" /\ \A d \in Con : d # c => c_pc'[d] = c_pc[d]
      BY <1>1, <1>7, PcEffect
    <2>2. /\ c_entry'[c] = [perm |-> "ToN", modified |-> FALSE, data |-> c_entry[c].data]
          /\ \A d \in Con : d # c => c_entry'[d] = c_entry[d]
      BY <1>1, <1>7 DEF Types, RequesterTypes
    <2> QED
      BY <1>1, <1>2, <1>3, <1>4, <1>7, <2>1, <2>2 DEF Unmoved, Granted, h
  <1> QED
    BY <1>1, <1>5, <1>6, <1>7

\* The answer to a probe takes the permission down to what the probe says.
LEMMA ProcessProbesEffect ==
  ASSUME PermInv, NEW c \in Con, ProcessProbes(c)
  PROVE  /\ \A d \in Con : d # c => Unmoved(d)
         /\ UNCHANGED <<c_pc, c_want, c_grant, latest>> /\ (Granted(c)' <=> Granted(c))
         /\ ~Has(net_down[c]["D"], {"GrantData"}) /\ c # current_connection /\ Probing(c)
         /\ c_entry'[c].data = c_entry[c].data
         /\ \/ c_entry[c].perm \in {ProbeParam, "ToN"} /\ c_entry'[c] = c_entry[c]
            \/ /\ c_entry[c].perm \notin {ProbeParam, "ToN"}
               /\ c_entry'[c].perm = ProbeParam /\ c_entry'[c].modified = FALSE
  <1> USE DEF TokenInv, PermInv
  <1>1. /\ c_probes[c] # <<>>
        /\ c_entry' = [c_entry EXCEPT ![c] = ProbedEntry(c_entry[c], Head(c_probes[c]).param)]
        /\ UNCHANGED <<c_pc, c_want, c_grant, net_down, latest>>
    BY DEF ProcessProbes
  <1>2. c_probes[c] \in Seq(ProbeMsg)
    BY QueueTypes
  <1>3. Head(c_probes[c]).op = "ProbeBlock"
    BY <1>1, <1>2, HeadTail, MsgFields
  <1>4. Head(c_probes[c]).param = ProbeParam /\ Has(c_probes[c], ProbeBlocks)
    <2>1. Left(c_probes[c], Tail(c_probes[c])) /\ Shortened(c_probes[c], Tail(c_probes[c]))
      BY <1>1, <1>2, LeftTail, HasTail DEF Shortened
    <2>2. ParamOf(c_probes[c], ProbeBlocks, {ProbeParam})
      BY DEF Asked
    <2>3. Head(c_probes[c]).op \in ProbeBlocks
      BY <1>3 DEF ProbeBlocks
    <2>4. Head(c_probes[c]).param \in {ProbeParam}
      BY <2>1, <2>2, <2>3, Zenon DEF Left
    <2>5. Has(c_probes[c], ProbeBlocks)
      BY <2>1, <2>3, Zenon DEF Shortened
    <2> QED
      BY <2>4, <2>5
  <1>5. c # current_connection
    BY <1>4 DEF Tokens, ProbeTokens, Probing, MachineOK
  <1>6. ~Has(net_down[c]["D"], {"GrantData"})
    <2>1. ~Has(net_down[c]["D"], Grants)
      BY <1>5 DEF Tokens, GrantTokens
    <2>2. {"GrantData"} \subseteq Grants
      BY DEF Grants
    <2> QED
      BY <2>1, <2>2, HasSubset, Zenon
  <1>7. /\ c_entry'[c] = ProbedEntry(c_entry[c], ProbeParam)
        /\ \A d \in Con : d # c => c_entry'[d] = c_entry[d]
    BY <1>1, <1>4 DEF Types, RequesterTypes
  <1> QED
    BY <1>1, <1>4, <1>5, <1>6, <1>7 DEF ProbedEntry, Unmoved, Granted, Probing

\* A grant goes to the connection that is served.
LEMMA GrantEffect ==
  ASSUME PermInv, SendResponseMemory \/ SendResponsePeer
  PROVE  LET c == current_connection IN
         /\ c \in Con /\ \A d \in Con : d # c => Unmoved(d)
         /\ UNCHANGED <<c_pc, c_want, c_entry, c_grant, latest, current_connection, current_param>>
         /\ c_pc[c] = "wait" /\ current_param \in Wanted(c)
         /\ state = "RESPOND" /\ state' = "ACK_WAIT" /\ aligned
  <1> USE DEF TokenInv, PermInv
  <1> DEFINE c == current_connection
  <1>1. /\ state = "RESPOND" /\ state' = "ACK_WAIT"
        /\ UNCHANGED <<c_pc, c_want, c_entry, c_grant, latest, current_connection, current_param>>
    BY DEF SendResponseMemory, SendResponsePeer, reqVars
  <1>2. c \in Con /\ Serving(c) /\ aligned
    BY <1>1 DEF Types, MachineTypes, Serving, MachineOK
  <1>3. c_pc[c] = "wait" /\ current_param \in Wanted(c)
    BY <1>2, Zenon DEF Tokens, AcquireTokens, Asked
  <1>4. PICK m \in DownMsg : Give(c, "D", m)
    <2>1. peer_data \in Version /\ memory \in Version /\ GrantParam \in Cap
      BY DEF Types, MachineTypes, MemoryTypes, GrantParam, Cap
    <2> QED
      BY <2>1, MsgTypes DEF SendResponseMemory, SendResponsePeer
  <1>5. \A d \in Con : d # c => net_down'[d]["D"] = net_down[d]["D"]
    BY <1>2, <1>4, GiveEffect
  <1>6. \A d \in Con : d # c => Unmoved(d)
    BY <1>1, <1>5, Zenon DEF Unmoved, Granted
  <1> QED
    BY <1>1, <1>2, <1>3, <1>6

\* A connection that a step does not touch.
LEMMA EntryFrame ==
  ASSUME NEW d \in Con, EntryOK(d), Unmoved(d), UNCHANGED aligned PROVE EntryOK(d)'
  BY Zenon DEF EntryOK, Unmoved

\* Every step keeps the entries right.
LEMMA EntryStep ==
  ASSUME PermInv, [Next]_vars, NEW d \in Con PROVE EntryOK(d)'
  <1>1. TokenInv /\ EntryOK(d) /\ UNCHANGED aligned
    BY AlignedStep DEF PermInv
  <1>2. ASSUME NEW c \in Con, NEW want \in {"ToB", "ToT"}, AccessLine(c, want) PROVE EntryOK(d)'
    <2>1. CASE d # c
      BY <1>1, <1>2, <2>1, AccessLineEffect, EntryFrame, Zenon
    <2>2. CASE d = c
      <3>1. /\ c_pc'[c] = "idle" /\ c_entry'[c].perm = c_entry[c].perm /\ ~Granted(c)'
            /\ want = "ToT" => c_entry[c].perm = "ToT"
            /\ want # "ToT" => c_entry' = c_entry
        BY <1>1, <1>2, AccessLineEffect
      <3> QED
        BY <1>1, <2>2, <3>1 DEF EntryOK
    <2> QED
      BY <2>1, <2>2
  <1>3. ASSUME NEW c \in Con, NEW want \in {"ToB", "ToT"}, AcquireBlock(c, want) PROVE EntryOK(d)'
    <2>1. CASE d # c
      BY <1>1, <1>3, <2>1, AcquireEffect, EntryFrame, Zenon
    <2>2. CASE d = c
      <3>1. /\ c_want'[c] = want /\ c_entry' = c_entry /\ ~Granted(c)'
            /\ c_entry[c].perm # "ToT" /\ c_entry[c].perm # want
        BY <1>1, <1>3, AcquireEffect
      <3> QED
        BY <1>1, <2>2, <3>1 DEF EntryOK
    <2> QED
      BY <2>1, <2>2
  <1>4. ASSUME NEW c \in Con, InsertEntry(c) PROVE EntryOK(d)'
    <2>1. CASE d # c
      BY <1>1, <1>4, <2>1, InsertEffect, EntryFrame, Zenon
    <2>2. CASE d = c
      <3>1. /\ c_pc'[c] = "check" /\ c_entry'[c].modified = FALSE /\ Granted(c)
        BY <1>1, <1>4, InsertEffect
      <3> QED
        BY <1>1, <2>2, <3>1 DEF EntryOK
    <2> QED
      BY <2>1, <2>2
  <1>5. ASSUME NEW c \in Con, HandleRelease(c) PROVE EntryOK(d)'
    <2>1. CASE d # c
      BY <1>1, <1>5, <2>1, HandleReleaseEffect, EntryFrame, Zenon
    <2>2. CASE d = c
      <3>1. c_pc'[c] = "release" /\ c_entry' = c_entry /\ ~Granted(c)'
        BY <1>1, <1>5, HandleReleaseEffect
      <3> QED
        BY <1>1, <2>2, <3>1 DEF EntryOK
    <2> QED
      BY <2>1, <2>2
  <1>6. ASSUME NEW c \in Con, ReceiveResponse(c) PROVE EntryOK(d)'
    <2>1. CASE d # c
      BY <1>1, <1>6, <2>1, ReceiveResponseEffect, EntryFrame, Zenon
    <2>2. CASE d = c
      <3>1. /\ c_want' = c_want /\ (Granted(c)' => Granted(c))
            /\ \/ c_pc[c] = "wait" /\ c_entry' = c_entry
               \/ c_pc'[c] = "idle" /\ c_entry'[c].perm = "ToN" /\ c_entry'[c].modified = FALSE
        BY <1>1, <1>6, ReceiveResponseEffect
      <3> QED
        BY <1>1, <2>2, <3>1 DEF EntryOK
    <2> QED
      BY <2>1, <2>2
  <1>7. ASSUME NEW c \in Con, ProcessProbes(c) PROVE EntryOK(d)'
    <2>1. CASE d # c
      BY <1>1, <1>7, <2>1, ProcessProbesEffect, EntryFrame, Zenon
    <2>2. CASE d = c
      <3>1. /\ UNCHANGED <<c_pc, c_want>> /\ (Granted(c)' <=> Granted(c))
            /\ \/ c_entry'[c] = c_entry[c]
               \/ /\ c_entry[c].perm \notin {ProbeParam, "ToN"}
                  /\ c_entry'[c].perm = ProbeParam /\ c_entry'[c].modified = FALSE
        BY <1>7, ProcessProbesEffect
      <3>2. ProbeParam \in {"ToN", "ToB"} /\ c_want[c] \in {"ToB", "ToT"} /\ c_entry[c].perm \in Cap
        BY <1>1 DEF ProbeParam, TokenInv, Types, RequesterTypes
      <3> QED
        BY <1>1, <2>2, <3>1, <3>2 DEF EntryOK, Cap
    <2> QED
      BY <2>1, <2>2
  <1>8. ASSUME SendResponseMemory \/ SendResponsePeer PROVE EntryOK(d)'
    <2>1. CASE d # current_connection
      BY <1>1, <1>8, <2>1, GrantEffect, EntryFrame, Zenon
    <2>2. CASE d = current_connection
      <3>1. UNCHANGED <<c_pc, c_want, c_entry>> /\ aligned
        BY <1>8, GrantEffect
      <3> QED
        BY <1>1, <2>2, <3>1 DEF EntryOK
    <2> QED
      BY <2>1, <2>2
  <1>9. ASSUME Quiet PROVE EntryOK(d)'
    <2>1. Unmoved(d)
      BY <1>1, <1>9, QuietFrame, Zenon DEF Unmoved, TokenInv
    <2> QED
      BY <1>1, <2>1, EntryFrame, Zenon
  <1> QED
    BY <1>2, <1>3, <1>4, <1>5, <1>6, <1>7, <1>8, <1>9, NextCases, Zenon DEF Access

\* No permission grows but by a grant.
LEMMA Lowered ==
  ASSUME PermInv, [Next]_vars, NEW d \in Con,
         d = current_connection => ~SendResponseMemory /\ ~SendResponsePeer
  PROVE  /\ May(d, "ToT")' => May(d, "ToT")
         /\ May(d, "ToB")' => May(d, "ToB") \/ May(d, "ToT")
  <1> DEFINE Low == /\ May(d, "ToT")' => May(d, "ToT")
                    /\ May(d, "ToB")' => May(d, "ToB") \/ May(d, "ToT")
  <1>1. TokenInv
    BY DEF PermInv
  <1>2. ASSUME Unmoved(d) PROVE Low
    BY <1>2, Zenon DEF Unmoved, May
  <1>3. ASSUME NEW c \in Con, Access(c) PROVE Low
    <2>1. CASE d # c
      BY <1>1, <1>2, <1>3, <2>1, AccessLineEffect, AcquireEffect, Zenon DEF Access
    <2>2. CASE d = c
      <3>1. c_entry'[c].perm = c_entry[c].perm /\ ~Granted(c)'
        BY <1>1, <1>3, AccessLineEffect, AcquireEffect DEF Access
      <3> QED
        BY <2>2, <3>1 DEF May
    <2> QED
      BY <2>1, <2>2, Zenon
  <1>4. ASSUME NEW c \in Con, InsertEntry(c) PROVE Low
    <2>1. CASE d # c
      BY <1>1, <1>2, <1>4, <2>1, InsertEffect, Zenon
    <2>2. CASE d = c
      <3>1. c_entry'[c].perm = c_want[c] /\ Granted(c) /\ ~Granted(c)'
        BY <1>1, <1>4, InsertEffect
      <3> QED
        BY <2>2, <3>1 DEF May
    <2> QED
      BY <2>1, <2>2, Zenon
  <1>5. ASSUME NEW c \in Con, HandleRelease(c) PROVE Low
    <2>1. CASE d # c
      BY <1>1, <1>2, <1>5, <2>1, HandleReleaseEffect, Zenon
    <2>2. CASE d = c
      <3>1. c_entry' = c_entry /\ ~Granted(c)'
        BY <1>1, <1>5, HandleReleaseEffect
      <3> QED
        BY <2>2, <3>1 DEF May
    <2> QED
      BY <2>1, <2>2, Zenon
  <1>6. ASSUME NEW c \in Con, ReceiveResponse(c) PROVE Low
    <2>1. CASE d # c
      BY <1>1, <1>2, <1>6, <2>1, ReceiveResponseEffect, Zenon
    <2>2. CASE d = c
      <3>1. /\ c_want' = c_want /\ (Granted(c)' => Granted(c))
            /\ c_entry' = c_entry \/ c_entry'[c].perm = "ToN"
        BY <1>1, <1>6, ReceiveResponseEffect
      <3> QED
        BY <2>2, <3>1 DEF May
    <2> QED
      BY <2>1, <2>2, Zenon
  <1>7. ASSUME NEW c \in Con, ProcessProbes(c) PROVE Low
    <2>1. CASE d # c
      BY <1>2, <1>7, <2>1, ProcessProbesEffect, Zenon
    <2>2. CASE d = c
      <3>1. /\ UNCHANGED <<c_pc, c_want>> /\ (Granted(c)' <=> Granted(c))
            /\ \/ c_entry'[c] = c_entry[c]
               \/ /\ c_entry[c].perm \notin {ProbeParam, "ToN"}
                  /\ c_entry'[c].perm = ProbeParam
        BY <1>7, ProcessProbesEffect
      <3>2. ProbeParam \in {"ToN", "ToB"} /\ c_entry[c].perm \in Cap
        BY <1>1 DEF ProbeParam, TokenInv, Types, RequesterTypes
      <3> QED
        BY <2>2, <3>1, <3>2 DEF May, Cap
    <2> QED
      BY <2>1, <2>2, Zenon
  <1>8. ASSUME SendResponseMemory \/ SendResponsePeer PROVE Low
    BY <1>2, <1>8, GrantEffect, Zenon
  <1>9. ASSUME Quiet PROVE Low
    <2>1. Unmoved(d)
      BY <1>1, <1>9, QuietFrame, Zenon DEF Unmoved, TokenInv
    <2> QED
      BY <1>2, <2>1, Zenon
  <1> QED
    BY <1>3, <1>4, <1>5, <1>6, <1>7, <1>8, <1>9, NextCases, Zenon

\* There is one writer, also after a grant: the others have been capped.
LEMMA ExclusiveStep == ASSUME PermInv, [Next]_vars PROVE Exclusive'
  <1>1. CASE SendResponseMemory \/ SendResponsePeer
    <2>0. PICK g \in Con : g = current_connection
      BY <1>1, GrantEffect
    <2>1. /\ \A d \in Con : d # g => Unmoved(d)
          /\ UNCHANGED <<c_want, c_entry>> /\ c_pc[g] = "wait" /\ current_param \in Wanted(g)
          /\ state = "RESPOND" /\ aligned
      BY <1>1, <2>0, GrantEffect
    <2>2. ASSUME NEW d \in Con, d # g PROVE Capped(d)
      BY <2>0, <2>1, <2>2 DEF PermInv, Capping, Unprobed
    <2>3. ASSUME NEW d \in Con, d # g, NEW p PROVE May(d, p)' <=> May(d, p)
      BY <2>1, <2>3, Zenon DEF Unmoved, May
    <2>4. May(g, "ToT")' => current_param # "NtoB"
      BY <2>1 DEF PermInv, EntryOK, May, Wanted
    <2>5. ASSUME NEW c \in Con, NEW d \in Con, c # d, May(c, "ToT")'
          PROVE  ~May(d, "ToT")' /\ ~May(d, "ToB")'
      <3>1. CASE c = g
        BY <2>2, <2>3, <2>4, <2>5, <3>1, Zenon DEF Capped
      <3>2. CASE c # g
        BY <2>2, <2>3, <2>5, <3>2, Zenon DEF Capped
      <3> QED
        BY <3>1, <3>2
    <2> QED
      BY <2>5 DEF Exclusive
  <1>2. CASE ~SendResponseMemory /\ ~SendResponsePeer
    <2>1. \A d \in Con : /\ May(d, "ToT")' => May(d, "ToT")
                         /\ May(d, "ToB")' => May(d, "ToB") \/ May(d, "ToT")
      BY <1>2, Lowered, Zenon
    <2> QED
      BY <2>1, Zenon DEF PermInv, Exclusive
  <1> QED
    BY <1>1, <1>2

\* What the current request leaves is not exceeded.
LEMMA CappedStep ==
  ASSUME PermInv, [Next]_vars, NEW d \in Con, d # current_connection, Capped(d),
         UNCHANGED current_param
  PROVE  Capped(d)'
  BY Lowered, Zenon DEF Capped

\* A queue of answers to which another message is added, or whose head is taken.
LEMMA DataOut ==
  ASSUME Types, NEW c \in Con, NEW m \in UpMsg, Perform(c, m), UNCHANGED net_up, NEW d \in Con
  PROVE  /\ DataToken(d) => DataToken(d)'
         /\ DataToken(d)' => DataToken(d) \/ (d = c /\ m.op = "ProbeAckData")
  <1>1. /\ Appended(c_out[c], c_out'[c], m)
        /\ \A x \in Con : x # c => c_out'[x] = c_out[x]
    BY PerformEffect
  <1>2. /\ Has(c_out[c], {"ProbeAckData"}) => Has(c_out'[c], {"ProbeAckData"})
        /\ Has(c_out'[c], {"ProbeAckData"}) => Has(c_out[c], {"ProbeAckData"}) \/ m.op = "ProbeAckData"
    BY <1>1 DEF Appended
  <1>3. CASE d = c
    BY <1>2, <1>3, Zenon DEF DataToken
  <1>4. CASE d # c
    BY <1>1, <1>4, Zenon DEF DataToken
  <1> QED
    BY <1>3, <1>4

\* A message taken off a channel.
LEMMA DataTaken ==
  ASSUME Types, NEW c \in Con, NEW ch \in {"A", "C", "E"}, net_up[c][ch] # <<>>, Take(c, ch),
         UNCHANGED c_out, NEW d \in Con
  PROVE  DataToken(d)' => DataToken(d)
  <1>1. /\ Shortened(net_up[c][ch], net_up'[c][ch])
        /\ \A x \in Con, k \in {"A", "C", "E"} : x # c \/ k # ch => net_up'[x][k] = net_up[x][k]
    BY TakeEffect
  <1>2. Has(net_up'[d]["C"], {"ProbeAckData"}) => Has(net_up[d]["C"], {"ProbeAckData"})
    <2>1. CASE d = c /\ ch = "C"
      BY <1>1, <2>1, Zenon DEF Shortened
    <2>2. CASE ~(d = c /\ ch = "C")
      <3>1. net_up'[d]["C"] = net_up[d]["C"]
        BY <1>1, <2>2
      <3> QED
        BY <3>1
    <2> QED
      BY <2>1, <2>2
  <1> QED
    BY <1>2, Zenon DEF DataToken

\* check_send moves an answer, and loses none.
LEMMA DataSent ==
  ASSUME Types, NEW c \in Con, CheckSend(c), NEW d \in Con
  PROVE  DataToken(d)' <=> DataToken(d)
  <1> DEFINE m == Head(c_out[c])
  <1>1. /\ m.chan \in {"A", "C", "E"}
        /\ m.chan = "A" => m.op = "AcquireBlock"
        /\ m.chan = "E" => m.op = "GrantAck"
        /\ Shortened(c_out[c], c_out'[c])
        /\ Has(c_out[c], {"ProbeAckData"}) /\ m.op # "ProbeAckData" => Has(c_out'[c], {"ProbeAckData"})
        /\ Appended(net_up[c][m.chan], net_up'[c][m.chan], m)
        /\ \A x \in Con : x # c => c_out'[x] = c_out[x]
        /\ \A x \in Con, k \in {"A", "C", "E"} : x # c \/ k # m.chan => net_up'[x][k] = net_up[x][k]
    BY CheckSendFields, Zenon
  <1>2. /\ Has(c_out'[c], {"ProbeAckData"}) => Has(c_out[c], {"ProbeAckData"})
        /\ m.op = "ProbeAckData" => Has(c_out[c], {"ProbeAckData"})
    BY <1>1 DEF Shortened
  <1>3. /\ Has(net_up'[c][m.chan], {"ProbeAckData"})
              <=> Has(net_up[c][m.chan], {"ProbeAckData"}) \/ m.op = "ProbeAckData"
    BY <1>1 DEF Appended
  <1> HIDE DEF m
  <1>4. CASE d # c
    <2>1. net_up'[d]["C"] = net_up[d]["C"] /\ c_out'[d] = c_out[d]
      BY <1>1, <1>4
    <2> QED
      BY <2>1 DEF DataToken
  <1>5. CASE d = c /\ m.chan = "C"
    BY <1>1, <1>2, <1>3, <1>5 DEF DataToken
  <1>6. CASE d = c /\ m.chan # "C"
    <2>1. net_up'[c]["C"] = net_up[c]["C"] /\ m.op # "ProbeAckData"
      BY <1>1, <1>6
    <2> QED
      BY <1>1, <1>2, <1>6, <2>1 DEF DataToken
  <1> QED
    BY <1>4, <1>5, <1>6

\* An answer with data comes from a thread that gives up a modified line.
LEMMA DataTokenStep ==
  ASSUME Types, [Next]_vars, NEW d \in Con, DataToken(d)', ~DataToken(d)
  PROVE  ProcessProbes(d) /\ c_entry[d].modified /\ c_entry'[d] # c_entry[d]
  <1>1. c_entry[d].data \in Version
    BY DEF Types, RequesterTypes
  <1>2. ASSUME NEW c \in Con, NEW m \in UpMsg, Perform(c, m), UNCHANGED net_up, m.op # "ProbeAckData"
        PROVE  FALSE
    BY <1>2, DataOut
  <1>3. ASSUME NEW c \in Con, Access(c) \/ InsertEntry(c) \/ HandleRelease(c) PROVE FALSE
    <2>1. UNCHANGED <<c_out, net_up>> \/ \E m \in UpMsg :
             Perform(c, m) /\ m.op # "ProbeAckData" /\ UNCHANGED net_up
      <3>1. c_entry[c].data \in Version /\ \A want : GrowFor(c_entry[c].perm, want) \in Grow
        BY DEF Types, RequesterTypes, GrowFor, Grow
      <3> QED
        BY <1>3, <3>1, MsgTypes DEF Access, AccessLine, AcquireBlock, InsertEntry, HandleRelease
    <2> QED
      BY <1>2, <2>1, Zenon DEF DataToken
  <1>4. ASSUME NEW c \in Con, ReceiveResponse(c) PROVE FALSE
    <2>1. UNCHANGED <<c_out, net_up>> \/ \E m \in UpMsg :
             Perform(c, m) /\ m.op # "ProbeAckData" /\ UNCHANGED net_up
      BY <1>4, MsgTypes DEF ReceiveResponse
    <2> QED
      BY <1>2, <2>1, Zenon DEF DataToken
  <1>5. ASSUME NEW c \in Con, ProcessProbes(c)
        PROVE  ProcessProbes(d) /\ c_entry[d].modified /\ c_entry'[d] # c_entry[d]
    <2> DEFINE new == ProbedEntry(c_entry[c], Head(c_probes[c]).param)
               m == IF c_entry[c].modified /\ ~new.modified
                    THEN [chan |-> "C", op |-> "ProbeAckData", data |-> c_entry[c].data]
                    ELSE [chan |-> "C", op |-> "ProbeAck"]
    <2>1. Perform(c, m) /\ UNCHANGED net_up /\ c_entry' = [c_entry EXCEPT ![c] = new]
      BY <1>5 DEF ProcessProbes
    <2>2. c_entry[c].data \in Version /\ c_entry'[c] = new
      BY <2>1 DEF Types, RequesterTypes
    <2>3. m \in UpMsg /\ (m.op = "ProbeAckData" => c_entry[c].modified /\ ~new.modified)
      BY <2>2, MsgTypes
    <2> HIDE DEF m
    <2>4. d = c /\ m.op = "ProbeAckData"
      BY <2>1, <2>3, DataOut, Zenon
    <2> QED
      BY <1>5, <2>2, <2>3, <2>4
  <1>6. ASSUME NEW c \in Con, ReceiveProbe(c) \/ WaitForEntry(c) PROVE FALSE
    BY <1>6 DEF ReceiveProbe, WaitForEntry, DataToken
  <1>7. ASSUME NEW c \in Con, CheckSend(c) PROVE FALSE
    BY <1>7, DataSent
  <1>8. ASSUME NEW c \in Con, Channels(c) PROVE FALSE
    <2>1. \E ch \in {"A", "C", "E"} : net_up[c][ch] # <<>> /\ Take(c, ch) /\ UNCHANGED c_out
      BY <1>8 DEF Channels, ForwardRequest, ProcessResponses, DropResponses, WaitForAck,
                  ReleaseFlits, ProbeAnswered, reqVars
    <2> QED
      BY <2>1, DataTaken, Zenon
  <1>9. ASSUME Machine \/ CompleteWrite \/ UNCHANGED vars PROVE FALSE
    BY <1>9 DEF Machine, StartProcessing, SendProbes, ProbesDone, SendResponseMemory,
                SendResponsePeer, SendDenyResponse, CompleteWrite, vars, reqVars, DataToken
  <1> QED
    BY <1>3, <1>4, <1>5, <1>6, <1>7, <1>8, <1>9, Zenon DEF Next, Requester

\* A probe is lost by nothing but the answer to it.
LEMMA ProbingKept ==
  ASSUME Types, [Next]_vars, NEW d \in Con, Probing(d), ~ProcessProbes(d)
  PROVE  Probing(d)'
  <1>1. ASSUME UNCHANGED c_probes, net_down'[d]["B"] = net_down[d]["B"] PROVE Probing(d)'
    BY <1>1 DEF Probing
  <1>2. ASSUME UNCHANGED <<c_probes, net_down>> PROVE Probing(d)'
    BY <1>2 DEF Probing
  <1>3. ASSUME NEW c \in Con, ReceiveResponse(c) PROVE Probing(d)'
    <2>1. UNCHANGED c_probes /\ net_down'[d]["B"] = net_down[d]["B"]
      BY <1>3, ReceiveEffect DEF ReceiveResponse
    <2> QED
      BY <1>1, <2>1
  <1>4. ASSUME NEW c \in Con, ReceiveProbe(c) PROVE Probing(d)'
    <2> DEFINE h == Head(net_down[c]["B"])
    <2>1. /\ net_down[c]["B"] # <<>> /\ net_down' = [net_down EXCEPT ![c]["B"] = Tail(@)]
          /\ c_probes' = [c_probes EXCEPT ![c] = Append(@, h)]
      BY <1>4 DEF ReceiveProbe
    <2>2. \A x \in Con : x # c => net_down'[x]["B"] = net_down[x]["B"]
      BY <2>1, ReceiveEffect
    <2>3. h \in ProbeMsg
      BY <2>1, QueueTypes, HeadTail
    <2>4. /\ c_probes'[c] = Append(c_probes[c], h) /\ c_probes[c] \in Seq(ProbeMsg)
          /\ \A x \in Con : x # c => c_probes'[x] = c_probes[x]
      BY <2>1 DEF Types, RequesterTypes
    <2>5. Has(c_probes'[c], ProbeBlocks)
      BY <2>3, <2>4, HasAppend, MsgFields DEF ProbeBlocks
    <2> QED
      BY <2>2, <2>4, <2>5 DEF Probing
  <1>5. ASSUME NEW c \in Con, ProcessProbes(c) PROVE Probing(d)'
    <2>1. c # d /\ UNCHANGED net_down /\ c_probes' = [c_probes EXCEPT ![c] = Tail(@)]
      BY <1>5 DEF ProcessProbes
    <2>2. c_probes'[d] = c_probes[d]
      BY <2>1 DEF Types, RequesterTypes
    <2> QED
      BY <2>1, <2>2 DEF Probing
  <1>6. ASSUME NEW c \in Con, ReleaseFlits(c) PROVE Probing(d)'
    <2>1. UNCHANGED c_probes /\ net_down'[d]["B"] = net_down[d]["B"]
      BY <1>6, GiveEffect, MsgTypes DEF ReleaseFlits, reqVars
    <2> QED
      BY <1>1, <2>1
  <1>7. CASE SendProbes
    <2> DEFINE m == [op |-> "ProbeBlock", param |-> ProbeParam]
    <2>1. PICK c \in Con : Give(c, "B", m)
      BY <1>7, ProbedConnection DEF Types
    <2>2. m \in DownMsg
      BY MsgTypes DEF ProbeParam, Cap
    <2> HIDE DEF m
    <2>3. /\ Appended(net_down[c]["B"], net_down'[c]["B"], m)
          /\ \A x \in Con : x # c => net_down'[x]["B"] = net_down[x]["B"]
      BY <2>1, <2>2, GiveEffect
    <2>4. UNCHANGED c_probes
      BY <1>7 DEF SendProbes, reqVars
    <2>5. Has(net_down[d]["B"], ProbeBlocks) => Has(net_down'[d]["B"], ProbeBlocks)
      BY <2>3 DEF Appended
    <2> QED
      BY <2>4, <2>5, Zenon DEF Probing
  <1>8. CASE SendResponseMemory \/ SendResponsePeer \/ SendDenyResponse
    <2>1. PICK m \in DownMsg : Give(current_connection, "D", m)
      <3>1. peer_data \in Version /\ memory \in Version /\ GrantParam \in Cap
        BY DEF Types, MachineTypes, MemoryTypes, GrantParam, Cap
      <3> QED
        BY <1>8, <3>1, MsgTypes DEF SendResponseMemory, SendResponsePeer, SendDenyResponse
    <2>2. net_down'[d]["B"] = net_down[d]["B"]
      BY <2>1, GiveEffect DEF Types, MachineTypes
    <2>3. UNCHANGED c_probes
      BY <1>8 DEF SendResponseMemory, SendResponsePeer, SendDenyResponse, reqVars
    <2> QED
      BY <1>1, <2>2, <2>3
  <1> QED
    BY <1>2, <1>3, <1>4, <1>5, <1>6, <1>7, <1>8, Zenon
       DEF Next, Requester, Channels, Machine, Access, AccessLine, AcquireBlock, InsertEntry,
           HandleRelease, WaitForEntry, CheckSend, ForwardRequest, ProcessResponses,
           DropResponses, WaitForAck, StartProcessing, ProbesDone, CompleteWrite, vars, reqVars

\* The steps that leave the cache machine's request as it is.
LEMMA MachineFrame ==
  ASSUME [Next]_vars, ~Machine, \A c \in Con : ~ProcessResponses(c) /\ ~WaitForAck(c)
  PROVE  UNCHANGED <<state, current_connection, current_param, current_response,
                     outstanding_requests, peer_data>>
  BY ZenonT(60)
     DEF Next, Requester, Channels, Access, AccessLine, AcquireBlock, InsertEntry,
         HandleRelease, ReceiveResponse, ReceiveProbe, ProcessProbes, WaitForEntry, CheckSend,
         ForwardRequest, DropResponses, ReleaseFlits, CompleteWrite, vars, machineVars

\* A connection that answers a probe has what the request leaves it: no grant
\* is on its way to it, and with Prompt none waits to be inserted.
LEMMA AnswerCaps ==
  ASSUME PermInv, Prompt, NEW c \in Con, ProcessProbes(c) PROVE Capped(c)'
  <1>1. c_pc[c] # "insert"
    BY DEF ProcessProbes
  <1>2. /\ ~Has(net_down[c]["D"], {"GrantData"}) /\ (Granted(c)' <=> Granted(c))
        /\ c_entry'[c].perm \in {ProbeParam, "ToN"}
    BY ProcessProbesEffect
  <1>3. ~Granted(c)' /\ UNCHANGED current_param
    BY <1>1, <1>2 DEF Granted, ProcessProbes, machineVars
  <1> QED
    BY <1>2, <1>3 DEF Capped, May, ProbeParam

\* A connection still to be probed stays one while no answer carries data.
LEMMA UnprobedKept ==
  ASSUME PermInv, [Next]_vars, NEW d \in Con, Unprobed(d),
         \A c \in Con : ProcessProbes(c) => c # d /\ ~c_entry[c].modified,
         state' \in {"PROBE_PERFORM", "PROBE_WAIT"},
         d \in outstanding_requests => d \in outstanding_requests' \/ Probing(d)'
  PROVE  Unprobed(d)'
  <1>1. Types
    BY DEF PermInv, TokenInv
  <1>2. \A x \in Con : ~DataToken(x)'
    BY <1>1, DataTokenStep, Zenon DEF Unprobed
  <1>3. Probing(d) => Probing(d)'
    BY <1>1, ProbingKept
  <1> QED
    BY <1>2, <1>3, Zenon DEF Unprobed

\* Every step keeps the others capped, or about to be.
LEMMA CappingStep ==
  ASSUME PermInv, Prompt, [Next]_vars, NEW d \in Con PROVE Capping(d)'
  <1> USE DEF PermInv, TokenInv
  <1>0. UNCHANGED aligned
    BY AlignedStep
  <1>1. CASE StartProcessing
    <2>1. state = "IDLE" /\ outstanding_requests' = Con \ {current_connection'}
          /\ state' = IF ~aligned THEN "UNALIGNED"
                      ELSE IF outstanding_requests' = {} THEN "RESPOND" ELSE "PROBE_PERFORM"
      BY <1>1 DEF StartProcessing
    <2>2. ASSUME NEW x \in Con PROVE ~DataToken(x)'
      <3>1. ~Has(c_out[x], ProbeAcks) /\ ~Has(net_up[x]["C"], ProbeAcks)
        BY <2>1 DEF Tokens, ProbeTokens, Answering
      <3>2. ~DataToken(x)
        BY <3>1, HasSubset DEF DataToken, ProbeAcks
      <3> QED
        BY <1>1, <3>2 DEF StartProcessing, reqVars, DataToken
    <2> QED
      BY <1>0, <2>1, <2>2 DEF Capping, Unprobed
  <1>2. CASE \E c \in Con : WaitForAck(c)
    BY <1>2 DEF WaitForAck, Capping
  <1>3. CASE ~StartProcessing /\ \A c \in Con : ~WaitForAck(c)
    <2>1. /\ UNCHANGED <<current_connection, current_param>>
          /\ state = "IDLE" => state' = "IDLE"
      <3>1. CASE Machine \/ \E c \in Con : ProcessResponses(c)
        BY <1>3, <3>1 DEF Machine, SendProbes, ProbesDone, AllProbesSent, SendResponseMemory,
              SendResponsePeer, SendDenyResponse, ProcessResponses
      <3>2. CASE ~(Machine \/ \E c \in Con : ProcessResponses(c))
        BY <1>3, <3>2, MachineFrame
      <3> QED
        BY <3>1, <3>2
    <2> SUFFICES ASSUME state' # "IDLE", aligned, d # current_connection, ~Capped(d)'
                 PROVE  Unprobed(d)'
      BY <1>0, <2>1, Zenon DEF Capping
    <2>2. ~Capped(d) /\ Unprobed(d)
      BY <2>1, CappedStep DEF Capping
    <2>3. ASSUME NEW c \in Con, ProcessProbes(c) PROVE c # d /\ ~c_entry[c].modified
      <3>1. c # d
        BY <2>3, AnswerCaps
      <3>2. ~May(c, "ToT")
        BY <2>2, <3>1, Zenon DEF Exclusive, Capped
      <3> QED
        BY <3>1, <3>2 DEF EntryOK, May
    <2>4. CASE \E c \in Con : ProcessResponses(c)
      <3>1. PICK c \in Con : ProcessResponses(c)
        BY <2>4
      <3> DEFINE h == Head(net_up[c]["C"])
      <3>2. /\ net_up[c]["C"] # <<>> /\ h.op \in ProbeAcks /\ Take(c, "C")
            /\ UNCHANGED outstanding_requests
            /\ h.op = "ProbeAck" =>
                  /\ active_requests' = active_requests \ {c}
                  /\ state' = IF state = "PROBE_WAIT" /\ active_requests' = {}
                              THEN "RESPOND" ELSE state
        BY <3>1 DEF ProcessResponses, ProbeAnswered, ProbeAcks, StillActive
      <3>3. Has(net_up[c]["C"], ProbeAcks) /\ (h.op \in {"ProbeAckData"} => DataToken(c))
        <4>1. Shortened(net_up[c]["C"], net_up'[c]["C"])
          BY <3>2, TakeEffect
        <4> QED
          BY <3>2, <4>1, Zenon DEF Shortened, DataToken
      <3>4. h.op = "ProbeAck"
        BY <2>2, <3>2, <3>3 DEF Unprobed, ProbeAcks
      <3>5. ~Probing(c)
        BY <3>3 DEF Tokens, ProbeTokens, Answering
      <3>6. state = "PROBE_WAIT" => d # c /\ d \in active_requests
        BY <2>2, <3>5 DEF Unprobed, MachineOK, Tokens, ProbeTokens
      <3>7. state' \in {"PROBE_PERFORM", "PROBE_WAIT"}
        BY <2>2, <3>2, <3>4, <3>6 DEF Unprobed
      <3> QED
        BY <2>2, <2>3, <3>2, <3>7, UnprobedKept
    <2>5. CASE SendProbes
      <3> DEFINE m == [op |-> "ProbeBlock", param |-> ProbeParam]
      <3>1. PICK c \in Con : outstanding_requests' = outstanding_requests \ {c} /\ Give(c, "B", m)
        BY <2>5, ProbedConnection, Zenon DEF Types
      <3>2. m \in DownMsg /\ m.op \in ProbeBlocks
        BY MsgTypes DEF ProbeParam, Cap, ProbeBlocks
      <3> HIDE DEF m
      <3>3. Has(net_down'[c]["B"], ProbeBlocks)
        BY <3>1, <3>2, GiveEffect DEF Appended
      <3>4. d \in outstanding_requests => d \in outstanding_requests' \/ Probing(d)'
        BY <3>1, <3>3 DEF Probing
      <3>5. state' \in {"PROBE_PERFORM", "PROBE_WAIT"}
        BY <2>2, <2>5 DEF SendProbes
      <3> QED
        BY <2>2, <2>3, <3>4, <3>5, UnprobedKept
    <2>6. CASE ProbesDone
      <3>1. state' = "PROBE_WAIT" /\ UNCHANGED outstanding_requests
        BY <2>6 DEF ProbesDone
      <3> QED
        BY <2>2, <2>3, <3>1, UnprobedKept
    <2>7. CASE SendResponseMemory \/ SendResponsePeer \/ SendDenyResponse
      <3>1. state \in {"RESPOND", "UNALIGNED"}
        BY <2>7 DEF SendResponseMemory, SendResponsePeer, SendDenyResponse
      <3> QED
        BY <2>2, <3>1 DEF Unprobed
    <2>8. CASE ~Machine /\ \A c \in Con : ~ProcessResponses(c)
      <3>1. UNCHANGED <<state, outstanding_requests>>
        BY <1>3, <2>8, MachineFrame
      <3>2. state' \in {"PROBE_PERFORM", "PROBE_WAIT"}
        BY <2>2, <3>1 DEF Unprobed
      <3> QED
        BY <2>2, <2>3, <3>1, <3>2, UnprobedKept
    <2> QED
      BY <1>3, <2>4, <2>5, <2>6, <2>7, <2>8, Zenon DEF Machine
  <1> QED
    BY <1>1, <1>2, <1>3

\* Nobody has the line at the start.
LEMMA PermInit == Init => PermInv
  <1> SUFFICES ASSUME Init PROVE PermInv
    OBVIOUS
  <1>1. TokenInv
    BY TokensInit
  <1>2. ASSUME NEW c \in Con PROVE Asked(c) /\ EntryOK(c) /\ Capping(c) /\ ~May(c, "ToT")
    <2>1. /\ c_out[c] = <<>> /\ net_up[c]["A"] = <<>> /\ net_down[c]["B"] = <<>>
          /\ c_probes[c] = <<>> /\ net_down[c]["D"] = <<>> /\ ops_in = <<>> /\ state = "IDLE"
          /\ c_pc[c] = "idle" /\ c_entry[c].perm = "ToN" /\ c_entry[c].modified = FALSE
      BY DEF Init
    <2>2. \A K, P : ParamOf(<<>>, K, P)
      BY HasEmpty, FieldsNone, Zenon
    <2>3. ~Granted(c)
      BY <2>1, HasEmpty DEF Granted
    <2>4. Asked(c)
      BY <2>1, <2>2 DEF Asked, Serving
    <2> QED
      BY <2>1, <2>3, <2>4 DEF EntryOK, Capping, May
  <1> QED
    BY <1>1, <1>2, Zenon DEF PermInv, Exclusive

\* Permissions stay as the machine has granted them.
LEMMA PermStep == ASSUME Prompt, PermInv, [Next]_vars PROVE PermInv'
  <1>1. TokenInv'
    BY TokenInvStep DEF PermInv
  <1>2. \A c \in Con : Asked(c)' /\ EntryOK(c)' /\ Capping(c)'
    BY AskedStep, EntryStep, CappingStep, Zenon
  <1> QED
    BY <1>1, <1>2, ExclusiveStep, Zenon DEF PermInv

\* While a requester may write the line, no other requester has a copy,
\* provided that a thread inserts what it was granted before the next probe
\* is answered: send_probes takes every other copy before a grant, and no
\* requester raises its permission without one.
THEOREM OneWriter == ASSUME Prompt PROVE Spec => []SingleWriter
  <1>1. PermInv /\ [Next]_vars => PermInv'
    BY PermStep
  <1>2. PermInv => SingleWriter
    <2> SUFFICES ASSUME PermInv, NEW c \in Con, NEW d \in Con, c # d, c_entry[c].perm = "ToT"
                 PROVE  c_entry[d].perm = "ToN"
      BY Zenon DEF SingleWriter
    <2>1. c_entry[d].perm \in Cap
      BY DEF PermInv, TokenInv, Types, RequesterTypes
    <2>2. ~May(d, "ToT") /\ ~May(d, "ToB")
      BY Zenon DEF PermInv, Exclusive, May
    <2> QED
      BY <2>1, <2>2 DEF May, Cap
  <1> QED
    BY <1>1, <1>2, PermInit, PTL DEF Spec

-----------------------------------------------------------------------------
(* Values *)

\* The last write issued decides what the memory will hold.
LEMMA FinalAppend ==
  ASSUME Types, NEW v \in Version, mem_writes' = Append(mem_writes, v) PROVE Final' = v
  BY DEF Types, MemoryTypes, Final

\* The last element of a queue that is not empty stays the last one.
LEMMA LastOfTail ==
  ASSUME NEW S, NEW s \in Seq(S), s # <<>>
  PROVE  IF Tail(s) = <<>> THEN Head(s) = s[Len(s)] ELSE Tail(s)[Len(Tail(s))] = s[Len(s)]
  <1>1. /\ Len(s) \in Nat /\ Len(s) > 0 /\ Head(s) = s[1] /\ Len(Tail(s)) = Len(s) - 1
        /\ \A i \in 1 .. Len(s) - 1 : Tail(s)[i] = s[i + 1]
    OBVIOUS
  <1>0. Tail(s) = <<>> <=> Len(Tail(s)) = 0
    <2>1. \A t \in Seq(S) : t = <<>> <=> Len(t) = 0
      OBVIOUS
    <2> QED
      BY <2>1, HeadTail, Zenon
  <1>2. CASE Len(s) = 1
    BY <1>0, <1>1, <1>2
  <1>3. CASE Len(s) # 1
    <2>1. Len(s) - 1 \in 1 .. Len(s) - 1 /\ (Len(s) - 1) + 1 = Len(s)
      BY <1>1, <1>3
    <2>2. Tail(s)[Len(s) - 1] = s[Len(s)]
      BY <1>1, <2>1
    <2>3. Tail(s) # <<>>
      BY <1>0, <1>1, <1>3
    <2> QED
      BY <1>1, <2>2, <2>3
  <1> QED
    BY <1>2, <1>3

\* A write that completes does not change that.
LEMMA FinalTail == ASSUME Types, CompleteWrite PROVE Final' = Final
  <1>1. /\ mem_writes # <<>> /\ memory' = Head(mem_writes) /\ mem_writes' = Tail(mem_writes)
        /\ mem_writes \in Seq(Version)
    BY DEF CompleteWrite, Types, MemoryTypes
  <1> QED
    BY <1>1, LastOfTail, Zenon DEF Final

\* What the values of a connection are made of.
Values(d) ==
    <<c_pc[d], c_entry[d], c_grant[d], c_out[d], net_up[d]["C"], net_down[d]["D"]>>

\* A connection that a step does not touch.
LEMMA ValueFrame ==
  ASSUME NEW d \in Con, Newest(d), Released(d), Values(d)' = Values(d), latest' = latest,
         Final = latest => Final' = latest
  PROVE  Newest(d)' /\ Released(d)'
  BY Zenon DEF Newest, Released, Values

\* The other connections during a step of one requester, or of one channel.
LEMMA Elsewhere ==
  ASSUME Types, NEW c \in Con, Requester(c) \/ Channels(c), NEW d \in Con, d # c
  PROVE  Values(d)' = Values(d)
  <1> DEFINE Same == Values(d)' = Values(d)
  <1>0. ASSUME c_pc'[d] = c_pc[d], c_entry'[d] = c_entry[d], c_grant'[d] = c_grant[d],
               c_out'[d] = c_out[d], net_up'[d]["C"] = net_up[d]["C"],
               net_down'[d]["D"] = net_down[d]["D"]
        PROVE  Same
    BY <1>0, Zenon DEF Values
  <1> HIDE DEF Same
  <1>1. ASSUME Access(c) \/ InsertEntry(c) \/ HandleRelease(c) PROVE Same
    <2>1. /\ c_pc'[d] = c_pc[d] /\ c_entry'[d] = c_entry[d] /\ c_out'[d] = c_out[d]
      BY <1>1 DEF Types, RequesterTypes, Access, AccessLine, AcquireBlock, InsertEntry,
                  HandleRelease, Perform
    <2>2. UNCHANGED <<c_grant, net_up, net_down>>
      BY <1>1 DEF Access, AccessLine, AcquireBlock, InsertEntry, HandleRelease
    <2> QED
      BY <1>0, <2>1, <2>2
  <1>2. ASSUME ReceiveResponse(c) PROVE Same
    <2>1. /\ c_pc'[d] = c_pc[d] /\ c_entry'[d] = c_entry[d] /\ c_out'[d] = c_out[d]
          /\ c_grant'[d] = c_grant[d]
      BY <1>2 DEF Types, RequesterTypes, ReceiveResponse, Perform
    <2>2. net_down'[d]["D"] = net_down[d]["D"]
      BY <1>2, ReceiveEffect DEF ReceiveResponse
    <2>3. UNCHANGED net_up
      BY <1>2 DEF ReceiveResponse
    <2> QED
      BY <1>0, <2>1, <2>2, <2>3
  <1>3. ASSUME ReceiveProbe(c) PROVE Same
    <2>1. net_down'[d]["D"] = net_down[d]["D"]
      BY <1>3, ReceiveEffect DEF ReceiveProbe
    <2>2. UNCHANGED <<c_pc, c_entry, c_grant, c_out, net_up>>
      BY <1>3 DEF ReceiveProbe
    <2> QED
      BY <1>0, <2>1, <2>2
  <1>4. ASSUME ProcessProbes(c) \/ WaitForEntry(c) PROVE Same
    <2>1. c_entry'[d] = c_entry[d] /\ c_out'[d] = c_out[d]
      BY <1>4 DEF Types, RequesterTypes, ProcessProbes, WaitForEntry, Perform
    <2>2. UNCHANGED <<c_pc, c_grant, net_up, net_down>>
      BY <1>4 DEF ProcessProbes, WaitForEntry
    <2> QED
      BY <1>0, <2>1, <2>2
  <1>5. ASSUME CheckSend(c) PROVE Same
    <2>1. /\ c_out'[d] = c_out[d]
          /\ \A x \in Con, k \in {"A", "C", "E"} :
                x # c \/ k # Head(c_out[c]).chan => net_up'[x][k] = net_up[x][k]
      BY <1>5, CheckSendFields, Zenon
    <2>2. net_up'[d]["C"] = net_up[d]["C"]
      BY <2>1
    <2>3. UNCHANGED <<c_pc, c_entry, c_grant, net_down>>
      BY <1>5 DEF CheckSend
    <2> QED
      BY <1>0, <2>1, <2>2, <2>3
  <1>6. ASSUME Channels(c) PROVE Same
    <2>1. PICK ch \in {"A", "C", "E"} : net_up[c][ch] # <<>> /\ Take(c, ch)
      BY <1>6 DEF Channels, ForwardRequest, ProcessResponses, DropResponses, WaitForAck,
                  ReleaseFlits, ProbeAnswered
    <2>2. net_up'[d]["C"] = net_up[d]["C"]
      BY <2>1, TakeEffect
    <2>3. net_down'[d]["D"] = net_down[d]["D"]
      <3>1. CASE ReleaseFlits(c)
        BY <3>1, GiveEffect, MsgTypes DEF ReleaseFlits
      <3>2. CASE ~ReleaseFlits(c)
        BY <1>6, <3>2 DEF Channels, ForwardRequest, ProcessResponses, DropResponses, WaitForAck
      <3> QED
        BY <3>1, <3>2
    <2>4. UNCHANGED <<c_pc, c_entry, c_grant, c_out>>
      BY <1>6 DEF Channels, ForwardRequest, ProcessResponses, DropResponses, WaitForAck,
                  ReleaseFlits, reqVars
    <2> QED
      BY <1>0, <2>2, <2>3, <2>4
  <1> QED
    BY <1>1, <1>2, <1>3, <1>4, <1>5, <1>6, Zenon DEF Requester, Same

\* While an answer with data is under way, or the request is being answered,
\* every other connection is capped and the one served has no line to write.
LEMMA NoWriter ==
  ASSUME PermInv, NEW c \in Con, aligned, state # "IDLE",
         state = "RESPOND" \/ (Serving(current_connection) /\ \E d \in Con : DataToken(d))
  PROVE  c_entry[c].perm # "ToT"
  <1>1. CASE c = current_connection
    <2>1. Serving(c)
      BY <1>1 DEF Serving
    <2>2. c_pc[c] = "wait"
      BY <2>1, Zenon DEF PermInv, TokenInv, Tokens, AcquireTokens
    <2> QED
      BY <2>2 DEF PermInv, EntryOK
  <1>2. CASE c # current_connection
    <2>1. ~Unprobed(c)
      BY DEF Unprobed
    <2> QED
      BY <1>2, <2>1 DEF PermInv, Capping, Capped, May
  <1> QED
    BY <1>1, <1>2

\* An answer with data is under way only while the machine collects answers.
LEMMA DataCollected ==
  ASSUME DataInv, NEW d \in Con, DataToken(d)
  PROVE  /\ aligned /\ state \in {"PROBE_PERFORM", "PROBE_WAIT"}
         /\ Serving(current_connection) /\ d \in active_requests
  <1>1. Answering(d)
    <2>1. {"ProbeAckData"} \subseteq ProbeAcks
      BY DEF ProbeAcks
    <2> QED
      BY <2>1, HasSubset, Zenon DEF DataToken, Answering
  <1>2. aligned /\ state \in {"PROBE_PERFORM", "PROBE_WAIT"} /\ d \in active_requests
    BY <1>1 DEF DataInv, PermInv, TokenInv, Tokens, ProbeTokens
  <1> QED
    BY <1>2 DEF Serving

\* Nobody but the writer has anything: no copy, no grant, no data under way.
LEMMA WriterAlone ==
  ASSUME DataInv, NEW c \in Con, c_pc[c] \in {"idle", "check"}, c_entry[c].perm = "ToT", NEW d \in Con
  PROVE  /\ ~Has(c_out[d], Carries) /\ ~Has(net_up[d]["C"], Carries) /\ ~Granted(d) /\ ~FromPeer
         /\ d # c => c_entry[d].perm = "ToN" /\ c_entry[d].modified = FALSE
  <1> USE DEF DataInv, PermInv, TokenInv
  <1>0. c_entry[d].perm \in Cap /\ c_entry[d].modified \in BOOLEAN /\ c_want[d] \in {"ToB", "ToT"}
    BY DEF Types, RequesterTypes
  <1>1. ASSUME d # c PROVE c_entry[d].perm = "ToN" /\ c_entry[d].modified = FALSE /\ ~Granted(d)
    <2>1. ~May(d, "ToT") /\ ~May(d, "ToB")
      BY <1>1, Zenon DEF Exclusive, May
    <2>2. c_entry[d].perm = "ToN" /\ ~Granted(d)
      BY <1>0, <2>1 DEF May, Cap
    <2> QED
      BY <1>0, <2>2 DEF EntryOK
  <1>2. ~Granted(c)
    BY GrantWaits DEF Granted
  <1>3. ASSUME NEW x \in Con PROVE ~DataToken(x)
    BY <1>3, DataCollected, NoWriter
  <1>4. ~FromPeer
    <2>1. state = "RESPOND" => aligned
      BY DEF MachineOK
    <2> QED
      BY <2>1, NoWriter DEF FromPeer
  <1>5. ~Has(c_out[d], {"ReleaseData"}) /\ ~Has(net_up[d]["C"], {"ReleaseData"})
    <2>1. CASE d = c
      <3>1. ~Has(c_out[c], Releases) /\ ~Has(net_up[c]["C"], Releases)
        BY DEF Tokens, ReleaseTokens
      <3>2. {"ReleaseData"} \subseteq Releases
        BY DEF Releases
      <3> QED
        BY <2>1, <3>1, <3>2, HasSubset, Zenon
    <2>2. CASE d # c
      BY <1>1, <2>2 DEF Released
    <2> QED
      BY <2>1, <2>2
  <1>6. \A s : Has(s, Carries) => Has(s, {"ProbeAckData"}) \/ Has(s, {"ReleaseData"})
    BY DEF Has, Carries
  <1> QED
    BY <1>1, <1>2, <1>3, <1>4, <1>5, <1>6 DEF DataToken

\* What a connection is not doing when its thread is not in a release.
LEMMA NoRelease ==
  ASSUME TokenInv, NEW c \in Con, c_pc[c] # "release"
  PROVE  /\ ~Has(c_out[c], {"Release"}) /\ ~Has(net_up[c]["C"], {"Release"})
         /\ ~Has(c_out[c], {"ReleaseData"}) /\ ~Has(net_up[c]["C"], {"ReleaseData"})
         /\ ~Has(net_down[c]["D"], ReleaseAcks)
  <1>1. ~Has(c_out[c], Releases) /\ ~Has(net_up[c]["C"], Releases) /\ ~Has(net_down[c]["D"], ReleaseAcks)
    BY Zenon DEF TokenInv, Tokens, ReleaseTokens
  <1>2. {"Release"} \subseteq Releases /\ {"ReleaseData"} \subseteq Releases
    BY DEF Releases
  <1> QED
    BY <1>1, <1>2, HasSubset, Zenon

\* A write makes a version that nobody else knows of.
LEMMA ValueWrite ==
  ASSUME DataInv, NEW c \in Con, AccessLine(c, "ToT"), NEW d \in Con
  PROVE  Newest(d)' /\ Released(d)' /\ ~FromPeer' /\ c_entry'[c].modified
  <1> USE DEF DataInv, PermInv
  <1>1. /\ c_pc'[c] = "idle" /\ c_entry[c].perm = "ToT" /\ c_entry'[c].modified
        /\ c_entry'[c].data = latest'
        /\ \A x \in Con : x # c => Unmoved(x)
    BY AccessLineEffect
  <1>2. c_pc[c] \in {"idle", "check"} /\ UNCHANGED <<c_out, net_up, net_down, machineVars>>
    BY DEF AccessLine, Attempts
  <1>3. /\ ~Has(c_out[d], Carries) /\ ~Has(net_up[d]["C"], Carries) /\ ~Granted(d) /\ ~FromPeer
        /\ d # c => c_entry[d].perm = "ToN" /\ c_entry[d].modified = FALSE
    BY <1>1, <1>2, WriterAlone
  <1>4. ~FromPeer'
    BY <1>2, <1>3 DEF FromPeer, machineVars
  <1>5. ~Has(net_down[d]["D"], {"GrantData"})
    BY <1>3 DEF Granted
  <1>6. /\ DataOf(c_out'[d], Carries, latest') /\ DataOf(net_up'[d]["C"], Carries, latest')
        /\ DataOf(net_down'[d]["D"], {"GrantData"}, latest')
    BY <1>2, <1>3, <1>5, FieldsNone, Zenon
  <1>7. CASE d = c
    <2>1. Newest(c)'
      BY <1>1, <1>6, <1>7 DEF Newest
    <2>2. Released(c)'
      BY <1>2, NoRelease DEF Released
    <2> QED
      BY <1>1, <1>4, <1>7, <2>1, <2>2
  <1>8. CASE d # c
    <2>1. /\ c_entry'[d].perm = "ToN" /\ c_entry'[d].modified = FALSE /\ c_pc'[d] = c_pc[d]
          /\ c_pc[d] # "insert"
      BY <1>1, <1>3, <1>8 DEF Unmoved, Granted
    <2>2. Newest(d)'
      BY <1>6, <2>1 DEF Newest
    <2>3. ~Has(c_out[d], {"ReleaseData"}) /\ ~Has(net_up[d]["C"], {"ReleaseData"})
      BY <1>3, <1>8 DEF Released
    <2>4. Released(d)'
      BY <1>2, <2>1, <2>3 DEF Released
    <2> QED
      BY <1>1, <1>4, <2>2, <2>4
  <1> QED
    BY <1>7, <1>8

\* The other steps of the application thread.
LEMMA ValueApplication ==
  ASSUME DataInv, NEW c \in Con,
         AccessLine(c, "ToB") \/ AcquireBlock(c, "ToB") \/ AcquireBlock(c, "ToT")
         \/ InsertEntry(c) \/ HandleRelease(c)
  PROVE  Newest(c)' /\ Released(c)'
  <1> USE DEF DataInv, PermInv
  <1>1. CASE AccessLine(c, "ToB")
    <2>1. /\ c_pc'[c] = "idle" /\ c_grant' = c_grant /\ c_entry' = c_entry /\ latest' = latest
      BY <1>1, AccessLineEffect
    <2>2. UNCHANGED <<c_out, net_up, net_down, memory, mem_writes>>
      BY <1>1 DEF AccessLine
    <2> QED
      BY <2>1, <2>2, Zenon DEF Newest, Released, Final
  <1>2. ASSUME NEW want \in {"ToB", "ToT"}, AcquireBlock(c, want) PROVE Newest(c)' /\ Released(c)'
    <2> DEFINE m == [chan |-> "A", op |-> "AcquireBlock", param |-> GrowFor(c_entry[c].perm, want)]
    <2>1. /\ c_pc[c] \in {"idle", "check"} /\ Perform(c, m) /\ c_pc'[c] = "wait"
          /\ UNCHANGED <<c_entry, c_grant, net_up, net_down, memory, mem_writes, latest>>
      BY <1>2, AcquireEffect DEF AcquireBlock, Attempts
    <2>2. m \in UpMsg /\ m.op = "AcquireBlock"
      BY MsgTypes DEF GrowFor, Grow
    <2> HIDE DEF m
    <2>3. Joined(c_out[c], c_out'[c], m) /\ Appended(c_out[c], c_out'[c], m)
      BY <2>1, <2>2, PerformEffect, PerformFields DEF TokenInv
    <2>4. /\ DataOf(c_out[c], Carries, latest) => DataOf(c_out'[c], Carries, latest)
          /\ Has(c_out'[c], {"ReleaseData"}) => Has(c_out[c], {"ReleaseData"})
          /\ Has(c_out'[c], {"Release"}) => Has(c_out[c], {"Release"})
      BY <2>2, <2>3 DEF Joined, Appended, Carries
    <2>5. Newest(c)'
      BY <2>1, <2>4 DEF Newest
    <2>6. Released(c)'
      BY <2>1, <2>4, Zenon DEF Released, Final
    <2> QED
      BY <2>5, <2>6
  <1>3. CASE InsertEntry(c)
    <2>1. /\ c_pc[c] = "insert" /\ c_pc'[c] = "check" /\ latest' = latest
          /\ c_entry'[c].data = c_grant[c] /\ c_entry'[c].modified = FALSE
      BY <1>3, InsertEffect
    <2>2. UNCHANGED <<c_out, net_up, net_down, c_grant>>
      BY <1>3 DEF InsertEntry
    <2>3. Newest(c)'
      BY <2>1, <2>2 DEF Newest
    <2>4. Released(c)'
      BY <2>1, <2>2, NoRelease DEF Released
    <2> QED
      BY <2>3, <2>4
  <1>4. CASE HandleRelease(c)
    <2> DEFINE m == IF c_entry[c].modified
                    THEN [chan |-> "C", op |-> "ReleaseData", data |-> c_entry[c].data]
                    ELSE [chan |-> "C", op |-> "Release"]
    <2>1. /\ c_pc[c] = "idle" /\ c_pc'[c] = "release" /\ c_entry[c].perm # "ToN" /\ Perform(c, m)
          /\ UNCHANGED <<c_entry, c_grant, net_up, net_down, latest>>
      BY <1>4, HandleReleaseEffect DEF HandleRelease
    <2>2. c_entry[c].data \in Version
      BY DEF TokenInv, Types, RequesterTypes
    <2>3. /\ m \in UpMsg /\ (m.op \in Carries => m.data = c_entry[c].data)
          /\ m.op \in {"ReleaseData"} => c_entry[c].modified
          /\ m.op \in {"Release"} => ~c_entry[c].modified
      BY <2>2, MsgTypes DEF Carries
    <2> HIDE DEF m
    <2>4. Joined(c_out[c], c_out'[c], m) /\ Appended(c_out[c], c_out'[c], m)
      BY <2>1, <2>3, PerformEffect, PerformFields DEF TokenInv
    <2>5. c_entry[c].data = latest
      BY <2>1 DEF Newest
    <2>6. DataOf(c_out[c], Carries, latest) => DataOf(c_out'[c], Carries, latest)
      BY <2>3, <2>4, <2>5 DEF Joined
    <2>7. /\ Has(c_out'[c], {"ReleaseData"}) => Has(c_out[c], {"ReleaseData"}) \/ c_entry[c].modified
          /\ Has(c_out'[c], {"Release"}) => Has(c_out[c], {"Release"}) \/ ~c_entry[c].modified
      BY <2>3, <2>4 DEF Appended
    <2>8. Newest(c)'
      BY <2>1, <2>6 DEF Newest
    <2>9. Released(c)'
      BY <2>1, <2>7, NoRelease DEF Released
    <2> QED
      BY <2>8, <2>9
  <1> QED
    BY <1>1, <1>2, <1>3, <1>4

\* The network thread.
LEMMA ValueNetwork ==
  ASSUME DataInv, NEW c \in Con,
         ReceiveResponse(c) \/ ReceiveProbe(c) \/ ProcessProbes(c) \/ WaitForEntry(c) \/ CheckSend(c)
  PROVE  Newest(c)' /\ Released(c)'
  <1> USE DEF DataInv, PermInv
  <1>1. CASE ReceiveResponse(c)
    <2> DEFINE h == Head(net_down[c]["D"])
    <2>1. /\ net_down[c]["D"] # <<>> /\ net_down' = [net_down EXCEPT ![c]["D"] = Tail(@)]
          /\ UNCHANGED <<net_up, memory, mem_writes, latest>>
          /\ \/ UNCHANGED c_out
             \/ Perform(c, [chan |-> "E", op |-> "GrantAck"])
      BY <1>1 DEF ReceiveResponse
    <2>2. Shortened(net_down[c]["D"], net_down'[c]["D"]) /\ Left(net_down[c]["D"], net_down'[c]["D"])
      BY <2>1, ReceiveEffect, ReceiveFields DEF TokenInv
    <2>3. /\ DataOf(net_down'[c]["D"], {"GrantData"}, latest)
          /\ h.op \in {"GrantData"} => h.data = latest
      BY <2>2, Zenon DEF Left, Newest
    <2>4. /\ Has(net_down'[c]["D"], ReleaseAcks) => Has(net_down[c]["D"], ReleaseAcks)
          /\ h.op \in ReleaseAcks => Has(net_down[c]["D"], ReleaseAcks)
      BY <2>2, Zenon DEF Shortened
    <2>5. /\ DataOf(c_out'[c], Carries, latest)
          /\ Has(c_out'[c], {"ReleaseData"}) => Has(c_out[c], {"ReleaseData"})
          /\ Has(c_out'[c], {"Release"}) => Has(c_out[c], {"Release"})
      <3>1. CASE UNCHANGED c_out
        BY <3>1 DEF Newest
      <3>2. CASE Perform(c, [chan |-> "E", op |-> "GrantAck"])
        <4>1. PICK m \in UpMsg : Perform(c, m) /\ m.op = "GrantAck"
          BY <3>2, MsgTypes
        <4>2. Joined(c_out[c], c_out'[c], m) /\ Appended(c_out[c], c_out'[c], m)
          BY <4>1, PerformEffect, PerformFields DEF TokenInv
        <4>3. DataOf(c_out[c], Carries, latest)
          BY DEF Newest
        <4> QED
          BY <4>1, <4>2, <4>3 DEF Joined, Appended, Carries
      <3> QED
        BY <2>1, <3>1, <3>2
    <2>6. \/ /\ c_pc[c] = "wait" /\ c_pc'[c] = "insert" /\ c_entry' = c_entry
             /\ h.op = "GrantData" /\ c_grant'[c] = h.data
          \/ c_pc[c] = "wait" /\ c_pc'[c] = "idle" /\ c_entry' = c_entry
          \/ /\ c_pc[c] = "release" /\ c_pc'[c] = "idle" /\ h.op = "ReleaseAck"
             /\ c_entry'[c].perm = "ToN" /\ c_entry'[c].modified = FALSE
      BY <1>1, ReceiveResponseEffect
    <2> HIDE DEF h
    <2>7. Newest(c)'
      BY <2>1, <2>3, <2>5, <2>6 DEF Newest
    <2>8. CASE c_entry' = c_entry
      BY <2>1, <2>4, <2>5, <2>7, <2>8, Zenon DEF Released, Final
    <2>9. CASE h.op = "ReleaseAck" /\ c_entry'[c].modified = FALSE
      <3>1. ~Has(c_out[c], Releases) /\ ~Has(net_up[c]["C"], Releases)
        BY <2>4, <2>9 DEF TokenInv, Tokens, ReleaseTokens, ReleaseAcks
      <3>2. {"ReleaseData"} \subseteq Releases
        BY DEF Releases
      <3>3. ~Has(c_out[c], {"ReleaseData"}) /\ ~Has(net_up[c]["C"], {"ReleaseData"})
        BY <3>1, <3>2, HasSubset, Zenon
      <3> QED
        BY <2>1, <2>5, <2>7, <2>9, <3>3 DEF Released
    <2> QED
      BY <2>6, <2>7, <2>8, <2>9
  <1>2. CASE ReceiveProbe(c)
    <2>1. net_down'[c]["D"] = net_down[c]["D"]
      BY <1>2, ReceiveEffect DEF ReceiveProbe, TokenInv
    <2>2. UNCHANGED <<c_pc, c_entry, c_grant, c_out, net_up, memory, mem_writes, latest>>
      BY <1>2 DEF ReceiveProbe
    <2> QED
      BY <2>1, <2>2, ValueFrame, Zenon DEF Values, Final
  <1>3. CASE ProcessProbes(c)
    <2> DEFINE new == ProbedEntry(c_entry[c], Head(c_probes[c]).param)
               m == IF c_entry[c].modified /\ ~new.modified
                    THEN [chan |-> "C", op |-> "ProbeAckData", data |-> c_entry[c].data]
                    ELSE [chan |-> "C", op |-> "ProbeAck"]
    <2>1. /\ Perform(c, m) /\ c_pc[c] # "release"
          /\ UNCHANGED <<c_pc, c_grant, net_up, net_down, latest>>
      BY <1>3 DEF ProcessProbes, EntryLocked
    <2>2. c_entry[c].data \in Version
      BY DEF TokenInv, Types, RequesterTypes
    <2>3. /\ m \in UpMsg /\ m.op \in ProbeAcks
          /\ m.op \in Carries => c_entry[c].modified /\ m.data = c_entry[c].data
      BY <2>2, MsgTypes DEF Carries, ProbeAcks
    <2> HIDE DEF m
    <2>4. Joined(c_out[c], c_out'[c], m) /\ Appended(c_out[c], c_out'[c], m)
      BY <2>1, <2>3, PerformEffect, PerformFields DEF TokenInv
    <2>5. c_entry[c].modified => c_entry[c].data = latest
      BY DEF EntryOK, Newest
    <2>6. DataOf(c_out[c], Carries, latest) => DataOf(c_out'[c], Carries, latest)
      BY <2>3, <2>4, <2>5 DEF Joined
    <2>7. /\ Has(c_out'[c], {"ReleaseData"}) => Has(c_out[c], {"ReleaseData"})
          /\ Has(c_out'[c], {"Release"}) => Has(c_out[c], {"Release"})
      BY <2>3, <2>4 DEF Appended, ProbeAcks
    <2>8. c_entry'[c].perm # "ToN" => c_entry[c].perm # "ToN" /\ c_entry'[c].data = c_entry[c].data
      BY <1>3, ProcessProbesEffect
    <2>9. Newest(c)'
      BY <2>1, <2>6, <2>8 DEF Newest
    <2>10. Released(c)'
      BY <2>1, <2>7, NoRelease DEF Released
    <2> QED
      BY <2>9, <2>10
  <1>4. CASE WaitForEntry(c)
    <2>1. UNCHANGED <<c_pc, c_entry, c_grant, c_out, net_up, net_down, memory, mem_writes, latest>>
      BY <1>4 DEF WaitForEntry
    <2> QED
      BY <2>1, ValueFrame, Zenon DEF Values, Final
  <1>5. CASE CheckSend(c)
    <2> DEFINE m == Head(c_out[c])
    <2>1. UNCHANGED <<c_pc, c_entry, c_grant, net_down, memory, mem_writes, latest>>
      BY <1>5 DEF CheckSend
    <2>2. /\ m.chan \in {"A", "C", "E"}
          /\ Shortened(c_out[c], c_out'[c]) /\ Left(c_out[c], c_out'[c])
          /\ Appended(net_up[c][m.chan], net_up'[c][m.chan], m)
          /\ Joined(net_up[c][m.chan], net_up'[c][m.chan], m)
          /\ \A x \in Con, k \in {"A", "C", "E"} :
                x # c \/ k # m.chan => net_up'[x][k] = net_up[x][k]
      BY <1>5, CheckSendFields, Zenon DEF TokenInv
    <2>3. DataOf(c_out'[c], Carries, latest) /\ (m.op \in Carries => m.data = latest)
      BY <2>2, Zenon DEF Left, Newest
    <2>4. \A K : (Has(c_out'[c], K) => Has(c_out[c], K)) /\ (m.op \in K => Has(c_out[c], K))
      BY <2>2, Zenon DEF Shortened
    <2> HIDE DEF m
    <2>5. /\ DataOf(net_up'[c]["C"], Carries, latest)
          /\ \A K : Has(net_up'[c]["C"], K) => Has(net_up[c]["C"], K) \/ Has(c_out[c], K)
      <3>1. DataOf(net_up[c]["C"], Carries, latest)
        BY DEF Newest
      <3>2. CASE m.chan = "C"
        BY <2>2, <2>3, <2>4, <3>1, <3>2, Zenon DEF Joined, Appended
      <3>3. CASE m.chan # "C"
        <4>1. net_up'[c]["C"] = net_up[c]["C"]
          BY <2>2, <3>3
        <4> QED
          BY <3>1, <4>1
      <3> QED
        BY <3>2, <3>3
    <2>6. Newest(c)'
      BY <2>1, <2>3, <2>5, Zenon DEF Newest
    <2>7. Released(c)'
      BY <2>1, <2>4, <2>5, Zenon DEF Released, Final
    <2> QED
      BY <2>6, <2>7
  <1> QED
    BY <1>1, <1>2, <1>3, <1>4, <1>5

\* The endpoint takes a message; released data is the last write issued.
LEMMA ValueChannels ==
  ASSUME DataInv, NEW c \in Con, Channels(c)
  PROVE  Newest(c)' /\ Released(c)' /\ (Final = latest => Final' = latest)
  <1> USE DEF DataInv, PermInv
  <1>1. UNCHANGED <<c_pc, c_entry, c_grant, c_out, latest>>
    BY DEF Channels, ForwardRequest, ProcessResponses, DropResponses, WaitForAck, ReleaseFlits, reqVars
  <1>2. PICK ch \in {"A", "C", "E"} : net_up[c][ch] # <<>> /\ Take(c, ch) /\ (ReleaseFlits(c) => ch = "C")
    BY DEF Channels, ForwardRequest, ProcessResponses, DropResponses, WaitForAck,
           ReleaseFlits, ProbeAnswered
  <1>3. /\ DataOf(net_up'[c]["C"], Carries, latest)
        /\ \A K : Has(net_up'[c]["C"], K) => Has(net_up[c]["C"], K)
    <2>1. DataOf(net_up[c]["C"], Carries, latest)
      BY DEF Newest
    <2>2. CASE ch = "C"
      <3>1. Shortened(net_up[c]["C"], net_up'[c]["C"]) /\ Left(net_up[c]["C"], net_up'[c]["C"])
        BY <1>2, <2>2, TakeEffect, TakeFields DEF TokenInv
      <3> QED
        BY <2>1, <3>1, Zenon DEF Shortened, Left
    <2>3. CASE ch # "C"
      <3>1. net_up'[c]["C"] = net_up[c]["C"]
        BY <1>2, <2>3, TakeEffect DEF TokenInv
      <3> QED
        BY <2>1, <3>1
    <2> QED
      BY <2>2, <2>3
  <1>4. CASE ~ReleaseFlits(c)
    <2>1. UNCHANGED <<net_down, memory, mem_writes>>
      BY <1>4 DEF Channels, ForwardRequest, ProcessResponses, DropResponses, WaitForAck
    <2>2. Newest(c)'
      BY <1>1, <1>3, <2>1, Zenon DEF Newest
    <2>3. Released(c)'
      BY <1>1, <1>3, <2>1, Zenon DEF Released, Final
    <2> QED
      BY <1>1, <2>1, <2>2, <2>3 DEF Final
  <1>5. CASE ReleaseFlits(c)
    <2> DEFINE h == Head(net_up[c]["C"])
               m == [op |-> "ReleaseAck"]
    <2>1. /\ net_up[c]["C"] # <<>> /\ h.op \in {"Release", "ReleaseData"} /\ Take(c, "C")
          /\ mem_writes' = IF h.op = "ReleaseData" /\ aligned
                           THEN Append(mem_writes, h.data) ELSE mem_writes
          /\ Give(c, "D", m) /\ UNCHANGED memory
      BY <1>5 DEF ReleaseFlits
    <2>2. m \in DownMsg /\ m.op = "ReleaseAck"
      BY MsgTypes
    <2> HIDE DEF m
    <2>3. Appended(net_down[c]["D"], net_down'[c]["D"], m) /\ Joined(net_down[c]["D"], net_down'[c]["D"], m)
      BY <2>1, <2>2, GiveEffect, GiveFields DEF TokenInv
    <2>4. DataOf(net_down'[c]["D"], {"GrantData"}, latest)
      BY <2>2, <2>3 DEF Joined, Newest
    <2>5. Newest(c)'
      BY <1>1, <1>3, <2>4, Zenon DEF Newest
    <2>6. Shortened(net_up[c]["C"], net_up'[c]["C"]) /\ Left(net_up[c]["C"], net_up'[c]["C"])
      BY <2>1, TakeEffect, TakeFields DEF TokenInv
    <2>7. /\ h.op \in {"Release"} => Has(net_up[c]["C"], {"Release"})
          /\ h.op \in {"ReleaseData"} => Has(net_up[c]["C"], {"ReleaseData"})
          /\ h.op \in Carries => h.data = latest
      BY <2>6, Zenon DEF Shortened, Left, Newest
    <2>8. CASE h.op = "ReleaseData"
      <3>1. c_entry[c].modified /\ h.data = latest
        BY <2>7, <2>8 DEF Released, Carries
      <3>2. aligned /\ latest \in Version
        BY <3>1 DEF EntryOK, TokenInv, Types, MemoryTypes
      <3>3. mem_writes' = Append(mem_writes, latest)
        BY <2>1, <2>8, <3>1, <3>2
      <3>4. Final' = latest
        BY <3>2, <3>3, FinalAppend DEF TokenInv
      <3> QED
        BY <1>1, <1>3, <2>5, <3>4, Zenon DEF Released
    <2>9. CASE h.op = "Release"
      <3>1. ~c_entry[c].modified /\ UNCHANGED mem_writes
        BY <2>1, <2>7, <2>9 DEF Released
      <3> QED
        BY <1>1, <1>3, <2>1, <2>5, <3>1, Zenon DEF Released, Final
    <2> QED
      BY <2>1, <2>8, <2>9
  <1> QED
    BY <1>4, <1>5

\* When the machine answers from the memory, the memory is up to date: nobody
\* has a modified line any more, and with Prompt no write is still to be done.
LEMMA MemoryCurrent ==
  ASSUME DataInv, Prompt, SendResponseMemory PROVE memory = latest
  <1>1. state = "RESPOND" /\ current_response = "Memory" /\ mem_writes = <<>>
    BY DEF SendResponseMemory
  <1>2. aligned /\ ~FromPeer
    BY <1>1 DEF DataInv, PermInv, TokenInv, MachineOK, FromPeer
  <1>3. \A c \in Con : ~c_entry[c].modified /\ ~DataToken(c)
    BY <1>1, <1>2, NoWriter DEF DataInv, PermInv, EntryOK
  <1>4. Final = latest
    BY <1>2, <1>3 DEF DataInv, Backed
  <1> QED
    BY <1>1, <1>4 DEF Final

\* The cache machine and the memory.
LEMMA ValueMachine ==
  ASSUME DataInv, Prompt, Machine \/ CompleteWrite \/ UNCHANGED vars, NEW d \in Con
  PROVE  Newest(d)' /\ Released(d)' /\ latest' = latest /\ (Final = latest => Final' = latest)
  <1> USE DEF DataInv, PermInv
  <1>0. UNCHANGED <<c_pc, c_entry, c_grant, c_out, net_up, latest>>
    BY DEF Machine, StartProcessing, SendProbes, ProbesDone, SendResponseMemory,
           SendResponsePeer, SendDenyResponse, CompleteWrite, vars, reqVars
  <1>1. CASE StartProcessing \/ ProbesDone \/ UNCHANGED vars
    <2>1. UNCHANGED <<net_down, memory, mem_writes>>
      BY <1>1 DEF StartProcessing, ProbesDone, vars
    <2> QED
      BY <1>0, <2>1, ValueFrame, Zenon DEF Values, Final
  <1>2. CASE CompleteWrite
    <2>1. UNCHANGED net_down /\ Final' = Final
      BY <1>2, FinalTail DEF CompleteWrite, TokenInv
    <2> QED
      BY <1>0, <2>1, ValueFrame, Zenon DEF Values
  <1>3. CASE SendProbes
    <2> DEFINE m == [op |-> "ProbeBlock", param |-> ProbeParam]
    <2>1. PICK c \in Con : Give(c, "B", m)
      BY <1>3, ProbedConnection DEF TokenInv, Types
    <2>2. m \in DownMsg
      BY MsgTypes DEF ProbeParam, Cap
    <2> HIDE DEF m
    <2>3. net_down'[d]["D"] = net_down[d]["D"]
      BY <2>1, <2>2, GiveEffect DEF TokenInv
    <2>4. UNCHANGED <<memory, mem_writes>>
      BY <1>3 DEF SendProbes
    <2> QED
      BY <1>0, <2>3, <2>4, ValueFrame, Zenon DEF Values, Final
  <1>4. CASE SendResponseMemory \/ SendResponsePeer \/ SendDenyResponse
    <2>0. peer_data \in Version /\ memory \in Version /\ GrantParam \in Cap /\ current_connection \in Con
      BY DEF TokenInv, Types, MachineTypes, MemoryTypes, GrantParam, Cap
    <2>1. PICK m \in DownMsg : /\ Give(current_connection, "D", m)
                               /\ m.op \in {"GrantData", "Denied"}
                               /\ m.op = "GrantData" => m.data = latest
      <3>1. CASE SendResponseMemory
        <4>1. memory = latest
          BY <3>1, MemoryCurrent
        <4> QED
          BY <2>0, <3>1, <4>1, MsgTypes DEF SendResponseMemory
      <3>2. CASE SendResponsePeer
        <4>1. peer_data = latest
          BY <3>2 DEF SendResponsePeer, FromPeer
        <4> QED
          BY <2>0, <3>2, <4>1, MsgTypes DEF SendResponsePeer
      <3>3. CASE SendDenyResponse
        BY <3>3, MsgTypes DEF SendDenyResponse
      <3> QED
        BY <1>4, <3>1, <3>2, <3>3
    <2>2. Final = latest => Final' = latest
      <3>1. CASE SendResponsePeer
        <4>1. peer_data = latest /\ mem_writes' = Append(mem_writes, peer_data)
          BY <3>1 DEF SendResponsePeer, FromPeer, WriteBack
        <4> QED
          BY <2>0, <4>1, FinalAppend DEF TokenInv
      <3>2. CASE ~SendResponsePeer
        BY <1>4, <3>2 DEF SendResponseMemory, SendDenyResponse, Final
      <3> QED
        BY <3>1, <3>2
    <2>3. CASE d # current_connection
      <3>1. net_down'[d]["D"] = net_down[d]["D"]
        BY <2>0, <2>1, <2>3, GiveEffect DEF TokenInv
      <3> QED
        BY <1>0, <2>2, <3>1, ValueFrame, Zenon DEF Values
    <2>4. CASE d = current_connection
      <3>1. Appended(net_down[d]["D"], net_down'[d]["D"], m) /\ Joined(net_down[d]["D"], net_down'[d]["D"], m)
        BY <2>1, <2>4, GiveEffect, GiveFields DEF TokenInv
      <3>2. DataOf(net_down'[d]["D"], {"GrantData"}, latest)
        BY <2>1, <3>1 DEF Joined, Newest
      <3>3. Has(net_down'[d]["D"], ReleaseAcks) => Has(net_down[d]["D"], ReleaseAcks)
        BY <2>1, <3>1 DEF Appended, ReleaseAcks
      <3>4. Newest(d)'
        BY <1>0, <3>2, Zenon DEF Newest
      <3>5. Released(d)'
        BY <1>0, <2>2, <3>3, Zenon DEF Released
      <3> QED
        BY <1>0, <2>2, <3>4, <3>5
    <2> QED
      BY <2>3, <2>4
  <1> QED
    BY <1>1, <1>2, <1>3, <1>4 DEF Machine

\* Every step: what a connection has is new, and what it gives back is kept.
LEMMA ValueStep ==
  ASSUME DataInv, Prompt, [Next]_vars, NEW d \in Con PROVE Newest(d)' /\ Released(d)'
  <1>1. Newest(d) /\ Released(d) /\ Types
    BY DEF DataInv, PermInv, TokenInv
  <1>2. ASSUME NEW c \in Con, Channels(c) PROVE Newest(d)' /\ Released(d)'
    <2>1. latest' = latest
      BY <1>2 DEF Channels, ForwardRequest, ProcessResponses, DropResponses, WaitForAck, ReleaseFlits
    <2> QED
      BY <1>1, <1>2, <2>1, ValueChannels, Elsewhere, ValueFrame, Zenon
  <1>3. ASSUME NEW c \in Con, Requester(c), ~AccessLine(c, "ToT") PROVE Newest(d)' /\ Released(d)'
    <2>1. latest' = latest /\ Final' = Final
      BY <1>3 DEF Requester, Access, AccessLine, AcquireBlock, InsertEntry, HandleRelease,
                  ReceiveResponse, ReceiveProbe, ProcessProbes, WaitForEntry, CheckSend, Final
    <2>2. Newest(c)' /\ Released(c)'
      BY <1>3, ValueApplication, ValueNetwork DEF Requester, Access
    <2> QED
      BY <1>1, <1>3, <2>1, <2>2, Elsewhere, ValueFrame, Zenon
  <1> QED
    BY <1>2, <1>3, ValueWrite, ValueMachine, Zenon DEF Next

\* A new answer with data is the only one, and comes while answers are collected.
LEMMA AnswerFresh ==
  ASSUME DataInv, [Next]_vars, NEW x \in Con, DataToken(x)', ~DataToken(x)
  PROVE  /\ UNCHANGED state /\ state \notin {"RESPOND", "ACK_WAIT"}
         /\ \A d \in Con : d # x => ~DataToken(d)'
  <1> USE DEF DataInv, PermInv, TokenInv
  <1>1. ProcessProbes(x) /\ c_entry[x].modified /\ c_entry'[x] # c_entry[x]
    BY DataTokenStep
  <1>2. UNCHANGED state
    BY <1>1 DEF ProcessProbes, machineVars
  <1>3. x # current_connection /\ Probing(x) /\ \A d \in Con : d # x => Unmoved(d)
    BY <1>1, ProcessProbesEffect
  <1>4. aligned /\ state \in {"PROBE_PERFORM", "PROBE_WAIT", "RESPOND", "ACK_WAIT"}
    BY <1>3 DEF Tokens, ProbeTokens
  <1>5. ~Capped(x)
    BY <1>1 DEF EntryOK, Capped, May
  <1>6. Unprobed(x)
    BY <1>3, <1>4, <1>5 DEF Capping
  <1>7. ASSUME NEW d \in Con, d # x, DataToken(d)' PROVE FALSE
    <2>1. ~DataToken(d)
      BY <1>6 DEF Unprobed
    <2>2. c_entry'[d] # c_entry[d]
      BY <1>7, <2>1, DataTokenStep
    <2> QED
      BY <1>3, <1>7, <2>2 DEF Unmoved
  <1> QED
    BY <1>2, <1>6, <1>7 DEF Unprobed

\* The machine takes the only answer of a connection.
LEMMA AnswerTaken ==
  ASSUME DataInv, NEW c \in Con, ProbeAnswered(c), Take(c, "C"), UNCHANGED c_out
  PROVE  /\ ~DataToken(c)' /\ (Head(net_up[c]["C"]).op # "ProbeAckData" => ~DataToken(c))
         /\ Head(net_up[c]["C"]).op = "ProbeAckData" =>
               DataToken(c) /\ Head(net_up[c]["C"]).data = latest
         /\ \A d \in Con : d # c => (DataToken(d)' <=> DataToken(d))
  <1> USE DEF DataInv, PermInv, TokenInv
  <1> DEFINE s == net_up[c]["C"]
             h == Head(s)
  <1>1. s # <<>> /\ h.op \in ProbeAcks /\ s \in Seq(AnswerMsg)
    BY QueueTypes DEF ProbeAnswered, ProbeAcks
  <1>2. net_up'[c]["C"] = Tail(s) /\ \A d \in Con : d # c => net_up'[d]["C"] = net_up[d]["C"]
    BY DEF Take, Types, UpTypes
  <1>3. Once(s, ProbeAcks) /\ Has(s, ProbeAcks) /\ ~Has(c_out[c], ProbeAcks)
    <2>1. Has(s, ProbeAcks)
      BY <1>1, HasTail
    <2> QED
      BY <2>1 DEF Tokens, ProbeTokens
  <1>4. ~Has(Tail(s), ProbeAcks)
    BY <1>1, <1>3, HasTail
  <1>5. {"ProbeAckData"} \subseteq ProbeAcks
    BY DEF ProbeAcks
  <1>6. ~Has(Tail(s), {"ProbeAckData"}) /\ ~Has(c_out[c], {"ProbeAckData"})
    BY <1>3, <1>4, <1>5, HasSubset, Zenon
  <1>7. Has(s, {"ProbeAckData"}) <=> h.op = "ProbeAckData"
    BY <1>1, <1>6, HasTail
  <1>8. h.op \in Carries => h.data = latest
    <2>1. DataOf(s, Carries, latest)
      BY DEF Newest
    <2> QED
      BY <1>1, <2>1, LeftTail, Zenon DEF Left
  <1> HIDE DEF h
  <1>9. \A d \in Con : d # c => (DataToken(d)' <=> DataToken(d))
    BY <1>2, Zenon DEF DataToken
  <1> QED
    BY <1>2, <1>6, <1>7, <1>8, <1>9 DEF DataToken, Carries, h

\* At most one answer with data is under way, and none while the machine
\* responds.
LEMMA OneAnswer ==
  ASSUME DataInv, [Next]_vars
  PROVE  /\ \A c, d \in Con : DataToken(c)' /\ DataToken(d)' => c = d
         /\ \A c \in Con : state' \in {"RESPOND", "ACK_WAIT"} => ~DataToken(c)'
  <1> USE DEF DataInv, PermInv, TokenInv
  <1>1. ASSUME NEW c \in Con, NEW d \in Con, DataToken(c)', DataToken(d)', c # d PROVE FALSE
    <2>1. CASE DataToken(c) /\ DataToken(d)
      BY <1>1, <2>1
    <2>2. CASE ~DataToken(c)
      BY <1>1, <2>2, AnswerFresh
    <2>3. CASE ~DataToken(d)
      BY <1>1, <2>3, AnswerFresh
    <2> QED
      BY <2>1, <2>2, <2>3
  <1>2. ASSUME NEW x \in Con, DataToken(x)', state' \in {"RESPOND", "ACK_WAIT"} PROVE FALSE
    <2>1. DataToken(x)
      BY <1>2, AnswerFresh
    <2>2. state \in {"PROBE_PERFORM", "PROBE_WAIT"} /\ x \in active_requests
      BY <2>1, DataCollected
    <2>3. PICK c \in Con : ProcessResponses(c)
      <3>1. CASE Machine
        BY <1>2, <2>2, <3>1 DEF Machine, StartProcessing, SendProbes, ProbesDone,
              SendResponseMemory, SendResponsePeer, SendDenyResponse
      <3>2. CASE \E c \in Con : WaitForAck(c)
        BY <1>2, <3>2 DEF WaitForAck
      <3> QED
        BY <1>2, <2>2, <3>1, <3>2, MachineFrame
    <2>4. /\ ProbeAnswered(c) /\ Take(c, "C") /\ UNCHANGED c_out
          /\ Head(net_up[c]["C"]).op # "ProbeAckData" => active_requests \ {c} = {}
      BY <1>2, <2>2, <2>3 DEF ProcessResponses, StillActive, reqVars
    <2>5. x # c
      BY <1>2, <2>4, AnswerTaken
    <2>6. Head(net_up[c]["C"]).op = "ProbeAckData"
      BY <2>2, <2>4, <2>5
    <2>7. DataToken(c)
      BY <2>4, <2>6, AnswerTaken
    <2> QED
      BY <2>1, <2>5, <2>7
  <1> QED
    BY <1>1, <1>2

\* What the machine passes on from a peer is the newest version.
LEMMA PeerStep ==
  ASSUME DataInv, [Next]_vars, FromPeer' PROVE peer_data' = latest'
  <1> USE DEF DataInv, PermInv, TokenInv
  <1>1. ASSUME NEW c \in Con, ProcessResponses(c) PROVE peer_data' = latest'
    <2>1. /\ ProbeAnswered(c) /\ Take(c, "C") /\ UNCHANGED <<c_out, latest>>
          /\ Head(net_up[c]["C"]).op = "ProbeAckData" => peer_data' = Head(net_up[c]["C"]).data
          /\ Head(net_up[c]["C"]).op # "ProbeAckData" => UNCHANGED current_response
          /\ state \in {"PROBE_PERFORM", "PROBE_WAIT"}
      BY <1>1 DEF ProcessResponses, reqVars
    <2>2. Head(net_up[c]["C"]).op = "ProbeAckData"
      BY <2>1 DEF FromPeer, MachineOK
    <2> QED
      BY <2>1, <2>2, AnswerTaken
  <1>2. ASSUME Machine \/ \E c \in Con : WaitForAck(c) PROVE FALSE
    BY <1>2 DEF Machine, StartProcessing, SendProbes, ProbesDone, SendResponseMemory,
                SendResponsePeer, SendDenyResponse, WaitForAck, FromPeer
  <1>3. ASSUME NEW c \in Con, AccessLine(c, "ToT") PROVE FALSE
    BY <1>3, ValueWrite
  <1>4. CASE ~Machine /\ \A c \in Con : ~WaitForAck(c) /\ ~ProcessResponses(c) /\ ~AccessLine(c, "ToT")
    <2>1. UNCHANGED <<state, current_response, peer_data>>
      BY <1>4, MachineFrame
    <2>2. latest' = latest
      BY <1>4, ZenonT(60) DEF Next, Requester, Channels, Access, AccessLine, AcquireBlock, InsertEntry,
         HandleRelease, ReceiveResponse, ReceiveProbe, ProcessProbes, WaitForEntry, CheckSend,
         ForwardRequest, DropResponses, ReleaseFlits, CompleteWrite, vars
    <2> QED
      BY <2>1, <2>2 DEF FromPeer
  <1> QED
    BY <1>1, <1>2, <1>3, <1>4

\* An answer with data is lost by nothing but the machine that takes it.
LEMMA DataKept ==
  ASSUME DataInv, [Next]_vars, NEW x \in Con, DataToken(x),
         \A c \in Con : ~ProcessResponses(c) /\ ~DropResponses(c)
  PROVE  DataToken(x)'
  <1> USE DEF DataInv, PermInv, TokenInv
  <1>1. ASSUME NEW c \in Con, Access(c) \/ InsertEntry(c) \/ HandleRelease(c) \/ ReceiveResponse(c)
                              \/ ProcessProbes(c)
        PROVE  DataToken(x)'
    <2>1. UNCHANGED <<c_out, net_up>> \/ \E m \in UpMsg : Perform(c, m) /\ UNCHANGED net_up
      <3>1. c_entry[c].data \in Version /\ \A want : GrowFor(c_entry[c].perm, want) \in Grow
        BY DEF Types, RequesterTypes, GrowFor, Grow
      <3> QED
        BY <1>1, <3>1, MsgTypes
           DEF Access, AccessLine, AcquireBlock, InsertEntry, HandleRelease, ReceiveResponse,
               ProcessProbes
    <2> QED
      BY <2>1, DataOut, Zenon DEF DataToken
  <1>2. ASSUME NEW c \in Con, CheckSend(c) PROVE DataToken(x)'
    BY <1>2, DataSent
  <1>3. ASSUME NEW c \in Con, ForwardRequest(c) \/ WaitForAck(c) PROVE DataToken(x)'
    <2>1. PICK ch \in {"A", "E"} : net_up[c][ch] # <<>> /\ Take(c, ch) /\ UNCHANGED c_out
      BY <1>3 DEF ForwardRequest, WaitForAck, reqVars
    <2>2. net_up'[x]["C"] = net_up[x]["C"]
      BY <2>1, TakeEffect
    <2> QED
      BY <2>1, <2>2 DEF DataToken
  <1>4. ASSUME NEW c \in Con, ReleaseFlits(c) PROVE DataToken(x)'
    <2>1. /\ net_up[c]["C"] # <<>> /\ Head(net_up[c]["C"]).op \in {"Release", "ReleaseData"}
          /\ Take(c, "C") /\ UNCHANGED c_out
      BY <1>4 DEF ReleaseFlits, reqVars
    <2>2. /\ net_up'[c]["C"] = Tail(net_up[c]["C"])
          /\ \A d \in Con : d # c => net_up'[d]["C"] = net_up[d]["C"]
      BY <2>1 DEF Take, Types, UpTypes
    <2>3. net_up[c]["C"] \in Seq(AnswerMsg)
      BY QueueTypes
    <2>4. Has(net_up[c]["C"], {"ProbeAckData"}) => Has(Tail(net_up[c]["C"]), {"ProbeAckData"})
      BY <2>1, <2>3, HasTail
    <2> QED
      BY <2>1, <2>2, <2>4, Zenon DEF DataToken
  <1>5. ASSUME UNCHANGED <<c_out, net_up>> PROVE DataToken(x)'
    BY <1>5 DEF DataToken
  <1> QED
    BY <1>1, <1>2, <1>3, <1>4, <1>5, Zenon
       DEF Next, Requester, Channels, Machine, ReceiveProbe, WaitForEntry, StartProcessing,
           SendProbes, ProbesDone, SendResponseMemory, SendResponsePeer, SendDenyResponse,
           CompleteWrite, vars, reqVars

\* A probe that takes a modified line away is answered with its data.
LEMMA GivenUp ==
  ASSUME TokenInv, NEW c \in Con, ProcessProbes(c), c_entry[c].modified, ~c_entry'[c].modified
  PROVE  DataToken(c)'
  <1> USE DEF TokenInv
  <1> DEFINE new == ProbedEntry(c_entry[c], Head(c_probes[c]).param)
             m == [chan |-> "C", op |-> "ProbeAckData", data |-> c_entry[c].data]
  <1>1. c_entry' = [c_entry EXCEPT ![c] = new]
    BY DEF ProcessProbes
  <1>2. c_entry'[c] = new /\ c_entry[c].data \in Version
    BY <1>1 DEF Types, RequesterTypes
  <1>3. Perform(c, m)
    BY <1>2 DEF ProcessProbes
  <1>4. m \in UpMsg /\ m.op = "ProbeAckData"
    BY <1>2, MsgTypes
  <1> HIDE DEF m
  <1>5. Appended(c_out[c], c_out'[c], m)
    BY <1>3, <1>4, PerformEffect
  <1> QED
    BY <1>4, <1>5 DEF Appended, DataToken

\* A modified line stays one until its data is on its way or in the memory.
LEMMA ModifiedKept ==
  ASSUME DataInv, [Next]_vars, NEW x \in Con, c_entry[x].modified, ~c_entry'[x].modified
  PROVE  DataToken(x)' \/ (Final = latest /\ \E c \in Con : ReceiveResponse(c))
  <1> USE DEF DataInv, PermInv
  <1>1. ASSUME NEW c \in Con, Access(c) PROVE FALSE
    <2>1. c_entry'[c] = c_entry[c] \/ c_entry'[c].modified
      BY <1>1, AccessLineEffect, AcquireEffect DEF Access
    <2>2. x # c => c_entry'[x] = c_entry[x]
      BY <1>1, AccessLineEffect, AcquireEffect DEF Access, Unmoved
    <2> QED
      BY <2>1, <2>2
  <1>2. ASSUME NEW c \in Con, InsertEntry(c) PROVE FALSE
    <2>1. c_pc[c] = "insert" /\ (x # c => c_entry'[x] = c_entry[x])
      BY <1>2, InsertEffect DEF Unmoved
    <2>2. ~c_entry[c].modified
      BY <2>1 DEF EntryOK
    <2> QED
      BY <2>1, <2>2
  <1>3. ASSUME NEW c \in Con, HandleRelease(c) PROVE FALSE
    BY <1>3 DEF HandleRelease
  <1>4. ASSUME NEW c \in Con, ReceiveResponse(c) PROVE Final = latest
    <2>1. /\ x # c => c_entry'[x] = c_entry[x]
          /\ c_entry' = c_entry \/ Head(net_down[c]["D"]).op = "ReleaseAck"
      BY <1>4, ReceiveResponseEffect DEF Unmoved
    <2>2. net_down[c]["D"] # <<>> /\ net_down[c]["D"] \in Seq(ResponseMsg)
      BY <1>4, QueueTypes DEF ReceiveResponse, TokenInv
    <2>3. Has(net_down[c]["D"], ReleaseAcks)
      BY <2>1, <2>2, HasTail DEF ReleaseAcks
    <2> QED
      BY <2>1, <2>3 DEF Released
  <1>5. ASSUME NEW c \in Con, ProcessProbes(c) PROVE DataToken(x)'
    <2>1. x # c => c_entry'[x] = c_entry[x]
      BY <1>5, ProcessProbesEffect DEF Unmoved
    <2> QED
      BY <1>5, <2>1, GivenUp
  <1>6. ASSUME SendResponseMemory \/ SendResponsePeer \/ Quiet PROVE FALSE
    BY <1>6, GrantEffect, QuietFrame DEF TokenInv
  <1> QED
    BY <1>1, <1>2, <1>3, <1>4, <1>5, <1>6, NextCases, Zenon

\* Somebody has the newest version after every step.
LEMMA BackedStep == ASSUME DataInv, Prompt, [Next]_vars PROVE Backed'
  <1> USE DEF DataInv, PermInv
  <1>1. ASSUME NEW c \in Con, AccessLine(c, "ToT") PROVE Backed'
    BY <1>1, ValueWrite DEF Backed
  <1>2. CASE \A c \in Con : ~AccessLine(c, "ToT")
    <2>1. latest' = latest /\ (Final = latest => Final' = latest)
      <3>1. ASSUME NEW c \in Con, Requester(c) PROVE latest' = latest /\ Final' = Final
        BY <1>2, <3>1 DEF Requester, Access, AccessLine, AcquireBlock, InsertEntry, HandleRelease,
              ReceiveResponse, ReceiveProbe, ProcessProbes, WaitForEntry, CheckSend, Final
      <3>2. ASSUME NEW c \in Con, Channels(c) PROVE latest' = latest /\ (Final = latest => Final' = latest)
        <4>1. latest' = latest
          BY <3>2 DEF Channels, ForwardRequest, ProcessResponses, DropResponses, WaitForAck, ReleaseFlits
        <4> QED
          BY <3>2, <4>1, ValueChannels
      <3>3. 0 \in Con
        BY CoherenceAssumption DEF Con
      <3> QED
        BY <3>1, <3>2, <3>3, ValueMachine, Zenon DEF Next
    <2>2. CASE Final = latest
      BY <2>1, <2>2 DEF Backed
    <2>3. CASE FromPeer /\ Final # latest
      <3>1. state = "RESPOND" /\ current_response = "Peer" /\ peer_data = latest
        BY <2>3 DEF FromPeer
      <3>2. CASE Machine
        <4>1. SendResponsePeer
          BY <3>1, <3>2 DEF Machine, StartProcessing, SendProbes, ProbesDone, AllProbesSent,
                SendResponseMemory, SendDenyResponse
        <4>2. mem_writes' = Append(mem_writes, peer_data) /\ peer_data \in Version
          BY <4>1 DEF SendResponsePeer, WriteBack, TokenInv, Types, MachineTypes
        <4>3. Final' = latest'
          BY <2>1, <3>1, <4>2, FinalAppend DEF TokenInv
        <4> QED
          BY <4>3 DEF Backed
      <3>3. CASE ~Machine
        <4>1. UNCHANGED <<state, current_response>>
          BY <3>1, <3>3, MachineFrame DEF ProcessResponses, WaitForAck, ReadyForAck
        <4> QED
          BY <3>1, <4>1 DEF Backed, FromPeer
      <3> QED
        BY <3>2, <3>3
    <2>4. ASSUME NEW x \in Con, c_entry[x].modified, Final # latest PROVE Backed'
      BY <2>4, ModifiedKept, Zenon DEF Backed
    <2>5. ASSUME NEW x \in Con, DataToken(x) PROVE Backed'
      <3>1. ASSUME NEW c \in Con, DropResponses(c) PROVE FALSE
        BY <2>5, <3>1, DataCollected DEF DropResponses
      <3>2. ASSUME NEW c \in Con, ProcessResponses(c) PROVE Backed'
        <4>1. /\ ProbeAnswered(c) /\ Take(c, "C") /\ UNCHANGED c_out
              /\ Head(net_up[c]["C"]).op = "ProbeAckData" =>
                    state' = "RESPOND" /\ current_response' = "Peer"
          BY <3>2 DEF ProcessResponses, reqVars
        <4>2. CASE Head(net_up[c]["C"]).op = "ProbeAckData"
          BY <4>1, <4>2 DEF Backed, FromPeer
        <4>3. CASE Head(net_up[c]["C"]).op # "ProbeAckData"
          <5>1. DataToken(x)'
            BY <2>5, <4>1, <4>3, AnswerTaken
          <5> QED
            BY <5>1 DEF Backed
        <4> QED
          BY <4>2, <4>3
      <3>3. CASE \A c \in Con : ~DropResponses(c) /\ ~ProcessResponses(c)
        BY <2>5, <3>3, DataKept, Zenon DEF Backed
      <3> QED
        BY <3>1, <3>2, <3>3
    <2> QED
      BY <2>2, <2>3, <2>4, <2>5, Zenon DEF Backed
  <1> QED
    BY <1>1, <1>2

\* The line is 0 everywhere at the start.
LEMMA DataInit == Init => DataInv
  <1> SUFFICES ASSUME Init PROVE DataInv
    OBVIOUS
  <1>1. PermInv
    BY PermInit
  <1>2. Final = latest /\ state = "IDLE"
    BY DEF Init, Final
  <1>3. ASSUME NEW c \in Con PROVE Newest(c) /\ Released(c) /\ ~DataToken(c)
    <2>1. /\ c_out[c] = <<>> /\ net_up[c]["C"] = <<>> /\ net_down[c]["D"] = <<>>
          /\ c_pc[c] = "idle" /\ c_entry[c].perm = "ToN" /\ c_entry[c].modified = FALSE
      BY DEF Init
    <2>2. \A K, v : DataOf(<<>>, K, v)
      BY HasEmpty, FieldsNone, Zenon
    <2> QED
      BY <2>1, <2>2, HasEmpty DEF Newest, Released, DataToken
  <1> QED
    BY <1>1, <1>2, <1>3, Zenon DEF DataInv, Backed, FromPeer

\* Every step keeps DataInv.
LEMMA DataStep == ASSUME Prompt, DataInv, [Next]_vars PROVE DataInv'
  <1>1. PermInv'
    BY PermStep DEF DataInv
  <1>2. \A c \in Con : Newest(c)' /\ Released(c)'
    BY ValueStep
  <1> QED
    BY <1>1, <1>2, BackedStep, OneAnswer, PeerStep, Zenon DEF DataInv

\* A copy that may be read holds what was written last, provided that Prompt
\* holds: whoever has a modified line hands its data on when it is probed or
\* releases it, and the machine grants that data, or the memory's once the
\* memory has it.
THEOREM CopiesAreNewest == ASSUME Prompt PROVE Spec => []LatestValue
  <1>1. DataInv /\ [Next]_vars => DataInv'
    BY DataStep
  <1>2. DataInv => LatestValue
    BY Zenon DEF DataInv, Newest, LatestValue
  <1> QED
    BY <1>1, <1>2, DataInit, PTL DEF Spec

=============================================================================
