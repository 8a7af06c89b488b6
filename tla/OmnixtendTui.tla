---------------------------- MODULE OmnixtendTui ----------------------------
(***************************************************************************)
(* omnixtend-tui with one endpoint: the connection thread moves packets    *)
(* between the network and the connection in the map, the operation thread *)
(* executes the user's commands, and the main thread ends the program.     *)
(* Both may be in Connection::disconnect at the same time.                 *)
(*                                                                         *)
(* pc is the position of a thread:                                         *)
(*   loop     operation thread between two commands                        *)
(*   run      main thread before the user quits                            *)
(*   perform  is_active was TRUE, the operation is not registered yet      *)
(*   wait     in wait_for_response; late if the connection had said Close  *)
(*            when the operation was registered                            *)
(*   flush, release, flushing, late_flush   the same for the Release of    *)
(*            disconnect                                                   *)
(*   closing, acked, initiate, store, idle   in close_connection           *)
(*   leave    disconnect has returned                                      *)
(*   spin     main thread in the loop that waits for the connections       *)
(*   done     the thread has ended                                         *)
(***************************************************************************)
EXTENDS OmnixtendConnection

CONSTANTS
    Commands,      \* commands executed, a bound
    Patient        \* the user connects again only when the last connection
                   \* has left the network and the endpoint's slot

ASSUME TuiAssumption ==
    /\ Threads = {"operation", "main"}
    /\ Commands \in Nat /\ Patient \in BOOLEAN

VARIABLES
    pc,
    in_map,        \* the connection is in the map of connections
    commands,      \* commands taken from the channel
    quit,          \* the event thread has ended
    stopped        \* ctrl_c_pressed

tuiVars == <<pc, in_map, commands, quit, stopped>>
vars == <<conVars, tuiVars>>

\* disconnect is called with the map's guard on the entry held.
Disconnecting == {"flush", "release", "flushing", "late_flush", "closing", "acked", "initiate", "store", "idle"}

Init ==
    /\ ConnectionInit
    /\ pc = [t \in Threads |-> IF t = "main" THEN "run" ELSE "loop"]
    /\ in_map = FALSE /\ commands = 0 /\ quit = FALSE /\ stopped = FALSE

Goto(t, place) == pc' = [pc EXCEPT ![t] = place]

-----------------------------------------------------------------------------
(* The connection thread.                                                  *)

ConnectionThread ==
    /\ ~stopped
    /\ in_map
    /\ SendPacket \/ Resend \/ GetPacket \/ ProcessPacket
    /\ UNCHANGED tuiVars

\* A packet once begun is processed, with the guard on the entry held.
FinishReceive == StoreReceived /\ UNCHANGED tuiVars

\* "Possibly stale connection"
DropStale ==
    /\ ~stopped /\ ~in_map /\ down # <<>>
    /\ down' = Tail(down)
    /\ UNCHANGED <<reqVars, slotVars, up, tuiVars>>

-----------------------------------------------------------------------------
(* The operation thread.                                                   *)

\* retain needs the map's lock, which a guard of the main thread keeps away.
MapFree == pc["main"] \notin Disconnecting

Retain ==
    /\ pc["operation"] = "loop" /\ in_map /\ MapFree
    /\ r_state = "Idle"
    /\ DropConnection
    /\ in_map' = FALSE
    /\ UNCHANGED <<pc, commands, quit, stopped>>

TakeCommand ==
    /\ pc["operation"] = "loop" /\ commands < Commands
    /\ commands' = commands + 1

\* handle_connection_events, one action per kind of command.
Connect ==
    /\ TakeCommand
    /\ ~in_map /\ (Patient => Quiet /\ e_status = "IDLE")
    /\ NewConnection
    /\ in_map' = TRUE
    /\ UNCHANGED <<pc, quit, stopped>>

\* reject_inactive
IsActive == in_map /\ r_state = "Active"

\* Read, Write, CacheRead, CacheWrite, CacheRelease, CacheReleaseAll
Operate ==
    /\ TakeCommand
    /\ IsActive /\ NumberLeft
    /\ Goto("operation", "perform")
    /\ UNCHANGED <<conVars, in_map, quit, stopped>>

Disconnect ==
    /\ TakeCommand
    /\ in_map
    /\ Goto("operation", "flush")
    /\ UNCHANGED <<conVars, in_map, quit, stopped>>

\* connections_local.remove, whatever disconnect came to.
Remove ==
    /\ pc["operation"] = "leave" /\ MapFree
    /\ DropConnection
    /\ in_map' = FALSE
    /\ Goto("operation", "loop")
    /\ UNCHANGED <<commands, quit, stopped>>

-----------------------------------------------------------------------------
(* Operations and disconnect, for either thread.                           *)

SaidClose == r_state \notin {"Active", "ClosedByHost"}

Begin(t) ==
    /\ \/ pc[t] = "perform" /\ Goto(t, IF SaidClose THEN "late" ELSE "wait")
       \/ pc[t] = "release" /\ Goto(t, IF SaidClose THEN "late_flush" ELSE "flushing")
    /\ Perform(t)
    /\ UNCHANGED <<in_map, commands, quit, stopped>>

Flush(t) ==
    /\ pc[t] = "flush" /\ IsActive /\ NumberLeft
    /\ Goto(t, "release")
    /\ UNCHANGED <<conVars, in_map, commands, quit, stopped>>

\* cache_release is refused or has nothing to release.
NoFlush(t) ==
    /\ pc[t] = "flush"
    /\ Goto(t, "closing")
    /\ UNCHANGED <<conVars, in_map, commands, quit, stopped>>

Finish(t) ==
    /\ \/ pc[t] \in {"wait", "late"} /\ Goto(t, "loop")
       \/ pc[t] \in {"flushing", "late_flush"} /\ Goto(t, "closing")
    /\ Return(t)
    /\ UNCHANGED <<in_map, commands, quit, stopped>>

\* close_connection up to initiate_close_connection's loads.
CloseStep(t) ==
    /\ \/ pc[t] = "closing" /\ Goto(t, IF CannotClose THEN "leave" ELSE "acked")
       \/ pc[t] = "acked" /\ OpenAcked /\ Goto(t, "initiate")
       \/ pc[t] = "initiate"
          /\ Goto(t, IF r_state \in {"Active", "Opened"} THEN "store" ELSE "idle")
       \/ pc[t] = "idle" /\ r_state = "Idle" /\ Goto(t, "leave")
    /\ UNCHANGED <<conVars, in_map, commands, quit, stopped>>

CloseStore(t) ==
    /\ pc[t] = "store"
    /\ StoreClosedByHost
    /\ Goto(t, "idle")
    /\ UNCHANGED <<in_map, commands, quit, stopped>>

\* Faulty variant: the loop that waits for the idle state has no timeout.
TimeoutOnlyForAck(t) ==
    /\ pc[t] = "acked"
    /\ Goto(t, "leave")
    /\ UNCHANGED <<conVars, in_map, commands, quit, stopped>>

\* check_timeout
CloseTimeout(t) ==
    /\ pc[t] \in {"acked", "idle"}
    /\ Goto(t, "leave")
    /\ UNCHANGED <<conVars, in_map, commands, quit, stopped>>

-----------------------------------------------------------------------------
(* The main thread, and the end of the others.                             *)

Quit ==
    /\ ~quit
    /\ quit' = TRUE
    /\ UNCHANGED <<conVars, pc, in_map, commands, stopped>>

MainDisconnect ==
    /\ quit /\ pc["main"] = "run"
    /\ Goto("main", IF in_map THEN "flush" ELSE "spin")
    /\ UNCHANGED <<conVars, in_map, commands, quit, stopped>>

MainDisconnected ==
    /\ pc["main"] = "leave"
    /\ Goto("main", "spin")
    /\ UNCHANGED <<conVars, in_map, commands, quit, stopped>>

\* The loop goes on while it finds a connection that is idle.
KeepsWaiting == in_map /\ r_state = "Idle"

MainStop ==
    /\ pc["main"] = "spin" /\ ~KeepsWaiting
    /\ stopped' = TRUE
    /\ Goto("main", "done")
    /\ UNCHANGED <<conVars, in_map, commands, quit>>

OperationStop ==
    /\ pc["operation"] = "loop" /\ stopped
    /\ Goto("operation", "done")
    /\ UNCHANGED <<conVars, in_map, commands, quit, stopped>>

Operator ==
    /\ ~in_map
    /\ CloseOverPcie
    /\ UNCHANGED tuiVars

\* The model of the endpoint and the wire ends with the connection thread.
Endpoint == ~stopped /\ SlotNext /\ UNCHANGED tuiVars

Loss == ~stopped /\ Lose /\ UNCHANGED tuiVars

\* What a thread does without a new command of the user.
Step(t) ==
    \/ Flush(t) \/ Begin(t) \/ NoFlush(t) \/ Finish(t)
    \/ CloseStep(t) \/ CloseStore(t) \/ CloseTimeout(t)
    \/ t = "operation" /\ (Retain \/ Remove \/ OperationStop)
    \/ t = "main" /\ (MainDisconnect \/ MainDisconnected \/ MainStop)

Next ==
    \/ ConnectionThread \/ FinishReceive \/ DropStale \/ Endpoint \/ Loss \/ Operator
    \/ Connect \/ Operate \/ Disconnect \/ Quit
    \/ \E t \in Threads : Step(t)

Spec == Init /\ [][Next]_vars

\* The threads are scheduled, and their timers expire.
Fairness == WF_vars(FinishReceive) /\ \A t \in Threads : WF_vars(Step(t))

FairSpec == Spec /\ Fairness

-----------------------------------------------------------------------------
\* Types of the object's and the slot's state.  Only a thread that counts as
\* outstanding has a request that waits for a packet or a response that waits
\* for it.
TypeOK ==
    /\ life \in 0 .. Lifetimes /\ r_state \in ConnectionState
    /\ r_next_tx \in 0 .. MaxTx /\ r_next_rx \in Nat /\ r_first \in -1 .. MaxTx - 1
    /\ r_buffer \in Seq(Packet) /\ r_resend_data \in Seq(Packet)
    /\ r_packet_data \in Seq(Packet) /\ Len(r_packet_data) <= 1
    /\ r_ops \subseteq r_outstanding /\ r_answered \subseteq r_outstanding
    /\ r_outstanding \subseteq Threads
    /\ e_status \in SlotStatus /\ e_life \in 0 .. Lifetimes
    /\ e_next_rx \in 0 .. MaxTx /\ e_next_tx \in Nat
    /\ e_buffer \in Seq(Packet) /\ e_resending \in Seq(Packet)
    /\ e_requests \subseteq Threads
    /\ up \in Seq(Packet) /\ down \in Seq(Packet)
    /\ Len(up) <= WireCap /\ Len(down) <= WireCap

\* The "Resend buffer should not be empty" of remove_from_resend holds across
\* connections: no packet that the object would take for its next one
\* acknowledges a number that this Connection has not sent, also when the slot
\* served another Connection before.
ExpectHolds ==
    \A i \in 1 .. Len(down) :
        in_map /\ down[i].seq = r_next_rx /\ r_received = <<>> => AckFits(down[i])

\* The two ends agree on the connection, whatever the wire loses: an object
\* that is Active, or has not said Close yet, has the endpoint's slot for
\* itself, and an object that became Idle (which lets Retain forget it) has
\* left the slot free.  Up to the quit: then two threads may be in disconnect
\* at once and store ClosedByHost over the state the other one reached.
SlotAgreement ==
    in_map /\ ~quit =>
        /\ r_state \in {"Active", "ClosedByHost"} => e_status = "ACTIVE" /\ e_life = life
        /\ r_state = "Idle" => e_status = "IDLE"

\* A slot is freed only when the requests it took in are answered, the ones
\* aside that a thread registered after the connection had said Close: the
\* Close waits for the operations, so no answer goes to the slot's next user.
ReleasedIdle ==
    e_status = "IDLE" => \A t \in e_requests : pc[t] \in {"late", "late_flush"}

Waits(t) == pc[t] \in {"wait", "late", "flushing", "late_flush"}

\* The program ends after the user quits, in whatever state of opening or
\* closing the connection is and whatever the wire loses, if the operations
\* that a thread waits for are answered.
QuitEnds ==
    (\A t \in Threads : []<>~Waits(t)) => (quit ~> \A t \in Threads : pc[t] = "done")

\* A Connection opens the endpoint's slot at most once: no resend of its Open
\* takes the slot again after it was closed, which is why close_connection
\* waits for the acknowledgement of packet 0.
OpenOnce == [][e_status = "IDLE" /\ e_status' = "ACTIVE" => e_life' # e_life]_vars
=============================================================================
