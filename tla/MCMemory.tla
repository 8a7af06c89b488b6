------------------------------- MODULE MCMemory -------------------------------
(***************************************************************************)
(* Programs for OmnixtendMemory: short sequences of requests chosen for    *)
(* what they make meet.                                                    *)
(***************************************************************************)
EXTENDS OmnixtendMemory

Rq(op, addr, size) ==
    [op |-> op, addr |-> addr, size |-> size, mask |-> <<>>, calc |-> "ADD", val |-> 2]
Partial(addr, size, m) == [Rq("PutPartialData", addr, size) EXCEPT !.mask = m]
Atomic(calc, addr, size) ==
    [Rq(IF calc \in Arithmetic THEN "ArithmeticData" ELSE "LogicalData", addr, size)
        EXCEPT !.calc = calc]

MixedPrograms == {
    \* a write of two bursts and a read of its second one, a read of two bursts
    <<Rq("PutFullData", 0, 4), Rq("Get", 8, 1)>>,
    <<Rq("PutFullData", 8, 1), Rq("Get", 0, 4)>>,
    <<Rq("PutFullData", 0, 3), Rq("Get", 0, 3)>>,
    \* small writes to one beat, read back
    <<Rq("PutFullData", 1, 0), Rq("PutFullData", 0, 1), Rq("Get", 0, 1)>>,
    \* a masked write of more than one mask flit over an earlier one
    <<Rq("PutFullData", 4, 2), Partial(0, 3, <<TRUE, FALSE, TRUE, TRUE, FALSE, FALSE, TRUE, FALSE>>),
      Rq("Get", 4, 1)>>,
    \* denied requests between good ones
    <<Rq("PutFullData", 1, 3), Rq("PutFullData", 2, 1), Rq("Get", 1, 1)>>,
    <<Partial(1, 1, <<TRUE, TRUE>>), Rq("Get", 0, 0), Rq("Intent", 0, 0)>>,
    \* atomics on both slots of a beat, next to a write
    <<Atomic("ADD", 0, 0), Atomic("XOR", 1, 0), Rq("PutFullData", 2, 1)>>,
    <<Atomic("SWAP", 0, 2), Rq("Get", 4, 1)>>,
    <<Atomic("OR", 2, 0), Atomic("AND", 0, 1), Atomic("ADD", 1, 1)>>,
    \* all sources of responses
    <<Rq("Get", 0, 1), Rq("PutFullData", 2, 0), Rq("AcquireBlock", 4, 1)>> }

\* The content of memory is below the operand.
MinimumProgram == {<<Atomic("MIN", 0, 0)>>}

=============================================================================
