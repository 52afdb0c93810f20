--------------------------- MODULE MCDriverProbe ---------------------------
(* Seven client types with ten ids in a 256-unit address space: sizes can    *)
(* overflow, offsets wrap, and the carved-out memory be too small.           *)
EXTENDS DriverProbe

Type(name, init, max, clients, queues, skip) ==
    [name |-> name, init |-> init, max |-> max, clients |-> clients, queues |-> queues, skip |-> skip]

MCClientTypes ==
    [t \in 0..6 |-> <<Type("gpu", 1, 1, 1, 2, 0), Type("dpu", 2, 2, 2, 2, 0), Type("val", 4, 1, 1, 2, 0),
                      Type("ipe", 5, 1, 0, 2, 0), Type("vpu", 6, 1, 0, 2, 0),
                      Type("ife0", 7, 2, 0, 1, 1), Type("ife1", 10, 2, 0, 1, 1)>>[t + 1]]

Row(c, s, r) == [client |-> c, signal |-> s, rxq |-> r]
CtrlRow == Row("apps", 1, TRUE)

\* hw_fence_clients_ipc_map_no_dpu, ..._map and ..._map_v2: rows by internal id, and
\* in the last one a row for each configurable type.
Static(dpu, first, ipe, vpu) ==
    <<CtrlRow, Row("gpu", 0, FALSE), Row(dpu, first, FALSE), Row(dpu, first + 1, FALSE),
      Row("apps", 21, TRUE), ipe, vpu>>
Table(rows, ife) == [id \in 0..8 |-> IF id < 7 THEN rows[id + 1] ELSE ife[id - 6]]

MCIpcBase ==
    [v \in {"no_dpu", "dpu", "v2"} |->
        CASE v = "no_dpu" -> Table(Static("apps", 14, NoRow, NoRow), <<NoRow, NoRow>>)
          [] v = "dpu" -> Table(Static("dpu", 0, Row("ipe", 0, TRUE), Row("vpu", 0, TRUE)), <<NoRow, NoRow>>)
          [] v = "v2" -> Table(Static("dpu", 0, Row("ipe", 0, TRUE), Row("vpu", 0, TRUE)),
                               <<Row("ife0", 0, FALSE), Row("ife1", 0, FALSE)>>)]

Prop(c, q, e, s) == [clients |-> c, queues |-> q, entries |-> e, skip |-> s]
Has(t, p) == [u \in 0..6 |-> IF u = t THEN p ELSE NoProp]
And(types, t, p) == [types EXCEPT ![t] = p]
NoProps == [u \in 0..6 |-> NoProp]

Ife0 == Has(5, Prop(2, 1, 4, 1))
Ife01 == And(Ife0, 6, Prop(2, 1, 4, 1))
Tree(table, queue, types, version, size, drivers) ==
    [table |-> table, queue |-> queue, types |-> types, ipcVersion |-> version, size |-> size,
     drivers |-> drivers]

\* Chips of each version, with what they can have; the drivers that register.
Chip(t, drivers) == Tree(3, 4, t, "v2", 255, drivers)
Ipe == Has(3, Prop(1, 2, 4, 0))
Vpu == Has(4, Prop(1, 2, 4, 0))
Chips == {Chip(NoProps, {2, 3, 6}), Chip(Ife0, {2, 8}), Chip(Ife01, {2, 8, 10}),
          Chip(And(Ife01, 3, Prop(1, 2, 4, 0)), {5, 7, 11}), Chip(And(Ipe, 4, Prop(1, 2, 2, 0)), {4, 5, 6}),
          Chip(Vpu, {4, 6}), Chip(Has(6, Prop(1, 2, 4, 0)), {8, 10}),
          Chip(And(Has(3, Prop(1, 1, 4, 0)), 5, Prop(1, 2, 2, 0)), {5, 7})}
         \cup {Tree(3, 4, Vpu, v, 255, {2, 3, 6}) : v \in {"no_dpu", "dpu"}}

\* Properties that are zero, out of range, too large for the memory or for 32 bits.
Bad(table, queue, types) == Tree(table, queue, types, "v2", 255, {2, 8})
Wrong == {Tree(0, 4, NoProps, "dpu", 255, {2}), Tree(3, 0, NoProps, "dpu", 255, {2}),
          Tree(3, 4, NoProps, "unknown", 255, {2}), Tree(3, 4, Ife01, "v2", 160, {2, 8}),
          Bad(0, 4, NoProps), Bad(63, 4, NoProps), Bad(3, 200, NoProps), Bad(20, 4, Ife01),
          Bad(3, 4, Has(5, Prop(3, 1, 4, 1))), Bad(3, 4, Has(3, Prop(1, 2, 6, 0))),
          Bad(3, 4, Has(3, Prop(1, 0, 4, 0))), Bad(3, 4, Has(3, Prop(1, 2, 4, 2)))}

MCTrees == Chips \cup Wrong
MCCallers == {2, 3, 4, 5, 6, 7, 8, 10, 11}
=============================================================================
