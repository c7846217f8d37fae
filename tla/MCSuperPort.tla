---------------------------- MODULE MCSuperPort -----------------------------
(***************************************************************************)
(* Small instances of SuperPort: two ports, the first with the better      *)
(* priority.                                                               *)
(***************************************************************************)
EXTENDS SuperPort

CONSTANTS sa, sb

Wire(sys, syspri, key, pri, agg, sync) ==
    [system |-> sys, syspri |-> syspri, key |-> key, port |-> 1, portpri |-> pri,
     aggregation |-> agg, sync |-> sync]

ByNumber == [p \in 1..2 |-> p]

\* Two systems at either port; the second has the better system priority.
RivalWires == { Wire(sa, 2, 1, 2, TRUE, TRUE), Wire(sb, 1, 1, 1, TRUE, TRUE) }

\* One system with two keys, the second at a better port priority and out of sync.
KeyWires == { Wire(sa, 2, 1, 2, TRUE, TRUE), Wire(sa, 2, 2, 1, TRUE, FALSE) }

\* One partner.
OneWire == { Wire(sa, 2, 1, 2, TRUE, TRUE) }
=============================================================================
