--------------------------- MODULE MCTouchpadSetup ---------------------------
(* Six touchpads and a mouse, with the variations that the setup looks at. *)
EXTENDS TouchpadSetup

Pad(brand, hw) == [brand |-> brand, hw |-> hw, named |-> brand = "focaltech",
                   gesture |-> FALSE, legacy |-> FALSE, keeps |-> TRUE]

MCPads ==
    {Pad("focaltech", "focaltech"), [Pad("focaltech", "focaltech") EXCEPT !.named = FALSE],
     Pad("mouse", "mouse"), [Pad("elan", "v4") EXCEPT !.named = TRUE],
     Pad("elan", "v1"), Pad("elan", "unknown")} \cup
    {[p EXCEPT !.keeps = k] :
        p \in {Pad("elan", "v2"), Pad("elan", "v3"), Pad("elan", "v4"), Pad("synaptics", "synaptics"),
               [Pad("elan", "v3") EXCEPT !.legacy = TRUE],
               [Pad("synaptics", "synaptics") EXCEPT !.gesture = TRUE]},
        k \in BOOLEAN}
===============================================================================
