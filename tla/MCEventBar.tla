------------------------------ MODULE MCEventBar ------------------------------
(* An instance of EventBar with the numbers of static_data.json and a        *)
(* player who has bought one event.                                          *)
EXTENDS EventBar, Sequences

Four     == 1..4
Shirt    == {"Shirt"}
Lessen   == <<20, 15, 10, 5>>
Increase == <<10, 15, 20, 25>>
PLOfFinger == [e \in Events |-> Lessen[e + 1]]
PIOfFinger == [e \in Events |-> Increase[e + 1]]
PLOfStep == [s \in Steps |-> 50 + 10 * s]
PIOfStep == [s \in Steps |-> 30]
=============================================================================
