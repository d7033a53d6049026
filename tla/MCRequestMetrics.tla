-------------------------- MODULE MCRequestMetrics --------------------------
(* Small instances of RequestMetrics for TLC.  The durations lie below, on,    *)
(* between and past the bounds; a line without a host has any of them.         *)
EXTENDS RequestMetrics

Line(host, class, ms) == [host |-> host, class |-> class, ms |-> ms]

MCHosts == 1..4
MCLines ==
    {Line(h, "fine", 1) : h \in MCHosts} \cup {Line(h, "5xx", 5) : h \in MCHosts}
      \cup {Line(1, "4xx", -1), Line(1, "fine", 3)}
      \cup {Line(Nameless, "fine", d) : d \in {0, 2, 3, 9}}
MCBounds == <<1, 2, 5>>

MCOneHost == {1}
MCFewLines == {Line(1, "fine", 1), Line(Nameless, "5xx", -1)}
=============================================================================
