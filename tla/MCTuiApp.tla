----------------------------- MODULE MCTuiApp -----------------------------
(* Instances of TuiApp for TLC. *)
EXTENDS TuiApp

Key(c, m) == [code |-> c, mods |-> m]

(* Keys that change the geometry: g, s, Alt+L. *)
MCGeometryKeys == {Key("g", "NONE"), Key("s", "NONE"), Key("l", "ALT")}

(* Keys of a tracing session: Ctrl+S switches pane, q quits, j and Ctrl+L *)
(* navigate, c copies, x and Alt+G do nothing.                            *)
MCSessionKeys ==
    {Key("s", "CONTROL"), Key("q", "NONE"), Key("j", "NONE"),
     Key("l", "CONTROL"), Key("c", "NONE"), Key("x", "NONE"), Key("g", "ALT")}

(* Ctrl+S and q only. *)
MCQuitKeys == {Key("s", "CONTROL"), Key("q", "NONE")}

(* 20x12 fits both panes for splits 20..80 side by side and 50 stacked;  *)
(* 10x8 only for splits 40..60 side by side and never stacked.            *)
MCGeometrySizes == {<<20, 12>>, <<10, 8>>}
MCGeometryInitSize == <<20, 12>>

(* 40x44 is roomy: both panes fit for every split and layout. *)
MCRoomySizes == {<<40, 44>>}
MCRoomyInitSize == <<40, 44>>

(* The geometry run leaves the tracer idle: it is about the view alone. *)
MCTracerIdle == tracerPhase = "idle"
=============================================================================
