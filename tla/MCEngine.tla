------------------------------ MODULE MCEngine ------------------------------
(* Presets for model-checking Engine: one family of definitions per cfg.    *)
EXTENDS Engine

A == ButtonB("A")
B == ButtonB("B")
L == ButtonB("left")
R == ButtonB("right")
MCButtons == {"A", "B", "left", "right"}
MCOpposed == {{"left", "right"}}
MCValues == {-2, 1, 2}

None == [x \in {} |-> x]
Rows(rows) == {e \in rows : e[1] \in Keys}

\* Chords: three nested guards on one keyboard, both signs of an axis, a control
\* shared by a chord, a key and the mouse.
ChordEntries == Rows({<<"a", A>>, <<"b", AxisB("x", 1)>>, <<"c", AxisB("x", -2)>>,
                 <<"s", A>>, <<"s", AxisB("x", 1)>>, <<"d", AxisB("x", 2)>>})
ChordChords == [
  ab  |-> [bind |-> B, trigger |-> "a", when |-> {"b"}, unless |-> {}],
  abc |-> [bind |-> A, trigger |-> "c", when |-> {"a", "b"}, unless |-> {}],
  bd  |-> [bind |-> Consume, trigger |-> "b", when |-> {}, unless |-> {"d"}]]

\* Macros: a motion that starts over while its trigger is held, and an abortable
\* turbo one whose steps last no longer than their sampling minimum; they hold
\* opposite directions.
MacroEntries == Rows({<<"a", A>>, <<"c", R>>})
MacroMacros == [
  fb |-> [triggers |-> {"a"}, hold |-> <<{L}, {L, A}, {B}>>,
          ends |-> <<2, 4, 6>>, min |-> <<1, 1, 1>>,
          abort |-> FALSE, restart |-> TRUE, interrupt |-> "opposing", repeat |-> "while-held",
          gap |-> 0, enabled |-> TRUE],
  wh |-> [triggers |-> {"b"}, hold |-> <<{R}, {R, A}>>, ends |-> <<1, 2>>, min |-> <<1, 1>>,
          abort |-> TRUE, restart |-> FALSE, interrupt |-> "any", repeat |-> "turbo",
          gap |-> 1, enabled |-> TRUE]]

\* Turbo: one control with a rate, asked for by a key, a chord and the mouse, and
\* held flat by a macro step.
TurboMacros == [
  hp |-> [triggers |-> {"c"}, hold |-> <<{A}>>, ends |-> <<2>>, min |-> <<1>>,
          abort |-> FALSE, restart |-> FALSE, interrupt |-> "none", repeat |-> "once",
          gap |-> 0, enabled |-> TRUE]]
TurboRows == {A}
TurboRate == [t \in {A} |-> [on |-> 1, off |-> 1]]

\* A macro whose steps ask for 0 ms and are allowed to (allow_short).
ZeroMacros == [
  z |-> [triggers |-> {"a"}, hold |-> <<{L}, {R}>>, ends |-> <<0, 0>>, min |-> <<0, 0>>,
         abort |-> FALSE, restart |-> FALSE, interrupt |-> "none", repeat |-> "while-held",
         gap |-> 0, enabled |-> TRUE]]
=============================================================================
