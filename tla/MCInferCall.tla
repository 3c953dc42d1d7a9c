----------------------------- MODULE MCInferCall -----------------------------
(***************************************************************************)
(* Instances of InferCall for TLC: models whose graphs and overrides meet  *)
(* in each way load_model distinguishes, and calls that follow the         *)
(* published metadata, in any order of inputs, or miss it in one point.    *)
(***************************************************************************)
EXTENDS InferCall

CONSTANTS c1, c2

TwoCalls == {c1, c2}

In(name, type, shape)        == [name |-> name, type |-> type, shape |-> shape]
Out(name, type, shape, row)  == [name |-> name, type |-> type, shape |-> shape,
                                 row |-> row]
NoOverride == <<>>

\* Two inputs, one with an open axis, and one or two outputs.
Points(inShapes, outShapes, onGpu, outs) ==
    [inputs |-> <<In("mask", "Float32", <<-1>>),
                  In("points", "Int64", <<-1, -1>>)>>,
     outputs |-> outs, inShapes |-> inShapes, outShapes |-> outShapes,
     gpu |-> onGpu]

Score    == <<Out("score", "Float32", <<-1, 1>>, <<1>>)>>
TwoOuts  == <<Out("score", "Float32", <<-1, 1>>, <<1>>),
              Out("label", "Bool", <<-1, -1>>, <<1>>)>>
Softmax  == <<Out("softmax", "Float32", <<-1, -1>>, <<2>>)>>

Plain(type, outs, shape, inShapes, onGpu) ==
    [inputs |-> <<In("x", type, shape)>>, outputs |-> outs,
     inShapes |-> inShapes, outShapes |-> <<>>, gpu |-> onGpu]

PointsOfTwo == [points |-> <<-1, 2>>]

LoadableModels ==
    {Points(PointsOfTwo, NoOverride, FALSE, Score),
     Points(PointsOfTwo, [label |-> <<-1, 1>>], TRUE, TwoOuts),
     Points(PointsOfTwo, [softmax |-> <<-1, 2>>], FALSE, Softmax),
     Plain("Float32", Softmax, <<-1, 2>>, NoOverride, FALSE)}

ErrorModels ==
    {Plain("Float16", Score, <<-1>>, NoOverride, FALSE),
     Plain("Uint8", <<Out("half", "Float16", <<-1>>, <<>>)>>, <<-1>>,
           NoOverride, FALSE)}

\* Overrides of another rank, missing, in conflict with the graph.
OddModels ==
    {Plain("Float32", Score, <<-1, 2>>, [x |-> <<-1>>], onGpu) :
         onGpu \in BOOLEAN}
    \cup {Points(NoOverride, NoOverride, FALSE, Score),
          Points(PointsOfTwo, NoOverride, TRUE, TwoOuts),
          Plain("Float32", Score, <<-1, 2>>, [x |-> <<-1, 3>>], FALSE),
          Plain("Float32", Score, <<4, 2>>, NoOverride, FALSE)}

AllModels == LoadableModels \cup ErrorModels \cup OddModels
HostModels == {mod \in LoadableModels : ~mod.gpu}

Asked(t, rows) == [t EXCEPT !.shape[1] = rows]

Following(meta) ==
    {[inputs |-> [k \in DOMAIN order |-> Asked(meta[order[k]], rows)]] :
        order \in SetToSeqs(DOMAIN meta), rows \in 1 .. BatchSize + 1}

Missing(meta) ==
    {[inputs |-> <<t>>] : t \in
        {Asked(meta[1], 0), [Asked(meta[1], 1) EXCEPT !.name = "nobody"],
         [Asked(meta[1], 1) EXCEPT !.shape = Append(@, 1)]}
        \cup {[Asked(meta[i], 1) EXCEPT !.shape[2] = 7] :
                  i \in {j \in DOMAIN meta : Len(meta[j].shape) > 1}}}

AllRequests(meta) == Following(meta) \cup Missing(meta)
==============================================================================
