------------------------------- MODULE Engine -------------------------------
(***************************************************************************)
(* A brain from numpy to the C++ engine: swarm.brain plans a Sequential    *)
(* and encodes it as a .swm image, and swarm::Model parses the image,      *)
(* plans every layer again, adds up the bytes it is going to need, places  *)
(* the blocks in one arena and runs the layers between two activation      *)
(* buffers.  Everything here is an operator: a check picks a model and     *)
(* asks whether the two sides agree and whether every access stays inside  *)
(* its block.  Weights are their sizes; the constants stand for kAlign,    *)
(* kMaxLayers, kMaxDim, kMaxElems and the tile sizes MR, NR and KC.        *)
(***************************************************************************)
EXTENDS Integers, FiniteSets, SequencesExt

CONSTANTS Align, MaxLayers, MaxDim, MaxElems, MR, NR, KC

ASSUME EngineAssumption ==
    \A n \in {Align, MaxLayers, MaxDim, MaxElems, MR, NR, KC} : n \in Nat \ {0}

Weighted == {"dense", "conv2d"}
Refused == [c |-> 0, h |-> 0, w |-> 0]

Elems(s) == s.c * s.h * s.w
Shape(c, h, w) == [c |-> c, h |-> h, w |-> w]
Flat(n) == Shape(n, 1, 1)
Larger(a, b) == IF a > b THEN a ELSE b
Total(numbers) == FoldLeft(LAMBDA sum, n : sum + n, 0, numbers)

\* A layer: a and b are in/out of a dense layer, in_c/out_c of a convolution.
WeightCount(L) ==
    CASE L.type = "dense" -> L.a * L.b
      [] L.type = "conv2d" -> L.b * L.a * L.k * L.k
      [] OTHER -> 0
BiasCount(L) == IF L.type \in Weighted THEN L.b ELSE 0
WeightBytes(L) == WeightCount(L) * (IF L.dtype = "i8" THEN 1 ELSE 4)

-----------------------------------------------------------------------------
(* numpy: planning (Sequential._plan) and the .swm writer.                 *)

PyConvOut(n, k, stride, pad) == (n + 2 * pad - k) \div stride + 1

PyShape(L, in) ==
    CASE L.type = "dense" -> IF Elems(in) = L.a THEN Flat(L.b) ELSE Refused
      [] L.type = "conv2d" ->
            IF in.c = L.a
            THEN Shape(L.b, PyConvOut(in.h, L.k, L.stride, L.pad),
                            PyConvOut(in.w, L.k, L.stride, L.pad))
            ELSE Refused
      [] L.type = "maxpool2d" -> Shape(in.c, in.h \div L.k, in.w \div L.k)
      [] L.type = "flatten" -> Flat(Elems(in))
      [] OTHER -> in

PyShapes(m) ==
    FoldLeft(LAMBDA shapes, L : Append(shapes, PyShape(L, Last(shapes))),
             <<m.input>>, m.layers)

PyMacs(m) ==
    LET shapes == PyShapes(m)
        Macs(i) == LET L == m.layers[i] IN
            CASE L.type = "dense" -> WeightCount(L)
              [] L.type = "conv2d" -> WeightCount(L) * shapes[i + 1].h * shapes[i + 1].w
              [] OTHER -> 0
    IN  Total([i \in DOMAIN m.layers |-> Macs(i)])

PyWeightsBytes(m) ==
    LET Count(L) == BiasCount(L) * 4 + WeightCount(L) * (IF m.quantize THEN 1 ELSE 4)
    IN  Total([i \in DOMAIN m.layers |-> Count(m.layers[i])])

Specs(m) ==
    LET Spec(L) == [L EXCEPT !.dtype =
                        IF m.quantize /\ L.type \in Weighted THEN "i8" ELSE "f32"]
    IN  [i \in DOMAIN m.layers |-> Spec(m.layers[i])]
            \o (IF m.softmax THEN <<[type |-> "softmax", dtype |-> "f32", a |-> 0,
                                     b |-> 0, k |-> 0, stride |-> 0, pad |-> 0]>>
                ELSE <<>>)

\* An image is a sequence of fields, each with its value and its size.
Word(v) == [value |-> v, bytes |-> 4]
Blob(n) == [value |-> "raw", bytes |-> n]

EncodeLayer(L) ==
    <<Word(L.type), Word(L.dtype)>> \o
    (CASE L.type = "dense" ->
            <<Word(L.a), Word(L.b), Word("scale"), Blob(WeightBytes(L)), Blob(4 * L.b)>>
       [] L.type = "conv2d" ->
            <<Word(L.a), Word(L.b), Word(L.k), Word(L.stride), Word(L.pad),
              Word("scale"), Blob(WeightBytes(L)), Blob(4 * L.b)>>
       [] L.type = "maxpool2d" -> <<Word(L.k), Word(L.stride)>>
       [] OTHER -> <<>>)

EncodeSwm(m) ==
    LET specs == Specs(m) IN
    <<Word("SWM1"), Word(Len(specs)), Word(m.input.c), Word(m.input.h), Word(m.input.w)>>
        \o FlattenSeq([i \in DOMAIN specs |-> EncodeLayer(specs[i])])

-----------------------------------------------------------------------------
(* The readers: both walk the fields from a position; a blob of another    *)
(* size than the one asked for is a truncated or misread file.             *)

\* How many words follow the type and dtype of a layer.
Words(type) == CASE type = "dense" -> 3 [] type = "conv2d" -> 6
                 [] type = "maxpool2d" -> 2 [] OTHER -> 0

ReadLayer(image, at) ==
    LET type == image[at].value
        F(i) == image[at + 1 + i].value
        dense == type = "dense"  conv == type = "conv2d"  pool == type = "maxpool2d"
    IN  [type |-> type, dtype |-> image[at + 1].value,
         a |-> IF dense \/ conv THEN F(1) ELSE 0,
         b |-> IF dense \/ conv THEN F(2) ELSE 0,
         k |-> IF conv THEN F(3) ELSE IF pool THEN F(1) ELSE 0,
         stride |-> IF conv THEN F(4) ELSE IF pool THEN F(2) ELSE 0,
         pad |-> IF conv THEN F(5) ELSE 0]

After(image, at, L) == at + 2 + Words(L.type) + (IF L.type \in Weighted THEN 2 ELSE 0)

BlobsMatch(image, at, L) ==
    L.type \in Weighted =>
        LET first == at + 2 + Words(L.type) IN
        image[first].bytes = WeightBytes(L) /\ image[first + 1].bytes = 4 * BiasCount(L)

\* read_swm: no bounds on the dimensions.
ReadSwm(image) ==
    LET Read(r, L) == [at |-> After(image, r.at, L), layers |-> Append(r.layers, L),
                       ok |-> r.ok /\ BlobsMatch(image, r.at, L)]
    IN  FoldLeft(LAMBDA r, i : Read(r, ReadLayer(image, r.at)),
             [at |-> 6, layers |-> <<>>, ok |-> TRUE],
             [i \in 1..image[2].value |-> i])

\* Sequential.load of what was read: a softmax is dropped, pooling windows may not overlap.
PyLoads(image, r) ==
    /\ r.ok /\ r.at = Len(image) + 1
    /\ \A i \in DOMAIN r.layers :
        r.layers[i].type = "maxpool2d" => r.layers[i].k = r.layers[i].stride

-----------------------------------------------------------------------------
(* C++: planning.  Integer division truncates towards zero.                *)

\* Mutant: the padding is counted on one side.
OneSidedPad(in, k, stride, pad) == (in + pad - k) \div stride + 1

ConvOutDim(in, k, stride, pad) ==
    LET room == in + 2 * pad - k IN
    (IF room >= 0 THEN room \div stride ELSE -((-room) \div stride)) + 1

PlanLayer(L, in) ==
    LET oh == ConvOutDim(in.h, L.k, L.stride, L.pad)
        ow == ConvOutDim(in.w, L.k, L.stride, L.pad)
    IN  CASE L.type = "dense" -> IF Elems(in) = L.a THEN Flat(L.b) ELSE Refused
          [] L.type = "conv2d" ->
                IF in.c = L.a /\ oh > 0 /\ ow > 0 THEN Shape(L.b, oh, ow) ELSE Refused
          [] L.type = "maxpool2d" ->
                IF oh > 0 /\ ow > 0 THEN Shape(in.c, oh, ow) ELSE Refused
          [] L.type = "flatten" -> Flat(Elems(in))
          [] OTHER -> in

LayerMacs(L, out) ==
    CASE L.type = "dense" -> L.a * L.b
      [] L.type = "conv2d" -> L.b * out.h * out.w * L.a * L.k * L.k
      [] OTHER -> 0

NoScratch == [q_in |-> 0, cols_i8 |-> 0, cols_f32 |-> 0, acc |-> 0]

\* Mutant: a quantised convolution is given room for its channels only.
ChannelScratch(L, in, out) ==
    LET K == L.a * L.k * L.k  N == out.h * out.w IN
    IF L.type = "conv2d" /\ L.dtype = "i8"
    THEN [NoScratch EXCEPT !.q_in = L.a, !.cols_i8 = K * N, !.acc = L.b * N]
    ELSE IF L.type = "conv2d" THEN [NoScratch EXCEPT !.cols_f32 = K * N] ELSE NoScratch

ScratchNeeds(L, in, out) ==
    LET K == L.a * L.k * L.k  N == out.h * out.w  q == L.dtype = "i8" IN
    CASE L.type = "dense" /\ q -> [NoScratch EXCEPT !.q_in = L.a, !.acc = L.b]
      [] L.type = "conv2d" /\ q ->
            [NoScratch EXCEPT !.q_in = Elems(in), !.cols_i8 = K * N, !.acc = L.b * N]
      [] L.type = "conv2d" /\ ~q -> [NoScratch EXCEPT !.cols_f32 = K * N]
      [] OTHER -> NoScratch

AlignUp(n) == ((n + Align - 1) \div Align) * Align

\* The dimensions Reader::dim and the tensor limits accept.
WithinLimits(L, out) ==
    /\ \A f \in (CASE L.type = "dense" -> {"a", "b"}
                   [] L.type = "conv2d" -> {"a", "b", "k", "stride"}
                   [] L.type = "maxpool2d" -> {"k", "stride"}
                   [] OTHER -> {}) : L[f] \in 1..MaxDim
    /\ L.pad <= MaxDim
    /\ (L.type \notin Weighted => L.dtype = "f32")
    /\ WeightCount(L) <= MaxElems /\ Elems(out) <= MaxElems

\* Mutant: the blocks are summed and the sum is aligned once.
SumAligned(blocks) == AlignUp(Total(blocks))

\* The arena bytes of a sequence of blocks, each starting aligned.
ArenaBytes(blocks) == Total([i \in DOMAIN blocks |-> AlignUp(blocks[i])])

InputFits(in, layers) == /\ {in.c, in.h, in.w} \subseteq 1..MaxDim
                         /\ Elems(in) <= MaxElems /\ layers \in 1..MaxLayers

\* Pass 1 of load_from_memory: one layer, with the output it was planned for.
AddLayer(r, image, L, out) ==
    LET weights == IF L.type \in Weighted THEN <<WeightBytes(L), 4 * BiasCount(L)>> ELSE <<>>
    IN  IF ~(r.ok /\ BlobsMatch(image, r.at, L) /\ out # Refused /\ WithinLimits(L, out))
        THEN [r EXCEPT !.ok = FALSE]
        ELSE [ok |-> TRUE, at |-> After(image, r.at, L),
              layers |-> Append(r.layers, L), shapes |-> Append(r.shapes, out),
              blocks |-> r.blocks \o weights,
              required |-> r.required + ArenaBytes(weights),
              weights |-> r.weights + WeightBytes(L) + 4 * BiasCount(L),
              macs |-> r.macs + LayerMacs(L, out),
              maxAct |-> Larger(r.maxAct, Larger(Elems(Last(r.shapes)), Elems(out))),
              scratch |-> [f \in DOMAIN NoScratch |->
                  Larger(r.scratch[f], ScratchNeeds(L, Last(r.shapes), out)[f])]]

PlanAndAdd(r, image, L) == AddLayer(r, image, L, PlanLayer(L, Last(r.shapes)))

ParseLayers(image, input) ==
    FoldLeft(LAMBDA r, i : PlanAndAdd(r, image, ReadLayer(image, r.at)),
             [ok |-> InputFits(input, image[2].value), at |-> 6, layers |-> <<>>,
              shapes |-> <<input>>, blocks |-> <<>>, required |-> 0, weights |-> 0,
              macs |-> 0, maxAct |-> 0, scratch |-> NoScratch],
             [i \in 1..image[2].value |-> i])

\* The activation and scratch buffers follow the weights.
WithBuffers(r, image, cap, buffers, required) ==
    [r EXCEPT !.ok = r.ok /\ r.at = Len(image) + 1 /\ (cap = 0 \/ required <= cap),
              !.blocks = r.blocks \o buffers, !.required = required]

AddBuffers(r, image, cap) ==
    LET buffers == <<4 * r.maxAct, 4 * r.maxAct, r.scratch.q_in, r.scratch.cols_i8,
                     4 * r.scratch.cols_f32, 4 * r.scratch.acc>>
    IN  WithBuffers(r, image, cap, buffers, r.required + ArenaBytes(buffers))

\* load_from_memory up to the allocation: what is required and what is placed.
LoadFromMemory(image, cap) ==
    AddBuffers(ParseLayers(image, Shape(image[3].value, image[4].value, image[5].value)), image, cap)

\* Pass 2: Arena::alloc places the blocks one after the other.
Place(blocks) ==
    FoldLeft(LAMBDA arena, n :
                 LET off == AlignUp(arena.used) IN
                 [used |-> off + n, at |-> Append(arena.at, off)],
             [used |-> 0, at |-> <<>>], blocks)

-----------------------------------------------------------------------------
(* C++: Model::run and the layers' loops.                                  *)

\* The buffers of step i: the caller's input and output at the two ends, the
\* two activation buffers in turn between them.
Buffer(i, n) == IF i = 0 THEN "input" ELSE IF i = n THEN "output"
                ELSE IF i % 2 = 1 THEN "act_a" ELSE "act_b"

\* How many elements each array must have for what forward() touches.
Touched(L, in, out) ==
    LET K == L.a * L.k * L.k  N == out.h * out.w  q == L.dtype = "i8"
        conv == L.type = "conv2d"  dense == L.type = "dense"
        lastRow == (out.h - 1) * L.stride + L.k
        lastCol == (out.w - 1) * L.stride + L.k
    IN  [in |-> IF dense THEN L.a
                ELSE IF L.type = "maxpool2d"
                THEN ((in.c - 1) * in.h + lastRow - 1) * in.w + lastCol
                ELSE Elems(in),
         out |-> IF dense THEN L.b ELSE IF conv THEN L.b * N
                 ELSE IF L.type = "maxpool2d" THEN in.c * N ELSE Elems(in),
         q_in |-> IF q /\ dense THEN L.a ELSE IF q /\ conv THEN Elems(in) ELSE 0,
         cols_i8 |-> IF q /\ conv THEN K * N ELSE 0,
         cols_f32 |-> IF ~q /\ conv THEN K * N ELSE 0,
         acc |-> IF q /\ dense THEN L.b ELSE IF q /\ conv THEN L.b * N ELSE 0]

\* Mutant: the full row tiles go on while a row is left.
RowTilesTo(M) == {<<i, MR>> : i \in {i \in 0..(M - 1) : i % MR = 0}}

\* gemm_tiled: full tiles of rows, then single ones.
RowTiles(M) == {<<i, MR>> : i \in {i \in 0..(M - MR) : i % MR = 0}}
                   \cup {<<i, 1>> : i \in (M - (M % MR))..(M - 1)}

\* Every tile of every K block; it adds its products to its cells, or stores
\* them when its block is the first.  Left-over columns are one tile.
Tiles(M, N, K) ==
    LET full == N - (N % NR)
        Blocks == {k0 \in 0..(K - 1) : k0 % KC = 0}
        ColTiles == {<<j, NR>> : j \in {j \in 0..(full - 1) : j % NR = 0}}
        Tile(k0, r, c) == [k0 |-> k0, kc |-> IF KC < K - k0 THEN KC ELSE K - k0,
                           i |-> r[1], rows |-> r[2], j |-> c[1], cols |-> c[2],
                           accumulate |-> k0 > 0]
    IN  {Tile(k0, r, c) : k0 \in Blocks, r \in RowTiles(M), c \in ColTiles}
        \cup {Tile(k0, <<0, M>>, <<full, N - full>>) :
                 k0 \in (IF full < N THEN Blocks ELSE {})}

\* check_ram without the C++ engine.
RamEstimate(m) ==
    PyWeightsBytes(m) + 8 * Max({Elems(s) : s \in Range(PyShapes(m))})

-----------------------------------------------------------------------------
(* Properties.                                                             *)

\* A model numpy plans: no layer was refused, no output is empty, and a flat
\* output (a tuple of one) is not given to a layer that unpacks three.
Planned(m) ==
    /\ \A s \in Range(PyShapes(m)) : s.c > 0 /\ s.h > 0 /\ s.w > 0
    /\ \A i, j \in DOMAIN m.layers :
          (i < j /\ m.layers[i].type \in {"dense", "flatten"})
              => m.layers[j].type \notin {"conv2d", "maxpool2d"}

\* A model numpy's forward runs as planned: every pooling window divides what
\* it is given, and what a dense layer multiplies was flattened (x @ W takes
\* the last axis of an image).  Planning asks for neither, nor does C++.
Runnable(m) ==
    /\ Planned(m)
    /\ \A i \in DOMAIN m.layers :
          LET L == m.layers[i]  in == PyShapes(m)[i] IN
          /\ L.type = "maxpool2d" => in.h % L.k = 0 /\ in.w % L.k = 0
          /\ L.type = "dense" => \E j \in 1..(i - 1) : m.layers[j].type = "flatten"

\* The engine refuses a model numpy plans only for its limits.
InLimits(m) ==
    /\ \A i \in DOMAIN m.layers : WithinLimits(m.layers[i], PyShapes(m)[i + 1])
    /\ InputFits(m.input, Len(Specs(m)))

\* What numpy plans and saves, the engine loads with the same layers, shapes,
\* costs and weights, and numpy reads the file back: encoder, two readers and
\* two planners agree.  That numpy can also run it is not said: see Runnable.
EnginesAgree(m, image) ==
    LET Agree(py, cpp) ==
            /\ PyLoads(image, py) /\ py.layers = Specs(m)
            /\ (cpp.ok <=> InLimits(m))
            /\ cpp.ok =>
                  /\ cpp.layers = Specs(m)
                  /\ SubSeq(cpp.shapes, 1, Len(m.layers) + 1) = PyShapes(m)
                  /\ cpp.macs = PyMacs(m)
                  /\ cpp.weights = PyWeightsBytes(m)
    IN  Planned(m) => Agree(ReadSwm(image), LoadFromMemory(image, 0))

\* A model that was accepted under a cap is placed without an overflow: the
\* bytes added up beforehand are enough for the blocks, aligned and apart,
\* and a device the estimate without the engine refuses is refused by the
\* engine too.
PlacementFits(m, cap, image) ==
    LET Fits(r, arena) ==
            r.ok =>
            /\ arena.used <= r.required /\ (cap = 0 \/ r.required <= cap)
            /\ \A i \in DOMAIN r.blocks :
                  /\ arena.at[i] % Align = 0
                  /\ \A j \in 1..(i - 1) : arena.at[j] + r.blocks[j] <= arena.at[i]
            /\ (Planned(m) /\ cap # 0) => RamEstimate(m) <= cap
        Placed(r) == Fits(r, Place(r.blocks))
    IN  Placed(LoadFromMemory(image, cap))

\* Running what numpy plans, every layer reads and writes inside the buffer it
\* is given, never writes the buffer it reads, and has the scratch it uses; of
\* a model numpy runs too, no layer leaves a part of what it is given unread.
RunStaysInside(m, image) ==
    LET Inside(r) ==
            LET n == Len(r.layers)
                Size(i) == IF i = 0 THEN Elems(m.input)
                           ELSE IF i = n THEN Elems(Last(r.shapes)) ELSE r.maxAct
                Uses(i, t) ==
                    /\ Buffer(i - 1, n) # Buffer(i, n)
                    /\ t.in <= Size(i - 1) /\ t.in <= Elems(r.shapes[i])
                    /\ Runnable(m) => t.in = Elems(r.shapes[i])
                    /\ t.out <= Size(i)
                    /\ \A f \in DOMAIN NoScratch : t[f] <= r.scratch[f]
            IN  r.ok => \A i \in 1..n : Uses(i, Touched(r.layers[i], r.shapes[i], r.shapes[i + 1]))
    IN  Planned(m) => Inside(LoadFromMemory(image, 0))

\* Tiled multiplication stays inside its matrices and computes every cell
\* from every product exactly once, starting it afresh in the first K block.
TilesExact(M, N, K) ==
    /\ \A t \in Tiles(M, N, K) :
          t.i + t.rows <= M /\ t.j + t.cols <= N /\ t.k0 + t.kc <= K
    /\ \A i \in 0..(M - 1), j \in 0..(N - 1), k \in 0..(K - 1) :
          \E t \in Tiles(M, N, K) :
             LET covers(u) == /\ i \in u.i..(u.i + u.rows - 1)
                              /\ j \in u.j..(u.j + u.cols - 1)
                              /\ k \in u.k0..(u.k0 + u.kc - 1)
             IN  /\ covers(t) /\ (t.accumulate <=> t.k0 # 0)
                 /\ \A u \in Tiles(M, N, K) : covers(u) => u = t

=============================================================================
