------------------------- MODULE MCCapturePipeline -------------------------
(***************************************************************************)
(* Small cards for TLC.  Stems g and h; contents a, b, c; each cfg picks a *)
(* card, what happens to it, and the faults.                               *)
(***************************************************************************)
EXTENDS CaptureClaims, TLC

CONSTANTS g, h, a, b, c, s1, s2

Card(files) == [p \in Path |-> IF \E f \in files : f[1] = p
                               THEN (CHOOSE f \in files : f[1] = p)[2] ELSE None]

\* Nothing tells one sweep from another.
SweepsAlike == Permutations(Sweeper)

EmptyCard == {Card({})}

\* A pair whose halves arrive in either order, and a filename used again.
PairEdits == {<<Jpeg(g), a>>, <<Raw(g), b>>, <<Jpeg(g), c>>}

\* Two JPEGs that collide over one stem with the same bytes, one of them
\* overwritten, and a RAW too large to send.
TwinCard  == {Card({<<Jpeg(g), a>>, <<<<g, "jpeg">>, a>>})}
TwinEdits == {<<Jpeg(g), b>>, <<Raw(g), c>>}

\* Left alone on the card: a JPEG+RAW pair and a RAW on its own, or two RAWs
\* that collide.
SteadyCards == {Card({<<Jpeg(g), a>>, <<Raw(g), b>>, <<Raw(h), c>>}),
                Card({<<Raw(g), a>>, <<<<g, "dng">>, b>>})}

NoEdits == {}

\* One JPEG, and the RAW half that arrives after it.
JpegCard == {Card({<<Jpeg(g), a>>})}
LateRawEdit == {<<Raw(g), b>>}

\* A JPEG+RAW pair, and its JPEG written again.
PairCard == {Card({<<Jpeg(g), a>>, <<Raw(g), b>>})}
NewJpegEdit == {<<Jpeg(g), c>>}
=============================================================================
