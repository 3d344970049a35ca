------------------------------ MODULE MCWatch ------------------------------
(***************************************************************************)
(* Small cards for Watch, all on one stem.  The camera writes a JPEG and   *)
(* its RAW, or two JPEGs that collide, or uses one JPEG name again.        *)
(***************************************************************************)
EXTENDS Watch

CONSTANTS g, a, b

AllContent == Finished \cup Unfinished

SmallRolls ==
    { {<<Jpeg(g), a>>, <<Raw(g), b>>},
      {<<Jpeg(g), a>>, <<<<g, "jpeg">>, b>>},
      {<<Jpeg(g), a>>, <<Jpeg(g), b>>, <<Jpeg(g), None>>} }

\* These cards keep to what OnePressOneCapture takes of a camera.
ASSUME CameraKeepsPairs == PairsAreQuick /\ PairsAreWhole

\* Room, and a volume whose free bytes have run out.
RoomAndFull == {<<"healthy", "healthy">>, <<"critical", "healthy">>}

=============================================================================
