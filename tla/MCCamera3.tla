------------------------------ MODULE MCCamera3 ------------------------------
(***************************************************************************)
(* Instances of Camera3 for TLC.                                           *)
(***************************************************************************)
EXTENDS Camera3

CONSTANTS preview, video, jpeg, h1, h2

PreviewAndJpeg == {preview, jpeg}
PreviewAndVideo == {preview, video}
JpegStreams  == {jpeg}
VideoStreams == {video}
NoStreams    == {}
Sizes == [s \in Streams |-> IF s = preview THEN 1 ELSE 2]
TwoHandles == {h1, h2}
OneHandle  == {h1}
=============================================================================
