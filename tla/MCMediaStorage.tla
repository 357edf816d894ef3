--------------------------- MODULE MCMediaStorage ---------------------------
EXTENDS MediaStorage, TLC

\* Every file of at most five chunks, and every one of at most four tokens after SOI.
ShortImages ==
  [mime : {"image/png"}, parts : BoundedSeq(PngTypes, 5)]
    \union [mime : {"image/jpeg"}, parts : BoundedSeq(JpegTypes, 4)]

Symmetry == Permutations(Calls)
=============================================================================
