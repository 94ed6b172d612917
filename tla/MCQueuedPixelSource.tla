------------------------ MODULE MCQueuedPixelSource ------------------------
(* Three shapes: two of one area (a window and its transpose) and a larger *)
(* one; symmetric buffers, one more than the source should ever need.      *)
EXTENDS QueuedPixelSource, TLC

MCArea == [s \in Shapes |-> IF s = "large" THEN 2 ELSE 1]

BufferSymmetry == Permutations(Buffers)
=============================================================================
