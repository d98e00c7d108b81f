--------------------------- MODULE MCCaptureQueue ---------------------------
(* Small instances of CaptureQueue; the configurations choose the bounds. *)
EXTENDS CaptureQueue, TLC

TitleOrIsbn == {{"title"}, {"isbn"}}
Interchangeable == Permutations(People) \cup Permutations(Requests)
=============================================================================
