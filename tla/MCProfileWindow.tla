--------------------------- MODULE MCProfileWindow ---------------------------
(* A published window before the profiled one and one after it.               *)
EXTENDS ProfileWindow

MCWindows == <<"published", "profiled", "published">>
=============================================================================
