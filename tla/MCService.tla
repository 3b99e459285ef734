------------------------------ MODULE MCService ------------------------------
(* Service for TLC.  Request threads are interchangeable, but liveness is    *)
(* checked, so there is no symmetry.                                         *)
EXTENDS Service

CONSTANTS l1, l2, t1, t2, h1

MCLoops == {l1, l2}
MCTrainers == {t1, t2}
MCHandlers == {h1}
=============================================================================
