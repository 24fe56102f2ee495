--------------------------- MODULE MCJobLifecycle ---------------------------
(* Instances of JobLifecycle for TLC.                                       *)
EXTENDS JobLifecycle, TLC

\* Workers are interchangeable where no property names one of them over time.
WorkerSymmetry == Permutations(Workers)
=============================================================================
