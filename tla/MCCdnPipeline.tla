----------------------------- MODULE MCCdnPipeline -----------------------------
(* Small instances of CdnPipeline for TLC. *)
EXTENDS CdnPipeline, TLC

CONSTANTS d1, h1

\* The one Discord link of these instances leads to the content h1.
MCContentOf == d1 :> h1

\* Workers are interchangeable, and so are row ids.
MCSymmetry == Permutations(Worker) \cup Permutations(Image)
===============================================================================
