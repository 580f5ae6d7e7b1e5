---------------------------- MODULE MCModelStore ----------------------------
(* Values for ModelStore's run: a model of one file, an archive of two and a  *)
(* model built locally, as the manifest of the repository has them.           *)
EXTENDS ModelStore, TLC

CONSTANTS single, archive, built, f1, f2, f3, f4, v1, v2

Yields == (single :> {f1}) @@ (archive :> {f2, f3}) @@ (built :> {f4})
=============================================================================
