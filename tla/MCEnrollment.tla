---------------------------- MODULE MCEnrollment ----------------------------
(* Values for Enrollment's runs. *)
EXTENDS Enrollment, TLC

(* Every face is alike itself only. *)
Alike == {<<f, f>> : f \in Faces}

Symmetry ==
  Permutations(Sessions) \cup Permutations(Tokens) \cup Permutations(FaceIds)
    \cup Permutations(Faces) \cup Permutations(Requests) \cup Permutations(Subjects)
=============================================================================
