------------------------- MODULE MCLivenessService -------------------------
(* Values for LivenessService's runs. *)
EXTENDS LivenessService, TLC

CONSTANTS face1, face2, face3, pic1, pic2, r1, r2

OneFace == {face1}
TwoFaces == {face1, face2}
ThreeFaces == {face1, face2, face3}
OnePicture == {pic1}
TwoPictures == {pic1, pic2}

(* Every picture is similar to itself only. *)
Identical == {<<x, x>> : x \in Pictures}

(* No duplicates are ever found: PHashMinDistance = 0, which Validate allows. *)
NoneSimilar == {}

(* face1 and face2 are within the identity threshold of each other. *)
Lookalikes == {<<x, x>> : x \in Faces} \cup {<<face1, face2>>, <<face2, face1>>}

SelfOnly == {<<x, x>> : x \in Faces}

OneRequest == {r1}
TwoRequests == {r1, r2}

Symmetry == Permutations(Faces) \cup Permutations(Requests)
============================================================================
