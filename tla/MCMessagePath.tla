--------------------------- MODULE MCMessagePath ---------------------------
(* Constants for the run of MessagePath. *)
EXTENDS MessagePath

(* The names a, b, ab, bb and b|: a and bb joined are ab and b joined, a is *)
(* a prefix of ab, and the last one takes a line apart.                    *)
MCNameOf == << <<97>>, <<98>>, <<97, 98>>, <<98, 98>>, <<98, 124>> >>

MCGroupIds == {<<49>>, <<49, 124>>}

(* Lengths of every remainder by three, with the extreme bytes, zero among *)
(* them, that a text may end in.                                           *)
MCTexts == {<<>>, <<0>>, <<255, 0>>, <<61, 124, 255>>}

=============================================================================
