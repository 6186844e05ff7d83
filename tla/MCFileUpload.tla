---------------------------- MODULE MCFileUpload ----------------------------
(* Two uploads under one name and one request, for one slot. *)
EXTENDS FileUpload
CONSTANTS u1, u2, a1
MCUploads == {u1, u2}
MCAsks == {a1}
MCNames == {"f"}
MCNameOf == [u \in MCUploads |-> "f"]
=============================================================================
