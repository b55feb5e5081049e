----------------------------- MODULE MCPublicUpload -----------------------------
(* Model-checking instance of PublicUpload.                                  *)
EXTENDS PublicUpload
=================================================================================
